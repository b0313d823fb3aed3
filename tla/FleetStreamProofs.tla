-------------------------- MODULE FleetStreamProofs --------------------------
(***************************************************************************)
(* Proofs about FleetStream for any fleet, any part of it unreadable, and  *)
(* any number of layouts and crashes.                                      *)
(***************************************************************************)
EXTENDS FleetStream, TLAPS

\* What a queue is when a message has joined it.
LEMMA AppendFacts ==
    ASSUME NEW S, NEW q \in Seq(S), NEW e \in S
    PROVE  /\ Append(q, e) \in Seq(S)
           /\ Len(q) \in Nat /\ Len(Append(q, e)) = Len(q) + 1
           /\ \A i \in 1..Len(q) : Append(q, e)[i] = q[i]
           /\ Append(q, e)[Len(q) + 1] = e
OBVIOUS

\* What a queue is when its first message has been taken.
LEMMA TailFacts ==
    ASSUME NEW S, NEW q \in Seq(S), q # <<>>
    PROVE  /\ Tail(q) \in Seq(S)
           /\ Len(q) \in Nat \ {0} /\ Len(Tail(q)) = Len(q) - 1
           /\ \A i \in 1..Len(Tail(q)) : Tail(q)[i] = q[i + 1]
           /\ Head(q) = q[1] /\ q[1] \in S
OBVIOUS

\* A queue that is lost has nothing in it.
LEMMA EmptyFacts ==
    ASSUME NEW S
    PROVE  /\ <<>> \in Seq(S) /\ Len(<<>>) = 0 /\ 1..Len(<<>>) = {}
OBVIOUS

QueueTyped == \A i \in 1..Len(queue) : queue[i][1] \in Aliases /\ queue[i][2] \in Nat

\* Messages in the queue name a scada and one of its layouts.
LEMMA QueueTypes ==
    ASSUME queue \in Seq(Aliases \X Layouts)
    PROVE  QueueTyped
<1> SUFFICES ASSUME NEW i \in 1..Len(queue)
             PROVE  queue[i][1] \in Aliases /\ queue[i][2] \in Nat
  BY DEF QueueTyped
<1>1. queue[i] \in Aliases \X Layouts
  OBVIOUS
<1> QED BY <1>1, FleetAssumption DEF Layouts

\* Before anything is read no layout is.
LEMMA NoRowsType == NoRows \in [Aliases -> Layouts] /\ \A a \in Aliases : NoRows[a] = 0
BY FleetAssumption DEF NoRows, Layouts

\* It holds at the start.
LEMMA InitInductive == Init => Inductive
<1> SUFFICES ASSUME Init PROVE Inductive
  OBVIOUS
<1>1. TypeOK
  <2>1. sent \in [Aliases -> Layouts]
    BY FleetAssumption DEF Init, Layouts
  <2> QED BY <2>1, NoRowsType, EmptyFacts, FleetAssumption DEF Init, TypeOK, Phases, Layouts
<1>2. Staged
  BY DEF Init, Staged
<1>3. NothingInvented
  <2> SUFFICES ASSUME NEW a \in Aliases
               PROVE  projected[a] <= sent[a] /\ rows[a] <= sent[a] /\ held[a] <= sent[a]
    BY DEF NothingInvented
  <2>1. sent[a] \in Nat /\ projected[a] = sent[a] /\ rows[a] = 0 /\ held[a] = 0
    BY NoRowsType DEF Init
  <2> QED BY <2>1
<1>4. QueueInOrder /\ LastIsSent
  BY EmptyFacts DEF Init, QueueInOrder, LastIsSent
<1>5. Accounted
  BY DEF Init, Accounted
<1> QED BY <1>1, <1>2, <1>3, <1>4, <1>5 DEF Inductive

\* A step that leaves the queue empty has nothing to show of it.
LEMMA EmptyQueue ==
    ASSUME queue' = <<>>
    PROVE  QueueInOrder' /\ LastIsSent'
BY EmptyFacts DEF QueueInOrder, LastIsSent

\* A scada sends a layout (external): it is queued if the process consumes, else it is
\* missed or still to be read.
LEMMA SendInductive ==
    ASSUME Inductive, NEW a \in Aliases, Send(a)
    PROVE  Inductive'
<1> DEFINE e == <<a, sent'[a]>>
<1>1. /\ sent \in [Aliases -> Layouts] /\ projected \in [Aliases -> Layouts]
      /\ rows \in [Aliases -> Layouts] /\ held \in [Aliases -> Layouts]
      /\ queue \in Seq(Aliases \X Layouts) /\ pc \in Phases
  BY DEF Inductive, TypeOK
<1>2. /\ sent' = [sent EXCEPT ![a] = sent[a] + 1] /\ sent[a] < MaxLayouts
      /\ UNCHANGED <<projected, rows, held, pc, crashes>>
  BY DEF Send
<1>3. /\ sent' \in [Aliases -> Layouts]
      /\ sent'[a] = sent[a] + 1 /\ sent'[a] \in Layouts
      /\ \A b \in Aliases : b # a => sent'[b] = sent[b]
      /\ \A b \in Aliases : sent[b] <= sent'[b] /\ sent[b] \in Nat
  BY <1>1, <1>2, FleetAssumption DEF Layouts
<1>4. CASE pc # "consuming"
  <2>1. queue' = <<>> /\ queue = <<>>
    BY <1>4 DEF Send, Inductive, Staged
  <2>2. TypeOK' /\ Staged'
    BY <1>2, <1>3, <1>4, <2>1, EmptyFacts DEF Send, Inductive, TypeOK, Staged
  <2>3. NothingInvented'
    BY <1>1, <1>2, <1>3 DEF Inductive, NothingInvented, Layouts
  <2>4. Accounted'
    <3>1. \A b \in Readable \ missed' : b # a \/ pc \in {"down", "reading"}
      BY <1>4 DEF Send
    <3>2. missed \subseteq missed'
      BY DEF Send
    <3> QED BY <1>2, <1>3, <1>4, <3>1, <3>2 DEF Inductive, Accounted, Readable
  <2> QED BY <2>1, <2>2, <2>3, <2>4, EmptyQueue DEF Inductive
<1>5. CASE pc = "consuming"
  <2>1. queue' = Append(queue, e) /\ missed' = missed /\ e \in Aliases \X Layouts
    BY <1>3, <1>5 DEF Send
  <2>2. /\ queue' \in Seq(Aliases \X Layouts)
        /\ Len(queue) \in Nat /\ Len(queue') = Len(queue) + 1
        /\ \A i \in 1..Len(queue) : queue'[i] = queue[i]
        /\ queue'[Len(queue) + 1] = e
    <3> HIDE DEF e
    <3> QED BY <1>1, <2>1, AppendFacts
  <2>3. e[1] = a /\ e[2] = sent'[a] /\ QueueTyped
    BY <1>1, QueueTypes
  <2> HIDE DEF e
  <2>4. TypeOK' /\ Staged'
    BY <1>2, <1>3, <1>5, <2>1, <2>2 DEF Inductive, TypeOK, Staged
  <2>5. NothingInvented'
    BY <1>1, <1>2, <1>3 DEF Inductive, NothingInvented, Layouts
  <2>6. \A i \in 1..Len(queue) : i \in 1..Len(queue') /\ queue[i][2] <= sent'[queue[i][1]]
    <3> SUFFICES ASSUME NEW i \in 1..Len(queue)
                 PROVE  i \in 1..Len(queue') /\ queue[i][2] <= sent'[queue[i][1]]
      OBVIOUS
    <3>1. queue[i][1] \in Aliases /\ queue[i][2] \in Nat /\ queue[i][2] <= sent[queue[i][1]]
      BY <2>3 DEF QueueTyped, Inductive, QueueInOrder
    <3>2. sent'[queue[i][1]] \in Nat
      BY <1>3, <3>1, FleetAssumption DEF Layouts
    <3> QED BY <1>3, <2>2, <3>1, <3>2
  <2>7. QueueInOrder'
    <3> SUFFICES ASSUME NEW i \in 1..Len(queue')
                 PROVE  /\ held[queue'[i][1]] <= queue'[i][2]
                        /\ queue'[i][2] <= sent'[queue'[i][1]]
                        /\ \A j \in i+1..Len(queue') :
                              queue'[j][1] = queue'[i][1] => queue'[i][2] <= queue'[j][2]
      BY <1>2 DEF QueueInOrder
    <3>1. CASE i \in 1..Len(queue)
      <4>1. /\ queue'[i] = queue[i] /\ held[queue[i][1]] <= queue[i][2]
            /\ queue[i][2] <= sent'[queue[i][1]]
        BY <2>2, <2>6, <3>1 DEF Inductive, QueueInOrder
      <4>2. ASSUME NEW j \in i+1..Len(queue'), queue'[j][1] = queue'[i][1]
            PROVE  queue'[i][2] <= queue'[j][2]
        <5>1. CASE j \in i+1..Len(queue)
          <6>1. queue'[j] = queue[j]
            BY <2>2, <3>1, <5>1
          <6> QED BY <3>1, <4>1, <4>2, <5>1, <6>1 DEF Inductive, QueueInOrder
        <5>2. CASE j = Len(queue) + 1
          BY <2>2, <2>3, <4>1, <4>2, <5>2
        <5> QED BY <2>2, <3>1, <5>1, <5>2
      <4> QED BY <4>1, <4>2
    <3>2. CASE i = Len(queue) + 1
      <4>1. queue'[i] = e /\ i+1..Len(queue') = {}
        BY <2>2, <3>2
      <4>2. held[a] <= sent'[a] /\ sent'[a] <= sent'[a]
        BY <1>1, <1>3, FleetAssumption DEF Inductive, NothingInvented, Layouts
      <4> QED BY <2>3, <4>1, <4>2
    <3> QED BY <2>2, <3>1, <3>2
  <2>8. LastIsSent'
    <3> SUFFICES ASSUME NEW i \in 1..Len(queue'),
                        \A j \in i+1..Len(queue') : queue'[j][1] # queue'[i][1]
                 PROVE  queue'[i][2] = sent'[queue'[i][1]]
      BY DEF LastIsSent
    <3>1. CASE i = Len(queue) + 1
      BY <2>2, <2>3, <3>1
    <3>2. CASE i \in 1..Len(queue)
      <4>1. queue'[i] = queue[i] /\ Len(queue) + 1 \in i+1..Len(queue') /\ queue[i][1] # a
        BY <2>2, <2>3, <3>2
      <4>2. \A j \in i+1..Len(queue) : j \in i+1..Len(queue') /\ queue'[j] = queue[j]
        BY SMTT(30), <2>2, <3>2
      <4>3. queue[i][2] = sent[queue[i][1]]
        BY <3>2, <4>1, <4>2 DEF Inductive, LastIsSent
      <4>4. queue[i][1] \in Aliases
        BY <2>3, <3>2 DEF QueueTyped
      <4> QED BY <1>3, <4>1, <4>3, <4>4
    <3> QED BY <2>2, <3>1, <3>2
  <2>9. Accounted'
    <3> SUFFICES ASSUME NEW b \in Readable \ missed, b \notin Waiting'
                 PROVE  held[b] = sent'[b]
      BY <1>2, <1>5, <2>1 DEF Accounted
    <3>1. b # a /\ b \notin Waiting
      BY <2>2, <2>3, <2>6 DEF Waiting
    <3> QED BY <1>3, <1>5, <3>1 DEF Inductive, Accounted, Readable
  <2> QED BY <2>4, <2>5, <2>7, <2>8, <2>9 DEF Inductive
<1> QED BY <1>4, <1>5

\* The projection catches up with a scada (external).
LEMMA ProjectInductive ==
    ASSUME Inductive, NEW a \in Aliases, Project(a)
    PROVE  Inductive'
<1>1. /\ projected' = [projected EXCEPT ![a] = sent[a]]
      /\ UNCHANGED <<sent, rows, held, queue, pc, crashes, missed>>
  BY DEF Project
<1>2. TypeOK' /\ Staged'
  BY <1>1 DEF Inductive, TypeOK, Staged
<1>3. NothingInvented'
  BY <1>1, FleetAssumption DEF Inductive, TypeOK, NothingInvented, Layouts
<1>4. QueueInOrder' /\ LastIsSent' /\ Accounted'
  BY <1>1 DEF Inductive, QueueInOrder, LastIsSent, Accounted, Waiting
<1> QED BY <1>2, <1>3, <1>4 DEF Inductive

\* The process starts (server.py lifespan).
LEMMA StartInductive ==
    ASSUME Inductive, Start
    PROVE  Inductive'
<1>1. /\ pc = "down" /\ pc' = "reading"
      /\ UNCHANGED <<sent, projected, rows, held, queue, crashes, missed>>
  BY DEF Start
<1>2. TypeOK' /\ Staged' /\ NothingInvented'
  BY <1>1 DEF Inductive, TypeOK, Staged, NothingInvented, Phases
<1>3. QueueInOrder' /\ LastIsSent' /\ Accounted'
  BY <1>1 DEF Inductive, QueueInOrder, LastIsSent, Accounted
<1> QED BY <1>2, <1>3 DEF Inductive

\* The rows are read (seed_layouts): what they lack and was sent is missed.
LEMMA ReadRowsInductive ==
    ASSUME Inductive, ReadRows
    PROVE  Inductive'
<1>1. /\ pc = "reading" /\ pc' = "seeding" /\ rows' = projected
      /\ missed' = {a \in Aliases : projected[a] < sent[a]}
      /\ UNCHANGED <<sent, projected, held, queue, crashes>>
  BY DEF ReadRows
<1>2. TypeOK' /\ Staged' /\ NothingInvented'
  BY <1>1 DEF Inductive, TypeOK, Staged, NothingInvented, Phases
<1>3. QueueInOrder' /\ LastIsSent'
  BY <1>1 DEF Inductive, QueueInOrder, LastIsSent
<1>4. Accounted'
  <2> SUFFICES ASSUME NEW a \in Readable, ~(projected[a] < sent[a])
               PROVE  projected[a] = sent[a]
    BY <1>1 DEF Accounted, Readable
  <2>1. projected[a] \in Nat /\ sent[a] \in Nat /\ projected[a] <= sent[a]
    BY FleetAssumption DEF Inductive, TypeOK, NothingInvented, Readable, Layouts
  <2> QED BY <2>1
<1> QED BY <1>2, <1>3, <1>4 DEF Inductive

\* The rows cannot be read: everything sent is missed.
LEMMA ReadFailsInductive ==
    ASSUME Inductive, ReadFails
    PROVE  Inductive'
<1>1. /\ pc = "reading" /\ pc' = "connecting"
      /\ missed' = {a \in Aliases : sent[a] # 0}
      /\ UNCHANGED <<sent, projected, rows, held, queue, crashes>>
  BY DEF ReadFails
<1>2. TypeOK' /\ Staged' /\ NothingInvented'
  BY <1>1 DEF Inductive, TypeOK, Staged, NothingInvented, Phases
<1>3. QueueInOrder' /\ LastIsSent'
  BY <1>1 DEF Inductive, QueueInOrder, LastIsSent
<1>4. Accounted'
  BY <1>1, NoRowsType DEF Inductive, Accounted, Staged, Readable
<1> QED BY <1>2, <1>3, <1>4 DEF Inductive

\* What was read goes to the store, where there is nothing yet.
LEMMA SeedStoreInductive ==
    ASSUME Inductive, SeedStore
    PROVE  Inductive'
<1>1. PICK applied \in AppliedRows :
         /\ held' = [a \in Aliases |-> IF a \in applied THEN rows[a] ELSE held[a]]
         /\ missed' = missed \cup (RowsOf(Readable) \ applied)
  BY DEF SeedStore
<1>2. /\ pc = "seeding" /\ pc' = "connecting" /\ rows' = NoRows
      /\ UNCHANGED <<sent, projected, queue, crashes>>
  BY DEF SeedStore
<1>3. queue' = <<>> /\ \A a \in Aliases : held[a] = 0
  BY <1>2, NoRowsType DEF Inductive, Staged
<1>4. TypeOK'
  BY <1>1, <1>2, NoRowsType DEF Inductive, TypeOK, Phases, RowsOf, Readable
<1>5. Staged'
  BY <1>2, <1>3 DEF Staged
<1>6. NothingInvented'
  <2> SUFFICES ASSUME NEW a \in Aliases
               PROVE  projected[a] <= sent[a] /\ rows'[a] <= sent[a] /\ held'[a] <= sent[a]
    BY <1>2 DEF NothingInvented
  <2>1. /\ projected[a] <= sent[a] /\ rows[a] <= sent[a] /\ sent[a] \in Nat
        /\ rows'[a] = 0 /\ held'[a] \in {rows[a], 0}
    BY <1>1, <1>2, <1>3, NoRowsType, FleetAssumption
       DEF Inductive, TypeOK, NothingInvented, Layouts
  <2> QED BY <2>1
<1>7. Accounted'
  <2> SUFFICES ASSUME NEW a \in Readable, a \notin missed, a \notin RowsOf(Readable) \ applied
               PROVE  held'[a] = sent[a]
    BY <1>1, <1>2 DEF Accounted
  <2>1. rows[a] = sent[a] /\ a \in Aliases
    BY <1>2 DEF Inductive, Accounted, Readable
  <2>2. CASE a \in applied
    BY <1>1, <2>1, <2>2
  <2>3. CASE a \notin applied
    <3>1. rows[a] = 0
      BY <2>3 DEF RowsOf
    <3> QED BY <1>1, <1>3, <2>1, <2>3, <3>1
  <2> QED BY <2>2, <2>3
<1> QED BY <1>3, <1>4, <1>5, <1>6, <1>7, EmptyQueue DEF Inductive

\* Connecting, failing to, and waking change the stage alone.
LEMMA StageInductive ==
    ASSUME Inductive,
           UNCHANGED <<sent, projected, rows, held, queue, crashes, missed>>,
           pc \in {"connecting", "restoring", "sleeping"},
           pc' \in {"connecting", "consuming", "sleeping"}
    PROVE  Inductive'
<1>1. TypeOK' /\ Staged' /\ NothingInvented'
  BY DEF Inductive, TypeOK, Staged, NothingInvented, Phases
<1>2. QueueInOrder' /\ LastIsSent'
  BY DEF Inductive, QueueInOrder, LastIsSent
<1>3. Accounted'
  BY DEF Inductive, Accounted
<1> QED BY <1>1, <1>2, <1>3 DEF Inductive

\* The consumer takes the first message of the queue.
LEMMA DeliverInductive ==
    ASSUME Inductive, Deliver
    PROVE  Inductive'
<1> DEFINE a == Head(queue)[1]
           v == Head(queue)[2]
<1>1. /\ pc = "consuming" /\ queue # <<>> /\ queue' = Tail(queue)
      /\ held' = IF a \in Readable THEN [held EXCEPT ![a] = v] ELSE held
      /\ missed' = IF a \in Readable THEN missed \ {a} ELSE missed
      /\ UNCHANGED <<sent, projected, rows, pc, crashes>>
  BY DEF Deliver
<1>2. /\ queue \in Seq(Aliases \X Layouts) /\ held \in [Aliases -> Layouts]
      /\ sent \in [Aliases -> Layouts]
  BY DEF Inductive, TypeOK
<1>3. /\ queue' \in Seq(Aliases \X Layouts)
      /\ Len(queue) \in Nat \ {0} /\ Len(queue') = Len(queue) - 1
      /\ \A i \in 1..Len(queue') : queue'[i] = queue[i + 1]
      /\ a = queue[1][1] /\ v = queue[1][2]
      /\ a \in Aliases /\ v \in Layouts
  BY <1>1, <1>2, TailFacts
<1>4. QueueTyped
  BY <1>2, QueueTypes
<1> HIDE DEF a, v
<1>5. \A i \in 1..Len(queue') : i + 1 \in 1..Len(queue)
  BY <1>3
<1>6. v <= sent[a] /\ held[a] <= v
  BY <1>3 DEF Inductive, QueueInOrder
<1>7. TypeOK' /\ Staged'
  BY <1>1, <1>2, <1>3 DEF Inductive, TypeOK, Staged
<1>8. NothingInvented'
  BY <1>1, <1>2, <1>3, <1>6 DEF Inductive, NothingInvented
<1>9. QueueInOrder'
  <2> SUFFICES ASSUME NEW i \in 1..Len(queue')
               PROVE  /\ held'[queue'[i][1]] <= queue'[i][2]
                      /\ queue'[i][2] <= sent[queue'[i][1]]
                      /\ \A j \in i+1..Len(queue') :
                            queue'[j][1] = queue'[i][1] => queue'[i][2] <= queue'[j][2]
    BY <1>1 DEF QueueInOrder
  <2>1. /\ queue'[i] = queue[i + 1] /\ i + 1 \in 1..Len(queue) /\ i + 1 \in 2..Len(queue)
        /\ queue[i + 1][1] \in Aliases
    BY <1>3, <1>4, <1>5 DEF QueueTyped
  <2>2. /\ held[queue[i + 1][1]] <= queue[i + 1][2]
        /\ queue[i + 1][2] <= sent[queue[i + 1][1]]
    BY <2>1 DEF Inductive, QueueInOrder
  <2>3. queue[i + 1][1] = a => v <= queue[i + 1][2]
    <3>1. 1 \in 1..Len(queue) /\ i + 1 \in 1+1..Len(queue)
      BY <1>3, <2>1
    <3> QED BY <1>3, <3>1 DEF Inductive, QueueInOrder
  <2>4. held'[queue[i + 1][1]] <= queue[i + 1][2]
    BY <1>1, <1>2, <1>3, <2>1, <2>2, <2>3
  <2>5. ASSUME NEW j \in i+1..Len(queue'), queue'[j][1] = queue'[i][1]
        PROVE  queue'[i][2] <= queue'[j][2]
    <3>1. /\ j \in 1..Len(queue') /\ j + 1 \in (i+1)+1..Len(queue)
          /\ queue'[j] = queue[j + 1]
      BY <1>3, <2>5
    <3> QED BY <2>1, <2>5, <3>1 DEF Inductive, QueueInOrder
  <2> QED BY <2>1, <2>2, <2>4, <2>5
<1>10. LastIsSent'
  <2> SUFFICES ASSUME NEW i \in 1..Len(queue'),
                      \A j \in i+1..Len(queue') : queue'[j][1] # queue'[i][1]
               PROVE  queue'[i][2] = sent[queue'[i][1]]
    BY <1>1 DEF LastIsSent
  <2>1. queue'[i] = queue[i + 1] /\ i + 1 \in 1..Len(queue)
    BY <1>3, <1>5
  <2>2. ASSUME NEW j \in (i+1)+1..Len(queue)
        PROVE  queue[j][1] # queue[i + 1][1]
    <3>1. /\ j - 1 \in i+1..Len(queue') /\ j - 1 \in 1..Len(queue')
          /\ (j - 1) + 1 = j
      BY <1>3, <2>2
    <3>2. queue'[j - 1] = queue[j]
      BY <1>3, <3>1
    <3> QED BY <2>1, <3>1, <3>2
  <2> QED BY <2>1, <2>2 DEF Inductive, LastIsSent
<1>11. Accounted'
  <2> SUFFICES ASSUME NEW b \in Readable \ missed', b \notin Waiting'
               PROVE  held'[b] = sent[b]
    BY <1>1 DEF Accounted
  <2>1. b \in Aliases
    BY DEF Readable
  <2>2. \A i \in 2..Len(queue) : queue[i][1] # b
    <3> SUFFICES ASSUME NEW i \in 2..Len(queue) PROVE queue[i][1] # b
      OBVIOUS
    <3>1. i - 1 \in 1..Len(queue') /\ (i - 1) + 1 = i
      BY <1>3
    <3>2. queue'[i - 1] = queue[i]
      BY <1>3, <3>1
    <3> QED BY <3>1, <3>2 DEF Waiting
  <2>3. CASE b = a
    <3>1. /\ 1 \in 1..Len(queue)
          /\ \A j \in 1+1..Len(queue) : queue[j][1] # queue[1][1]
      BY <1>3, <2>2, <2>3
    <3>2. v = sent[a]
      BY <1>3, <3>1 DEF Inductive, LastIsSent
    <3> QED BY <1>1, <1>2, <2>1, <2>3, <3>2
  <2>4. CASE b # a
    <3>1. b \notin missed
      BY <1>1, <2>4
    <3>2. b \notin Waiting
      <4>1. ASSUME NEW i \in 1..Len(queue) PROVE queue[i][1] # b
        <5>1. i = 1 \/ i \in 2..Len(queue)
          BY <1>3
        <5> QED BY <1>3, <2>2, <2>4, <5>1
      <4> QED BY <4>1 DEF Waiting
    <3>3. held[b] = sent[b]
      BY <1>1, <3>1, <3>2 DEF Inductive, Accounted
    <3> QED BY <1>1, <1>2, <2>1, <2>4, <3>3
  <2> QED BY <2>3, <2>4
<1> QED BY <1>7, <1>8, <1>9, <1>10, <1>11 DEF Inductive

\* The connection is lost, and the exclusive queue with it.
LEMMA LostInductive ==
    ASSUME Inductive, ConnectionLost
    PROVE  Inductive'
<1>1. /\ pc = "consuming" /\ pc' \in {"restoring", "sleeping", "connecting"}
      /\ missed' = missed \cup Waiting /\ queue' = <<>>
      /\ UNCHANGED <<sent, projected, rows, held, crashes>>
  BY DEF ConnectionLost, Waiting
<1>2. Waiting \subseteq Aliases
  <2>1. QueueTyped
    BY QueueTypes DEF Inductive, TypeOK
  <2> QED BY <2>1 DEF QueueTyped, Waiting
<1>3. TypeOK'
  BY <1>1, <1>2, EmptyFacts DEF Inductive, TypeOK, Phases
<1>4. Staged' /\ NothingInvented'
  BY <1>1 DEF Inductive, Staged, NothingInvented
<1>5. Accounted'
  BY <1>1 DEF Inductive, Accounted
<1> QED BY <1>1, <1>3, <1>4, <1>5, EmptyQueue DEF Inductive

\* The process dies.
LEMMA CrashInductive ==
    ASSUME Inductive, Crash
    PROVE  Inductive'
<1>1. /\ crashes < MaxCrashes /\ crashes' = crashes + 1 /\ pc' = "down"
      /\ rows' = NoRows /\ held' = NoRows /\ queue' = <<>> /\ missed' = {}
      /\ UNCHANGED <<sent, projected>>
  BY DEF Crash
<1>2. TypeOK'
  BY <1>1, NoRowsType, EmptyFacts, FleetAssumption DEF Inductive, TypeOK, Phases
<1>3. Staged' /\ Accounted'
  BY <1>1 DEF Staged, Accounted
<1>4. NothingInvented'
  <2> SUFFICES ASSUME NEW a \in Aliases
               PROVE  projected[a] <= sent[a] /\ rows'[a] <= sent[a] /\ held'[a] <= sent[a]
    BY <1>1 DEF NothingInvented
  <2>1. projected[a] <= sent[a] /\ sent[a] \in Nat /\ rows'[a] = 0 /\ held'[a] = 0
    BY <1>1, NoRowsType, FleetAssumption DEF Inductive, TypeOK, NothingInvented, Layouts
  <2> QED BY <2>1
<1> QED BY <1>1, <1>2, <1>3, <1>4, EmptyQueue DEF Inductive

\* Every step keeps it.
LEMMA NextInductive == Inductive /\ [Next]_vars => Inductive'
<1> SUFFICES ASSUME Inductive, [Next]_vars PROVE Inductive'
  OBVIOUS
<1>1. CASE UNCHANGED vars
  BY <1>1 DEF vars, Inductive, TypeOK, Staged, NothingInvented, QueueInOrder, LastIsSent,
              Accounted, Waiting
<1>2. CASE Process
  <2>1. CASE Bind
    BY <2>1, StageInductive DEF Bind
  <2>2. CASE ConnectFails
    BY <2>2, StageInductive DEF ConnectFails
  <2>3. CASE Wake
    BY <2>3, StageInductive DEF Wake
  <2> QED BY <1>2, <2>1, <2>2, <2>3, StartInductive, ReadRowsInductive, ReadFailsInductive,
             SeedStoreInductive, DeliverInductive DEF Process
<1> QED BY <1>1, <1>2, SendInductive, ProjectInductive, LostInductive, CrashInductive DEF Next

\* The inductive invariant holds in every reachable state.
THEOREM AlwaysInductive == SafetySpec => []Inductive
<1> QED BY InitInductive, NextInductive, PTL DEF SafetySpec

\* The process, the queue and the rows keep their types.
THEOREM TypeCorrect == SafetySpec => []TypeOK
<1>1. Inductive => TypeOK
  BY DEF Inductive
<1> QED BY <1>1, AlwaysInductive, PTL

\* A drained consumer holds the last layout of every house it can read whose last
\* layout it had a way to see, through any crashes and outages (layouts.py and
\* consumer.py).
THEOREM AlwaysCurrentUnlessMissed == SafetySpec => []CurrentUnlessMissed
<1>1. Inductive => CurrentUnlessMissed
  BY DEF Inductive, CurrentUnlessMissed, Accounted
<1> QED BY <1>1, AlwaysInductive, PTL

\* A step of a process that lives replaces a layout by none older.
LEMMA HeldStep ==
    ASSUME Inductive, [Next]_vars, pc' # "down", NEW a \in Aliases
    PROVE  held'[a] >= held[a]
<1>1. held[a] \in Nat /\ rows[a] \in Nat
  BY FleetAssumption DEF Inductive, TypeOK, Layouts
<1>2. CASE UNCHANGED held
  BY <1>1, <1>2
<1>3. CASE SeedStore
  <2>1. held[a] = 0 /\ held'[a] \in {rows[a], held[a]}
    BY <1>3, NoRowsType DEF SeedStore, Inductive, Staged
  <2> QED BY <1>1, <2>1
<1>4. CASE Deliver
  <2> DEFINE b == Head(queue)[1]
             v == Head(queue)[2]
  <2>1. queue # <<>> /\ held' = IF b \in Readable THEN [held EXCEPT ![b] = v] ELSE held
    BY <1>4 DEF Deliver
  <2>2. queue \in Seq(Aliases \X Layouts) /\ held \in [Aliases -> Layouts]
    BY DEF Inductive, TypeOK
  <2>3. /\ 1 \in 1..Len(queue) /\ b = queue[1][1] /\ v = queue[1][2]
        /\ b \in Aliases /\ v \in Layouts
    BY <2>1, <2>2, TailFacts
  <2> HIDE DEF b, v
  <2>4. held[b] <= v /\ v \in Nat
    BY <2>3, FleetAssumption DEF Inductive, QueueInOrder, Layouts
  <2> QED BY <1>1, <2>1, <2>2, <2>3, <2>4
<1>5. CASE Crash
  BY <1>5 DEF Crash
<1> QED BY <1>2, <1>3, <1>4, <1>5
        DEF Next, Process, vars, Send, Project, Start, ReadRows, ReadFails, Bind, ConnectFails,
            Wake, ConnectionLost

\* While the process lives a house's layout is never replaced by an older one.
THEOREM HeldAlwaysMonotone == SafetySpec => HeldMonotone
<1>1. Inductive /\ [Next]_vars =>
         [pc' # "down" => \A a \in Aliases : held'[a] >= held[a]]_vars
  BY HeldStep
<1> QED BY <1>1, AlwaysInductive, PTL DEF SafetySpec, HeldMonotone
=============================================================================
