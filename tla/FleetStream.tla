----------------------------- MODULE FleetStream -----------------------------
(***************************************************************************)
(* How layouts reach the gateway: once from the layouts projection when    *)
(* the process starts (gateway/layouts.py), then as live messages through  *)
(* an exclusive queue that exists only while the consumer's connection     *)
(* does (gateway/consumer.py).  The scadas, the broker, the projection and *)
(* the service manager are external and modelled from how the gateway      *)
(* uses them.                                                              *)
(*                                                                         *)
(* A layout is the number of times its scada has sent one, 0 for none, so  *)
(* that older and newer are told apart.  The scadas in Unreadable send     *)
(* layout.lite at a version the gateway's sema snapshot does not have.     *)
(* MaxLayouts bounds what a scada sends and MaxCrashes how often the       *)
(* process dies.                                                           *)
(***************************************************************************)
EXTENDS Naturals, Sequences

CONSTANTS
    Aliases,        \* the scadas
    Unreadable,     \* those on a layout version the gateway cannot decode
    MaxLayouts,
    MaxCrashes

ASSUME FleetAssumption ==
    /\ Unreadable \subseteq Aliases
    /\ MaxLayouts \in Nat \ {0}
    /\ MaxCrashes \in Nat

VARIABLES
    sent,       \* sent[a]: the layout a sent last
    projected,  \* projected[a]: a's row of gridworks.layouts
    rows,       \* the rows the process read at start, until it has applied them
    held,       \* held[a]: a's layout in the gateway's store
    queue,      \* the gateway's queue, oldest first; there is none unless bound
    pc,         \* the process
    crashes,
    missed      \* history: the scadas with a layout the gateway had no way to see

vars == <<sent, projected, rows, held, queue, pc, crashes, missed>>

Readable == Aliases \ Unreadable

NoRows == [a \in Aliases |-> 0]

Layouts == 0..MaxLayouts

\* "down"; "reading" and "seeding", the two parts of seed_layouts; then, in
\* run_consumer_forever, "connecting", "consuming", "restoring" while the robust
\* connection reconnects by itself, and "sleeping" before a retry.
Phases == {"down", "reading", "seeding", "connecting", "consuming", "restoring", "sleeping"}

TypeOK ==
    /\ sent \in [Aliases -> Layouts]
    /\ projected \in [Aliases -> Layouts]
    /\ rows \in [Aliases -> Layouts]
    /\ held \in [Aliases -> Layouts]
    /\ queue \in Seq(Aliases \X Layouts)
    /\ pc \in Phases
    /\ crashes \in 0..MaxCrashes
    /\ missed \subseteq Aliases

Init ==
    /\ sent \in [Aliases -> 0..1]
    /\ projected = sent
    /\ rows = NoRows
    /\ held = NoRows
    /\ queue = <<>>
    /\ pc = "down"
    /\ crashes = 0
    /\ missed = {}

-----------------------------------------------------------------------------
(* The fleet, the broker's exchange and the projection. *)

\* The exchange routes a layout to the gateway's queue if there is one.  From the
\* moment the rows are read, a layout that finds no queue will not be seen.
Send(a) ==
    /\ sent[a] < MaxLayouts
    /\ sent' = [sent EXCEPT ![a] = @ + 1]
    /\ queue' = IF pc = "consuming" THEN Append(queue, <<a, sent'[a]>>) ELSE queue
    /\ missed' = IF pc \in {"consuming", "down", "reading"} THEN missed ELSE missed \cup {a}
    /\ UNCHANGED <<projected, rows, held, pc, crashes>>

\* The projection follows the fleet at its own pace.
Project(a) ==
    /\ projected[a] < sent[a]
    /\ projected' = [projected EXCEPT ![a] = sent[a]]
    /\ UNCHANGED <<sent, rows, held, queue, pc, crashes, missed>>

-----------------------------------------------------------------------------
(* The process: start and seed_layouts. *)

Start ==
    /\ pc = "down"
    /\ pc' = "reading"
    /\ UNCHANGED <<sent, projected, rows, held, queue, crashes, missed>>

\* The SELECT.  A row the projection has not brought up to date is a layout missed.
ReadRows ==
    /\ pc = "reading"
    /\ rows' = projected
    /\ missed' = {a \in Aliases : projected[a] < sent[a]}
    /\ pc' = "seeding"
    /\ UNCHANGED <<sent, projected, held, queue, crashes>>

\* The database does not answer: lifespan logs it and starts with no layouts.
ReadFails ==
    /\ pc = "reading"
    /\ missed' = {a \in Aliases : sent[a] # 0}
    /\ pc' = "connecting"
    /\ UNCHANGED <<sent, projected, rows, held, queue, crashes>>

RowsOf(scadas) == {a \in scadas : rows[a] # 0}

\* The loop over the rows, in whatever order the SELECT gave them.  A row that does
\* not decode raises ValueError out of the loop: only the rows before it are applied.
AppliedRows ==
    IF RowsOf(Unreadable) = {} THEN {RowsOf(Readable)} ELSE SUBSET RowsOf(Readable)

SeedStore ==
    /\ pc = "seeding"
    /\ \E applied \in AppliedRows :
          /\ held' = [a \in Aliases |-> IF a \in applied THEN rows[a] ELSE held[a]]
          /\ missed' = missed \cup (RowsOf(Readable) \ applied)
    /\ rows' = NoRows
    /\ pc' = "connecting"
    /\ UNCHANGED <<sent, projected, queue, crashes>>

-----------------------------------------------------------------------------
(* The process: run_consumer_forever and consume. *)

\* Connect, declare a queue of a fresh name, bind it: from here on layouts arrive.
Bind ==
    /\ pc \in {"connecting", "restoring"}
    /\ pc' = "consuming"
    /\ UNCHANGED <<sent, projected, rows, held, queue, crashes, missed>>

\* A mutation: no retry after an exception.
ConnectGivesUp ==
    /\ pc \in {"connecting", "restoring"}
    /\ pc' = "stopped"
    /\ UNCHANGED <<sent, projected, rows, held, queue, crashes, missed>>

\* Connecting, or restoring the connection, raises: sleep five seconds and retry.
ConnectFails ==
    /\ pc \in {"connecting", "restoring"}
    /\ pc' = "sleeping"
    /\ UNCHANGED <<sent, projected, rows, held, queue, crashes, missed>>

Wake ==
    /\ pc = "sleeping"
    /\ pc' = "connecting"
    /\ UNCHANGED <<sent, projected, rows, held, queue, crashes, missed>>

\* A mutation: deliveries taken last first.
DeliverLast ==
    /\ pc = "consuming"
    /\ queue # <<>>
    /\ LET a == queue[Len(queue)][1]  v == queue[Len(queue)][2] IN
       /\ held' = IF a \in Readable THEN [held EXCEPT ![a] = v] ELSE held
       /\ missed' = IF a \in Readable THEN missed \ {a} ELSE missed
    /\ queue' = SubSeq(queue, 1, Len(queue) - 1)
    /\ UNCHANGED <<sent, projected, rows, pc, crashes>>

\* A mutation: a message is applied only when its house has no layout yet.
DeliverOnce ==
    /\ pc = "consuming"
    /\ queue # <<>>
    /\ LET a == Head(queue)[1]  v == Head(queue)[2] IN
       /\ held' = IF a \in Readable /\ held[a] = 0 THEN [held EXCEPT ![a] = v] ELSE held
       /\ missed' = IF a \in Readable THEN missed \ {a} ELSE missed
    /\ queue' = Tail(queue)
    /\ UNCHANGED <<sent, projected, rows, pc, crashes>>

\* handle_message for the oldest message.  One that does not decode is logged; the
\* message is acknowledged either way.
Deliver ==
    /\ pc = "consuming"
    /\ queue # <<>>
    /\ LET a == Head(queue)[1]  v == Head(queue)[2] IN
       /\ held' = IF a \in Readable THEN [held EXCEPT ![a] = v] ELSE held
       /\ missed' = IF a \in Readable THEN missed \ {a} ELSE missed
    /\ queue' = Tail(queue)
    /\ UNCHANGED <<sent, projected, rows, pc, crashes>>

\* The connection is lost, and the exclusive queue with it.  The robust connection
\* restores itself, or the iterator raises, or it ends and consume returns.
ConnectionLost ==
    /\ pc = "consuming"
    /\ pc' \in {"restoring", "sleeping", "connecting"}
    /\ missed' = missed \cup {queue[i][1] : i \in 1..Len(queue)}
    /\ queue' = <<>>
    /\ UNCHANGED <<sent, projected, rows, held, crashes>>

\* The process dies and the service manager starts it again.
Crash ==
    /\ pc # "down"
    /\ crashes < MaxCrashes
    /\ crashes' = crashes + 1
    /\ pc' = "down"
    /\ rows' = NoRows
    /\ held' = NoRows
    /\ queue' = <<>>
    /\ missed' = {}
    /\ UNCHANGED <<sent, projected>>

-----------------------------------------------------------------------------
Process ==
    \/ Start \/ ReadRows \/ ReadFails \/ SeedStore
    \/ Bind \/ ConnectFails \/ Wake \/ Deliver

Next ==
    \/ \E a \in Aliases : Send(a) \/ Project(a)
    \/ Process
    \/ ConnectionLost
    \/ Crash

\* The process always goes on, and of attempts to connect made again and again one
\* succeeds.  The connection need not be lost nor the process die.
Fairness ==
    /\ WF_vars(Process)
    /\ SF_vars(Bind)

SafetySpec == Init /\ [][Next]_vars

Spec == SafetySpec /\ Fairness

-----------------------------------------------------------------------------
(* Properties. *)

\* While a process lives the layout it holds for a house never goes back to an older
\* one: the seed is read before the queue exists and the queue keeps the order
\* (server.py lifespan's seed_layouts before run_consumer_forever).
HeldMonotone ==
    [][pc' # "down" => \A a \in Aliases : held'[a] >= held[a]]_vars

Waiting == {queue[i][1] : i \in 1..Len(queue)}

\* A consumer that has drained its queue holds the last layout of every house it can
\* read, but for those sent when nobody was listening: between the SELECT and the
\* bind, during an outage of the connection, before the projection had them, or left
\* out by a seeding that was cut short.  The next layout of the house ends it.
CurrentUnlessMissed ==
    pc = "consuming" =>
        \A a \in Readable \ (missed \cup Waiting) : held[a] = sent[a]

\* No failure of the database, the broker or a message stops the consumer for good
\* (consumer.py run_consumer_forever, server.py lifespan's except around the seed).
AlwaysConsumesAgain == []<>(pc = "consuming")

\* What the docstring of seed_layouts says of a row the gateway cannot read: it is
\* skipped.  So every row the gateway can read is applied.
UnreadableRowsSkipped ==
    [][pc = "seeding" /\ pc' = "connecting" =>
          \A a \in RowsOf(Readable) : held'[a] = rows[a]]_vars

-----------------------------------------------------------------------------
(* The inductive invariant behind CurrentUnlessMissed and HeldMonotone. *)

\* What each stage is for is done in it: a queue only while consuming, rows only
\* between the SELECT and their application, no layout before that.
Staged ==
    /\ pc # "consuming" => queue = <<>>
    /\ pc # "seeding" => rows = NoRows
    /\ pc \in {"down", "reading", "seeding"} => held = NoRows

NothingInvented ==
    \A a \in Aliases : projected[a] <= sent[a] /\ rows[a] <= sent[a] /\ held[a] <= sent[a]

\* What waits for a house is newer than what it has, newest last, and the last of it
\* is what the scada sent last.
QueueInOrder ==
    \A i \in 1..Len(queue) :
        /\ held[queue[i][1]] <= queue[i][2]
        /\ queue[i][2] <= sent[queue[i][1]]
        /\ \A j \in i+1..Len(queue) :
              queue[j][1] = queue[i][1] => queue[i][2] <= queue[j][2]

LastIsSent ==
    \A i \in 1..Len(queue) :
        (\A j \in i+1..Len(queue) : queue[j][1] # queue[i][1])
            => queue[i][2] = sent[queue[i][1]]

\* A layout that was not missed is in the rows, in the queue or in the store.
Accounted ==
    \A a \in Readable \ missed :
        /\ pc = "seeding" => rows[a] = sent[a]
        /\ pc \in {"connecting", "restoring", "sleeping"} => held[a] = sent[a]
        /\ pc = "consuming" /\ a \notin Waiting => held[a] = sent[a]

\* What every state satisfies and every step preserves: at every stage of the process
\* each layout is on the way to the store or known to be missed (layouts.py
\* seed_layouts and consumer.py consume, one after the other).
Inductive ==
    /\ TypeOK
    /\ Staged
    /\ NothingInvented
    /\ QueueInOrder
    /\ LastIsSent
    /\ Accounted
=============================================================================
