---------------------------- MODULE GatewayProofs ----------------------------
(***************************************************************************)
(* Proofs about Gateway for any houses, clients, layouts and bounds.       *)
(* Inductive is preserved by each action; RegistryExact and CaughtUp       *)
(* follow from it, ViewMonotone and the refinement of RealtimeFeed are     *)
(* properties of each step that starts where Inductive holds.              *)
(***************************************************************************)
EXTENDS Gateway, TLAPS

-----------------------------------------------------------------------------
(* The operators of HouseState. *)

\* A house nobody has heard of is a house, and an empty page a view.
LEMMA EmptyHouseType == EmptyHouse \in House /\ BlankView \in View
BY HouseAssumption DEF EmptyHouse, House, BlankView, View

\* A message sets the fields it carries and leaves the others.
LEMMA ShownFields ==
    ASSUME NEW v \in View, NEW h \in House, NEW m \in Messages
    PROVE  /\ Shown(v, m, h) \in View
           /\ Shown(v, m, h).snapshot = IF m = "snapshot" THEN h.snapshot ELSE v.snapshot
           /\ Shown(v, m, h).series = IF m = "series" THEN h.series ELSE v.series
           /\ Shown(v, m, h).gnode = IF m = "status" THEN h.gnode ELSE v.gnode
           /\ Shown(v, m, h).layout = IF m = "status" THEN h.layout ELSE v.layout
           /\ Shown(v, m, h).received = IF m = "status" THEN h.received ELSE v.received
<1>1. CASE m = "status"
  BY <1>1 DEF Shown, View, House
<1>2. CASE m = "snapshot"
  BY <1>2 DEF Shown, View, House
<1>3. CASE m = "series"
  BY <1>3 DEF Shown, View, House
<1> QED BY <1>1, <1>2, <1>3 DEF Messages

\* What is sent next is there to be sent, and what is skipped is not.
LEMMA FollowingFacts ==
    ASSUME NEW h \in House, NEW m \in Messages
    PROVE  /\ Following(m, h) \in {"snapshot", "series", "end"}
           /\ Following(m, h) = "snapshot" => m = "status" /\ h.snapshot # 0
           /\ Following(m, h) = "series" =>
                 h.series # 0 /\ m # "series" /\ (m = "status" => h.snapshot = 0)
           /\ Following(m, h) = "end" =>
                 /\ m = "series" \/ h.series = 0
                 /\ m = "status" => h.snapshot = 0
BY DEF Following, Messages

\* Every update of a house keeps it a house with a name.
LEMMA UpdateFacts ==
    ASSUME NEW h \in House, NEW a \in Aliases, h.received < MaxReceived
    PROVE  /\ \A l \in Layouts :
                 /\ UpdateLayout(h, a, l) \in House
                 /\ UpdateLayout(h, a, l).gnode # NoAlias
                 /\ UpdateLayout(h, a, l).snapshot = h.snapshot
                 /\ UpdateLayout(h, a, l).received = h.received + 1
           /\ \A t \in 1..MaxStamp, z \in 0..MaxStamp :
                 /\ UpdateSnapshot(h, a, t, z) \in House
                 /\ UpdateSnapshot(h, a, t, z).gnode # NoAlias
                 /\ UpdateSnapshot(h, a, t, z).snapshot = t
                 /\ UpdateSnapshot(h, a, t, z).received = h.received + 1
           /\ \A t \in 1..MaxStamp :
                 /\ UpdateReport(h, a, t) \in House
                 /\ UpdateReport(h, a, t).gnode # NoAlias
                 /\ UpdateReport(h, a, t).snapshot = h.snapshot
                 /\ UpdateReport(h, a, t).received = h.received + 1
<1> DEFINE g == GetOrCreate(h, a)
<1>1. /\ g \in House
      /\ g.gnode # NoAlias
      /\ g.snapshot = h.snapshot
      /\ g.received = h.received
  BY HouseAssumption DEF GetOrCreate, House
<1>2. h.received + 1 \in 0..MaxReceived
  BY HouseAssumption DEF House
<1> HIDE DEF g
<1>3. ASSUME NEW l \in Layouts
      PROVE  /\ [g EXCEPT !.layout = l, !.received = @ + 1] \in House
             /\ [g EXCEPT !.layout = l, !.received = @ + 1].gnode # NoAlias
             /\ [g EXCEPT !.layout = l, !.received = @ + 1].snapshot = h.snapshot
             /\ [g EXCEPT !.layout = l, !.received = @ + 1].received = h.received + 1
  BY <1>1, <1>2 DEF House
<1>4. ASSUME NEW t \in 1..MaxStamp, NEW z \in 0..MaxStamp
      PROVE  /\ [g EXCEPT !.snapshot = t, !.series = z, !.received = @ + 1] \in House
             /\ [g EXCEPT !.snapshot = t, !.series = z, !.received = @ + 1].gnode # NoAlias
             /\ [g EXCEPT !.snapshot = t, !.series = z, !.received = @ + 1].snapshot = t
             /\ [g EXCEPT !.snapshot = t, !.series = z, !.received = @ + 1].received
                   = h.received + 1
  <2>1. t \in 0..MaxStamp
    BY HouseAssumption
  <2> QED BY <1>1, <1>2, <2>1 DEF House
<1>5. ASSUME NEW t \in 1..MaxStamp
      PROVE  /\ [g EXCEPT !.report = t, !.received = @ + 1] \in House
             /\ [g EXCEPT !.report = t, !.received = @ + 1].gnode # NoAlias
             /\ [g EXCEPT !.report = t, !.received = @ + 1].snapshot = h.snapshot
             /\ [g EXCEPT !.report = t, !.received = @ + 1].received = h.received + 1
  <2>1. t \in 0..MaxStamp
    BY HouseAssumption
  <2> QED BY <1>1, <1>2, <2>1 DEF House
<1> QED BY <1>3, <1>4, <1>5 DEF g, UpdateLayout, UpdateSnapshot, UpdateReport

\* A broadcast begins with a status, or is over if nobody listens.
LEMMA NewCastFacts ==
    ASSUME NEW to \in SUBSET Clients, NEW h \in House
    PROVE  /\ NewCast(to, h) \in Casts
           /\ NewCast(to, h).to = to
           /\ NewCast(to, h).cur = Nobody
           /\ NewCast(to, h).next = "status"
           /\ to # {} => NewCast(to, h).house = h
           /\ to = {} => NewCast(to, h) = NoCast
BY EmptyHouseType DEF NewCast, NoCast, Casts, Messages

-----------------------------------------------------------------------------
(* The initial states. *)

\* A seeded house has a name or is empty, and has no snapshot yet.
LEMMA SeededFacts ==
    ASSUME NEW st, Seeded(st), NEW s \in Shorts
    PROVE  /\ st \in [Shorts -> House]
           /\ st[s].gnode = NoAlias => st[s] = EmptyHouse
           /\ st[s].snapshot = 0
<1>1. st[s] \in SeededHouses(s)
  BY DEF Seeded
<1>2. ASSUME NEW a \in Aliases, NEW l \in Layouts,
             st[s] = SeedLayout([EmptyHouse EXCEPT !.gnode = a], a, l)
      PROVE  st[s].gnode = a /\ st[s].snapshot = 0
  <2> DEFINE e == [EmptyHouse EXCEPT !.gnode = a]
  <2>1. e.gnode = a /\ e.snapshot = 0 /\ e \in House
    BY EmptyHouseType DEF EmptyHouse, House
  <2>2. GetOrCreate(e, a) = e
    BY <2>1, HouseAssumption DEF GetOrCreate
  <2>3. st[s] = [e EXCEPT !.layout = l]
    BY <1>2, <2>2 DEF SeedLayout
  <2> HIDE DEF e
  <2> QED BY <2>1, <2>3 DEF House
<1>3. \/ st[s] = EmptyHouse
      \/ \E a \in Aliases, l \in Layouts :
            st[s] = SeedLayout([EmptyHouse EXCEPT !.gnode = a], a, l)
  BY <1>1 DEF SeededHouses
<1>4. st[s] = EmptyHouse \/ (st[s].gnode \in Aliases /\ st[s].snapshot = 0)
  BY <1>2, <1>3
<1> QED BY <1>4, HouseAssumption DEF Seeded, EmptyHouse

\* A process that has just started, at the beginning or after a Restart.
LEMMA StartedInductive ==
    ASSUME Seeded(store),
           clients = [s \in Shorts |-> {}],
           cast = NoCast,
           pc = [c \in Clients |-> "off"],
           open = {},
           view = [c \in Clients |-> BlankView]
    PROVE  Inductive
<1>1. TypeOK
  BY EmptyHouseType DEF TypeOK, Seeded, NoCast, Casts, Messages
<1>2. NamedFirst
  BY SeededFacts DEF NamedFirst
<1>3. RegistryExact /\ OpenRuns
  BY DEF RegistryExact, OpenRuns
<1>4. CastInOrder /\ CastCurrent
  BY DEF CastInOrder, CastCurrent, NoCast
<1>5. StatusShown /\ NotAhead /\ SnapshotShown /\ SeriesShown
  BY DEF StatusShown, NotAhead, SnapshotShown, SeriesShown
<1> QED BY <1>1, <1>2, <1>3, <1>4, <1>5 DEF Inductive

\* It holds at the start.
LEMMA InitInductive == Init => Inductive
BY StartedInductive DEF Init

-----------------------------------------------------------------------------
(* The consumer task. *)

\* An update of one house to a newer one, with its broadcast begun.
LEMMA ApplyInductive ==
    ASSUME Inductive, cast = NoCast,
           NEW s \in Shorts, NEW h \in House, Apply(s, h),
           h.gnode # NoAlias,
           h.snapshot >= store[s].snapshot,
           h.received >= store[s].received
    PROVE  Inductive'
<1> DEFINE to == clients[s]
<1>1. to \in SUBSET Clients
  BY DEF Inductive, TypeOK
<1>2. /\ cast' \in Casts
      /\ cast'.to = to
      /\ cast'.cur = Nobody
      /\ cast'.next = "status"
      /\ to # {} => cast'.house = h
      /\ to = {} => cast' = NoCast
  BY <1>1, NewCastFacts DEF Apply
<1>3. /\ store' \in [Shorts -> House]
      /\ store'[s] = h
      /\ \A r \in Shorts : r # s => store'[r] = store[r]
  BY DEF Apply, Inductive, TypeOK
<1>4. UNCHANGED <<clients, pc, open, view>>
  BY DEF Apply
<1>5. \A c \in open : c \in Clients /\ HouseOf[c] \in Shorts /\ (c \in to <=> HouseOf[c] = s)
  BY GatewayAssumption DEF Inductive, TypeOK, RegistryExact, OpenRuns
<1>6. \A c \in to : HouseOf[c] = s
  BY DEF Inductive, RegistryExact
<1>7. cast.to = {} /\ cast.cur = Nobody /\ cast.next = "status"
  BY DEF NoCast
<1> HIDE DEF to
<1>8. TypeOK'
  BY <1>2, <1>3, <1>4 DEF TypeOK, Inductive
<1>9. RegistryExact' /\ OpenRuns'
  BY <1>4 DEF Inductive, RegistryExact, OpenRuns
<1>10. CastInOrder'
  BY <1>2 DEF CastInOrder
<1>11. CastCurrent'
  BY <1>2, <1>3, <1>6 DEF CastCurrent, PrunedFrom
<1>12. Nobody \notin open
  BY <1>5, GatewayAssumption
<1>13. StatusShown'
  <2> SUFFICES ASSUME NEW c \in open, c \notin to
               PROVE  /\ view[c].gnode = store'[HouseOf[c]].gnode
                      /\ view[c].layout = store'[HouseOf[c]].layout
                      /\ view[c].received = store'[HouseOf[c]].received
    BY <1>2, <1>4, <1>12 DEF StatusShown
  <2>1. store'[HouseOf[c]] = store[HouseOf[c]]
    BY <1>3, <1>5
  <2> QED BY <2>1, <1>7 DEF Inductive, StatusShown
<1>14. NotAhead'
  <2> SUFFICES ASSUME NEW c \in open
               PROVE  /\ view[c].snapshot <= store'[HouseOf[c]].snapshot
                      /\ view[c].received <= store'[HouseOf[c]].received
    BY <1>4 DEF NotAhead
  <2>1. /\ view[c].snapshot <= store[HouseOf[c]].snapshot
        /\ view[c].received <= store[HouseOf[c]].received
    BY DEF Inductive, NotAhead
  <2>2. CASE HouseOf[c] # s
    BY <2>1, <2>2, <1>3, <1>5
  <2>3. CASE HouseOf[c] = s
    <3>1. /\ view[c].snapshot \in Nat /\ view[c].received \in Nat
          /\ store[s].snapshot \in Nat /\ store[s].received \in Nat
          /\ h.snapshot \in Nat /\ h.received \in Nat
      BY <1>5, HouseAssumption DEF Inductive, TypeOK, View, House
    <3> QED BY <2>1, <2>3, <3>1, <1>3
  <2> QED BY <2>2, <2>3
<1>15. SnapshotShown'
  <2> SUFFICES ASSUME NEW c \in open, pc[c] \in {"snapshot", "idle"}, c \notin to
               PROVE  view[c].snapshot = store'[HouseOf[c]].snapshot
    BY <1>2, <1>4, <1>12 DEF SnapshotShown
  <2>1. store'[HouseOf[c]] = store[HouseOf[c]]
    BY <1>3, <1>5
  <2> QED BY <2>1, <1>7 DEF Inductive, SnapshotShown
<1>16. SeriesShown'
  <2> SUFFICES ASSUME NEW c \in open, pc[c] = "idle", c \notin to
               PROVE  \/ view[c].series = store'[HouseOf[c]].series
                      \/ store'[HouseOf[c]].series = 0
    BY <1>2, <1>4 DEF SeriesShown
  <2>1. store'[HouseOf[c]] = store[HouseOf[c]]
    BY <1>3, <1>5
  <2> QED BY <2>1, <1>7 DEF Inductive, SeriesShown
<1>17. NamedFirst'
  BY <1>3 DEF Inductive, NamedFirst
<1> QED
  BY <1>8, <1>9, <1>10, <1>11, <1>13, <1>14, <1>15, <1>16, <1>17 DEF Inductive

\* Every message the handler accepts is such an update.
LEMMA ReceiveIsApply ==
    ASSUME Inductive, Receive
    PROVE  \E s \in Shorts, h \in House :
              /\ cast = NoCast
              /\ Apply(s, h)
              /\ h.gnode # NoAlias
              /\ h.snapshot = store[s].snapshot \/ h.snapshot > store[s].snapshot
              /\ h.received = store[s].received + 1
<1> PICK a \in Aliases : ReceiveLayout(a) \/ ReceiveSnapshot(a) \/ ReceiveReport(a)
  BY DEF Receive
<1> DEFINE s == ShortOf[a]
           g == store[s]
<1>1. s \in Shorts /\ g \in House
  BY GatewayAssumption DEF Inductive, TypeOK
<1>2. cast = NoCast /\ g.received < MaxReceived
  BY DEF ReceiveLayout, ReceiveSnapshot, ReceiveReport, HandlerReturned
<1>3. CASE ReceiveLayout(a)
  <2> PICK l \in Layouts : Apply(s, UpdateLayout(g, a, l))
    BY <1>3 DEF ReceiveLayout
  <2> QED BY <1>1, <1>2, UpdateFacts
<1>4. CASE ReceiveSnapshot(a)
  <2> PICK t \in 1..MaxStamp : /\ Newer(g, t)
                               /\ \E z \in SeriesAfter(g, t) : Apply(s, UpdateSnapshot(g, a, t, z))
    BY <1>4 DEF ReceiveSnapshot
  <2> PICK z \in SeriesAfter(g, t) : Apply(s, UpdateSnapshot(g, a, t, z))
    OBVIOUS
  <2>1. z \in 0..MaxStamp
    BY <1>1, HouseAssumption DEF SeriesAfter, House
  <2>2. t > g.snapshot
    BY <1>1, HouseAssumption DEF Newer, House
  <2> QED BY <1>1, <1>2, <2>1, <2>2, UpdateFacts
<1>5. CASE ReceiveReport(a)
  <2> PICK t \in 1..MaxStamp : Apply(s, UpdateReport(g, a, t))
    BY <1>5 DEF ReceiveReport
  <2> QED BY <1>1, <1>2, UpdateFacts
<1> QED BY <1>3, <1>4, <1>5

\* A message changes a house and begins its broadcast (handle_message, on_house_update).
LEMMA ReceiveInductive == Inductive /\ Receive => Inductive'
<1> SUFFICES ASSUME Inductive, Receive PROVE Inductive'
  OBVIOUS
<1> PICK s \in Shorts, h \in House :
       /\ cast = NoCast
       /\ Apply(s, h)
       /\ h.gnode # NoAlias
       /\ h.snapshot = store[s].snapshot \/ h.snapshot > store[s].snapshot
       /\ h.received = store[s].received + 1
  BY ReceiveIsApply
<1>1. store[s].snapshot \in Nat /\ store[s].received \in Nat /\ h.snapshot \in Nat
  BY HouseAssumption DEF Inductive, TypeOK, House
<1> QED BY <1>1, ApplyInductive

\* What a broadcast leaves: the clients of the list but c, or all of them with c served.
LEMMA CastAfterFacts ==
    ASSUME TypeOK, CastInOrder, NEW c \in cast.to
    PROVE  LET f == Following(cast.next, cast.house) IN
           /\ CastAfter(c, cast.next) \in Casts
           /\ CastWithout(c) \in Casts
           /\ f = "end" => CastAfter(c, cast.next) = CastWithout(c)
           /\ f # "end" =>
                 /\ CastAfter(c, cast.next).to = cast.to
                 /\ CastAfter(c, cast.next).cur = c
                 /\ CastAfter(c, cast.next).next = f
                 /\ CastAfter(c, cast.next).house = cast.house
           /\ CastWithout(c).to = cast.to \ {c}
           /\ CastWithout(c).cur = Nobody
           /\ CastWithout(c).next = "status"
           /\ cast.to \ {c} # {} => CastWithout(c).house = cast.house
           /\ cast.to \ {c} = {} => CastWithout(c) = NoCast
<1> DEFINE f == Following(cast.next, cast.house)
<1>1. /\ cast.to \ {c} \in SUBSET Clients
      /\ cast.house \in House
      /\ cast.next \in Messages
      /\ c \in Clients
  BY DEF TypeOK, Casts
<1>2. f \in {"snapshot", "series", "end"}
  BY <1>1, FollowingFacts
<1>3. /\ CastWithout(c) \in Casts
      /\ CastWithout(c).to = cast.to \ {c}
      /\ CastWithout(c).cur = Nobody
      /\ CastWithout(c).next = "status"
      /\ cast.to \ {c} # {} => CastWithout(c).house = cast.house
      /\ cast.to \ {c} = {} => CastWithout(c) = NoCast
  BY <1>1, NewCastFacts DEF CastWithout
<1>4. ASSUME f = "end" PROVE CastAfter(c, cast.next) = CastWithout(c)
  BY <1>4 DEF CastAfter
<1>5. ASSUME f # "end"
      PROVE  /\ CastAfter(c, cast.next) \in Casts
             /\ CastAfter(c, cast.next).to = cast.to
             /\ CastAfter(c, cast.next).cur = c
             /\ CastAfter(c, cast.next).next = f
             /\ CastAfter(c, cast.next).house = cast.house
  <2>1. CastAfter(c, cast.next) = [cast EXCEPT !.cur = c, !.next = f]
    BY <1>5 DEF CastAfter
  <2>2. f \in Messages
    BY <1>2, <1>5 DEF Messages
  <2> HIDE DEF f
  <2> QED BY <1>1, <2>1, <2>2 DEF TypeOK, Casts
<1> QED BY <1>3, <1>4, <1>5

\* A broadcast writes a client its next message.
LEMMA SendInductive ==
    ASSUME Inductive, NEW c \in Clients, BroadcastSend(c)
    PROVE  Inductive'
<1> DEFINE m == cast.next
           h == cast.house
           f == Following(m, h)
           H == store[HouseOf[c]]
<1>1. /\ c \in cast.to /\ c \in open /\ cast.cur \in {Nobody, c}
      /\ view' = [view EXCEPT ![c] = Shown(view[c], m, h)]
      /\ cast' = CastAfter(c, m)
      /\ UNCHANGED <<store, clients, pc, open>>
  BY DEF BroadcastSend
<1>2. /\ h \in House /\ m \in Messages /\ view \in [Clients -> View]
      /\ H \in House /\ view[c] \in View /\ open \subseteq Clients
      /\ cast.to \subseteq Clients
  BY GatewayAssumption DEF Inductive, TypeOK, Casts
<1>3. /\ view'[c] \in View
      /\ view'[c].snapshot = IF m = "snapshot" THEN h.snapshot ELSE view[c].snapshot
      /\ view'[c].series = IF m = "series" THEN h.series ELSE view[c].series
      /\ view'[c].gnode = IF m = "status" THEN h.gnode ELSE view[c].gnode
      /\ view'[c].layout = IF m = "status" THEN h.layout ELSE view[c].layout
      /\ view'[c].received = IF m = "status" THEN h.received ELSE view[c].received
      /\ \A d \in Clients : d # c => view'[d] = view[d]
  BY <1>1, <1>2, ShownFields
<1>4. PrunedFrom(H, h)
  BY <1>1 DEF Inductive, CastCurrent
<1>5. /\ f \in {"snapshot", "series", "end"}
      /\ f = "snapshot" => m = "status" /\ h.snapshot # 0
      /\ f = "series" => h.series # 0 /\ m # "series" /\ (m = "status" => h.snapshot = 0)
      /\ f = "end" => (m = "series" \/ h.series = 0) /\ (m = "status" => h.snapshot = 0)
  BY <1>2, FollowingFacts
<1>6. /\ cast' \in Casts
      /\ f # "end" => cast'.to = cast.to /\ cast'.cur = c /\ cast'.next = f /\ cast'.house = h
      /\ f = "end" =>
            /\ cast'.to = cast.to \ {c} /\ cast'.cur = Nobody /\ cast'.next = "status"
            /\ cast'.to # {} => cast'.house = h
            /\ cast'.to = {} => cast' = NoCast
  BY <1>1, CastAfterFacts DEF Inductive
<1>7. m # "status" => cast.cur = c
  BY <1>1 DEF Inductive, CastInOrder
<1>8. cast.cur = c => m # "status"
  BY <1>2, GatewayAssumption DEF Inductive, CastInOrder
<1>9. /\ H.snapshot \in Nat /\ H.received \in Nat
      /\ view[c].snapshot \in Nat /\ view[c].received \in Nat
  BY <1>2, HouseAssumption DEF House, View
<1>10. /\ view[c].snapshot <= H.snapshot
       /\ view[c].received <= H.received
  BY <1>1 DEF Inductive, NotAhead
<1> HIDE DEF m, h, f, H
<1>11. TypeOK'
  BY <1>1, <1>2, <1>3, <1>6 DEF Inductive, TypeOK
<1>12. RegistryExact'
  BY <1>1 DEF Inductive, RegistryExact
<1>13. OpenRuns'
  BY <1>1, <1>3 DEF Inductive, OpenRuns
<1>14. CastInOrder'
  <2>1. CASE f = "end"
    BY <1>6, <2>1, GatewayAssumption DEF CastInOrder, NoCast, EmptyHouse
  <2>2. CASE f # "end"
    BY <1>1, <1>5, <1>6, <2>2, GatewayAssumption DEF CastInOrder
  <2> QED BY <2>1, <2>2
<1>15. CastCurrent'
  BY <1>1, <1>6 DEF Inductive, CastCurrent, h
<1>16. StatusShown'
  <2> SUFFICES ASSUME NEW d \in open, d \notin cast'.to \/ cast'.cur = d
               PROVE  /\ view'[d].gnode = store[HouseOf[d]].gnode
                      /\ view'[d].layout = store[HouseOf[d]].layout
                      /\ view'[d].received = store[HouseOf[d]].received
    BY <1>1 DEF StatusShown
  <2>1. CASE d # c
    <3>1. d \notin cast.to /\ view'[d] = view[d]
      BY <1>2, <1>3, <1>6, <2>1, GatewayAssumption
    <3> QED BY <3>1 DEF Inductive, StatusShown
  <2>2. CASE d = c /\ m = "status"
    BY <1>3, <1>4, <2>2 DEF PrunedFrom, H
  <2>3. CASE d = c /\ m # "status"
    BY <1>1, <1>3, <1>7, <2>3 DEF Inductive, StatusShown
  <2> QED BY <2>1, <2>2, <2>3
<1>17. NotAhead'
  <2>1. view'[c].snapshot <= H.snapshot /\ view'[c].received <= H.received
    BY <1>3, <1>4, <1>9, <1>10 DEF PrunedFrom
  <2> QED BY <1>1, <1>2, <1>3, <2>1 DEF Inductive, NotAhead, H
<1>18. SnapshotShown'
  <2> SUFFICES ASSUME NEW d \in open,
                      \/ pc[d] \in {"snapshot", "idle"} /\ d \notin cast'.to
                      \/ cast'.cur = d /\ cast'.next = "series"
               PROVE  view'[d].snapshot = store[HouseOf[d]].snapshot
    BY <1>1 DEF SnapshotShown
  <2>1. CASE d # c
    <3>1. pc[d] \in {"snapshot", "idle"} /\ d \notin cast.to /\ view'[d] = view[d]
      BY <1>2, <1>3, <1>6, <2>1, GatewayAssumption
    <3> QED BY <3>1 DEF Inductive, SnapshotShown
  <2>2. CASE d = c /\ m = "snapshot"
    BY <1>3, <1>4, <2>2 DEF PrunedFrom, H
  <2>3. CASE d = c /\ m = "status"
    <3>1. f # "snapshot"
      BY <1>1, <1>6, <2>3
    <3>2. H.snapshot = 0
      BY <1>4, <1>5, <2>3, <3>1 DEF PrunedFrom
    <3> QED BY <1>3, <1>9, <1>10, <2>3, <3>2 DEF H
  <2>4. CASE d = c /\ m = "series"
    BY <1>1, <1>3, <1>7, <2>4 DEF Inductive, SnapshotShown, m
  <2> QED BY <1>2, <2>1, <2>2, <2>3, <2>4 DEF Messages
<1>19. SeriesShown'
  <2> SUFFICES ASSUME NEW d \in open, pc[d] = "idle", d \notin cast'.to
               PROVE  \/ view'[d].series = store[HouseOf[d]].series
                      \/ store[HouseOf[d]].series = 0
    BY <1>1 DEF SeriesShown
  <2>1. CASE d # c
    <3>1. d \notin cast.to /\ view'[d] = view[d]
      BY <1>2, <1>3, <1>6, <2>1
    <3> QED BY <3>1 DEF Inductive, SeriesShown
  <2>2. CASE d = c
    <3>1. m = "series" \/ h.series = 0
      BY <1>1, <1>5, <1>6, <2>2
    <3> QED BY <1>3, <1>4, <2>2, <3>1 DEF PrunedFrom, H
  <2> QED BY <2>1, <2>2
<1>20. NamedFirst'
  BY <1>1 DEF Inductive, NamedFirst
<1> QED
  BY <1>11, <1>12, <1>13, <1>14, <1>15, <1>16, <1>17, <1>18, <1>19, <1>20 DEF Inductive

\* A send of the broadcast fails, and the client is removed.
LEMMA FailInductive ==
    ASSUME Inductive, NEW c \in Clients, BroadcastFail(c)
    PROVE  Inductive'
<1>1. /\ c \in cast.to /\ c \notin open /\ cast.cur \in {Nobody, c}
      /\ cast' = CastWithout(c)
      /\ UNCHANGED <<store, clients, pc, open, view>>
  BY DEF BroadcastFail
<1>2. /\ cast' \in Casts
      /\ cast'.to = cast.to \ {c} /\ cast'.cur = Nobody /\ cast'.next = "status"
      /\ cast'.to # {} => cast'.house = cast.house
      /\ cast'.to = {} => cast' = NoCast
  BY <1>1, CastAfterFacts DEF Inductive
<1>3. open \subseteq Clients /\ Nobody \notin open
  BY GatewayAssumption DEF Inductive, TypeOK
<1>4. \A d \in open : d \notin cast'.to => d \notin cast.to
  BY <1>1, <1>2
<1>5. \A d \in open : cast'.cur # d
  BY <1>2, <1>3
<1>6. TypeOK' /\ RegistryExact' /\ OpenRuns' /\ NotAhead' /\ NamedFirst'
  BY <1>1, <1>2 DEF Inductive, TypeOK, RegistryExact, OpenRuns, NotAhead, NamedFirst
<1>7. CastInOrder'
  BY <1>2, GatewayAssumption DEF CastInOrder
<1>8. CastCurrent'
  BY <1>1, <1>2 DEF Inductive, CastCurrent
<1>9. StatusShown'
  BY <1>1, <1>4, <1>5 DEF Inductive, StatusShown
<1>10. SnapshotShown'
  BY <1>1, <1>4, <1>5 DEF Inductive, SnapshotShown
<1>11. SeriesShown'
  BY <1>1, <1>4 DEF Inductive, SeriesShown
<1> QED BY <1>6, <1>7, <1>8, <1>9, <1>10, <1>11 DEF Inductive

-----------------------------------------------------------------------------
(* The endpoint tasks. *)

\* The status of its house, written to a client on a new connection or on one that
\* waits for a request; every other client is left alone.
LEMMA WriteStatusFacts ==
    ASSUME Inductive, NEW c \in Clients, WriteStatus(c)
    PROVE  /\ pc' \in [Clients -> {"off", "status", "snapshot", "idle"}]
           /\ view' \in [Clients -> View]
           /\ \A d \in Clients : d # c => pc'[d] = pc[d] /\ view'[d] = view[d]
           /\ pc'[c] \in {"status", "idle"}
           /\ pc'[c] = "idle" => store[HouseOf[c]] = EmptyHouse
           /\ view'[c].gnode = store[HouseOf[c]].gnode
           /\ view'[c].layout = store[HouseOf[c]].layout
           /\ view'[c].received = store[HouseOf[c]].received
           /\ view'[c].snapshot = view[c].snapshot
           /\ view'[c].series = view[c].series
<1> DEFINE h == store[HouseOf[c]]
<1>1. /\ HouseOf[c] \in Shorts /\ h \in House /\ view \in [Clients -> View]
      /\ pc \in [Clients -> {"off", "status", "snapshot", "idle"}]
  BY GatewayAssumption DEF Inductive, TypeOK
<1>2. /\ view' = [view EXCEPT ![c] = Shown(view[c], "status", h)]
      /\ pc' = [pc EXCEPT ![c] = IF h.gnode = NoAlias THEN "idle" ELSE "status"]
  BY DEF WriteStatus
<1>3. /\ Shown(view[c], "status", h) \in View
      /\ Shown(view[c], "status", h).gnode = h.gnode
      /\ Shown(view[c], "status", h).layout = h.layout
      /\ Shown(view[c], "status", h).received = h.received
      /\ Shown(view[c], "status", h).snapshot = view[c].snapshot
      /\ Shown(view[c], "status", h).series = view[c].series
  BY <1>1, ShownFields DEF Messages
<1>4. h.gnode = NoAlias => h = EmptyHouse
  BY <1>1 DEF Inductive, NamedFirst
<1> HIDE DEF h
<1>5. /\ view' \in [Clients -> View]
      /\ view'[c] = Shown(view[c], "status", h)
      /\ \A d \in Clients : d # c => view'[d] = view[d]
  BY <1>1, <1>2, <1>3
<1>6. /\ pc' \in [Clients -> {"off", "status", "snapshot", "idle"}]
      /\ pc'[c] = IF h.gnode = NoAlias THEN "idle" ELSE "status"
      /\ \A d \in Clients : d # c => pc'[d] = pc[d]
  BY <1>1, <1>2
<1> QED BY <1>3, <1>4, <1>5, <1>6 DEF h

\* What a client that has just been written its status has, whatever it had before.
LEMMA StatusInductive ==
    ASSUME Inductive, NEW c \in Clients, WriteStatus(c),
           UNCHANGED <<store, cast>>,
           open' = open \cup {c},
           RegistryExact',
           clients' \in [Shorts -> SUBSET Clients],
           \/ c \in open /\ pc[c] = "idle"
           \/ c \notin open /\ c \notin cast.to
    PROVE  Inductive'
<1> DEFINE h == store[HouseOf[c]]
<1>1. /\ pc' \in [Clients -> {"off", "status", "snapshot", "idle"}]
      /\ view' \in [Clients -> View]
      /\ \A d \in Clients : d # c => pc'[d] = pc[d] /\ view'[d] = view[d]
      /\ pc'[c] \in {"status", "idle"}
      /\ pc'[c] = "idle" => h = EmptyHouse
      /\ view'[c].gnode = h.gnode
      /\ view'[c].layout = h.layout
      /\ view'[c].received = h.received
      /\ view'[c].snapshot = view[c].snapshot
      /\ view'[c].series = view[c].series
  BY WriteStatusFacts
<1>2. /\ HouseOf[c] \in Shorts /\ h \in House /\ view[c] \in View
      /\ open \subseteq Clients
  BY GatewayAssumption DEF Inductive, TypeOK
<1>3. /\ h.snapshot \in Nat /\ h.received \in Nat /\ view[c].snapshot \in Nat
  BY <1>2, HouseAssumption DEF House, View
<1>4. view[c].snapshot <= h.snapshot
  <2>1. CASE c \in open
    BY <2>1 DEF Inductive, NotAhead
  <2>2. CASE c \notin open
    BY <1>3, <2>2 DEF Inductive, OpenRuns, BlankView
  <2> QED BY <2>1, <2>2
<1>5. pc'[c] = "idle" => view'[c].snapshot = h.snapshot /\ h.series = 0
  BY <1>1, <1>3, <1>4 DEF EmptyHouse
<1>6. CastInOrder /\ (cast.cur = c => c \in open)
  BY GatewayAssumption DEF Inductive, CastInOrder
<1>7. \A d \in open' : d # c => d \in open /\ d \in Clients
  BY <1>2
<1> HIDE DEF h
<1>8. TypeOK'
  BY <1>1, <1>2 DEF Inductive, TypeOK
<1>9. OpenRuns'
  BY <1>1, <1>7 DEF Inductive, OpenRuns
<1>10. CastInOrder' /\ CastCurrent' /\ NamedFirst'
  BY DEF Inductive, CastInOrder, CastCurrent, NamedFirst
<1>11. StatusShown'
  BY <1>1, <1>7 DEF Inductive, StatusShown, h
<1>12. NotAhead'
  <2>1. view'[c].snapshot <= h.snapshot /\ view'[c].received <= h.received
    BY <1>1, <1>3, <1>4
  <2> QED BY <1>1, <1>7, <2>1 DEF Inductive, NotAhead, h
<1>13. SnapshotShown'
  <2> SUFFICES ASSUME NEW d \in open',
                      \/ pc'[d] \in {"snapshot", "idle"} /\ d \notin cast.to
                      \/ cast.cur = d /\ cast.next = "series"
               PROVE  view'[d].snapshot = store[HouseOf[d]].snapshot
    BY DEF SnapshotShown
  <2>1. CASE d # c
    BY <1>1, <1>7, <2>1 DEF Inductive, SnapshotShown
  <2>2. CASE d = c /\ pc'[d] \in {"snapshot", "idle"}
    BY <1>1, <1>5, <2>2 DEF h
  <2>3. CASE d = c /\ cast.cur = d /\ cast.next = "series"
    BY <1>1, <1>6, <2>3 DEF Inductive, SnapshotShown
  <2> QED BY <2>1, <2>2, <2>3
<1>14. SeriesShown'
  BY <1>1, <1>5, <1>7 DEF Inductive, SeriesShown, h
<1> QED
  BY <1>8, <1>9, <1>10, <1>11, <1>12, <1>13, <1>14 DEF Inductive

\* A socket is accepted, registered and written its status (websocket_endpoint).
LEMMA ConnectInductive ==
    ASSUME Inductive, NEW c \in Clients, Connect(c)
    PROVE  Inductive'
<1>1. /\ pc[c] = "off" /\ c \notin cast.to /\ WriteStatus(c)
      /\ clients' = [clients EXCEPT ![HouseOf[c]] = @ \cup {c}]
      /\ open' = open \cup {c}
      /\ UNCHANGED <<store, cast>>
  BY DEF Connect
<1>2. c \notin open
  BY <1>1 DEF Inductive, OpenRuns
<1>3. HouseOf[c] \in Shorts /\ clients \in [Shorts -> SUBSET Clients]
  BY GatewayAssumption DEF Inductive, TypeOK
<1>4. \A d \in Clients : IF d = c THEN pc'[d] # "off" ELSE pc'[d] = pc[d]
  BY WriteStatusFacts, <1>1
<1>5. /\ clients' \in [Shorts -> SUBSET Clients]
      /\ \A s \in Shorts :
            clients'[s] = IF s = HouseOf[c] THEN clients[s] \cup {c} ELSE clients[s]
  BY <1>1, <1>3
<1>6. RegistryExact'
  BY <1>1, <1>4, <1>5 DEF Inductive, RegistryExact
<1> QED BY <1>1, <1>2, <1>5, <1>6, StatusInductive

\* A client asks again and is written a status (websocket_endpoint).
LEMMA RequestInductive ==
    ASSUME Inductive, NEW c \in Clients, Request(c)
    PROVE  Inductive'
<1>1. /\ pc[c] = "idle" /\ c \in open /\ WriteStatus(c)
      /\ UNCHANGED <<store, clients, cast, open>>
  BY DEF Request
<1>2. \A d \in Clients : pc'[d] = "off" <=> pc[d] = "off"
  BY WriteStatusFacts, <1>1
<1>3. RegistryExact'
  BY <1>1, <1>2 DEF Inductive, RegistryExact
<1>4. clients' \in [Shorts -> SUBSET Clients] /\ open' = open \cup {c}
  BY <1>1 DEF Inductive, TypeOK
<1> QED BY <1>1, <1>3, <1>4, StatusInductive

\* send_cached goes on to the next message.
LEMMA CachedNextInductive ==
    ASSUME Inductive, NEW c \in Clients, CachedNext(c)
    PROVE  Inductive'
<1> DEFINE h == store[HouseOf[c]]
           m == Following(pc[c], h)
<1>1. /\ c \in open /\ pc[c] \in {"status", "snapshot"}
      /\ pc' = [pc EXCEPT ![c] = IF m = "snapshot" THEN m ELSE "idle"]
      /\ view' = IF m = "end" THEN view ELSE [view EXCEPT ![c] = Shown(view[c], m, h)]
      /\ UNCHANGED <<store, clients, cast, open>>
  BY DEF CachedNext
<1>2. /\ HouseOf[c] \in Shorts /\ h \in House /\ view \in [Clients -> View]
      /\ pc \in [Clients -> {"off", "status", "snapshot", "idle"}]
      /\ open \subseteq Clients
  BY GatewayAssumption DEF Inductive, TypeOK
<1>3. /\ m \in {"snapshot", "series", "end"}
      /\ m = "snapshot" => pc[c] = "status" /\ h.snapshot # 0
      /\ m = "series" /\ pc[c] = "status" => h.snapshot = 0
      /\ m = "end" => h.series = 0 /\ (pc[c] = "status" => h.snapshot = 0)
  BY <1>1, <1>2, FollowingFacts DEF Messages
<1>4. /\ view' \in [Clients -> View]
      /\ \A d \in Clients : d # c => view'[d] = view[d]
      /\ view'[c].gnode = view[c].gnode
      /\ view'[c].layout = view[c].layout
      /\ view'[c].received = view[c].received
      /\ view'[c].snapshot = IF m = "snapshot" THEN h.snapshot ELSE view[c].snapshot
      /\ view'[c].series = IF m = "series" THEN h.series ELSE view[c].series
  <2>1. CASE m = "end"
    BY <1>1, <1>2, <2>1
  <2>2. CASE m # "end"
    <3>1. m \in Messages /\ m # "status"
      BY <1>3, <2>2 DEF Messages
    <3>2. /\ Shown(view[c], m, h) \in View
          /\ Shown(view[c], m, h).gnode = view[c].gnode
          /\ Shown(view[c], m, h).layout = view[c].layout
          /\ Shown(view[c], m, h).received = view[c].received
          /\ Shown(view[c], m, h).snapshot
               = IF m = "snapshot" THEN h.snapshot ELSE view[c].snapshot
          /\ Shown(view[c], m, h).series = IF m = "series" THEN h.series ELSE view[c].series
      BY <1>2, <3>1, ShownFields
    <3> HIDE DEF m, h
    <3> QED BY <1>1, <1>2, <2>2, <3>2
  <2> QED BY <2>1, <2>2
<1>5. /\ pc' \in [Clients -> {"off", "status", "snapshot", "idle"}]
      /\ \A d \in Clients : d # c => pc'[d] = pc[d]
      /\ pc'[c] = IF m = "snapshot" THEN "snapshot" ELSE "idle"
  BY <1>1, <1>2
<1>6. /\ h.snapshot \in Nat /\ view[c].snapshot \in Nat /\ view[c].snapshot <= h.snapshot
  BY <1>1, <1>2, HouseAssumption DEF House, View, Inductive, NotAhead
<1>7. m # "snapshot" /\ pc[c] = "status" => view[c].snapshot = h.snapshot
  BY <1>3, <1>6
<1> HIDE DEF m, h
<1>8. TypeOK'
  BY <1>1, <1>4, <1>5 DEF Inductive, TypeOK
<1>9. RegistryExact' /\ OpenRuns'
  BY <1>1, <1>2, <1>4, <1>5 DEF Inductive, RegistryExact, OpenRuns
<1>10. CastInOrder' /\ CastCurrent' /\ NamedFirst'
  BY <1>1 DEF Inductive, CastInOrder, CastCurrent, NamedFirst
<1>11. StatusShown'
  BY <1>1, <1>2, <1>4 DEF Inductive, StatusShown
<1>12. NotAhead'
  <2>1. view'[c].snapshot <= h.snapshot /\ view'[c].received <= h.received
    BY <1>1, <1>4, <1>6 DEF Inductive, NotAhead, h
  <2> QED BY <1>1, <1>2, <1>4, <2>1 DEF Inductive, NotAhead, h
<1>13. SnapshotShown'
  <2> SUFFICES ASSUME NEW d \in open,
                      \/ pc'[d] \in {"snapshot", "idle"} /\ d \notin cast.to
                      \/ cast.cur = d /\ cast.next = "series"
               PROVE  view'[d].snapshot = store[HouseOf[d]].snapshot
    BY <1>1 DEF SnapshotShown
  <2>1. CASE d # c
    BY <1>2, <1>4, <1>5, <2>1 DEF Inductive, SnapshotShown
  <2>2. CASE d = c /\ m = "snapshot"
    BY <1>4, <2>2 DEF h
  <2>3. CASE d = c /\ m # "snapshot" /\ pc[c] = "status"
    BY <1>4, <1>7, <2>3 DEF h
  <2>4. CASE d = c /\ m # "snapshot" /\ pc[c] = "snapshot"
    BY <1>1, <1>4, <2>4 DEF Inductive, SnapshotShown
  <2> QED BY <1>1, <2>1, <2>2, <2>3, <2>4
<1>14. SeriesShown'
  <2> SUFFICES ASSUME NEW d \in open, pc'[d] = "idle", d \notin cast.to
               PROVE  \/ view'[d].series = store[HouseOf[d]].series
                      \/ store[HouseOf[d]].series = 0
    BY <1>1 DEF SeriesShown
  <2>1. CASE d # c
    BY <1>2, <1>4, <1>5, <2>1 DEF Inductive, SeriesShown
  <2>2. CASE d = c
    <3>1. m \in {"series", "end"}
      BY <1>3, <1>5, <2>2
    <3> QED BY <1>3, <1>4, <2>2, <3>1 DEF h
  <2> QED BY <2>1, <2>2
<1> QED
  BY <1>8, <1>9, <1>10, <1>11, <1>12, <1>13, <1>14 DEF Inductive

\* One socket fewer: what holds of the others still holds.
LEMMA UnseenFacts ==
    ASSUME Inductive, NEW c \in Clients, Unseen(c), UNCHANGED <<store, cast>>,
           \A d \in Clients : d # c => pc'[d] = pc[d]
    PROVE  /\ open' \subseteq Clients /\ view' \in [Clients -> View]
           /\ view'[c] = BlankView
           /\ \A d \in Clients : d # c => view'[d] = view[d]
           /\ OpenRuns' /\ CastInOrder' /\ CastCurrent' /\ NamedFirst'
           /\ StatusShown' /\ NotAhead' /\ SnapshotShown' /\ SeriesShown'
<1>1. open' = open \ {c} /\ open \subseteq Clients /\ c \notin open'
  BY DEF Unseen, Inductive, TypeOK
<1>2. /\ view' \in [Clients -> View] /\ view'[c] = BlankView
      /\ \A d \in Clients : d # c => view'[d] = view[d]
  BY EmptyHouseType DEF Unseen, Inductive, TypeOK
<1>3. OpenRuns'
  BY <1>1, <1>2 DEF Inductive, OpenRuns
<1>4. CastInOrder' /\ CastCurrent' /\ NamedFirst'
  BY DEF Inductive, CastInOrder, CastCurrent, NamedFirst
<1>5. \A d \in open' : d \in open /\ d \in Clients /\ d # c
  BY <1>1
<1>6. StatusShown' /\ NotAhead'
  BY <1>2, <1>5 DEF Inductive, StatusShown, NotAhead
<1>7. SnapshotShown' /\ SeriesShown'
  BY <1>2, <1>5 DEF Inductive, SnapshotShown, SeriesShown
<1> QED BY <1>1, <1>2, <1>3, <1>4, <1>6, <1>7

\* An endpoint ends and unregisters its socket (finally).
LEMMA EndInductive ==
    ASSUME Inductive, NEW c \in Clients, EndEndpoint(c)
    PROVE  Inductive'
<1>1. /\ pc' = [pc EXCEPT ![c] = "off"]
      /\ clients' = [clients EXCEPT ![HouseOf[c]] = @ \ {c}]
      /\ Unseen(c)
      /\ UNCHANGED <<store, cast>>
  BY DEF EndEndpoint
<1>2. /\ HouseOf[c] \in Shorts /\ clients \in [Shorts -> SUBSET Clients]
      /\ pc \in [Clients -> {"off", "status", "snapshot", "idle"}]
  BY GatewayAssumption DEF Inductive, TypeOK
<1>3. /\ pc' \in [Clients -> {"off", "status", "snapshot", "idle"}]
      /\ pc'[c] = "off"
      /\ \A d \in Clients : d # c => pc'[d] = pc[d]
  BY <1>1, <1>2
<1>4. /\ clients' \in [Shorts -> SUBSET Clients]
      /\ \A s \in Shorts :
            clients'[s] = IF s = HouseOf[c] THEN clients[s] \ {c} ELSE clients[s]
  BY <1>1, <1>2
<1>5. RegistryExact'
  BY <1>3, <1>4 DEF Inductive, RegistryExact
<1>6. TypeOK'
  BY <1>1, <1>3, <1>4, UnseenFacts DEF Inductive, TypeOK
<1> QED BY <1>1, <1>3, <1>5, <1>6, UnseenFacts DEF Inductive

\* A peer goes, and its endpoint does not know yet.
LEMMA PeerGoneInductive ==
    ASSUME Inductive, NEW c \in Clients, PeerGone(c)
    PROVE  Inductive'
<1>1. Unseen(c) /\ UNCHANGED <<store, clients, cast, pc>>
  BY DEF PeerGone
<1>2. TypeOK'
  BY <1>1, UnseenFacts DEF Inductive, TypeOK
<1>3. RegistryExact'
  BY <1>1 DEF Inductive, RegistryExact
<1> QED BY <1>1, <1>2, <1>3, UnseenFacts DEF Inductive

-----------------------------------------------------------------------------
(* The prune task and the process. *)

\* The prune task empties some series and tells nobody.
LEMMA PruneInductive ==
    ASSUME Inductive, Prune
    PROVE  Inductive'
<1> PICK stale \in SUBSET Shorts :
       /\ \A s \in stale : store[s].series # 0
       /\ store' = [s \in Shorts |->
                       IF s \in stale THEN [store[s] EXCEPT !.series = 0] ELSE store[s]]
  BY DEF Prune
<1>1. UNCHANGED <<clients, cast, pc, open, view>>
  BY DEF Prune
<1>2. ASSUME NEW s \in Shorts
      PROVE  /\ store'[s] \in House
             /\ PrunedFrom(store'[s], store[s])
             /\ store'[s].series # store[s].series => store[s].series # 0
  <2>1. store[s] \in House
    BY DEF Inductive, TypeOK
  <2>2. CASE s \in stale
    <3>1. store'[s] = [store[s] EXCEPT !.series = 0]
      BY <2>2
    <3> QED BY <2>1, <2>2, <3>1, HouseAssumption DEF House, PrunedFrom
  <2>3. CASE s \notin stale
    BY <2>1, <2>3 DEF PrunedFrom
  <2> QED BY <2>2, <2>3
<1>3. \A c \in Clients : HouseOf[c] \in Shorts
  BY GatewayAssumption
<1>4. open \subseteq Clients /\ cast.to \subseteq Clients
  BY DEF Inductive, TypeOK, Casts
<1>5. TypeOK'
  BY <1>1, <1>2 DEF Inductive, TypeOK
<1>6. RegistryExact' /\ OpenRuns' /\ CastInOrder'
  BY <1>1 DEF Inductive, RegistryExact, OpenRuns, CastInOrder
<1>7. CastCurrent'
  BY <1>1, <1>2, <1>3, <1>4 DEF Inductive, CastCurrent, PrunedFrom
<1>8. StatusShown' /\ NotAhead' /\ SnapshotShown'
  BY <1>1, <1>2, <1>3, <1>4
     DEF Inductive, StatusShown, NotAhead, SnapshotShown, PrunedFrom
<1>9. SeriesShown'
  BY <1>1, <1>2, <1>3, <1>4 DEF Inductive, SeriesShown, PrunedFrom
<1>10. NamedFirst'
  <2> SUFFICES ASSUME NEW s \in Shorts, store'[s].gnode = NoAlias
               PROVE  store'[s] = EmptyHouse
    BY DEF NamedFirst
  <2>1. store[s] = EmptyHouse
    BY <1>2 DEF Inductive, NamedFirst, PrunedFrom
  <2>2. s \notin stale
    BY <2>1 DEF EmptyHouse
  <2> QED BY <2>1, <2>2
<1> QED BY <1>5, <1>6, <1>7, <1>8, <1>9, <1>10 DEF Inductive

\* The process begins anew with the seeded layouts.
LEMMA RestartInductive ==
    ASSUME Restart
    PROVE  Inductive'
<1>1. Seeded(store')
  BY DEF Restart
<1>2. TypeOK'
  BY <1>1, EmptyHouseType DEF Restart, TypeOK, Seeded, NoCast, Casts, Messages
<1>3. NamedFirst'
  BY <1>1, SeededFacts DEF NamedFirst
<1>4. RegistryExact' /\ OpenRuns'
  BY DEF Restart, RegistryExact, OpenRuns
<1>5. CastInOrder' /\ CastCurrent'
  BY DEF Restart, CastInOrder, CastCurrent, NoCast
<1>6. StatusShown' /\ NotAhead' /\ SnapshotShown' /\ SeriesShown'
  BY DEF Restart, StatusShown, NotAhead, SnapshotShown, SeriesShown
<1> QED BY <1>2, <1>3, <1>4, <1>5, <1>6 DEF Inductive

-----------------------------------------------------------------------------
(* The theorems. *)

\* Every step keeps it.
LEMMA NextInductive == Inductive /\ [Next]_vars => Inductive'
<1> SUFFICES ASSUME Inductive, [Next]_vars PROVE Inductive'
  OBVIOUS
<1>1. CASE Receive
  BY <1>1, ReceiveInductive
<1>2. CASE Broadcast
  BY <1>2, SendInductive, FailInductive DEF Broadcast
<1>3. ASSUME NEW c \in Clients, Endpoint(c) PROVE Inductive'
  BY <1>3, ConnectInductive, CachedNextInductive, RequestInductive, EndInductive
     DEF Endpoint, EndpointClosed, EndpointFails
<1>4. ASSUME NEW c \in Clients, PeerGone(c) PROVE Inductive'
  BY <1>4, PeerGoneInductive
<1>5. CASE Prune
  BY <1>5, PruneInductive
<1>6. CASE Restart
  BY <1>6, RestartInductive
<1>7. CASE UNCHANGED vars
  BY <1>7 DEF vars, Inductive, TypeOK, RegistryExact, OpenRuns, CastInOrder, CastCurrent,
              StatusShown, NotAhead, SnapshotShown, SeriesShown, NamedFirst
<1> QED BY <1>1, <1>2, <1>3, <1>4, <1>5, <1>6, <1>7 DEF Next

\* Every reachable state of the gateway is well typed and, between a change and the
\* end of its broadcast, has each client either in the list or shown the change.
THEOREM AlwaysInductive == SafetySpec => []Inductive
<1>1. Init => Inductive
  BY InitInductive
<1>2. Inductive /\ [Next]_vars => Inductive'
  BY NextInductive
<1> QED BY <1>1, <1>2, PTL DEF SafetySpec

\* The gateway's state has its type: no count, snapshot time, task state or list of
\* clients ever leaves its range.
THEOREM TypeCorrect == SafetySpec => []TypeOK
<1>1. Inductive => TypeOK
  BY DEF Inductive
<1> QED BY <1>1, AlwaysInductive, PTL

\* The registry and the running endpoints agree (server.py ConnectionManager and
\* the finally of websocket_endpoint).
THEOREM RegistryAlwaysExact == SafetySpec => []RegistryExact
<1>1. Inductive => RegistryExact
  BY DEF Inductive
<1> QED BY <1>1, AlwaysInductive, PTL

\* A client that is owed nothing has been shown the house as it is (server.py
\* broadcast and send_cached, state.py update_*).
THEOREM SettledCaughtUp == SafetySpec => []CaughtUp
<1>1. Inductive => CaughtUp
  <2> SUFFICES ASSUME Inductive, NEW c \in Clients, Settled(c)
               PROVE  /\ view[c].gnode = store[HouseOf[c]].gnode
                      /\ view[c].layout = store[HouseOf[c]].layout
                      /\ view[c].received = store[HouseOf[c]].received
                      /\ view[c].snapshot = store[HouseOf[c]].snapshot
                      /\ \/ view[c].series = store[HouseOf[c]].series
                         \/ store[HouseOf[c]].series = 0
    BY DEF CaughtUp
  <2>1. c \in open /\ pc[c] = "idle" /\ c \notin cast.to
    BY DEF Settled
  <2>2. /\ view[c].gnode = store[HouseOf[c]].gnode
        /\ view[c].layout = store[HouseOf[c]].layout
        /\ view[c].received = store[HouseOf[c]].received
    BY <2>1 DEF Inductive, StatusShown
  <2>3. view[c].snapshot = store[HouseOf[c]].snapshot
    BY <2>1 DEF Inductive, SnapshotShown
  <2>4. view[c].series = store[HouseOf[c]].series \/ store[HouseOf[c]].series = 0
    BY <2>1 DEF Inductive, SeriesShown
  <2> QED BY <2>2, <2>3, <2>4
<1> QED BY <1>1, AlwaysInductive, PTL

\* How a step changes what a connected client has been shown: not at all, or to what
\* its house is now.
LEMMA ViewStep ==
    ASSUME Inductive, [Next]_vars, NEW c \in Clients, c \in open, c \in open'
    PROVE  /\ view'[c].snapshot \in {view[c].snapshot, store[HouseOf[c]].snapshot}
           /\ view'[c].received \in {view[c].received, store[HouseOf[c]].received}
<1>1. /\ view \in [Clients -> View] /\ view[c] \in View
      /\ store[HouseOf[c]] \in House
      /\ pc \in [Clients -> {"off", "status", "snapshot", "idle"}]
      /\ cast.house \in House /\ cast.next \in Messages
  BY GatewayAssumption DEF Inductive, TypeOK, Casts
<1>2. CASE Receive
  BY <1>2, ReceiveIsApply DEF Apply
<1>3. ASSUME NEW d \in Clients, BroadcastSend(d)
      PROVE  /\ view'[c].snapshot \in {view[c].snapshot, store[HouseOf[c]].snapshot}
             /\ view'[c].received \in {view[c].received, store[HouseOf[c]].received}
  <2>1. view' = [view EXCEPT ![d] = Shown(view[d], cast.next, cast.house)] /\ d \in cast.to
    BY <1>3 DEF BroadcastSend
  <2>2. CASE c # d
    BY <1>1, <2>1, <2>2
  <2>3. CASE c = d
    <3>1. PrunedFrom(store[HouseOf[c]], cast.house)
      BY <2>1, <2>3 DEF Inductive, CastCurrent
    <3>2. view'[c] = Shown(view[c], cast.next, cast.house)
      BY <1>1, <2>1, <2>3
    <3> QED BY <1>1, <3>1, <3>2, ShownFields DEF PrunedFrom
  <2> QED BY <2>2, <2>3
<1>4. ASSUME NEW d \in Clients, BroadcastFail(d) PROVE view' = view
  BY <1>4 DEF BroadcastFail
<1>5. ASSUME NEW d \in Clients, Connect(d) \/ Request(d)
      PROVE  /\ view'[c].snapshot \in {view[c].snapshot, store[HouseOf[c]].snapshot}
             /\ view'[c].received \in {view[c].received, store[HouseOf[c]].received}
  <2>1. WriteStatus(d)
    BY <1>5 DEF Connect, Request
  <2> QED BY <2>1, WriteStatusFacts
<1>6. ASSUME NEW d \in Clients, CachedNext(d)
      PROVE  /\ view'[c].snapshot \in {view[c].snapshot, store[HouseOf[c]].snapshot}
             /\ view'[c].received \in {view[c].received, store[HouseOf[c]].received}
  <2> DEFINE h == store[HouseOf[d]]
             m == Following(pc[d], h)
  <2>1. /\ pc[d] \in Messages
        /\ view' = IF m = "end" THEN view ELSE [view EXCEPT ![d] = Shown(view[d], m, h)]
    BY <1>6 DEF CachedNext, Messages
  <2>2. CASE m = "end" \/ c # d
    BY <1>1, <2>1, <2>2
  <2>3. CASE m # "end" /\ c = d
    <3>1. m \in Messages
      BY <1>1, <2>1, <2>3, FollowingFacts DEF Messages
    <3> HIDE DEF m
    <3>2. view'[c] = Shown(view[c], m, h)
      BY <1>1, <2>1, <2>3
    <3> QED BY <1>1, <2>3, <3>1, <3>2, ShownFields
  <2> QED BY <2>2, <2>3
<1>7. ASSUME NEW d \in Clients, Unseen(d)
      PROVE  view'[c] = view[c]
  BY <1>1, <1>7 DEF Unseen
<1>8. CASE Prune
  BY <1>8 DEF Prune
<1>9. CASE Restart
  BY <1>9 DEF Restart
<1>10. CASE UNCHANGED vars
  BY <1>10 DEF vars
<1> QED
  BY <1>2, <1>3, <1>4, <1>5, <1>6, <1>7, <1>8, <1>9, <1>10
     DEF Next, Broadcast, Endpoint, EndpointClosed, EndpointFails, EndEndpoint, PeerGone

\* On one connection what is shown never goes back in time, although two tasks write
\* to it (server.py broadcast and send_cached).
THEOREM ViewAlwaysMonotone == SafetySpec => ViewMonotone
<1>1. ASSUME Inductive, [Next]_vars
      PROVE  [\A c \in Clients :
                 c \in open /\ c \in open' =>
                     /\ view'[c].snapshot >= view[c].snapshot
                     /\ view'[c].received >= view[c].received]_vars
  <2> SUFFICES ASSUME NEW c \in Clients, c \in open, c \in open'
               PROVE  /\ view'[c].snapshot >= view[c].snapshot
                      /\ view'[c].received >= view[c].received
    OBVIOUS
  <2>1. /\ view[c].snapshot <= store[HouseOf[c]].snapshot
        /\ view[c].received <= store[HouseOf[c]].received
    BY <1>1 DEF Inductive, NotAhead
  <2>2. /\ view[c].snapshot \in Nat /\ view[c].received \in Nat
        /\ store[HouseOf[c]].snapshot \in Nat /\ store[HouseOf[c]].received \in Nat
    BY <1>1, GatewayAssumption, HouseAssumption DEF Inductive, TypeOK, View, House
  <2> QED BY <1>1, <2>1, <2>2, ViewStep
<1> QED BY <1>1, AlwaysInductive, PTL DEF SafetySpec, ViewMonotone

-----------------------------------------------------------------------------
(* The gateway implements RealtimeFeed, step by step. *)

\* The gateway begins as the feed does.
LEMMA FeedInit == Init => Feed!Init
<1> SUFFICES ASSUME Init PROVE Feed!Init
  OBVIOUS
<1>1. \A s \in Shorts : store[s].snapshot = 0
  BY SeededFacts DEF Init
<1>2. \A c \in Clients : view[c].snapshot = 0
  BY DEF Init, BlankView
<1> QED BY <1>1, <1>2 DEF Init, Feed!Init

\* A step that leaves the store's snapshots and the sockets alone, and changes what
\* one client has been shown, shows it the newest snapshot.
LEMMA ShowStep ==
    ASSUME Inductive, NEW c \in Clients, c \in open,
           UNCHANGED <<store, open>>,
           \A d \in Clients : d # c => view'[d] = view[d],
           view'[c].snapshot \in {view[c].snapshot, store[HouseOf[c]].snapshot}
    PROVE  [Feed!Next]_Feed!vars
<1> DEFINE seen == [d \in Clients |-> view[d].snapshot]
<1>1. HouseOf[c] \in Shorts
  BY GatewayAssumption
<1>2. CASE view'[c].snapshot = view[c].snapshot
  <2>1. seen' = seen
    BY <1>2
  <2> QED BY <2>1 DEF Feed!vars
<1>3. CASE view'[c].snapshot # view[c].snapshot
  <2>1. view'[c].snapshot = store[HouseOf[c]].snapshot
    BY <1>3
  <2>2. seen' = [seen EXCEPT ![c] = store[HouseOf[c]].snapshot]
    BY <2>1
  <2>3. Feed!Show(c)
    BY <1>1, <1>3, <2>1, <2>2 DEF Feed!Show
  <2> QED BY <2>3 DEF Feed!Next
<1> QED BY <1>2, <1>3

\* A viewer of whom a socket is gone has left the feed, or had left before.
LEMMA LeaveStep ==
    ASSUME Inductive, NEW c \in Clients, Unseen(c), UNCHANGED store
    PROVE  [Feed!Next]_Feed!vars
<1> DEFINE seen == [d \in Clients |-> view[d].snapshot]
<1>1. /\ open' = open \ {c}
      /\ view' = [view EXCEPT ![c] = BlankView]
      /\ view \in [Clients -> View]
  BY DEF Unseen, Inductive, TypeOK
<1>2. seen' = [seen EXCEPT ![c] = 0]
  BY <1>1 DEF BlankView
<1>3. CASE c \in open
  <2>1. Feed!Leave(c)
    BY <1>1, <1>2, <1>3 DEF Feed!Leave
  <2> QED BY <2>1 DEF Feed!Next
<1>4. CASE c \notin open
  <2>1. seen' = seen /\ open' = open
    BY <1>1, <1>2, <1>4 DEF Inductive, OpenRuns, BlankView
  <2> QED BY <2>1 DEF Feed!vars
<1> QED BY <1>3, <1>4

\* Every step of the gateway is one of the feed, or none.
LEMMA FeedStep == Inductive /\ [Next]_vars => [Feed!Next]_Feed!vars
<1> SUFFICES ASSUME Inductive, [Next]_vars PROVE [Feed!Next]_Feed!vars
  OBVIOUS
<1> DEFINE latest == [s \in Shorts |-> store[s].snapshot]
           seen == [c \in Clients |-> view[c].snapshot]
<1>1. /\ store \in [Shorts -> House] /\ view \in [Clients -> View]
      /\ open \subseteq Clients
  BY DEF Inductive, TypeOK
<1>2. CASE Receive
  <2> PICK s \in Shorts, h \in House :
         /\ Apply(s, h)
         /\ h.snapshot = store[s].snapshot \/ h.snapshot > store[s].snapshot
    BY <1>2, ReceiveIsApply
  <2>1. /\ latest' = [latest EXCEPT ![s] = h.snapshot]
        /\ seen' = seen /\ open' = open
    BY <1>1 DEF Apply
  <2>2. CASE h.snapshot = store[s].snapshot
    <3>1. latest' = latest
      BY <1>1, <2>1, <2>2
    <3> QED BY <2>1, <3>1 DEF Feed!vars
  <2>3. CASE h.snapshot > store[s].snapshot
    <3>1. h.snapshot \in 1..MaxStamp
      BY <1>1, <2>3, HouseAssumption DEF House
    <3>2. Feed!Advance(s)
      BY <2>1, <2>3, <3>1 DEF Feed!Advance
    <3> QED BY <3>2 DEF Feed!Next
  <2> QED BY <2>2, <2>3
<1>3. ASSUME NEW c \in Clients, BroadcastSend(c) PROVE [Feed!Next]_Feed!vars
  <2>1. /\ c \in open /\ UNCHANGED <<store, open>>
        /\ \A d \in Clients : d # c => view'[d] = view[d]
    BY <1>1, <1>3 DEF BroadcastSend
  <2>2. view'[c].snapshot \in {view[c].snapshot, store[HouseOf[c]].snapshot}
    BY <2>1, ViewStep
  <2> QED BY <2>1, <2>2, ShowStep
<1>4. ASSUME NEW c \in Clients, BroadcastFail(c) PROVE [Feed!Next]_Feed!vars
  BY <1>4 DEF BroadcastFail, Feed!vars
<1>5. ASSUME NEW c \in Clients, Connect(c) PROVE [Feed!Next]_Feed!vars
  <2>1. pc[c] = "off" /\ WriteStatus(c) /\ open' = open \cup {c} /\ store' = store
    BY <1>5 DEF Connect
  <2>2. c \notin open
    BY <2>1 DEF Inductive, OpenRuns
  <2>3. \A d \in Clients : view'[d].snapshot = view[d].snapshot
    BY <2>1, WriteStatusFacts
  <2>4. Feed!Join(c)
    BY <2>1, <2>2, <2>3 DEF Feed!Join
  <2> QED BY <2>4 DEF Feed!Next
<1>6. ASSUME NEW c \in Clients, Request(c) PROVE [Feed!Next]_Feed!vars
  <2>1. WriteStatus(c) /\ UNCHANGED <<store, open>>
    BY <1>6 DEF Request
  <2>2. \A d \in Clients : view'[d].snapshot = view[d].snapshot
    BY <2>1, WriteStatusFacts
  <2> QED BY <2>1, <2>2 DEF Feed!vars
<1>7. ASSUME NEW c \in Clients, CachedNext(c) PROVE [Feed!Next]_Feed!vars
  <2>1. /\ c \in open /\ UNCHANGED <<store, open>>
        /\ \A d \in Clients : d # c => view'[d] = view[d]
    BY <1>1, <1>7 DEF CachedNext
  <2>2. view'[c].snapshot \in {view[c].snapshot, store[HouseOf[c]].snapshot}
    BY <2>1, ViewStep
  <2> QED BY <2>1, <2>2, ShowStep
<1>8. ASSUME NEW c \in Clients, EndEndpoint(c) \/ PeerGone(c) PROVE [Feed!Next]_Feed!vars
  BY <1>8, LeaveStep DEF EndEndpoint, PeerGone
<1>9. CASE Prune
  <2>1. \A s \in Shorts : store'[s].snapshot = store[s].snapshot
    BY <1>1, <1>9 DEF Prune, House
  <2>2. UNCHANGED <<open, view>>
    BY <1>9 DEF Prune
  <2> QED BY <2>1, <2>2 DEF Feed!vars
<1>10. CASE Restart
  <2>1. \A s \in Shorts : store'[s].snapshot = 0
    BY <1>10, SeededFacts DEF Restart
  <2>2. open' = {} /\ \A c \in Clients : view'[c].snapshot = 0
    BY <1>10 DEF Restart, BlankView
  <2>3. Feed!Crash
    BY <2>1, <2>2 DEF Feed!Crash
  <2> QED BY <2>3 DEF Feed!Next
<1>11. CASE UNCHANGED vars
  BY <1>11 DEF vars, Feed!vars
<1> QED
  BY <1>2, <1>3, <1>4, <1>5, <1>6, <1>7, <1>8, <1>9, <1>10, <1>11
     DEF Next, Broadcast, Endpoint, EndpointClosed, EndpointFails

\* What a viewer is shown is what RealtimeFeed allows: the newest snapshot of the
\* house, at the moment it is newest (server.py broadcast and send_cached).
THEOREM ImplementsFeed == SafetySpec => Feed!SafetySpec
<1>1. Inductive /\ [Next]_vars => [Feed!Next]_Feed!vars
  BY FeedStep
<1> QED BY <1>1, FeedInit, AlwaysInductive, PTL DEF SafetySpec, Feed!SafetySpec

-----------------------------------------------------------------------------
(* No client is told of another house. *)

\* A house carries the alias of one of its own scadas.
HousesNamed ==
    \A s \in Shorts : store[s].gnode # NoAlias => ShortOf[store[s].gnode] = s

\* An update names a house by the message's alias only if it had none (_get_or_create).
LEMMA UpdateNames ==
    ASSUME NEW h \in House, NEW a \in Aliases
    PROVE  /\ \A l \in Layouts : UpdateLayout(h, a, l).gnode \in {h.gnode, a}
           /\ \A t, z : UpdateSnapshot(h, a, t, z).gnode \in {h.gnode, a}
           /\ \A t : UpdateReport(h, a, t).gnode \in {h.gnode, a}
<1> DEFINE g == GetOrCreate(h, a)
<1>1. /\ g.gnode \in {h.gnode, a}
      /\ DOMAIN g = {"gnode", "layout", "snapshot", "series", "report", "received"}
      /\ g = [f \in DOMAIN g |-> g[f]]
  BY DEF GetOrCreate, House
<1> HIDE DEF g
<1> QED BY <1>1 DEF UpdateLayout, UpdateSnapshot, UpdateReport, g

\* A message leaves houses named by aliases of their own.
LEMMA ReceiveNames ==
    ASSUME Inductive, HousesNamed, Receive
    PROVE  HousesNamed' /\ UNCHANGED view
<1> PICK a \in Aliases : ReceiveLayout(a) \/ ReceiveSnapshot(a) \/ ReceiveReport(a)
  BY DEF Receive
<1> DEFINE s == ShortOf[a]
           g == store[s]
<1>1. s \in Shorts /\ g \in House /\ store \in [Shorts -> House]
  BY GatewayAssumption DEF Inductive, TypeOK
<1>2. \E h : Apply(s, h) /\ h.gnode \in {g.gnode, a}
  <2>1. CASE ReceiveLayout(a)
    BY <1>1, <2>1, UpdateNames DEF ReceiveLayout
  <2>2. CASE ReceiveSnapshot(a)
    BY <1>1, <2>2, UpdateNames DEF ReceiveSnapshot
  <2>3. CASE ReceiveReport(a)
    BY <1>1, <2>3, UpdateNames DEF ReceiveReport
  <2> QED BY <2>1, <2>2, <2>3
<1>3. PICK h : Apply(s, h) /\ h.gnode \in {g.gnode, a}
  BY <1>2
<1>4. /\ UNCHANGED view
      /\ \A r \in Shorts : store'[r] = IF r = s THEN h ELSE store[r]
  BY <1>1, <1>3 DEF Apply
<1> QED BY <1>1, <1>3, <1>4 DEF HousesNamed

\* So does the seed.
LEMMA SeededNames ==
    ASSUME NEW st, Seeded(st), NEW s \in Shorts, st[s].gnode # NoAlias
    PROVE  ShortOf[st[s].gnode] = s
<1>1. st[s] \in SeededHouses(s)
  BY DEF Seeded
<1>2. st[s] # EmptyHouse
  BY DEF EmptyHouse
<1>3. PICK a \in Aliases, l \in Layouts :
         ShortOf[a] = s /\ st[s] = SeedLayout([EmptyHouse EXCEPT !.gnode = a], a, l)
  BY <1>1, <1>2 DEF SeededHouses
<1> DEFINE e == [EmptyHouse EXCEPT !.gnode = a]
<1>4. e.gnode = a /\ e \in House
  BY EmptyHouseType DEF EmptyHouse, House
<1>5. GetOrCreate(e, a) = e
  BY <1>4, HouseAssumption DEF GetOrCreate
<1>6. st[s] = [e EXCEPT !.layout = l]
  BY <1>3, <1>5 DEF SeedLayout
<1> HIDE DEF e
<1> QED BY <1>3, <1>4, <1>6 DEF House

\* So does every step.
LEMMA NamesStep ==
    ASSUME Inductive, HousesNamed, [Next]_vars
    PROVE  HousesNamed'
<1>1. CASE Prune
  <2> PICK stale \in SUBSET Shorts :
         store' = [s \in Shorts |->
                      IF s \in stale THEN [store[s] EXCEPT !.series = 0] ELSE store[s]]
    BY <1>1 DEF Prune
  <2>1. \A s \in Shorts : store[s] \in House
    BY DEF Inductive, TypeOK
  <2>2. \A s \in Shorts : store'[s].gnode = store[s].gnode
    BY <2>1 DEF House
  <2> QED BY <2>2 DEF HousesNamed
<1>2. CASE Restart
  <2>1. Seeded(store')
    BY <1>2 DEF Restart
  <2> QED BY <2>1, SeededNames DEF HousesNamed
<1>3. CASE UNCHANGED store
  BY <1>3 DEF HousesNamed
<1> QED
  BY <1>1, <1>2, <1>3, ReceiveNames
     DEF Next, Broadcast, Endpoint, BroadcastSend, BroadcastFail, Connect, CachedNext, Request,
         EndpointClosed, EndpointFails, EndEndpoint, PeerGone, vars

\* The name a client is shown is kept, that of its house, or none.
LEMMA ViewNames ==
    ASSUME Inductive, [Next]_vars, NEW c \in Clients
    PROVE  view'[c].gnode \in {view[c].gnode, store[HouseOf[c]].gnode, NoAlias}
<1> DEFINE Kept == view'[c].gnode \in {view[c].gnode, store[HouseOf[c]].gnode, NoAlias}
<1>1. /\ view \in [Clients -> View] /\ view[c] \in View
      /\ store[HouseOf[c]] \in House
      /\ pc \in [Clients -> {"off", "status", "snapshot", "idle"}]
      /\ cast.house \in House /\ cast.next \in Messages
  BY GatewayAssumption DEF Inductive, TypeOK, Casts
<1>2. CASE Receive
  BY <1>2, ReceiveIsApply DEF Apply
<1>3. ASSUME NEW d \in Clients, BroadcastSend(d) PROVE Kept
  <2>1. view' = [view EXCEPT ![d] = Shown(view[d], cast.next, cast.house)] /\ d \in cast.to
    BY <1>3 DEF BroadcastSend
  <2>2. CASE c # d
    BY <1>1, <2>1, <2>2
  <2>3. CASE c = d
    <3>1. PrunedFrom(store[HouseOf[c]], cast.house)
      BY <2>1, <2>3 DEF Inductive, CastCurrent
    <3>2. view'[c] = Shown(view[c], cast.next, cast.house)
      BY <1>1, <2>1, <2>3
    <3> QED BY <1>1, <3>1, <3>2, ShownFields DEF PrunedFrom
  <2> QED BY <2>2, <2>3
<1>4. ASSUME NEW d \in Clients, Connect(d) \/ Request(d) PROVE Kept
  <2>1. WriteStatus(d)
    BY <1>4 DEF Connect, Request
  <2> QED BY <2>1, WriteStatusFacts
<1>5. ASSUME NEW d \in Clients, CachedNext(d) PROVE Kept
  <2> DEFINE h == store[HouseOf[d]]
             m == Following(pc[d], h)
  <2>1. /\ pc[d] \in Messages
        /\ view' = IF m = "end" THEN view ELSE [view EXCEPT ![d] = Shown(view[d], m, h)]
    BY <1>5 DEF CachedNext, Messages
  <2>2. CASE m = "end" \/ c # d
    BY <1>1, <2>1, <2>2
  <2>3. CASE m # "end" /\ c = d
    <3>1. m \in Messages
      BY <1>1, <2>1, <2>3, FollowingFacts DEF Messages
    <3> HIDE DEF m
    <3>2. view'[c] = Shown(view[c], m, h)
      BY <1>1, <2>1, <2>3
    <3>3. h = store[HouseOf[c]] /\ h \in House
      BY <1>1, <2>3
    <3> HIDE DEF h
    <3>4. view[c] \in View
      BY <1>1
    <3>5. Shown(view[c], m, h).gnode = IF m = "status" THEN h.gnode ELSE view[c].gnode
      BY <3>1, <3>3, <3>4, ShownFields
    <3> QED BY <3>2, <3>3, <3>5
  <2> QED BY <2>2, <2>3
<1>6. ASSUME NEW d \in Clients, Unseen(d) PROVE Kept
  BY <1>1, <1>6 DEF Unseen, BlankView
<1>7. CASE Restart
  BY <1>7 DEF Restart, BlankView
<1>8. CASE UNCHANGED view
  BY <1>8
<1>9. CASE Broadcast \/ Prune \/ UNCHANGED vars
  BY <1>3, <1>8, <1>9 DEF Broadcast, BroadcastFail, Prune, vars
<1>10. ASSUME NEW d \in Clients, Endpoint(d) \/ PeerGone(d) PROVE Kept
  BY <1>4, <1>5, <1>6, <1>10
     DEF Endpoint, EndpointClosed, EndpointFails, EndEndpoint, PeerGone
<1> QED BY <1>2, <1>7, <1>9, <1>10 DEF Next

\* However houses share short aliases and clients come and go, a client is told only of
\* the house it asked for (server.py on_house_update, state.py _get_or_create).
THEOREM AlwaysOnlyItsHouse == SafetySpec => []OnlyItsHouse
<1>1. Init => HousesNamed /\ OnlyItsHouse
  BY SeededNames DEF Init, HousesNamed, OnlyItsHouse, BlankView
<1>2. Inductive /\ HousesNamed /\ OnlyItsHouse /\ [Next]_vars
         => HousesNamed' /\ OnlyItsHouse'
  <2> SUFFICES ASSUME Inductive, HousesNamed, OnlyItsHouse, [Next]_vars
               PROVE  HousesNamed' /\ OnlyItsHouse'
    OBVIOUS
  <2>1. \A c \in Clients :
           /\ view'[c].gnode \in {view[c].gnode, store[HouseOf[c]].gnode, NoAlias}
           /\ HouseOf[c] \in Shorts
    BY ViewNames, GatewayAssumption
  <2>2. OnlyItsHouse'
    BY <2>1 DEF HousesNamed, OnlyItsHouse
  <2> QED BY <2>2, NamesStep
<1> QED BY <1>1, <1>2, AlwaysInductive, PTL DEF SafetySpec
=============================================================================
