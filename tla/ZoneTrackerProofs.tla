-------------------------- MODULE ZoneTrackerProofs --------------------------
(***************************************************************************)
(* What holds of the zone tracker for every set of zones, retention and    *)
(* period of the prune task, however late the loop wakes it.               *)
(***************************************************************************)
EXTENDS ZoneTracker, OrderedProofs

-----------------------------------------------------------------------------
(* The inductive invariant. *)

\* The task is neither due later than its period nor later than the loop may wake it, and
\* what its last round, or a snapshot since, has left is no older than that round.
Swept ==
    /\ due <= now + Period
    /\ now <= due + Lag
    /\ \A z \in Zones : \A i \in 1..Len(history[z]) :
          due <= history[z][i].at + Retention + Period

Inv == TypeOK /\ Swept /\ LastReadingHeld

-----------------------------------------------------------------------------
\* The points of a time are points, of a time and a value that are numbers.
LEMMA PointTypes == \A p \in Point : p.at \in Nat /\ p.on \in {0, 1}
BY TrackerAssumption DEF Point, Time

\* What a prune leaves of the histories hs and the keys ks of those that are not empty.
LEMMA PrunedFacts ==
    ASSUME NEW hs \in [Zones -> Seq(Point)], NEW ks \in Seq(Zones), IsInjective(ks),
           ToSet(ks) = {z \in Zones : hs[z] # <<>>}, Pruned(hs, ks)
    PROVE  /\ history' \in [Zones -> Seq(Point)]
           /\ order' \in Seq(Zones) /\ IsInjective(order')
           /\ ToSet(order') = {z \in Zones : history'[z] # <<>>}
           /\ \A z \in Zones : \A i \in 1..Len(history'[z]) : history'[z][i] \in Fresh
           /\ \A z \in Zones : hs[z] # <<>> /\ Last(hs[z]) \in Fresh =>
                 history'[z] # <<>> /\ Last(history'[z]) = Last(hs[z])
<1>1. \A z \in Zones : hs[z] \in Seq(Point) /\ history'[z] = Filtered(hs[z], Fresh)
  BY DEF Pruned
<1>2. \A z \in Zones :
         /\ history'[z] \in Seq(Point)
         /\ \A i \in 1..Len(history'[z]) : history'[z][i] \in Fresh
         /\ ToSet(history'[z]) \subseteq ToSet(hs[z])
  BY <1>1, FilteredFacts, FilteredSet DEF Keeps
<1>3. history' \in [Zones -> Seq(Point)]
  BY <1>2 DEF Pruned
<1>4. \A z \in Zones : history'[z] # <<>> => hs[z] # <<>>
  <2> SUFFICES ASSUME NEW z \in Zones, history'[z] # <<>> PROVE hs[z] # <<>>
    OBVIOUS
  <2>1. history'[z][1] \in ToSet(history'[z])
    BY <1>2 DEF ToSet
  <2>2. history'[z][1] \in ToSet(hs[z])
    BY <1>2, <2>1
  <2> QED BY <2>2 DEF ToSet
<1>5. /\ order' \in Seq(Zones) /\ IsInjective(order')
      /\ ToSet(order') = ToSet(ks) \cap {z \in Zones : history'[z] # <<>>}
  BY FilteredFacts, FilteredSet DEF Pruned
<1>6. ToSet(order') = {z \in Zones : history'[z] # <<>>}
  BY <1>4, <1>5
<1>7. \A z \in Zones : hs[z] # <<>> /\ Last(hs[z]) \in Fresh =>
         history'[z] # <<>> /\ Last(history'[z]) = Last(hs[z])
  BY <1>1, FilteredLast
<1> QED BY <1>2, <1>3, <1>5, <1>6, <1>7

\* The invariant holds of a tracker without zones.
LEMMA InitInv == Init => Inv
<1> SUFFICES ASSUME Init PROVE Inv
  OBVIOUS
<1>1. TypeOK
  BY TrackerAssumption DEF Init, TypeOK, Time, Point, IsInjective, ToSet
<1>2. Swept
  BY TrackerAssumption DEF Init, Swept
<1>3. LastReadingHeld
  BY DEF Init, LastReadingHeld
<1> QED BY <1>1, <1>2, <1>3 DEF Inv

\* A reading of z that a snapshot may have is one of now or before, and not before the last.
LEMMA UpdateInv == Inv /\ UpdateFromSnapshot => Inv'
<1> SUFFICES ASSUME Inv, UpdateFromSnapshot PROVE Inv'
  OBVIOUS
<1>1. TypeOK /\ Swept /\ LastReadingHeld
  BY DEF Inv
<1>2. PICK zs \in ReadingLists :
        /\ \E read \in [ToSet(zs) -> UNION {ReadingsOf(z) : z \in ToSet(zs)}] :
              /\ \A z \in ToSet(zs) : read[z] \in ReadingsOf(z)
              /\ Pruned([z \in Zones |-> IF z \in ToSet(zs) THEN Appended(history[z], read[z])
                                                            ELSE history[z]],
                        order \o Filtered(zs, {z \in Zones : history[z] = <<>>}))
              /\ carried' = [z \in Zones |-> IF z \in ToSet(zs) THEN read[z] ELSE carried[z]]
        /\ UNCHANGED <<now, due>>
  BY DEF UpdateFromSnapshot
<1>3. PICK read :
        /\ \A z \in ToSet(zs) : read[z] \in ReadingsOf(z)
        /\ Pruned([z \in Zones |-> IF z \in ToSet(zs) THEN Appended(history[z], read[z])
                                                      ELSE history[z]],
                  order \o Filtered(zs, {z \in Zones : history[z] = <<>>}))
        /\ carried' = [z \in Zones |-> IF z \in ToSet(zs) THEN read[z] ELSE carried[z]]
  BY <1>2
<1> DEFINE hs == [z \in Zones |-> IF z \in ToSet(zs) THEN Append(history[z], read[z])
                                                   ELSE history[z]]
           new == Filtered(zs, {z \in Zones : history[z] = <<>>})
<1>4. zs \in Seq(Zones) /\ IsInjective(zs)
  BY FS_CardinalityType, TrackerAssumption DEF ReadingLists
<1>5. \A z \in ToSet(zs) : z \in Zones /\ read[z] \in Point
  BY <1>3, <1>4 DEF ToSet, ReadingsOf
<1>6. \A z \in Zones : history[z] \in Seq(Point)
  BY <1>1 DEF TypeOK
<1>7. hs \in [Zones -> Seq(Point)] /\ \A z \in ToSet(zs) : hs[z] # <<>> /\ Last(hs[z]) = read[z]
  BY <1>5, <1>6 DEF Last
<1>8. new \in Seq(Zones) /\ IsInjective(new) /\ ToSet(new) = ToSet(zs) \cap {z \in Zones : history[z] = <<>>}
  BY <1>4, FilteredFacts, FilteredSet
<1>9. order \in Seq(Zones) /\ IsInjective(order) /\ ToSet(order) = {z \in Zones : history[z] # <<>>}
  BY <1>1 DEF TypeOK
<1> HIDE DEF new
<1>10. /\ order \o new \in Seq(Zones)
       /\ IsInjective(order \o new)
       /\ ToSet(order \o new) = ToSet(order) \cup ToSet(new)
  <2>1. ToSet(order) \cap ToSet(new) = {}
    BY <1>8, <1>9
  <2> QED BY <1>8, <1>9, <2>1, ConcatFacts
<1>11. ToSet(order \o new) = {z \in Zones : hs[z] # <<>>}
  <2>1. \A z \in Zones : z \notin ToSet(zs) => hs[z] = history[z]
    OBVIOUS
  <2> HIDE DEF hs
  <2> QED BY <1>5, <1>7, <1>8, <1>9, <1>10, <2>1
<1>12. Pruned(hs, order \o new)
  BY <1>3 DEF Appended, new
<1>13. \A z \in Zones : hs[z] = IF z \in ToSet(zs) THEN Append(history[z], read[z]) ELSE history[z]
  OBVIOUS
<1> HIDE DEF hs
<1>14. /\ history' \in [Zones -> Seq(Point)]
       /\ order' \in Seq(Zones) /\ IsInjective(order')
       /\ ToSet(order') = {z \in Zones : history'[z] # <<>>}
       /\ \A z \in Zones : \A i \in 1..Len(history'[z]) : history'[z][i] \in Fresh
       /\ \A z \in Zones : hs[z] # <<>> /\ Last(hs[z]) \in Fresh =>
             history'[z] # <<>> /\ Last(history'[z]) = Last(hs[z])
  BY <1>7, <1>10, <1>11, <1>12, PrunedFacts
<1>15. carried' \in [Zones -> Point]
  BY <1>1, <1>3, <1>5 DEF TypeOK
<1>16. TypeOK'
  BY <1>1, <1>2, <1>14, <1>15 DEF TypeOK
<1>17. Swept'
  <2>1. now' = now /\ due' = due /\ due <= now + Period /\ now <= due + Lag
    BY <1>1, <1>2 DEF Swept
  <2>2. ASSUME NEW z \in Zones, NEW i \in 1..Len(history'[z])
        PROVE  due' <= history'[z][i].at + Retention + Period
    <3>1. history'[z][i] \in Fresh
      BY <1>14
    <3>2. history'[z][i].at \in Nat /\ history'[z][i].at + Retention >= now
      BY <3>1, PointTypes DEF Fresh
    <3>3. now \in Nat /\ due \in Nat /\ Retention \in Nat /\ Period \in Nat
      BY <1>1, TrackerAssumption DEF TypeOK, Time
    <3>4. \A a, n, d, r, q \in Int : d <= n + q /\ a + r >= n => d <= a + r + q
      OBVIOUS
    <3> QED BY SMTT(30), <2>1, <3>2, <3>3, <3>4
  <2> QED BY <2>1, <2>2 DEF Swept
<1>18. LastReadingHeld'
  <2> SUFFICES ASSUME NEW z \in Zones, carried'[z].at # 0, now' <= carried'[z].at + Retention
               PROVE  history'[z] # <<>> /\ Last(history'[z]) = carried'[z]
    BY DEF LastReadingHeld
  <2>1. carried'[z] \in Point /\ carried'[z].at + Retention >= now
    BY <1>1, <1>2, <1>15, PointTypes, TrackerAssumption DEF TypeOK, Time
  <2>2. carried'[z] \in Fresh
    BY <2>1 DEF Fresh
  <2>3. hs[z] # <<>> /\ Last(hs[z]) = carried'[z]
    <3>1. CASE z \in ToSet(zs)
      BY <3>1, <1>3, <1>7
    <3>2. CASE z \notin ToSet(zs)
      BY <3>2, <1>1, <1>2, <1>3, <1>13 DEF LastReadingHeld
    <3> QED BY <3>1, <3>2
  <2> QED BY <2>2, <2>3, <1>14
<1> QED BY <1>16, <1>17, <1>18 DEF Inv

\* Pruning leaves fresh points only, and the next pruning is a period away.
LEMMA PruneTaskInv == Inv /\ PruneTask => Inv'
<1> SUFFICES ASSUME Inv, PruneTask PROVE Inv'
  OBVIOUS
<1>1. TypeOK /\ Swept /\ LastReadingHeld
  BY DEF Inv
<1>2. now >= due /\ Pruned(history, order) /\ due' = now + Period /\ now' = now /\ carried' = carried
  BY DEF PruneTask
<1>3. /\ history' \in [Zones -> Seq(Point)]
      /\ order' \in Seq(Zones) /\ IsInjective(order')
      /\ ToSet(order') = {z \in Zones : history'[z] # <<>>}
      /\ \A z \in Zones : \A i \in 1..Len(history'[z]) : history'[z][i] \in Fresh
      /\ \A z \in Zones : history[z] # <<>> /\ Last(history[z]) \in Fresh =>
            history'[z] # <<>> /\ Last(history'[z]) = Last(history[z])
  BY <1>1, <1>2, PrunedFacts DEF TypeOK
<1>4. now \in Nat /\ due \in Nat /\ Retention \in Nat /\ Period \in Nat /\ Lag \in Nat
  BY <1>1, TrackerAssumption DEF TypeOK, Time
<1>5. TypeOK'
  BY <1>1, <1>2, <1>3, <1>4 DEF TypeOK
<1>6. Swept'
  <2>1. ASSUME NEW z \in Zones, NEW i \in 1..Len(history'[z])
        PROVE  due' <= history'[z][i].at + Retention + Period
    <3>1. history'[z][i] \in Fresh
      BY <1>3
    <3>2. history'[z][i].at \in Nat /\ history'[z][i].at + Retention >= now
      BY <3>1, PointTypes DEF Fresh
    <3> QED BY <1>2, <1>4, <3>2
  <2>2. due' <= now' + Period /\ now' <= due' + Lag
    BY <1>2, <1>4
  <2> QED BY <2>1, <2>2 DEF Swept
<1>7. LastReadingHeld'
  <2> SUFFICES ASSUME NEW z \in Zones, carried[z].at # 0, now <= carried[z].at + Retention
               PROVE  history'[z] # <<>> /\ Last(history'[z]) = carried[z]
    BY <1>2 DEF LastReadingHeld
  <2>1. history[z] # <<>> /\ Last(history[z]) = carried[z]
    BY <1>1 DEF LastReadingHeld
  <2>2. carried[z] \in Fresh
    BY <1>1, <1>4, PointTypes DEF TypeOK, Fresh
  <2> QED BY <2>1, <2>2, <1>3
<1> QED BY <1>5, <1>6, <1>7 DEF Inv

\* Points age by one while the clock is not past the next pruning and its lag.
LEMMA TickInv == Inv /\ Tick => Inv'
<1> SUFFICES ASSUME Inv, Tick PROVE Inv'
  OBVIOUS
<1>1. TypeOK /\ Swept /\ LastReadingHeld
  BY DEF Inv
<1>2. /\ now < MaxTime /\ now < due + Lag /\ now' = now + 1
      /\ UNCHANGED <<order, history, carried, due>>
  BY DEF Tick
<1>3. now \in Nat /\ due \in Nat /\ Retention \in Nat /\ Period \in Nat /\ Lag \in Nat /\ MaxTime \in Nat
  BY <1>1, TrackerAssumption DEF TypeOK, Time
<1>4. TypeOK'
  BY <1>1, <1>2, <1>3 DEF TypeOK, Time
<1>5. Swept'
  <2>1. due <= now + Period /\ \A z \in Zones : \A i \in 1..Len(history[z]) :
                                   due <= history[z][i].at + Retention + Period
    BY <1>1 DEF Swept
  <2>2. due' <= now' + Period /\ now' <= due' + Lag
    BY <1>2, <1>3, <2>1
  <2> QED BY <1>2, <2>1, <2>2 DEF Swept
<1>6. LastReadingHeld'
  <2> SUFFICES ASSUME NEW z \in Zones, carried[z].at # 0, now + 1 <= carried[z].at + Retention
               PROVE  history[z] # <<>> /\ Last(history[z]) = carried[z]
    BY <1>2 DEF LastReadingHeld
  <2>1. carried[z].at \in Nat
    BY <1>1, PointTypes DEF TypeOK
  <2>2. now <= carried[z].at + Retention
    BY <1>3, <2>1
  <2> QED BY <2>2, <1>1 DEF LastReadingHeld
<1> QED BY <1>4, <1>5, <1>6 DEF Inv

\* Every step keeps the invariant.
LEMMA NextInv == Inv /\ [Next]_vars => Inv'
<1> SUFFICES ASSUME Inv, [Next]_vars PROVE Inv'
  OBVIOUS
<1>1. CASE UNCHANGED vars
  BY <1>1 DEF vars, Inv, TypeOK, Swept, LastReadingHeld
<1> QED BY <1>1, UpdateInv, PruneTaskInv, TickInv DEF Next

\* The tracker's dictionary is that of the zones with points, by the time they came.
THEOREM AlwaysInv == Spec => []Inv
BY InitInv, NextInv, PTL DEF Spec

\* A viewer never gets a point older than the retention and one round of the prune task
\* (gateway/state.py prune_stale_points, server.py prune_zone_trackers_periodically).
THEOREM PointsAlwaysFresh == Spec => []PointsFresh
<1>1. Inv => PointsFresh
  <2> SUFFICES ASSUME Inv, NEW z \in Zones, NEW i \in 1..Len(history[z])
               PROVE  now <= history[z][i].at + Retention + Period + Lag
    BY DEF PointsFresh
  <2>1. due <= history[z][i].at + Retention + Period /\ now <= due + Lag
    BY DEF Inv, Swept
  <2>2. history[z] \in Seq(Point)
    BY DEF Inv, TypeOK
  <2>3. history[z][i].at \in Nat
    BY <2>2, PointTypes
  <2>4. now \in Nat /\ due \in Nat /\ Retention \in Nat /\ Period \in Nat /\ Lag \in Nat
    BY TrackerAssumption DEF Inv, TypeOK, Time
  <2>5. \A a, n, d, r, p, l \in Int :
           d <= a + r + p /\ n <= d + l => n <= a + r + p + l
    OBVIOUS
  <2> QED BY SMTT(30), <2>1, <2>3, <2>4, <2>5
<1> QED BY <1>1, AlwaysInv, PTL

\* The last reading that a snapshot brought of a zone is the zone's last point for as long
\* as the retention (gateway/state.py update_from_snapshot).
THEOREM LastReadingAlwaysHeld == Spec => []LastReadingHeld
<1>1. Inv => LastReadingHeld
  BY DEF Inv
<1> QED BY <1>1, AlwaysInv, PTL

-----------------------------------------------------------------------------
\* What a step makes of the points of z that are within the retention.
LEMMA RecentStep ==
    ASSUME Inv, [Next]_vars, NEW z \in Zones
    PROVE  IsPrefix(Filtered(history[z], Fresh), Filtered(history'[z], Fresh))
<1> DEFINE kept == Filtered(history[z], Fresh)
<1>1. history \in [Zones -> Seq(Point)] /\ history[z] \in Seq(Point)
  BY DEF Inv, TypeOK
<1>2. kept \in Seq(Point)
  BY <1>1, FilteredFacts
<1>3. carried[z] \in Point
  BY DEF Inv, TypeOK
<1> HIDE DEF kept
<1>4. IsPrefix(kept, kept) /\ \A p \in Point : IsPrefix(kept, Append(kept, p))
  BY <1>2, <1>3, PrefixFacts
<1>5. CASE UpdateFromSnapshot
  <2>1. PICK zs \in ReadingLists :
          \E read \in [ToSet(zs) -> UNION {ReadingsOf(y) : y \in ToSet(zs)}] :
              /\ \A y \in ToSet(zs) : read[y] \in ReadingsOf(y)
              /\ Pruned([y \in Zones |-> IF y \in ToSet(zs) THEN Appended(history[y], read[y])
                                                            ELSE history[y]],
                        order \o Filtered(zs, {y \in Zones : history[y] = <<>>}))
    BY <1>5 DEF UpdateFromSnapshot
  <2>2. PICK read :
          /\ \A y \in ToSet(zs) : read[y] \in ReadingsOf(y)
          /\ Pruned([y \in Zones |-> IF y \in ToSet(zs) THEN Appended(history[y], read[y])
                                                        ELSE history[y]],
                    order \o Filtered(zs, {y \in Zones : history[y] = <<>>}))
    BY <2>1
  <2>3. CASE z \in ToSet(zs)
    <3>1. read[z] \in Point
      BY <2>2, <2>3 DEF ReadingsOf
    <3>2. history'[z] = Filtered(Append(history[z], read[z]), Fresh)
      BY <2>2, <2>3 DEF Pruned, Appended
    <3>3. Append(history[z], read[z]) \in Seq(Point)
      BY <1>1, <3>1
    <3>4. Filtered(history'[z], Fresh) = Filtered(Append(history[z], read[z]), Fresh)
      BY <3>2, <3>3, FilteredAgain
    <3>5. Filtered(history'[z], Fresh) \in {kept, Append(kept, read[z])}
      BY <1>1, <3>1, <3>4, FilteredAppend DEF kept
    <3> QED BY <3>1, <3>5, <1>4 DEF kept
  <2>4. CASE z \notin ToSet(zs)
    <3>1. history'[z] = kept
      BY <2>2, <2>4 DEF Pruned, kept
    <3>2. Filtered(history'[z], Fresh) = kept
      BY <3>1, <1>1, FilteredAgain DEF kept
    <3> QED BY <3>2, <1>4 DEF kept
  <2> QED BY <2>3, <2>4
<1>6. CASE PruneTask
  <2>1. history'[z] = kept
    BY <1>6 DEF PruneTask, Pruned, kept
  <2>2. Filtered(history'[z], Fresh) = kept
    BY <2>1, <1>1, FilteredAgain DEF kept
  <2> QED BY <2>2, <1>4 DEF kept
<1>7. CASE history' = history
  BY <1>7, <1>4 DEF kept
<1> QED BY <1>5, <1>6, <1>7 DEF Next, Tick, vars

\* No step drops a point that is within the retention, or puts one before it: not a
\* snapshot with readings of any zones in any order, not the prune task
\* (gateway/state.py update_from_snapshot, prune_stale_points).
THEOREM RecentAlwaysStay == Spec => RecentStay
<1>1. Inv /\ [Next]_vars =>
        \A z \in Zones :
           LET recent == {p \in Point : p.at + Retention >= now}
           IN IsPrefix(Filtered(history[z], recent), Filtered(history'[z], recent))
  BY RecentStep DEF Fresh
<1> QED BY <1>1, AlwaysInv, PTL DEF Spec, RecentStay

-----------------------------------------------------------------------------
\* A share below a second one that is below a third, or is the third, is below the third.
LEMMA SharesInOrder ==
    ASSUME NEW a \in Nat, NEW b \in Nat, NEW c \in Nat,
           NEW l \in Nat \ {0}, NEW m \in Nat \ {0}, NEW n \in Nat \ {0},
           a * m <= b * l, b * n < c * m
    PROVE  a * n < c * l
<1>1. (a * m) * n <= (b * l) * n
  BY MulMonotone
<1>2. (b * n) * l < (c * m) * l
  BY MulStrict
<1>3. (b * l) * n = (b * n) * l /\ (a * m) * n = (a * n) * m /\ (c * m) * l = (c * l) * m
  OBVIOUS
<1>4. (a * n) * m < (c * l) * m
  BY <1>1, <1>2, <1>3
<1>5. a * n \in Nat /\ c * l \in Nat
  OBVIOUS
<1> QED BY <1>4, <1>5, MulCancel

\* Every key of the dictionary has points, and so an average.
LEMMA KeyFacts ==
    ASSUME TypeOK, NEW i \in 1..Len(order)
    PROVE  /\ order[i] \in Zones
           /\ On(history[order[i]]) \in Nat
           /\ Len(history[order[i]]) \in Nat \ {0}
<1> DEFINE h == history[order[i]]
<1>1. order[i] \in Zones /\ order[i] \in ToSet(order)
  BY DEF TypeOK, ToSet
<1>2. h # <<>> /\ h \in Seq(Point)
  BY <1>1 DEF TypeOK
<1>3. Len(h) \in Nat \ {0} /\ DOMAIN h = 1..Len(h)
  BY <1>2
<1> HIDE DEF h
<1>4. IsFiniteSet(1..Len(h))
  BY <1>3, FS_Interval
<1>5. IsFiniteSet({k \in DOMAIN h : h[k].on = 1})
  <2> DEFINE D == {k \in DOMAIN h : h[k].on = 1}
  <2>1. D \in SUBSET (1..Len(h))
    BY <1>3
  <2> HIDE DEF D
  <2>2. IsFiniteSet(D)
    BY <1>4, <2>1, FS_Subset
  <2> QED BY <2>2 DEF D
<1>6. On(h) \in Nat
  BY <1>5, FS_CardinalityType DEF On
<1> QED BY <1>1, <1>3, <1>6 DEF h

\* best leads the first i zones of the dictionary: its share is no smaller than any of
\* theirs, and it comes before those with the same.
Leads(best, i) ==
    /\ best = NoZone <=> i = 0
    /\ i # 0 => \E j \in 1..i :
          /\ best = order[j]
          /\ \A k \in 1..i :
                /\ On(history[order[k]]) * Len(history[best]) <= On(history[best]) * Len(history[order[k]])
                /\ On(history[order[k]]) * Len(history[best]) = On(history[best]) * Len(history[order[k]])
                      => j <= k

\* A turn of the loop keeps a leader.
LEMMA BetterLeads ==
    ASSUME TypeOK, NEW i \in 1..Len(order), NEW best, Leads(best, i - 1)
    PROVE  Leads(Better(i, best), i)
<1>1. Len(order) \in Nat /\ i \in Nat
  BY DEF TypeOK
<1>2. \A k \in 1..i : k \in 1..Len(order)
  BY <1>1
<1>3. order[i] # NoZone
  BY KeyFacts, TrackerAssumption
<1>4. CASE best = NoZone
  <2>1. i = 1 /\ Better(i, best) = order[1]
    BY <1>1, <1>4 DEF Leads, Better
  <2> QED BY <2>1, <1>3, KeyFacts DEF Leads
<1>5. CASE best # NoZone
  <2>1. i - 1 # 0
    BY <1>5 DEF Leads
  <2>2. PICK j \in 1..(i - 1) :
          /\ best = order[j]
          /\ \A k \in 1..(i - 1) :
                /\ On(history[order[k]]) * Len(history[best]) <= On(history[best]) * Len(history[order[k]])
                /\ On(history[order[k]]) * Len(history[best]) = On(history[best]) * Len(history[order[k]])
                      => j <= k
    BY <2>1 DEF Leads
  <2> DEFINE a(k) == On(history[order[k]])
             l(k) == Len(history[order[k]])
  <2>3. \A k \in 1..i : a(k) \in Nat /\ l(k) \in Nat \ {0}
    BY <1>2, KeyFacts
  <2>4. j \in 1..i /\ i \in 1..i /\ j \in Nat /\ \A k \in 1..i : k \in 1..(i - 1) \/ k = i
    BY <1>1
  <2>5. \A k \in 1..(i - 1) : a(k) * l(j) <= a(j) * l(k) /\ (a(k) * l(j) = a(j) * l(k) => j <= k)
    BY <2>2
  <2>6. Above(history[order[i]], history[best]) <=> a(i) * l(j) > a(j) * l(i)
    BY <2>2 DEF Above
  <2>7. CASE a(i) * l(j) > a(j) * l(i)
    <3>1. Better(i, best) = order[i]
      BY <2>6, <2>7 DEF Better
    <3>2. \A k \in 1..(i - 1) : a(k) * l(i) < a(i) * l(k)
      <4> TAKE k \in 1..(i - 1)
      <4>1. k \in 1..i
        BY <1>1
      <4>2. a(j) * l(i) < a(i) * l(j) /\ a(k) * l(j) <= a(j) * l(k)
        BY <2>3, <2>4, <2>5, <2>7
      <4> HIDE DEF a, l
      <4> QED BY <2>3, <2>4, <4>1, <4>2, SharesInOrder
    <3>3. \A k \in 1..i : a(k) * l(i) <= a(i) * l(k) /\ (a(k) * l(i) = a(i) * l(k) => i <= k)
      <4> TAKE k \in 1..i
      <4> HIDE DEF a, l
      <4>1. a(k) * l(i) \in Int /\ a(i) * l(k) \in Int
        BY <2>3, <2>4
      <4>2. CASE k = i
        BY <4>1, <4>2, <1>1
      <4>3. CASE k # i
        BY <3>2, <4>1, <4>3, <2>4
      <4> QED BY <4>2, <4>3
    <3> QED BY <3>1, <3>3, <1>1, <1>3, <2>4 DEF Leads
  <2>8. CASE ~(a(i) * l(j) > a(j) * l(i))
    <3>1. Better(i, best) = order[j]
      BY <2>2, <2>6, <2>8, <1>5 DEF Better
    <3>2. a(i) * l(j) <= a(j) * l(i)
      <4> HIDE DEF a, l
      <4>1. a(i) * l(j) \in Int /\ a(j) * l(i) \in Int
        BY <2>3, <2>4
      <4> QED BY <4>1, <2>8
    <3>3. \A k \in 1..i : a(k) * l(j) <= a(j) * l(k) /\ (a(k) * l(j) = a(j) * l(k) => j <= k)
      BY <2>4, <2>5, <3>2, <1>1
    <3>4. order[j] # NoZone
      BY <1>5, <2>2
    <3> QED BY <3>1, <3>3, <3>4, <1>1, <2>1, <2>4 DEF Leads
  <2> QED BY <2>7, <2>8
<1> QED BY <1>4, <1>5

\* The loop over the dictionary ends with the zone that leads it.
LEMMA ServedLeads == ASSUME TypeOK PROVE Leads(Served, Len(order))
<1> DEFINE n == Len(order)
           V == Zones \cup {NoZone}
           step == [p \in (1..n) \X V |-> Better(p[1], p[2])]
<1>1. n \in Nat
  BY DEF TypeOK
<1>2. step \in [(1..n) \X V -> V]
  <2>1. \A p \in (1..n) \X V : Better(p[1], p[2]) \in V
    BY KeyFacts DEF Better
  <2> QED BY <2>1
<1>3. \A i \in 1..n : \A v \in V : step[<<i, v>>] = Better(i, v)
  OBVIOUS
<1>4. Served = Looped(n, NoZone, step)
  BY DEF Served
<1> HIDE DEF step
<1>5. PICK f : Turns(f, n, V, NoZone, step) /\ Served = f[n]
  <2>1. NoZone \in V
    OBVIOUS
  <2> HIDE DEF n, V
  <2>2. \E f : Turns(f, n, V, NoZone, step) /\ Looped(n, NoZone, step) = f[n]
    BY <1>1, <1>2, <2>1, LoopFacts
  <2> QED BY <2>2, <1>4
<1>6. /\ f \in [0..n -> V]
      /\ f[0] = NoZone
      /\ \A i \in 1..n : f[i] = Better(i, f[i - 1])
  <2>1. \A i \in 1..n : i - 1 \in 0..n
    BY <1>1
  <2> QED BY <1>3, <1>5, <2>1 DEF Turns
<1>7. {i \in 0..n : ~Leads(f[i], i)} = {}
  <2> DEFINE S == {i \in 0..n : ~Leads(f[i], i)}
  <2> SUFFICES ASSUME S # {} PROVE FALSE
    OBVIOUS
  <2>1. S \in SUBSET Nat
    OBVIOUS
  <2>2. PICK i \in S : \A m \in S : i <= m
    BY <2>1, Least
  <2>3. i \in 0..n /\ ~Leads(f[i], i)
    BY <2>2
  <2>4. CASE i = 0
    BY <2>3, <2>4, <1>6 DEF Leads
  <2>5. CASE i # 0
    <3>1. i \in 1..n /\ i - 1 \in 0..n /\ i - 1 \notin S
      BY <1>1, <2>2, <2>3, <2>5
    <3>2. Leads(f[i - 1], i - 1)
      BY <3>1
    <3>3. Leads(Better(i, f[i - 1]), i)
      BY <3>1, <3>2, BetterLeads
    <3> QED BY <2>3, <3>1, <3>3, <1>6
  <2> QED BY <2>4, <2>5
<1>8. n \in 0..n
  BY <1>1
<1> QED BY <1>5, <1>7, <1>8

\* The zone served is one on for as large a share of its points as any other, of several
\* the one the dictionary has had longest, and there is one whenever there is a point
\* (gateway/state.py highest_average_zone_channel).
THEOREM ServedAlwaysHighest == Spec => []ServedHighest
<1>1. Inv => ServedHighest
  <2> SUFFICES ASSUME Inv PROVE ServedHighest
    OBVIOUS
  <2>1. TypeOK
    BY DEF Inv
  <2>2. Leads(Served, Len(order))
    BY <2>1, ServedLeads
  <2>3. Len(order) \in Nat /\ DOMAIN order = 1..Len(order)
    BY <2>1 DEF TypeOK
  <2>4. Len(order) = 0 <=> \A z \in Zones : history[z] = <<>>
    <3>1. ToSet(order) = {z \in Zones : history[z] # <<>>}
      BY <2>1 DEF TypeOK
    <3>2. Len(order) = 0 <=> ToSet(order) = {}
      <4>1. ASSUME Len(order) # 0 PROVE order[1] \in ToSet(order)
        BY <2>3, <4>1 DEF ToSet
      <4>2. ASSUME Len(order) = 0 PROVE ToSet(order) = {}
        BY <2>3, <4>2 DEF ToSet
      <4> QED BY <4>1, <4>2
    <3> QED BY <3>1, <3>2
  <2>5. ASSUME Served # NoZone, NEW i \in 1..Len(order)
        PROVE  LET z == order[i] IN
               /\ On(history[z]) * Len(history[Served]) <= On(history[Served]) * Len(history[z])
               /\ On(history[z]) * Len(history[Served]) = On(history[Served]) * Len(history[z])
                     => \E j \in 1..i : order[j] = Served
    <3>1. PICK j \in 1..Len(order) :
            /\ Served = order[j]
            /\ \A k \in 1..Len(order) :
                  /\ On(history[order[k]]) * Len(history[Served]) <= On(history[Served]) * Len(history[order[k]])
                  /\ On(history[order[k]]) * Len(history[Served]) = On(history[Served]) * Len(history[order[k]])
                        => j <= k
      BY <2>2, <2>5 DEF Leads
    <3>2. j <= i => j \in 1..i
      OBVIOUS
    <3> QED BY <3>1, <3>2
  <2> QED BY <2>2, <2>4, <2>5 DEF ServedHighest, Leads
<1> QED BY <1>1, AlwaysInv, PTL
=============================================================================
