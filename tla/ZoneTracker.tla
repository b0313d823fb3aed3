----------------------------- MODULE ZoneTracker -----------------------------
(***************************************************************************)
(* The zone whitewire tracker of one house (gateway/state.py               *)
(* ZoneWhitewireTracker): the readings of each zone's whitewire channel    *)
(* over the retention, and the zone whose series viewers get.              *)
(*                                                                         *)
(* A point is the second a reading was taken and whether it was above the  *)
(* house's threshold.  Retention is ZONE_HISTORY_RETENTION_SECONDS and     *)
(* Period the sleep of the prune task, in a unit of time of their own; the *)
(* loop wakes that task no more than Lag late.  MaxTime bounds the clock   *)
(* and MaxPoints the points of a zone, in the guards.                      *)
(***************************************************************************)
EXTENDS Ordered, SequencesExt

CONSTANTS
    Zones,      \* the channels that is_zone_whitewire_channel accepts
    NoZone,
    Retention,
    Period,
    Lag,
    MaxTime,
    MaxPoints

ASSUME TrackerAssumption ==
    /\ IsFiniteSet(Zones)
    /\ NoZone \notin Zones
    /\ Retention \in Nat
    /\ Period \in Nat \ {0}
    /\ Lag \in Nat
    /\ MaxTime \in Nat /\ Retention <= MaxTime
    /\ MaxPoints \in Nat

VARIABLES
    now,        \* time.time, whole seconds
    order,      \* the keys of _zones, in the order of the dictionary
    history,    \* the points of each zone; <<>> for one that is no key
    carried,    \* the last reading of each zone that a snapshot brought
    due         \* when the prune task wakes

vars == <<now, order, history, carried, due>>

Time == 0..MaxTime

Point == [at : Time, on : {0, 1}]

\* The dictionary has a zone exactly when the zone has a point: a zone whose points
\* are all pruned leaves it, so no average divides by zero.
TypeOK ==
    /\ now \in Time
    /\ history \in [Zones -> Seq(Point)]
    /\ carried \in [Zones -> Point]
    /\ due \in Nat
    /\ order \in Seq(Zones) /\ IsInjective(order)
    /\ ToSet(order) = {z \in Zones : history[z] # <<>>}

Init ==
    /\ now = Retention
    /\ order = <<>>
    /\ history = [z \in Zones |-> <<>>]
    /\ carried = [z \in Zones |-> [at |-> 0, on |-> 0]]
    /\ due = now + Period

-----------------------------------------------------------------------------
\* A mutation: a point as old as the retention is dropped.
Younger == {p \in Point : p.at + Retention > now}

\* timestamp >= cutoff.
Fresh == {p \in Point : p.at + Retention >= now}

\* prune_stale_points, of the histories hs under the keys ks.
Pruned(hs, ks) ==
    /\ history' = [z \in Zones |-> Filtered(hs[z], Fresh)]
    /\ order' = Filtered(ks, {z \in Zones : history'[z] # <<>>})

\* A mutation: a reading is recorded only when it switches the zone.
AppendedIfSwitched(h, p) ==
    IF h # <<>> /\ Last(h).on = p.on THEN h ELSE Append(h, p)

\* Each reading is a point, the same reading again too.
Appended(h, p) == Append(h, p)

\* The zones a snapshot may have readings of, in the order of its list.
ReadingLists ==
    {zs \in UNION {[1..n -> Zones] : n \in 0..Cardinality(Zones)} : IsInjective(zs)}

\* The readings of z a snapshot may have.  It is accepted only if it is newer than the
\* last, so it has the last reading again or a later one.
ReadingsOf(z) == {p \in Point : p.at \in 1..now /\ p.at >= carried[z].at}

\* update_from_snapshot.
UpdateFromSnapshot ==
    \E zs \in ReadingLists :
        /\ \A z \in ToSet(zs) : Len(history[z]) < MaxPoints
        /\ \E read \in [ToSet(zs) -> UNION {ReadingsOf(z) : z \in ToSet(zs)}] :
              /\ \A z \in ToSet(zs) : read[z] \in ReadingsOf(z)
              /\ Pruned([z \in Zones |-> IF z \in ToSet(zs) THEN Appended(history[z], read[z])
                                                            ELSE history[z]],
                        order \o Filtered(zs, {z \in Zones : history[z] = <<>>}))
              /\ carried' = [z \in Zones |-> IF z \in ToSet(zs) THEN read[z] ELSE carried[z]]
        /\ UNCHANGED <<now, due>>

\* A mutation: the task is never started.
NoTask == due' = due + Period /\ UNCHANGED <<now, order, history, carried>>

\* prune_zone_trackers_periodically, which sleeps again from when it is done.
PruneTask ==
    /\ now >= due
    /\ Pruned(history, order)
    /\ due' = now + Period
    /\ UNCHANGED <<now, carried>>

Tick ==
    /\ now < MaxTime
    /\ now < due + Lag
    /\ now' = now + 1
    /\ UNCHANGED <<order, history, carried, due>>

Next == UpdateFromSnapshot \/ PruneTask \/ Tick

Spec == Init /\ [][Next]_vars

-----------------------------------------------------------------------------
\* The sum of a zone's values.
On(h) == Cardinality({i \in DOMAIN h : h[i].on = 1})

\* A mutation: a later zone of the same average is taken.
NotBelow(h, best) == On(h) * Len(best) >= On(best) * Len(h)

\* The average of h is above that of best.
Above(h, best) == On(h) * Len(best) > On(best) * Len(h)

\* One turn of the loop over the dictionary: the i-th zone, after best.
Better(i, best) ==
    IF best = NoZone \/ Above(history[order[i]], history[best]) THEN order[i] ELSE best

\* highest_average_zone_channel.
Served ==
    Looped(Len(order), NoZone, [p \in (1..Len(order)) \X (Zones \cup {NoZone}) |-> Better(p[1], p[2])])

-----------------------------------------------------------------------------
(* Properties. *)

\* Viewers get the series of a zone on as large a share of its points as any other, of
\* several the one tracked longest, and get one whenever there is a point at all
\* (state.py highest_average_zone_channel, zone_whitewire_series_message).
ServedHighest ==
    /\ Served = NoZone <=> \A z \in Zones : history[z] = <<>>
    /\ Served # NoZone =>
          \A i \in 1..Len(order) :
              LET z == order[i] IN
              /\ On(history[z]) * Len(history[Served]) <= On(history[Served]) * Len(history[z])
              /\ On(history[z]) * Len(history[Served]) = On(history[Served]) * Len(history[z])
                    => \E j \in 1..i : order[j] = Served

\* No point is served that is older than the retention and the time the prune task may
\* take to come round: an idle house's points go without a snapshot to prune them.
PointsFresh ==
    \A z \in Zones : \A i \in 1..Len(history[z]) :
        now <= history[z][i].at + Retention + Period + Lag

\* Nothing within the retention is lost: the last reading a snapshot brought of a zone
\* is the last point of the zone, and no step drops a point that is not too old.
LastReadingHeld ==
    \A z \in Zones :
        carried[z].at # 0 /\ now <= carried[z].at + Retention =>
            history[z] # <<>> /\ Last(history[z]) = carried[z]

\* The points of a zone that are within the retention stay, in the order they came.
RecentStay ==
    [][\A z \in Zones :
          LET recent == {p \in Point : p.at + Retention >= now}
          IN IsPrefix(Filtered(history[z], recent), Filtered(history'[z], recent))]_vars
=============================================================================
