-------------------------- MODULE HourlyElectricity --------------------------
(***************************************************************************)
(* The electricity of some houses, hour by hour                            *)
(* (api/v2/routers/hourly_electricity.py): one query that sums over a join *)
(* with the roles of the login.                                            *)
(*                                                                         *)
(* What is asked is a record: kwh, the hours' energy of each house, by     *)
(* time; roles, a set of the login's rows; houses, the aliases of the      *)
(* path; malformed, whether one of them is no alias; start, end; now.      *)
(***************************************************************************)
EXTENDS Roles, RouteAnswer, Ordered

\* What a request is: the energy of an hour is a whole number of a small unit.
IsHourly(q) ==
    /\ IsFiniteSet(q.roles)
    /\ IsFiniteSet(q.houses) /\ q.houses \subseteq Houses
    /\ \A h \in q.houses : \A t \in DOMAIN q.kwh[h] : q.kwh[h][t] \in Int
    /\ q.start \in Int /\ q.end \in Int /\ q.now \in Int

\* A mutation: the age is that of the first hour asked for.
OldFromStart(q) == OldData(q.start, q.now)

\* is_old_data, of all that is asked for by its end.
IsOldData(q) == OldData(q.end, q.now)

\* A mutation: the roles are joined whatever house they are for.
JoinedAny(q, h) == {r \in q.roles : r.role \in {"owner", "admin"} \/ IsOldData(q)}

\* The role rows that are joined to a house's hours.
RolesJoined(q, h) ==
    {r \in RolesFor(q.roles, h) : r.role \in {"owner", "admin"} \/ IsOldData(q)}

\* The hours with a joined row: GROUP BY time_bucket.
Hours(q) ==
    {t \in q.start..q.end :
        \E h \in q.houses : t \in DOMAIN q.kwh[h] /\ RolesJoined(q, h) # {}}

\* SUM(hp_kwh_el): a house's hour is in the join once for each of its joined roles.
Summed(q, t) ==
    LET read == {h \in q.houses : t \in DOMAIN q.kwh[h]}
    IN SumOf([h \in read |-> Cardinality(RolesJoined(q, h)) * q.kwh[h][t]], read)

\* get_hourly_electricity: an alias that is none raises.
Electricity(q) ==
    IF q.malformed THEN Without("error") ELSE Data([t \in Hours(q) |-> Summed(q, t)])
=============================================================================
