------------------------------ MODULE Summaries ------------------------------
(***************************************************************************)
(* The houses' summaries (api/v2/routers/installation_summaries.py): one   *)
(* query over the roles, the houses, their projections, the journal and    *)
(* the readings, and a gw.house.summary of each row of its result.         *)
(*                                                                         *)
(* A fleet is what the query finds: roles, a set of rows of the login;     *)
(* layout and status, the version of each house's row; snapshot, the       *)
(* version of each sender's newest snapshot of the last 24 hours; calls,   *)
(* the readings of the heat-call channels; now.  None is for none.         *)
(***************************************************************************)
EXTENDS SemaCodec, Roles, RouteAnswer

CONSTANTS
    Senders,        \* those who send snapshots
    NoSender,
    Starts,         \* of each house: the senders whose alias begins with the house's
    Zones,          \* heat-call channels
    NoZone,
    HouseOf,        \* the house of each channel
    Day             \* 24 hours

ASSUME SummariesAssumption ==
    /\ NoSender \notin Senders
    /\ NoZone \notin Zones
    /\ Starts \in [Houses -> SUBSET Senders]
    /\ HouseOf \in [Zones -> Houses]
    /\ Day \in Nat

None == -2

\* What a fleet is: one of the tables, and what there is to read in them.
IsFleet(f) ==
    /\ IsFiniteSet(f.roles)
    /\ f.layout \in [Houses -> {None} \cup (Nat \ {0})]
    /\ f.status \in [Houses -> {None} \cup Nat]
    /\ f.snapshot \in [Senders -> {None} \cup (Nat \ {0})]
    /\ f.now \in Nat
    /\ \A z \in Zones : f.calls[z] \in [DOMAIN f.calls[z] -> {0, 1}]
                       /\ DOMAIN f.calls[z] \subseteq 0..f.now

\* dashboard_role: a role that is none of the enum's grants the least.
DashboardRole(role) == IF role \in {"admin", "owner", "viewer"} THEN role ELSE "viewer"

\* A mutation: the alias is matched anywhere in the sender's.
JoinedAnywhere(f, h) == {s \in Senders : f.snapshot[s] # None}

\* from_alias LIKE house || '%'.
Joined(f, h) == {s \in Starts[h] : f.snapshot[s] # None}

\* The result's rows: every role's houses, with every snapshot joined to them.
Rows(f) ==
    LET senders(h) == IF Joined(f, h) = {} THEN {NoSender} ELSE Joined(f, h)
        rows(h) == [of : RolesFor(f.roles, h), house : {h}, sender : senders(h)]
    IN UNION {rows(h) : h \in Houses}

-----------------------------------------------------------------------------
\* A channel's readings are a function from the times of its readings to 0 or 1.
LatestReading(f, z) ==
    LET times == {t \in DOMAIN f.calls[z] : t >= f.now - Day} IN
    IF times = {} THEN None ELSE CHOOSE t \in times : \A u \in times : u <= t

\* latest_readings with row_number = 1 and value = 1.
Calling(f, z) == LatestReading(f, z) # None /\ f.calls[z][LatestReading(f, z)] = 1

Offs(f, z) == {t \in DOMAIN f.calls[z] : t >= f.now - Day /\ f.calls[z][t] = 0}

LastOff(f, z) == CHOOSE t \in Offs(f, z) : \A u \in Offs(f, z) : u <= t

\* active_heat_calls JOIN last_inactive_times.
Active(f, h) == {z \in Zones : HouseOf[z] = h /\ Calling(f, z) /\ Offs(f, z) # {}}

\* A mutation: the last to be off.
Shortest(f, h) ==
    IF Active(f, h) = {} THEN {[zone |-> NoZone, start |-> None]}
    ELSE {[zone |-> z, start |-> LastOff(f, z)] :
             z \in {z \in Active(f, h) : \A y \in Active(f, h) : LastOff(f, z) >= LastOff(f, y)}}

\* heat_calls with row_number = 1: of zones with the same last time off, any.
Longest(f, h) ==
    IF Active(f, h) = {} THEN {[zone |-> NoZone, start |-> None]}
    ELSE {[zone |-> z, start |-> LastOff(f, z)] :
             z \in {z \in Active(f, h) : \A y \in Active(f, h) : LastOff(f, z) <= LastOff(f, y)}}

-----------------------------------------------------------------------------
\* A row whose layout, status or snapshot cannot be decoded; the last two are wanted in
\* the latest version, the layout in its own.
Undecodable(f, row) ==
    \/ f.layout[row.house] # None /\ Decoded("layout.lite", f.layout[row.house], FALSE) = Raises
    \/ f.status[row.house] # None
          /\ Decoded("gw.house.operating.status", f.status[row.house], TRUE) = Raises
    \/ row.sender # NoSender
          /\ Decoded("snapshot.spaceheat", f.snapshot[row.sender], TRUE) = Raises

\* The layout versions that gw.house.summary carries; another is left null.
Layout(f, h) == IF f.layout[h] \in {11, 12, 13} THEN f.layout[h] ELSE None

\* The summary of a row, with a zone that the query may have picked.
Summary(f, row, pick) ==
    [role |-> DashboardRole(row.of.role), of |-> row.of.house, house |-> row.house,
     snapshot |-> row.sender, layout |-> Layout(f, row.house), zone |-> pick.zone,
     start |-> pick.start]

\* get_summaries: a row that raises fails the request.  A house's zone is picked once.
Answers(f) ==
    IF \E row \in Rows(f) : Undecodable(f, row) THEN {Without("error")}
    ELSE {Data({Summary(f, row, pick[row.house]) : row \in Rows(f)}) :
             pick \in {p \in [Houses -> UNION {Longest(f, h) : h \in Houses}] :
                          \A h \in Houses : p[h] \in Longest(f, h)}}
=============================================================================
