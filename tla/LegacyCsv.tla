------------------------------ MODULE LegacyCsv ------------------------------
(***************************************************************************)
(* What a CSV of the legacy backend has in it (get_data and get_csv of     *)
(* api/backend_api.py): the channels that the reports of a window are      *)
(* collected into, the snapshots that are appended, and the value that     *)
(* each line takes from a channel.                                         *)
(*                                                                         *)
(* A report is a sequence of lists of readings.  A list has the channel it *)
(* is of, the readings (a set of records of time and value), whether it    *)
(* names its channel or gives an Id, and whether the report declares that  *)
(* Id; bad lists have no readings or lists of unequal lengths.  A snapshot *)
(* is the time it was persisted and the readings in it by channel.         *)
(***************************************************************************)
EXTENDS RouteAnswer, Ordered, SequencesExt, Functions

CONSTANTS
    Channels,
    NoChannel,
    Hour,
    FallBack    \* when an hour begins to be repeated on local clocks

ASSUME LegacyCsvAssumption ==
    /\ NoChannel \notin Channels
    /\ Hour \in Nat
    /\ FallBack \in Int

Reading == [time : Int, value : Int]

ReadingList ==
    [channel : Channels, readings : SUBSET Reading, bad : BOOLEAN, named : BOOLEAN, declared : BOOLEAN]

\* What is found for a CSV: the reports and the snapshots.
IsCollection(q) ==
    /\ q.reports \in Seq(Seq(ReadingList))
    /\ \A p \in DOMAIN q.reports : \A list \in Range(q.reports[p]) : IsFiniteSet(list.readings)
    /\ IsFiniteSet(q.snapshots)
    /\ \A s \in q.snapshots : s.persisted \in Int /\ s.readings \in [Channels -> SUBSET Reading]

\* The lists of all reports, in the order of the loops.
ListsOf(reports) ==
    Looped(Len(reports), <<>>,
           [p \in (1..Len(reports)) \X Seq(ReadingList) |-> p[2] \o reports[p[1]]])

\* channel_name after the lookup: as it was if the Id is not declared.
NameAfter(name, list) == IF list.named \/ list.declared THEN list.channel ELSE name

\* A mutation: a list's readings replace those of the lists before it.
TakeOnly(state, list) ==
    LET name == NameAfter(state.name, list) IN
    IF state.unbound THEN state
    ELSE IF list.bad THEN [state EXCEPT !.name = name]
    ELSE IF name = NoChannel THEN [state EXCEPT !.unbound = TRUE]
    ELSE [name |-> name, unbound |-> FALSE,
          channels |-> [state.channels EXCEPT ![name] = list.readings]]

\* The loop over the lists: channel_name, the readings by channel, and whether a name
\* that was never bound has been used.
TakeList(state, list) ==
    LET name == NameAfter(state.name, list) IN
    IF state.unbound THEN state
    ELSE IF list.bad THEN [state EXCEPT !.name = name]
    ELSE IF name = NoChannel THEN [state EXCEPT !.unbound = TRUE]
    ELSE [name |-> name, unbound |-> FALSE,
          channels |-> [state.channels EXCEPT ![name] = @ \cup list.readings]]

Collecting ==
    [name : Channels \cup {NoChannel}, unbound : BOOLEAN, channels : [Channels -> SUBSET Reading]]

Collected(reports) ==
    LET lists == ListsOf(reports) IN
    Looped(Len(lists),
           [name |-> NoChannel, unbound |-> FALSE, channels |-> [c \in Channels |-> {}]],
           [p \in (1..Len(lists)) \X Collecting |-> TakeList(p[2], lists[p[1]])])

Times(channels) == {r.time : r \in UNION {channels[c] : c \in Channels}}

LastTime(times) == CHOOSE t \in times : \A u \in times : u <= t

\* The snapshots from the last reading on.
Appended(channels, s) == s.persisted >= LastTime(Times(channels))

\* The readings of these snapshots, of the channels that reports have.
WithSnapshots(channels, snapshots) ==
    [c \in Channels |->
        IF channels[c] = {} THEN {}
        ELSE channels[c] \cup UNION {s.readings[c] : s \in {s \in snapshots : Appended(channels, s)}}]

\* get_data, of the channels: an error, no data, or each channel's readings.
Gathered(q) ==
    LET collected == Collected(q.reports) IN
    IF collected.unbound THEN Without("error")
    ELSE IF Times(collected.channels) = {} THEN Without("no data")
    ELSE Data(WithSnapshots(collected.channels, q.snapshots))

-----------------------------------------------------------------------------
\* A clock without its zone: from FallBack on it is an hour back.
Local(t) == IF t >= FallBack THEN t - Hour ELSE t

\* In the order of the sort by time and value.
Before(r, s) == r.time < s.time \/ (r.time = s.time /\ r.value <= s.value)

\* The times are in order when they have become local.
Monotonic(readings) == \A r, s \in readings : r.time < s.time => Local(r.time) <= Local(s.time)

\* The readings of the last local time up to the line's: merge_asof looks back.
LastBack(readings, t) ==
    LET back == {r \in readings : Local(r.time) <= Local(t)} IN
    {r \in back : \A s \in back : Local(s.time) <= Local(r.time)}

\* A mutation: the first of the readings of one time is kept.
FirstCells(readings, t) ==
    LET last == LastBack(readings, t) IN
    {r.value : r \in {r \in last : \A s \in last : Before(r, s)}}

\* The cells a line at t may have of a channel's readings, none for an empty cell.  Of
\* readings at one time the last is kept, in the order of the sort; local times out of
\* order are sorted again, and which of equal ones is last is open.
Cells(readings, t) ==
    LET last == LastBack(readings, t) IN
    {r.value : r \in {r \in last : Monotonic(readings) => \A s \in last : Before(s, r)}}
=============================================================================
