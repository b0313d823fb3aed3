----------------------------- MODULE HouseState -----------------------------
(***************************************************************************)
(* A house as the gateway holds it (gateway/state.py HouseState and the    *)
(* update methods of HouseStateStore), as pure operators on a record.      *)
(*                                                                         *)
(* Data are abstracted to what a viewer can tell apart.  A snapshot is its *)
(* time (0 is Python's None; snapshot_time_ms is 0 then too).  The zone    *)
(* whitewire series is the time of the snapshot that last put a point into *)
(* it, 0 when the tracker has no point left, so no series message.  A      *)
(* layout is a member of Layouts, NoLayout before the first.  A house that *)
(* the store has no entry for is EmptyHouse, whose gnode is NoAlias; the   *)
(* status sent for it has an empty target_gnode.                           *)
(***************************************************************************)
EXTENDS Naturals

CONSTANTS
    Aliases,        \* g_node aliases of scadas (an envelope's src, a row's from_alias)
    NoAlias,
    Layouts,        \* layout payloads
    NoLayout,
    MaxStamp,       \* bound on snapshot and report times
    MaxReceived     \* bound on the messages one process life counts for a house

ASSUME HouseAssumption ==
    /\ NoAlias \notin Aliases
    /\ NoLayout \notin Layouts
    /\ MaxStamp \in Nat
    /\ MaxReceived \in Nat

House ==
    [gnode    : Aliases \cup {NoAlias},
     layout   : Layouts \cup {NoLayout},
     snapshot : 0..MaxStamp,
     series   : 0..MaxStamp,
     report   : 0..MaxStamp,
     received : 0..MaxReceived]

EmptyHouse ==
    [gnode |-> NoAlias, layout |-> NoLayout, snapshot |-> 0, series |-> 0,
     report |-> 0, received |-> 0]

\* _get_or_create: the first alias to reach a short alias names the house for
\* as long as the process lives.
GetOrCreate(h, a) == IF h.gnode = NoAlias THEN [h EXCEPT !.gnode = a] ELSE h

\* seed_layout: the state a live layout sets, with no message counted.
SeedLayout(h, a, l) == [GetOrCreate(h, a) EXCEPT !.layout = l]

UpdateLayout(h, a, l) ==
    [GetOrCreate(h, a) EXCEPT !.layout = l, !.received = @ + 1]

\* A mutation: the comparison forgotten, so a late snapshot overwrites a newer one.
AnyTime(h, t) == TRUE

\* update_snapshot returns None, and changes nothing, for a snapshot that is not
\* newer than the one held; a house without a snapshot takes any.
Newer(h, t) == h.snapshot = 0 \/ t > h.snapshot

\* The points of the accepted snapshot enter the tracker and the tracker is pruned
\* at once: the series is the new one, or the old one when the snapshot has no
\* reading of a zone, or empty when every point has outlived the retention.
SeriesAfter(h, t) == {t, h.series, 0}

UpdateSnapshot(h, a, t, z) ==
    [GetOrCreate(h, a) EXCEPT !.snapshot = t, !.series = z, !.received = @ + 1]

\* A report's time is taken as it comes, newer or older.
UpdateReport(h, a, t) ==
    [GetOrCreate(h, a) EXCEPT !.report = t, !.received = @ + 1]

-----------------------------------------------------------------------------
(* What of a house goes to a viewer, and in which messages. *)

View ==
    [gnode    : Aliases \cup {NoAlias},
     layout   : Layouts \cup {NoLayout},
     snapshot : 0..MaxStamp,
     series   : 0..MaxStamp,
     received : 0..MaxReceived]

BlankView ==
    [gnode |-> NoAlias, layout |-> NoLayout, snapshot |-> 0, series |-> 0,
     received |-> 0]

Messages == {"status", "snapshot", "series"}

\* The view v after the message m, made from the house h, has been written to the
\* viewer's socket.
Shown(v, m, h) ==
    CASE m = "status"   -> [v EXCEPT !.gnode = h.gnode, !.layout = h.layout,
                                     !.received = h.received]
      [] m = "snapshot" -> [v EXCEPT !.snapshot = h.snapshot]
      [] m = "series"   -> [v EXCEPT !.series = h.series]

\* The message that follows m for the house h: the snapshot and the series are
\* sent only when there is one.  "end" when m was the last.
Following(m, h) ==
    CASE m = "status" /\ h.snapshot # 0 -> "snapshot"
      [] m # "series" /\ h.series # 0 /\ ~(m = "status" /\ h.snapshot # 0) -> "series"
      [] OTHER -> "end"
=============================================================================
