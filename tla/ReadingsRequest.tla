--------------------------- MODULE ReadingsRequest ---------------------------
(***************************************************************************)
(* What the two readers of readings, ReadingsCsv and ReadingsBundle, have  *)
(* in common: a request for the channels of a house between two times,     *)
(* whose handler knits the rows (Lineages) before it reads.                *)
(***************************************************************************)
EXTENDS Lineages

CONSTANTS
    Requests,       \* the requests, each a sequence of requested channels
    Start           \* query.start

ASSUME RequestAssumption ==
    /\ Requests \subseteq Seq([as : {"name", "pattern", "all-data"}, names : SUBSET Names])
    /\ Start \in Nat

VARIABLE phase      \* where the request is

KnitRow == phase = "knitting" /\ TakeRow /\ UNCHANGED phase
=============================================================================
