---------------------------- MODULE MCZoneTracker ----------------------------
(* A small instance of ZoneTracker: two zones of one house. *)
EXTENDS ZoneTracker

CONSTANTS kitchen, den
=============================================================================
