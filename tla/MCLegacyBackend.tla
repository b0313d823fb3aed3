--------------------------- MODULE MCLegacyBackend ---------------------------
(* Small instances of LegacyBackend: two requests at a time, of four kinds of CSV
   request or for a FLO run. *)
EXTENDS LegacyBackend, TLC
=============================================================================
