--------------------------- MODULE MCFleetStream ----------------------------
(* Small instances of FleetStream: two scadas the gateway can read and one it
   cannot, told apart by name. *)
EXTENDS FleetStream

CONSTANTS beech, elm, maple
=============================================================================
