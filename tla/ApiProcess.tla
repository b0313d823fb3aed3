----------------------------- MODULE ApiProcess ------------------------------
(* What the models of the requests of one API process have in common. *)

CONSTANTS
    Tasks,          \* slots for requests; a slot is used again once its request is over
    RunningLocally  \* the setting: no limit of days and no timeout in the legacy backend

ASSUME ApiProcessAssumption == RunningLocally \in BOOLEAN
=============================================================================
