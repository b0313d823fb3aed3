------------------------------ MODULE MCGateway ------------------------------
(* A small instance of Gateway: one house, of one scada, and two clients of it. *)
EXTENDS Gateway

CONSTANTS beech, b, c1, c2

OneHouse == [a \in Aliases |-> b]

Together == [c \in Clients |-> b]
=============================================================================
