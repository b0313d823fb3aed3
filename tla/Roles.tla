-------------------------------- MODULE Roles --------------------------------
(***************************************************************************)
(* What the API's routes make of the rows of user_installation_roles: of a *)
(* house, or with a null ta_g_node_id of every house.                      *)
(***************************************************************************)
EXTENDS Integers, FiniteSets

CONSTANTS
    Houses,
    EveryHouse, \* a null ta_g_node_id
    OpenAge     \* the ten days after which data is open to every role

ASSUME RolesAssumption ==
    /\ EveryHouse \notin Houses
    /\ OpenAge \in Nat

\* The rows among a login's that count for a house.
RolesFor(rows, h) == {r \in rows : r.house \in {h, EveryHouse}}

OwnerOrAdmin(rows) == \E r \in rows : r.role \in {"admin", "owner"}

\* now - 10 days > the end of what is asked for, strictly.
OldData(end, time) == time - OpenAge > end
=============================================================================
