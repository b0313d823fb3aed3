------------------------------- MODULE MCAccess ------------------------------
(* Small instances of Access: a system admin who may be an owner besides, and a viewer
   of one house. *)
EXTENDS Access

CONSTANTS admin, viewer, beech

MCRoleRows ==
    {[user |-> admin, role |-> "admin", house |-> EveryHouse],
     [user |-> viewer, role |-> "viewer", house |-> beech],
     [user |-> viewer, role |-> "owner", house |-> beech]}
=============================================================================
