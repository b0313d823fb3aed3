---------------------------- MODULE RealtimeFeed ----------------------------
(***************************************************************************)
(* What the realtime gateway promises to a viewer, with no sockets, no     *)
(* queue and no broadcast loop.  A house publishes ever newer snapshots.   *)
(* A viewer who has joined a house's feed is shown the house's newest      *)
(* snapshot, never an older one and never one that is no longer newest at  *)
(* the moment it is shown; a viewer who stays is shown the newest one      *)
(* eventually.  The process that serves the feed may crash: it then        *)
(* forgets what it had, and every viewer has to join again.                *)
(***************************************************************************)
EXTENDS Naturals

CONSTANTS
    Shorts,     \* houses, by the short alias a viewer names
    Clients,    \* viewers
    HouseOf,    \* the house each viewer watches
    MaxStamp    \* bound on snapshot times

VARIABLES
    latest,     \* latest[s]: time of the newest snapshot of s, 0 before the first
    joined,     \* the viewers on a live connection
    seen        \* seen[c]: time of the snapshot c was last shown since it joined, or 0

vars == <<latest, joined, seen>>

Init ==
    /\ latest = [s \in Shorts |-> 0]
    /\ joined = {}
    /\ seen = [c \in Clients |-> 0]

\* A house publishes a newer snapshot.
Advance(s) ==
    /\ \E t \in 1..MaxStamp :
          /\ t > latest[s]
          /\ latest' = [latest EXCEPT ![s] = t]
    /\ UNCHANGED <<joined, seen>>

\* A viewer joins; nothing has been shown on this connection yet.
Join(c) ==
    /\ c \notin joined
    /\ joined' = joined \cup {c}
    /\ UNCHANGED <<latest, seen>>

\* A joined viewer is shown the newest snapshot there is.
Show(c) ==
    /\ c \in joined
    /\ seen[c] # latest[HouseOf[c]]
    /\ seen' = [seen EXCEPT ![c] = latest[HouseOf[c]]]
    /\ UNCHANGED <<latest, joined>>

Leave(c) ==
    /\ c \in joined
    /\ joined' = joined \ {c}
    /\ seen' = [seen EXCEPT ![c] = 0]
    /\ UNCHANGED latest

\* The serving process dies and comes back empty.
Crash ==
    /\ latest' = [s \in Shorts |-> 0]
    /\ joined' = {}
    /\ seen' = [c \in Clients |-> 0]

Next ==
    \/ \E s \in Shorts : Advance(s)
    \/ \E c \in Clients : Join(c) \/ Show(c) \/ Leave(c)
    \/ Crash

SafetySpec == Init /\ [][Next]_vars

Spec == SafetySpec /\ \A c \in Clients : WF_vars(Show(c))
=============================================================================
