-------------------------- MODULE MCCommitStandings --------------------------
(* Small instances of CommitStandings: requests are interchangeable. *)
EXTENDS CommitStandings, TLC

CONSTANTS head, old, dirty

RequestSymmetry == Permutations(Requests)
=============================================================================
