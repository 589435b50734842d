---------------------------- MODULE MCGrantStore ----------------------------
(* Small instances of the authorization store for TLC.                     *)
EXTENDS GrantStore, TLC

OneOrigin == [r \in Request |-> "origin"]

Alike == Permutations(Request) \cup Permutations(Command) \cup Permutations(Change)
=============================================================================
