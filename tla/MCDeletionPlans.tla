---------------------------- MODULE MCDeletionPlans ----------------------------
(* A small instance of DeletionPlans for TLC. *)
EXTENDS DeletionPlans, TLC

AllConfigured == [p \in Drainers |-> Backends]

Symmetry == Permutations(Agents) \cup Permutations(Tokens) \cup Permutations(Records)
=============================================================================
