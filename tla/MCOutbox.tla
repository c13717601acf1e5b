------------------------------- MODULE MCOutbox -------------------------------
(* Small instances of Outbox for TLC. *)
EXTENDS Outbox, TLC

\* Every router was built with every backend.
AllConfigured == [p \in Drainers |-> Backends]

\* The worker's configuration has lost the checkpoint backend.
PrimaryOnly == [p \in Drainers |-> {Primary}]

DrainerSymmetry == Permutations(Drainers)
=============================================================================
