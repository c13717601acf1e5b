---------------------------- MODULE MCRouterSession ----------------------------
(* Small instances of RouterSession for TLC. *)
EXTENDS RouterSession

Threads == Routers \X {"worker", "main"}

\* Two configurations with different namespaces for one database.
OwnIdentities == [r \in Routers |-> r]

\* One configuration.
SameIdentity == [r \in Routers |-> "home"]

\* Every router was built with every backend.
AllConfigured == [p \in Drainers |-> Backends]
=============================================================================
