----------------------------- MODULE MemoryLedger -----------------------------
(***************************************************************************)
(* What the router promises about one logical memory in one backend,       *)
(* without rows, claims, snapshots or retries (docs/routing-policies.md,   *)
(* "Delete rules"; docs/failure-recovery.md).  A remembered item is owed   *)
(* to a backend until the backend confirmed it; a forgotten one is being   *)
(* retracted until no copy is left, and never comes back after that.       *)
(***************************************************************************)
CONSTANTS Records, Backends

VARIABLES
  fate,  \* what the router says about the record in the backend
  held   \* whether the backend holds any copy of it

ledgerVars == <<fate, held>>

Fates == {"none", "owed", "stored", "retracting", "retracted"}
Places == Records \X Backends

LedgerInit ==
  /\ fate = [x \in Places |-> "none"]
  /\ held = [x \in Places |-> FALSE]

\* The user gives the record to the backends in targets.
Remember(r, targets) ==
  /\ \A b \in Backends : fate[<<r, b>>] = "none"
  /\ fate' = [x \in Places |-> IF x[1] = r /\ x[2] \in targets THEN "owed" ELSE fate[x]]
  /\ UNCHANGED held

\* The backend takes a copy: while it is owed, or late, while it is being retracted.
TakeCopy(x) ==
  /\ fate[x] \in {"owed", "retracting"}
  /\ held' = [held EXCEPT ![x] = TRUE]
  /\ UNCHANGED fate

Confirm(x) ==
  /\ fate[x] = "owed" /\ held[x]
  /\ fate' = [fate EXCEPT ![x] = "stored"]
  /\ UNCHANGED held

\* The user forgets the record.  Where a copy may exist, or may still arrive, the
\* router must retract it; where none does it may be through at once.
AfterForget(x) ==
  CASE fate[x] = "stored"                 -> {"retracting"}
    [] fate[x] \in {"owed", "retracting"} -> {"retracting"} \cup IF held[x] THEN {} ELSE {"retracted"}
    [] OTHER                              -> {fate[x]}

ForgetRecord(r) ==
  /\ fate' \in [Places -> Fates]
  /\ \A x \in Places : fate'[x] \in IF x[1] = r THEN AfterForget(x) ELSE {fate[x]}
  /\ UNCHANGED held

DropCopy(x) ==
  /\ fate[x] = "retracting"
  /\ held' = [held EXCEPT ![x] = FALSE]
  /\ UNCHANGED fate

Retracted(x) ==
  /\ fate[x] = "retracting" /\ ~held[x]
  /\ fate' = [fate EXCEPT ![x] = "retracted"]
  /\ UNCHANGED held

LedgerNext ==
  \/ \E r \in Records : (\E targets \in SUBSET Backends : Remember(r, targets)) \/ ForgetRecord(r)
  \/ \E x \in Places : TakeCopy(x) \/ Confirm(x) \/ DropCopy(x) \/ Retracted(x)

LedgerSpec == LedgerInit /\ [][LedgerNext]_ledgerVars
=============================================================================
