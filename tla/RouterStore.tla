----------------------------- MODULE RouterStore -----------------------------
(***************************************************************************)
(* The SQLite database of the router: src/chronalyn/store.py.              *)
(*                                                                         *)
(* One operator per method of RouterStore that changes a table.  The       *)
(* methods run in BEGIN IMMEDIATE transactions or as a single statement,   *)
(* so each is one atomic step; what happens between two of them is left to *)
(* the modules that call them (Outbox, DeletionPlans).                     *)
(*                                                                         *)
(* A delivery is named by the columns of its UNIQUE constraint: record,    *)
(* backend, operation.  Record contents are abstracted to identities: two  *)
(* submissions with one checksum are the same element of Records.          *)
(***************************************************************************)
EXTENDS Naturals, FiniteSets

CONSTANTS Records,    \* logical records, one per (namespace, environment, kind, checksum)
          Backends,   \* backend names a delivery may carry
          None,       \* no record, no delivery
          AttemptCap  \* bound: where the model stops counting attempts

Operations == {"retain", "delete"}
Deliveries == Records \X Backends \X Operations

RecordOf(d)  == d[1]
BackendOf(d) == d[2]
OpOf(d)      == d[3]

Retain(r, b) == <<r, b, "retain">>
Delete(r, b) == <<r, b, "delete">>
RetainOf(d)  == Retain(RecordOf(d), BackendOf(d))
DeleteOf(d)  == Delete(RecordOf(d), BackendOf(d))

ASSUME StoreAssumption ==
  /\ None \notin Deliveries
  /\ AttemptCap \in Nat \ {0}

RecordStates   == {"absent", "live", "deleted"}
Waiting        == {"pending", "failed"}
DeliveryStates == Waiting \cup {"absent", "processing", "dead", "complete", "cancelled"}

\* External ids are naturals; NoId is SQL NULL.
NoId == 0

VARIABLES
  record,    \* records.deleted, or "absent" when the row does not exist
  state,     \* deliveries.state, or "absent"
  attempts,  \* deliveries.attempts
  backoff,   \* deliveries.next_attempt_at lies in the future
  extId,     \* deliveries.external_id
  created,   \* deliveries.created_at, as the number of the inserting transaction
  clock      \* number of transactions that inserted deliveries

storeVars == <<record, state, attempts, backoff, extId, created, clock>>

StoreTypeOK ==
  /\ record \in [Records -> RecordStates]
  /\ state \in [Deliveries -> DeliveryStates]
  /\ attempts \in [Deliveries -> Nat]
  /\ backoff \in [Deliveries -> BOOLEAN]
  /\ extId \in [Deliveries -> Nat]
  /\ created \in [Deliveries -> Nat]
  /\ clock \in Nat

StoreInit ==
  /\ record = [r \in Records |-> "absent"]
  /\ state = [d \in Deliveries |-> "absent"]
  /\ attempts = [d \in Deliveries |-> 0]
  /\ backoff = [d \in Deliveries |-> FALSE]
  /\ extId = [d \in Deliveries |-> NoId]
  /\ created = [d \in Deliveries |-> 0]
  /\ clock = 0

(***************************************************************************)
(* Inserting a set of pending rows in one transaction: the rows share one  *)
(* created_at, and the default next_attempt_at of 0 is already past.       *)
(***************************************************************************)
Stamp(inserted) ==
  /\ created' = [d \in Deliveries |-> IF d \in inserted THEN clock + 1 ELSE created[d]]
  /\ clock' = IF inserted = {} THEN clock ELSE clock + 1

\* create_record for a checksum not seen before; for a known one it only reads.
CreateRecord(r, targets) ==
  LET inserted == {d \in Deliveries :
                     RecordOf(d) = r /\ BackendOf(d) \in targets /\ OpOf(d) = "retain"}
  IN /\ record[r] = "absent"
     /\ record' = [record EXCEPT ![r] = "live"]
     /\ state' = [d \in Deliveries |-> IF d \in inserted THEN "pending" ELSE state[d]]
     /\ Stamp(inserted)
     /\ UNCHANGED <<attempts, backoff, extId>>

\* Mutant of Due: a row that failed once is never selected again.
DueNeverRetries == {d \in Deliveries : /\ state[d] = "pending"
                                       /\ OpOf(d) = "delete" \/ record[RecordOf(d)] = "live"}

\* The WHERE clause of due_deliveries.
Due == {d \in Deliveries : /\ state[d] \in Waiting
                           /\ ~backoff[d]
                           /\ OpOf(d) = "delete" \/ record[RecordOf(d)] = "live"}

\* ORDER BY created_at LIMIT: SQLite may order equal stamps either way.
OldestFirst(batch, limit) ==
  /\ batch \subseteq Due
  /\ Cardinality(batch) <= limit
  /\ batch # Due => Cardinality(batch) = limit
  /\ \A d \in batch, e \in Due \ batch : created[d] <= created[e]

\* Mutant of Claim: the UPDATE does not look at the state.
ClaimBlindly(d) ==
  /\ state' = [state EXCEPT ![d] = "processing"]
  /\ attempts' = [attempts EXCEPT ![d] = IF @ < AttemptCap THEN @ + 1 ELSE @]
  /\ UNCHANGED <<record, backoff, extId, created, clock>>

\* claim: one conditional UPDATE, which looks at the state and at nothing else.
Claim(d) ==
  /\ state[d] \in Waiting
  /\ state' = [state EXCEPT ![d] = "processing"]
  /\ attempts' = [attempts EXCEPT ![d] = IF @ < AttemptCap THEN @ + 1 ELSE @]
  /\ UNCHANGED <<record, backoff, extId, created, clock>>

\* Mutant of Complete: the state is updated, the follow-up delete is not inserted.
CompleteOnly(d, id) ==
  /\ state' = [state EXCEPT ![d] = "complete"]
  /\ extId' = [extId EXCEPT ![d] = IF id # NoId THEN id ELSE @]
  /\ UNCHANGED <<record, attempts, backoff, created, clock>>

\* complete: a late retain of a forgotten record inserts its follow-up delete.
Complete(d, id) ==
  LET followUp == /\ OpOf(d) = "retain"
                  /\ record[RecordOf(d)] = "deleted"
                  /\ id # NoId
                  /\ state[DeleteOf(d)] = "absent"
      inserted == IF followUp THEN {DeleteOf(d)} ELSE {}
  IN /\ state' = [e \in Deliveries |->
                    IF e = d THEN "complete"
                    ELSE IF e \in inserted THEN "pending" ELSE state[e]]
     /\ extId' = [e \in Deliveries |->
                    IF (e = d /\ id # NoId) \/ e \in inserted THEN id ELSE extId[e]]
     /\ Stamp(inserted)
     /\ UNCHANGED <<record, attempts, backoff>>

\* Mutant of Fail: a state outside the documented set.
FailUnknown(d, dead) ==
  /\ state' = [state EXCEPT ![d] = "error"]
  /\ backoff' = [backoff EXCEPT ![d] = ~dead]
  /\ UNCHANGED <<record, attempts, extId, created, clock>>

\* fail: an unconditional UPDATE; a dead row gets next_attempt_at = 0.
Fail(d, dead) ==
  /\ state' = [state EXCEPT ![d] = IF dead THEN "dead" ELSE "failed"]
  /\ backoff' = [backoff EXCEPT ![d] = ~dead]
  /\ UNCHANGED <<record, attempts, extId, created, clock>>

\* Time passes the next_attempt_at of a row.
BackoffElapses(d) ==
  /\ backoff[d]
  /\ backoff' = [backoff EXCEPT ![d] = FALSE]
  /\ UNCHANGED <<record, state, attempts, extId, created, clock>>

\* Mutants of ScheduleDelete: a running retain is cancelled under its drainer; no
\* delete is queued for what was already stored.
ScheduleDeleteCancelsRunning(r) ==
  LET retains == {d \in Deliveries : RecordOf(d) = r /\ OpOf(d) = "retain"}
      open == {d \in retains : state[d] \in Waiting \cup {"processing", "dead"}}
  IN /\ record[r] # "absent"
     /\ record' = [record EXCEPT ![r] = "deleted"]
     /\ state' = [d \in Deliveries |-> IF d \in open THEN "cancelled" ELSE state[d]]
     /\ UNCHANGED <<attempts, backoff, extId, created, clock>>
ScheduleDeleteForgetsStored(r) ==
  LET retains == {d \in Deliveries : RecordOf(d) = r /\ OpOf(d) = "retain"}
      open == {d \in retains : state[d] \in Waiting \cup {"dead"}}
  IN /\ record[r] # "absent"
     /\ record' = [record EXCEPT ![r] = "deleted"]
     /\ state' = [d \in Deliveries |-> IF d \in open THEN "cancelled" ELSE state[d]]
     /\ UNCHANGED <<attempts, backoff, extId, created, clock>>

(***************************************************************************)
(* _schedule_delete_conn: mark the record, cancel the retains that are not *)
(* running, and queue a delete for every retain that completed.  A retain  *)
(* in 'processing' is left to complete, which sees deleted = 1.            *)
(***************************************************************************)
ScheduleDelete(r) ==
  LET cancelled == {d \in Deliveries : /\ RecordOf(d) = r /\ OpOf(d) = "retain"
                                       /\ state[d] \in Waiting \cup {"dead"}}
      inserted == {d \in Deliveries : /\ RecordOf(d) = r /\ OpOf(d) = "delete"
                                      /\ state[d] = "absent"
                                      /\ state[RetainOf(d)] = "complete"}
  IN /\ record[r] # "absent"
     /\ record' = [record EXCEPT ![r] = "deleted"]
     /\ state' = [d \in Deliveries |-> IF d \in cancelled THEN "cancelled"
                                       ELSE IF d \in inserted THEN "pending" ELSE state[d]]
     /\ extId' = [d \in Deliveries |-> IF d \in inserted THEN extId[RetainOf(d)] ELSE extId[d]]
     /\ Stamp(inserted)
     /\ UNCHANGED <<attempts, backoff>>

\* Mutant of RetryFailed: everything that is not waiting is queued again.
RetryEverything(scope) ==
  LET retried == {d \in Deliveries : /\ RecordOf(d) \in scope
                                     /\ state[d] \in {"failed", "dead", "complete", "cancelled"}}
  IN /\ retried # {}
     /\ state' = [d \in Deliveries |-> IF d \in retried THEN "pending" ELSE state[d]]
     /\ backoff' = [d \in Deliveries |-> IF d \in retried THEN FALSE ELSE backoff[d]]
     /\ UNCHANGED <<record, attempts, extId, created, clock>>

\* retry_failed for one record or for all: attempts are kept, 'processing' is not touched.
RetryFailed(scope) ==
  LET retried == {d \in Deliveries : RecordOf(d) \in scope /\ state[d] \in {"failed", "dead"}}
  IN /\ retried # {}
     /\ state' = [d \in Deliveries |-> IF d \in retried THEN "pending" ELSE state[d]]
     /\ backoff' = [d \in Deliveries |-> IF d \in retried THEN FALSE ELSE backoff[d]]
     /\ UNCHANGED <<record, attempts, extId, created, clock>>

=============================================================================
