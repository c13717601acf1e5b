-------------------------------- MODULE Outbox --------------------------------
(***************************************************************************)
(* Delivery of the outbox: MemoryRouter.drain_outbox and _fail_delivery    *)
(* (src/chronalyn/router.py) over the RouterStore, against the backends    *)
(* behind src/chronalyn/adapters.                                          *)
(*                                                                         *)
(* A drainer is a thread inside drain_outbox.  The repository runs several *)
(* at once on one database: the worker thread of the gateway process, the  *)
(* worker thread every CLI command starts, and the main thread of          *)
(* `chronalyn drain`, `retry` and `forget`, or of close(flush=True).       *)
(***************************************************************************)
EXTENDS RouterStore

CONSTANTS
  Drainers,     \* threads that may be inside drain_outbox
  Primary,      \* the backend of turns and explicit memories (Hindsight)
  Configured,   \* the backends each drainer's router was built with
  Upserts,      \* backends that store under the record's own id (Hindsight)
  StrictDelete, \* backends that answer an error to the delete of a missing copy
  BatchSize,    \* routing.worker_batch_size
  MaxAttempts,  \* routing.max_attempts; 0 means no limit
  Lossy,        \* backends whose calls may take effect and still be reported as errors
  MaxFaults,    \* bound: how many calls go wrong in a behaviour
  MaxAbandons   \* bound: how many times a drainer dies in the middle of a batch

ASSUME OutboxAssumption ==
  /\ Primary \in Backends
  /\ Configured \in [Drainers -> SUBSET Backends]
  /\ Upserts \subseteq Backends
  /\ StrictDelete \subseteq Backends
  /\ BatchSize \in Nat \ {0}
  /\ MaxAttempts \in 0..AttemptCap
  /\ Lossy \subseteq Backends
  /\ MaxFaults \in Nat
  /\ MaxAbandons \in Nat

VARIABLES
  pc,       \* where each drainer is
  batch,    \* rows of its due_deliveries snapshot it has not reached yet
  seen,     \* the attempts column in that snapshot
  cur,      \* the row it claimed
  receipt,  \* the external id the backend returned
  copies,   \* per record and backend, the ids under which the backend holds it
  faults,   \* backend or store calls that went wrong so far
  abandons  \* drainers that died so far

drainVars == <<pc, batch, seen, cur, receipt>>
worldVars == <<copies, faults, abandons>>
vars == <<storeVars, drainVars, worldVars>>

Stages == {"idle", "batch", "call", "ok", "err"}
Places == Records \X Backends
PlaceOf(d) == <<RecordOf(d), BackendOf(d)>>

\* The backends for which every call reported as an error had no effect.
Reliable == Backends \ Lossy

NoSnapshot == [d \in Deliveries |-> 0]

DrainTypeOK ==
  /\ pc \in [Drainers -> Stages]
  /\ batch \in [Drainers -> SUBSET Deliveries]
  /\ seen \in [Drainers -> [Deliveries -> Nat]]
  /\ cur \in [Drainers -> Deliveries \cup {None}]
  /\ receipt \in [Drainers -> Nat]

WorldTypeOK ==
  /\ copies \in [Places -> SUBSET Nat]
  /\ faults \in 0..MaxFaults
  /\ abandons \in 0..MaxAbandons

TypeOK == StoreTypeOK /\ DrainTypeOK /\ WorldTypeOK

Init ==
  /\ StoreInit
  /\ pc = [p \in Drainers |-> "idle"]
  /\ batch = [p \in Drainers |-> {}]
  /\ seen = [p \in Drainers |-> NoSnapshot]
  /\ cur = [p \in Drainers |-> None]
  /\ receipt = [p \in Drainers |-> NoId]
  /\ copies = [x \in Places |-> {}]
  /\ faults = 0
  /\ abandons = 0

-----------------------------------------------------------------------------
(* What users and operators do: each is one store transaction.             *)

\* checkpoint_record writes to every backend of the policy, retain_memory and
\* retain_turn to the primary alone.
Submit(r) ==
  /\ \E targets \in {{Primary}, Backends} : CreateRecord(r, targets)
  /\ UNCHANGED <<drainVars, worldVars>>

\* forget_cli, and the schedule_delete half of apply_forget.
Forget(r) ==
  /\ ScheduleDelete(r)
  /\ UNCHANGED <<drainVars, worldVars>>

\* retry, with a record id or without.
Retry(scope) ==
  /\ RetryFailed(scope)
  /\ UNCHANGED <<drainVars, worldVars>>

Elapse(d) ==
  /\ BackoffElapses(d)
  /\ UNCHANGED <<drainVars, worldVars>>

-----------------------------------------------------------------------------
(* One pass of drain_outbox.                                               *)

\* A snapshot of the due rows, without a transaction around what follows.
ReadDue(p) ==
  /\ pc[p] = "idle"
  /\ \E rows \in SUBSET Due :
       /\ rows # {}
       /\ OldestFirst(rows, BatchSize)
       /\ batch' = [batch EXCEPT ![p] = rows]
       /\ seen' = [seen EXCEPT ![p] = [d \in Deliveries |-> IF d \in rows THEN attempts[d] ELSE 0]]
  /\ pc' = [pc EXCEPT ![p] = "batch"]
  /\ UNCHANGED <<storeVars, cur, receipt, worldVars>>

\* The rows the loop may take next: those with the oldest stamp.
Heads(p) == {d \in batch[p] : \A e \in batch[p] : created[d] <= created[e]}

\* Back to the loop with these rows left, or out of drain_outbox.
Resume(p, rest) ==
  /\ pc' = [pc EXCEPT ![p] = IF rest = {} THEN "idle" ELSE "batch"]
  /\ seen' = IF rest = {} THEN [seen EXCEPT ![p] = NoSnapshot] ELSE seen

TakeRow(p, d) ==
  /\ pc[p] = "batch"
  /\ batch' = [batch EXCEPT ![p] = @ \ {d}]

ClaimRow(p, d) ==
  /\ TakeRow(p, d)
  /\ Claim(d)
  /\ cur' = [cur EXCEPT ![p] = d]
  /\ pc' = [pc EXCEPT ![p] = "call"]
  /\ UNCHANGED <<seen, receipt, worldVars>>

\* claim returned False: another drainer or a forget was faster.
SkipRow(p, d) ==
  /\ TakeRow(p, d)
  /\ state[d] \notin Waiting
  /\ Resume(p, batch[p] \ {d})
  /\ UNCHANGED <<storeVars, cur, receipt, worldVars>>

\* Hindsight's id is memory-router:<record id>; Mnemosyne's is new for every call,
\* named here after the attempt that obtained it.
NewId(d) == IF BackendOf(d) \in Upserts THEN 1 ELSE attempts[d]

\* Nothing the environment does makes this call succeed: the backend is not
\* configured here, the delete carries no id, or the backend has no such copy.
Hopeless(p, d) ==
  \/ BackendOf(d) \notin Configured[p]
  \/ OpOf(d) = "delete" /\ extId[d] = NoId
  \/ /\ OpOf(d) = "delete"
     /\ BackendOf(d) \in StrictDelete
     /\ extId[d] \notin copies[PlaceOf(d)]

Calling(p, op) == pc[p] = "call" /\ OpOf(cur[p]) = op /\ ~Hopeless(p, cur[p])

Answer(p, answer, id) ==
  /\ pc' = [pc EXCEPT ![p] = answer]
  /\ receipt' = [receipt EXCEPT ![p] = id]
  /\ UNCHANGED <<storeVars, batch, seen, cur, abandons>>

RetainSucceeds(p) ==
  /\ Calling(p, "retain")
  /\ LET id == NewId(cur[p])
     IN /\ copies' = [copies EXCEPT ![PlaceOf(cur[p])] = @ \cup {id}]
        /\ Answer(p, "ok", id)
  /\ UNCHANGED faults

DeleteSucceeds(p) ==
  /\ Calling(p, "delete")
  /\ LET id == extId[cur[p]]
     IN /\ copies' = [copies EXCEPT ![PlaceOf(cur[p])] = @ \ {id}]
        /\ Answer(p, "ok", id)
  /\ UNCHANGED faults

CallHopeless(p) ==
  /\ pc[p] = "call"
  /\ Hopeless(p, cur[p])
  /\ Answer(p, "err", NoId)
  /\ UNCHANGED <<copies, faults>>

\* The call raises before it has an effect.
CallFails(p) ==
  /\ pc[p] = "call"
  /\ BackendOf(cur[p]) \in Configured[p]
  /\ faults < MaxFaults
  /\ faults' = faults + 1
  /\ Answer(p, "err", NoId)
  /\ UNCHANGED copies

\* The effect took place but the answer, or the store's commit of it, did not arrive.
LoseReceipt(p) ==
  /\ pc[p] = "ok"
  /\ BackendOf(cur[p]) \in Lossy
  /\ faults < MaxFaults
  /\ faults' = faults + 1
  /\ Answer(p, "err", NoId)
  /\ UNCHANGED copies

Done(p) ==
  /\ Resume(p, batch[p])
  /\ cur' = [cur EXCEPT ![p] = None]
  /\ receipt' = [receipt EXCEPT ![p] = NoId]
  /\ UNCHANGED <<batch, worldVars>>

RecordSuccess(p) ==
  /\ pc[p] = "ok"
  /\ Complete(cur[p], receipt[p])
  /\ Done(p)

\* _fail_delivery counts attempts from the snapshot, not from the row.
Exhausted(p, d) == MaxAttempts # 0 /\ seen[p][d] + 1 >= MaxAttempts

RecordFailure(p) ==
  /\ pc[p] = "err"
  /\ Fail(cur[p], Exhausted(p, cur[p]))
  /\ Done(p)

\* The process is killed, close() shuts the store under the thread, or the store
\* raises in fail: the thread forgets its batch and the row keeps its state.
Abandon(p) ==
  /\ pc[p] # "idle"
  /\ abandons < MaxAbandons
  /\ abandons' = abandons + 1
  /\ pc' = [pc EXCEPT ![p] = "idle"]
  /\ batch' = [batch EXCEPT ![p] = {}]
  /\ cur' = [cur EXCEPT ![p] = None]
  /\ receipt' = [receipt EXCEPT ![p] = NoId]
  /\ seen' = [seen EXCEPT ![p] = NoSnapshot]
  /\ UNCHANGED <<storeVars, copies, faults>>

Work(p) ==
  \/ ReadDue(p)
  \/ \E d \in Heads(p) : ClaimRow(p, d) \/ SkipRow(p, d)
  \/ RetainSucceeds(p) \/ DeleteSucceeds(p) \/ CallHopeless(p) \/ CallFails(p)
  \/ RecordSuccess(p) \/ RecordFailure(p)

Next ==
  \/ \E r \in Records : Submit(r) \/ Forget(r)
  \/ \E scope \in {{r} : r \in Records} \cup {Records} : Retry(scope)
  \/ \E d \in Deliveries : Elapse(d)
  \/ \E p \in Drainers : Work(p) \/ LoseReceipt(p) \/ Abandon(p)

Spec == Init /\ [][Next]_vars

(***************************************************************************)
(* The worker loop calls drain_outbox for as long as the process runs and  *)
(* every call it makes returns or times out; the clock moves.  Nobody has  *)
(* to submit, forget or retry anything.                                    *)
(***************************************************************************)
Fairness ==
  /\ \A p \in Drainers : WF_vars(Work(p))
  /\ \A d \in Deliveries : WF_vars(Elapse(d))

FairSpec == Spec /\ Fairness

-----------------------------------------------------------------------------
(* Properties.                                                             *)

\* A delivery in 'processing' belongs to at most one drainer, and stays in
\* 'processing' for as long as that drainer works on it: no claim, retry or forget
\* takes a row from under a running backend call.
SingleOwner ==
  \A p \in Drainers : cur[p] # None =>
    /\ state[cur[p]] = "processing"
    /\ \A q \in Drainers \ {p} : cur[q] # cur[p]

(***************************************************************************)
(* The inductive invariant behind the properties above and below.          *)
(***************************************************************************)

\* A drainer has a claimed row exactly while it calls a backend or records the result.
OwnerInv ==
  /\ \A p \in Drainers : cur[p] # None <=> pc[p] \in {"call", "ok", "err"}
  /\ SingleOwner

\* How the two rows of a record and backend depend on each other and on the record.
RowOK(r, b) ==
  /\ record[r] = "absent" => state[Retain(r, b)] = "absent"
  /\ state[Retain(r, b)] = "cancelled" => record[r] = "deleted"
  /\ state[Retain(r, b)] = "processing" => attempts[Retain(r, b)] # 0
  /\ state[Retain(r, b)] = "complete" =>
       /\ extId[Retain(r, b)] # NoId
       /\ record[r] = "deleted" => state[Delete(r, b)] # "absent"
  /\ state[Delete(r, b)] # "absent" =>
       /\ record[r] = "deleted"
       /\ state[Retain(r, b)] = "complete"
       /\ extId[Delete(r, b)] = extId[Retain(r, b)]
  /\ state[Delete(r, b)] # "cancelled"

RowInv == \A r \in Records, b \in Backends : RowOK(r, b)

\* The id a drainer is about to record: some id, and for a delete the one it deleted.
ReceiptOK(p) ==
  pc[p] = "ok" => /\ receipt[p] # NoId
                  /\ OpOf(cur[p]) = "delete" => receipt[p] = extId[cur[p]]

ReceiptInv == \A p \in Drainers : ReceiptOK(p)

\* Which copies a reliable backend may hold.
CopyOK(r, b) ==
  /\ state[Retain(r, b)] \notin {"processing", "complete"} => copies[<<r, b>>] = {}
  /\ state[Retain(r, b)] = "complete" => copies[<<r, b>>] \subseteq {extId[Retain(r, b)]}
  /\ state[Delete(r, b)] = "complete" => copies[<<r, b>>] = {}

CopyInv == \A r \in Records, b \in Reliable : CopyOK(r, b)

\* What a drainer knows about the copy its call to a reliable backend is about.
CallOK(p) ==
  cur[p] # None /\ BackendOf(cur[p]) \in Reliable =>
    /\ OpOf(cur[p]) = "retain" /\ pc[p] # "ok" => copies[PlaceOf(cur[p])] = {}
    /\ OpOf(cur[p]) = "retain" /\ pc[p] = "ok" => copies[PlaceOf(cur[p])] = {receipt[p]}
    /\ OpOf(cur[p]) = "delete" /\ pc[p] = "ok" => copies[PlaceOf(cur[p])] = {}

CallInv == \A p \in Drainers : CallOK(p)

RowsInv == OwnerInv /\ RowInv /\ ReceiptInv

\* The inductive invariant, together with TypeOK.
DeliveryInv == RowsInv /\ CopyInv /\ CallInv

\* A copy of a forgotten record in a reliable backend is never out of the router's
\* sight: its retain is still running, or its delete is queued and not finished.
ForgottenCopyIsTracked ==
  \A r \in Records, b \in Reliable :
    record[r] = "deleted" /\ copies[<<r, b>>] # {} =>
      \/ state[Retain(r, b)] = "processing"
      \/ /\ state[Retain(r, b)] = "complete"
         /\ state[Delete(r, b)] \in Waiting \cup {"processing", "dead"}

\* The router reports the forget of a record as finished for a backend.
ForgetConfirmed(r, b) ==
  state[Retain(r, b)] = "cancelled" \/ state[Delete(r, b)] = "complete"

\* When the router reports a forget as finished for a reliable backend, the backend
\* holds no copy, and none arrives later, whatever happens at the other backends.
ConfirmedMeansGone ==
  \A r \in Records, b \in Reliable : ForgetConfirmed(r, b) => copies[<<r, b>>] = {}

\* A row marked complete or cancelled is never picked up, retried, failed or
\* completed again, although fail and complete update it unconditionally.
FinalStaysFinal ==
  [][\A d \in Deliveries : state[d] \in {"complete", "cancelled"} => state'[d] = state[d]]_vars

\* Every memory of a live record reaches its backend once the backend answers again,
\* whatever failed before and however many drainers raced for the row.
LiveIsDelivered ==
  \A r \in Records, b \in Backends :
    state[Retain(r, b)] # "absent"
      ~> (state[Retain(r, b)] = "complete" \/ record[r] = "deleted")

\* A forgotten record is eventually gone from every reliable backend for good, also when
\* the forget hit a write in flight.
ForgottenIsErased ==
  \A r \in Records : record[r] = "deleted" ~> [](\A b \in Reliable : copies[<<r, b>>] = {})

(***************************************************************************)
(* The outbox implements MemoryLedger for the reliable backends.           *)
(***************************************************************************)
ReliablePlaces == Records \X Reliable

FateOf(x) ==
  LET retain == Retain(x[1], x[2])
      delete == Delete(x[1], x[2])
  IN IF state[retain] = "absent" THEN "none"
     ELSE IF record[x[1]] = "live"
          THEN IF state[retain] = "complete" THEN "stored" ELSE "owed"
          ELSE IF state[retain] = "cancelled" \/ state[delete] = "complete"
               THEN "retracted" ELSE "retracting"

Ledger == INSTANCE MemoryLedger
            WITH Backends <- Reliable,
                 fate <- [x \in ReliablePlaces |-> FateOf(x)],
                 held <- [x \in ReliablePlaces |-> copies[x] # {}]

\* Every behaviour of the outbox is one of the ledger: what the rows report about a
\* memory only moves forward, and never says "gone" while a copy is left.
ImplementsLedger == Ledger!LedgerSpec

(***************************************************************************)
(* Statements of the documentation that the code does not keep in every    *)
(* behaviour; each is checked by a run that finds the counterexample.      *)
(***************************************************************************)

\* docs/routing-policies.md: "A delete is complete only after every backend that accepted
\* the record confirms deletion" -- a forget reported as finished leaves no copy anywhere,
\* backends that lose receipts included.
DeleteIsComplete ==
  \A r \in Records, b \in Backends : ForgetConfirmed(r, b) => copies[<<r, b>>] = {}

\* docs/data-model.md: "failed: retry is scheduled" -- when the scheduled time of a failed
\* row has passed, the row is due.
FailedIsRetried ==
  \A d \in Deliveries : state[d] = "failed" /\ ~backoff[d] => d \in Due
=============================================================================
