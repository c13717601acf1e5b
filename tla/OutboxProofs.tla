----------------------------- MODULE OutboxProofs -----------------------------
(***************************************************************************)
(* Theorems about Outbox, for any number of records, backends, drainers,   *)
(* faults and deaths.                                                      *)
(***************************************************************************)
EXTENDS Outbox, TLAPS

-----------------------------------------------------------------------------
(* Delivery keys.                                                          *)

\* A delivery is the triple of its three columns.
LEMMA KeyColumns ==
  ASSUME NEW d \in Deliveries
  PROVE  /\ RecordOf(d) \in Records
         /\ BackendOf(d) \in Backends
         /\ OpOf(d) \in Operations
         /\ PlaceOf(d) \in Places
         /\ PlaceOf(d) = <<RecordOf(d), BackendOf(d)>>
         /\ RetainOf(d) \in Deliveries
         /\ DeleteOf(d) \in Deliveries
         /\ OpOf(d) = "retain" => d = RetainOf(d)
         /\ OpOf(d) = "delete" => d = DeleteOf(d)
  BY DEF Deliveries, Operations, Places, PlaceOf, RecordOf, BackendOf, OpOf,
         RetainOf, DeleteOf, Retain, Delete

\* The two keys of a record and backend are distinct and determine both.
LEMMA KeyPair ==
  ASSUME NEW r \in Records, NEW b \in Backends
  PROVE  /\ Retain(r, b) \in Deliveries
         /\ Delete(r, b) \in Deliveries
         /\ <<r, b>> \in Places
         /\ RecordOf(Retain(r, b)) = r /\ RecordOf(Delete(r, b)) = r
         /\ BackendOf(Retain(r, b)) = b /\ BackendOf(Delete(r, b)) = b
         /\ OpOf(Retain(r, b)) = "retain" /\ OpOf(Delete(r, b)) = "delete"
         /\ Retain(r, b) # Delete(r, b)
         /\ DeleteOf(Retain(r, b)) = Delete(r, b)
         /\ RetainOf(Delete(r, b)) = Retain(r, b)
         /\ PlaceOf(Retain(r, b)) = <<r, b>> /\ PlaceOf(Delete(r, b)) = <<r, b>>
  BY DEF Deliveries, Operations, Places, PlaceOf, RecordOf, BackendOf, OpOf,
         RetainOf, DeleteOf, Retain, Delete

-----------------------------------------------------------------------------
(* Type correctness.                                                       *)

LEMMA TypeInit == Init => TypeOK
  BY OutboxAssumption
  DEF Init, StoreInit, TypeOK, StoreTypeOK, DrainTypeOK, WorldTypeOK, RecordStates,
      DeliveryStates, Waiting, Stages, NoSnapshot, NoId

\* Each store operation keeps the tables well-typed.
LEMMA StoreTyped ==
  ASSUME StoreTypeOK
  PROVE  /\ \A r \in Records : \A targets : CreateRecord(r, targets) => StoreTypeOK'
         /\ \A d \in Deliveries : Claim(d) => StoreTypeOK'
         /\ \A d \in Deliveries : \A id \in Nat : Complete(d, id) => StoreTypeOK'
         /\ \A d \in Deliveries : \A dead \in BOOLEAN : Fail(d, dead) => StoreTypeOK'
         /\ \A d \in Deliveries : BackoffElapses(d) => StoreTypeOK'
         /\ \A r \in Records : ScheduleDelete(r) => StoreTypeOK'
         /\ \A scope : RetryFailed(scope) => StoreTypeOK'
<1> USE DEF StoreTypeOK, DeliveryStates, Waiting, RecordStates
<1>1. ASSUME NEW r \in Records, NEW targets, CreateRecord(r, targets) PROVE StoreTypeOK'
  BY <1>1 DEF CreateRecord, Stamp
<1>2. ASSUME NEW d \in Deliveries, Claim(d) PROVE StoreTypeOK'
  BY <1>2 DEF Claim
<1>3. ASSUME NEW d \in Deliveries, NEW id \in Nat, Complete(d, id) PROVE StoreTypeOK'
  BY <1>3 DEF Complete, Stamp
<1>4. ASSUME NEW d \in Deliveries, NEW dead \in BOOLEAN, Fail(d, dead) PROVE StoreTypeOK'
  BY <1>4 DEF Fail
<1>5. ASSUME NEW d \in Deliveries, BackoffElapses(d) PROVE StoreTypeOK'
  BY <1>5 DEF BackoffElapses
<1>6. ASSUME NEW r \in Records, ScheduleDelete(r) PROVE StoreTypeOK'
  <2>1. \A e \in Deliveries : RetainOf(e) \in Deliveries
    BY KeyColumns
  <2> QED
    BY <1>6, <2>1 DEF ScheduleDelete, Stamp
<1>7. ASSUME NEW scope, RetryFailed(scope) PROVE StoreTypeOK'
  BY <1>7 DEF RetryFailed
<1> QED
  BY <1>1, <1>2, <1>3, <1>4, <1>5, <1>6, <1>7

\* What a drainer that has claimed a row works on.
LEMMA ClaimedRow ==
  ASSUME TypeOK, OwnerInv, NEW p \in Drainers, pc[p] \in {"call", "ok", "err"}
  PROVE  /\ cur[p] \in Deliveries
         /\ state[cur[p]] = "processing"
         /\ PlaceOf(cur[p]) \in Places
         /\ NewId(cur[p]) \in Nat
         /\ extId[cur[p]] \in Nat
<1>1. cur[p] \in Deliveries
  BY StoreAssumption DEF TypeOK, DrainTypeOK, OwnerInv
<1>2. state[cur[p]] = "processing"
  BY <1>1, StoreAssumption DEF OwnerInv, SingleOwner
<1> QED
  BY <1>1, <1>2, KeyColumns DEF TypeOK, StoreTypeOK, NewId

LEMMA TypeStep == TypeOK /\ OwnerInv /\ [Next]_vars => TypeOK'
<1> SUFFICES ASSUME TypeOK, OwnerInv, [Next]_vars PROVE TypeOK'
  OBVIOUS
<1> USE DEF TypeOK
<1>1. ASSUME NEW r \in Records, Submit(r) PROVE TypeOK'
  BY <1>1, StoreTyped, KeyPair DEF Submit, drainVars, worldVars, DrainTypeOK, WorldTypeOK
<1>2. ASSUME NEW r \in Records, Forget(r) PROVE TypeOK'
  BY <1>2, StoreTyped DEF Forget, drainVars, worldVars, DrainTypeOK, WorldTypeOK
<1>3. ASSUME NEW scope, Retry(scope) PROVE TypeOK'
  BY <1>3, StoreTyped DEF Retry, drainVars, worldVars, DrainTypeOK, WorldTypeOK
<1>4. ASSUME NEW d \in Deliveries, Elapse(d) PROVE TypeOK'
  BY <1>4, StoreTyped DEF Elapse, drainVars, worldVars, DrainTypeOK, WorldTypeOK
<1>5. ASSUME NEW p \in Drainers, ReadDue(p) PROVE TypeOK'
  BY <1>5 DEF ReadDue, Due, storeVars, worldVars, StoreTypeOK, DrainTypeOK, WorldTypeOK, Stages
<1>6. ASSUME NEW p \in Drainers, NEW d \in Heads(p), ClaimRow(p, d) PROVE TypeOK'
  BY <1>6, StoreTyped DEF ClaimRow, TakeRow, Heads, worldVars, DrainTypeOK, WorldTypeOK, Stages
<1>7. ASSUME NEW p \in Drainers, NEW d \in Heads(p), SkipRow(p, d) PROVE TypeOK'
  BY <1>7 DEF SkipRow, TakeRow, Resume, NoSnapshot, storeVars, worldVars, StoreTypeOK,
              DrainTypeOK, WorldTypeOK, Stages
<1>8. ASSUME NEW p \in Drainers, RetainSucceeds(p) PROVE TypeOK'
  BY <1>8, ClaimedRow
  DEF RetainSucceeds, Calling, Answer, storeVars, StoreTypeOK, DrainTypeOK, WorldTypeOK, Stages
<1>9. ASSUME NEW p \in Drainers, DeleteSucceeds(p) PROVE TypeOK'
  BY <1>9, ClaimedRow
  DEF DeleteSucceeds, Calling, Answer, storeVars, StoreTypeOK, DrainTypeOK, WorldTypeOK, Stages
<1>10. ASSUME NEW p \in Drainers, CallHopeless(p) PROVE TypeOK'
  BY <1>10
  DEF CallHopeless, Answer, NoId, storeVars, StoreTypeOK, DrainTypeOK, WorldTypeOK, Stages
<1>15. ASSUME NEW p \in Drainers, CallFails(p) PROVE TypeOK'
  <2>1. faults' \in 0..MaxFaults
    BY <1>15, OutboxAssumption DEF CallFails, WorldTypeOK
  <2> QED
    BY <1>15, <2>1
    DEF CallFails, Answer, NoId, storeVars, StoreTypeOK, DrainTypeOK, WorldTypeOK, Stages
<1>16. ASSUME NEW p \in Drainers, LoseReceipt(p) PROVE TypeOK'
  <2>1. faults' \in 0..MaxFaults
    BY <1>16, OutboxAssumption DEF LoseReceipt, WorldTypeOK
  <2> QED
    BY <1>16, <2>1
    DEF LoseReceipt, Answer, NoId, storeVars, StoreTypeOK, DrainTypeOK, WorldTypeOK, Stages
<1>11. ASSUME NEW p \in Drainers, RecordSuccess(p) PROVE TypeOK'
  BY <1>11, ClaimedRow, StoreTyped, KeyColumns
  DEF RecordSuccess, Done, Resume, NoSnapshot, NoId, worldVars, DrainTypeOK, WorldTypeOK, Stages
<1>12. ASSUME NEW p \in Drainers, RecordFailure(p) PROVE TypeOK'
  BY <1>12, ClaimedRow, StoreTyped, KeyColumns
  DEF RecordFailure, Exhausted, Done, Resume, NoSnapshot, NoId, worldVars, DrainTypeOK,
      WorldTypeOK, Stages
<1>13. ASSUME NEW p \in Drainers, Abandon(p) PROVE TypeOK'
  BY <1>13, OutboxAssumption
  DEF Abandon, NoSnapshot, NoId, storeVars, StoreTypeOK, DrainTypeOK, WorldTypeOK, Stages
<1>14. CASE UNCHANGED vars
  BY <1>14 DEF vars, storeVars, drainVars, worldVars, StoreTypeOK, DrainTypeOK, WorldTypeOK
<1> QED
  BY <1>1, <1>2, <1>3, <1>4, <1>5, <1>6, <1>7, <1>8, <1>9, <1>10, <1>11, <1>12, <1>13, <1>14, <1>15, <1>16
  DEF Next, Work

-----------------------------------------------------------------------------
(* Ownership of claimed rows.                                              *)

\* No store operation takes a running row from its drainer, except the drainer's own
\* complete and fail.
LEMMA RunningRowsKept ==
  ASSUME TypeOK, RowInv, NEW e \in Deliveries, state[e] = "processing"
  PROVE  /\ \A r \in Records : \A targets : CreateRecord(r, targets) => state'[e] = "processing"
         /\ \A d \in Deliveries : Claim(d) => d # e /\ state'[e] = "processing"
         /\ \A d \in Deliveries \ {e} : \A id : Complete(d, id) => state'[e] = "processing"
         /\ \A d \in Deliveries \ {e} : \A dead : Fail(d, dead) => state'[e] = "processing"
         /\ \A r \in Records : ScheduleDelete(r) => state'[e] = "processing"
         /\ \A scope : RetryFailed(scope) => state'[e] = "processing"
<1> USE DEF TypeOK, StoreTypeOK, Waiting
<1>1. ASSUME NEW r \in Records, NEW targets, CreateRecord(r, targets)
      PROVE  state'[e] = "processing"
  <2>1. RecordOf(e) = r /\ OpOf(e) = "retain" => state[e] = "absent"
    BY <1>1, KeyColumns DEF CreateRecord, RowInv, RowOK, RetainOf
  <2> QED
    BY <1>1, <2>1 DEF CreateRecord
<1>2. ASSUME NEW d \in Deliveries, Claim(d) PROVE d # e /\ state'[e] = "processing"
  BY <1>2 DEF Claim
<1>3. ASSUME NEW d \in Deliveries \ {e}, NEW id, Complete(d, id) PROVE state'[e] = "processing"
  BY <1>3 DEF Complete
<1>4. ASSUME NEW d \in Deliveries \ {e}, NEW dead, Fail(d, dead) PROVE state'[e] = "processing"
  BY <1>4 DEF Fail
<1>5. ASSUME NEW r \in Records, ScheduleDelete(r) PROVE state'[e] = "processing"
  BY <1>5 DEF ScheduleDelete
<1>6. ASSUME NEW scope, RetryFailed(scope) PROVE state'[e] = "processing"
  BY <1>6 DEF RetryFailed
<1> QED
  BY <1>1, <1>2, <1>3, <1>4, <1>5, <1>6

LEMMA OwnerStep == TypeOK /\ OwnerInv /\ RowInv /\ [Next]_vars => OwnerInv'
<1> SUFFICES ASSUME TypeOK, OwnerInv, RowInv, [Next]_vars PROVE OwnerInv'
  OBVIOUS
<1> USE DEF OwnerInv, SingleOwner
<1>a. ASSUME NEW p \in Drainers, cur[p] # None
      PROVE  cur[p] \in Deliveries /\ state[cur[p]] = "processing"
  BY <1>a, ClaimedRow
<1>t. cur \in [Drainers -> Deliveries \cup {None}] /\ pc \in [Drainers -> Stages]
  BY DEF TypeOK, DrainTypeOK
<1>1. ASSUME NEW r \in Records, Submit(r) PROVE OwnerInv'
  BY <1>1, <1>a, RunningRowsKept DEF Submit, drainVars
<1>2. ASSUME NEW r \in Records, Forget(r) PROVE OwnerInv'
  BY <1>2, <1>a, RunningRowsKept DEF Forget, drainVars
<1>3. ASSUME NEW scope, Retry(scope) PROVE OwnerInv'
  BY <1>3, <1>a, RunningRowsKept DEF Retry, drainVars
<1>4. ASSUME NEW d \in Deliveries, Elapse(d) PROVE OwnerInv'
  BY <1>4, <1>a DEF Elapse, BackoffElapses, drainVars
<1>5. ASSUME NEW p \in Drainers, ReadDue(p) PROVE OwnerInv'
  BY <1>5, <1>t DEF ReadDue, storeVars
<1>6. ASSUME NEW p \in Drainers, NEW d \in Heads(p), ClaimRow(p, d) PROVE OwnerInv'
  <2>1. d \in Deliveries /\ Claim(d)
    BY <1>6 DEF ClaimRow, Heads, TypeOK, DrainTypeOK
  <2>2. state'[d] = "processing" /\ d # None
    BY <2>1, StoreAssumption DEF Claim, TypeOK, StoreTypeOK
  <2>3. \A q \in Drainers : cur[q] # None => cur[q] # d /\ state'[cur[q]] = "processing"
    BY <2>1, <1>a, RunningRowsKept
  <2> QED
    BY <1>6, <1>t, <2>2, <2>3 DEF ClaimRow, TakeRow
<1>7. ASSUME NEW p \in Drainers, NEW d \in Heads(p), SkipRow(p, d) PROVE OwnerInv'
  BY <1>7, <1>t DEF SkipRow, TakeRow, Resume, storeVars
<1>8. ASSUME NEW p \in Drainers,
             RetainSucceeds(p) \/ DeleteSucceeds(p) \/ CallHopeless(p) \/ CallFails(p) \/ LoseReceipt(p)
      PROVE  OwnerInv'
  BY <1>8, <1>t
  DEF RetainSucceeds, DeleteSucceeds, CallHopeless, CallFails, LoseReceipt, Calling, Answer, storeVars
<1>9. ASSUME NEW p \in Drainers, RecordSuccess(p) \/ RecordFailure(p) PROVE OwnerInv'
  <2>1. cur[p] \in Deliveries /\ cur[p] # None
    BY <1>9, <1>t, ClaimedRow, StoreAssumption DEF RecordSuccess, RecordFailure
  <2>2. ASSUME NEW q \in Drainers \ {p}, cur[q] # None PROVE state'[cur[q]] = "processing"
    <3>1. cur[p] # cur[q]
      BY <2>1, <2>2
    <3> QED
      BY <1>9, <2>1, <3>1, <2>2, <1>a, RunningRowsKept DEF RecordSuccess, RecordFailure
  <2> QED
    BY <1>9, <1>t, <2>1, <2>2 DEF RecordSuccess, RecordFailure, Done, Resume
<1>10. ASSUME NEW p \in Drainers, Abandon(p) PROVE OwnerInv'
  BY <1>10, <1>t DEF Abandon, storeVars
<1>11. CASE UNCHANGED vars
  BY <1>11 DEF vars, storeVars, drainVars
<1> QED
  BY <1>1, <1>2, <1>3, <1>4, <1>5, <1>6, <1>7, <1>8, <1>9, <1>10, <1>11 DEF Next, Work

-----------------------------------------------------------------------------
(* The two rows of a record and backend.                                   *)

\* A delivery of record r in backend b is one of the two keys.
LEMMA OneOfTwo ==
  ASSUME NEW r \in Records, NEW b \in Backends, NEW d \in Deliveries
  PROVE  /\ RecordOf(d) = r /\ BackendOf(d) = b => d \in {Retain(r, b), Delete(r, b)}
         /\ PlaceOf(d) = <<r, b>> <=> d \in {Retain(r, b), Delete(r, b)}
         /\ d = Retain(r, b) <=> PlaceOf(d) = <<r, b>> /\ OpOf(d) = "retain"
         /\ d = Delete(r, b) <=> PlaceOf(d) = <<r, b>> /\ OpOf(d) = "delete"
         /\ OpOf(d) = "retain" /\ DeleteOf(d) = Delete(r, b) => d = Retain(r, b)
  BY DEF Deliveries, Operations, PlaceOf, RecordOf, BackendOf, OpOf, Retain, Delete, DeleteOf

\* Every store operation keeps the two rows consistent; complete, when the row was
\* claimed and the id is the one a drainer obtained for it.
LEMMA RowsKept ==
  ASSUME TypeOK, NEW r \in Records, NEW b \in Backends, RowOK(r, b)
  PROVE  /\ \A q \in Records : \A targets : CreateRecord(q, targets) => RowOK(r, b)'
         /\ \A d \in Deliveries : Claim(d) => RowOK(r, b)'
         /\ \A d \in Deliveries : \A id \in Nat :
              /\ state[d] = "processing"
              /\ id # NoId
              /\ OpOf(d) = "delete" => id = extId[d]
              /\ Complete(d, id)
              => RowOK(r, b)'
         /\ \A d \in Deliveries : \A dead \in BOOLEAN :
              state[d] = "processing" /\ Fail(d, dead) => RowOK(r, b)'
         /\ \A d \in Deliveries : BackoffElapses(d) => RowOK(r, b)'
         /\ \A q \in Records : ScheduleDelete(q) => RowOK(r, b)'
         /\ \A scope : RetryFailed(scope) => RowOK(r, b)'
<1> DEFINE ret == Retain(r, b)
           del == Delete(r, b)
<1>k. /\ ret \in Deliveries /\ del \in Deliveries /\ ret # del
      /\ RecordOf(ret) = r /\ RecordOf(del) = r
      /\ OpOf(ret) = "retain" /\ OpOf(del) = "delete"
      /\ RetainOf(del) = ret /\ DeleteOf(ret) = del
  BY KeyPair
<1>t. /\ state \in [Deliveries -> DeliveryStates]
      /\ attempts \in [Deliveries -> Nat]
      /\ extId \in [Deliveries -> Nat]
      /\ record \in [Records -> RecordStates]
  BY DEF TypeOK, StoreTypeOK
<1>r. /\ record[r] = "absent" => state[ret] = "absent"
      /\ state[ret] = "cancelled" => record[r] = "deleted"
      /\ state[ret] = "processing" => attempts[ret] # 0
      /\ state[ret] = "complete" =>
           extId[ret] # NoId /\ (record[r] = "deleted" => state[del] # "absent")
      /\ state[del] # "absent" =>
           record[r] = "deleted" /\ state[ret] = "complete" /\ extId[del] = extId[ret]
      /\ state[del] # "cancelled"
  BY DEF RowOK
<1>g. ASSUME /\ record'[r] = "absent" => state'[ret] = "absent"
             /\ state'[ret] = "cancelled" => record'[r] = "deleted"
             /\ state'[ret] = "processing" => attempts'[ret] # 0
             /\ state'[ret] = "complete" =>
                  extId'[ret] # NoId /\ (record'[r] = "deleted" => state'[del] # "absent")
             /\ state'[del] # "absent" =>
                  record'[r] = "deleted" /\ state'[ret] = "complete" /\ extId'[del] = extId'[ret]
             /\ state'[del] # "cancelled"
      PROVE  RowOK(r, b)'
  BY <1>g DEF RowOK
<1> HIDE DEF ret, del
<1>1. ASSUME NEW q \in Records, NEW targets, CreateRecord(q, targets) PROVE RowOK(r, b)'
  BY <1>1, <1>k, <1>t, <1>r, <1>g DEF CreateRecord
<1>2. ASSUME NEW d \in Deliveries, Claim(d) PROVE RowOK(r, b)'
  <2>1. d = ret => attempts'[ret] # 0
    BY <1>2, <1>k, <1>t, StoreAssumption DEF Claim
  <2> QED
    BY <1>2, <1>k, <1>t, <1>r, <1>g, <2>1 DEF Claim, Waiting
<1>3. ASSUME NEW d \in Deliveries, NEW id \in Nat, state[d] = "processing", id # NoId,
             OpOf(d) = "delete" => id = extId[d], Complete(d, id)
      PROVE  RowOK(r, b)'
  <2>1. CASE d = ret
    BY <1>3, <1>k, <1>t, <1>r, <1>g, <2>1 DEF Complete
  <2>2. CASE d = del
    BY <1>3, <1>k, <1>t, <1>r, <1>g, <2>2 DEF Complete
  <2>3. CASE d \notin {ret, del}
    <3>1. OpOf(d) = "retain" => DeleteOf(d) # del
      BY <2>3, OneOfTwo DEF ret, del
    <3>2. OpOf(d) = "retain" => DeleteOf(d) # ret
      BY <1>k, KeyColumns, KeyPair DEF ret, DeleteOf
    <3> QED
      BY <1>3, <1>k, <1>t, <1>r, <1>g, <2>3, <3>1, <3>2 DEF Complete
  <2> QED
    BY <2>1, <2>2, <2>3
<1>4. ASSUME NEW d \in Deliveries, NEW dead \in BOOLEAN, state[d] = "processing", Fail(d, dead)
      PROVE  RowOK(r, b)'
  BY <1>4, <1>k, <1>t, <1>r, <1>g DEF Fail
<1>5. ASSUME NEW d \in Deliveries, BackoffElapses(d) PROVE RowOK(r, b)'
  BY <1>5, <1>r, <1>g DEF BackoffElapses
<1>6. ASSUME NEW q \in Records, ScheduleDelete(q) PROVE RowOK(r, b)'
  BY <1>6, <1>k, <1>t, <1>r, <1>g DEF ScheduleDelete, Waiting, DeliveryStates
<1>7. ASSUME NEW scope, RetryFailed(scope) PROVE RowOK(r, b)'
  BY <1>7, <1>k, <1>t, <1>r, <1>g DEF RetryFailed
<1> QED
  BY <1>1, <1>2, <1>3, <1>4, <1>5, <1>6, <1>7

\* The rows stay consistent in every step.
LEMMA RowStep == TypeOK /\ RowsInv /\ [Next]_vars => RowInv'
<1> SUFFICES ASSUME TypeOK, RowsInv, [Next]_vars, NEW r \in Records, NEW b \in Backends
             PROVE  RowOK(r, b)'
  BY DEF RowInv
<1>r. RowOK(r, b)
  BY DEF RowsInv, RowInv
<1>1. ASSUME NEW q \in Records, Submit(q) \/ Forget(q) PROVE RowOK(r, b)'
  BY <1>1, <1>r, RowsKept DEF Submit, Forget
<1>2. ASSUME NEW scope, Retry(scope) PROVE RowOK(r, b)'
  BY <1>2, <1>r, RowsKept DEF Retry
<1>3. ASSUME NEW d \in Deliveries, Elapse(d) PROVE RowOK(r, b)'
  BY <1>3, <1>r, RowsKept DEF Elapse
<1>4. ASSUME NEW p \in Drainers, NEW d \in Heads(p), ClaimRow(p, d) PROVE RowOK(r, b)'
  <2>1. d \in Deliveries
    BY DEF Heads, TypeOK, DrainTypeOK
  <2> QED
    BY <1>4, <1>r, <2>1, RowsKept DEF ClaimRow
<1>5. ASSUME NEW p \in Drainers, RecordSuccess(p) PROVE RowOK(r, b)'
  <2>1. cur[p] \in Deliveries /\ state[cur[p]] = "processing"
    BY <1>5, ClaimedRow DEF RecordSuccess, RowsInv
  <2>2. /\ receipt[p] \in Nat /\ receipt[p] # NoId
        /\ OpOf(cur[p]) = "delete" => receipt[p] = extId[cur[p]]
    BY <1>5 DEF RecordSuccess, RowsInv, ReceiptInv, ReceiptOK, TypeOK, DrainTypeOK
  <2> QED
    BY <1>5, <1>r, <2>1, <2>2, RowsKept DEF RecordSuccess
<1>6. ASSUME NEW p \in Drainers, RecordFailure(p) PROVE RowOK(r, b)'
  <2>1. cur[p] \in Deliveries /\ state[cur[p]] = "processing"
    BY <1>6, ClaimedRow DEF RecordFailure, RowsInv
  <2> QED
    BY <1>6, <1>r, <2>1, RowsKept DEF RecordFailure, Exhausted
<1>7. ASSUME UNCHANGED storeVars PROVE RowOK(r, b)'
  BY <1>7, <1>r DEF storeVars, RowOK
<1> QED
  BY <1>1, <1>2, <1>3, <1>4, <1>5, <1>6, <1>7
  DEF Next, Work, ReadDue, SkipRow, RetainSucceeds, DeleteSucceeds, CallHopeless, CallFails,
      LoseReceipt, Answer, Abandon, vars

\* No store operation changes the external id of a running row, except the drainer's own
\* complete.
LEMMA RunningIdsKept ==
  ASSUME TypeOK, NEW e \in Deliveries, state[e] = "processing"
  PROVE  /\ \A r \in Records : \A targets : CreateRecord(r, targets) => extId'[e] = extId[e]
         /\ \A d \in Deliveries : Claim(d) => extId'[e] = extId[e]
         /\ \A d \in Deliveries \ {e} : \A id : Complete(d, id) => extId'[e] = extId[e]
         /\ \A d \in Deliveries : \A dead : Fail(d, dead) => extId'[e] = extId[e]
         /\ \A r \in Records : ScheduleDelete(r) => extId'[e] = extId[e]
         /\ \A scope : RetryFailed(scope) => extId'[e] = extId[e]
<1> USE DEF TypeOK, StoreTypeOK
<1>1. ASSUME NEW d \in Deliveries \ {e}, NEW id, Complete(d, id) PROVE extId'[e] = extId[e]
  BY <1>1 DEF Complete
<1>2. ASSUME NEW r \in Records, ScheduleDelete(r) PROVE extId'[e] = extId[e]
  BY <1>2 DEF ScheduleDelete
<1> QED
  BY <1>1, <1>2 DEF CreateRecord, Claim, Fail, RetryFailed

\* A drainer that is about to record a success holds the right id.
LEMMA ReceiptStep == TypeOK /\ RowsInv /\ [Next]_vars => ReceiptInv'
<1> SUFFICES ASSUME TypeOK, RowsInv, [Next]_vars, NEW q \in Drainers PROVE ReceiptOK(q)'
  BY DEF ReceiptInv
<1>q. ReceiptOK(q) /\ OwnerInv
  BY DEF RowsInv, ReceiptInv
<1>c. ASSUME pc[q] = "ok" PROVE cur[q] \in Deliveries /\ state[cur[q]] = "processing"
  BY <1>c, <1>q, ClaimedRow
<1>t. /\ pc \in [Drainers -> Stages] /\ receipt \in [Drainers -> Nat]
      /\ cur \in [Drainers -> Deliveries \cup {None}]
  BY DEF TypeOK, DrainTypeOK
<1>g. ASSUME pc'[q] = pc[q], cur'[q] = cur[q], receipt'[q] = receipt[q],
             pc[q] = "ok" => extId'[cur[q]] = extId[cur[q]]
      PROVE  ReceiptOK(q)'
  BY <1>g, <1>q DEF ReceiptOK
<1>n. ASSUME pc'[q] # "ok" PROVE ReceiptOK(q)'
  BY <1>n DEF ReceiptOK
<1>1. ASSUME NEW r \in Records, Submit(r) \/ Forget(r) PROVE ReceiptOK(q)'
  BY <1>1, <1>g, <1>c, RunningIdsKept DEF Submit, Forget, drainVars
<1>2. ASSUME NEW scope, Retry(scope) PROVE ReceiptOK(q)'
  BY <1>2, <1>g, <1>c, RunningIdsKept DEF Retry, drainVars
<1>3. ASSUME NEW d \in Deliveries, Elapse(d) PROVE ReceiptOK(q)'
  BY <1>3, <1>g DEF Elapse, BackoffElapses, drainVars
<1>4. ASSUME NEW p \in Drainers, ReadDue(p) PROVE ReceiptOK(q)'
  BY <1>4, <1>g, <1>n, <1>t DEF ReadDue, storeVars
<1>5. ASSUME NEW p \in Drainers, NEW d \in Heads(p), ClaimRow(p, d) PROVE ReceiptOK(q)'
  BY <1>5, <1>g, <1>n, <1>t DEF ClaimRow, TakeRow, Claim
<1>6. ASSUME NEW p \in Drainers, NEW d \in Heads(p), SkipRow(p, d) PROVE ReceiptOK(q)'
  BY <1>6, <1>g, <1>n, <1>t DEF SkipRow, TakeRow, Resume, storeVars
<1>7. ASSUME NEW p \in Drainers, RetainSucceeds(p) PROVE ReceiptOK(q)'
  <2>1. CASE p = q
    <3>1. /\ cur[q] \in Deliveries /\ state[cur[q]] = "processing" /\ OpOf(cur[q]) = "retain"
          /\ NewId(cur[q]) \in Nat
      BY <1>7, <2>1, <1>q, ClaimedRow DEF RetainSucceeds, Calling
    <3>2. attempts[cur[q]] # 0
      BY <3>1, KeyColumns DEF RowsInv, RowInv, RowOK, RetainOf
    <3> QED
      BY <1>7, <1>t, <2>1, <3>1, <3>2 DEF RetainSucceeds, Answer, NewId, NoId, ReceiptOK
  <2>2. CASE p # q
    BY <1>7, <2>2, <1>g, <1>t DEF RetainSucceeds, Answer, storeVars
  <2> QED
    BY <2>1, <2>2
<1>8. ASSUME NEW p \in Drainers, DeleteSucceeds(p) PROVE ReceiptOK(q)'
  <2>1. CASE p = q
    BY <1>8, <1>t, <2>1 DEF DeleteSucceeds, Calling, Hopeless, Answer, storeVars, ReceiptOK
  <2>2. CASE p # q
    BY <1>8, <2>2, <1>g, <1>t DEF DeleteSucceeds, Answer, storeVars
  <2> QED
    BY <2>1, <2>2
<1>9. ASSUME NEW p \in Drainers, CallHopeless(p) \/ CallFails(p) \/ LoseReceipt(p)
      PROVE  ReceiptOK(q)'
  BY <1>9, <1>g, <1>n, <1>t DEF CallHopeless, CallFails, LoseReceipt, Answer, storeVars
<1>10. ASSUME NEW p \in Drainers, RecordSuccess(p) \/ RecordFailure(p) PROVE ReceiptOK(q)'
  <2>1. CASE p = q
    BY <1>10, <1>n, <1>t, <2>1 DEF RecordSuccess, RecordFailure, Done, Resume
  <2>2. CASE p # q
    <3>1. cur[p] \in Deliveries /\ cur[p] # None
      BY <1>10, <1>q, ClaimedRow, StoreAssumption DEF RecordSuccess, RecordFailure
    <3>2. pc[q] = "ok" => cur[p] # cur[q]
      BY <1>q, <1>c, <2>2, <3>1 DEF OwnerInv, SingleOwner
    <3> QED
      BY <1>10, <1>g, <1>c, <1>t, <2>2, <3>1, <3>2, RunningIdsKept
      DEF RecordSuccess, RecordFailure, Done, Resume
  <2> QED
    BY <2>1, <2>2
<1>11. ASSUME NEW p \in Drainers, Abandon(p) PROVE ReceiptOK(q)'
  BY <1>11, <1>g, <1>n, <1>t DEF Abandon, storeVars
<1>12. CASE UNCHANGED vars
  BY <1>12, <1>g DEF vars, storeVars, drainVars
<1> QED
  BY <1>1, <1>2, <1>3, <1>4, <1>5, <1>6, <1>7, <1>8, <1>9, <1>10, <1>11, <1>12 DEF Next, Work

-----------------------------------------------------------------------------
(* The copies in the reliable backends.                                    *)

\* A store operation that leaves the copies alone keeps them explained by the rows;
\* complete and fail need to know what the drainer left in the backend.
LEMMA CopiesKept ==
  ASSUME TypeOK, NEW r \in Records, NEW b \in Backends, RowOK(r, b), CopyOK(r, b),
         UNCHANGED copies
  PROVE  /\ \A q \in Records : \A targets : CreateRecord(q, targets) => CopyOK(r, b)'
         /\ \A d \in Deliveries : Claim(d) => CopyOK(r, b)'
         /\ \A d \in Deliveries : \A id \in Nat :
              /\ state[d] = "processing"
              /\ id # NoId
              /\ PlaceOf(d) = <<r, b>> =>
                   copies[<<r, b>>] = IF OpOf(d) = "retain" THEN {id} ELSE {}
              /\ Complete(d, id)
              => CopyOK(r, b)'
         /\ \A d \in Deliveries : \A dead \in BOOLEAN :
              /\ state[d] = "processing"
              /\ d = Retain(r, b) => copies[<<r, b>>] = {}
              /\ Fail(d, dead)
              => CopyOK(r, b)'
         /\ \A d \in Deliveries : BackoffElapses(d) => CopyOK(r, b)'
         /\ \A q \in Records : ScheduleDelete(q) => CopyOK(r, b)'
         /\ \A scope : RetryFailed(scope) => CopyOK(r, b)'
<1> DEFINE ret == Retain(r, b)
           del == Delete(r, b)
           at  == <<r, b>>
<1>k. /\ ret \in Deliveries /\ del \in Deliveries /\ ret # del
      /\ RecordOf(ret) = r /\ RecordOf(del) = r
      /\ OpOf(ret) = "retain" /\ OpOf(del) = "delete"
      /\ RetainOf(del) = ret /\ DeleteOf(ret) = del
      /\ PlaceOf(ret) = at /\ PlaceOf(del) = at
  BY KeyPair
<1>t. /\ state \in [Deliveries -> DeliveryStates]
      /\ extId \in [Deliveries -> Nat]
  BY DEF TypeOK, StoreTypeOK
<1>r. /\ state[del] # "absent" => state[ret] = "complete" /\ extId[del] = extId[ret]
      /\ record[r] = "absent" => state[ret] = "absent"
  BY DEF RowOK
<1>c. /\ state[ret] \notin {"processing", "complete"} => copies[at] = {}
      /\ state[ret] = "complete" => copies[at] \subseteq {extId[ret]}
      /\ state[del] = "complete" => copies[at] = {}
  BY DEF CopyOK
<1>g. ASSUME /\ state'[ret] \notin {"processing", "complete"} => copies[at] = {}
             /\ state'[ret] = "complete" => copies[at] \subseteq {extId'[ret]}
             /\ state'[del] = "complete" => copies[at] = {}
      PROVE  CopyOK(r, b)'
  BY <1>g DEF CopyOK
<1> HIDE DEF ret, del, at
<1>1. ASSUME NEW q \in Records, NEW targets, CreateRecord(q, targets) PROVE CopyOK(r, b)'
  BY <1>1, <1>k, <1>t, <1>r, <1>c, <1>g DEF CreateRecord
<1>2. ASSUME NEW d \in Deliveries, Claim(d) PROVE CopyOK(r, b)'
  BY <1>2, <1>k, <1>t, <1>r, <1>c, <1>g DEF Claim, Waiting
<1>3. ASSUME NEW d \in Deliveries, NEW id \in Nat, state[d] = "processing", id # NoId,
             PlaceOf(d) = at => copies[at] = IF OpOf(d) = "retain" THEN {id} ELSE {},
             Complete(d, id)
      PROVE  CopyOK(r, b)'
  <2>1. CASE d = ret
    BY <1>3, <1>k, <1>t, <1>r, <1>c, <1>g, <2>1 DEF Complete
  <2>2. CASE d = del
    BY <1>3, <1>k, <1>t, <1>r, <1>c, <1>g, <2>2 DEF Complete
  <2>3. CASE d \notin {ret, del}
    <3>1. OpOf(d) = "retain" => DeleteOf(d) # del
      BY <2>3, OneOfTwo DEF ret, del
    <3>2. OpOf(d) = "retain" => DeleteOf(d) # ret
      BY <1>k, KeyColumns, KeyPair DEF ret, DeleteOf
    <3> QED
      BY <1>3, <1>k, <1>t, <1>r, <1>c, <1>g, <2>3, <3>1, <3>2 DEF Complete
  <2> QED
    BY <2>1, <2>2, <2>3
<1>4. ASSUME NEW d \in Deliveries, NEW dead \in BOOLEAN, state[d] = "processing",
             d = ret => copies[at] = {}, Fail(d, dead)
      PROVE  CopyOK(r, b)'
  BY <1>4, <1>k, <1>t, <1>r, <1>c, <1>g DEF Fail
<1>5. ASSUME NEW d \in Deliveries, BackoffElapses(d) PROVE CopyOK(r, b)'
  BY <1>5, <1>c, <1>g DEF BackoffElapses
<1>6. ASSUME NEW q \in Records, ScheduleDelete(q) PROVE CopyOK(r, b)'
  BY <1>6, <1>k, <1>t, <1>r, <1>c, <1>g DEF ScheduleDelete, Waiting
<1>7. ASSUME NEW scope, RetryFailed(scope) PROVE CopyOK(r, b)'
  BY <1>7, <1>k, <1>t, <1>r, <1>c, <1>g DEF RetryFailed
<1> QED
  BY <1>1, <1>2, <1>3, <1>4, <1>5, <1>6, <1>7 DEF ret, at

\* What the backend holds where a drainer's row belongs.
LEMMA ClaimedCopy ==
  ASSUME TypeOK, RowsInv, CopyInv, CallInv, NEW p \in Drainers, cur[p] # None
  PROVE  /\ cur[p] \in Deliveries
         /\ state[cur[p]] = "processing"
         /\ CallOK(p)
         /\ OpOf(cur[p]) = "delete" =>
              /\ state[RetainOf(cur[p])] = "complete"
              /\ BackendOf(cur[p]) \in Reliable =>
                   copies[PlaceOf(cur[p])] \subseteq {extId[cur[p]]}
         /\ \A q \in Drainers \ {p} : cur[q] # None => PlaceOf(cur[q]) # PlaceOf(cur[p])
<1> DEFINE r == RecordOf(cur[p])
           b == BackendOf(cur[p])
<1>1. cur[p] \in Deliveries /\ state[cur[p]] = "processing"
  BY ClaimedRow DEF RowsInv, OwnerInv
<1>2. CallOK(p)
  BY DEF CallInv
<1>3. /\ r \in Records /\ b \in Backends /\ PlaceOf(cur[p]) = <<r, b>>
      /\ b = BackendOf(cur[p])
  BY <1>1, KeyColumns
<1>4. RowOK(r, b) /\ (b \in Reliable => CopyOK(r, b))
  BY <1>3 DEF RowsInv, RowInv, CopyInv
<1>5. OpOf(cur[p]) = "delete" => cur[p] = Delete(r, b)
  BY <1>1, KeyColumns DEF DeleteOf
<1>6. RetainOf(cur[p]) = Retain(r, b)
  BY DEF RetainOf
<1>7. ASSUME NEW q \in Drainers \ {p}, cur[q] # None, PlaceOf(cur[q]) = PlaceOf(cur[p])
      PROVE  FALSE
  <2>1. cur[q] \in Deliveries /\ state[cur[q]] = "processing" /\ cur[q] # cur[p]
    BY <1>7, ClaimedRow DEF RowsInv, OwnerInv, SingleOwner
  <2>2. cur[p] \in {Retain(r, b), Delete(r, b)} /\ cur[q] \in {Retain(r, b), Delete(r, b)}
    BY <1>1, <1>3, <1>7, <2>1, OneOfTwo
  <2>3. state[Retain(r, b)] = "processing" /\ state[Delete(r, b)] = "processing"
    BY <1>1, <2>1, <2>2
  <2> QED
    BY <1>4, <2>3 DEF RowOK
<1> HIDE DEF r, b
<1> QED
  BY <1>1, <1>2, <1>3, <1>4, <1>5, <1>6, <1>7 DEF RowOK, CopyOK

\* The rows explain the copies in every step.
LEMMA CopyStep ==
  TypeOK /\ RowsInv /\ CopyInv /\ CallInv /\ [Next]_vars => CopyInv'
<1> SUFFICES ASSUME TypeOK, RowsInv, CopyInv, CallInv, [Next]_vars,
                    NEW r \in Records, NEW b \in Reliable
             PROVE  CopyOK(r, b)'
  BY DEF CopyInv
<1>b. b \in Backends
  BY DEF Reliable
<1>r. RowOK(r, b) /\ CopyOK(r, b)
  BY <1>b DEF RowsInv, RowInv, CopyInv
<1>p. /\ Retain(r, b) \in Deliveries /\ Delete(r, b) \in Deliveries /\ <<r, b>> \in Places
      /\ PlaceOf(Retain(r, b)) = <<r, b>> /\ OpOf(Retain(r, b)) = "retain"
      /\ BackendOf(Retain(r, b)) = b
  BY <1>b, KeyPair
<1>t. copies \in [Places -> SUBSET Nat]
  BY DEF TypeOK, WorldTypeOK
<1>o. ASSUME NEW p \in Drainers, pc[p] \in {"call", "ok", "err"} PROVE cur[p] # None
  BY <1>o DEF RowsInv, OwnerInv
<1>1. ASSUME NEW q \in Records, Submit(q) \/ Forget(q) PROVE CopyOK(r, b)'
  BY <1>1, <1>r, <1>b, CopiesKept DEF Submit, Forget, worldVars
<1>2. ASSUME NEW scope, Retry(scope) PROVE CopyOK(r, b)'
  BY <1>2, <1>r, <1>b, CopiesKept DEF Retry, worldVars
<1>3. ASSUME NEW d \in Deliveries, Elapse(d) PROVE CopyOK(r, b)'
  BY <1>3, <1>r, <1>b, CopiesKept DEF Elapse, worldVars
<1>4. ASSUME NEW p \in Drainers, NEW d \in Heads(p), ClaimRow(p, d) PROVE CopyOK(r, b)'
  <2>1. d \in Deliveries
    BY DEF Heads, TypeOK, DrainTypeOK
  <2> QED
    BY <1>4, <1>r, <2>1, <1>b, CopiesKept DEF ClaimRow, worldVars
<1>5. ASSUME NEW p \in Drainers, RetainSucceeds(p) PROVE CopyOK(r, b)'
  <2>1. /\ cur[p] \in Deliveries /\ state[cur[p]] = "processing" /\ OpOf(cur[p]) = "retain"
    BY <1>5, <1>o, ClaimedCopy DEF RetainSucceeds, Calling
  <2>2. CASE PlaceOf(cur[p]) = <<r, b>>
    <3>1. state[Retain(r, b)] = "processing"
      BY <2>1, <2>2, <1>b, OneOfTwo
    <3>2. state[Delete(r, b)] = "absent"
      BY <1>r, <3>1, <1>p DEF RowOK
    <3> QED
      BY <1>5, <3>1, <3>2 DEF RetainSucceeds, Answer, storeVars, CopyOK
  <2>3. CASE PlaceOf(cur[p]) # <<r, b>>
    BY <1>5, <1>r, <1>p, <1>t, <2>3 DEF RetainSucceeds, Answer, storeVars, CopyOK
  <2> QED
    BY <2>2, <2>3
<1>6. ASSUME NEW p \in Drainers, DeleteSucceeds(p) PROVE CopyOK(r, b)'
  BY <1>6, <1>r, <1>p, <1>t DEF DeleteSucceeds, Answer, storeVars, CopyOK
<1>7. ASSUME NEW p \in Drainers, RecordSuccess(p) PROVE CopyOK(r, b)'
  <2>1. cur[p] \in Deliveries /\ state[cur[p]] = "processing" /\ CallOK(p) /\ cur[p] # None
    BY <1>7, <1>o, ClaimedCopy DEF RecordSuccess
  <2>2. receipt[p] \in Nat /\ receipt[p] # NoId
    BY <1>7 DEF RecordSuccess, RowsInv, ReceiptInv, ReceiptOK, TypeOK, DrainTypeOK
  <2>3. PlaceOf(cur[p]) = <<r, b>> =>
          copies[<<r, b>>] = IF OpOf(cur[p]) = "retain" THEN {receipt[p]} ELSE {}
    <3>1. PlaceOf(cur[p]) = <<r, b>> => BackendOf(cur[p]) \in Reliable
      BY <2>1, KeyColumns
    <3> QED
      BY <1>7, <2>1, <3>1, KeyColumns DEF RecordSuccess, CallOK, Deliveries, Operations, OpOf
  <2> QED
    BY <1>7, <1>r, <2>1, <2>2, <2>3, <1>b, CopiesKept DEF RecordSuccess, Done, worldVars
<1>8. ASSUME NEW p \in Drainers, RecordFailure(p) PROVE CopyOK(r, b)'
  <2>1. cur[p] \in Deliveries /\ state[cur[p]] = "processing" /\ CallOK(p) /\ cur[p] # None
    BY <1>8, <1>o, ClaimedCopy DEF RecordFailure
  <2>2. cur[p] = Retain(r, b) => copies[<<r, b>>] = {}
    BY <1>8, <1>p, <2>1 DEF RecordFailure, CallOK
  <2> QED
    BY <1>8, <1>r, <2>1, <2>2, <1>b, CopiesKept DEF RecordFailure, Exhausted, Done, worldVars
<1>9. ASSUME UNCHANGED <<storeVars, copies>> PROVE CopyOK(r, b)'
  BY <1>9, <1>r DEF storeVars, CopyOK
<1> QED
  BY <1>1, <1>2, <1>3, <1>4, <1>5, <1>6, <1>7, <1>8, <1>9
  DEF Next, Work, ReadDue, SkipRow, CallHopeless, CallFails, LoseReceipt, Answer, Abandon, vars,
      worldVars

\* What a drainer knows about its copy stays true while it works.
LEMMA CallStep ==
  TypeOK /\ RowsInv /\ CopyInv /\ CallInv /\ [Next]_vars => CallInv'
<1> SUFFICES ASSUME TypeOK, RowsInv, CopyInv, CallInv, [Next]_vars,
                    NEW q \in Drainers
             PROVE  CallOK(q)'
  BY DEF CallInv
<1>q. CallOK(q)
  BY DEF CallInv
<1>t. /\ copies \in [Places -> SUBSET Nat]
      /\ pc \in [Drainers -> Stages] /\ receipt \in [Drainers -> Nat]
      /\ cur \in [Drainers -> Deliveries \cup {None}]
  BY DEF TypeOK, DrainTypeOK, WorldTypeOK
<1>o. ASSUME NEW p \in Drainers, pc[p] \in {"call", "ok", "err"}
      PROVE  cur[p] # None /\ cur[p] \in Deliveries
  BY <1>o, ClaimedRow DEF RowsInv, OwnerInv
<1>g. ASSUME pc'[q] = pc[q], cur'[q] = cur[q], receipt'[q] = receipt[q],
             cur[q] # None => copies'[PlaceOf(cur[q])] = copies[PlaceOf(cur[q])]
      PROVE  CallOK(q)'
  BY <1>g, <1>q DEF CallOK
<1>n. ASSUME cur'[q] = None PROVE CallOK(q)'
  BY <1>n DEF CallOK
<1>1. ASSUME UNCHANGED <<drainVars, copies>> PROVE CallOK(q)'
  BY <1>1, <1>g DEF drainVars
<1>2. ASSUME NEW p \in Drainers, ReadDue(p) PROVE CallOK(q)'
  <2>1. pc[q] \in {"call", "ok", "err"} \/ cur[q] = None
    BY <1>t DEF RowsInv, OwnerInv, Stages
  <2> QED
    BY <1>2, <1>g, <1>n, <1>t, <2>1 DEF ReadDue, worldVars
<1>3. ASSUME NEW p \in Drainers, NEW d \in Heads(p), SkipRow(p, d) PROVE CallOK(q)'
  <2>1. pc[q] \in {"call", "ok", "err"} \/ cur[q] = None
    BY <1>t DEF RowsInv, OwnerInv, Stages
  <2> QED
    BY <1>3, <1>g, <1>n, <1>t, <2>1 DEF SkipRow, TakeRow, Resume, worldVars
<1>4. ASSUME NEW p \in Drainers, NEW d \in Heads(p), ClaimRow(p, d) PROVE CallOK(q)'
  <2>1. CASE p = q
    <3>1. d \in Deliveries /\ Claim(d)
      BY <1>4 DEF ClaimRow, Heads, TypeOK, DrainTypeOK
    <3>2. OpOf(d) = "retain" /\ BackendOf(d) \in Reliable => copies[PlaceOf(d)] = {}
      BY <3>1, KeyColumns DEF Claim, Waiting, CopyInv, CopyOK, RetainOf
    <3> QED
      BY <1>4, <1>t, <2>1, <3>1, <3>2 DEF ClaimRow, worldVars, CallOK
  <2>2. CASE p # q
    BY <1>4, <1>g, <1>t, <2>2 DEF ClaimRow, worldVars
  <2> QED
    BY <2>1, <2>2
<1>5. ASSUME NEW p \in Drainers, RetainSucceeds(p) PROVE CallOK(q)'
  <2>1. /\ cur[p] # None /\ cur[p] \in Deliveries /\ OpOf(cur[p]) = "retain" /\ pc[p] = "call"
        /\ PlaceOf(cur[p]) \in Places
    BY <1>5, <1>o, KeyColumns DEF RetainSucceeds, Calling
  <2>2. CASE p = q
    <3>1. BackendOf(cur[p]) \in Reliable => copies[PlaceOf(cur[p])] = {}
      BY <1>q, <2>1, <2>2 DEF CallOK
    <3> QED
      BY <1>5, <1>t, <2>1, <2>2, <3>1 DEF RetainSucceeds, Answer, storeVars, CallOK
  <2>3. CASE p # q
    <3>1. cur[q] # None => PlaceOf(cur[q]) # PlaceOf(cur[p]) /\ PlaceOf(cur[q]) \in Places
      BY <2>1, <2>3, <1>t, ClaimedCopy, KeyColumns
    <3> QED
      BY <1>5, <1>g, <1>t, <2>1, <2>3, <3>1 DEF RetainSucceeds, Answer, storeVars
  <2> QED
    BY <2>2, <2>3
<1>6. ASSUME NEW p \in Drainers, DeleteSucceeds(p) PROVE CallOK(q)'
  <2>1. /\ cur[p] # None /\ cur[p] \in Deliveries /\ OpOf(cur[p]) = "delete" /\ pc[p] = "call"
        /\ PlaceOf(cur[p]) \in Places
    BY <1>6, <1>o, KeyColumns DEF DeleteSucceeds, Calling
  <2>2. CASE p = q
    <3>1. BackendOf(cur[p]) \in Reliable => copies[PlaceOf(cur[p])] \subseteq {extId[cur[p]]}
      BY <2>1, ClaimedCopy
    <3> QED
      BY <1>6, <1>t, <2>1, <2>2, <3>1 DEF DeleteSucceeds, Answer, storeVars, CallOK
  <2>3. CASE p # q
    <3>1. cur[q] # None => PlaceOf(cur[q]) # PlaceOf(cur[p]) /\ PlaceOf(cur[q]) \in Places
      BY <2>1, <2>3, <1>t, ClaimedCopy, KeyColumns
    <3> QED
      BY <1>6, <1>g, <1>t, <2>1, <2>3, <3>1 DEF DeleteSucceeds, Answer, storeVars
  <2> QED
    BY <2>2, <2>3
<1>7. ASSUME NEW p \in Drainers, CallHopeless(p) \/ CallFails(p) \/ LoseReceipt(p)
      PROVE  CallOK(q)'
  <2>1. CASE p = q
    BY <1>7, <1>q, <1>t, <2>1
    DEF CallHopeless, CallFails, LoseReceipt, Answer, CallOK, Reliable
  <2>2. CASE p # q
    BY <1>7, <1>g, <1>t, <2>2 DEF CallHopeless, CallFails, LoseReceipt, Answer
  <2> QED
    BY <2>1, <2>2
<1>8. ASSUME NEW p \in Drainers, RecordSuccess(p) \/ RecordFailure(p) PROVE CallOK(q)'
  BY <1>8, <1>g, <1>n, <1>t DEF RecordSuccess, RecordFailure, Done, Resume, worldVars
<1>9. ASSUME NEW p \in Drainers, Abandon(p) PROVE CallOK(q)'
  BY <1>9, <1>g, <1>n, <1>t DEF Abandon
<1> QED
  BY <1>1, <1>2, <1>3, <1>4, <1>5, <1>6, <1>7, <1>8, <1>9
  DEF Next, Work, Submit, Forget, Retry, Elapse, worldVars, vars

-----------------------------------------------------------------------------
(* The theorems.                                                           *)

LEMMA InvInit == Init => TypeOK /\ DeliveryInv
<1> SUFFICES ASSUME Init PROVE TypeOK /\ DeliveryInv
  OBVIOUS
<1>1. TypeOK
  BY TypeInit
<1>2. OwnerInv /\ ReceiptInv /\ CallInv
  BY DEF Init, OwnerInv, SingleOwner, ReceiptInv, ReceiptOK, CallInv, CallOK
<1>3. RowInv /\ CopyInv
  BY KeyPair DEF Init, StoreInit, RowInv, RowOK, CopyInv, CopyOK, Reliable
<1> QED
  BY <1>1, <1>2, <1>3 DEF DeliveryInv, RowsInv

LEMMA InvStep == TypeOK /\ DeliveryInv /\ [Next]_vars => (TypeOK /\ DeliveryInv)'
<1> SUFFICES ASSUME TypeOK, DeliveryInv, [Next]_vars PROVE TypeOK' /\ DeliveryInv'
  OBVIOUS
<1>1. RowsInv /\ OwnerInv /\ RowInv
  BY DEF DeliveryInv, RowsInv
<1>2. TypeOK' /\ RowsInv'
  BY <1>1, TypeStep, OwnerStep, RowStep, ReceiptStep DEF RowsInv
<1>3. CopyInv' /\ CallInv'
  BY <1>1, CopyStep, CallStep DEF DeliveryInv
<1> QED
  BY <1>2, <1>3 DEF DeliveryInv

\* The strengthened invariant holds in every reachable state: the rows of a memory, the
\* drainers' claims and receipts, and the backends' copies stay consistent whatever the
\* interleaving of router.py's drain_outbox with forget, retry and other drainers.
THEOREM Delivery == Spec => [](TypeOK /\ DeliveryInv)
<1>1. Init => TypeOK /\ DeliveryInv
  BY InvInit
<1>2. TypeOK /\ DeliveryInv /\ [Next]_vars => (TypeOK /\ DeliveryInv)'
  BY InvStep
<1> QED
  BY <1>1, <1>2, PTL DEF Spec

\* The tables, the drainers' variables and the backends always have values of their
\* types: no handler writes a state outside the documented ones.
THEOREM TypeCorrect == Spec => []TypeOK
  BY Delivery, PTL

\* store.claim is exclusive: two drainers never work on one row, and no claim, retry or
\* forget moves a row out of 'processing' while its backend call runs.
THEOREM Ownership == Spec => []SingleOwner
<1>1. DeliveryInv => SingleOwner
  BY DEF DeliveryInv, RowsInv, OwnerInv
<1> QED
  BY <1>1, Delivery, PTL

\* A step leaves a final row alone: fail and complete only reach rows that a drainer holds.
LEMMA FinalStep ==
  TypeOK /\ DeliveryInv /\ [Next]_vars =>
    \A d \in Deliveries : state[d] \in {"complete", "cancelled"} => state'[d] = state[d]
<1> SUFFICES ASSUME TypeOK, DeliveryInv, [Next]_vars, NEW d \in Deliveries,
                    state[d] \in {"complete", "cancelled"}
             PROVE  state'[d] = state[d]
  OBVIOUS
<1>t. state \in [Deliveries -> DeliveryStates]
  BY DEF TypeOK, StoreTypeOK
<1>c. ASSUME NEW p \in Drainers, pc[p] \in {"ok", "err"}
      PROVE  cur[p] \in Deliveries /\ state[cur[p]] = "processing" /\ cur[p] # d
  BY <1>c, ClaimedRow DEF DeliveryInv, RowsInv
<1>1. ASSUME NEW r \in Records, Submit(r) PROVE state'[d] = state[d]
  <2>1. RecordOf(d) = r /\ OpOf(d) = "retain" => state[d] = "absent"
    BY <1>1, KeyColumns DEF Submit, CreateRecord, DeliveryInv, RowsInv, RowInv, RowOK, RetainOf
  <2> QED
    BY <1>1, <1>t, <2>1 DEF Submit, CreateRecord
<1>2. ASSUME NEW r \in Records, Forget(r) PROVE state'[d] = state[d]
  BY <1>2, <1>t DEF Forget, ScheduleDelete, Waiting
<1>3. ASSUME NEW scope, Retry(scope) PROVE state'[d] = state[d]
  BY <1>3, <1>t DEF Retry, RetryFailed
<1>4. ASSUME NEW p \in Drainers, NEW e \in Heads(p), ClaimRow(p, e) PROVE state'[d] = state[d]
  BY <1>4, <1>t DEF ClaimRow, Claim, Waiting, Heads
<1>5. ASSUME NEW p \in Drainers, RecordSuccess(p) PROVE state'[d] = state[d]
  BY <1>5, <1>t, <1>c DEF RecordSuccess, Complete
<1>6. ASSUME NEW p \in Drainers, RecordFailure(p) PROVE state'[d] = state[d]
  BY <1>6, <1>t, <1>c DEF RecordFailure, Fail
<1>7. ASSUME UNCHANGED state PROVE state'[d] = state[d]
  BY <1>7
<1> QED
  BY <1>1, <1>2, <1>3, <1>4, <1>5, <1>6, <1>7
  DEF Next, Work, Elapse, BackoffElapses, ReadDue, SkipRow, RetainSucceeds, DeleteSucceeds,
      CallHopeless, CallFails, LoseReceipt, Answer, Abandon, vars, storeVars

\* store.fail and store.complete update by id alone, and still never reopen a row that is
\* complete or cancelled.
THEOREM FinalRows == Spec => FinalStaysFinal
<1>1. TypeOK /\ DeliveryInv /\ [Next]_vars
        => [\A d \in Deliveries : state[d] \in {"complete", "cancelled"} => state'[d] = state[d]]_vars
  BY FinalStep
<1> QED
  BY <1>1, Delivery, PTL DEF Spec, FinalStaysFinal

\* In every backend where no write succeeds unnoticed, each copy of a forgotten record is
\* still on the router's list: its retain runs, or its delete is queued, running or dead.
THEOREM NoOrphans == Spec => []ForgottenCopyIsTracked
<1>1. TypeOK /\ DeliveryInv => ForgottenCopyIsTracked
  <2> SUFFICES ASSUME TypeOK, DeliveryInv, NEW r \in Records, NEW b \in Reliable,
                      record[r] = "deleted", copies[<<r, b>>] # {}
               PROVE  \/ state[Retain(r, b)] = "processing"
                      \/ /\ state[Retain(r, b)] = "complete"
                         /\ state[Delete(r, b)] \in Waiting \cup {"processing", "dead"}
    BY DEF ForgottenCopyIsTracked
  <2>1. RowOK(r, b) /\ CopyOK(r, b)
    BY DEF DeliveryInv, RowsInv, RowInv, CopyInv, Reliable
  <2>2. state[Delete(r, b)] \in DeliveryStates
    BY KeyPair DEF TypeOK, StoreTypeOK, Reliable
  <2> QED
    BY <2>1, <2>2 DEF RowOK, CopyOK, DeliveryStates
<1> QED
  BY <1>1, Delivery, PTL

\* A backend where no write succeeds unnoticed, and for which the forget is reported as
\* finished, holds no copy of the record.
THEOREM ConfirmedForgets == Spec => []ConfirmedMeansGone
<1>1. DeliveryInv => ConfirmedMeansGone
  BY DEF DeliveryInv, CopyInv, CopyOK, ConfirmedMeansGone, ForgetConfirmed
<1> QED
  BY <1>1, Delivery, PTL
=============================================================================
