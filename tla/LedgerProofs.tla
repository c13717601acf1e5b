----------------------------- MODULE LedgerProofs -----------------------------
(***************************************************************************)
(* Outbox implements MemoryLedger: under the invariant of OutboxProofs     *)
(* every step of the router is a step of the ledger or leaves it alone.    *)
(***************************************************************************)
EXTENDS OutboxProofs

\* The two delivery keys behind a place of the ledger.
RetainAt(x) == Retain(x[1], x[2])
DeleteAt(x) == Delete(x[1], x[2])

LEMMA PlaceKeys ==
  ASSUME NEW x \in ReliablePlaces
  PROVE  /\ x[1] \in Records /\ x[2] \in Reliable /\ x[2] \in Backends
         /\ x \in Places /\ x = <<x[1], x[2]>>
         /\ RetainAt(x) \in Deliveries /\ DeleteAt(x) \in Deliveries /\ RetainAt(x) # DeleteAt(x)
         /\ RecordOf(RetainAt(x)) = x[1] /\ RecordOf(DeleteAt(x)) = x[1]
         /\ BackendOf(RetainAt(x)) = x[2] /\ BackendOf(DeleteAt(x)) = x[2]
         /\ OpOf(RetainAt(x)) = "retain" /\ OpOf(DeleteAt(x)) = "delete"
         /\ RetainOf(DeleteAt(x)) = RetainAt(x) /\ DeleteOf(RetainAt(x)) = DeleteAt(x)
         /\ PlaceOf(RetainAt(x)) = x /\ PlaceOf(DeleteAt(x)) = x
<1>1. x[1] \in Records /\ x[2] \in Backends
  BY DEF ReliablePlaces, Reliable
<1> QED
  BY <1>1, KeyPair DEF ReliablePlaces, Reliable, Places, RetainAt, DeleteAt

\* A row is of a place of the ledger exactly when its backend is reliable.
LEMMA PlaceOfRow ==
  ASSUME NEW d \in Deliveries
  PROVE  PlaceOf(d) \in ReliablePlaces <=> BackendOf(d) \in Reliable
  BY KeyColumns DEF ReliablePlaces

\* What the invariant says at a place.
LEMMA PlaceFacts ==
  ASSUME TypeOK, DeliveryInv, NEW x \in ReliablePlaces
  PROVE  /\ record[x[1]] \in RecordStates
         /\ state[RetainAt(x)] \in DeliveryStates /\ state[DeleteAt(x)] \in DeliveryStates
         /\ record[x[1]] = "absent" => state[RetainAt(x)] = "absent"
         /\ state[RetainAt(x)] = "cancelled" => record[x[1]] = "deleted"
         /\ state[RetainAt(x)] = "complete" /\ record[x[1]] = "deleted" => state[DeleteAt(x)] # "absent"
         /\ state[DeleteAt(x)] # "absent" => record[x[1]] = "deleted" /\ state[RetainAt(x)] = "complete"
         /\ state[RetainAt(x)] \notin {"processing", "complete"} => copies[x] = {}
         /\ state[DeleteAt(x)] = "complete" => copies[x] = {}
<1>1. x[1] \in Records /\ x[2] \in Reliable /\ x[2] \in Backends /\ x = <<x[1], x[2]>>
  BY PlaceKeys
<1>2. RowOK(x[1], x[2]) /\ CopyOK(x[1], x[2])
  BY <1>1 DEF DeliveryInv, RowsInv, RowInv, CopyInv
<1> QED
  BY <1>1, <1>2, PlaceKeys DEF RowOK, CopyOK, RetainAt, DeleteAt, TypeOK, StoreTypeOK

\* The store knows of no memory in the initial state.
LEMMA LedgerStart == Init => Ledger!LedgerInit
<1> SUFFICES ASSUME Init PROVE Ledger!LedgerInit
  OBVIOUS
<1>1. \A x \in ReliablePlaces : FateOf(x) = "none" /\ copies[x] = {}
  BY PlaceKeys DEF Init, StoreInit, FateOf, RetainAt
<1> QED
  BY <1>1 DEF Ledger!LedgerInit, Ledger!Places, ReliablePlaces

\* A fate keeps its value in a step that keeps what it depends on.
LEMMA SameFate ==
  ASSUME NEW x \in ReliablePlaces,
         record'[x[1]] = "live" <=> record[x[1]] = "live",
         state'[RetainAt(x)] = "absent" <=> state[RetainAt(x)] = "absent",
         state'[RetainAt(x)] = "complete" <=> state[RetainAt(x)] = "complete",
         state'[RetainAt(x)] = "cancelled" <=> state[RetainAt(x)] = "cancelled",
         state'[DeleteAt(x)] = "complete" <=> state[DeleteAt(x)] = "complete"
  PROVE  FateOf(x)' = FateOf(x)
  BY DEF FateOf, RetainAt, DeleteAt

\* The ledger stands still when every fate and every copy does.
LEMMA LedgerStutter ==
  ASSUME \A x \in ReliablePlaces : FateOf(x)' = FateOf(x) /\ copies'[x] = copies[x]
  PROVE  UNCHANGED Ledger!ledgerVars
  BY DEF Ledger!ledgerVars

\* A new record: its retains become owed.
LEMMA SubmitRemembers ==
  ASSUME TypeOK, DeliveryInv, NEW r \in Records, Submit(r)
  PROVE  \E targets \in SUBSET Reliable : Ledger!Remember(r, targets)
<1>1. PICK targets \in {{Primary}, Backends} : CreateRecord(r, targets)
  BY DEF Submit
<1>2. targets \cap Reliable \in SUBSET Reliable
  OBVIOUS
<1>3. \A b \in Reliable : FateOf(<<r, b>>) = "none"
  <2> SUFFICES ASSUME NEW b \in Reliable PROVE FateOf(<<r, b>>) = "none"
    OBVIOUS
  <2>1. <<r, b>> \in ReliablePlaces
    BY DEF ReliablePlaces
  <2> QED
    BY <1>1, <2>1, PlaceFacts DEF CreateRecord, FateOf, RetainAt
<1>4. ASSUME NEW x \in ReliablePlaces
      PROVE  FateOf(x)' = IF x[1] = r /\ x[2] \in targets \cap Reliable THEN "owed" ELSE FateOf(x)
  <2>0. x[2] \in Reliable
    BY PlaceKeys
  <2>1. CASE x[1] = r /\ x[2] \in targets
    BY <1>1, <2>0, <2>1, PlaceKeys, PlaceFacts DEF CreateRecord, FateOf, RetainAt, TypeOK, StoreTypeOK
  <2>2. CASE ~(x[1] = r /\ x[2] \in targets)
    <3>1. state'[RetainAt(x)] = state[RetainAt(x)] /\ state'[DeleteAt(x)] = state[DeleteAt(x)]
      BY <1>1, <2>2, PlaceKeys DEF CreateRecord
    <3>2. x[1] # r => record'[x[1]] = record[x[1]]
      BY <1>1, PlaceKeys DEF CreateRecord, TypeOK, StoreTypeOK
    <3>3. x[1] = r => state[RetainAt(x)] = "absent"
      BY <1>1, PlaceFacts DEF CreateRecord
    <3> QED
      BY <2>2, <3>1, <3>2, <3>3 DEF FateOf, RetainAt, DeleteAt
  <2> QED
    BY <2>1, <2>2
<1>5. \A b \in Reliable : <<r, b>> \in ReliablePlaces
  BY DEF ReliablePlaces
<1>6. copies' = copies
  BY DEF Submit, worldVars
<1>7. Ledger!Remember(r, targets \cap Reliable)
  BY <1>3, <1>4, <1>5, <1>6 DEF Ledger!Remember, Ledger!Places, ReliablePlaces
<1> QED
  BY <1>2, <1>7

\* A forget retracts what is stored or on its way, and settles what never left.
LEMMA ForgetRetracts ==
  ASSUME TypeOK, DeliveryInv, NEW r \in Records, Forget(r)
  PROVE  Ledger!ForgetRecord(r)
<1>1. ScheduleDelete(r) /\ copies' = copies
  BY DEF Forget, worldVars
<1>2. ASSUME NEW x \in ReliablePlaces, x[1] # r PROVE FateOf(x)' = FateOf(x)
  <2>1. /\ state'[RetainAt(x)] = state[RetainAt(x)] /\ state'[DeleteAt(x)] = state[DeleteAt(x)]
        /\ record'[x[1]] = record[x[1]]
    BY <1>1, <1>2, PlaceKeys DEF ScheduleDelete, TypeOK, StoreTypeOK
  <2> QED
    BY <2>1, SameFate
<1>3. ASSUME NEW x \in ReliablePlaces, x[1] = r
      PROVE  CASE FateOf(x) = "stored"     -> FateOf(x)' = "retracting"
               [] FateOf(x) \in {"owed", "retracting"} ->
                    FateOf(x)' = "retracting" \/ (FateOf(x)' = "retracted" /\ copies[x] = {})
               [] OTHER                    -> FateOf(x)' = FateOf(x)
  <2> DEFINE ret == RetainAt(x)
             del == DeleteAt(x)
  <2>1. /\ ret \in Deliveries /\ del \in Deliveries /\ ret # del
        /\ RecordOf(ret) = r /\ RecordOf(del) = r
        /\ OpOf(ret) = "retain" /\ OpOf(del) = "delete" /\ RetainOf(del) = ret
    BY <1>3, PlaceKeys
  <2>2. record'[r] = "deleted" /\ record[r] # "absent"
    BY <1>1 DEF ScheduleDelete, TypeOK, StoreTypeOK
  <2>3. state'[ret] = IF state[ret] \in {"pending", "failed", "dead"} THEN "cancelled" ELSE state[ret]
    BY <1>1, <2>1 DEF ScheduleDelete, Waiting
  <2>4. state'[del] = IF state[del] = "absent" /\ state[ret] = "complete" THEN "pending" ELSE state[del]
    BY <1>1, <2>1 DEF ScheduleDelete, Waiting
  <2>5. FateOf(x) = IF state[ret] = "absent" THEN "none"
                    ELSE IF record[r] = "live"
                         THEN IF state[ret] = "complete" THEN "stored" ELSE "owed"
                         ELSE IF state[ret] = "cancelled" \/ state[del] = "complete"
                              THEN "retracted" ELSE "retracting"
    BY <1>3 DEF FateOf, RetainAt, DeleteAt
  <2>6. FateOf(x)' = IF state'[ret] = "absent" THEN "none"
                     ELSE IF state'[ret] = "cancelled" \/ state'[del] = "complete"
                          THEN "retracted" ELSE "retracting"
    BY <1>3, <2>2 DEF FateOf, RetainAt, DeleteAt
  <2>7. /\ record[r] \in RecordStates /\ state[ret] \in DeliveryStates
        /\ state[del] # "absent" => record[r] = "deleted" /\ state[ret] = "complete"
        /\ state[ret] = "cancelled" => record[r] = "deleted"
        /\ state[ret] \notin {"processing", "complete"} => copies[x] = {}
    BY <1>3, PlaceFacts
  <2> HIDE DEF ret, del
  <2> QED
    BY <2>2, <2>3, <2>4, <2>5, <2>6, <2>7 DEF RecordStates, DeliveryStates, Waiting
<1>4. \A x \in ReliablePlaces : FateOf(x) \in Ledger!Fates /\ FateOf(x)' \in Ledger!Fates
  BY DEF FateOf, Ledger!Fates
<1>5. [x \in ReliablePlaces |-> FateOf(x)]' \in [Ledger!Places -> Ledger!Fates]
  BY <1>4 DEF Ledger!Places, ReliablePlaces
<1>6. \A x \in Ledger!Places :
        [y \in ReliablePlaces |-> FateOf(y)]'[x] \in
          IF x[1] = r THEN Ledger!AfterForget(x) ELSE {[y \in ReliablePlaces |-> FateOf(y)][x]}
  BY <1>2, <1>3 DEF Ledger!AfterForget, Ledger!Places, ReliablePlaces
<1> QED
  BY <1>1, <1>5, <1>6 DEF Ledger!ForgetRecord

\* A step of the store that moves rows only between the states of an unfinished
\* delivery does not show in the ledger.
LEMMA QuietStep ==
  ASSUME TypeOK, UNCHANGED record, \A x \in ReliablePlaces : copies'[x] = copies[x],
         \A d \in Deliveries : \/ state'[d] = state[d]
                               \/ {state[d], state'[d]} \subseteq {"pending", "failed", "dead", "processing"}
  PROVE  UNCHANGED Ledger!ledgerVars
<1>1. ASSUME NEW x \in ReliablePlaces PROVE FateOf(x)' = FateOf(x)
  <2>1. RetainAt(x) \in Deliveries /\ DeleteAt(x) \in Deliveries
    BY PlaceKeys
  <2> QED
    BY <2>1, SameFate
<1> QED
  BY <1>1, LedgerStutter

\* What is called or recorded at a backend that loses receipts does not show in the ledger.
LEMMA LossyQuiet ==
  ASSUME TypeOK, DeliveryInv, NEW p \in Drainers, BackendOf(cur[p]) \notin Reliable,
         RetainSucceeds(p) \/ DeleteSucceeds(p) \/ RecordSuccess(p)
  PROVE  UNCHANGED Ledger!ledgerVars
<1>1. cur[p] \in Deliveries
  BY ClaimedRow DEF RetainSucceeds, DeleteSucceeds, Calling, RecordSuccess, DeliveryInv, RowsInv
<1>2. PlaceOf(cur[p]) \notin ReliablePlaces
  BY <1>1, PlaceOfRow
<1>3. ASSUME NEW x \in ReliablePlaces PROVE FateOf(x)' = FateOf(x) /\ copies'[x] = copies[x]
  <2>1. RetainAt(x) \notin {cur[p], DeleteOf(cur[p])} /\ DeleteAt(x) \notin {cur[p], DeleteOf(cur[p])}
    BY <1>1, <1>2, PlaceKeys, KeyColumns, KeyPair DEF DeleteOf
  <2>2. RetainAt(x) \in Deliveries /\ DeleteAt(x) \in Deliveries /\ x \in Places
    BY PlaceKeys
  <2>3. CASE RetainSucceeds(p) \/ DeleteSucceeds(p)
    BY <1>2, <2>2, <2>3
    DEF RetainSucceeds, DeleteSucceeds, Answer, storeVars, FateOf, TypeOK, WorldTypeOK
  <2>4. CASE RecordSuccess(p)
    <3>1. /\ state'[RetainAt(x)] = state[RetainAt(x)] /\ state'[DeleteAt(x)] = state[DeleteAt(x)]
          /\ UNCHANGED <<record, copies>>
      BY <2>1, <2>2, <2>4 DEF RecordSuccess, Complete, Done, worldVars
    <3> QED
      BY <3>1, SameFate
  <2> QED
    BY <2>3, <2>4
<1> QED
  BY <1>3, LedgerStutter

\* A recorded success: a retain is confirmed or found late, a delete ends the retraction.
LEMMA SuccessConfirms ==
  ASSUME TypeOK, DeliveryInv, NEW p \in Drainers, BackendOf(cur[p]) \in Reliable,
         RecordSuccess(p)
  PROVE  [Ledger!LedgerNext]_Ledger!ledgerVars
<1>d. cur[p] \in Deliveries /\ cur[p] # None /\ pc[p] = "ok" /\ PlaceOf(cur[p]) \in ReliablePlaces
  BY ClaimedRow, PlaceOfRow, StoreAssumption DEF RecordSuccess, DeliveryInv, RowsInv
<1>e. PICK d \in Deliveries : d = cur[p]
  BY <1>d
<1>f. PICK at \in ReliablePlaces : at = PlaceOf(d)
  BY <1>d, <1>e
<1> DEFINE ret == RetainAt(at)
           del == DeleteAt(at)
<1>1. /\ d \in Deliveries /\ state[d] = "processing" /\ pc[p] = "ok"
      /\ Complete(d, receipt[p]) /\ copies' = copies
      /\ OpOf(d) = "retain" => copies[at] = {receipt[p]}
      /\ OpOf(d) = "delete" => copies[at] = {}
  BY <1>d, <1>e, <1>f, ClaimedCopy DEF RecordSuccess, DeliveryInv, Done, worldVars, CallOK
<1>2. receipt[p] \in Nat /\ receipt[p] # NoId
  BY <1>1 DEF DeliveryInv, RowsInv, ReceiptInv, ReceiptOK, TypeOK, DrainTypeOK
<1>3. /\ at \in ReliablePlaces /\ at[1] = RecordOf(d)
      /\ ret \in Deliveries /\ del \in Deliveries /\ ret # del
      /\ ret = RetainOf(d) /\ del = DeleteOf(d)
  BY <1>f, KeyColumns, PlaceKeys DEF RetainAt, DeleteAt, RetainOf, DeleteOf, PlaceOf
<1>4. ASSUME NEW x \in ReliablePlaces, x # at PROVE FateOf(x)' = FateOf(x)
  <2>1. RetainAt(x) \in Deliveries /\ DeleteAt(x) \in Deliveries
        /\ PlaceOf(RetainAt(x)) = x /\ PlaceOf(DeleteAt(x)) = x
    BY PlaceKeys
  <2>2. RetainAt(x) \notin {d, DeleteOf(d)} /\ DeleteAt(x) \notin {d, DeleteOf(d)}
    BY <1>3, <1>4, <2>1, PlaceKeys
  <2>3. /\ state'[RetainAt(x)] = state[RetainAt(x)] /\ state'[DeleteAt(x)] = state[DeleteAt(x)]
        /\ record' = record
    BY <1>1, <2>1, <2>2 DEF Complete
  <2> QED
    BY <2>3, SameFate
<1>5. /\ record[at[1]] \in RecordStates
      /\ state[ret] # "absent"
      /\ state[del] # "absent" => record[at[1]] = "deleted" /\ state[ret] = "complete"
      /\ record[at[1]] = "absent" => state[ret] = "absent"
  <2>1. state[del] # "absent" => record[at[1]] = "deleted" /\ state[ret] = "complete"
    BY <1>3, PlaceFacts
  <2>2. d = ret \/ d = del
    BY <1>1, <1>3, KeyColumns DEF Deliveries, Operations, OpOf
  <2> QED
    BY <1>1, <1>3, <2>1, <2>2, PlaceFacts
<1>6. CASE OpOf(d) = "retain" /\ record[at[1]] = "live"
  <2>1. d = ret /\ copies[at] = {receipt[p]}
    BY <1>1, <1>3, <1>6, KeyColumns
  <2>2. FateOf(at) = "owed" /\ copies[at] # {}
    BY <1>1, <1>6, <2>1 DEF FateOf, RetainAt
  <2>3. state'[ret] = "complete" /\ record' = record
    BY <1>1, <1>3, <2>1 DEF Complete, TypeOK, StoreTypeOK
  <2>4. FateOf(at)' = "stored"
    BY <1>6, <2>3 DEF FateOf, RetainAt
  <2>5. Ledger!Confirm(at)
    BY <1>1, <1>3, <1>4, <2>2, <2>4 DEF Ledger!Confirm
  <2> QED
    BY <1>3, <2>5 DEF Ledger!LedgerNext, Ledger!Places, ReliablePlaces
<1>7. CASE OpOf(d) = "retain" /\ record[at[1]] # "live"
  <2>1. d = ret /\ state[del] = "absent"
    BY <1>1, <1>3, <1>5, <1>7, KeyColumns
  <2>2. record[at[1]] = "deleted"
    BY <1>5, <1>7 DEF RecordStates
  <2>3. state'[ret] = "complete" /\ state'[del] = "pending" /\ record' = record
    BY <1>1, <1>2, <1>3, <1>7, <2>1, <2>2 DEF Complete
  <2>4. FateOf(at) = "retracting" /\ FateOf(at)' = "retracting"
    BY <1>1, <2>1, <2>2, <2>3 DEF FateOf, RetainAt, DeleteAt
  <2> QED
    BY <1>1, <1>4, <2>4, LedgerStutter
<1>8. CASE OpOf(d) = "delete"
  <2>1. d = del /\ copies[at] = {}
    BY <1>1, <1>3, <1>8, KeyColumns
  <2>2. record[at[1]] = "deleted" /\ state[ret] = "complete"
    BY <1>1, <1>5, <2>1
  <2>3. state'[ret] = "complete" /\ state'[del] = "complete" /\ record' = record
    BY <1>1, <1>3, <1>8, <2>1, <2>2 DEF Complete
  <2>4. FateOf(at) = "retracting" /\ FateOf(at)' = "retracted"
    BY <1>1, <2>1, <2>2, <2>3 DEF FateOf, RetainAt, DeleteAt
  <2>5. Ledger!Retracted(at)
    BY <1>1, <1>3, <1>4, <2>1, <2>4 DEF Ledger!Retracted
  <2> QED
    BY <1>3, <2>5 DEF Ledger!LedgerNext, Ledger!Places, ReliablePlaces
<1> QED
  BY <1>1, <1>6, <1>7, <1>8 DEF Deliveries, Operations, OpOf

\* The backend takes a copy that is owed, or still on its way while it is retracted.
LEMMA RetainTakesCopy ==
  ASSUME TypeOK, DeliveryInv, NEW p \in Drainers, BackendOf(cur[p]) \in Reliable,
         RetainSucceeds(p)
  PROVE  Ledger!LedgerNext
<1>p. PICK at \in ReliablePlaces : at = PlaceOf(cur[p])
  BY ClaimedRow, PlaceOfRow DEF RetainSucceeds, DeleteSucceeds, Calling, DeliveryInv, RowsInv
<1>1. /\ cur[p] \in Deliveries /\ state[cur[p]] = "processing" /\ OpOf(cur[p]) = "retain"
      /\ UNCHANGED <<record, state>>
      /\ copies' = [copies EXCEPT ![at] = @ \cup {NewId(cur[p])}]
  BY <1>p, ClaimedRow DEF RetainSucceeds, Calling, Answer, storeVars, DeliveryInv, RowsInv
<1>2. cur[p] = RetainAt(at)
  BY <1>1, <1>p, KeyColumns DEF RetainAt, RetainOf, PlaceOf
<1>3. state[DeleteAt(at)] = "absent" /\ record[at[1]] \in {"live", "deleted"}
  BY <1>1, <1>2, PlaceFacts DEF RecordStates
<1>4. FateOf(at) \in {"owed", "retracting"}
  BY <1>1, <1>2, <1>3 DEF FateOf, RetainAt, DeleteAt
<1>5. \A x \in ReliablePlaces : FateOf(x)' = FateOf(x)
  BY <1>1 DEF FateOf
<1>6. /\ copies'[at] # {}
      /\ \A x \in ReliablePlaces : x # at => copies'[x] = copies[x]
  BY <1>1, PlaceKeys DEF TypeOK, WorldTypeOK
<1>7. Ledger!TakeCopy(at)
  BY <1>1, <1>4, <1>5, <1>6 DEF Ledger!TakeCopy
<1> QED
  BY <1>1, <1>7 DEF Ledger!LedgerNext, Ledger!Places, ReliablePlaces

\* A delete takes the last copy of a record that is being retracted.
LEMMA DeleteDropsCopy ==
  ASSUME TypeOK, DeliveryInv, NEW p \in Drainers, BackendOf(cur[p]) \in Reliable,
         DeleteSucceeds(p)
  PROVE  Ledger!LedgerNext
<1>p. PICK at \in ReliablePlaces : at = PlaceOf(cur[p])
  BY ClaimedRow, PlaceOfRow DEF RetainSucceeds, DeleteSucceeds, Calling, DeliveryInv, RowsInv
<1>1. /\ cur[p] \in Deliveries /\ state[cur[p]] = "processing" /\ OpOf(cur[p]) = "delete"
      /\ UNCHANGED <<record, state>>
      /\ copies' = [copies EXCEPT ![at] = @ \ {extId[cur[p]]}]
  BY <1>p, ClaimedRow DEF DeleteSucceeds, Calling, Answer, storeVars, DeliveryInv, RowsInv
<1>2. cur[p] = DeleteAt(at)
  BY <1>1, <1>p, KeyColumns DEF DeleteAt, DeleteOf, PlaceOf
<1>3. state[RetainAt(at)] = "complete" /\ record[at[1]] = "deleted"
  BY <1>1, <1>2, PlaceFacts
<1>4. FateOf(at) = "retracting"
  BY <1>1, <1>2, <1>3 DEF FateOf, RetainAt, DeleteAt
<1>5. \A x \in ReliablePlaces : FateOf(x)' = FateOf(x)
  BY <1>1 DEF FateOf
<1>6. cur[p] # None
  BY <1>1, StoreAssumption
<1>7. copies[at] \subseteq {extId[cur[p]]}
  BY <1>1, <1>p, <1>6, ClaimedCopy DEF DeliveryInv
<1>8. /\ copies'[at] = {}
      /\ \A x \in ReliablePlaces : x # at => copies'[x] = copies[x]
  BY <1>1, <1>7, PlaceKeys DEF TypeOK, WorldTypeOK
<1>9. Ledger!DropCopy(at)
  BY <1>1, <1>4, <1>5, <1>8 DEF Ledger!DropCopy
<1> QED
  BY <1>1, <1>9 DEF Ledger!LedgerNext, Ledger!Places, ReliablePlaces

LEMMA LedgerStep ==
  ASSUME TypeOK, DeliveryInv, [Next]_vars
  PROVE  [Ledger!LedgerNext]_Ledger!ledgerVars
<1> DEFINE Goal == [Ledger!LedgerNext]_Ledger!ledgerVars
<1>1. ASSUME NEW r \in Records, Submit(r) PROVE Goal
  BY <1>1, SubmitRemembers DEF Ledger!LedgerNext
<1>2. ASSUME NEW r \in Records, Forget(r) PROVE Goal
  BY <1>2, ForgetRetracts DEF Ledger!LedgerNext
<1>3. ASSUME NEW scope, Retry(scope) PROVE Goal
  BY <1>3, QuietStep DEF Retry, RetryFailed, worldVars, TypeOK, StoreTypeOK
<1>4. ASSUME NEW p \in Drainers, NEW d \in Heads(p), ClaimRow(p, d) PROVE Goal
  BY <1>4, QuietStep DEF ClaimRow, Claim, Waiting, worldVars, TypeOK, StoreTypeOK
<1>5. ASSUME NEW p \in Drainers, RetainSucceeds(p) \/ DeleteSucceeds(p) PROVE Goal
  BY <1>5, RetainTakesCopy, DeleteDropsCopy, LossyQuiet
<1>6. ASSUME NEW p \in Drainers, RecordSuccess(p) PROVE Goal
  BY <1>6, SuccessConfirms, LossyQuiet
<1>7. ASSUME NEW p \in Drainers, RecordFailure(p) PROVE Goal
  <2>1. cur[p] \in Deliveries /\ state[cur[p]] = "processing"
    BY <1>7, ClaimedRow DEF RecordFailure, DeliveryInv, RowsInv
  <2> QED
    BY <1>7, <2>1, QuietStep DEF RecordFailure, Fail, Done, worldVars, TypeOK, StoreTypeOK
<1>8. ASSUME UNCHANGED <<record, state, copies>> PROVE Goal
  BY <1>8, QuietStep
<1> QED
  BY <1>1, <1>2, <1>3, <1>4, <1>5, <1>6, <1>7, <1>8
  DEF Next, Work, Elapse, BackoffElapses, ReadDue, SkipRow, CallHopeless, CallFails, LoseReceipt,
      Answer, Abandon, vars, storeVars, worldVars

\* For every backend where no write succeeds unnoticed, router, store and backend together
\* implement the ledger of docs/routing-policies.md: a memory is owed, stored, retracted, in this
\* order, and 'retracted' is never said while a copy is left.
THEOREM OutboxImplementsLedger == Spec => ImplementsLedger
<1>1. Init => Ledger!LedgerInit
  BY LedgerStart
<1>2. TypeOK /\ DeliveryInv /\ [Next]_vars => [Ledger!LedgerNext]_Ledger!ledgerVars
  BY LedgerStep
<1> QED
  BY <1>1, <1>2, Delivery, PTL DEF Spec, ImplementsLedger, Ledger!LedgerSpec
=============================================================================
