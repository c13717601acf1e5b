----------------------------- MODULE SessionProofs -----------------------------
(***************************************************************************)
(* Theorems about RouterSession, for any number of routers, identities and *)
(* callers: every step of the life of the routers is a step of Outbox or   *)
(* leaves its variables alone, so what OutboxProofs shows holds in every   *)
(* session; no worker sleeps through a wake-up; one database keeps one     *)
(* identity.                                                               *)
(***************************************************************************)
EXTENDS RouterSession, OutboxProofs

-----------------------------------------------------------------------------
(* A session implements the outbox.                                        *)

\* The initial states of a session are initial states of the outbox.
LEMMA SessionStarts == SessionInit => Init
BY DEF SessionInit

\* What a router's callers, its opening and its end do to the tables.
LEMMA LifeIsOutbox ==
  ASSUME NEW r \in Routers,
         \/ Open(r) \/ SetWake(r) \/ WorkerStep(r) \/ CommandDrain(r) \/ Close(r)
         \/ Joined(r) \/ JoinTimesOut(r) \/ CloseStore(r) \/ Kill(r)
  PROVE  UNCHANGED vars
BY DEF Open, SetWake, WorkerStep, LeaveWait, Clear, CommandDrain, Close, Joined,
       JoinTimesOut, BeginFlush, CloseStore, Kill

\* What its calls do to them.
LEMMA CallsAreOutbox ==
  ASSUME NEW r \in Routers,
         \/ \E x \in Records : Accept(r, x) \/ ForgetHere(r, x)
         \/ \E scope \in {{x} : x \in Records} \cup {Records} : RetryHere(r, scope)
  PROVE  Next
BY DEF Accept, ForgetHere, RetryHere, Next

\* What a thread in a drain does to them.
LEMMA DrainIsOutbox ==
  ASSUME NEW p \in Drainers,
         \/ DrainStep(p) \/ DrainLoses(p)
         \/ StoreRaises(p) \/ ReadRaises(p) \/ ClosedStoreRaises(p) \/ Die(p)
  PROVE  Next \/ UNCHANGED vars
<1>1. CASE DrainStep(p)
  BY <1>1 DEF DrainStep, ReadRows, ReadNothing, DrainStore, DrainCall, EndDrain, Next, Work
<1>2. CASE DrainLoses(p)
  BY <1>2 DEF DrainLoses, Next
<1>3. CASE StoreRaises(p) \/ ReadRaises(p) \/ ClosedStoreRaises(p) \/ Die(p)
  BY <1>3 DEF StoreRaises, ReadRaises, ClosedStoreRaises, Die, Next
<1>4. QED
  BY <1>1, <1>2, <1>3

\* Every step of a session is a step of the outbox, or one it does not see.
LEMMA SessionStep == [SessionNext]_rvars => [Next]_vars
<1> SUFFICES ASSUME [SessionNext]_rvars PROVE Next \/ UNCHANGED vars
  OBVIOUS
<1>1. ASSUME NEW d \in Deliveries, Elapses(d) PROVE Next
  BY <1>1 DEF Elapses, Next
<1>2. CASE UNCHANGED rvars
  BY <1>2 DEF rvars
<1>3. QED
  BY <1>1, <1>2, LifeIsOutbox, CallsAreOutbox, DrainIsOutbox DEF SessionNext

\* The life of the routers, with its joins that time out, its kills and its store errors,
\* shows the tables and the backends nothing that Outbox does not allow.
THEOREM SessionImplementsOutbox == SessionSpec => Spec
BY SessionStarts, SessionStep, PTL DEF SessionSpec, Spec

\* In every session no two drains hold one row, the tables are consistent, and reliable
\* backends hold only copies that are tracked.
THEOREM SessionDelivery == SessionSpec => []DeliveryInv
BY SessionImplementsOutbox, Delivery, PTL

-----------------------------------------------------------------------------
(* Threads.                                                                *)

\* Every thread is the worker or the main thread of one router.
LEMMA ThreadOf ==
  ASSUME NEW p \in Drainers
  PROVE  RouterOf(p) \in Routers /\ p \in {Worker(RouterOf(p)), Main(RouterOf(p))}
BY SessionAssumption DEF RouterOf, Worker, Main

\* The threads of the routers are distinct.
LEMMA ThreadsDiffer ==
  ASSUME NEW r \in Routers, NEW q \in Routers
  PROVE  /\ Worker(r) \in Drainers /\ Main(r) \in Drainers
         /\ Worker(r) # Main(q)
         /\ Worker(r) = Worker(q) <=> r = q
         /\ RouterOf(Worker(r)) = r /\ RouterOf(Main(r)) = r
BY SessionAssumption DEF RouterOf, Worker, Main

-----------------------------------------------------------------------------
(* Type correctness.                                                       *)

LEMMA SessionTypeInit == SessionInit => SessionTypeOK
<1> SUFFICES ASSUME SessionInit PROVE SessionTypeOK
  OBVIOUS
<1> USE SessionAssumption DEF SessionInit
<1>1. /\ phase \in [Routers -> Phases]
      /\ at \in [Drainers -> Spots]
  BY DEF Phases, Spots
<1>2. /\ stop \in [Routers -> BOOLEAN]
      /\ wake \in [Routers -> BOOLEAN]
      /\ did \in [Routers -> BOOLEAN]
      /\ calm \in BOOLEAN
  OBVIOUS
<1>3. /\ owing \in [Routers -> 0..MaxCallers]
      /\ round \in [Routers -> 0..FlushRounds]
      /\ announced \in [Routers -> SUBSET Deliveries]
  OBVIOUS
<1>4. /\ binding \in Identities \cup {None}
      /\ owner \in [Records -> Identities \cup {None}]
  OBVIOUS
<1>5. QED
  BY <1>1, <1>2, <1>3, <1>4 DEF SessionTypeOK

\* Moving a thread and leaving a drain keep their variables in their sets.
LEMMA MovesTyped ==
  ASSUME SessionTypeOK, NEW p \in Drainers
  PROVE  /\ \A place \in Spots : Goto(p, place) => at' \in [Drainers -> Spots]
         /\ \A processed \in BOOLEAN : AfterDrain(p, processed) =>
              at' \in [Drainers -> Spots] /\ round' \in [Routers -> 0..FlushRounds]
         /\ Looked(p) => announced' \in [Routers -> SUBSET Deliveries]
BY ThreadOf, SessionAssumption DEF SessionTypeOK, Goto, AfterDrain, Looked, Spots

\* Opening, waking, closing and killing.
LEMMA LifeTyped ==
  ASSUME SessionTypeOK, NEW r \in Routers,
         \/ Open(r) \/ SetWake(r) \/ WorkerStep(r) \/ CommandDrain(r) \/ Close(r)
         \/ Joined(r) \/ JoinTimesOut(r) \/ CloseStore(r) \/ Kill(r)
  PROVE  SessionTypeOK'
<1> USE SessionAssumption, ThreadsDiffer
        DEF SessionTypeOK, Goto, Phases, Spots, lifeVars, wakeVars, bindVars
<1>1. CASE Open(r)
  BY <1>1 DEF Open, Identities
<1>2. CASE SetWake(r)
  BY <1>2 DEF SetWake
<1>3. CASE LeaveWait(r)
  BY <1>3 DEF LeaveWait
<1>10. CASE Clear(r)
  <2>1. at' \in [Drainers -> Spots]
    BY <1>10, MovesTyped DEF Clear
  <2>2. wake' \in [Routers -> BOOLEAN]
    BY <1>10 DEF Clear
  <2>3. QED
    BY <1>10, <2>1, <2>2 DEF Clear
<1>4. CASE CommandDrain(r)
  BY <1>4 DEF CommandDrain
<1>5. CASE Close(r)
  BY <1>5 DEF Close
<1>6. CASE Joined(r)
  BY <1>6 DEF Joined, BeginFlush
<1>7. CASE JoinTimesOut(r)
  <2>1. /\ phase' \in [Routers -> Phases]
        /\ at' \in [Drainers -> Spots]
    BY <1>7 DEF JoinTimesOut, BeginFlush
  <2>2. round' \in [Routers -> 0..FlushRounds]
    BY <1>7 DEF JoinTimesOut, BeginFlush
  <2>3. calm' \in BOOLEAN
    BY <1>7 DEF JoinTimesOut
  <2>4. QED
    BY <1>7, <2>1, <2>2, <2>3 DEF JoinTimesOut, BeginFlush
<1>8. CASE CloseStore(r)
  BY <1>8 DEF CloseStore
<1>9. CASE Kill(r)
  <2>1. /\ phase' \in [Routers -> Phases]
        /\ at' \in [Drainers -> Spots]
    BY <1>9 DEF Kill
  <2>2. /\ stop' \in [Routers -> BOOLEAN]
        /\ wake' \in [Routers -> BOOLEAN]
        /\ did' \in [Routers -> BOOLEAN]
    BY <1>9 DEF Kill
  <2>3. /\ owing' \in [Routers -> 0..MaxCallers]
        /\ round' \in [Routers -> 0..FlushRounds]
        /\ announced' \in [Routers -> SUBSET Deliveries]
    BY <1>9 DEF Kill
  <2>4. calm' \in BOOLEAN
    BY <1>9 DEF Kill
  <2>5. QED
    BY <1>9, <2>1, <2>2, <2>3, <2>4 DEF Kill
<1>11. QED
  BY <1>1, <1>2, <1>3, <1>4, <1>5, <1>6, <1>7, <1>8, <1>9, <1>10 DEF WorkerStep

\* Calls.
LEMMA CallsTyped ==
  ASSUME SessionTypeOK, NEW r \in Routers, Announce(r),
         \/ \E x \in Records : owner' = [owner EXCEPT ![x] = IdentityOf[r]]
         \/ UNCHANGED owner
  PROVE  SessionTypeOK'
BY SessionAssumption
   DEF SessionTypeOK, Announce, Announced, Identities, lifeVars, Phases, Spots

\* Drains.
LEMMA DrainTyped ==
  ASSUME SessionTypeOK, NEW p \in Drainers,
         \/ DrainStep(p) \/ DrainLoses(p)
         \/ StoreRaises(p) \/ ReadRaises(p) \/ ClosedStoreRaises(p) \/ Die(p)
  PROVE  SessionTypeOK'
<1> USE ThreadOf, MovesTyped
        DEF SessionTypeOK, Spots, lifeVars, wakeVars, bindVars, sessionVars, Raised
<1>1. CASE ReadRows(p)
  BY <1>1 DEF ReadRows
<1>2. CASE ReadNothing(p)
  BY <1>2 DEF ReadNothing
<1>3. CASE DrainStore(p)
  BY <1>3 DEF DrainStore
<1>4. CASE DrainCall(p) \/ DrainLoses(p) \/ Die(p)
  BY <1>4 DEF DrainCall, DrainLoses, Die
<1>5. CASE EndDrain(p)
  BY <1>5 DEF EndDrain
<1>6. CASE StoreRaises(p)
  BY <1>6 DEF StoreRaises
<1>7. CASE ReadRaises(p)
  BY <1>7 DEF ReadRaises
<1>8. CASE ClosedStoreRaises(p)
  BY <1>8 DEF ClosedStoreRaises
<1>9. QED
  BY <1>1, <1>2, <1>3, <1>4, <1>5, <1>6, <1>7, <1>8 DEF DrainStep

\* The variables of the routers keep their types.
THEOREM SessionTypes == SessionSpec => []SessionTypeOK
<1>1. SessionTypeOK /\ [SessionNext]_rvars => SessionTypeOK'
  <2> SUFFICES ASSUME SessionTypeOK, [SessionNext]_rvars PROVE SessionTypeOK'
    OBVIOUS
  <2>1. ASSUME NEW r \in Routers, NEW x \in Records, Accept(r, x) \/ ForgetHere(r, x)
        PROVE  SessionTypeOK'
    BY <2>1, CallsTyped DEF Accept, ForgetHere
  <2>2. ASSUME NEW r \in Routers, NEW scope, RetryHere(r, scope) PROVE SessionTypeOK'
    BY <2>2, CallsTyped DEF RetryHere
  <2>3. ASSUME NEW d \in Deliveries, Elapses(d) PROVE SessionTypeOK'
    BY <2>3 DEF Elapses, SessionTypeOK, sessionVars, lifeVars, wakeVars, bindVars
  <2>4. CASE UNCHANGED rvars
    BY <2>4 DEF rvars, SessionTypeOK, sessionVars, lifeVars, wakeVars, bindVars
  <2>5. QED
    BY <2>1, <2>2, <2>3, <2>4, LifeTyped, DrainTyped DEF SessionNext
<1>2. QED
  BY SessionTypeInit, <1>1, PTL DEF SessionSpec

-----------------------------------------------------------------------------
(* Wake-ups.                                                               *)

\* While the worker is in its rows or its wait, a row announced since it looked is
\* on its way to it: the call has yet to set the event, or the event is set.
WakeInv ==
  \A r \in Routers :
    at[Worker(r)] \in {"rows", "wait"} /\ announced[r] # {} => owing[r] > 0 \/ wake[r]

\* Opening, waking, closing and killing.
LEMMA LifeWakes ==
  ASSUME SessionTypeOK, WakeInv, NEW r \in Routers,
         \/ Open(r) \/ SetWake(r) \/ WorkerStep(r) \/ CommandDrain(r) \/ Close(r)
         \/ Joined(r) \/ JoinTimesOut(r) \/ CloseStore(r) \/ Kill(r)
  PROVE  WakeInv'
<1> USE SessionAssumption, ThreadsDiffer DEF WakeInv, SessionTypeOK, Goto, lifeVars, wakeVars
<1>1. CASE Open(r)
  BY <1>1 DEF Open
<1>2. CASE SetWake(r)
  BY <1>2 DEF SetWake
<1>3. CASE LeaveWait(r)
  BY <1>3 DEF LeaveWait
<1>4. CASE Clear(r)
  BY <1>4 DEF Clear
<1>5. CASE CommandDrain(r)
  BY <1>5 DEF CommandDrain
<1>6. CASE Close(r)
  BY <1>6 DEF Close
<1>7. CASE Joined(r) \/ JoinTimesOut(r)
  BY <1>7 DEF Joined, JoinTimesOut, BeginFlush
<1>8. CASE CloseStore(r)
  BY <1>8 DEF CloseStore
<1>9. CASE Kill(r)
  BY <1>9 DEF Kill
<1>10. QED
  BY <1>1, <1>2, <1>3, <1>4, <1>5, <1>6, <1>7, <1>8, <1>9 DEF WorkerStep

\* Calls.
LEMMA CallsWake ==
  ASSUME SessionTypeOK, WakeInv, NEW r \in Routers, Announce(r)
  PROVE  WakeInv'
BY SessionAssumption, ThreadsDiffer
   DEF WakeInv, SessionTypeOK, Announce, Announced, lifeVars

\* Drains.
LEMMA DrainWakes ==
  ASSUME SessionTypeOK, WakeInv, NEW p \in Drainers,
         \/ DrainStep(p) \/ DrainLoses(p)
         \/ StoreRaises(p) \/ ReadRaises(p) \/ ClosedStoreRaises(p) \/ Die(p)
  PROVE  WakeInv'
<1> USE ThreadOf, ThreadsDiffer
        DEF WakeInv, SessionTypeOK, Goto, AfterDrain, Looked, Raised, BetweenCalls,
            lifeVars, wakeVars, sessionVars
<1>1. CASE ReadRows(p)
  BY <1>1 DEF ReadRows
<1>2. CASE ReadNothing(p) \/ ReadRaises(p)
  BY <1>2 DEF ReadNothing, ReadRaises
<1>3. CASE DrainStore(p)
  BY <1>3 DEF DrainStore
<1>4. CASE DrainCall(p) \/ DrainLoses(p) \/ Die(p)
  BY <1>4 DEF DrainCall, DrainLoses, Die
<1>5. CASE EndDrain(p)
  BY <1>5 DEF EndDrain
<1>6. CASE StoreRaises(p) \/ ClosedStoreRaises(p)
  BY <1>6 DEF StoreRaises, ClosedStoreRaises
<1>7. QED
  BY <1>1, <1>2, <1>3, <1>4, <1>5, <1>6 DEF DrainStep

\* No worker sleeps through a wake-up: the wait, the clear of the event and the commits
\* before wake.set may come in any order, with any number of routers and callers.
THEOREM Wakeups == SessionSpec => []NoLostWakeup
<1>1. SessionInit => WakeInv
  BY DEF SessionInit, WakeInv
<1>2. SessionTypeOK /\ WakeInv /\ [SessionNext]_rvars => WakeInv'
  <2> SUFFICES ASSUME SessionTypeOK, WakeInv, [SessionNext]_rvars PROVE WakeInv'
    OBVIOUS
  <2>1. ASSUME NEW d \in Deliveries, Elapses(d) PROVE WakeInv'
    BY <2>1 DEF Elapses, WakeInv, sessionVars, wakeVars
  <2>2. CASE UNCHANGED rvars
    BY <2>2 DEF rvars, WakeInv, sessionVars, wakeVars
  <2>3. QED
    BY <2>1, <2>2, LifeWakes, CallsWake, DrainWakes
       DEF SessionNext, Accept, ForgetHere, RetryHere
<1>3. SessionTypeOK /\ WakeInv => NoLostWakeup
  BY ThreadsDiffer DEF WakeInv, NoLostWakeup, SessionTypeOK
<1>4. QED
  BY <1>1, <1>2, <1>3, SessionTypes, PTL DEF SessionSpec

-----------------------------------------------------------------------------
(* One identity.                                                           *)

\* An unbound database holds no record.
IdentityInv == OneIdentity /\ (binding = None => \A x \in Records : record[x] = "absent")

\* No step of a drain writes a row of records.
LEMMA DrainsKeepRecords ==
  ASSUME NEW p \in Drainers,
         \/ DrainStep(p) \/ DrainLoses(p)
         \/ StoreRaises(p) \/ ReadRaises(p) \/ ClosedStoreRaises(p) \/ Die(p)
  PROVE  record' = record
<1> USE DEF storeVars
<1>1. CASE ReadRows(p) \/ ReadNothing(p) \/ EndDrain(p) \/ ReadRaises(p)
  BY <1>1 DEF ReadRows, ReadDue, ReadNothing, EndDrain, ReadRaises, vars
<1>2. CASE DrainStore(p)
  BY <1>2 DEF DrainStore, ClaimRow, Claim, SkipRow, RecordSuccess, Complete,
              RecordFailure, Fail
<1>3. CASE DrainCall(p) \/ DrainLoses(p)
  BY <1>3 DEF DrainCall, DrainLoses, RetainSucceeds, DeleteSucceeds, CallHopeless,
              CallFails, LoseReceipt, Answer
<1>4. CASE StoreRaises(p) \/ ClosedStoreRaises(p) \/ Die(p)
  BY <1>4 DEF StoreRaises, ClosedStoreRaises, Die, Abandon
<1>5. QED
  BY <1>1, <1>2, <1>3, <1>4 DEF DrainStep

\* Opening binds an unbound database, and writing a record needs an open router.
LEMMA IdentityStep ==
  TypeOK /\ SessionTypeOK /\ IdentityInv /\ [SessionNext]_rvars => IdentityInv'
<1> SUFFICES ASSUME TypeOK, SessionTypeOK, IdentityInv, [SessionNext]_rvars PROVE IdentityInv'
  OBVIOUS
<1> USE SessionAssumption
        DEF IdentityInv, OneIdentity, SessionTypeOK, StoreOpen, lifeVars, bindVars, sessionVars
<1>1. ASSUME NEW r \in Routers, Open(r) PROVE IdentityInv'
  <2>1. record' = record
    BY <1>1 DEF Open, vars, storeVars
  <2>2. \A q \in Routers : IdentityOf[q] # None
    BY DEF Identities
  <2>3. binding' = IdentityOf[r] /\ binding \in {None, IdentityOf[r]} /\ owner' = owner
    BY <1>1 DEF Open
  <2>4. \A q \in Routers : StoreOpen(q)' => StoreOpen(q) \/ q = r
    BY <1>1 DEF Open
  <2>5. \A q \in Routers : StoreOpen(q)' => IdentityOf[q] = binding'
    BY <2>2, <2>3, <2>4
  <2>6. \A x \in Records : record[x] # "absent" => owner[x] = binding'
    BY <2>3
  <2>7. QED
    BY <2>1, <2>2, <2>3, <2>5, <2>6
<1>2. ASSUME NEW r \in Routers, NEW x \in Records, Accept(r, x) PROVE IdentityInv'
  <2>1. binding = IdentityOf[r] /\ binding # None
    BY <1>2 DEF Accept, Announce, Identities
  <2>2. \A y \in Records \ {x} : record'[y] = record[y]
    BY <1>2 DEF Accept, Submit, CreateRecord, TypeOK, StoreTypeOK
  <2>3. owner' = [owner EXCEPT ![x] = IdentityOf[r]] /\ UNCHANGED <<phase, binding>>
    BY <1>2 DEF Accept, Announce
  <2>4. QED
    BY <2>1, <2>2, <2>3
<1>3. ASSUME UNCHANGED <<binding, owner>>,
             \A x \in Records : record[x] = "absent" => record'[x] = "absent",
             \A r \in Routers : StoreOpen(r)' => StoreOpen(r)
      PROVE  IdentityInv'
  BY <1>3
<1>4. ASSUME NEW r \in Routers,
             \/ \E x \in Records : ForgetHere(r, x)
             \/ \E scope \in {{x} : x \in Records} \cup {Records} : RetryHere(r, scope)
      PROVE  IdentityInv'
  <2>1. \A x \in Records : record[x] = "absent" => record'[x] = "absent"
    BY <1>4 DEF ForgetHere, Forget, ScheduleDelete, RetryHere, Retry, RetryFailed,
                TypeOK, StoreTypeOK
  <2>2. UNCHANGED <<binding, owner, phase>>
    BY <1>4 DEF ForgetHere, RetryHere, Announce
  <2>3. QED
    BY <1>3, <2>1, <2>2
<1>5. ASSUME NEW r \in Routers,
             \/ SetWake(r) \/ WorkerStep(r) \/ CommandDrain(r) \/ Close(r)
             \/ Joined(r) \/ JoinTimesOut(r) \/ CloseStore(r) \/ Kill(r)
      PROVE  IdentityInv'
  <2>1. record' = record
    BY <1>5, LifeIsOutbox DEF vars, storeVars
  <2>2. /\ UNCHANGED <<binding, owner>>
        /\ \A q \in Routers : StoreOpen(q)' => StoreOpen(q)
    BY <1>5 DEF SetWake, WorkerStep, LeaveWait, Clear, CommandDrain, Close, Joined,
                JoinTimesOut, BeginFlush, CloseStore, Kill
  <2>3. QED
    BY <1>3, <2>1, <2>2
<1>6. ASSUME NEW p \in Drainers,
             \/ DrainStep(p) \/ DrainLoses(p)
             \/ StoreRaises(p) \/ ReadRaises(p) \/ ClosedStoreRaises(p) \/ Die(p)
      PROVE  IdentityInv'
  <2>1. record' = record
    BY <1>6, DrainsKeepRecords
  <2>2. UNCHANGED <<binding, owner, phase>>
    BY <1>6 DEF DrainStep, ReadRows, ReadNothing, DrainStore, DrainCall, EndDrain,
                DrainLoses, StoreRaises, ReadRaises, ClosedStoreRaises, Raised, Die
  <2>3. QED
    BY <1>3, <2>1, <2>2
<1>7. ASSUME NEW d \in Deliveries, Elapses(d) PROVE IdentityInv'
  BY <1>3, <1>7 DEF Elapses, Elapse, BackoffElapses
<1>8. CASE UNCHANGED rvars
  BY <1>3, <1>8 DEF rvars, vars, storeVars
<1>9. QED
  BY <1>1, <1>2, <1>4, <1>5, <1>6, <1>7, <1>8 DEF SessionNext

\* One database holds the records of one identity, in whatever order routers of any
\* configurations open it, write and close.
THEOREM Identity == SessionSpec => []OneIdentity
<1>1. SessionInit => IdentityInv
  BY DEF SessionInit, IdentityInv, OneIdentity, StoreOpen, Init, StoreInit
<1>2. IdentityInv => OneIdentity
  BY DEF IdentityInv
<1>3. SessionSpec => []TypeOK
  BY SessionImplementsOutbox, TypeCorrect, PTL
<1>4. QED
  BY <1>1, <1>2, <1>3, SessionTypes, IdentityStep, PTL DEF SessionSpec

-----------------------------------------------------------------------------
(* Clean closes.                                                           *)

\* Every running row has a thread that works on it.
Held == \A d \in Deliveries : state[d] = "processing" => \E p \in Drainers : cur[p] = d

\* While nothing went wrong: no router was killed, no thread is in a drain outside its
\* rows, a worker has left its loop before the flush and the closed store, and main is in
\* no drain before the flush and after it.
CalmInv ==
  calm =>
    /\ Held
    /\ \A p \in Drainers : at[p] # "rows" => pc[p] = "idle"
    /\ \A r \in Routers :
         /\ phase[r] # "killed"
         /\ phase[r] \in {"new", "flush", "closed"} => at[Worker(r)] = "none"
         /\ phase[r] \in {"new", "join", "closed"} => at[Main(r)] = "none"

\* A step of the outbox that abandons nothing leaves no running row without a thread.
LEMMA HeldStep ==
  ASSUME TypeOK, OwnerInv, Held,
         \/ \E x \in Records : Submit(x) \/ Forget(x)
         \/ \E scope \in {{x} : x \in Records} \cup {Records} : Retry(scope)
         \/ \E d \in Deliveries : Elapse(d)
         \/ \E p \in Drainers : Work(p) \/ LoseReceipt(p)
         \/ UNCHANGED vars
  PROVE  Held'
<1> USE DEF Held, Waiting
<1>t. /\ cur \in [Drainers -> Deliveries \cup {None}]
      /\ state \in [Deliveries -> DeliveryStates]
  BY DEF TypeOK, StoreTypeOK, DrainTypeOK
<1>1. ASSUME UNCHANGED cur,
             \A d \in Deliveries : state'[d] = "processing" => state[d] = "processing"
      PROVE  Held'
  BY <1>1
<1>2. ASSUME NEW x \in Records, Submit(x) \/ Forget(x) PROVE Held'
  BY <1>1, <1>2 DEF Submit, CreateRecord, Forget, ScheduleDelete, drainVars
<1>3. ASSUME NEW scope, Retry(scope) PROVE Held'
  BY <1>1, <1>3 DEF Retry, RetryFailed, drainVars
<1>4. ASSUME NEW d \in Deliveries, Elapse(d) PROVE Held'
  BY <1>1, <1>4 DEF Elapse, BackoffElapses, drainVars
<1>5. ASSUME NEW p \in Drainers,
             \/ ReadDue(p) \/ RetainSucceeds(p) \/ DeleteSucceeds(p)
             \/ CallHopeless(p) \/ CallFails(p) \/ LoseReceipt(p)
      PROVE  Held'
  BY <1>1, <1>5 DEF ReadDue, RetainSucceeds, DeleteSucceeds, CallHopeless, CallFails,
                    LoseReceipt, Answer, storeVars
<1>6. ASSUME NEW p \in Drainers, NEW d \in Heads(p), SkipRow(p, d) PROVE Held'
  BY <1>1, <1>6 DEF SkipRow, storeVars
<1>7. ASSUME NEW p \in Drainers, NEW d \in Heads(p), ClaimRow(p, d) PROVE Held'
  <2>1. d \in Deliveries /\ cur[p] = None
    BY <1>7 DEF ClaimRow, TakeRow, Heads, TypeOK, DrainTypeOK, OwnerInv
  <2>2. /\ state' = [state EXCEPT ![d] = "processing"]
        /\ cur' = [cur EXCEPT ![p] = d]
    BY <1>7 DEF ClaimRow, Claim
  <2>3. ASSUME NEW e \in Deliveries, state'[e] = "processing", e # d
        PROVE  \E q \in Drainers : cur'[q] = e
    <3>1. PICK q \in Drainers : cur[q] = e
      BY <1>t, <2>1, <2>2, <2>3
    <3>2. q # p
      BY <2>1, <3>1, StoreAssumption
    <3>3. QED
      BY <1>t, <2>2, <3>1, <3>2
  <2>4. QED
    BY <1>t, <2>1, <2>2, <2>3
<1>8. ASSUME NEW p \in Drainers, RecordSuccess(p) \/ RecordFailure(p) PROVE Held'
  <2>1. cur[p] \in Deliveries
    BY <1>8, ClaimedRow DEF RecordSuccess, RecordFailure
  <2>2. cur' = [cur EXCEPT ![p] = None]
    BY <1>8 DEF RecordSuccess, RecordFailure, Done
  <2>3. \A e \in Deliveries : state'[e] = "processing" => state[e] = "processing" /\ e # cur[p]
    BY <1>8, <1>t, <2>1 DEF RecordSuccess, Complete, RecordFailure, Fail
  <2>4. ASSUME NEW e \in Deliveries, state'[e] = "processing"
        PROVE  \E q \in Drainers : cur'[q] = e
    <3>1. PICK q \in Drainers : cur[q] = e
      BY <2>3, <2>4
    <3>2. q # p
      BY <2>3, <2>4, <3>1
    <3>3. QED
      BY <1>t, <2>2, <3>1, <3>2
  <2>5. QED
    BY <2>4
<1>9. CASE UNCHANGED vars
  BY <1>1, <1>9 DEF vars, storeVars, drainVars
<1>10. QED
  BY <1>2, <1>3, <1>4, <1>5, <1>6, <1>7, <1>8, <1>9 DEF Work

\* Opening, waking, closing and killing.
LEMMA LifeCalm ==
  ASSUME TypeOK, SessionTypeOK, OwnerInv, CalmInv, NEW r \in Routers,
         \/ Open(r) \/ SetWake(r) \/ WorkerStep(r) \/ CommandDrain(r) \/ Close(r)
         \/ Joined(r) \/ JoinTimesOut(r) \/ CloseStore(r) \/ Kill(r)
  PROVE  CalmInv'
<1>1. UNCHANGED <<state, cur, pc>> /\ (Held => Held')
  BY LifeIsOutbox DEF vars, storeVars, drainVars, Held
<1> USE <1>1, ThreadsDiffer DEF CalmInv, SessionTypeOK, Goto, lifeVars
<1>2. CASE Open(r)
  BY <1>2 DEF Open
<1>3. CASE SetWake(r)
  BY <1>3 DEF SetWake
<1>4. CASE LeaveWait(r)
  BY <1>4 DEF LeaveWait
<1>5. CASE Clear(r)
  BY <1>5 DEF Clear
<1>6. CASE CommandDrain(r)
  BY <1>6 DEF CommandDrain
<1>7. CASE Close(r)
  BY <1>7 DEF Close
<1>8. CASE Joined(r)
  BY <1>8 DEF Joined, BeginFlush
<1>9. CASE CloseStore(r)
  BY <1>9 DEF CloseStore
<1>10. CASE JoinTimesOut(r) \/ Kill(r)
  BY <1>10 DEF JoinTimesOut, Kill
<1>11. QED
  BY <1>2, <1>3, <1>4, <1>5, <1>6, <1>7, <1>8, <1>9, <1>10 DEF WorkerStep

\* Calls.
LEMMA CallsCalm ==
  ASSUME TypeOK, OwnerInv, CalmInv, NEW r \in Routers,
         \/ \E x \in Records : Accept(r, x) \/ ForgetHere(r, x)
         \/ \E scope \in {{x} : x \in Records} \cup {Records} : RetryHere(r, scope)
  PROVE  CalmInv'
<1>1. UNCHANGED <<pc, at, phase, calm>>
  BY DEF Accept, Submit, ForgetHere, Forget, RetryHere, Retry, Announce, lifeVars, drainVars
<1>2. Held => Held'
  BY HeldStep DEF Accept, ForgetHere, RetryHere
<1>3. QED
  BY <1>1, <1>2 DEF CalmInv

\* Drains.
LEMMA DrainCalm ==
  ASSUME TypeOK, SessionTypeOK, OwnerInv, CalmInv, NEW p \in Drainers,
         \/ DrainStep(p) \/ DrainLoses(p)
         \/ StoreRaises(p) \/ ReadRaises(p) \/ ClosedStoreRaises(p) \/ Die(p)
  PROVE  CalmInv'
<1> USE ThreadOf, ThreadsDiffer
        DEF CalmInv, TypeOK, DrainTypeOK, SessionTypeOK, Goto, AfterDrain, lifeVars, sessionVars
<1>1. CASE ReadRows(p)
  <2>1. Held => Held'
    BY <1>1, HeldStep DEF ReadRows, Work
  <2>2. QED
    BY <1>1, <2>1 DEF ReadRows, ReadDue, StoreOpen
<1>2. CASE ReadNothing(p)
  <2>1. Held => Held'
    BY <1>2, HeldStep DEF ReadNothing
  <2>2. QED
    BY <1>2, <2>1 DEF ReadNothing, StoreOpen, vars, drainVars
<1>3. CASE DrainStore(p)
  <2>1. Held => Held'
    BY <1>3, HeldStep DEF DrainStore, Work
  <2>2. UNCHANGED <<phase, at, calm>> /\ at[p] = "rows"
    BY <1>3 DEF DrainStore
  <2>3. \A q \in Drainers \ {p} : pc'[q] = pc[q]
    BY <1>3 DEF DrainStore, ClaimRow, SkipRow, RecordSuccess, RecordFailure, Done, Resume
  <2>4. QED
    BY <2>1, <2>2, <2>3
<1>4. CASE DrainCall(p) \/ DrainLoses(p)
  <2>1. Held => Held'
    BY <1>4, HeldStep DEF DrainCall, DrainLoses, Work
  <2>2. UNCHANGED <<phase, at, calm>> /\ at[p] = "rows"
    BY <1>4 DEF DrainCall, DrainLoses
  <2>3. \A q \in Drainers \ {p} : pc'[q] = pc[q]
    BY <1>4 DEF DrainCall, DrainLoses, RetainSucceeds, DeleteSucceeds, CallHopeless,
                CallFails, LoseReceipt, Answer
  <2>4. QED
    BY <2>1, <2>2, <2>3
<1>5. CASE EndDrain(p)
  <2>1. Held => Held'
    BY <1>5, HeldStep DEF EndDrain
  <2>2. QED
    BY <1>5, <2>1 DEF EndDrain, StoreOpen, vars, drainVars
<1>6. CASE StoreRaises(p) \/ ReadRaises(p) \/ ClosedStoreRaises(p)
  BY <1>6 DEF StoreRaises, ReadRaises, ClosedStoreRaises, Raised
<1>7. CASE Die(p)
  BY <1>7 DEF Die
<1>8. QED
  BY <1>1, <1>2, <1>3, <1>4, <1>5, <1>6, <1>7 DEF DrainStep

\* A close that waited for its worker leaves no row in 'processing', whichever routers
\* were open beside it and whatever their threads were doing.
THEOREM CleanClose == SessionSpec => []CleanCloseStrandsNothing
<1>1. SessionInit => CalmInv
  BY ThreadsDiffer DEF SessionInit, CalmInv, Held, Init, StoreInit
<1>2. TypeOK /\ SessionTypeOK /\ OwnerInv /\ CalmInv /\ [SessionNext]_rvars => CalmInv'
  <2> SUFFICES ASSUME TypeOK, SessionTypeOK, OwnerInv, CalmInv, [SessionNext]_rvars
               PROVE  CalmInv'
    OBVIOUS
  <2>1. ASSUME (\E d \in Deliveries : Elapses(d)) \/ UNCHANGED rvars PROVE CalmInv'
    <3>1. Held => Held'
      BY <2>1, HeldStep DEF Elapses, rvars
    <3>2. UNCHANGED <<pc, at, phase, calm>>
      BY <2>1 DEF Elapses, Elapse, drainVars, rvars, vars, sessionVars, lifeVars
    <3>3. QED
      BY <3>1, <3>2 DEF CalmInv
  <2>2. QED
    BY <2>1, LifeCalm, CallsCalm, DrainCalm DEF SessionNext
<1>3. TypeOK /\ SessionTypeOK /\ OwnerInv /\ CalmInv => CleanCloseStrandsNothing
  <2> SUFFICES ASSUME TypeOK, OwnerInv, CalmInv, calm,
                      \A r \in Routers : phase[r] \in {"new", "closed"},
                      NEW d \in Deliveries, state[d] = "processing"
               PROVE  FALSE
    BY DEF CleanCloseStrandsNothing, Counted
  <2>1. PICK p \in Drainers : cur[p] = d
    BY DEF CalmInv, Held
  <2>2. at[p] = "none"
    BY ThreadOf DEF CalmInv
  <2>3. pc[p] = "idle" /\ cur[p] # None
    BY <2>1, <2>2, StoreAssumption DEF CalmInv
  <2>4. QED
    BY <2>3 DEF OwnerInv
<1>4. SessionSpec => [](TypeOK /\ DeliveryInv)
  BY SessionImplementsOutbox, Delivery, PTL
<1>5. DeliveryInv => OwnerInv
  BY DEF DeliveryInv, RowsInv
<1>6. QED
  BY <1>1, <1>2, <1>3, <1>4, <1>5, SessionTypes, PTL DEF SessionSpec
=============================================================================
