----------------------------- MODULE PlansProofs -----------------------------
(***************************************************************************)
(* Two-step deletion refines the outbox, and a spent token has paid for    *)
(* the deletes its plan named.                                             *)
(***************************************************************************)
EXTENDS DeletionPlans, OutboxProofs

PlansStep == [PlansNext]_<<vars, planVars>>

-----------------------------------------------------------------------------
(* The agents' calls.                                                      *)

LEMMA PlansTypeStep == PlansTypeOK /\ CallsOK /\ PlansStep => PlansTypeOK'
<1> SUFFICES ASSUME PlansTypeOK, CallsOK, PlansStep PROVE PlansTypeOK'
  OBVIOUS
<1> USE DEF PlansTypeOK
<1>1. ASSUME NEW a \in Agents, NEW r \in Records, CheckPlan(a, r) PROVE PlansTypeOK'
  BY <1>1 DEF CheckPlan, tokenVars
<1>2. ASSUME NEW a \in Agents, NEW t \in Tokens, InsertPlan(a, t) PROVE PlansTypeOK'
  BY <1>2 DEF InsertPlan
<1>3. ASSUME NEW a \in Agents, ReplyPlan(a) PROVE PlansTypeOK'
  BY <1>3 DEF ReplyPlan, Return
<1>4. ASSUME NEW t \in Tokens, Expire(t) PROVE PlansTypeOK'
  BY <1>4 DEF Expire, agentVars
<1>5. ASSUME NEW a \in Agents, NEW t \in Tokens, NEW r \in Records, BeginApply(a, t, r)
      PROVE  PlansTypeOK'
  BY <1>5 DEF BeginApply, tokenVars
<1>6. ASSUME NEW a \in Agents, CommitApply(a) PROVE PlansTypeOK'
  BY <1>6 DEF CommitApply, Return
<1>7. ASSUME NEW a \in Agents, RefuseApply(a) PROVE PlansTypeOK'
  BY <1>7 DEF RefuseApply, Return, tokenVars
<1>8. CASE UNCHANGED planVars
  BY <1>8 DEF planVars, tokenVars, agentVars
<1> QED
  BY <1>1, <1>2, <1>3, <1>4, <1>5, <1>6, <1>7, <1>8 DEF PlansStep, PlansNext

\* A call keeps to its record and its token, and no one else has the token before the
\* reply is sent.
LEMMA CallsStep ==
  PlansTypeOK /\ CallsOK /\ RepliesApart /\ PlansStep => CallsOK' /\ RepliesApart'
<1> SUFFICES ASSUME PlansTypeOK, CallsOK, RepliesApart, PlansStep
             PROVE  CallsOK' /\ RepliesApart'
  OBVIOUS
<1> USE DEF PlansTypeOK, CallsOK, RepliesApart
<1>1. ASSUME NEW a \in Agents, NEW r \in Records, CheckPlan(a, r)
      PROVE  CallsOK' /\ RepliesApart'
  BY <1>1 DEF CheckPlan, tokenVars
<1>2. ASSUME NEW a \in Agents, NEW t \in Tokens, InsertPlan(a, t)
      PROVE  CallsOK' /\ RepliesApart'
  <2>1. \A c \in Agents \ {a} : step[c] \in {"inserted", "applying"} => token[c] # t
    BY <1>2 DEF InsertPlan
  <2>2. step' = [step EXCEPT ![a] = "inserted"] /\ token' = [token EXCEPT ![a] = t]
        /\ asked' = asked /\ step[a] = "checked"
    BY <1>2 DEF InsertPlan
  <2>3. plan' = [plan EXCEPT ![t] = "open"] /\ planFor' = [planFor EXCEPT ![t] = asked[a]]
    BY <1>2 DEF InsertPlan
  <2>4. CallsOK'
    BY <2>1, <2>2, <2>3
  <2>5. RepliesApart'
    BY <2>1, <2>2
  <2> QED
    BY <2>4, <2>5
<1>3. ASSUME NEW a \in Agents, ReplyPlan(a) PROVE CallsOK' /\ RepliesApart'
  BY <1>3 DEF ReplyPlan, Return
<1>4. ASSUME NEW t \in Tokens, Expire(t) PROVE CallsOK' /\ RepliesApart'
  BY <1>4 DEF Expire, agentVars
<1>5. ASSUME NEW a \in Agents, NEW t \in Tokens, NEW r \in Records, BeginApply(a, t, r)
      PROVE  CallsOK' /\ RepliesApart'
  BY <1>5 DEF BeginApply, tokenVars, HandedOut
<1>6. ASSUME NEW a \in Agents, CommitApply(a) PROVE CallsOK' /\ RepliesApart'
  BY <1>6 DEF CommitApply, Return
<1>7. ASSUME NEW a \in Agents, RefuseApply(a) PROVE CallsOK' /\ RepliesApart'
  BY <1>7 DEF RefuseApply, Return, tokenVars
<1>8. CASE UNCHANGED planVars
  BY <1>8 DEF planVars, tokenVars, agentVars
<1> QED
  BY <1>1, <1>2, <1>3, <1>4, <1>5, <1>6, <1>7, <1>8 DEF PlansStep, PlansNext

\* A tool call is a step of the outbox (a forget) or leaves it alone.
LEMMA ToolsRefine == CallsOK /\ PlansStep => [Next]_vars
<1> SUFFICES ASSUME CallsOK, PlansStep PROVE [Next]_vars
  OBVIOUS
<1>1. ASSUME NEW a \in Agents, CommitApply(a) PROVE Next
  <2>1. asked[a] \in Records /\ Forget(asked[a])
    BY <1>1 DEF CommitApply, CallsOK
  <2> QED
    BY <2>1 DEF Next
<1> QED
  BY <1>1 DEF PlansStep, PlansNext, CheckPlan, InsertPlan, ReplyPlan, Expire, BeginApply, RefuseApply

-----------------------------------------------------------------------------
(* What a token pays for.                                                  *)

\* No step of the outbox revives a record or removes a delete row.
LEMMA ForgottenStays ==
  ASSUME TypeOK, DeliveryInv, [Next]_vars, NEW r \in Records, NEW b \in Backends
  PROVE  /\ record[r] = "deleted" => record'[r] = "deleted"
         /\ state[Delete(r, b)] # "absent" => state'[Delete(r, b)] # "absent"
         /\ state[Retain(r, b)] = "complete" => state'[Retain(r, b)] = "complete"
<1> DEFINE del == Delete(r, b)
<1>k. del \in Deliveries /\ Retain(r, b) \in Deliveries /\ OpOf(del) = "delete"
  BY KeyPair
<1>t. record \in [Records -> RecordStates] /\ state \in [Deliveries -> DeliveryStates]
  BY DEF TypeOK, StoreTypeOK
<1>r. TypeOK' /\ RowOK(r, b)'
  BY InvStep DEF DeliveryInv, RowsInv, RowInv
<1>1. state[Retain(r, b)] = "complete" => state'[Retain(r, b)] = "complete"
  BY <1>k, FinalStep
<1>2. record[r] = "deleted" => record'[r] = "deleted"
  BY <1>t DEF Next, Submit, CreateRecord, Forget, ScheduleDelete, Retry, RetryFailed, Elapse,
     BackoffElapses, Work, ReadDue, ClaimRow, Claim, SkipRow, RetainSucceeds, DeleteSucceeds,
     CallHopeless, CallFails, LoseReceipt, Answer, RecordSuccess, Complete, RecordFailure, Fail,
     Abandon, vars, storeVars
<1>3. ASSUME state[del] # "absent" PROVE state'[del] # "absent"
  <2>1. record[r] = "deleted" /\ state[Retain(r, b)] = "complete"
    BY <1>3 DEF DeliveryInv, RowsInv, RowInv, RowOK
  <2> QED
    BY <1>r, <1>1, <1>2, <2>1 DEF RowOK
<1> QED
  BY <1>1, <1>2, <1>3

LEMMA ListedStep ==
  ASSUME TypeOK, DeliveryInv, PlansInv, PlansStep
  PROVE  ListedOK' /\ SpentTokenDeletes'
<1>n. [Next]_vars
  BY ToolsRefine DEF PlansInv
<1>i. \A r \in Records, b \in Backends : RowOK(r, b)'
  BY <1>n, InvStep DEF DeliveryInv, RowsInv, RowInv
<1>p. CallsOK /\ RepliesApart /\ ListedOK /\ SpentTokenDeletes
  BY DEF PlansInv
<1>y. PlansTypeOK
  BY DEF PlansInv
<1> USE <1>y DEF PlansTypeOK
<1>f. ASSUME NEW t \in Tokens, plan[t] # "none", planFor'[t] = planFor[t], listed'[t] = listed[t]
      PROVE  /\ \A b \in listed'[t] : state'[Retain(planFor'[t], b)] = "complete"
             /\ plan[t] = "used" => /\ record'[planFor'[t]] = "deleted"
                                    /\ \A b \in listed'[t] : state'[Delete(planFor'[t], b)] # "absent"
  <2>1. /\ planFor[t] \in Records /\ listed[t] \subseteq Backends
        /\ \A b \in listed[t] : state[Retain(planFor[t], b)] = "complete"
        /\ plan[t] = "used" => /\ record[planFor[t]] = "deleted"
                               /\ \A b \in listed[t] : state[Delete(planFor[t], b)] # "absent"
    BY <1>p, <1>f DEF ListedOK, SpentTokenDeletes
  <2>2. \A r \in Records : record[r] = "deleted" => record'[r] = "deleted"
    <3>1. ASSUME NEW r \in Records, record[r] = "deleted" PROVE record'[r] = "deleted"
      BY <1>n, <3>1, OutboxAssumption, ForgottenStays
    <3> QED
      BY <3>1
  <2>3. ASSUME NEW b \in listed[t]
        PROVE  /\ state'[Retain(planFor[t], b)] = "complete"
               /\ plan[t] = "used" => state'[Delete(planFor[t], b)] # "absent"
    BY <1>n, <2>1, <2>3, ForgottenStays
  <2> QED
    BY <1>f, <2>1, <2>2, <2>3
<1>1. ASSUME NEW a \in Agents, NEW u \in Tokens, InsertPlan(a, u)
      PROVE  ListedOK' /\ SpentTokenDeletes'
  <2>1. asked[a] \in Records /\ listed[u] = {} /\ plan[u] = "none"
    BY <1>1, <1>p DEF InsertPlan, CallsOK, ListedOK
  <2> QED
    BY <1>1, <1>p, <1>f, <2>1 DEF InsertPlan, ListedOK, SpentTokenDeletes
<1>2. ASSUME NEW a \in Agents, ReplyPlan(a) PROVE ListedOK' /\ SpentTokenDeletes'
  <2>1. /\ token[a] \in Tokens /\ plan[token[a]] = "open" /\ planFor[token[a]] = asked[a]
        /\ asked[a] \in Records
    BY <1>2, <1>p DEF ReplyPlan, CallsOK
  <2>2. UNCHANGED <<vars, plan, planFor>>
    BY <1>2 DEF ReplyPlan
  <2>3. UNCHANGED <<state, record>>
    BY <2>2 DEF vars, storeVars
  <2>4. listed' = [listed EXCEPT ![token[a]] =
                     {b \in Backends : state[Retain(asked[a], b)] = "complete"}]
    BY <1>2 DEF ReplyPlan
  <2>5. \A t \in Tokens \ {token[a]} : listed'[t] = listed[t]
    BY <2>4
  <2>6. \A b \in listed'[token[a]] : state'[Retain(planFor'[token[a]], b)] = "complete"
    BY <2>1, <2>2, <2>3, <2>4
  <2>7. ListedOK'
    BY <1>p, <1>f, <2>1, <2>2, <2>5, <2>6 DEF ListedOK
  <2>8. SpentTokenDeletes'
    BY <1>p, <1>f, <2>1, <2>2, <2>5 DEF SpentTokenDeletes
  <2> QED
    BY <2>7, <2>8
<1>3. ASSUME NEW a \in Agents, CommitApply(a) PROVE ListedOK' /\ SpentTokenDeletes'
  <2>1. /\ token[a] \in Tokens /\ plan[token[a]] = "open" /\ planFor[token[a]] = asked[a]
        /\ asked[a] \in Records /\ plan' = [plan EXCEPT ![token[a]] = "used"]
        /\ UNCHANGED <<planFor, listed>>
    BY <1>3, <1>p DEF CommitApply, Valid, CallsOK
  <2>2. record'[asked[a]] = "deleted"
    BY <1>3, <2>1 DEF CommitApply, Forget, ScheduleDelete, TypeOK, StoreTypeOK
  <2>3. ASSUME NEW b \in listed[token[a]] PROVE state'[Delete(asked[a], b)] # "absent"
    <3>1. b \in Backends /\ state'[Retain(asked[a], b)] = "complete"
      BY <1>f, <2>1, <2>3
    <3> QED
      BY <1>i, <2>1, <2>2, <3>1 DEF RowOK
  <2>4. ListedOK'
    BY <1>p, <1>f, <2>1 DEF ListedOK
  <2>5. SpentTokenDeletes'
    BY <1>p, <1>f, <2>1, <2>2, <2>3 DEF SpentTokenDeletes
  <2> QED
    BY <2>4, <2>5
<1>4. ASSUME UNCHANGED <<plan, planFor, listed>> PROVE ListedOK' /\ SpentTokenDeletes'
  BY <1>4, <1>p, <1>f DEF ListedOK, SpentTokenDeletes
<1> QED
  BY <1>1, <1>2, <1>3, <1>4
  DEF PlansStep, PlansNext, CheckPlan, Expire, BeginApply, RefuseApply, planVars, tokenVars

-----------------------------------------------------------------------------
(* The theorems.                                                           *)

PlansIInv == TypeOK /\ DeliveryInv /\ PlansInv

LEMMA PlansInitInv == PlansInit => PlansIInv
<1> SUFFICES ASSUME PlansInit PROVE PlansIInv
  OBVIOUS
<1>1. TypeOK /\ DeliveryInv
  BY InvInit DEF PlansInit
<1> QED
  BY <1>1
  DEF PlansInit, PlansIInv, PlansTypeOK, PlansInv, CallsOK, RepliesApart, ListedOK, SpentTokenDeletes

LEMMA PlansInvStep == PlansIInv /\ PlansStep => PlansIInv'
<1> SUFFICES ASSUME PlansIInv, PlansStep PROVE PlansIInv'
  OBVIOUS
<1>1. TypeOK' /\ DeliveryInv'
  BY ToolsRefine, InvStep DEF PlansIInv, PlansInv
<1>2. PlansTypeOK' /\ CallsOK' /\ RepliesApart'
  BY PlansTypeStep, CallsStep DEF PlansIInv, PlansInv
<1>3. ListedOK' /\ SpentTokenDeletes'
  BY ListedStep DEF PlansIInv
<1> QED
  BY <1>1, <1>2, <1>3 DEF PlansIInv, PlansInv

LEMMA PlansReachable == PlansSpec => []PlansIInv
<1>1. PlansIInv /\ [PlansNext]_<<vars, planVars>> => PlansIInv'
  BY PlansInvStep DEF PlansStep
<1> QED
  BY <1>1, PlansInitInv, PTL DEF PlansSpec

\* The tables of the store, the deletion plans and the agents' calls stay consistent,
\* whatever plans, applies, forgets and deliveries interleave.
THEOREM PlansCorrect == PlansSpec => [](DeliveryInv /\ PlansInv)
<1>1. PlansIInv => DeliveryInv /\ PlansInv
  BY DEF PlansIInv
<1> QED
  BY <1>1, PlansReachable, PTL

\* store.apply_deletion_plan consumes and schedules in one transaction: a token that is
\* spent has deleted its record, and every copy named to the user has a delete row.
THEOREM TokensPay == PlansSpec => []SpentTokenDeletes
<1>1. PlansIInv => SpentTokenDeletes
  BY DEF PlansIInv, PlansInv
<1> QED
  BY <1>1, PlansReachable, PTL

\* Every behaviour with the two tools is a behaviour of the outbox, so all that is proved
\* of Outbox holds with them.
THEOREM PlansImplementOutbox == PlansSpec => Spec
<1>1. PlansInit => Init
  BY DEF PlansInit
<1>2. PlansIInv /\ [PlansNext]_<<vars, planVars>> => [Next]_vars
  BY ToolsRefine DEF PlansIInv, PlansInv, PlansStep
<1> QED
  BY <1>1, <1>2, PlansReachable, PTL DEF PlansSpec, Spec

\* A record is forgotten by the operator, or by spending, in time, an unused token that
\* was planned for this very record.
THEOREM ForgetsAreAuthorized == PlansSpec => ForgetIsAuthorized
<1> DEFINE Authorized ==
      \A r \in Records : record[r] = "live" /\ record'[r] = "deleted" =>
        \/ UNCHANGED planVars
        \/ \E a \in Agents :
             /\ step[a] = "applying" /\ inTime[a]
             /\ planFor[token[a]] = r
             /\ plan[token[a]] = "open" /\ plan'[token[a]] = "used"
<1>1. PlansIInv /\ [PlansNext]_<<vars, planVars>> => [Authorized]_<<vars, planVars>>
  <2> SUFFICES ASSUME PlansIInv, PlansNext, NEW r \in Records,
                      record[r] = "live", record'[r] = "deleted", ~UNCHANGED planVars
               PROVE  \E a \in Agents :
                        /\ step[a] = "applying" /\ inTime[a]
                        /\ planFor[token[a]] = r
                        /\ plan[token[a]] = "open" /\ plan'[token[a]] = "used"
    OBVIOUS
  <2>1. ~UNCHANGED vars
    BY DEF vars, storeVars
  <2>2. PICK a \in Agents : CommitApply(a)
    BY <2>1 DEF PlansNext, CheckPlan, InsertPlan, ReplyPlan, BeginApply, RefuseApply, Expire
  <2>3. token[a] \in Tokens /\ plan'[token[a]] = "used"
    BY <2>2 DEF CommitApply, PlansIInv, PlansInv, CallsOK, PlansTypeOK
  <2>4. asked[a] = r
    BY <2>2 DEF CommitApply, Forget, ScheduleDelete, PlansIInv, TypeOK, StoreTypeOK
  <2> QED
    BY <2>2, <2>3, <2>4 DEF CommitApply, Valid
<1> QED
  BY <1>1, PlansReachable, PTL DEF PlansSpec, ForgetIsAuthorized
=============================================================================
