---------------------------- MODULE DeletionPlans ----------------------------
(***************************************************************************)
(* Two-step deletion by the model's tools: memory_router_forget_plan and   *)
(* memory_router_forget_apply (src/chronalyn/provider.py, router.py) over  *)
(* the deletion_plans table (src/chronalyn/store.py), composed with the    *)
(* delivery of Outbox.  The agents of several sessions plan and apply      *)
(* concurrently, next to the operator's forget and to the drainers.        *)
(*                                                                         *)
(* A plan is three accesses to the database: the record is read, the token *)
(* is inserted, and the delivery states are read for the reply.  An apply  *)
(* takes the time first and then consumes the token and schedules the      *)
(* deletes in one transaction.                                             *)
(***************************************************************************)
EXTENDS Outbox

CONSTANTS
  Agents,  \* sessions whose model may call the two tools
  Tokens   \* bound: the tokens that may be issued

ASSUME PlansAssumption == None \notin Tokens /\ None \notin Records

VARIABLES
  plan,      \* deletion_plans: no row, not used yet, used
  planFor,   \* deletion_plans.record_id
  fresh,     \* deletion_plans.expires_at lies in the future
  listed,    \* the backends the reply to the plan named
  step,      \* where each agent's tool call is
  asked,     \* the record the call is about
  token,     \* the token the call returns or presents
  inTime     \* whether the token was fresh when the apply looked at the clock

tokenVars == <<plan, planFor, fresh, listed>>
agentVars == <<step, asked, token, inTime>>
planVars  == <<tokenVars, agentVars>>

PlansTypeOK ==
  /\ plan \in [Tokens -> {"none", "open", "used"}]
  /\ planFor \in [Tokens -> Records \cup {None}]
  /\ fresh \in [Tokens -> BOOLEAN]
  /\ listed \in [Tokens -> SUBSET Backends]
  /\ step \in [Agents -> {"idle", "checked", "inserted", "applying"}]
  /\ asked \in [Agents -> Records \cup {None}]
  /\ token \in [Agents -> Tokens \cup {None}]
  /\ inTime \in [Agents -> BOOLEAN]

PlansInit ==
  /\ Init
  /\ plan = [t \in Tokens |-> "none"]
  /\ planFor = [t \in Tokens |-> None]
  /\ fresh = [t \in Tokens |-> FALSE]
  /\ listed = [t \in Tokens |-> {}]
  /\ step = [a \in Agents |-> "idle"]
  /\ asked = [a \in Agents |-> None]
  /\ token = [a \in Agents |-> None]
  /\ inTime = [a \in Agents |-> FALSE]

\* create_deletion_plan refuses a missing or deleted record ...
CheckPlan(a, r) ==
  /\ step[a] = "idle"
  /\ record[r] = "live"
  /\ step' = [step EXCEPT ![a] = "checked"]
  /\ asked' = [asked EXCEPT ![a] = r]
  /\ UNCHANGED <<vars, tokenVars, token, inTime>>

\* ... and inserts the token outside of any transaction with that check.
InsertPlan(a, t) ==
  /\ step[a] = "checked"
  /\ plan[t] = "none"
  /\ plan' = [plan EXCEPT ![t] = "open"]
  /\ planFor' = [planFor EXCEPT ![t] = asked[a]]
  /\ fresh' = [fresh EXCEPT ![t] = TRUE]
  /\ token' = [token EXCEPT ![a] = t]
  /\ step' = [step EXCEPT ![a] = "inserted"]
  /\ UNCHANGED <<vars, listed, asked, inTime>>

\* The end of a tool call: the agent's variables are free again.
Return(a) ==
  /\ step' = [step EXCEPT ![a] = "idle"]
  /\ asked' = [asked EXCEPT ![a] = None]
  /\ token' = [token EXCEPT ![a] = None]
  /\ inTime' = [inTime EXCEPT ![a] = FALSE]

\* Mutant of ReplyPlan: every backend the record was routed to is named.
ReplyPlanListsAll(a) ==
  /\ step[a] = "inserted"
  /\ listed' = [listed EXCEPT ![token[a]] =
                  {b \in Backends : state[Retain(asked[a], b)] # "absent"}]
  /\ Return(a)
  /\ UNCHANGED <<vars, plan, planFor, fresh>>

\* plan_forget names the backends whose retain has completed by now.
ReplyPlan(a) ==
  /\ step[a] = "inserted"
  /\ listed' = [listed EXCEPT ![token[a]] =
                  {b \in Backends : state[Retain(asked[a], b)] = "complete"}]
  /\ Return(a)
  /\ UNCHANGED <<vars, plan, planFor, fresh>>

Expire(t) ==
  /\ fresh[t]
  /\ fresh' = [fresh EXCEPT ![t] = FALSE]
  /\ UNCHANGED <<vars, plan, planFor, listed, agentVars>>

\* An agent may present any token that was handed out, for any record.
HandedOut(t) == plan[t] # "none" /\ \A a \in Agents : step[a] = "inserted" => token[a] # t

\* apply_deletion_plan takes the time before it has the write lock.
BeginApply(a, t, r) ==
  /\ step[a] = "idle"
  /\ HandedOut(t)
  /\ step' = [step EXCEPT ![a] = "applying"]
  /\ asked' = [asked EXCEPT ![a] = r]
  /\ token' = [token EXCEPT ![a] = t]
  /\ inTime' = [inTime EXCEPT ![a] = fresh[t]]
  /\ UNCHANGED <<vars, tokenVars>>

Valid(a) ==
  /\ plan[token[a]] = "open"
  /\ planFor[token[a]] = asked[a]
  /\ inTime[a]

\* Mutants of CommitApply: the token's record is not compared; the token is consumed in a
\* transaction of its own, as consume_deletion_plan does.
CommitApplyAnyRecord(a) ==
  /\ step[a] = "applying"
  /\ plan[token[a]] = "open" /\ inTime[a]
  /\ plan' = [plan EXCEPT ![token[a]] = "used"]
  /\ Forget(asked[a])
  /\ Return(a)
  /\ UNCHANGED <<planFor, fresh, listed>>
CommitApplyConsumesOnly(a) ==
  /\ step[a] = "applying"
  /\ Valid(a)
  /\ plan' = [plan EXCEPT ![token[a]] = "used"]
  /\ Return(a)
  /\ UNCHANGED <<vars, planFor, fresh, listed>>

CommitApply(a) ==
  /\ step[a] = "applying"
  /\ Valid(a)
  /\ plan' = [plan EXCEPT ![token[a]] = "used"]
  /\ Forget(asked[a])
  /\ Return(a)
  /\ UNCHANGED <<planFor, fresh, listed>>

\* The transaction is rolled back: unknown, used or expired token, or another record's.
RefuseApply(a) ==
  /\ step[a] = "applying"
  /\ ~Valid(a)
  /\ Return(a)
  /\ UNCHANGED <<vars, tokenVars>>

PlansNext ==
  \/ Next /\ UNCHANGED planVars
  \/ \E a \in Agents :
       \/ \E r \in Records : CheckPlan(a, r)
       \/ \E t \in Tokens : InsertPlan(a, t)
       \/ ReplyPlan(a)
       \/ \E t \in Tokens, r \in Records : BeginApply(a, t, r)
       \/ CommitApply(a)
       \/ RefuseApply(a)
  \/ \E t \in Tokens : Expire(t)

PlansSpec == PlansInit /\ [][PlansNext]_<<vars, planVars>>

-----------------------------------------------------------------------------
(* Properties.                                                             *)

\* A record is only forgotten by the operator, or by an apply that presents, in time, an
\* unused token planned for this very record -- and that spends it in the same step.
ForgetIsAuthorized ==
  [][\A r \in Records : record[r] = "live" /\ record'[r] = "deleted" =>
       \/ UNCHANGED planVars
       \/ \E a \in Agents :
            /\ step[a] = "applying" /\ inTime[a]
            /\ planFor[token[a]] = r
            /\ plan[token[a]] = "open" /\ plan'[token[a]] = "used"]_<<vars, planVars>>

\* A token is spent together with the deletes it paid for: once it is used, its record is
\* deleted and every copy the plan's reply named has its delete on the list, although the
\* reply was read before, and from another state than, the apply.
SpentTokenDeletes ==
  \A t \in Tokens : plan[t] = "used" =>
    /\ record[planFor[t]] = "deleted"
    /\ \A b \in listed[t] : state[Delete(planFor[t], b)] # "absent"
\* What SpentTokenDeletes rests on.  A call that works on a record knows it; a token whose
\* reply is still being read belongs to that call alone; a listed copy was confirmed.
CallsOK ==
  \A a \in Agents :
    /\ step[a] # "idle" => asked[a] \in Records
    /\ step[a] \in {"inserted", "applying"} => token[a] \in Tokens
    /\ step[a] = "applying" => plan[token[a]] # "none"
    /\ step[a] = "inserted" => plan[token[a]] = "open" /\ planFor[token[a]] = asked[a]

RepliesApart ==
  \A a \in Agents : step[a] = "inserted" =>
    \A c \in Agents \ {a} : step[c] \in {"inserted", "applying"} => token[c] # token[a]

ListedOK ==
  \A t \in Tokens :
    /\ plan[t] # "none" => planFor[t] \in Records
    /\ plan[t] = "none" => listed[t] = {}
    /\ \A b \in listed[t] : state[Retain(planFor[t], b)] = "complete"

PlansInv == PlansTypeOK /\ CallsOK /\ RepliesApart /\ ListedOK /\ SpentTokenDeletes
=============================================================================
