----------------------------- MODULE RouterSession -----------------------------
(***************************************************************************)
(* The life of a MemoryRouter: opening the database and binding it to an   *)
(* identity (factory.py, store.py), the worker loop with its wake and stop *)
(* events, the callers that commit and then wake it, and close with its    *)
(* bounded join and flush (router.py), over the drainers of Outbox.        *)
(*                                                                         *)
(* A router is one result of build_router: the provider makes one in       *)
(* initialize and closes it in shutdown, every CLI command makes its own.  *)
(* Any router may do what either does: write, forget, retry and drain.     *)
(* Routers of one process and of several look alike, since they meet only  *)
(* in the database; an initialize without a shutdown before it is a second *)
(* open router.                                                            *)
(***************************************************************************)
EXTENDS Outbox

CONSTANTS
  Routers,     \* results of build_router, each used once
  IdentityOf,  \* namespace, environment and profile of each router's configuration
  FlushRounds, \* how many drains close(flush=True) makes at most: 5
  MaxCallers   \* bound: calls of one router between their commit and wake.set

Worker(r) == <<r, "worker">>
Main(r)   == <<r, "main">>

Identities == {IdentityOf[r] : r \in Routers}

ASSUME SessionAssumption ==
  /\ Drainers = Routers \X {"worker", "main"}
  /\ DOMAIN IdentityOf = Routers
  /\ None \notin Identities
  /\ FlushRounds \in Nat \ {0}
  /\ MaxCallers \in Nat \ {0}

VARIABLES
  phase,     \* where each router is in its life
  at,        \* where each of its threads is: the worker in its loop, main in a drain
  stop,      \* router._stop
  wake,      \* router._wake
  owing,     \* calls that have committed and not yet called wake.set
  announced, \* history: rows made pending by calls since the worker last turned to the table
  round,     \* drains the flush may still begin
  did,       \* whether the running drain of main processed a row
  binding,   \* the identity in schema_meta
  owner,     \* the namespace and environment columns of each record
  calm       \* history: no store error, late worker or kill so far

lifeVars == <<phase, stop, round, did>>
wakeVars == <<wake, owing, announced>>
bindVars == <<binding, owner>>
sessionVars == <<lifeVars, at, wakeVars, bindVars, calm>>
rvars == <<vars, sessionVars>>

Phases  == {"new", "open", "join", "flush", "closed", "killed"}
Spots  == {"none", "read", "rows", "wait", "clear"}

SessionTypeOK ==
  /\ phase \in [Routers -> Phases]
  /\ at \in [Drainers -> Spots]
  /\ stop \in [Routers -> BOOLEAN]
  /\ wake \in [Routers -> BOOLEAN]
  /\ owing \in [Routers -> 0..MaxCallers]
  /\ announced \in [Routers -> SUBSET Deliveries]
  /\ round \in [Routers -> 0..FlushRounds]
  /\ did \in [Routers -> BOOLEAN]
  /\ binding \in Identities \cup {None}
  /\ owner \in [Records -> Identities \cup {None}]
  /\ calm \in BOOLEAN

SessionInit ==
  /\ Init
  /\ phase = [r \in Routers |-> "new"]
  /\ at = [p \in Drainers |-> "none"]
  /\ stop = [r \in Routers |-> FALSE]
  /\ wake = [r \in Routers |-> FALSE]
  /\ owing = [r \in Routers |-> 0]
  /\ announced = [r \in Routers |-> {}]
  /\ round = [r \in Routers |-> 0]
  /\ did = [r \in Routers |-> FALSE]
  /\ binding = None
  /\ owner = [x \in Records |-> None]
  /\ calm = TRUE

RouterOf(p) == p[1]

\* Between store.__init__ and store.close.
StoreOpen(r) == phase[r] \in {"open", "join", "flush"}

Goto(p, place) == at' = [at EXCEPT ![p] = place]

-----------------------------------------------------------------------------
(* Opening: build_router.                                                  *)

\* Mutant of Open: the binding is written when there is none and not compared.
OpenAnyway(r) ==
  /\ phase[r] = "new"
  /\ binding' = IF binding = None THEN IdentityOf[r] ELSE binding
  /\ phase' = [phase EXCEPT ![r] = "open"]
  /\ Goto(Worker(r), "read")
  /\ UNCHANGED <<vars, stop, round, did, wakeVars, owner, calm>>

\* _bind compares and inserts in one immediate transaction; a database bound to another
\* identity refuses the router, which leaves nothing behind.
Open(r) ==
  /\ phase[r] = "new"
  /\ binding \in {None, IdentityOf[r]}
  /\ binding' = IdentityOf[r]
  /\ phase' = [phase EXCEPT ![r] = "open"]
  /\ Goto(Worker(r), "read")
  /\ UNCHANGED <<vars, stop, round, did, wakeVars, owner, calm>>

-----------------------------------------------------------------------------
(* Callers: sync_turn, the tools and the commands, in threads of the host. *)
(* The commit and the wake.set after it are two steps.                     *)

Announced(r) ==
  announced' = [announced EXCEPT ![r] =
                  @ \cup {d \in Deliveries : state[d] # "pending" /\ state'[d] = "pending"}]

\* Mutant of Announce: the event was set before the commit, and is not set after it.
AnnounceEarly(r) ==
  /\ StoreOpen(r)
  /\ Announced(r)
  /\ UNCHANGED <<lifeVars, at, wake, owing, binding, calm>>

Announce(r) ==
  /\ StoreOpen(r)
  /\ owing[r] < MaxCallers
  /\ owing' = [owing EXCEPT ![r] = @ + 1]
  /\ Announced(r)
  /\ UNCHANGED <<lifeVars, at, wake, binding, calm>>

\* _record: the record carries the router's namespace and environment.
Accept(r, x) ==
  /\ Submit(x)
  /\ owner' = [owner EXCEPT ![x] = IdentityOf[r]]
  /\ Announce(r)

\* apply_forget, forget_cli.
ForgetHere(r, x) == Forget(x) /\ Announce(r) /\ UNCHANGED owner

\* retry wakes the worker only when it changed a row.
RetryHere(r, scope) == Retry(scope) /\ Announce(r) /\ UNCHANGED owner

SetWake(r) ==
  /\ StoreOpen(r)
  /\ owing[r] > 0
  /\ owing' = [owing EXCEPT ![r] = @ - 1]
  /\ wake' = [wake EXCEPT ![r] = TRUE]
  /\ UNCHANGED <<vars, lifeVars, at, announced, bindVars, calm>>

-----------------------------------------------------------------------------
(* The worker loop.                                                        *)

\* Mutant of LeaveWait: the wait has no timeout.
LeaveWaitWhenWoken(r) ==
  /\ at[Worker(r)] = "wait"
  /\ wake[r]
  /\ Goto(Worker(r), "clear")
  /\ UNCHANGED <<vars, lifeVars, wakeVars, bindVars, calm>>

\* wake.wait returns when the event is set and at the latest after its timeout.
LeaveWait(r) ==
  /\ at[Worker(r)] = "wait"
  /\ Goto(Worker(r), "clear")
  /\ UNCHANGED <<vars, lifeVars, wakeVars, bindVars, calm>>

\* wake.clear, and the test of stop that begins the next round.
Clear(r) ==
  /\ at[Worker(r)] = "clear"
  /\ wake' = [wake EXCEPT ![r] = FALSE]
  /\ Goto(Worker(r), IF stop[r] THEN "none" ELSE "read")
  /\ UNCHANGED <<vars, lifeVars, owing, announced, bindVars, calm>>

-----------------------------------------------------------------------------
(* drain_outbox, by the worker or by the main thread.                      *)

\* Where the thread goes after a drain that processed rows or did not: the worker to
\* its wait; main out of the command's drain, or to the next round of the flush.
AfterDrain(p, processed) ==
  LET r == RouterOf(p)
      again == p = Main(r) /\ phase[r] = "flush" /\ processed /\ round[r] > 1
  IN /\ Goto(p, IF p = Worker(r) THEN "wait" ELSE IF again THEN "read" ELSE "none")
     /\ round' = [round EXCEPT ![r] = IF again THEN @ - 1 ELSE @]

Looked(p) ==
  announced' = IF p = Worker(RouterOf(p)) THEN [announced EXCEPT ![RouterOf(p)] = {}]
               ELSE announced

ReadRows(p) ==
  /\ at[p] = "read"
  /\ StoreOpen(RouterOf(p))
  /\ ReadDue(p)
  /\ Looked(p)
  /\ Goto(p, "rows")
  /\ did' = [did EXCEPT ![RouterOf(p)] = IF p = Main(RouterOf(p)) THEN FALSE ELSE @]
  /\ UNCHANGED <<phase, stop, round, wake, owing, bindVars, calm>>

ReadNothing(p) ==
  /\ at[p] = "read"
  /\ StoreOpen(RouterOf(p))
  /\ Due = {}
  /\ Looked(p)
  /\ AfterDrain(p, FALSE)
  /\ UNCHANGED <<vars, phase, stop, did, wake, owing, bindVars, calm>>

\* Store transactions of the loop over the rows.
DrainStore(p) ==
  /\ at[p] = "rows"
  /\ StoreOpen(RouterOf(p))
  /\ \/ /\ \E d \in Heads(p) : ClaimRow(p, d)
        /\ did' = [did EXCEPT ![RouterOf(p)] = @ \/ p = Main(RouterOf(p))]
     \/ /\ (\E d \in Heads(p) : SkipRow(p, d)) \/ RecordSuccess(p) \/ RecordFailure(p)
        /\ UNCHANGED did
  /\ UNCHANGED <<phase, stop, round, at, wakeVars, bindVars, calm>>

\* Backend calls, which go on after the store is closed under them.
DrainCall(p) ==
  /\ at[p] = "rows"
  /\ \/ RetainSucceeds(p) \/ DeleteSucceeds(p) \/ CallHopeless(p) \/ CallFails(p)
  /\ UNCHANGED sessionVars

DrainLoses(p) ==
  /\ at[p] = "rows"
  /\ LoseReceipt(p)
  /\ UNCHANGED sessionVars

EndDrain(p) ==
  /\ at[p] = "rows"
  /\ pc[p] = "idle"
  /\ AfterDrain(p, did[RouterOf(p)])
  /\ UNCHANGED <<vars, phase, stop, did, wakeVars, bindVars, calm>>

\* A statement raises where drain_outbox does not catch it: reading, claiming, or
\* recording the failure of the call.  The worker logs it and waits; main gives up.
Raised(p) ==
  /\ AfterDrain(p, FALSE)
  /\ calm' = FALSE
  /\ UNCHANGED <<phase, stop, did, wake, owing, bindVars>>

ReadRaises(p) ==
  /\ at[p] = "read"
  /\ StoreOpen(RouterOf(p))
  /\ Raised(p)
  /\ Looked(p)
  /\ UNCHANGED vars

BetweenCalls(p) == at[p] = "rows" /\ pc[p] \in {"batch", "ok", "err"}

StoreRaises(p) ==
  /\ BetweenCalls(p)
  /\ StoreOpen(RouterOf(p))
  /\ Abandon(p)
  /\ Raised(p)
  /\ UNCHANGED announced

\* The worker outlived the join, and its connection is closed.
ClosedStoreRaises(p) ==
  /\ BetweenCalls(p)
  /\ phase[RouterOf(p)] = "closed"
  /\ Abandon(p)
  /\ Raised(p)
  /\ UNCHANGED announced

-----------------------------------------------------------------------------
(* The main thread: the drain of a command, and close.                     *)

\* drain, retry and forget drain in the command's own thread.
CommandDrain(r) ==
  /\ phase[r] = "open"
  /\ at[Main(r)] = "none"
  /\ Goto(Main(r), "read")
  /\ UNCHANGED <<vars, lifeVars, wakeVars, bindVars, calm>>

Close(r) ==
  /\ phase[r] = "open"
  /\ at[Main(r)] = "none"
  /\ phase' = [phase EXCEPT ![r] = "join"]
  /\ stop' = [stop EXCEPT ![r] = TRUE]
  /\ wake' = [wake EXCEPT ![r] = TRUE]
  /\ UNCHANGED <<vars, round, did, at, owing, announced, bindVars, calm>>

\* Mutant of BeginFlush: one drain too many.
BeginFlushOnceMore(r) ==
  /\ phase[r] = "join"
  /\ phase' = [phase EXCEPT ![r] = "flush"]
  /\ Goto(Main(r), "read")
  /\ round' = [round EXCEPT ![r] = FlushRounds + 1]
  /\ UNCHANGED <<vars, stop, did, wakeVars, bindVars>>

\* After the join: the flush, which status and doctor leave out.
BeginFlush(r) ==
  /\ phase[r] = "join"
  /\ phase' = [phase EXCEPT ![r] = "flush"]
  /\ \/ Goto(Main(r), "read") /\ round' = [round EXCEPT ![r] = FlushRounds]
     \/ UNCHANGED <<at, round>>
  /\ UNCHANGED <<vars, stop, did, wakeVars, bindVars>>

\* Mutant of Joined: close does not wait for the worker.
NotJoined(r) == BeginFlush(r) /\ UNCHANGED calm

Joined(r) ==
  /\ at[Worker(r)] = "none"
  /\ BeginFlush(r)
  /\ UNCHANGED calm

\* Ten seconds have passed: the worker is in a call, or in a row of its batch.
JoinTimesOut(r) ==
  /\ at[Worker(r)] = "rows"
  /\ BeginFlush(r)
  /\ calm' = FALSE

CloseStore(r) ==
  /\ phase[r] = "flush"
  /\ at[Main(r)] = "none"
  /\ phase' = [phase EXCEPT ![r] = "closed"]
  /\ owing' = [owing EXCEPT ![r] = 0]
  /\ announced' = [announced EXCEPT ![r] = {}]
  /\ UNCHANGED <<vars, stop, round, did, at, wake, bindVars, calm>>

\* The process dies, and with it what its threads held in memory.
Kill(r) ==
  /\ StoreOpen(r)
  /\ phase' = [phase EXCEPT ![r] = "killed"]
  /\ at' = [at EXCEPT ![Worker(r)] = "none", ![Main(r)] = "none"]
  /\ stop' = [stop EXCEPT ![r] = FALSE]
  /\ wake' = [wake EXCEPT ![r] = FALSE]
  /\ owing' = [owing EXCEPT ![r] = 0]
  /\ announced' = [announced EXCEPT ![r] = {}]
  /\ round' = [round EXCEPT ![r] = 0]
  /\ did' = [did EXCEPT ![r] = FALSE]
  /\ calm' = FALSE
  /\ UNCHANGED <<vars, bindVars>>

Die(p) ==
  /\ phase[RouterOf(p)] = "killed"
  /\ Abandon(p)
  /\ UNCHANGED sessionVars

-----------------------------------------------------------------------------

Elapses(d) == Elapse(d) /\ UNCHANGED sessionVars

WorkerStep(r) == LeaveWait(r) \/ Clear(r)

DrainStep(p) ==
  ReadRows(p) \/ ReadNothing(p) \/ DrainStore(p) \/ DrainCall(p) \/ EndDrain(p)

SessionNext ==
  \/ \E r \in Routers :
       \/ Open(r)
       \/ \E x \in Records : Accept(r, x) \/ ForgetHere(r, x)
       \/ \E scope \in {{x} : x \in Records} \cup {Records} : RetryHere(r, scope)
       \/ SetWake(r) \/ WorkerStep(r)
       \/ CommandDrain(r) \/ Close(r) \/ Joined(r) \/ JoinTimesOut(r) \/ CloseStore(r)
       \/ Kill(r)
  \/ \E p \in Drainers :
       \/ DrainStep(p) \/ DrainLoses(p)
       \/ StoreRaises(p) \/ ReadRaises(p) \/ ClosedStoreRaises(p) \/ Die(p)
  \/ \E d \in Deliveries : Elapses(d)

SessionSpec == SessionInit /\ [][SessionNext]_rvars

\* Threads that can run do, waits time out, calls return, and time passes.
SessionFairness ==
  /\ \A r \in Routers : WF_rvars(WorkerStep(r))
  /\ \A p \in Drainers : WF_rvars(DrainStep(p))
  /\ \A d \in Deliveries : WF_rvars(Elapses(d))

FairSessionSpec == SessionSpec /\ SessionFairness

-----------------------------------------------------------------------------
(* Health: collect_health for a router that reads the table now.           *)

Counted(s) == {d \in Deliveries : state[d] = s}

\* Mnemosyne is enabled: its absence alone is a warning to collect_health.
HasCheckpoint(r) == Configured[Main(r)] \ {Primary} # {}

HealthOf(r) ==
  IF binding # IdentityOf[r] THEN "unsafe"
  ELSE IF Counted("failed") # {} \/ Counted("dead") # {} \/ at[Worker(r)] = "none"
       THEN "degraded"
  ELSE IF Counted("pending") # {} \/ ~HasCheckpoint(r) THEN "warning"
  ELSE "healthy"

-----------------------------------------------------------------------------
(* Properties.                                                             *)

\* A worker never sleeps through a wake-up: while it waits with the event unset and no
\* call on the way to setting it, every row its router's calls made pending has been
\* there when the worker turned to the table.
NoLostWakeup ==
  \A r \in Routers :
    /\ phase[r] = "open" /\ at[Worker(r)] = "wait"
    /\ ~wake[r] /\ owing[r] = 0
    => announced[r] = {}

\* One database holds the records of one identity, however many processes with
\* different configurations try to open it, at once or one after the other.
OneIdentity ==
  /\ \A r \in Routers : StoreOpen(r) => IdentityOf[r] = binding
  /\ \A x \in Records : record[x] # "absent" => owner[x] = binding

\* Once every router was closed without a timeout of its join, a store error or a kill,
\* no row is left in 'processing', whatever was running when close was called.
CleanCloseStrandsNothing ==
  calm /\ (\A r \in Routers : phase[r] \in {"new", "closed"}) =>
    Counted("processing") = {}

\* Retains that were running when their record was forgotten, and then failed.
Stranded == {d \in Deliveries : /\ OpOf(d) = "retain"
                                /\ state[d] \in Waiting
                                /\ record[RecordOf(d)] = "deleted"}

Unfinished == Deliveries \ (Counted("absent") \cup Counted("complete") \cup Counted("cancelled"))

\* A router that stays open and meets no store error finishes every row once the calls
\* succeed, whatever its worker slept through, and then reports the best state it can:
\* healthy, or the warning of a router without Mnemosyne.  The retains no drain selects
\* again are all that may be left.
SettlesHealthy ==
  \A r \in Routers :
    <>[](phase[r] = "open") /\ []calm =>
      <>[](/\ Unfinished \subseteq Stranded
           /\ Unfinished = {} =>
                HealthOf(r) = IF HasCheckpoint(r) THEN "healthy" ELSE "warning")

\* docs/operations.md: "healthy: Required components are healthy and no work is
\* incomplete" -- when an open router reports healthy and nobody is working on a row,
\* every row is final.
HealthyMeansNoWorkLeft ==
  \A r \in Routers :
    phase[r] = "open" /\ HealthOf(r) = "healthy" /\ (\A p \in Drainers : cur[p] = None) =>
      Unfinished = {}
=============================================================================
