# A TLA+ model of Chronalyn

Chronalyn is a memory provider for the Hermes agent.  It takes what the agent
wants remembered, keeps a logical record of it in an SQLite database, and
delivers it to one or two memory backends: Hindsight (an HTTP service) and,
in dual mode, Mnemosyne (a local library) for verified checkpoints.  Around
that core are the commands that install, configure, adopt and roll back the
provider in a Hermes home.

The modules here model three things: the **outbox** (what happens to a memory
between the moment it is accepted and the moment it is stored or erased
everywhere), the **life of a router** over it (who drains the outbox and when,
from opening the database to closing it), and the **lifecycle of a Hermes
home** (what the commands, the guided setup and the managed installation leave
behind when they succeed, fail, or are killed).

Source paths below are relative to `src/chronalyn/` of the repository.

## 1. The system

| component | state it keeps | operations | where it is hard | what makes it correct |
|---|---|---|---|---|
| durable store (`store.py`) | tables `records`, `deliveries`, `deletion_plans`, `schema_meta`, `audit` | create, due, claim, complete, fail, schedule delete, retry, plan and apply a deletion; open and bind | several connections on one file; each method is one transaction, what lies between two is not | one owner per running row; final rows stay final; a delete row for every copy of a forgotten record; one identity per database |
| router and worker (`router.py`) | a thread, two events, the snapshot a drain works from | record, drain, forget, retry, recall, status, close | worker, CLI commands and close drain at once; snapshots get stale; calls time out after their effect; the event is set and cleared by different threads | a live record is delivered in the end; a forgotten one is erased and never comes back; no wake-up is lost; a clean close strands no row |
| deletion tools (`tools.py`, `provider.py`) | tokens with an expiry | plan, apply | two agents, one token; the plan's reply is older than its use | nothing is forgotten without a fresh token of its own; a spent token has deleted what it named |
| adapters (`adapters/`) | the backends' copies | retain, delete, recall, reflect, health | upsert (Hindsight) or a new copy per call (Mnemosyne); delete may or may not be idempotent | a copy is known by its receipt |
| provider (`provider.py`) | one router per session | initialize, prefetch, sync turn, tools, shutdown | called from the host's threads; initialize twice | hands on to the router |
| recall, policies (`router.py`, `policy.py`) | none | primary first, checkpoint fallback | a failing primary | results are never merged |
| health (`health.py`) | none | summary of the delivery counts | looks at a moment only | no unhealthy state is called healthy |
| redaction (`redaction.py`) | none | sanitise text and metadata | patterns | no secret is stored |
| configuration (`config.py`, `compatibility.py`, `bootstrap.py`) | files under `$HERMES_HOME`, backups | load and upgrade, write, discover, back up, restore, activate | several files without a transaction; crash in the middle | a failed command leaves no trace; rollback restores the newest backup |
| commands (`cli.py`, `operations.py`) | none | init, install-plugin, uninstall-plugin, adopt, provider, upgrade-config, rollback, ... | the order of backup, writes and activation | success means Chronalyn alone is active |
| plugin entries (`plugin_entry.py`) | two directories with an ownership marker | install, uninstall | a directory of the same name made by the user | the user's files are not touched |
| guided setup (`setup_tui.py`) | one state object that screens overwrite | screens with Back, Escape, Revise, Quit; the apply task | going back changes what was confirmed | what is applied was acknowledged |
| managed Hindsight (`managed.py`) | a virtual environment, an env file, a launcher, a systemd unit, a daemon on a port | install, write settings, start, register, stop, uninstall | half-finished installations; a removal of which one step fails; unit and port shared by all homes | the unit names a complete installation, or is disabled; what is served was configured |

Interactions: the provider and the CLI call the router; the router reads and
writes the store and calls the adapters between two store transactions; the
store is the only channel between processes.  The commands and the guided
setup change files and call Hermes, pip and systemd as subprocesses; they and
the router meet only in `memory-router/config.json`.

## 2. The modules

```
RouterStore ── Outbox ──┬── DeletionPlans      HermesHome ── ConfigLifecycle
                  │     └── RouterSession
             MemoryLedger                                      │
        (abstract, by INSTANCE)                         LifecycleProofs

                                           SetupWizard      ManagedHindsight
                                                │                  │
                                          WizardProofs       ManagedProofs
   OutboxProofs ──┬── LedgerProofs
                  ├── PlansProofs     (with DeletionPlans)
                  └── SessionProofs   (with RouterSession)
```

**RouterStore** has one operator per method of the store that changes a table.
A delivery is named by its UNIQUE key, `<<record, backend, operation>>`.
Contents are reduced to identities: two submissions with one checksum are the
same record, and the second only reads.  `backoff[d]` says whether
`next_attempt_at` is in the future, `created` numbers the inserting
transactions (the code takes `time.time()` just before `BEGIN IMMEDIATE`; the
model takes the order of the transactions), and external ids are numbers.  The
follow-up delete that `complete` inserts for a record forgotten in the
meantime is part of `Complete`, as the cancellations are part of
`ScheduleDelete`.

**Outbox** adds the drainers and the backends.  One pass of `drain_outbox` is
`ReadDue` (a snapshot outside of any transaction), then for each row
`ClaimRow` or `SkipRow`, one backend call, and `RecordSuccess` or
`RecordFailure`; the drainer's local variables (`batch`, `seen`, `cur`,
`receipt`) are state because other drainers, a forget or a retry may act
between any two of these.  A drainer is any thread in `drain_outbox`.
`CallFails` is an error before the effect; `LoseReceipt` an error after it,
which also stands for `store.complete` raising after the call, and happens
only to the backends in the constant `Lossy`; `Abandon` ends a drain between
two of its steps.  The backends are external: `Upserts` says which of them
store under the record's own id, `StrictDelete` which answer a missing
document with an error (an assumption about Hindsight; the adapter raises on
it).

**MemoryLedger** is the abstract specification: per record and backend, a
memory is owed, stored, retracting, retracted, and "retracted" is never said
while a copy exists.  `Outbox!ImplementsLedger` is the refinement, for the
`Reliable` backends, those outside of `Lossy`.

**DeletionPlans** composes the outbox with the agent's two-step deletion.  A
plan is three database accesses (check, insert token, read the states for the
reply), and an apply takes the time before its transaction, so that expiry,
another apply, the operator's forget and deliveries interleave with both.

**RouterSession** composes the outbox with the life of its routers.  A router
is one result of `build_router`: the provider's, or that of one CLI command.
Each has two threads, its worker and the main thread of its command or of
`close`; these are Outbox's drainers, and `at` says where each of them is.

| RouterSession | code |
|---|---|
| `Open` | `build_router`, with `_bind`'s compare-and-insert in one transaction |
| `Accept`, `ForgetHere`, `RetryHere`, then `SetWake` | a call commits, and sets the event in a later step |
| `ReadRows`/`ReadNothing`, `DrainStore`, `DrainCall`, `EndDrain` | one `drain_outbox`: Outbox's steps, in the threads |
| `LeaveWait`, `Clear` | `wake.wait(timeout)` returns; `wake.clear()` and the test of `stop` |
| `ReadRaises`, `StoreRaises`, `ClosedStoreRaises` | a store statement raises where `drain_outbox` does not catch it: the worker logs and waits, the flush gives up |
| `Close`, `Joined`/`JoinTimesOut`, the flush, `CloseStore` | `close`: stop, wake, join with its ten seconds, at most `FlushRounds` drains while they process rows, `store.close` |
| `Kill`, `Die` | the process ends |

`announced` and `calm` are history variables: which rows a router's calls made
pending since its worker last read the table, and whether anything went wrong
so far.  `HealthOf` is `collect_health` for a router that reads the table now;
`HasCheckpoint` is what `status` passes on Mnemosyne, without which a router
reports `warning` at best (`health.py:52`).

**HermesHome** is the set of files the commands touch, the backup set and the
steps of an installation and a restore.  A file's content is who wrote it or
the value a command reads back (`config.yaml`: the provider list; the router's
config: its policy or the old schema).

**ConfigLifecycle** makes each command a sequence of these steps.  Every step
may raise: external commands, activation, the check of the entry directories,
and the reads and writes of files (`WriteFails`, `BackupFails`,
`RestoreFails`; `rmtree` ignores its errors, so what `RemoveTreeLeaves` cannot
delete just stays).  The exception is handled as that command handles it
(`Raise`): the guided setup restores from its backup whatever raised after it;
`apply_plan` (adopt, provider, upgrade-config) only when its activation
raised; init, install-plugin and uninstall-plugin have no backup and only
report.  A restore that raises, in a rollback or in the handler of a command,
ends as `unrestored`.  The process may die between any two steps; the user
edits by hand between commands.  A backup is unsealed until `backup.json` is
written, which the code does last.  A restore is two steps, `CopyBack` and
`UnlinkAbsent`, each of which changes one differing file at a time
(`RestoreOne`), in the order of `managed_backup_paths`, until none is left.
The homes Chronalyn may find are the constant `Homes`.

**SetupWizard** is the guided setup from its first menu to its apply task.
Screens call each other and return to their own caller, so the screens left to
run are a stack.  What the screens collect is one state that later screens
overwrite and nothing resets.

**ManagedHindsight** is the part of the apply task that makes a local
Hindsight, and its removal: virtual environment, pip, env file, start (or
whoever is found on the port), launcher, unit, enable, start of the unit.
`step[h]` is the next command of the setup or removal of home `h`.  Any of
them may fail or be the last before the process dies; then `step` is idle and
what was done stays.  A removal goes on over one failure only: an unlink of
the unit that raises after its disable (`UnlinkFails`).  An `rmtree` that
raises leaves any part of the directory (`RemovePart`).  Several homes share
one port and one unit name, and `Reboot`, `DaemonDies` and `ForeignListens`
are the environment.  Two history variables say what the state alone does not:
`leftover`, the homes that were removed beside a unit file that names them,
and `enabler`, whose setup enabled the unit last.

`*Proofs` hold the theorems; `MCOutbox`, `MCDeletionPlans`, `MCRouterSession`
and `MCConfigLifecycle` give TLC its constants.

## 3. What is checked

| run | instance | shows |
|---|---|---|
| `outbox_safety` | 1 record, 2 backends (Hindsight lossy and strict), 2 drainers, 2 faults, 1 death, `max_attempts` 2, batch of 2 | types, `SingleOwner`, the inductive invariant `DeliveryInv`, `ForgottenCopyIsTracked`, `ConfirmedMeansGone`, `FinalStaysFinal`, refinement of MemoryLedger |
| `outbox_liveness` | the same but Mnemosyne lossy, no death, no attempt limit, batch of 1, fair | `LiveIsDelivered` for both backends, `ForgottenIsErased` for the reliable one |
| `router_session` | 2 routers of different identities, 1 record, 1 lossy backend, 1 fault, 1 abandoned drain, 2 flush rounds, fair | `NoLostWakeup`, `OneIdentity`, `CleanCloseStrandsNothing`, `SettlesHealthy` |
| `deletion_plans` | 2 records, 1 backend, 2 agents, 2 tokens, 1 drainer, the operator | `SpentTokenDeletes`, `ForgetIsAuthorized`, `PlansInv` |
| `config_lifecycle` | 4 kinds of home (fresh, direct Hindsight, old schema, Hermes' clone), 2 changes, 2 rollbacks, 1 hand edit, 1 crash, 1 error of a file operation, any number of failing commands and activations, in any order | `FailureLeavesNoTrace`, `BackupIsPreChange`, `RollbackRestores`, `ActivatedAlone`, `ForeignEntriesSurvive` |
| `setup_wizard` | 4 kinds of detected connection | `AppliedAsAcknowledged`, `RemoteIsAcknowledged` |
| `managed_hindsight` | 2 homes, 3 settings files written | `UnitIsComplete`, `ServesWrittenSettings` |
| `orphan_copy`, `stranded_failure`, `stuck_processing`, `rerun_refused`, `stale_acknowledgement` | as above | a statement of the documents or comments that the code does not keep; section 5 |

**Bounds.**  One record is enough for the outbox's own properties, since rows
of different records meet only in the batch and its order; with two backends
there are four rows, and a batch of one (liveness runs) makes the order and
the limit matter.  `deletion_plans` has two records because a token of one
must not delete the other.  Two drainers give every race over a row; a third
would find it in `processing` like the second.  Two faults let both a write
and its retry fail, `max_attempts` 2 lets a row die, and `AttemptCap` 4 is
above what two faults can reach while attempts matter (the counter stays at
its cap, it does not block).  `deletion_plans` has no faults: they are in the
outbox runs, and its steps do not look at them.

`router_session` has one backend, whose write and delete are the two rows that
threads meet in, so that a whole life of a router fits; its two routers
already are four threads.  They have different identities because that is
where opening can be refused; only one of them is then ever open, and the race
over rows is the one between its worker and its flush.  Routers that share an
identity, and so drain together, are in `stuck_processing` and, for every
number of them, in the theorems; `SettlesHealthy` is checked only for one open
router at a time, since two of one identity take millions of states, and for
routers without Mnemosyne, whose best state is `warning`, since four rows do
too.  `stuck_processing` has both backends: only there can a router report
`healthy`.  One fault is one failed or lost call and one abandoned drain one
store error, kill or late worker; two flush rounds tell the last round from
the others (the code has five), and one caller at a time is enough to lie
between its commit and its `wake.set`, since the event is set to TRUE by any
of them.  `StrictDelete` is empty there: if the server answers 404 to a
repeated delete, that row fails for ever, and `SettlesHealthy` would only say
so.

Two changes of `config_lifecycle` give a change on the result of another, two
rollbacks a rollback after one that crashed; the crash and the error can hit
any step of any of them, a restore after a failure included.  In
`rerun_refused` nothing raises: the refusal it shows needs no error.  Two
homes are enough for one to overwrite the unit of the other, and three
settings files for each to be set up and one of them again.  The theorems of
section 4 need none of these bounds on records, backends, drainers, routers,
homes, tokens, commands, edits and crashes.

**Deadlock** is not checked: with the bounded faults and everything delivered
the outbox has nothing to do, routers are used once, and the bounded commands
end.

**Fairness.**  Outbox's `FairSpec` asks that a drainer that can take a step
takes one and that back-off times pass: the worker loop runs `drain_outbox`
for as long as its process lives and catches every exception, every backend
call has a timeout, and time passes.  `FairSessionSpec` asks the same of the
threads one by one: a worker in its wait comes out of it (the wait has a
timeout), goes through its loop, and a thread in a drain goes on.  Opening,
calling, closing, killing, failing and `wake.set` after a commit are not fair:
nobody has to do them, and `SettlesHealthy` holds for a caller that dies
before it sets the event.  The outbox's liveness run has no
drainer death (a dead one leaves its row stuck, see `stuck_processing`), no
attempt limit (a dead row waits for an operator), and routers configured with
every backend; `SettlesHealthy` says itself which histories it is about.

## 4. What is proved

All theorems are about the specifications as they are, for any records,
backends, drainers, agents, tokens, routers, identities and homes, any batch
size and any bounds that satisfy the named assumptions on the constants
(`StoreAssumption`, `OutboxAssumption`, `PlansAssumption`,
`SessionAssumption`, `ManagedAssumption`, `LifecycleAssumption`, which says
that a home holds no file outside of a directory, and `DetectedAssumption`).

- `Delivery`, `TypeCorrect`, `Ownership`, `FinalRows` (OutboxProofs): the
  inductive invariant is `TypeOK /\ DeliveryInv`.  Ownership alone is not
  inductive: that a row is not taken from under a call needs that a drainer
  has a claimed row exactly in the call stages (`OwnerInv`) and how the two
  rows of a record and backend depend on each other (`RowInv`: a delete row
  exists only behind a complete retain of a deleted record, with its id).
  `FinalRows` needs it because `complete` and `fail` update unconditionally:
  only ownership says that the row they update was still `processing`.
- `NoOrphans`, `ConfirmedForgets`: for a reliable backend the invariant also
  says which copies exist for which states (`CopyInv`) and what a drainer in a
  call knows of its copy (`CallInv`); both together are inductive, whatever
  the lossy backends beside it do.
- `OutboxImplementsLedger` (LedgerProofs): every step of the outbox is a step
  of MemoryLedger or a stutter.
- `PlansImplementOutbox`, `PlansCorrect`, `TokensPay`, `ForgetsAreAuthorized`
  (PlansProofs): with the tools every step is one of the outbox or a stutter,
  so its invariant carries over; a spent token's deletes exist because what a
  reply lists was `complete` when read and a complete row never changes.
- `SessionImplementsOutbox`, `SessionDelivery` (SessionProofs): every step of
  the routers' life is a step of the outbox or leaves its variables alone, so
  what the outbox guarantees holds in every session.
- `Wakeups`: `NoLostWakeup` speaks of a waiting worker.  Inductive is
  `WakeInv`: from the moment the worker has read the table until it has left
  its wait, a row announced meanwhile has its caller before `wake.set` or the
  event set.  That `clear` comes after the wait and before the next read is
  what makes it so.
- `Identity`: `OneIdentity`, with the fact that an unbound database holds no
  record (`IdentityInv`); a record is only written through an open router.
- `CleanClose`: `CalmInv` says, for histories without a store error, late
  worker or kill, that every row in `processing` has a thread working on it,
  that a thread outside of its rows holds none, and where the threads of a
  router in each phase of its life can be.
- `SessionTypes` is the type invariant these three rest on.
- `CompleteUnit`, `WrittenSettings`, `ManagedTypes` (ManagedProofs): the
  inductive invariant `ManagedInv` says for each step of a setup or removal
  what its home has by then; the unit and the port follow from it across
  homes because a removal takes the directory away only after the unit, or is
  in `leftover`.  That a unit left over is not enabled by its own home needs
  `LeftoverInv`, and that a setup about to enable has written the unit again.

- `FailuresLeaveNoTrace`, `BackupsArePreChange`, `RollbacksRestore`,
  `ActivatesAlone`, `ForeignEntriesKept`, `LifecycleTypes` (LifecycleProofs),
  from any home and for any number of commands, edits, crashes and errors.  Most
  of them look at the end of a command, where the steps are gone; the
  inductive invariant `LifecycleInv` therefore speaks of the steps still to
  come.  Until the backup is sealed, the seal is among them, only steps that
  leave its scope alone come before it, and that scope is as the command found
  it (`UnsealedInv`); from then on the newest backup is that state and no
  other backup follows (`SealedInv`).  Where the check of the plugin
  directories can raise outside of a `try`, it is the first step and nothing
  has happened (`CheckInv`).  A restore is at its copies, or at its unlinks
  with the copies done, or over with every file back (`RestoreInv`).
  Activation and the write of the policy are to come or have been done
  (`ActivateInv`), and no step into a directory without the marker comes
  before the check of it (`ForeignInv`).  Where a write can raise outside of a
  `try`, the command has changed nothing yet that it answers for
  (`PolicyInv`), and a failing write of the policy leaves the old file.  The
  lemmas on sequences of steps (`SealingPrepend`, `SealingAppend`,
  `GuardedConcat`, ...) give these facts for each command from the parts it is
  put together from, and one lemma per step keeps them.
- `Acknowledges`, `TellsRemote`, `WizardTypes` (WizardProofs), for whatever
  connections are detected: `WizardInv` says that the stack of screens either
  leads through choices to the acknowledgements and from there to the review
  and the apply task, or is past the acknowledgements, and then every
  statement is ticked for the endpoint chosen (`StackInv`); and that, unless
  Back was used on them, a ticked fourth statement was read for the endpoint
  chosen (`ToldInv`).

Every safety property that a passing run checks is stated by a theorem.  Only
model-checked: the liveness properties, `LiveIsDelivered`,
`ForgottenIsErased` and `SettlesHealthy` (fairness and ENABLED are out of the
prover's reach).

## 5. Where the code and its words differ

- `orphan_copy`: a write that stored its copy and then timed out is cancelled
  by a forget, without a delete, and the forget is reported as finished.
- `stranded_failure`: a write that was running when its record was forgotten,
  and then fails, stays in `failed`; nothing selects, retries or cancels it.
- `stuck_processing`: a drain that is cut short between its claim and its
  result leaves the row in `processing`, which nothing selects, and
  `collect_health` reports `healthy` for a router with both backends (`warning`
  without Mnemosyne, as it does with no work left).
- `rerun_refused`: restoring a backup leaves the emptied plugin directories;
  the next installation refuses them as foreign.
- `stale_acknowledgement`: Back on the acknowledgements keeps the ticks for an
  endpoint chosen afterwards.

Noticed while modelling and not given a run:

- `adopt` installs its plugin entries before its backup (`cli.py:326`), so a
  rollback keeps them, while `docs/rollback.md:40-42` says entries created
  during an unwanted activation are removed; it refuses the legacy provider id
  (`cli.py:299`), while `docs/migration.md:63-75` says to run it.
- A rollback that is killed between its copies and its unlinks can leave the
  user's plugin files in a directory that still carries Chronalyn's marker;
  the next `uninstall-plugin` or installation then takes them for its own,
  although `plugin_entry.py:30-32` says an unrelated user plugin is never
  clobbered (TLC finds it for three changes, two edits and a crash).  Running
  the rollback again repairs it (`RollbackRestores`), and
  `ForeignEntriesSurvive` therefore speaks of the directory as the command
  found it.
- Attempts are compared from the drain's snapshot (`router.py:345`): with two
  drainers a row gets more than `max_attempts`.
- Forgotten content that is written again is answered as a duplicate and never
  delivered (`store.py:208`).
- Reusing a detected managed connection (`setup_tui.py:991`), and Back from
  the Hindsight menu after a managed choice, go on in managed mode without the
  inputs it needs.
- A virtual environment whose pip failed is taken for an installed one
  (`managed.py:234`), until someone deletes it.
- The best-effort `except` of `uninstall_hindsight` (`managed.py:484`) cannot
  catch the `ConfigurationError` that `run_command` raises, and removing one
  home unlinks the unit of another (`managed.py:479`).  It does catch the
  `OSError` of the unlink (`managed.py:483`) and removes the directory all the
  same: a unit file stays that names a removed home.  It is disabled;
  `UnitIsComplete` says that only the setup of another home, between its own
  unit's write and its enable, can enable it, and `Startable` that systemd
  does not start it.  Neither
  `uninstall_hindsight` nor `stop_hindsight` has a caller.
- The setup starts the daemon itself before it registers the unit, so the
  unit's own start finds the port taken; that daemon is not under systemd
  until the next boot, while `docs/managed-hindsight.md` says the service
  restarts on failure.
- `install-plugin` and `adopt` write their entries with no backup and no `try`
  around them (`plugin_entry.py:151-157`): an `OSError` after the first file is
  reported as a failure and leaves half of an installation, or, when the marker
  itself could not be written, a directory that the next installation refuses
  as foreign.  `FailureLeavesNoTrace` therefore leaves the entries of these two
  commands out (`Unprotected`); for them it says that the configuration is as
  before, and every file if a directory of the user's was among the targets.
  The comment at `plugin_entry.py:145` promises no more: a *refusal* cannot
  leave a half-installed pair.
- `apply_plan` writes the policy between its backup and its `try`
  (`operations.py:202`); its one file is replaced as a whole, so an error
  there leaves nothing to undo.
- `uninstall-plugin` reports an entry as removed also when `rmtree` left some
  of it (`ignore_errors`).
- A setup that fails after the managed part restores the configuration and
  leaves the managed service registered and running.
- `initialize` called twice keeps the first router's worker alive
  (`provider.py:96`); the outbox does not mind (`SessionDelivery`).

## 6. What is not modelled, and why

- Audit events, log lines, wording and layout: no property is about them.
- Text processing (redaction, recall formatting) and recall itself: functions
  that change no state.
- Migrating an old database schema, the database's own backup and its restore,
  the integrity check. A database an older version left without a binding is
  not modelled: `OneIdentity` starts from a new one.
- `routing.start_worker = false`: such a router is one whose worker takes no
  step, which the safety properties allow and the fairness excludes.
- The shell installers.
- Health calls to the backends: they can only make a state worse.
- Two commands at once on one home's configuration: the commands take no lock
  and nothing in the documents promises anything for that case.
- Refusals before a command's first step: they change nothing.
- How far a single write or copy got.  A file whose write in place raises is as
  before or has its new writer's content, cut short or not; one copy of a
  restore is done or not; a kill falls between two writes, not into one.  The
  env file, the launcher and the unit, opened with `O_TRUNC` and then written
  (`managed.py:215`, `:375`, `:431`), are one step each.  A `backup.json` cut
  short counts as missing, and the temporary file that a failed `write_config`
  leaves is not a file of the model.
- Backup directories have names made of time stamps, assumed to increase.
- What Hermes, pip, systemd and the backends do inside.

## 7. Plan

1. Recall with its fallback and the policies' routing, as operators over the
   backends' copies: what recall returns of a forgotten record and when.
2. Composing the guided setup's choices with the apply task of
   ConfigLifecycle and with ManagedHindsight, and the embedding dimensions a
   wizard keeps.
