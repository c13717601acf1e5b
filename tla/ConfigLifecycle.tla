---------------------------- MODULE ConfigLifecycle ----------------------------
(***************************************************************************)
(* The commands that change a Hermes home: init, save_config,              *)
(* install-plugin, uninstall-plugin, adopt, provider add and remove,       *)
(* upgrade-config, the guided setup's apply task, and rollback.  One       *)
(* command runs at a time, step by step.  Every step that writes, copies,  *)
(* deletes or calls another program can raise; only some of them do so in  *)
(* a try that restores the backup.  A process can die between two steps.   *)
(***************************************************************************)
EXTENDS HermesHome, SequencesExt

CONSTANTS Homes,         \* the homes Chronalyn may find
          MaxChanges,    \* commands started, other than rollback
          MaxRollbacks,
          MaxEdits,      \* edits the user makes by hand
          MaxCrashes,    \* processes killed in the middle of a command
          MaxErrors      \* reads and writes of files that raise
Bound == [changes |-> MaxChanges, rollbacks |-> MaxRollbacks,
          edits |-> MaxEdits, crashes |-> MaxCrashes, errors |-> MaxErrors]

\* A file is in a directory; what a home holds otherwise is the user's affair.
ASSUME LifecycleAssumption ==
  /\ \A k \in DOMAIN Bound : Bound[k] \in Nat
  /\ Homes \subseteq Home
  /\ \A h \in Homes, id \in ProviderIds :
       (\E p \in Entry(id) : h[p] # Absent) => h[Dir(id)] = "present"

VARIABLES files,     \* the home
          backups,   \* memory-router/backups, oldest first
          cmd,       \* the running command: its name and the steps left
          outcome,   \* the last command that ended, and how
          start,     \* ghost: the home when the command began
          used       \* ghost: what of Bound is used up
vars == <<files, backups, cmd, outcome, start, used>>

\* Their files are restored when they raise; the others that back up, only
\* when the activation does (operations.py:203).
InOneTry == {"setup", "native setup"}
BackingUp == InOneTry \cup {"adopt", "provider", "upgrade-config"}
Ops == BackingUp \cup {"init", "install-plugin", "uninstall-plugin", "rollback"}
Idle == [op |-> "none", todo |-> <<>>, sealed |-> FALSE, failing |-> FALSE]

\* "unrestored": a restore that raised on the way, in a rollback or in the
\* except clause of a command.
Results == {"none", "ok", "failed", "unrestored", "crashed"}
Pending == [op |-> "none", result |-> "none"]

Snapshot(h) == [p \in Paths |-> h[p]]

TypeOK ==
  /\ files \in Home /\ start \in Home
  /\ backups \in Seq([sealed : BOOLEAN, snap : Snapshots])
  /\ cmd \in [op : Ops \cup {"none"}, todo : Seq(Steps), sealed : BOOLEAN, failing : BOOLEAN]
  /\ outcome \in [op : Ops \cup {"none"}, result : Results]
  /\ used \in [DOMAIN Bound -> Nat] /\ \A k \in DOMAIN Bound : used[k] <= Bound[k]

Init ==
  /\ files \in Homes /\ start = files
  /\ backups = <<>> /\ cmd = Idle /\ outcome = Pending
  /\ used = [k \in DOMAIN Bound |-> 0]

\* Mutant: the backups in the wrong order.
Oldest == Head(backups)
\* latest_backup: the newest directory, complete or not.
Latest == Last(backups)

(***************************************************************************)
(* Commands.  A command whose checks fail before its first step changes    *)
(* nothing and is not modelled, except where the refusal is of interest.   *)
(***************************************************************************)
Use(k) == used[k] < Bound[k] /\ used' = [used EXCEPT ![k] = @ + 1]
Begin(op, todo) ==
  /\ cmd = Idle /\ Use(IF op = "rollback" THEN "rollbacks" ELSE "changes")
  /\ cmd' = [Idle EXCEPT !.op = op, !.todo = todo]
  /\ start' = files /\ outcome' = Pending
  /\ UNCHANGED <<files, backups>>

\* Mutants: the backup comes last; the policy goes to the wrong file.
ApplyPlanLateBackup(policy, activate) ==
  <<WriteConfig(policy)>> \o Backup \o (IF activate THEN <<Activate>> ELSE <<>>)
ApplyPlanWrongFile(policy, activate) ==
  Backup \o <<Put(Yaml, policy)>> \o (IF activate THEN <<Activate>> ELSE <<>>)

\* apply_plan: back up, write, and for adoption activate; its activation is in a try.
ApplyPlan(policy, activate) ==
  Backup \o <<WriteConfig(policy)>> \o (IF activate THEN <<Activate>> ELSE <<>>)

\* init: refused when a config exists, unless forced; save_config never is.
InitConfig(policy, force) ==
  /\ files[Router] = Absent \/ force
  /\ Begin("init", <<WriteConfig(policy)>>)

InstallPlugin == Begin("install-plugin", InstallPluginEntries)

UninstallPlugin ==
  LET Removal(id) == IF id \in InstalledEntries(files) THEN <<RemoveEntry(id)>> ELSE <<>>
  IN Begin("uninstall-plugin", Removal(Canonical) \o Removal(Legacy))

Adopt(policy) ==
  /\ ~Conflicts(files) /\ files[Yaml] \in {Absent, "hindsight", Canonical}
  /\ Begin("adopt", InstallPluginEntries \o ApplyPlan(policy, TRUE))

\* provider add and remove: the policy changes, nothing is activated.
Provider(policy) ==
  /\ files[Router] # Absent /\ ~Conflicts(files)
  /\ Begin("provider", ApplyPlan(policy, FALSE))

\* load_config upgrades the old schema in memory; the command persists that.
UpgradeConfig ==
  /\ files[Router] # Absent
  /\ Begin("upgrade-config",
           ApplyPlan(LoadConfig(files), FALSE))

\* The guided setup's apply task: everything after the backup is in its try.
Setup(policy, secrets) ==
  Begin("setup",
    Backup \o <<InstallRouter>> \o InstallPluginEntries
      \o <<InstallDependencies, WriteHindsightProfile>>
      \o (IF secrets THEN <<WriteSecretEnv>> ELSE <<>>)
      \o <<WriteConfig(policy), VerifyRouter, Activate, LinkCommand>>)
\* From inside Hermes the plugin directory is Hermes' clone, and stays as it is.
NativeSetup(policy, secrets) ==
  /\ files[Dir(Canonical)] # Absent /\ files[Marker(Canonical)] = Absent
  /\ Begin("native setup",
       Backup \o <<InstallDependencies, WriteHindsightProfile>>
         \o (IF secrets THEN <<WriteSecretEnv>> ELSE <<>>)
         \o <<WriteConfig(policy), VerifyRouter, Activate>>)

\* rollback_latest: a refusal if the newest directory has no manifest.
Rollback ==
  /\ backups # <<>>
  /\ Begin("rollback", RestoreBackup)
  /\ Latest.sealed
RollbackInvalid ==
  /\ backups # <<>> /\ ~Latest.sealed
  /\ cmd = Idle /\ Use("rollbacks")
  /\ outcome' = [op |-> "rollback", result |-> "failed"] /\ start' = files
  /\ UNCHANGED <<files, backups, cmd>>

(***************************************************************************)
(* Steps of the running command.                                           *)
(***************************************************************************)
At(kind) == cmd.todo # <<>> /\ Head(cmd.todo).kind = kind
Advance == cmd' = [cmd EXCEPT !.todo = Tail(@)] /\ outcome' = outcome
Stop(result) == cmd' = Idle /\ outcome' = [op |-> cmd.op, result |-> result]

\* The try of apply_plan is around the activation, that of the guided setup
\* around everything after its backup.
InTry == cmd.sealed /\ (cmd.op \in InOneTry \/ At("activate"))

\* An exception: restored from the backup inside the try, raised outside it.
Raise ==
  IF InTry
  THEN /\ cmd' = [cmd EXCEPT !.todo = RestoreBackup, !.failing = TRUE]
       /\ outcome' = outcome
  ELSE Stop("failed")

PutFile ==
  /\ At("put")
  /\ files' = [files EXCEPT ![Head(cmd.todo).at] = Head(cmd.todo).value]
  /\ Advance /\ UNCHANGED <<backups, start, used>>

\* An OSError in a write.  write_config replaces the file as a whole; the
\* other files are opened for writing first, and may be left cut short.
WriteFails ==
  /\ At("put") /\ Use("errors")
  /\ LET at == Head(cmd.todo).at
     IN \/ files' = files
        \/ at \notin Dirs \cup {Router} /\ files' = [files EXCEPT ![at] = Head(cmd.todo).value]
  /\ Raise /\ UNCHANGED <<backups, start>>

\* rmtree takes the files of a directory in any order, and the directory last.
RemoveTree ==
  /\ At("rmtree")
  /\ \E id \in ProviderIds :
       /\ Head(cmd.todo).at = Dir(id)
       /\ LET left == {p \in Entry(id) : files[p] # Absent}
          IN \/ \E p \in left : files' = [files EXCEPT ![p] = Absent] /\ UNCHANGED <<cmd, outcome>>
             \/ left = {} /\ files' = [files EXCEPT ![Dir(id)] = Absent] /\ Advance
  /\ UNCHANGED <<backups, start, used>>

\* It ignores the errors it meets: what it cannot remove stays.
RemoveTreeLeaves ==
  /\ At("rmtree")
  /\ Use("errors") /\ Advance
  /\ UNCHANGED <<files, backups, start>>

RestoreOne ==
  /\ At("copy back") \/ At("unlink")
  /\ LET left == LeftToRestore(files, Latest.snap, Head(cmd.todo).kind)
     IN \/ \E p \in FirstOf(left) :
             files' = RestoreFile(files, p, Latest.snap[p]) /\ UNCHANGED <<cmd, outcome>>
        \/ left = {} /\ files' = files /\ Advance
  /\ UNCHANGED <<backups, start, used>>

\* A copy or an unlink of the restore raises, and the rest is not restored.
RestoreFails ==
  /\ At("copy back") \/ At("unlink")
  /\ Use("errors") /\ Stop("unrestored")
  /\ UNCHANGED <<files, backups, start>>

CheckWritable ==
  /\ At("assert_writable")
  /\ IF Writable(files) THEN Advance ELSE Raise
  /\ UNCHANGED <<files, backups, start, used>>

MakeBackup ==
  /\ At("make_backup")
  /\ backups' = Append(backups, [sealed |-> FALSE, snap |-> [p \in Paths |-> Absent]])
  /\ Advance /\ UNCHANGED <<files, start, used>>

SealBackup ==
  /\ At("seal_backup")
  /\ backups' = [backups EXCEPT ![Len(backups)] = [sealed |-> TRUE, snap |-> Snapshot(files)]]
  /\ cmd' = [cmd EXCEPT !.todo = Tail(@), !.sealed = TRUE] /\ outcome' = outcome
  /\ UNCHANGED <<files, start, used>>

\* The directory, a copy or backup.json cannot be written.
BackupFails ==
  /\ At("make_backup") \/ At("seal_backup")
  /\ Use("errors") /\ Raise
  /\ UNCHANGED <<files, backups, start>>

\* A package installation, a verification, a symlink: it may raise.
RunExternal ==
  /\ At("external")
  /\ Advance \/ Raise
  /\ UNCHANGED <<files, backups, start, used>>

\* Mutant: the provider list is not read back.
ActivateUnchecked ==
  /\ At("activate")
  /\ \E yaml \in {files[Yaml], Canonical, "both"} :
       /\ files' = [files EXCEPT ![Yaml] = yaml]
       /\ Raise \/ Advance
  /\ UNCHANGED <<backups, start, used>>

\* hermes config set memory.provider, then discover: it must be the only one.
ActivateProvider ==
  /\ At("activate")
  /\ \E yaml \in {files[Yaml], Canonical, "both"} :
       /\ files' = [files EXCEPT ![Yaml] = yaml]
       /\ \/ Raise
          \/ ActiveProviders(files') = <<Canonical>> /\ Advance
  /\ UNCHANGED <<backups, start, used>>

Finish ==
  /\ cmd # Idle /\ cmd.todo = <<>>
  /\ Stop(IF cmd.failing THEN "failed" ELSE "ok")
  /\ UNCHANGED <<files, backups, start, used>>

Crash ==
  /\ cmd # Idle /\ Use("crashes")
  /\ Stop("crashed")
  /\ UNCHANGED <<files, backups, start>>

(***************************************************************************)
(* The user, between commands.                                             *)
(***************************************************************************)
Edit(h) ==
  /\ cmd = Idle /\ Use("edits")
  /\ files' = h
  /\ outcome' = Pending /\ start' = h
  /\ UNCHANGED <<backups, cmd>>

UserSetsProvider(yaml) == Edit([files EXCEPT ![Yaml] = yaml])
UserCreatesPlugin(id) ==
  /\ files[Dir(id)] = Absent
  /\ Edit([n \in Nodes |-> IF n = Dir(id) THEN "present"
                           ELSE IF n \in Entry(id) \ {Marker(id)} THEN "user" ELSE files[n]])
UserRemovesPlugin(id) ==
  /\ files[Dir(id)] # Absent
  /\ Edit([n \in Nodes |-> IF n \in Entry(id) \cup {Dir(id)} THEN Absent ELSE files[n]])

Command ==
  \/ \E policy \in Policies :
       \/ \E force \in BOOLEAN : InitConfig(policy, force)
       \/ Adopt(policy)
       \/ Provider(policy)
       \/ \E secrets \in BOOLEAN : Setup(policy, secrets) \/ NativeSetup(policy, secrets)
  \/ InstallPlugin
  \/ UninstallPlugin
  \/ UpgradeConfig
  \/ Rollback
  \/ RollbackInvalid

CommandStep ==
  \/ PutFile \/ WriteFails \/ RemoveTree \/ RemoveTreeLeaves \/ CheckWritable
  \/ MakeBackup \/ SealBackup \/ BackupFails \/ RestoreOne \/ RestoreFails
  \/ RunExternal \/ ActivateProvider \/ Finish

User ==
  \/ \E yaml \in {"hindsight", "both"} : UserSetsProvider(yaml)
  \/ \E id \in ProviderIds : UserCreatesPlugin(id) \/ UserRemovesPlugin(id)

Next == Command \/ CommandStep \/ Crash \/ User
Spec == Init /\ [][Next]_vars

-----------------------------------------------------------------------------
Same(h, g, S) == \A p \in S : h[p] = g[p]
Ended(ops, result) == outcome.op \in ops /\ outcome.result = result

\* The files a command answers for: every file a backup covers, except that
\* install-plugin and adopt write their entries before any backup and outside
\* of any try, and answer for the configuration only.
Unprotected == {"adopt", "install-plugin"}
Covered(op) == IF op \in Unprotected THEN ConfigPaths ELSE Paths

\* A command that reports failure, whichever step raised, leaves what it
\* answers for as it found it, unless the restore itself raised
\* (operations.py:211-213, setup_tui.py:1495-1499); if it found a plugin
\* directory of the user's, it has changed nothing at all (plugin_entry.py:145).
AnswersFor(op) == IF Writable(start) THEN Covered(op) ELSE Paths
FailureLeavesNoTrace ==
  Ended(Ops, "failed") => Same(files, start, AnswersFor(outcome.op))

\* From the moment a command that backs up has changed a file it answers for,
\* whether it still runs, succeeds, fails, fails to restore or is killed, the
\* newest backup, which is the one rollback takes, is the home as that command
\* found it (setup_tui.py:1348, docs/rollback.md:9).
BackupIsPreChange ==
  \A op \in BackingUp \cap {cmd.op, outcome.op} :
    Ended({op}, "ok") \/ ~Same(files, start, Covered(op)) =>
      backups # <<>> /\ Last(backups).sealed /\ Same(Last(backups).snap, start, Covered(op))

\* A rollback that completes leaves exactly the files of the newest backup,
\* whatever crashed rollbacks or half-done commands came before it.
RollbackRestores ==
  Ended({"rollback"}, "ok") => Same(files, Last(backups).snap, Paths)

\* Adoption and setup succeed only with Chronalyn the sole provider of
\* config.yaml, over a config of the new schema (compatibility.py:238).
ActivatedAlone ==
  Ended({"adopt", "setup", "native setup"}, "ok") =>
    ActiveProviders(files) = <<Canonical>> /\ files[Router] \in Policies

\* A plugin directory without the marker is the user's: no command but a
\* rollback changes a file in it, whether it succeeds, fails or is killed
\* (plugin_entry.py:30-32).
ForeignEntriesSurvive ==
  \A id \in ProviderIds :
    /\ start[Dir(id)] # Absent /\ start[Marker(id)] = Absent
    /\ "rollback" \notin {cmd.op, outcome.op}
    => Same(files, start, Entry(id))

-----------------------------------------------------------------------------
\* What the code says and does not do; a run refutes it.

\* An installation is refused only for a directory the user made
\* (plugin_entry.py:121, 141).
RefusedOnlyForForeign ==
  \A id \in ProviderIds :
    cmd = Idle /\ files[Dir(id)] # Absent /\ files[Marker(id)] = Absent =>
      \E p \in Entry(id) : files[p] = "user"
=============================================================================
