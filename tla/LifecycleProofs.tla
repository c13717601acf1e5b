----------------------------- MODULE LifecycleProofs -----------------------------
(***************************************************************************)
(* Proofs about ConfigLifecycle, from any home and for any number of       *)
(* commands, edits and crashes.  A command is a sequence of steps, and     *)
(* what makes it correct is which steps are still to come: the backup is   *)
(* sealed before anything it covers changes, the check of the plugin       *)
(* directories comes before the first write into one, and a restore goes   *)
(* on until every file of the backup is back.                              *)
(***************************************************************************)
EXTENDS ConfigLifecycle, SequenceTheorems, TLAPS

Make == Step("make_backup", Yaml, "")
Seal == Step("seal_backup", Yaml, "")

\* The steps of each command, and for those that back up the steps before the seal.
EntryPuts ==
  {s \in Steps : s.kind = "put" /\ s.at \in EntryPaths \cup Dirs /\ s.value # Absent}
PolicyPuts == {WriteConfig(policy) : policy \in Policies}
RestoreSteps == {CopyBack, UnlinkAbsent}
BackupCommandSteps ==
  {Make, Seal, External, Activate, AssertWritable, WriteHindsightProfile, WriteSecretEnv}
    \cup PolicyPuts \cup EntryPuts
PlanSteps == {Make, Seal, Activate} \cup PolicyPuts
StepsOf(op) ==
  CASE op = "init" -> PolicyPuts
    [] op = "install-plugin" -> {AssertWritable} \cup EntryPuts
    [] op = "uninstall-plugin" -> {RemoveEntry(id) : id \in ProviderIds}
    [] op = "rollback" -> RestoreSteps
    [] op = "adopt" -> {AssertWritable} \cup EntryPuts \cup PlanSteps
    [] op \in {"provider", "upgrade-config"} -> PlanSteps
    [] OTHER -> BackupCommandSteps
BeforeSeal(op) == IF op = "adopt" THEN {AssertWritable, Make} \cup EntryPuts ELSE {Make}

\* The commands that may write outside of any try.
Bare == {"init", "install-plugin", "adopt", "provider", "upgrade-config"}
Activating == {"adopt", "setup", "native setup"}
Restoring == cmd.failing \/ cmd.op = "rollback"

Has(todo, step) == \E i \in 1..Len(todo) : todo[i] = step
NoBackup(todo) == \A i \in 1..Len(todo) : todo[i] \notin {Make, Seal}
\* The backup will be sealed, once, and only the steps of P come before that.
Sealing(todo, P) ==
  \E k \in 1..Len(todo) :
    /\ todo[k] = Seal
    /\ \A i \in 1..(k - 1) : todo[i] \in P
    /\ \A i \in (k + 1)..Len(todo) : todo[i] \notin {Make, Seal}
\* Every other write comes before that of the policy and before the activation.
Writes == PolicyPuts \cup EntryPuts
PolicyLast(todo) ==
  \A k \in 1..Len(todo) :
    todo[k] \in Writes => \A i \in 1..(k - 1) : todo[i] \notin PolicyPuts \cup {Activate}
WritesToCome(todo) == \E step \in Writes : Has(todo, step)
\* Nothing is written into or removed from the directory before the check of it.
Touches(step, id) ==
  \/ step.kind = "put" /\ step.at \in Entry(id)
  \/ step.kind = "rmtree" /\ step.at = Dir(id)
Guarded(todo, id) ==
  \A i \in 1..Len(todo) :
    Touches(todo[i], id) => \E j \in 1..(i - 1) : todo[j] = AssertWritable
Foreign(h, id) == h[Dir(id)] # Absent /\ h[Marker(id)] = Absent

(***************************************************************************)
(* The parts of the invariant, each about the command that runs.           *)
(***************************************************************************)
Running == cmd.op # "none"

ShapeInv ==
  /\ ~Running => cmd = Idle
  /\ Running => outcome = Pending
  /\ Running /\ ~cmd.failing => cmd.todo \in Seq(StepsOf(cmd.op))
  /\ cmd.failing => cmd.sealed
  /\ cmd.sealed => cmd.op \in BackingUp

\* Until the backup is sealed, nothing it answers for has changed.
UnsealedInv ==
  cmd.op \in BackingUp /\ ~cmd.sealed =>
    /\ Sealing(cmd.todo, BeforeSeal(cmd.op))
    /\ Same(files, start, Covered(cmd.op))
    /\ Has(cmd.todo, Make) \/ backups # <<>>

\* From then on it is the home the command found, and stays the newest.
SealedInv ==
  cmd.sealed =>
    /\ backups # <<>> /\ Last(backups).sealed
    /\ Same(Last(backups).snap, start, Covered(cmd.op))
    /\ NoBackup(cmd.todo)

\* Where the check can raise outside of a try, nothing has been done yet.
CheckInv ==
  cmd.op \in Unprotected =>
    \A i \in 1..Len(cmd.todo) : cmd.todo[i] = AssertWritable => i = 1 /\ files = start

\* What a write outside of a try finds when it raises: nothing is changed yet
\* that the command answers for.
PolicyInv ==
  cmd.op \in Bare /\ ~cmd.failing =>
    /\ PolicyLast(cmd.todo)
    /\ WritesToCome(cmd.todo) => Same(files, start, Covered(cmd.op))

RestoreInv ==
  Restoring =>
    /\ backups # <<>> /\ Last(backups).sealed
    /\ \/ cmd.todo = RestoreBackup
       \/ /\ cmd.todo = <<UnlinkAbsent>>
          /\ \A p \in Paths : Last(backups).snap[p] # Absent => files[p] = Last(backups).snap[p]
       \/ cmd.todo = <<>> /\ Same(files, Last(backups).snap, Paths)

ActivateInv ==
  cmd.op \in Activating /\ ~cmd.failing =>
    /\ Has(cmd.todo, Activate) \/ ActiveProviders(files) = <<Canonical>>
    /\ (\E step \in PolicyPuts : Has(cmd.todo, step)) \/ files[Router] \in Policies

ForeignInv ==
  Running /\ cmd.op # "rollback" =>
    \A id \in ProviderIds :
      Foreign(start, id) =>
        /\ Same(files, start, Entry(id)) /\ files[Dir(id)] # Absent
        /\ Guarded(cmd.todo, id)
        /\ cmd.op \in Unprotected => cmd.todo # <<>> /\ Head(cmd.todo) = AssertWritable /\ ~cmd.sealed

CommandInv ==
  /\ ShapeInv /\ UnsealedInv /\ SealedInv /\ CheckInv /\ PolicyInv /\ RestoreInv /\ ActivateInv
  /\ ForeignInv

\* What the runs check, with the types and the invariant of the command.
Promises ==
  /\ FailureLeavesNoTrace /\ BackupIsPreChange /\ RollbackRestores /\ ActivatedAlone
  /\ ForeignEntriesSurvive
LifecycleInv == TypeOK /\ CommandInv /\ Promises

-----------------------------------------------------------------------------
(***************************************************************************)
(* What becomes of these facts when a step is done, and when sequences are *)
(* put together.                                                           *)
(***************************************************************************)
LEMMA TailFacts ==
  ASSUME NEW S, NEW t \in Seq(S), t # <<>>
  PROVE  /\ Head(t) \in S /\ Head(t) = t[1] /\ 1 \in 1..Len(t)
         /\ Tail(t) \in Seq(S) /\ Len(Tail(t)) = Len(t) - 1 /\ Len(t) \in Nat
         /\ \A i \in 1..Len(Tail(t)) : Tail(t)[i] = t[i + 1] /\ i + 1 \in 1..Len(t)
BY HeadTailProperties

\* A step that is still to come is the next one or comes after it.
LEMMA HasTail ==
  ASSUME NEW S, NEW t \in Seq(S), t # <<>>, NEW step, Has(t, step), Head(t) # step
  PROVE  Has(Tail(t), step)
<1>1. PICK i \in 1..Len(t) : t[i] = step
  BY DEF Has
<1>2. i # 1
  BY <1>1, TailFacts
<1>3. i - 1 \in 1..Len(Tail(t)) /\ (i - 1) + 1 = i
  BY <1>2, TailFacts
<1>4. Tail(t)[i - 1] = step
  BY <1>1, <1>3, TailFacts
<1>5. QED
  BY <1>3, <1>4 DEF Has

\* A step that is to come in the rest of the steps is to come.
LEMMA TailHas ==
  ASSUME NEW S, NEW t \in Seq(S), t # <<>>, NEW step, Has(Tail(t), step)
  PROVE  Has(t, step)
BY TailFacts DEF Has

\* What is to come in either part is to come in the whole.
LEMMA HasConcat ==
  ASSUME NEW S, NEW s \in Seq(S), NEW t \in Seq(S), NEW step, Has(s, step) \/ Has(t, step)
  PROVE  Has(s \o t, step)
<1>1. CASE Has(s, step)
  BY <1>1, ConcatProperties DEF Has
<1>2. CASE Has(t, step)
  <2>1. PICK i \in 1..Len(t) : t[i] = step
    BY <1>2 DEF Has
  <2>2. /\ Len(s) + i \in 1..Len(s \o t) /\ Len(s) + i \in 1..(Len(s) + Len(t))
        /\ ~(Len(s) + i <= Len(s)) /\ (Len(s) + i) - Len(s) = i
    BY ConcatProperties
  <2>3. (s \o t)[Len(s) + i] = step
    BY <2>1, <2>2, ConcatProperties
  <2>4. QED
    BY <2>2, <2>3 DEF Has
<1>3. QED
  BY <1>1, <1>2

\* Without a second backup, none is the next step or comes after it.
LEMMA NoBackupTail ==
  ASSUME NEW S, NEW t \in Seq(S), t # <<>>, NoBackup(t)
  PROVE  NoBackup(Tail(t)) /\ Head(t) \notin {Make, Seal}
BY TailFacts DEF NoBackup

\* Before the seal the next step is one of P, or it is the seal itself.
LEMMA SealingTail ==
  ASSUME NEW S, NEW t \in Seq(S), NEW P, Sealing(t, P)
  PROVE  /\ t # <<>>
         /\ \/ Head(t) = Seal /\ NoBackup(Tail(t))
            \/ Head(t) \in P /\ Sealing(Tail(t), P)
<1>1. PICK k \in 1..Len(t) :
        /\ t[k] = Seal
        /\ \A i \in 1..(k - 1) : t[i] \in P
        /\ \A i \in (k + 1)..Len(t) : t[i] \notin {Make, Seal}
  BY DEF Sealing
<1>2. t # <<>>
  BY <1>1
<1>3. CASE k = 1
  <2>1. Head(t) = Seal
    BY <1>1, <1>2, <1>3, TailFacts
  <2>2. \A i \in 1..Len(Tail(t)) : Tail(t)[i] \notin {Make, Seal}
    <3> TAKE i \in 1..Len(Tail(t))
    <3>1. Tail(t)[i] = t[i + 1] /\ i + 1 \in (k + 1)..Len(t)
      BY <1>2, <1>3, TailFacts
    <3>2. QED
      BY <1>1, <3>1
  <2>3. QED
    BY <1>2, <2>1, <2>2 DEF NoBackup
<1>4. CASE k # 1
  <2>1. 1 \in 1..(k - 1) /\ k - 1 \in 1..Len(Tail(t)) /\ (k - 1) + 1 = k
    BY <1>2, <1>4, TailFacts
  <2>2. Head(t) \in P
    BY <1>1, <1>2, <2>1, TailFacts
  <2>3. Tail(t)[k - 1] = Seal
    BY <1>1, <1>2, <2>1, TailFacts
  <2>4. \A i \in 1..((k - 1) - 1) : Tail(t)[i] \in P
    <3> TAKE i \in 1..((k - 1) - 1)
    <3>1. i \in 1..Len(Tail(t)) /\ i + 1 \in 1..(k - 1)
      BY <1>2, TailFacts
    <3>2. QED
      BY <1>1, <1>2, <3>1, TailFacts
  <2>5. \A i \in ((k - 1) + 1)..Len(Tail(t)) : Tail(t)[i] \notin {Make, Seal}
    <3> TAKE i \in ((k - 1) + 1)..Len(Tail(t))
    <3>1. i \in 1..Len(Tail(t)) /\ i + 1 \in (k + 1)..Len(t)
      BY <1>2, TailFacts
    <3>2. QED
      BY <1>1, <1>2, <3>1, TailFacts
  <2>6. QED
    BY <1>2, <2>1, <2>2, <2>3, <2>4, <2>5 DEF Sealing
<1>5. QED
  BY <1>3, <1>4

\* Steps after the seal do not matter, as long as there is no second backup.
LEMMA SealingAppend ==
  ASSUME NEW S, NEW s \in Seq(S), NEW t \in Seq(S), NEW P, Sealing(s, P), NoBackup(t)
  PROVE  Sealing(s \o t, P)
<1>1. PICK k \in 1..Len(s) :
        /\ s[k] = Seal
        /\ \A i \in 1..(k - 1) : s[i] \in P
        /\ \A i \in (k + 1)..Len(s) : s[i] \notin {Make, Seal}
  BY DEF Sealing
<1> DEFINE u == s \o t
<1>2. /\ Len(u) = Len(s) + Len(t)
      /\ \A i \in 1..Len(s) : u[i] = s[i]
      /\ \A i \in (Len(s) + 1)..Len(u) : u[i] = t[i - Len(s)] /\ i - Len(s) \in 1..Len(t)
  BY ConcatProperties
<1> HIDE DEF u
<1>3. k \in 1..Len(u) /\ u[k] = Seal /\ \A i \in 1..(k - 1) : u[i] \in P
  BY <1>1, <1>2
<1>4. \A i \in (k + 1)..Len(u) : u[i] \notin {Make, Seal}
  <2> TAKE i \in (k + 1)..Len(u)
  <2>1. CASE i <= Len(s)
    <3>1. i \in (k + 1)..Len(s) /\ i \in 1..Len(s)
      BY <1>2, <2>1
    <3>2. QED
      BY <1>1, <1>2, <3>1
  <2>2. CASE ~(i <= Len(s))
    <3>1. i \in (Len(s) + 1)..Len(u)
      BY <1>2, <2>2
    <3>2. QED
      BY <1>2, <3>1 DEF NoBackup
  <2>3. QED
    BY <2>1, <2>2
<1>5. QED
  BY <1>3, <1>4 DEF Sealing, u

\* Steps of P may come before.
LEMMA SealingPrepend ==
  ASSUME NEW S, NEW s \in Seq(S), NEW t \in Seq(S), NEW P, s \in Seq(P), Sealing(t, P)
  PROVE  Sealing(s \o t, P)
<1>1. PICK k \in 1..Len(t) :
        /\ t[k] = Seal
        /\ \A i \in 1..(k - 1) : t[i] \in P
        /\ \A i \in (k + 1)..Len(t) : t[i] \notin {Make, Seal}
  BY DEF Sealing
<1> DEFINE u == s \o t
<1>2. /\ Len(u) = Len(s) + Len(t)
      /\ \A i \in 1..Len(s) : u[i] \in P
      /\ \A i \in 1..Len(t) : u[Len(s) + i] = t[i]
  BY ConcatProperties
<1> HIDE DEF u
<1>3. Len(s) + k \in 1..Len(u) /\ u[Len(s) + k] = Seal
  BY <1>1, <1>2
<1>4. \A i \in 1..((Len(s) + k) - 1) : u[i] \in P
  <2> TAKE i \in 1..((Len(s) + k) - 1)
  <2>1. CASE ~(i <= Len(s))
    <3>1. i - Len(s) \in 1..(k - 1) /\ i - Len(s) \in 1..Len(t) /\ Len(s) + (i - Len(s)) = i
      BY <2>1
    <3>2. QED
      BY <1>1, <1>2, <3>1
  <2>2. QED
    BY <1>2, <2>1
<1>5. \A i \in ((Len(s) + k) + 1)..Len(u) : u[i] \notin {Make, Seal}
  <2> TAKE i \in ((Len(s) + k) + 1)..Len(u)
  <2>1. i - Len(s) \in (k + 1)..Len(t) /\ i - Len(s) \in 1..Len(t) /\ Len(s) + (i - Len(s)) = i
    BY <1>2
  <2>2. QED
    BY <1>1, <1>2, <2>1
<1>6. QED
  BY <1>3, <1>4, <1>5 DEF Sealing, u

\* Once the policy is written, or the provider activated, no write is left.
LEMMA PolicyLastTail ==
  ASSUME NEW S, NEW t \in Seq(S), t # <<>>, PolicyLast(t)
  PROVE  /\ PolicyLast(Tail(t))
         /\ WritesToCome(Tail(t)) => WritesToCome(t) /\ Head(t) \notin PolicyPuts \cup {Activate}
<1>1. PolicyLast(Tail(t))
  <2> SUFFICES ASSUME NEW k \in 1..Len(Tail(t)), Tail(t)[k] \in Writes, NEW i \in 1..(k - 1)
               PROVE  Tail(t)[i] \notin PolicyPuts \cup {Activate}
    BY DEF PolicyLast
  <2>1. /\ k + 1 \in 1..Len(t) /\ t[k + 1] = Tail(t)[k]
        /\ i \in 1..Len(Tail(t)) /\ i + 1 \in 1..((k + 1) - 1) /\ t[i + 1] = Tail(t)[i]
    BY TailFacts
  <2>2. QED
    BY <2>1 DEF PolicyLast
<1>2. ASSUME WritesToCome(Tail(t))
      PROVE  WritesToCome(t) /\ Head(t) \notin PolicyPuts \cup {Activate}
  <2>1. PICK k \in 1..Len(Tail(t)) : Tail(t)[k] \in Writes
    BY <1>2 DEF WritesToCome, Has
  <2>2. /\ k + 1 \in 1..Len(t) /\ t[k + 1] \in Writes /\ 1 \in 1..((k + 1) - 1) /\ Head(t) = t[1]
    BY <2>1, TailFacts
  <2>3. QED
    BY <2>2 DEF PolicyLast, WritesToCome, Has
<1>3. QED
  BY <1>1, <1>2

\* Steps before which all the others may come, and steps that may come last.
LEMMA PolicyLastConcat ==
  ASSUME NEW S, NEW s \in Seq(S), NEW t \in Seq(S), PolicyLast(s), PolicyLast(t),
         \/ \A i \in 1..Len(s) : s[i] \notin PolicyPuts \cup {Activate}
         \/ \A i \in 1..Len(t) : t[i] \notin Writes
  PROVE  PolicyLast(s \o t)
<1> DEFINE u == s \o t
<1>1. /\ Len(u) = Len(s) + Len(t) /\ Len(s) \in Nat /\ Len(t) \in Nat
      /\ \A i \in 1..Len(s) : u[i] = s[i]
      /\ \A i \in 1..Len(u) : ~(i <= Len(s)) => u[i] = t[i - Len(s)] /\ i - Len(s) \in 1..Len(t)
  BY ConcatProperties
<1> HIDE DEF u
<1>2. ASSUME NEW k \in 1..Len(u), u[k] \in Writes, NEW i \in 1..(k - 1)
      PROVE  u[i] \notin PolicyPuts \cup {Activate}
  <2>1. CASE k <= Len(s)
    <3>1. k \in 1..Len(s) /\ i \in 1..Len(s) /\ u[k] = s[k] /\ u[i] = s[i]
      BY <1>1, <2>1
    <3>2. QED
      BY <1>2, <3>1 DEF PolicyLast
  <2>2. CASE ~(k <= Len(s))
    <3>1. u[k] = t[k - Len(s)] /\ k - Len(s) \in 1..Len(t)
      BY <1>1, <2>2
    <3>2. \A j \in 1..Len(s) : s[j] \notin PolicyPuts \cup {Activate}
      BY <1>2, <3>1
    <3>3. CASE i <= Len(s)
      <4>1. i \in 1..Len(s) /\ u[i] = s[i]
        BY <1>1, <3>3
      <4>2. QED
        BY <3>2, <4>1
    <3>4. CASE ~(i <= Len(s))
      <4>1. i \in 1..Len(u)
        BY <1>1
      <4>2. u[i] = t[i - Len(s)] /\ i - Len(s) \in 1..((k - Len(s)) - 1)
        BY <1>1, <3>1, <3>4, <4>1
      <4>3. QED
        BY <1>2, <3>1, <4>2 DEF PolicyLast
    <3>5. QED
      BY <3>3, <3>4
  <2>3. QED
    BY <2>1, <2>2
<1>3. QED
  BY <1>2 DEF PolicyLast, u

\* A single step is in any order, and so are steps that do not write the policy.
LEMMA PolicyLastPlain ==
  ASSUME NEW t, \/ Len(t) = 1
                \/ \A i \in 1..Len(t) : t[i] \notin PolicyPuts \cup {Activate}
                \/ \A i \in 1..Len(t) : t[i] \notin Writes,
         Len(t) \in Nat
  PROVE  PolicyLast(t)
BY DEF PolicyLast

\* Until the check of the directories is done nothing touches them.
LEMMA GuardedTail ==
  ASSUME NEW S, NEW t \in Seq(S), t # <<>>, NEW id, Guarded(t, id), Head(t) # AssertWritable
  PROVE  Guarded(Tail(t), id) /\ ~Touches(Head(t), id)
<1>1. ~Touches(Head(t), id)
  BY TailFacts DEF Guarded
<1>2. ASSUME NEW i \in 1..Len(Tail(t)), Touches(Tail(t)[i], id)
      PROVE  \E j \in 1..(i - 1) : Tail(t)[j] = AssertWritable
  <2>1. i + 1 \in 1..Len(t) /\ Touches(t[i + 1], id)
    BY <1>2, TailFacts
  <2>2. PICK j \in 1..((i + 1) - 1) : t[j] = AssertWritable
    BY <2>1 DEF Guarded
  <2>3. j # 1
    BY <2>2, TailFacts
  <2>4. j - 1 \in 1..(i - 1) /\ j - 1 \in 1..Len(Tail(t)) /\ (j - 1) + 1 = j
    BY <2>3, TailFacts
  <2>5. QED
    BY <2>2, <2>4, TailFacts
<1>3. QED
  BY <1>1, <1>2 DEF Guarded

\* Two programs that check before they touch do so one after the other.
LEMMA GuardedConcat ==
  ASSUME NEW S, NEW s \in Seq(S), NEW t \in Seq(S), NEW id, Guarded(s, id), Guarded(t, id)
  PROVE  Guarded(s \o t, id)
<1> DEFINE u == s \o t
<1>1. /\ Len(u) = Len(s) + Len(t)
      /\ \A i \in 1..Len(s) : u[i] = s[i]
      /\ \A i \in 1..Len(t) : u[Len(s) + i] = t[i]
  BY ConcatProperties
<1> HIDE DEF u
<1>2. ASSUME NEW i \in 1..Len(u), Touches(u[i], id)
      PROVE  \E j \in 1..(i - 1) : u[j] = AssertWritable
  <2>1. CASE i <= Len(s)
    <3>1. i \in 1..Len(s)
      BY <2>1
    <3>2. PICK j \in 1..(i - 1) : s[j] = AssertWritable
      BY <1>1, <1>2, <3>1 DEF Guarded
    <3>3. j \in 1..Len(s)
      BY <3>1
    <3>4. QED
      BY <1>1, <3>2, <3>3
  <2>2. CASE ~(i <= Len(s))
    <3>1. i - Len(s) \in 1..Len(t) /\ Len(s) + (i - Len(s)) = i
      BY <1>1, <2>2
    <3>2. PICK j \in 1..((i - Len(s)) - 1) : t[j] = AssertWritable
      BY <1>1, <1>2, <3>1 DEF Guarded
    <3>3. Len(s) + j \in 1..(i - 1) /\ j \in 1..Len(t)
      BY <3>1, <3>2
    <3>4. QED
      BY <1>1, <3>2, <3>3
  <2>3. QED
    BY <2>1, <2>2
<1>3. QED
  BY <1>2 DEF Guarded, u

-----------------------------------------------------------------------------
(***************************************************************************)
(* The home and the steps.                                                 *)
(***************************************************************************)
\* No two parts of the home share a node.
LEMMA NodesApart ==
  /\ ConfigPaths \cap (EntryPaths \cup Dirs) = {} /\ EntryPaths \cap Dirs = {}
  /\ Yaml # Router /\ Yaml # Hindsight /\ Yaml # Env /\ Router # Hindsight /\ Router # Env
  /\ \A i, j \in ProviderIds : i # j => Entry(i) \cap Entry(j) = {} /\ Dir(i) # Dir(j)
<1> USE DEF ConfigPaths, EntryPaths, Dirs, Entry, Dir, Marker, ProviderIds, Canonical, Legacy,
            Yaml, Router, Hindsight, Env
<1>1. ConfigPaths \cap (EntryPaths \cup Dirs) = {}
  OBVIOUS
<1>2. EntryPaths \cap Dirs = {}
  OBVIOUS
<1>3. Yaml # Router /\ Yaml # Hindsight /\ Yaml # Env /\ Router # Hindsight /\ Router # Env
  OBVIOUS
<1>4. \A i, j \in ProviderIds : i # j => Entry(i) \cap Entry(j) = {} /\ Dir(i) # Dir(j)
  OBVIOUS
<1>5. QED
  BY <1>1, <1>2, <1>3, <1>4

\* Where the parts of the home are.
LEMMA NodesOf ==
  /\ {Yaml, Router, Hindsight, Env} \subseteq ConfigPaths
  /\ Paths = ConfigPaths \cup EntryPaths /\ Nodes = Paths \cup Dirs
  /\ \A id \in ProviderIds :
       Entry(id) \subseteq EntryPaths /\ Dir(id) \in Dirs /\ Marker(id) \in Entry(id)
BY DEF ConfigPaths, EntryPaths, Dirs, Paths, Nodes, Entry, Marker, ProviderIds

\* What the nodes can hold.
LEMMA ContentsOf ==
  /\ \A n \in Nodes : Contents(n) \subseteq Content /\ Absent \in Contents(n)
  /\ Contents(Yaml) = {Absent, "hindsight", Canonical, Legacy, "both"}
  /\ Contents(Router) = {Absent, "v1"} \cup Policies
  /\ \A n \in Dirs : Contents(n) = {Absent, "present"}
  /\ \A n \in EntryPaths \cup {Hindsight, Env} : Contents(n) = {Absent, "user", "chronalyn"}
<1>0. Yaml \notin Dirs /\ Router \notin Dirs /\ Yaml # Router
  BY NodesApart, NodesOf
<1>1. Contents(Yaml) = {Absent, "hindsight", Canonical, Legacy, "both"}
  BY <1>0 DEF Contents
<1>2. Contents(Router) = {Absent, "v1"} \cup Policies
  BY <1>0 DEF Contents
<1>3. \A n \in Dirs : n # Yaml /\ n # Router
  BY NodesApart, NodesOf
<1>4. \A n \in Dirs : Contents(n) = {Absent, "present"}
  BY <1>3 DEF Contents
<1>5. \A n \in EntryPaths \cup {Hindsight, Env} : n # Yaml /\ n # Router /\ n \notin Dirs
  BY NodesApart, NodesOf
<1>6. \A n \in EntryPaths \cup {Hindsight, Env} : Contents(n) = {Absent, "user", "chronalyn"}
  BY <1>5 DEF Contents
<1>7. \A n \in Nodes : Absent \in Contents(n)
  BY <1>1, <1>2, <1>4, <1>6, NodesOf DEF ConfigPaths
<1>8. \A n \in Nodes : Contents(n) \subseteq Content
  BY DEF Content
<1>9. QED
  BY <1>1, <1>2, <1>4, <1>6, <1>7, <1>8

\* The kinds of the steps that have a name of their own.
LEMMA NamedKinds ==
  /\ Make.kind = "make_backup" /\ Seal.kind = "seal_backup" /\ External.kind = "external"
  /\ Activate.kind = "activate" /\ AssertWritable.kind = "assert_writable"
BY DEF Make, Seal, External, Activate, AssertWritable, Step

\* The kind of a step tells which it is, and where it may write.
LEMMA StepKinds ==
  /\ \A s \in BackupCommandSteps \cup {AssertWritable} \cup EntryPuts \cup PolicyPuts :
       /\ s.kind \in Kinds \ {"rmtree", "copy back", "unlink"}
       /\ s.kind = "make_backup" <=> s = Make
       /\ s.kind = "seal_backup" <=> s = Seal
       /\ s.kind = "assert_writable" <=> s = AssertWritable
       /\ s.kind = "external" <=> s = External
       /\ s.kind = "activate" <=> s = Activate
       /\ s.kind = "put" =>
            /\ s.at \in Nodes \ {Yaml} /\ s.value \in Contents(s.at)
            /\ s.at = Router => s.value \in Policies /\ s \in PolicyPuts
  /\ \A s \in PolicyPuts : s.kind = "put" /\ s.at = Router /\ s.value \in Policies
  /\ \A s \in EntryPuts : s.kind = "put" /\ s.at \in EntryPaths \cup Dirs /\ s.value # Absent
  /\ CopyBack.kind = "copy back" /\ UnlinkAbsent.kind = "unlink" /\ CopyBack # UnlinkAbsent
  /\ \A id \in ProviderIds : RemoveEntry(id).kind = "rmtree" /\ RemoveEntry(id).at = Dir(id)
<1> USE DEF Step, Put, Make, Seal, External, Activate, AssertWritable, CopyBack, UnlinkAbsent,
            RemoveEntry, WriteConfig, WriteHindsightProfile, WriteSecretEnv
<1>1. /\ WriteHindsightProfile.at = Hindsight /\ WriteHindsightProfile.value \in Contents(Hindsight)
      /\ WriteSecretEnv.at = Env /\ WriteSecretEnv.value \in Contents(Env)
  BY ContentsOf
<1>2. \A s \in PolicyPuts :
        /\ s.kind = "put" /\ s.at = Router /\ s.value \in Policies /\ s.value \in Contents(s.at)
        /\ s.at \in Nodes \ {Yaml}
  BY ContentsOf, NodesApart, NodesOf DEF PolicyPuts
<1>3. \A s \in EntryPuts :
        /\ s.kind = "put" /\ s.at \in EntryPaths \cup Dirs /\ s.value \in Contents(s.at) \ {Absent}
        /\ s.at \in Nodes \ {Yaml} /\ s.at # Router
  <2>1. (EntryPaths \cup Dirs) \subseteq Nodes \ {Yaml, Router}
    BY NodesApart, NodesOf
  <2>2. QED
    BY <2>1 DEF EntryPuts, Steps
<1>4. \A s \in {WriteHindsightProfile, WriteSecretEnv} :
        /\ s.kind = "put" /\ s.at \in Nodes \ {Yaml} /\ s.at # Router /\ s.value \in Contents(s.at)
  BY <1>1, NodesApart, NodesOf
<1>5. /\ Make.kind = "make_backup" /\ Seal.kind = "seal_backup" /\ External.kind = "external"
      /\ Activate.kind = "activate" /\ AssertWritable.kind = "assert_writable"
  OBVIOUS
<1>8. /\ CopyBack.kind = "copy back" /\ UnlinkAbsent.kind = "unlink" /\ CopyBack # UnlinkAbsent
      /\ \A id \in ProviderIds : RemoveEntry(id).kind = "rmtree" /\ RemoveEntry(id).at = Dir(id)
  OBVIOUS
<1> HIDE DEF Step, Put, Make, Seal, External, Activate, AssertWritable, CopyBack, UnlinkAbsent,
             RemoveEntry, WriteConfig, WriteHindsightProfile, WriteSecretEnv
<1>9. ASSUME NEW s \in {Make, Seal, External, Activate, AssertWritable}
      PROVE  /\ s.kind \in Kinds \ {"rmtree", "copy back", "unlink", "put"}
             /\ s.kind = "make_backup" <=> s = Make
             /\ s.kind = "seal_backup" <=> s = Seal
             /\ s.kind = "assert_writable" <=> s = AssertWritable
             /\ s.kind = "external" <=> s = External
             /\ s.kind = "activate" <=> s = Activate
  BY <1>5 DEF Kinds
<1>10. ASSUME NEW s, s.kind = "put"
       PROVE  /\ s \notin {Make, Seal, External, Activate, AssertWritable}
              /\ s.kind \in Kinds \ {"rmtree", "copy back", "unlink"}
  BY <1>5, <1>10 DEF Kinds
<1>11. QED
  BY <1>2, <1>3, <1>4, <1>8, <1>9, <1>10 DEF BackupCommandSteps

-----------------------------------------------------------------------------
(***************************************************************************)
(* Between commands, in the midst of one, and at the end of one.           *)
(***************************************************************************)
\* Nothing is asked of a command when none runs.
LEMMA NoCommand == cmd = Idle => CommandInv
<1> SUFFICES ASSUME cmd = Idle
             PROVE  CommandInv
  OBVIOUS
<1>1. cmd.op = "none" /\ ~cmd.sealed /\ ~cmd.failing
  BY DEF Idle
<1>2. QED
  BY <1>1 DEF CommandInv, ShapeInv, UnsealedInv, SealedInv, CheckInv, PolicyInv, RestoreInv,
     ActivateInv, ForeignInv, Running, Restoring, Activating, BackingUp, InOneTry, Bare, Unprotected

\* Nothing is promised of the home as it was found, or as the user left it.
LEMMA NothingDone == outcome = Pending /\ start = files => Promises
BY DEF Promises, FailureLeavesNoTrace, BackupIsPreChange, RollbackRestores, ActivatedAlone,
   ForeignEntriesSurvive, Ended, Pending, Ops, BackingUp, InOneTry, Same

\* As soon as a command has changed a file, its backup is sealed.
LEMMA PreChange ==
  CommandInv /\ cmd.op \in BackingUp /\ ~Same(files, start, Covered(cmd.op)) =>
    backups # <<>> /\ Last(backups).sealed /\ Same(Last(backups).snap, start, Covered(cmd.op))
BY DEF CommandInv, UnsealedInv, SealedInv

\* While a command runs, the promises are those of its invariant.
LEMMA InTheMidst == CommandInv /\ Running => Promises
<1> SUFFICES ASSUME CommandInv, Running
             PROVE  Promises
  OBVIOUS
<1>1. outcome.op = "none"
  BY DEF CommandInv, ShapeInv, Pending
<1>2. FailureLeavesNoTrace /\ RollbackRestores /\ ActivatedAlone
  BY <1>1 DEF FailureLeavesNoTrace, RollbackRestores, ActivatedAlone, Ended, Ops, BackingUp, InOneTry
<1>5. BackupIsPreChange
  <2> SUFFICES ASSUME NEW op \in BackingUp, op \in {cmd.op, outcome.op},
                      Ended({op}, "ok") \/ ~Same(files, start, Covered(op))
               PROVE  backups # <<>> /\ Last(backups).sealed /\ Same(Last(backups).snap, start, Covered(op))
    BY DEF BackupIsPreChange
  <2>1. op # "none"
    BY DEF BackingUp, InOneTry
  <2>2. op = cmd.op /\ ~Same(files, start, Covered(op))
    BY <1>1, <2>1 DEF Ended
  <2>3. QED
    BY <2>2, PreChange
<1>3. ForeignEntriesSurvive
  BY <1>1 DEF CommandInv, ForeignInv, ForeignEntriesSurvive, Foreign
<1>4. QED
  BY <1>2, <1>3, <1>5 DEF Promises

\* The same of the state after a step.
LEMMA AfterAStep ==
  /\ (cmd = Idle => CommandInv)'
  /\ (outcome = Pending /\ start = files => Promises)'
  /\ (CommandInv /\ Running => Promises)'
BY NoCommand, NothingDone, InTheMidst, PTL

\* What is used up of a bound stays within it.
LEMMA UseBounded ==
  ASSUME TypeOK, LifecycleAssumption, NEW k \in DOMAIN Bound, Use(k)
  PROVE  used' \in [DOMAIN Bound -> Nat] /\ \A j \in DOMAIN Bound : used'[j] <= Bound[j]
BY DEF TypeOK, LifecycleAssumption, Use

\* A step that uses nothing up, or one error, stays within the bounds.
LEMMA ErrorBounded ==
  ASSUME LifecycleInv, UNCHANGED used \/ Use("errors")
  PROVE  used' \in [DOMAIN Bound -> Nat] /\ \A j \in DOMAIN Bound : used'[j] <= Bound[j]
<1>1. "errors" \in DOMAIN Bound
  BY DEF Bound
<1>2. CASE Use("errors")
  BY <1>1, <1>2, UseBounded, LifecycleAssumption DEF LifecycleInv
<1>3. CASE UNCHANGED used
  BY <1>3 DEF LifecycleInv, TypeOK
<1>4. QED
  BY <1>2, <1>3

\* A command that has passed its check found no plugin directory of the
\* user's, and a command with a backup answers for all that it covers.
LEMMA AnswersCovered ==
  ASSUME LifecycleInv, Running, cmd.op # "rollback",
         cmd.sealed \/ cmd.todo = <<>> \/ Head(cmd.todo) # AssertWritable
  PROVE  AnswersFor(cmd.op) = Covered(cmd.op)
<1>1. CASE cmd.op \in Unprotected
  <2>1. \A id \in ProviderIds : ~Foreign(start, id)
    BY <1>1 DEF LifecycleInv, CommandInv, ForeignInv
  <2>2. Writable(start)
    BY <2>1 DEF Writable, Foreign
  <2>3. QED
    BY <2>2 DEF AnswersFor
<1>2. CASE cmd.op \notin Unprotected
  BY <1>2 DEF AnswersFor, Covered
<1>3. QED
  BY <1>1, <1>2

\* A command that ends keeps its promises if it has the facts of its result.
LEMMA StopSafe ==
  ASSUME LifecycleInv, Running, NEW result \in Results \ {"none"}, Stop(result),
         UNCHANGED <<backups, start>>,
         cmd.op # "rollback" =>
           \A id \in ProviderIds : Foreign(start, id) => Same(files', start, Entry(id)),
         cmd.op \in BackingUp /\ ~Same(files', start, Covered(cmd.op)) => cmd.sealed,
         result = "failed" => Same(files', start, AnswersFor(cmd.op)),
         result = "ok" =>
           /\ cmd.op \in BackingUp => cmd.sealed
           /\ cmd.op = "rollback" => Same(files', Last(backups).snap, Paths)
           /\ cmd.op \in Activating =>
                ActiveProviders(files') = <<Canonical>> /\ files'[Router] \in Policies
  PROVE  CommandInv' /\ Promises'
<1>1. cmd' = Idle => CommandInv'
  BY AfterAStep
<1>2. /\ outcome' = [op |-> cmd.op, result |-> result] /\ outcome'.op = cmd.op /\ outcome'.result = result
      /\ cmd'.op = "none"
  BY DEF Stop, Idle
<1>3. AnswersFor(outcome.op)' = AnswersFor(cmd.op)
  BY <1>2 DEF AnswersFor, Writable, Covered
<1>4. cmd.sealed =>
        backups # <<>> /\ Last(backups).sealed /\ Same(Last(backups).snap, start, Covered(cmd.op))
  BY DEF LifecycleInv, CommandInv, SealedInv
<1>5. FailureLeavesNoTrace'
  BY <1>2, <1>3 DEF FailureLeavesNoTrace, Ended, Same
<1>6. BackupIsPreChange'
  <2> SUFFICES ASSUME NEW op \in BackingUp, op \in {cmd'.op, outcome'.op},
                      (outcome'.op \in {op} /\ outcome'.result = "ok") \/ ~Same(files', start, Covered(op))
               PROVE  backups # <<>> /\ Last(backups).sealed /\ Same(Last(backups).snap, start, Covered(op))
    BY DEF BackupIsPreChange, Ended, Same
  <2>1. op # "none"
    BY DEF BackingUp, InOneTry
  <2>2. op = cmd.op
    BY <1>2, <2>1
  <2>3. QED
    BY <1>2, <1>4, <2>2
<1>7. RollbackRestores'
  BY <1>2 DEF RollbackRestores, Ended, Same
<1>8. ActivatedAlone'
  <2>1. ActiveProviders(files)' = ActiveProviders(files')
    BY DEF ActiveProviders
  <2>2. QED
    BY <1>2, <2>1 DEF ActivatedAlone, Ended, Activating
<1>9. ForeignEntriesSurvive'
  BY <1>2 DEF ForeignEntriesSurvive, Foreign, Same
<1>10. QED
  BY <1>1, <1>5, <1>6, <1>7, <1>8, <1>9 DEF Promises, Stop

\* Every command is made of steps.
LEMMA StepsAreSteps == \A op : StepsOf(op) \subseteq Steps
<1> USE DEF Step, Put, Make, Seal, External, Activate, AssertWritable, CopyBack, UnlinkAbsent,
            RemoveEntry, WriteConfig, WriteHindsightProfile, WriteSecretEnv
<1>1. /\ {Yaml, Router, Hindsight, Env} \subseteq Nodes /\ Dirs \subseteq Nodes
      /\ \A id \in ProviderIds : Dir(id) \in Dirs
  BY NodesOf
<1>2. {"put", "rmtree", "assert_writable", "external", "activate", "make_backup", "seal_backup",
       "copy back", "unlink"} \subseteq Kinds
  BY DEF Kinds
<1>3. /\ {"", Absent, Canonical, "chronalyn"} \subseteq Content \cup {""}
      /\ "chronalyn" \in Contents(Hindsight) /\ "chronalyn" \in Contents(Env)
      /\ Policies \subseteq Contents(Router) /\ Policies \subseteq Content
  BY <1>1, ContentsOf
<1>4. \A kind \in Kinds \ {"put"}, at \in Nodes, value \in Content \cup {""} :
        Step(kind, at, value) \in Steps
  BY DEF Steps
<1>5. \A at \in Nodes, value \in Content : value \in Contents(at) => Put(at, value) \in Steps
  BY <1>2 DEF Steps
<1>6. {Make, Seal, External, Activate, AssertWritable, CopyBack, UnlinkAbsent} \subseteq Steps
  BY <1>1, <1>2, <1>3, <1>4
<1>7. \A id \in ProviderIds : RemoveEntry(id) \in Steps
  BY <1>1, <1>2, <1>3, <1>4
<1>8. PolicyPuts \subseteq Steps
  BY <1>1, <1>3, <1>5 DEF PolicyPuts
<1>9. WriteHindsightProfile \in Steps /\ WriteSecretEnv \in Steps
  BY <1>1, <1>3, <1>5
<1> HIDE DEF Step, Put, Make, Seal, External, Activate, AssertWritable, CopyBack, UnlinkAbsent,
             RemoveEntry, WriteConfig, WriteHindsightProfile, WriteSecretEnv
<1>10. EntryPuts \subseteq Steps
  BY DEF EntryPuts
<1>11. BackupCommandSteps \subseteq Steps /\ RestoreSteps \subseteq Steps
  BY <1>6, <1>8, <1>9, <1>10 DEF BackupCommandSteps, RestoreSteps
<1>12. PlanSteps \subseteq Steps
  BY <1>6, <1>8 DEF PlanSteps
<1>13. QED
  BY <1>6, <1>7, <1>8, <1>10, <1>11, <1>12 DEF StepsOf

\* What is left of a restore is only a restore.
LEMMA RestorePrograms ==
  ASSUME NEW t \in {RestoreBackup, <<UnlinkAbsent>>, <<>>}
  PROVE  /\ t \in Seq(Steps) /\ t \in Seq(RestoreSteps) /\ NoBackup(t)
         /\ \A i \in 1..Len(t) : t[i] # AssertWritable
         /\ \A id : Guarded(t, id)
<1>1. t \in Seq(RestoreSteps)
  <2>1. CopyBack \in RestoreSteps /\ UnlinkAbsent \in RestoreSteps
    BY DEF RestoreSteps
  <2>2. /\ <<CopyBack, UnlinkAbsent>> \in Seq(RestoreSteps)
        /\ <<UnlinkAbsent>> \in Seq(RestoreSteps) /\ <<>> \in Seq(RestoreSteps)
    BY <2>1
  <2>3. QED
    BY <2>2 DEF RestoreBackup
<1>2. RestoreSteps \subseteq Steps
  BY StepsAreSteps DEF StepsOf
<1>3. \A s \in RestoreSteps : s.kind \in {"copy back", "unlink"}
  BY StepKinds DEF RestoreSteps
<1>4. \A i \in 1..Len(t) : t[i].kind \in {"copy back", "unlink"}
  BY <1>1, <1>3, ElementOfSeq
<1>6. NoBackup(t)
  BY <1>4, NamedKinds DEF NoBackup
<1>7. \A i \in 1..Len(t) : t[i] # AssertWritable
  BY <1>4, NamedKinds
<1>8. \A id : Guarded(t, id)
  BY <1>4 DEF Guarded, Touches
<1>9. t \in Seq(Steps)
  BY <1>1, <1>2, SeqMonotonic
<1>10. QED
  BY <1>1, <1>6, <1>7, <1>8, <1>9

\* What the head of the steps of a command that is not restoring can be.
LEMMA HeadOfCommand ==
  ASSUME LifecycleInv, Running, ~Restoring, cmd.todo # <<>>
  PROVE  /\ cmd.op \in Ops \ {"rollback"} /\ Head(cmd.todo) \in StepsOf(cmd.op)
         /\ Tail(cmd.todo) \in Seq(StepsOf(cmd.op)) /\ Tail(cmd.todo) \in Seq(Steps)
<1>1. cmd.op \in Ops \ {"rollback"}
  BY DEF LifecycleInv, TypeOK, Running, Restoring
<1>2. cmd.todo \in Seq(StepsOf(cmd.op))
  BY DEF LifecycleInv, CommandInv, ShapeInv, Restoring
<1>3. cmd.todo \in Seq(Steps)
  BY DEF LifecycleInv, TypeOK
<1>4. QED
  BY <1>1, <1>2, <1>3, TailFacts

\* Where a command can raise, a failure is either undone or has nothing to undo.
LEMMA RaiseSafe ==
  ASSUME LifecycleInv, Running, ~Restoring, Raise, UNCHANGED <<backups, start>>,
         UNCHANGED used \/ Use("errors"), files' \in Home,
         \A id \in ProviderIds :
           Foreign(start, id) => Same(files', start, Entry(id)) /\ files'[Dir(id)] # Absent,
         ~InTry => Same(files', start, AnswersFor(cmd.op))
  PROVE  LifecycleInv'
<1>0. used' \in [DOMAIN Bound -> Nat] /\ \A j \in DOMAIN Bound : used'[j] <= Bound[j]
  BY ErrorBounded
<1>1. CASE ~InTry
  <2>1. Stop("failed") /\ "failed" \in Results \ {"none"}
    BY <1>1 DEF Raise, Results
  <2>2. Same(files', start, AnswersFor(cmd.op)) /\ Same(files', start, Covered(cmd.op))
    BY <1>1, NodesOf DEF AnswersFor, Covered, Same
  <2>3. CommandInv' /\ Promises'
    BY <2>1, <2>2, StopSafe
  <2>4. TypeOK'
    BY <1>0, <2>1 DEF LifecycleInv, TypeOK, Stop, Idle, Running, Results
  <2>5. QED
    BY <2>3, <2>4 DEF LifecycleInv
<1>2. CASE InTry
  <2>0. cmd.sealed
    BY <1>2 DEF InTry
  <2>1. /\ cmd' = [cmd EXCEPT !.todo = RestoreBackup, !.failing = TRUE] /\ outcome' = outcome
    BY <1>2 DEF Raise
  <2>2. /\ cmd'.op = cmd.op /\ cmd'.todo = RestoreBackup /\ cmd'.sealed = TRUE /\ cmd'.failing = TRUE
        /\ cmd' \in [op : Ops \cup {"none"}, todo : Seq(Steps), sealed : BOOLEAN, failing : BOOLEAN]
    BY <2>0, <2>1, RestorePrograms DEF LifecycleInv, TypeOK
  <2>3. TypeOK'
    BY <1>0, <2>1, <2>2 DEF LifecycleInv, TypeOK
  <2>4. ShapeInv'
    BY <2>0, <2>1, <2>2 DEF LifecycleInv, CommandInv, ShapeInv, Running, Pending
  <2>5. UnsealedInv' /\ ActivateInv' /\ PolicyInv'
    BY <2>2 DEF UnsealedInv, ActivateInv, PolicyInv
  <2>6. SealedInv' /\ RestoreInv'
    BY <2>0, <2>2, RestorePrograms
       DEF LifecycleInv, CommandInv, SealedInv, RestoreInv, Same, Covered
  <2>7. CheckInv'
    BY <2>2, RestorePrograms DEF CheckInv
  <2>8. ForeignInv'
    <3> SUFFICES ASSUME NEW id \in ProviderIds, Foreign(start, id)
                 PROVE  /\ Same(files', start, Entry(id)) /\ files'[Dir(id)] # Absent
                        /\ Guarded(cmd'.todo, id) /\ cmd.op \notin Unprotected
      BY <2>2 DEF ForeignInv, Same, Foreign
    <3>1. cmd.op \notin Unprotected
      BY <2>0 DEF LifecycleInv, CommandInv, ForeignInv, Restoring
    <3>2. QED
      BY <2>2, <3>1, RestorePrograms
  <2>9. CommandInv' /\ Running'
    BY <2>2, <2>4, <2>5, <2>6, <2>7, <2>8 DEF CommandInv, Running
  <2>10. QED
    BY <2>3, <2>9, AfterAStep DEF LifecycleInv
<1>3. QED
  BY <1>1, <1>2

\* A step of a command that changes the home and goes on to the next step.
LEMMA AdvanceSafe ==
  ASSUME LifecycleInv, Running, ~Restoring, cmd.todo # <<>>, Advance,
         UNCHANGED start, UNCHANGED used \/ Use("errors"), files' \in Home,
         backups' \in Seq([sealed : BOOLEAN, snap : Snapshots]),
         Head(cmd.todo) # Seal, cmd.sealed => backups' = backups,
         backups # <<>> \/ Head(cmd.todo) = Make => backups' # <<>>,
         cmd.op \in BackingUp /\ ~cmd.sealed => Same(files', start, Covered(cmd.op)),
         cmd.op \in Bare /\ Head(cmd.todo) \notin PolicyPuts \cup {Activate} =>
           files' = files \/ \A p \in Covered(cmd.op) : files'[p] = files[p],
         cmd.op \in Activating =>
           /\ \/ ActiveProviders(files') = <<Canonical>>
              \/ files'[Yaml] = files[Yaml] /\ Head(cmd.todo) # Activate
           /\ \/ files'[Router] \in Policies
              \/ files'[Router] = files[Router] /\ Head(cmd.todo) \notin PolicyPuts,
         \A id \in ProviderIds :
           Foreign(start, id) =>
             /\ Same(files', start, Entry(id)) /\ files'[Dir(id)] # Absent
             /\ Guarded(Tail(cmd.todo), id) /\ cmd.op \notin Unprotected
  PROVE  LifecycleInv'
<1>1. /\ cmd' \in [op : Ops \cup {"none"}, todo : Seq(Steps), sealed : BOOLEAN, failing : BOOLEAN]
      /\ cmd'.op = cmd.op /\ cmd'.todo = Tail(cmd.todo) /\ cmd'.sealed = cmd.sealed
      /\ cmd'.failing = cmd.failing /\ outcome' = outcome
  BY HeadOfCommand DEF LifecycleInv, TypeOK, Advance
<1>2. cmd.todo \in Seq(Steps)
  BY DEF LifecycleInv, TypeOK
<1>3. TypeOK'
  BY <1>1, ErrorBounded DEF LifecycleInv, TypeOK
<1>4. ShapeInv'
  BY <1>1, HeadOfCommand DEF LifecycleInv, CommandInv, ShapeInv, Running, Restoring, Pending
<1>5. UnsealedInv'
  <2> SUFFICES ASSUME cmd.op \in BackingUp, ~cmd.sealed
               PROVE  /\ Sealing(Tail(cmd.todo), BeforeSeal(cmd.op))
                      /\ Has(Tail(cmd.todo), Make) \/ backups' # <<>>
    BY <1>1 DEF UnsealedInv, Same
  <2>1. Sealing(cmd.todo, BeforeSeal(cmd.op)) /\ (Has(cmd.todo, Make) \/ backups # <<>>)
    BY DEF LifecycleInv, CommandInv, UnsealedInv
  <2>2. QED
    BY <1>2, <2>1, SealingTail, HasTail
<1>6. SealedInv'
  <2>1. cmd.sealed => NoBackup(cmd.todo)
    BY DEF LifecycleInv, CommandInv, SealedInv
  <2>2. cmd.sealed => NoBackup(Tail(cmd.todo))
    BY <1>2, <2>1, NoBackupTail
  <2>3. QED
    BY <1>1, <2>2 DEF LifecycleInv, CommandInv, SealedInv, Same
<1>7. CheckInv'
  <2> SUFFICES ASSUME cmd.op \in Unprotected, NEW i \in 1..Len(Tail(cmd.todo))
               PROVE  Tail(cmd.todo)[i] # AssertWritable
    BY <1>1 DEF CheckInv
  <2>1. i + 1 \in 1..Len(cmd.todo) /\ i + 1 # 1 /\ Tail(cmd.todo)[i] = cmd.todo[i + 1]
    BY <1>2, TailFacts
  <2>2. QED
    BY <2>1 DEF LifecycleInv, CommandInv, CheckInv
<1>13. PolicyInv'
  <2> SUFFICES ASSUME cmd.op \in Bare
               PROVE  /\ PolicyLast(Tail(cmd.todo))
                      /\ WritesToCome(Tail(cmd.todo)) => Same(files', start, Covered(cmd.op))
    BY <1>1 DEF PolicyInv, Same, Covered, WritesToCome, Has
  <2>1. /\ PolicyLast(cmd.todo)
        /\ WritesToCome(cmd.todo) => Same(files, start, Covered(cmd.op))
    BY DEF LifecycleInv, CommandInv, PolicyInv, Restoring
  <2>2. QED
    BY <1>2, <2>1, PolicyLastTail DEF Same
<1>8. RestoreInv'
  BY <1>1 DEF RestoreInv, Restoring
<1>9. ActivateInv'
  <2> SUFFICES ASSUME cmd.op \in Activating
               PROVE  /\ Has(Tail(cmd.todo), Activate) \/ ActiveProviders(files') = <<Canonical>>
                      /\ \/ \E step \in PolicyPuts : Has(Tail(cmd.todo), step)
                         \/ files'[Router] \in Policies
    BY <1>1 DEF ActivateInv
  <2>1. /\ Has(cmd.todo, Activate) \/ ActiveProviders(files) = <<Canonical>>
        /\ (\E step \in PolicyPuts : Has(cmd.todo, step)) \/ files[Router] \in Policies
    BY DEF LifecycleInv, CommandInv, ActivateInv, Restoring
  <2>2. files'[Yaml] = files[Yaml] => ActiveProviders(files') = ActiveProviders(files)
    BY DEF ActiveProviders
  <2>3. Has(Tail(cmd.todo), Activate) \/ ActiveProviders(files') = <<Canonical>>
    BY <1>2, <2>1, <2>2, HasTail
  <2>4. (\E step \in PolicyPuts : Has(Tail(cmd.todo), step)) \/ files'[Router] \in Policies
    BY <1>2, <2>1, HasTail
  <2>5. QED
    BY <2>3, <2>4
<1>10. ForeignInv'
  BY <1>1 DEF ForeignInv, Foreign, Same
<1>11. CommandInv' /\ Running'
  BY <1>1, <1>4, <1>5, <1>6, <1>7, <1>8, <1>9, <1>10, <1>13 DEF CommandInv, Running
<1>12. QED
  BY <1>3, <1>11, AfterAStep DEF LifecycleInv

-----------------------------------------------------------------------------
(***************************************************************************)
(* The steps of the running command.                                       *)
(***************************************************************************)
\* A step left, or a command that is not idle, is one that runs.
LEMMA StepOfRunning ==
  ASSUME LifecycleInv, cmd.todo # <<>> \/ cmd # Idle
  PROVE  Running
BY DEF LifecycleInv, CommandInv, ShapeInv, Running, Idle

\* Backups that stay keep their type.
LEMMA BackupsKept ==
  ASSUME LifecycleInv, UNCHANGED backups
  PROVE  backups' \in Seq([sealed : BOOLEAN, snap : Snapshots])
BY DEF LifecycleInv, TypeOK

\* The commands and the steps they are in, by the kind of the next step.
LEMMA WhoseStep ==
  ASSUME LifecycleInv, cmd.todo # <<>>
  PROVE  /\ Restoring => cmd.todo = RestoreBackup \/ cmd.todo = <<UnlinkAbsent>>
         /\ Restoring => Head(cmd.todo).kind \in {"copy back", "unlink"}
         /\ ~Restoring =>
              /\ Head(cmd.todo).kind \notin {"copy back", "unlink"}
              /\ Head(cmd.todo).kind = "rmtree" <=> cmd.op = "uninstall-plugin"
              /\ Head(cmd.todo).kind = "make_backup" <=> Head(cmd.todo) = Make
              /\ Head(cmd.todo).kind = "seal_backup" <=> Head(cmd.todo) = Seal
              /\ Head(cmd.todo).kind = "assert_writable" <=> Head(cmd.todo) = AssertWritable
              /\ Head(cmd.todo).kind = "external" <=> Head(cmd.todo) = External
              /\ Head(cmd.todo).kind = "activate" <=> Head(cmd.todo) = Activate
              /\ Head(cmd.todo).kind \in {"make_backup", "seal_backup", "external", "activate"} =>
                   cmd.op \in BackingUp
              /\ Head(cmd.todo).kind = "external" => cmd.op \in InOneTry
              /\ Head(cmd.todo).kind = "assert_writable" =>
                   cmd.op \in InOneTry \cup Unprotected
<1>1. CASE Restoring
  <2>1. cmd.todo = RestoreBackup \/ cmd.todo = <<UnlinkAbsent>>
    BY <1>1 DEF LifecycleInv, CommandInv, RestoreInv
  <2>2. Head(RestoreBackup) = CopyBack /\ Head(<<UnlinkAbsent>>) = UnlinkAbsent
    BY DEF RestoreBackup
  <2>3. QED
    BY <1>1, <2>1, <2>2, StepKinds
<1>2. CASE ~Restoring
  <2> DEFINE s == Head(cmd.todo)
  <2>1. cmd.op \in Ops \ {"rollback"} /\ s \in StepsOf(cmd.op)
    BY <1>2, StepOfRunning, HeadOfCommand
  <2> HIDE DEF s
  <2>4. CASE cmd.op = "uninstall-plugin"
    <3>1. s.kind = "rmtree"
      BY <2>1, <2>4, StepKinds DEF StepsOf
    <3>2. QED
      BY <1>2, <2>4, <3>1, NamedKinds DEF s, BackingUp, InOneTry
  <2>5. CASE cmd.op = "init"
    <3>1. s.kind = "put"
      BY <2>1, <2>5, StepKinds DEF StepsOf
    <3>2. QED
      BY <1>2, <2>5, <3>1, NamedKinds DEF s
  <2>6. CASE cmd.op = "install-plugin"
    <3>1. s \in {AssertWritable} \cup EntryPuts
      BY <2>1, <2>6 DEF StepsOf
    <3>2. s = AssertWritable \/ s.kind = "put"
      BY <3>1, StepKinds
    <3>3. QED
      BY <1>2, <2>6, <3>2, NamedKinds DEF s, Unprotected
  <2>7. CASE cmd.op \in BackingUp
    <3>1. s \in BackupCommandSteps /\ cmd.op # "uninstall-plugin"
      BY <2>1, <2>7 DEF StepsOf, BackingUp, InOneTry, PlanSteps, BackupCommandSteps
    <3>4. cmd.op \notin InOneTry =>
            /\ s.kind # "external"
            /\ cmd.op # "adopt" => s.kind # "assert_writable"
      <4> SUFFICES ASSUME cmd.op \notin InOneTry
                   PROVE  /\ s.kind # "external"
                          /\ cmd.op # "adopt" => s.kind # "assert_writable"
        OBVIOUS
      <4>1. s \in {AssertWritable} \cup EntryPuts \cup PlanSteps /\ (cmd.op # "adopt" => s \in PlanSteps)
        BY <2>1, <2>7 DEF StepsOf, BackingUp
      <4>2. QED
        BY <4>1, NamedKinds, StepKinds DEF PlanSteps
    <3>2. /\ s.kind \in Kinds \ {"rmtree", "copy back", "unlink"}
          /\ s.kind = "make_backup" <=> s = Make
          /\ s.kind = "seal_backup" <=> s = Seal
          /\ s.kind = "assert_writable" <=> s = AssertWritable
          /\ s.kind = "external" <=> s = External
          /\ s.kind = "activate" <=> s = Activate
      BY <3>1, StepKinds
    <3>3. QED
      BY <1>2, <2>7, <3>1, <3>2, <3>4 DEF s, Unprotected
  <2>8. QED
    BY <2>1, <2>4, <2>5, <2>6, <2>7 DEF Ops
<1>3. QED
  BY <1>1, <1>2

\* Before the seal the next step is one that may come before it.
LEMMA HeadBeforeSeal ==
  ASSUME LifecycleInv, cmd.todo # <<>>, cmd.op \in BackingUp, ~cmd.sealed
  PROVE  /\ Head(cmd.todo) = Seal \/ Head(cmd.todo) \in BeforeSeal(cmd.op)
         /\ Same(files, start, Covered(cmd.op))
         /\ Head(cmd.todo).kind \in {"make_backup", "seal_backup", "assert_writable", "put"}
         /\ Head(cmd.todo).kind \in {"assert_writable", "put"} => cmd.op = "adopt"
<1>1. cmd.todo \in Seq(Steps) /\ Sealing(cmd.todo, BeforeSeal(cmd.op))
  BY DEF LifecycleInv, TypeOK, CommandInv, UnsealedInv
<1>2. Head(cmd.todo) = Seal \/ Head(cmd.todo) \in BeforeSeal(cmd.op)
  BY <1>1, SealingTail
<1>3. QED
  BY <1>2, NamedKinds, StepKinds DEF BeforeSeal, LifecycleInv, CommandInv, UnsealedInv

\* What a write puts where, and which commands may be the ones that write it.
LEMMA PutStep ==
  ASSUME LifecycleInv, cmd.todo # <<>>, Head(cmd.todo).kind = "put",
         NEW s, s = Head(cmd.todo)
  PROVE  /\ Running /\ ~Restoring /\ cmd.op \in Ops \ {"rollback", "uninstall-plugin"}
         /\ s.at \in Nodes \ {Yaml} /\ s.value \in Contents(s.at) /\ s.value # Absent
         /\ s.at = Router => s.value \in Policies
         /\ s \in PolicyPuts => s.at = Router /\ s.value \in Policies
         /\ s \notin {Make, Seal, External, Activate, AssertWritable}
         /\ cmd.op \in Bare =>
              s \in PolicyPuts \/ (s \in EntryPuts /\ cmd.op \in Unprotected)
<1>1. /\ Running /\ ~Restoring /\ cmd.op \in Ops \ {"rollback", "uninstall-plugin"}
      /\ s \in StepsOf(cmd.op)
  BY StepOfRunning, WhoseStep, HeadOfCommand
<1>2. s \in BackupCommandSteps \cup {AssertWritable} \cup EntryPuts \cup PolicyPuts
  BY <1>1 DEF StepsOf, PlanSteps, BackupCommandSteps
<1>3. /\ s.at \in Nodes \ {Yaml} /\ s.value \in Contents(s.at)
      /\ s.at = Router => s.value \in Policies
      /\ s \in PolicyPuts => s.at = Router /\ s.value \in Policies
  BY <1>2, StepKinds
<1>4. s \notin {Make, Seal, External, Activate, AssertWritable}
  BY NamedKinds
<1>5. s.value # Absent
  <2>1. WriteHindsightProfile.value # Absent /\ WriteSecretEnv.value # Absent
    BY DEF WriteHindsightProfile, WriteSecretEnv, Put, Step, Absent
  <2>2. \A t \in PolicyPuts : t.value # Absent
    BY StepKinds DEF Policies, Absent
  <2>3. QED
    BY <1>2, <1>4, <2>1, <2>2, StepKinds DEF BackupCommandSteps
<1>6. ASSUME cmd.op \in Bare
      PROVE  s \in PolicyPuts \/ (s \in EntryPuts /\ cmd.op \in Unprotected)
  <2>1. CASE cmd.op \in Unprotected
    BY <1>1, <1>4, <2>1 DEF StepsOf, PlanSteps, Unprotected
  <2>2. CASE cmd.op = "init"
    BY <1>1, <2>2 DEF StepsOf
  <2>3. CASE cmd.op \in {"provider", "upgrade-config"}
    BY <1>1, <1>4, <2>3 DEF StepsOf, PlanSteps
  <2>4. QED
    BY <1>6, <2>1, <2>2, <2>3 DEF Bare, Unprotected
<1>7. QED
  BY <1>1, <1>3, <1>4, <1>5, <1>6

\* A write goes into no plugin directory of the user's.
LEMMA PutElsewhere ==
  ASSUME LifecycleInv, cmd.todo # <<>>, Head(cmd.todo).kind = "put",
         NEW id \in ProviderIds, Foreign(start, id)
  PROVE  /\ Same(files, start, Entry(id)) /\ files[Dir(id)] # Absent
         /\ Head(cmd.todo).at \notin Entry(id) /\ Guarded(Tail(cmd.todo), id)
         /\ cmd.op \notin Unprotected
<1>1. Running /\ cmd.op # "rollback" /\ Head(cmd.todo) # AssertWritable
  BY PutStep
<1>2. /\ Same(files, start, Entry(id)) /\ files[Dir(id)] # Absent /\ Guarded(cmd.todo, id)
      /\ cmd.op \notin Unprotected
  BY <1>1 DEF LifecycleInv, CommandInv, ForeignInv
<1>3. Guarded(Tail(cmd.todo), id) /\ ~Touches(Head(cmd.todo), id)
  BY <1>1, <1>2, GuardedTail DEF LifecycleInv, TypeOK
<1>4. QED
  BY <1>2, <1>3 DEF Touches

\* write_config, write_secret_env, an entry: one file is written.
LEMMA PutFileSafe ==
  ASSUME LifecycleInv, PutFile
  PROVE  LifecycleInv'
<1> DEFINE s == Head(cmd.todo)
<1>1. /\ cmd.todo # <<>> /\ s.kind = "put" /\ files' = [files EXCEPT ![s.at] = s.value]
      /\ Advance /\ UNCHANGED <<backups, start, used>>
  BY DEF PutFile, At
<1>2. /\ Running /\ ~Restoring /\ cmd.op \in Ops \ {"rollback", "uninstall-plugin"}
      /\ s.at \in Nodes \ {Yaml} /\ s.value \in Contents(s.at) /\ s.value # Absent
      /\ s.at = Router => s.value \in Policies
      /\ s \in PolicyPuts => s.at = Router /\ s.value \in Policies
      /\ s \notin {Make, Seal, External, Activate, AssertWritable}
      /\ cmd.op \in Bare => s \in PolicyPuts \/ (s \in EntryPuts /\ cmd.op \in Unprotected)
  BY <1>1, PutStep
<1> HIDE DEF s
<1>3. files \in [Nodes -> Content] /\ \A n \in Nodes : files[n] \in Contents(n)
  BY DEF LifecycleInv, TypeOK, Home
<1>4. \A n \in Nodes : files'[n] = IF n = s.at THEN s.value ELSE files[n]
  BY <1>1, <1>3
<1>5. files' \in Home
  BY <1>1, <1>2, <1>3, <1>4, ContentsOf DEF Home
<1>6. Yaml \in Nodes /\ Router \in Nodes
  BY NodesOf
<1>7. ASSUME s \in EntryPuts, cmd.op \in Unprotected
      PROVE  \A p \in Covered(cmd.op) : files'[p] = files[p]
  <2>1. Covered(cmd.op) = ConfigPaths /\ s.at \notin ConfigPaths /\ ConfigPaths \subseteq Nodes
    BY <1>7, StepKinds, NodesApart, NodesOf DEF Covered
  <2>2. QED
    BY <1>4, <2>1
<1>8. cmd.op \in BackingUp /\ ~cmd.sealed => Same(files', start, Covered(cmd.op))
  <2> SUFFICES ASSUME cmd.op \in BackingUp, ~cmd.sealed
               PROVE  Same(files', start, Covered(cmd.op))
    OBVIOUS
  <2>1. cmd.op = "adopt" /\ s \in BeforeSeal(cmd.op) /\ Same(files, start, Covered(cmd.op))
    BY <1>1, <1>2, HeadBeforeSeal DEF s
  <2>2. s \in EntryPuts /\ cmd.op \in Unprotected
    BY <1>2, <2>1 DEF BeforeSeal, Unprotected
  <2>3. QED
    BY <1>7, <2>1, <2>2 DEF Same
<1>9. cmd.op \in Bare /\ s \notin PolicyPuts => \A p \in Covered(cmd.op) : files'[p] = files[p]
  BY <1>2, <1>7
<1>10. ASSUME NEW id \in ProviderIds, Foreign(start, id)
       PROVE  /\ Same(files', start, Entry(id)) /\ files'[Dir(id)] # Absent
              /\ Guarded(Tail(cmd.todo), id) /\ cmd.op \notin Unprotected
  <2>1. /\ Same(files, start, Entry(id)) /\ files[Dir(id)] # Absent
        /\ s.at \notin Entry(id) /\ Guarded(Tail(cmd.todo), id) /\ cmd.op \notin Unprotected
    BY <1>1, <1>10, PutElsewhere DEF s
  <2>2. Entry(id) \subseteq Nodes /\ Dir(id) \in Nodes
    BY NodesOf
  <2>3. QED
    BY <1>2, <1>4, <2>1, <2>2 DEF Same
<1>11. /\ files'[Yaml] = files[Yaml]
       /\ files'[Router] \in Policies \/ (files'[Router] = files[Router] /\ s \notin PolicyPuts)
  BY <1>2, <1>4, <1>6
<1>12. QED
  BY <1>1, <1>2, <1>5, <1>8, <1>9, <1>10, <1>11, BackupsKept, AdvanceSafe DEF s

\* A write that raises is undone in a try; outside of one it is the first
\* write, and what it leaves behind is not what the command answers for.
LEMMA WriteFailsSafe ==
  ASSUME LifecycleInv, WriteFails
  PROVE  LifecycleInv'
<1> DEFINE s == Head(cmd.todo)
<1>1. /\ cmd.todo # <<>> /\ s.kind = "put" /\ Use("errors") /\ Raise /\ UNCHANGED <<backups, start>>
      /\ \/ files' = files
         \/ s.at \notin Dirs \cup {Router} /\ files' = [files EXCEPT ![s.at] = s.value]
  BY DEF WriteFails, At
<1>2. /\ Running /\ ~Restoring /\ cmd.op \in Ops \ {"rollback", "uninstall-plugin"}
      /\ s.at \in Nodes \ {Yaml} /\ s.value \in Contents(s.at)
      /\ s \in PolicyPuts => s.at = Router
      /\ s # AssertWritable
      /\ cmd.op \in Bare => s \in PolicyPuts \/ (s \in EntryPuts /\ cmd.op \in Unprotected)
  BY <1>1, PutStep
<1>3. AnswersFor(cmd.op) = Covered(cmd.op)
  BY <1>2, AnswersCovered
<1>4. ASSUME NEW id \in ProviderIds, Foreign(start, id)
      PROVE  /\ Same(files, start, Entry(id)) /\ files[Dir(id)] # Absent /\ s.at \notin Entry(id)
  BY <1>1, <1>4, PutElsewhere
<1>5. InTry \/ cmd.op \in Bare
  <2>1. cmd.op \in InOneTry => cmd.sealed
    BY <1>1, HeadBeforeSeal DEF BackingUp, InOneTry
  <2>2. QED
    BY <1>2, <2>1 DEF InTry, Ops, BackingUp, Bare
<1>6. cmd.op \in Bare => Same(files, start, Covered(cmd.op))
  <2> SUFFICES ASSUME cmd.op \in Bare
               PROVE  Same(files, start, Covered(cmd.op))
    OBVIOUS
  <2>1. Has(cmd.todo, s) /\ s \in Writes
    BY <1>1, <1>2, TailFacts DEF LifecycleInv, TypeOK, Has, Writes
  <2>2. QED
    BY <1>2, <2>1 DEF LifecycleInv, CommandInv, PolicyInv, WritesToCome, Restoring
<1> HIDE DEF s
<1>7. files \in [Nodes -> Content] /\ \A n \in Nodes : files[n] \in Contents(n)
  BY DEF LifecycleInv, TypeOK, Home
<1>8. \A n \in Nodes : files'[n] = files[n] \/ (n = s.at /\ n \notin Dirs \cup {Router} /\ files'[n] = s.value)
  BY <1>1, <1>7
<1>9. files' \in Home
  BY <1>1, <1>2, <1>7, <1>8, ContentsOf DEF Home
<1>10. ASSUME NEW id \in ProviderIds, Foreign(start, id)
       PROVE  Same(files', start, Entry(id)) /\ files'[Dir(id)] # Absent
  <2>1. Entry(id) \subseteq Nodes /\ Dir(id) \in Nodes /\ Dir(id) \in Dirs
    BY NodesOf
  <2>2. QED
    BY <1>4, <1>8, <1>10, <2>1 DEF Same
<1>11. ~InTry => Same(files', start, AnswersFor(cmd.op))
  <2> SUFFICES ASSUME ~InTry, NEW p \in Covered(cmd.op)
               PROVE  files'[p] = files[p]
    BY <1>3, <1>5, <1>6 DEF Same
  <2>1. p \in Nodes
    BY NodesOf DEF Covered
  <2>2. s \in PolicyPuts \/ (s \in EntryPuts /\ cmd.op \in Unprotected)
    BY <1>2, <1>5
  <2>3. CASE s \in PolicyPuts
    BY <1>2, <1>8, <2>1, <2>3
  <2>4. CASE s \in EntryPuts /\ cmd.op \in Unprotected
    <3>1. Covered(cmd.op) = ConfigPaths /\ s.at \notin ConfigPaths
      BY <2>4, StepKinds, NodesApart DEF Covered
    <3>2. QED
      BY <1>8, <2>1, <3>1
  <2>5. QED
    BY <2>2, <2>3, <2>4
<1>12. QED
  BY <1>1, <1>2, <1>9, <1>10, <1>11, RaiseSafe

\* What a step that changes no entry leaves of a user's plugin.
LEMMA ForeignKept ==
  ASSUME LifecycleInv, Running, ~Restoring, cmd.todo # <<>>, Head(cmd.todo) # AssertWritable,
         \A n \in EntryPaths \cup Dirs : files'[n] = files[n],
         NEW id \in ProviderIds, Foreign(start, id)
  PROVE  /\ Same(files', start, Entry(id)) /\ files'[Dir(id)] # Absent
         /\ Guarded(Tail(cmd.todo), id) /\ cmd.op \notin Unprotected
<1>1. /\ Same(files, start, Entry(id)) /\ files[Dir(id)] # Absent /\ Guarded(cmd.todo, id)
      /\ cmd.op \notin Unprotected
  BY DEF LifecycleInv, CommandInv, ForeignInv, Restoring
<1>2. Guarded(Tail(cmd.todo), id)
  BY <1>1, GuardedTail DEF LifecycleInv, TypeOK
<1>3. QED
  BY <1>1, <1>2, NodesOf DEF Same

\* uninstall_plugin_entries: only a directory with the marker is removed.
LEMMA RemoveTreeSafe ==
  ASSUME LifecycleInv, RemoveTree
  PROVE  LifecycleInv'
<1>1. cmd.todo # <<>> /\ Head(cmd.todo).kind = "rmtree" /\ UNCHANGED <<backups, start, used>>
  BY DEF RemoveTree, At
<1>2. Running /\ ~Restoring /\ cmd.op = "uninstall-plugin"
  BY <1>1, StepOfRunning, WhoseStep
<1>3. /\ cmd.op \notin BackingUp \cup Activating \cup Unprotected \cup Bare \cup {"rollback"}
      /\ ~cmd.failing /\ ~cmd.sealed
  BY <1>2 DEF BackingUp, InOneTry, Activating, Unprotected, Bare, Restoring, LifecycleInv, CommandInv, ShapeInv
<1>4. PICK id \in ProviderIds :
        /\ Head(cmd.todo).at = Dir(id)
        /\ \/ \E p \in Entry(id) : files' = [files EXCEPT ![p] = Absent] /\ UNCHANGED <<cmd, outcome>>
           \/ files' = [files EXCEPT ![Dir(id)] = Absent] /\ Advance
  BY DEF RemoveTree
<1>5. files \in [Nodes -> Content] /\ \A n \in Nodes : files[n] \in Contents(n)
  BY DEF LifecycleInv, TypeOK, Home
<1>6. files' \in Home /\ \A n \in Nodes \ (Entry(id) \cup {Dir(id)}) : files'[n] = files[n]
  BY <1>4, <1>5, ContentsOf, NodesOf DEF Home
<1>7. ASSUME NEW other \in ProviderIds, Foreign(start, other)
      PROVE  /\ Same(files', start, Entry(other)) /\ files'[Dir(other)] # Absent
             /\ Guarded(cmd.todo, other) /\ Guarded(Tail(cmd.todo), other)
  <2>1. /\ Same(files, start, Entry(other)) /\ files[Dir(other)] # Absent /\ Guarded(cmd.todo, other)
    BY <1>2, <1>7 DEF LifecycleInv, CommandInv, ForeignInv
  <2>2. Head(cmd.todo) # AssertWritable
    BY <1>1, NamedKinds
  <2>3. Guarded(Tail(cmd.todo), other) /\ ~Touches(Head(cmd.todo), other)
    BY <1>1, <2>1, <2>2, GuardedTail DEF LifecycleInv, TypeOK
  <2>4. other # id
    BY <1>1, <1>4, <2>3 DEF Touches
  <2>5. Entry(other) \cap Entry(id) = {} /\ Dir(other) # Dir(id)
    BY <2>4, NodesApart
  <2>6. /\ Entry(other) \subseteq Nodes \ (Entry(id) \cup {Dir(id)})
        /\ Dir(other) \in Nodes \ (Entry(id) \cup {Dir(id)})
    BY <2>5, NodesOf, NodesApart
  <2>7. QED
    BY <1>6, <2>1, <2>3, <2>6 DEF Same
<1>8. CASE Advance
  <2>1. Head(cmd.todo) \notin {Make, Seal}
    BY <1>1, NamedKinds
  <2>2. QED
    BY <1>1, <1>2, <1>3, <1>6, <1>7, <1>8, <2>1, BackupsKept, AdvanceSafe
<1>9. CASE UNCHANGED <<cmd, outcome>>
  <2>1. TypeOK'
    BY <1>1, <1>6, <1>9 DEF LifecycleInv, TypeOK
  <2>2. ShapeInv' /\ UnsealedInv' /\ SealedInv' /\ CheckInv' /\ PolicyInv' /\ RestoreInv'
        /\ ActivateInv'
    BY <1>1, <1>2, <1>3, <1>9 DEF LifecycleInv, CommandInv, ShapeInv, UnsealedInv, SealedInv,
       CheckInv, PolicyInv, RestoreInv, ActivateInv, Restoring, Running, Unprotected
  <2>3. ForeignInv'
    BY <1>1, <1>3, <1>7, <1>9 DEF ForeignInv, Foreign, Same
  <2>4. CommandInv' /\ Running'
    BY <1>2, <1>9, <2>2, <2>3 DEF CommandInv, Running
  <2>5. QED
    BY <2>1, <2>4, AfterAStep DEF LifecycleInv
<1>10. QED
  BY <1>4, <1>8, <1>9

\* What rmtree cannot remove stays, and is still in a directory of Chronalyn's.
LEMMA RemoveTreeLeavesSafe ==
  ASSUME LifecycleInv, RemoveTreeLeaves
  PROVE  LifecycleInv'
<1>1. /\ cmd.todo # <<>> /\ Head(cmd.todo).kind = "rmtree" /\ Use("errors") /\ Advance
      /\ UNCHANGED <<files, backups, start>>
  BY DEF RemoveTreeLeaves, At
<1>2. Running /\ ~Restoring /\ cmd.op = "uninstall-plugin"
  BY <1>1, StepOfRunning, WhoseStep
<1>3. cmd.op \notin BackingUp \cup Activating \cup Unprotected \cup Bare /\ ~cmd.sealed
  BY <1>2 DEF BackingUp, InOneTry, Activating, Unprotected, Bare, LifecycleInv, CommandInv, ShapeInv
<1>4. Head(cmd.todo) \notin {Make, Seal, AssertWritable}
  BY <1>1, NamedKinds
<1>5. \A id \in ProviderIds : Foreign(start, id) =>
        /\ Same(files', start, Entry(id)) /\ files'[Dir(id)] # Absent
        /\ Guarded(Tail(cmd.todo), id) /\ cmd.op \notin Unprotected
  BY <1>1, <1>2, <1>4, ForeignKept
<1>6. files' \in Home
  BY <1>1 DEF LifecycleInv, TypeOK
<1>7. QED
  BY <1>1, <1>2, <1>3, <1>4, <1>5, <1>6, BackupsKept, AdvanceSafe

\* _assert_writable passes only when no directory is foreign.
LEMMA CheckWritableSafe ==
  ASSUME LifecycleInv, CheckWritable
  PROVE  LifecycleInv'
<1>1. /\ cmd.todo # <<>> /\ Head(cmd.todo).kind = "assert_writable"
      /\ IF Writable(files) THEN Advance ELSE Raise
      /\ UNCHANGED <<files, backups, start, used>>
  BY DEF CheckWritable, At
<1>2. /\ Running /\ ~Restoring /\ Head(cmd.todo) = AssertWritable
      /\ cmd.op \in InOneTry \cup Unprotected
  BY <1>1, StepOfRunning, WhoseStep
<1>3. files \in Home /\ cmd.todo \in Seq(Steps)
  BY DEF LifecycleInv, TypeOK
<1>4. cmd.op \in Unprotected => files = start
  <2>1. cmd.todo[1] = AssertWritable /\ 1 \in 1..Len(cmd.todo)
    BY <1>1, <1>2, <1>3, TailFacts
  <2>2. QED
    BY <2>1 DEF LifecycleInv, CommandInv, CheckInv, Unprotected
<1>8. cmd.op \in InOneTry => cmd.sealed
  BY <1>1, HeadBeforeSeal DEF BackingUp, InOneTry
<1>5. CASE Raise
  <2>1. \A id \in ProviderIds :
          Foreign(start, id) => Same(files', start, Entry(id)) /\ files'[Dir(id)] # Absent
    BY <1>1, <1>2 DEF LifecycleInv, CommandInv, ForeignInv, Restoring, Same
  <2>2. ~InTry => Same(files', start, AnswersFor(cmd.op))
    BY <1>1, <1>2, <1>4, <1>8 DEF InTry, Same, Unprotected
  <2>3. QED
    BY <1>1, <1>2, <1>3, <1>5, <2>1, <2>2, RaiseSafe
<1>6. CASE Writable(files) /\ Advance
  <2>1. ASSUME NEW id \in ProviderIds, Foreign(start, id)
        PROVE  FALSE
    <3>1. Same(files, start, Entry(id)) /\ files[Dir(id)] # Absent
      BY <1>2, <2>1 DEF LifecycleInv, CommandInv, ForeignInv, Restoring
    <3>2. files[Marker(id)] = Absent
      BY <2>1, <3>1, NodesOf DEF Same, Foreign
    <3>3. QED
      BY <1>6, <3>1, <3>2 DEF Writable
  <2>2. Head(cmd.todo) \notin {Make, Seal, Activate} /\ Head(cmd.todo) \notin PolicyPuts
    <3>1. \A s \in PolicyPuts : s.kind = "put"
      BY StepKinds
    <3>2. QED
      BY <1>1, <3>1, NamedKinds
  <2>3. cmd.op \in BackingUp /\ ~cmd.sealed => Same(files', start, Covered(cmd.op))
    BY <1>1, <1>2, <1>4, <1>8 DEF Same, Unprotected
  <2>4. QED
    BY <1>1, <1>2, <1>3, <1>6, <2>1, <2>2, <2>3, BackupsKept, AdvanceSafe
<1>7. QED
  BY <1>1, <1>5, <1>6

\* backup_configuration makes a directory that is not a backup yet.
LEMMA MakeBackupSafe ==
  ASSUME LifecycleInv, MakeBackup
  PROVE  LifecycleInv'
<1>1. /\ cmd.todo # <<>> /\ Head(cmd.todo).kind = "make_backup"
      /\ backups' = Append(backups, [sealed |-> FALSE, snap |-> [p \in Paths |-> Absent]])
      /\ Advance /\ UNCHANGED <<files, start, used>>
  BY DEF MakeBackup, At
<1>2. Running /\ ~Restoring /\ Head(cmd.todo) = Make /\ cmd.op \in BackingUp
  BY <1>1, StepOfRunning, WhoseStep
<1>3. ~cmd.sealed
  BY <1>1, <1>2, NoBackupTail DEF LifecycleInv, TypeOK, CommandInv, SealedInv
<1>4. backups' \in Seq([sealed : BOOLEAN, snap : Snapshots]) /\ backups' # <<>>
  <2>1. [p \in Paths |-> Absent] \in Snapshots
    BY ContentsOf, NodesOf DEF Snapshots
  <2>2. [sealed |-> FALSE, snap |-> [p \in Paths |-> Absent]] \in [sealed : BOOLEAN, snap : Snapshots]
    BY <2>1
  <2>3. QED
    BY <1>1, <2>2, AppendProperties DEF LifecycleInv, TypeOK
<1>5. Head(cmd.todo) \notin {Seal, Activate, AssertWritable} \cup PolicyPuts
  BY <1>1, NamedKinds, StepKinds
<1>6. files' \in Home /\ Same(files', start, Covered(cmd.op))
  BY <1>1, <1>2, <1>3, HeadBeforeSeal DEF LifecycleInv, TypeOK, Same
<1>7. \A id \in ProviderIds : Foreign(start, id) =>
        /\ Same(files', start, Entry(id)) /\ files'[Dir(id)] # Absent
        /\ Guarded(Tail(cmd.todo), id) /\ cmd.op \notin Unprotected
  BY <1>1, <1>2, <1>5, ForeignKept
<1>8. QED
  BY <1>1, <1>2, <1>3, <1>4, <1>5, <1>6, <1>7, AdvanceSafe

\* A backup that cannot be made is the end of a command that has changed nothing.
LEMMA BackupFailsSafe ==
  ASSUME LifecycleInv, BackupFails
  PROVE  LifecycleInv'
<1>1. /\ cmd.todo # <<>> /\ Head(cmd.todo).kind \in {"make_backup", "seal_backup"}
      /\ Use("errors") /\ Raise /\ UNCHANGED <<files, backups, start>>
  BY DEF BackupFails, At
<1>2. Running /\ ~Restoring /\ Head(cmd.todo) \in {Make, Seal} /\ cmd.op \in BackingUp
  BY <1>1, StepOfRunning, WhoseStep
<1>3. ~cmd.sealed
  BY <1>1, <1>2, NoBackupTail DEF LifecycleInv, TypeOK, CommandInv, SealedInv
<1>4. Head(cmd.todo) # AssertWritable
  BY <1>1, NamedKinds
<1>5. cmd.op # "rollback" /\ AnswersFor(cmd.op) = Covered(cmd.op)
  BY <1>2, <1>4, AnswersCovered DEF Restoring
<1>6. Same(files', start, AnswersFor(cmd.op))
  BY <1>1, <1>2, <1>3, <1>5, HeadBeforeSeal DEF Same
<1>7. \A id \in ProviderIds :
        Foreign(start, id) => Same(files', start, Entry(id)) /\ files'[Dir(id)] # Absent
  BY <1>1, <1>2, <1>4, ForeignKept
<1>8. files' \in Home
  BY <1>1 DEF LifecycleInv, TypeOK
<1>9. QED
  BY <1>1, <1>2, <1>6, <1>7, <1>8, RaiseSafe

\* An external command only runs after the seal.
LEMMA RunExternalSafe ==
  ASSUME LifecycleInv, RunExternal
  PROVE  LifecycleInv'
<1>1. /\ cmd.todo # <<>> /\ Head(cmd.todo).kind = "external" /\ (Advance \/ Raise)
      /\ UNCHANGED <<files, backups, start, used>>
  BY DEF RunExternal, At
<1>2. Running /\ ~Restoring /\ Head(cmd.todo) = External /\ cmd.op \in BackingUp \cap InOneTry
  BY <1>1, StepOfRunning, WhoseStep
<1>3. cmd.sealed /\ InTry
  BY <1>1, <1>2, HeadBeforeSeal DEF InTry
<1>4. Head(cmd.todo) \notin {Make, Seal, Activate, AssertWritable} \cup PolicyPuts
  BY <1>1, NamedKinds, StepKinds
<1>5. files' \in Home
  BY <1>1 DEF LifecycleInv, TypeOK
<1>6. \A id \in ProviderIds : Foreign(start, id) =>
        /\ Same(files', start, Entry(id)) /\ files'[Dir(id)] # Absent
        /\ Guarded(Tail(cmd.todo), id) /\ cmd.op \notin Unprotected
  BY <1>1, <1>2, <1>4, ForeignKept
<1>7. CASE Raise
  BY <1>1, <1>2, <1>3, <1>5, <1>6, <1>7, RaiseSafe
<1>8. CASE Advance
  BY <1>1, <1>2, <1>3, <1>4, <1>5, <1>6, <1>8, BackupsKept, AdvanceSafe
<1>9. QED
  BY <1>1, <1>7, <1>8

\* The activation ends as the only provider, or raises inside the try.
LEMMA ActivateSafe ==
  ASSUME LifecycleInv, ActivateProvider
  PROVE  LifecycleInv'
<1>1. cmd.todo # <<>> /\ Head(cmd.todo).kind = "activate" /\ UNCHANGED <<backups, start, used>>
  BY DEF ActivateProvider, At
<1>2. PICK yaml \in {files[Yaml], Canonical, "both"} :
        /\ files' = [files EXCEPT ![Yaml] = yaml]
        /\ Raise \/ (ActiveProviders(files') = <<Canonical>> /\ Advance)
  BY DEF ActivateProvider
<1>3. Running /\ ~Restoring /\ Head(cmd.todo) = Activate /\ cmd.op \in BackingUp
  BY <1>1, StepOfRunning, WhoseStep
<1>4. cmd.sealed /\ InTry
  BY <1>1, <1>3, HeadBeforeSeal DEF InTry, At
<1>5. Head(cmd.todo) \notin {Make, Seal, AssertWritable} \cup PolicyPuts
  BY <1>1, NamedKinds, StepKinds
<1>6. files \in [Nodes -> Content] /\ \A n \in Nodes : files[n] \in Contents(n)
  BY DEF LifecycleInv, TypeOK, Home
<1>7. yaml \in Contents(Yaml) /\ Yaml \in Nodes /\ Router \in Nodes /\ Yaml # Router
  BY <1>6, ContentsOf, NodesOf, NodesApart
<1>8. files' \in Home
  BY <1>2, <1>6, <1>7, ContentsOf DEF Home
<1>9. \A n \in EntryPaths \cup Dirs \cup {Router} : files'[n] = files[n]
  BY <1>2, <1>6, <1>7, NodesApart, NodesOf
<1>10. \A id \in ProviderIds : Foreign(start, id) =>
         /\ Same(files', start, Entry(id)) /\ files'[Dir(id)] # Absent
         /\ Guarded(Tail(cmd.todo), id) /\ cmd.op \notin Unprotected
  BY <1>1, <1>3, <1>5, <1>9, ForeignKept
<1>11. CASE Raise
  BY <1>1, <1>3, <1>4, <1>8, <1>10, <1>11, RaiseSafe
<1>12. CASE ActiveProviders(files') = <<Canonical>> /\ Advance
  BY <1>1, <1>3, <1>4, <1>5, <1>8, <1>9, <1>10, <1>12, BackupsKept, AdvanceSafe
<1>13. QED
  BY <1>2, <1>11, <1>12

\* backup.json makes the home as the command found it the newest backup.
LEMMA SealBackupSafe ==
  ASSUME LifecycleInv, SealBackup
  PROVE  LifecycleInv'
<1> DEFINE copy == [sealed |-> TRUE, snap |-> Snapshot(files)]
<1>1. /\ cmd.todo # <<>> /\ Head(cmd.todo).kind = "seal_backup"
      /\ backups' = [backups EXCEPT ![Len(backups)] = copy]
      /\ cmd' = [cmd EXCEPT !.todo = Tail(@), !.sealed = TRUE] /\ outcome' = outcome
      /\ UNCHANGED <<files, start, used>>
  BY DEF SealBackup, At
<1>2. Running /\ ~Restoring /\ Head(cmd.todo) = Seal /\ cmd.op \in BackingUp
  BY <1>1, StepOfRunning, WhoseStep
<1>3. cmd.todo \in Seq(Steps) /\ backups \in Seq([sealed : BOOLEAN, snap : Snapshots]) /\ files \in Home
  BY DEF LifecycleInv, TypeOK
<1>4. ~cmd.sealed
  BY <1>1, <1>2, <1>3, NoBackupTail DEF LifecycleInv, CommandInv, SealedInv
<1>5. /\ Same(files, start, Covered(cmd.op)) /\ (Has(cmd.todo, Make) \/ backups # <<>>)
      /\ Sealing(cmd.todo, BeforeSeal(cmd.op))
  BY <1>2, <1>4 DEF LifecycleInv, CommandInv, UnsealedInv
<1>6. Head(cmd.todo) \notin BeforeSeal(cmd.op) \cup {Make, Activate, AssertWritable} \cup PolicyPuts
  BY <1>1, NamedKinds, StepKinds DEF BeforeSeal
<1>7. NoBackup(Tail(cmd.todo))
  BY <1>3, <1>5, <1>6, SealingTail
<1>8. backups # <<>>
  <2>1. ~Has(Tail(cmd.todo), Make)
    BY <1>7 DEF NoBackup, Has
  <2>2. QED
    BY <1>1, <1>3, <1>5, <1>6, <2>1, HasTail
<1>9. copy \in [sealed : BOOLEAN, snap : Snapshots]
  BY <1>3, NodesOf DEF Home, Snapshots, Snapshot
<1> HIDE DEF copy
<1>10. Len(backups) \in 1..Len(backups)
  BY <1>3, <1>8, EmptySeq
<1>11. /\ backups' \in Seq([sealed : BOOLEAN, snap : Snapshots]) /\ backups' # <<>>
       /\ Last(backups') = copy
  <2>1. /\ backups' \in Seq([sealed : BOOLEAN, snap : Snapshots]) /\ Len(backups') = Len(backups)
        /\ backups'[Len(backups)] = copy
    BY <1>1, <1>3, <1>9, <1>10, ExceptSeq
  <2>2. backups' # <<>>
    BY <1>10, <2>1
  <2>3. QED
    BY <2>1, <2>2 DEF Last
<1>12. copy.sealed /\ Same(copy.snap, start, Covered(cmd.op))
  <2>1. Covered(cmd.op) \subseteq Paths
    BY NodesOf DEF Covered
  <2>2. copy.sealed = TRUE /\ copy.snap = Snapshot(files)
    BY DEF copy
  <2>3. QED
    BY <1>5, <2>1, <2>2 DEF Same, Snapshot
<1>13. /\ cmd' \in [op : Ops \cup {"none"}, todo : Seq(Steps), sealed : BOOLEAN, failing : BOOLEAN]
       /\ cmd'.op = cmd.op /\ cmd'.todo = Tail(cmd.todo) /\ cmd'.sealed = TRUE
       /\ cmd'.failing = cmd.failing
  BY <1>1, <1>2, HeadOfCommand DEF LifecycleInv, TypeOK
<1>14. TypeOK'
  BY <1>1, <1>11, <1>13 DEF LifecycleInv, TypeOK
<1>15. ShapeInv'
  BY <1>1, <1>2, <1>13, HeadOfCommand DEF LifecycleInv, CommandInv, ShapeInv, Running, Restoring, Pending
<1>16. UnsealedInv' /\ SealedInv' /\ RestoreInv'
  BY <1>1, <1>2, <1>7, <1>11, <1>12, <1>13 DEF UnsealedInv, SealedInv, RestoreInv, Restoring, Same
<1>17. CheckInv'
  <2> SUFFICES ASSUME cmd.op \in Unprotected, NEW i \in 1..Len(Tail(cmd.todo))
               PROVE  Tail(cmd.todo)[i] # AssertWritable
    BY <1>13 DEF CheckInv
  <2>1. i + 1 \in 1..Len(cmd.todo) /\ i + 1 # 1 /\ Tail(cmd.todo)[i] = cmd.todo[i + 1]
    BY <1>1, <1>3, TailFacts
  <2>2. QED
    BY <2>1 DEF LifecycleInv, CommandInv, CheckInv
<1>22. PolicyInv'
  <2> SUFFICES ASSUME cmd.op \in Bare
               PROVE  /\ PolicyLast(Tail(cmd.todo))
                      /\ WritesToCome(Tail(cmd.todo)) => Same(files, start, Covered(cmd.op))
    BY <1>1, <1>13 DEF PolicyInv, Same, Covered, WritesToCome, Has
  <2>1. PolicyLast(cmd.todo)
    BY <1>2 DEF LifecycleInv, CommandInv, PolicyInv, Restoring
  <2>2. QED
    BY <1>1, <1>3, <1>5, <2>1, PolicyLastTail
<1>18. ActivateInv'
  <2> SUFFICES ASSUME cmd.op \in Activating
               PROVE  /\ Has(Tail(cmd.todo), Activate) \/ ActiveProviders(files) = <<Canonical>>
                      /\ (\E step \in PolicyPuts : Has(Tail(cmd.todo), step)) \/ files[Router] \in Policies
    BY <1>1, <1>13 DEF ActivateInv, ActiveProviders
  <2>1. /\ Has(cmd.todo, Activate) \/ ActiveProviders(files) = <<Canonical>>
        /\ (\E step \in PolicyPuts : Has(cmd.todo, step)) \/ files[Router] \in Policies
    BY <1>2 DEF LifecycleInv, CommandInv, ActivateInv, Restoring
  <2>2. QED
    BY <1>1, <1>3, <1>6, <2>1, HasTail
<1>19. ForeignInv'
  <2>1. \A id \in ProviderIds : Foreign(start, id) =>
          /\ Same(files', start, Entry(id)) /\ files'[Dir(id)] # Absent
          /\ Guarded(Tail(cmd.todo), id) /\ cmd.op \notin Unprotected
    BY <1>1, <1>2, <1>6, ForeignKept
  <2>2. QED
    BY <1>1, <1>13, <2>1 DEF ForeignInv, Foreign, Same
<1>20. CommandInv' /\ Running'
  BY <1>2, <1>13, <1>15, <1>16, <1>17, <1>18, <1>19, <1>22 DEF CommandInv, Running
<1>21. QED
  BY <1>14, <1>20, AfterAStep DEF LifecycleInv

\* The two steps of a restore, one after the other.
LEMMA RestoreShapes ==
  /\ Head(RestoreBackup) = CopyBack /\ Tail(RestoreBackup) = <<UnlinkAbsent>>
  /\ Head(<<UnlinkAbsent>>) = UnlinkAbsent /\ Tail(<<UnlinkAbsent>>) = <<>>
  /\ RestoreBackup # <<>> /\ <<UnlinkAbsent>> # <<>> /\ RestoreBackup # <<UnlinkAbsent>>
<1>1. /\ Head(RestoreBackup) = CopyBack /\ Tail(RestoreBackup) = <<UnlinkAbsent>>
      /\ Head(<<UnlinkAbsent>>) = UnlinkAbsent
  BY DEF RestoreBackup
<1>2. Tail(<<UnlinkAbsent>>) = <<>>
  OBVIOUS
<1>3. RestoreBackup # <<>> /\ <<UnlinkAbsent>> # <<>> /\ <<UnlinkAbsent>> # <<CopyBack, UnlinkAbsent>>
  BY DEF RestoreBackup
<1>4. QED
  BY <1>1, <1>2, <1>3 DEF RestoreBackup

\* A restore changes what differs from the backup, and only that.
LEMMA RestoreOneSafe ==
  ASSUME LifecycleInv, RestoreOne
  PROVE  LifecycleInv'
<1> DEFINE snap == Last(backups).snap
           left == LeftToRestore(files, snap, Head(cmd.todo).kind)
<1>1. /\ cmd.todo # <<>> /\ Head(cmd.todo).kind \in {"copy back", "unlink"}
      /\ UNCHANGED <<backups, start, used>>
      /\ \/ \E p \in FirstOf(left) : files' = RestoreFile(files, p, snap[p]) /\ UNCHANGED <<cmd, outcome>>
         \/ left = {} /\ files' = files /\ Advance
  BY DEF RestoreOne, At, Latest
<1>2. Running /\ Restoring /\ cmd.todo \in {RestoreBackup, <<UnlinkAbsent>>}
  BY <1>1, StepOfRunning, WhoseStep
<1>3. /\ backups # <<>> /\ Last(backups).sealed
      /\ cmd.todo = <<UnlinkAbsent>> => \A p \in Paths : snap[p] # Absent => files[p] = snap[p]
  BY <1>1, <1>2, RestoreShapes DEF LifecycleInv, CommandInv, RestoreInv
<1>4. files \in [Nodes -> Content] /\ \A n \in Nodes : files[n] \in Contents(n)
  BY DEF LifecycleInv, TypeOK, Home
<1>5. \A p \in Paths : snap[p] \in Contents(p)
  <2>1. Last(backups) \in [sealed : BOOLEAN, snap : Snapshots]
    <3>1. Len(backups) \in 1..Len(backups)
      BY <1>3, EmptySeq DEF LifecycleInv, TypeOK
    <3>2. QED
      BY <3>1, ElementOfSeq DEF LifecycleInv, TypeOK, Last
  <2>2. QED
    BY <2>1 DEF Snapshots
<1>6. /\ cmd.op = "rollback" => ~cmd.failing /\ ~cmd.sealed
      /\ cmd.op # "rollback" => cmd.failing /\ cmd.sealed
  BY <1>2 DEF Restoring, LifecycleInv, CommandInv, ShapeInv, BackingUp, InOneTry
<1>7. CopyBack.kind = "copy back" /\ UnlinkAbsent.kind = "unlink"
  BY StepKinds
<1> HIDE DEF snap
<1>8. ASSUME NEW p \in FirstOf(left), files' = RestoreFile(files, p, snap[p]), UNCHANGED <<cmd, outcome>>
      PROVE  LifecycleInv'
  <2>1. p \in Paths /\ (Head(cmd.todo).kind = "unlink" <=> snap[p] = Absent)
    BY DEF FirstOf, LeftToRestore
  <2>2. \A n \in Nodes : files'[n] =
          IF n = p THEN snap[p]
          ELSE IF snap[p] # Absent /\ \E id \in ProviderIds : n = Dir(id) /\ p \in Entry(id)
               THEN "present" ELSE files[n]
    BY <1>8 DEF RestoreFile
  <2>3. \A n \in Paths : n \in Nodes /\ ~\E id \in ProviderIds : n = Dir(id)
    BY NodesOf, NodesApart
  <2>4. \A n \in Paths : files'[n] = IF n = p THEN snap[p] ELSE files[n]
    BY <2>2, <2>3
  <2>5. files' \in Home
    BY <1>4, <1>5, <1>8, <2>1, <2>2, ContentsOf, NodesOf DEF Home, RestoreFile
  <2>6. TypeOK'
    BY <1>1, <1>8, <2>5 DEF LifecycleInv, TypeOK
  <2>7. ShapeInv' /\ UnsealedInv' /\ SealedInv' /\ ActivateInv' /\ PolicyInv'
    BY <1>1, <1>2, <1>6, <1>8 DEF LifecycleInv, CommandInv, ShapeInv, UnsealedInv, SealedInv,
       ActivateInv, PolicyInv, Restoring, Running, Same, BackingUp, InOneTry, Activating, Bare
  <2>8. CheckInv'
    BY <1>2, <1>8, RestorePrograms DEF CheckInv
  <2>9. RestoreInv'
    <3> SUFFICES ASSUME cmd.todo = <<UnlinkAbsent>>
                 PROVE  \A q \in Paths : snap[q] # Absent => files'[q] = snap[q]
      BY <1>1, <1>2, <1>3, <1>8 DEF RestoreInv, snap
    <3>1. \A q \in Paths : snap[q] # Absent => files[q] = snap[q]
      BY <1>3
    <3>2. QED
      BY <2>4, <3>1
  <2>10. ForeignInv'
    <3> SUFFICES ASSUME cmd.op # "rollback", NEW id \in ProviderIds, Foreign(start, id)
                 PROVE  /\ Same(files', start, Entry(id)) /\ files'[Dir(id)] # Absent
                        /\ Guarded(cmd.todo, id) /\ cmd.op \notin Unprotected
      BY <1>1, <1>8 DEF ForeignInv, Foreign, Same
    <3>1. /\ Same(files, start, Entry(id)) /\ files[Dir(id)] # Absent /\ Guarded(cmd.todo, id)
          /\ cmd.op \notin Unprotected
      BY <1>2, <1>6 DEF LifecycleInv, CommandInv, ForeignInv
    <3>2. Same(snap, start, Paths)
      BY <1>6, <3>1 DEF LifecycleInv, CommandInv, SealedInv, Covered, snap
    <3>3. Same(files', start, Entry(id))
      BY <2>4, <3>1, <3>2, NodesOf DEF Same
    <3>4. files'[Dir(id)] # Absent
      <4>1. Dir(id) \in Nodes /\ Dir(id) # p
        BY <2>1, <2>3, NodesOf
      <4>2. "present" # Absent
        BY DEF Absent
      <4>3. QED
        BY <2>2, <3>1, <4>1, <4>2
    <3>5. QED
      BY <3>1, <3>3, <3>4
  <2>11. CommandInv' /\ Running'
    BY <1>2, <1>8, <2>7, <2>8, <2>9, <2>10 DEF CommandInv, Running
  <2>12. QED
    BY <2>6, <2>11, AfterAStep DEF LifecycleInv
<1>9. ASSUME left = {}, files' = files, Advance
      PROVE  LifecycleInv'
  <2>1. /\ cmd' = [cmd EXCEPT !.todo = Tail(cmd.todo)] /\ outcome' = outcome
        /\ Tail(cmd.todo) \in {<<UnlinkAbsent>>, <<>>} /\ Tail(cmd.todo) \in Seq(Steps)
    BY <1>2, RestoreShapes, <1>9, RestorePrograms DEF Advance
  <2>2. /\ cmd' \in [op : Ops \cup {"none"}, todo : Seq(Steps), sealed : BOOLEAN, failing : BOOLEAN]
        /\ cmd'.op = cmd.op /\ cmd'.todo = Tail(cmd.todo) /\ cmd'.sealed = cmd.sealed
        /\ cmd'.failing = cmd.failing
    BY <2>1 DEF LifecycleInv, TypeOK
  <2>3. TypeOK'
    BY <1>1, <1>9, <2>1, <2>2 DEF LifecycleInv, TypeOK
  <2>4. \A p \in Paths : files[p] = snap[p] \/ ~(Head(cmd.todo).kind = "unlink" <=> snap[p] = Absent)
    BY <1>9 DEF LeftToRestore
  <2>5. ShapeInv' /\ UnsealedInv' /\ ActivateInv' /\ PolicyInv' /\ CheckInv'
    <3>1. ShapeInv'
      <4>1. StepsOf("rollback") = RestoreSteps
        BY DEF StepsOf
      <4>2. QED
        BY <1>2, <1>6, <2>1, <2>2, <4>1, RestorePrograms
           DEF LifecycleInv, CommandInv, ShapeInv, Running, Restoring, Pending
    <3>2. UnsealedInv' /\ ActivateInv' /\ PolicyInv'
      BY <1>6, <2>2 DEF UnsealedInv, ActivateInv, PolicyInv, BackingUp, InOneTry, Activating, Bare
    <3>3. CheckInv'
      BY <2>1, <2>2, RestorePrograms DEF CheckInv
    <3>4. QED
      BY <3>1, <3>2, <3>3
  <2>6. SealedInv'
    BY <1>1, <2>1, <2>2, RestorePrograms DEF LifecycleInv, CommandInv, SealedInv, Same
  <2>7. RestoreInv'
    <3>1. CASE cmd.todo = RestoreBackup
      <4>1. \A p \in Paths : snap[p] # Absent => files[p] = snap[p]
        BY RestoreShapes, <1>7, <2>4, <3>1
      <4>2. QED
        BY <1>1, <1>3, RestoreShapes, <1>9, <2>2, <3>1, <4>1 DEF RestoreInv, snap
    <3>2. CASE cmd.todo = <<UnlinkAbsent>>
      <4>1. Same(files, snap, Paths)
        BY <1>3, RestoreShapes, <1>7, <2>4, <3>2 DEF Same
      <4>2. QED
        BY <1>1, <1>3, RestoreShapes, <1>9, <2>2, <3>2, <4>1 DEF RestoreInv, snap, Same
    <3>3. QED
      BY <1>2, <3>1, <3>2
  <2>8. ForeignInv'
    <3>1. \A id : Guarded(Tail(cmd.todo), id)
      BY <2>1, RestorePrograms
    <3>2. QED
      BY <1>1, <1>2, <1>6, <1>9, <2>2, <3>1
         DEF LifecycleInv, CommandInv, ForeignInv, Foreign, Same, Running
  <2>9. CommandInv' /\ Running'
    BY <1>2, <2>2, <2>5, <2>6, <2>7, <2>8 DEF CommandInv, Running
  <2>10. QED
    BY <2>3, <2>9, AfterAStep DEF LifecycleInv
<1>10. QED
  BY <1>1, <1>8, <1>9

\* A restore that raises promises the newest backup, and the user's plugins.
LEMMA RestoreFailsSafe ==
  ASSUME LifecycleInv, RestoreFails
  PROVE  LifecycleInv'
<1>1. /\ cmd.todo # <<>> /\ Head(cmd.todo).kind \in {"copy back", "unlink"}
      /\ Use("errors") /\ Stop("unrestored") /\ UNCHANGED <<files, backups, start>>
  BY DEF RestoreFails, At
<1>2. Running /\ Restoring
  BY <1>1, StepOfRunning, WhoseStep
<1>3. cmd.op \in BackingUp => cmd.sealed
  BY <1>2 DEF Restoring, LifecycleInv, CommandInv, ShapeInv, BackingUp, InOneTry
<1>4. cmd.op # "rollback" =>
        \A id \in ProviderIds : Foreign(start, id) => Same(files', start, Entry(id))
  BY <1>1, <1>2 DEF LifecycleInv, CommandInv, ForeignInv, Same
<1>5. "unrestored" \in Results \ {"none"} /\ "unrestored" \notin {"ok", "failed"}
  BY DEF Results
<1>6. CommandInv' /\ Promises'
  BY <1>1, <1>2, <1>3, <1>4, <1>5, StopSafe
<1>7. TypeOK'
  <2>1. used' \in [DOMAIN Bound -> Nat] /\ \A j \in DOMAIN Bound : used'[j] <= Bound[j]
    BY <1>1, ErrorBounded
  <2>2. QED
    <3>1. Stop("unrestored") /\ UNCHANGED <<files, backups, start>>
      BY <1>1
    <3>2. QED
      BY <1>2, <2>1, <3>1 DEF LifecycleInv, TypeOK, Stop, Idle, Running, Results
<1>8. QED
  BY <1>6, <1>7 DEF LifecycleInv

\* A command that has done its steps has what its result promises.
LEMMA FinishSafe ==
  ASSUME LifecycleInv, Finish
  PROVE  LifecycleInv'
<1>1. /\ cmd # Idle /\ cmd.todo = <<>> /\ UNCHANGED <<files, backups, start, used>>
      /\ Stop(IF cmd.failing THEN "failed" ELSE "ok")
  BY DEF Finish
<1>2. Running
  BY <1>1, StepOfRunning
<1>3. Restoring => Same(files, Last(backups).snap, Paths)
  BY <1>1, RestoreShapes DEF LifecycleInv, CommandInv, RestoreInv
<1>4. cmd.sealed => Last(backups).sealed /\ Same(Last(backups).snap, start, Covered(cmd.op))
  BY DEF LifecycleInv, CommandInv, SealedInv
<1>5. cmd.op \in BackingUp => cmd.sealed
  <2>1. ~Sealing(cmd.todo, BeforeSeal(cmd.op))
    BY <1>1, EmptySeq DEF Sealing
  <2>2. QED
    BY <2>1 DEF LifecycleInv, CommandInv, UnsealedInv
<1>6. TypeOK'
  BY <1>1, <1>2 DEF LifecycleInv, TypeOK, Stop, Idle, Running, Results
<1>10. cmd.op # "rollback" =>
         \A id \in ProviderIds : Foreign(start, id) => Same(files', start, Entry(id))
  BY <1>1, <1>2 DEF LifecycleInv, CommandInv, ForeignInv, Same
<1>7. CASE cmd.failing
  <2>1. cmd.sealed /\ cmd.op # "rollback" /\ Covered(cmd.op) \subseteq Paths
    BY <1>7, NodesOf DEF LifecycleInv, CommandInv, ShapeInv, Covered, BackingUp, InOneTry
  <2>2. Same(files', start, AnswersFor(cmd.op))
    <3>1. AnswersFor(cmd.op) = Covered(cmd.op)
      BY <1>2, <2>1, AnswersCovered
    <3>2. QED
      BY <1>1, <1>3, <1>4, <1>7, <2>1, <3>1 DEF Restoring, Same
  <2>3. QED
    BY <1>1, <1>2, <1>6, <1>7, <1>10, <2>1, <2>2, StopSafe DEF LifecycleInv, Results
<1>8. CASE ~cmd.failing
  <2>1. cmd.op \in Activating => ActiveProviders(files') = <<Canonical>> /\ files'[Router] \in Policies
    BY <1>1, <1>8, EmptySeq DEF LifecycleInv, CommandInv, ActivateInv, Has
  <2>2. cmd.op = "rollback" => Same(files', Last(backups).snap, Paths)
    BY <1>1, <1>3 DEF Restoring
  <2>3. QED
    BY <1>1, <1>2, <1>5, <1>6, <1>8, <1>10, <2>1, <2>2, StopSafe DEF LifecycleInv, Results
<1>9. QED
  BY <1>7, <1>8

\* A killed command promises nothing but the user's plugins.
LEMMA CrashSafe ==
  ASSUME LifecycleInv, Crash
  PROVE  LifecycleInv'
<1>1. cmd # Idle /\ Use("crashes") /\ Stop("crashed") /\ UNCHANGED <<files, backups, start>>
  BY DEF Crash
<1>2. Running
  BY <1>1, StepOfRunning
<1>3. "crashes" \in DOMAIN Bound
  BY DEF Bound
<1>4. used' \in [DOMAIN Bound -> Nat] /\ \A j \in DOMAIN Bound : used'[j] <= Bound[j]
  BY <1>1, <1>3, UseBounded, LifecycleAssumption DEF LifecycleInv
<1>5. TypeOK'
  BY <1>1, <1>2, <1>4 DEF LifecycleInv, TypeOK, Stop, Idle, Running, Results
<1>6. cmd.op # "rollback" =>
        \A id \in ProviderIds : Foreign(start, id) => Same(files', start, Entry(id))
  BY <1>1, <1>2 DEF LifecycleInv, CommandInv, ForeignInv, Same
<1>7. cmd.op \in BackingUp /\ ~Same(files', start, Covered(cmd.op)) => cmd.sealed
  BY <1>1 DEF LifecycleInv, CommandInv, UnsealedInv, Same
<1>8. QED
  BY <1>1, <1>2, <1>5, <1>6, <1>7, StopSafe DEF LifecycleInv, Results

-----------------------------------------------------------------------------
(***************************************************************************)
(* The user, between commands, and steps that change nothing.              *)
(***************************************************************************)
\* After an edit the home is as the user left it.
LEMMA UserSafe ==
  ASSUME LifecycleInv, User
  PROVE  LifecycleInv'
<1>1. files \in [Nodes -> Content] /\ \A n \in Nodes : files[n] \in Contents(n)
  BY DEF LifecycleInv, TypeOK, Home
<1>2. ASSUME NEW h \in Home, Edit(h)
      PROVE  LifecycleInv'
  <2>1. /\ cmd' = Idle /\ files' = h /\ start' = h /\ outcome' = Pending /\ backups' = backups
        /\ cmd = Idle /\ Use("edits")
    BY <1>2 DEF Edit
  <2>2. "edits" \in DOMAIN Bound
    BY DEF Bound
  <2>3. used' \in [DOMAIN Bound -> Nat] /\ \A j \in DOMAIN Bound : used'[j] <= Bound[j]
    BY <2>1, <2>2, UseBounded, LifecycleAssumption DEF LifecycleInv
  <2>4. TypeOK'
    BY <2>1, <2>3 DEF LifecycleInv, TypeOK, Pending, Results
  <2>5. QED
    BY <2>1, <2>4, AfterAStep DEF LifecycleInv
<1>3. ASSUME NEW yaml \in {"hindsight", "both"}, UserSetsProvider(yaml)
      PROVE  LifecycleInv'
  <2>1. [files EXCEPT ![Yaml] = yaml] \in Home
    BY <1>1, ContentsOf, NodesOf DEF Home
  <2>2. QED
    BY <1>2, <1>3, <2>1 DEF UserSetsProvider
<1>4. ASSUME NEW id \in ProviderIds, UserCreatesPlugin(id)
      PROVE  LifecycleInv'
  <2> DEFINE h == [n \in Nodes |-> IF n = Dir(id) THEN "present"
                                   ELSE IF n \in Entry(id) \ {Marker(id)} THEN "user" ELSE files[n]]
  <2>1. Edit(h)
    BY <1>4 DEF UserCreatesPlugin
  <2>2. \A n \in Nodes : h[n] \in Contents(n)
    BY <1>1, ContentsOf, NodesOf
  <2>3. h \in Home
    BY <2>2, ContentsOf DEF Home
  <2>4. QED
    BY <1>2, <2>1, <2>3
<1>5. ASSUME NEW id \in ProviderIds, UserRemovesPlugin(id)
      PROVE  LifecycleInv'
  <2> DEFINE h == [n \in Nodes |-> IF n \in Entry(id) \cup {Dir(id)} THEN Absent ELSE files[n]]
  <2>1. Edit(h)
    BY <1>5 DEF UserRemovesPlugin
  <2>2. h \in Home
    BY <1>1, ContentsOf, NodesOf DEF Home
  <2>3. QED
    BY <1>2, <2>1, <2>2
<1>6. QED
  BY <1>3, <1>4, <1>5 DEF User

\* Before the first command nothing is promised.
LEMMA LifecycleInit ==
  ASSUME Init
  PROVE  LifecycleInv
<1>1. files \in Home /\ start = files /\ outcome = Pending /\ cmd = Idle
  BY LifecycleAssumption DEF Init
<1>2. TypeOK
  <2>1. cmd \in [op : Ops \cup {"none"}, todo : Seq(Steps), sealed : BOOLEAN, failing : BOOLEAN]
    BY <1>1 DEF Idle
  <2>2. used \in [DOMAIN Bound -> Nat] /\ \A k \in DOMAIN Bound : used[k] <= Bound[k]
    BY LifecycleAssumption DEF Init
  <2>3. QED
    BY <1>1, <2>1, <2>2 DEF Init, TypeOK, Pending, Results
<1>3. QED
  BY <1>1, <1>2, NoCommand, NothingDone DEF LifecycleInv

\* A step that changes nothing keeps everything.
LEMMA StutterSafe ==
  ASSUME LifecycleInv, UNCHANGED vars
  PROVE  LifecycleInv'
<1>1. UNCHANGED <<files, backups, cmd, outcome, start, used>>
  BY DEF vars
<1>2. TypeOK'
  BY <1>1 DEF LifecycleInv, TypeOK
<1>3. ActiveProviders(files)' = ActiveProviders(files)
  BY <1>1 DEF ActiveProviders
<1>4. CommandInv'
  BY <1>1, <1>3 DEF LifecycleInv, CommandInv, ShapeInv, UnsealedInv, SealedInv, CheckInv, PolicyInv,
     RestoreInv, ActivateInv, ForeignInv, Running, Restoring, Same, Foreign
<1>5. Promises'
  BY <1>1, <1>3 DEF LifecycleInv, Promises, FailureLeavesNoTrace, BackupIsPreChange,
     RollbackRestores, ActivatedAlone, ForeignEntriesSurvive, Ended, Same, AnswersFor, Writable
<1>6. QED
  BY <1>2, <1>4, <1>5 DEF LifecycleInv

\* A rollback refused for an unfinished backup has nothing to answer for.
LEMMA RollbackInvalidSafe ==
  ASSUME LifecycleInv, RollbackInvalid
  PROVE  LifecycleInv'
<1>1. /\ cmd' = Idle /\ outcome' = [op |-> "rollback", result |-> "failed"] /\ start' = files
      /\ files' = files /\ backups' = backups /\ cmd = Idle /\ Use("rollbacks")
  BY DEF RollbackInvalid
<1>2. "rollbacks" \in DOMAIN Bound
  BY DEF Bound
<1>3. used' \in [DOMAIN Bound -> Nat] /\ \A j \in DOMAIN Bound : used'[j] <= Bound[j]
  BY <1>1, <1>2, UseBounded, LifecycleAssumption DEF LifecycleInv
<1>4. TypeOK'
  BY <1>1, <1>3 DEF LifecycleInv, TypeOK, Ops, Results
<1>5. Promises'
  BY <1>1 DEF Promises, FailureLeavesNoTrace, BackupIsPreChange, RollbackRestores, ActivatedAlone,
     ForeignEntriesSurvive, Ended, Same, BackingUp, InOneTry, Idle
<1>6. QED
  BY <1>1, <1>4, <1>5, AfterAStep DEF LifecycleInv

-----------------------------------------------------------------------------
(***************************************************************************)
(* The commands, each with the steps it is made of.                        *)
(***************************************************************************)
\* What the steps of a command are to be like when it begins.
LEMMA BeginSafe ==
  ASSUME LifecycleInv, NEW op \in Ops, NEW todo \in Seq(StepsOf(op)), Begin(op, todo),
         op \in BackingUp => Sealing(todo, BeforeSeal(op)) /\ Has(todo, Make),
         op \in Unprotected =>
           \A i \in 1..Len(todo) : todo[i] = AssertWritable => i = 1,
         op = "rollback" => todo = RestoreBackup /\ backups # <<>> /\ Last(backups).sealed,
         op \in Activating => Has(todo, Activate) /\ \E step \in PolicyPuts : Has(todo, step),
         op # "rollback" => \A id \in ProviderIds : Foreign(files, id) => Guarded(todo, id),
         op \in Unprotected => todo # <<>> /\ Head(todo) = AssertWritable,
         op \in Bare => PolicyLast(todo)
  PROVE  LifecycleInv'
<1>1. /\ cmd = Idle /\ Use(IF op = "rollback" THEN "rollbacks" ELSE "changes")
      /\ cmd' = [Idle EXCEPT !.op = op, !.todo = todo]
      /\ start' = files /\ outcome' = Pending /\ files' = files /\ backups' = backups
  BY DEF Begin
<1>2. todo \in Seq(Steps)
  BY StepsAreSteps, SeqMonotonic
<1>3. /\ cmd'.op = op /\ cmd'.todo = todo /\ cmd'.sealed = FALSE /\ cmd'.failing = FALSE
      /\ cmd' \in [op : Ops \cup {"none"}, todo : Seq(Steps), sealed : BOOLEAN, failing : BOOLEAN]
  BY <1>1, <1>2 DEF Idle
<1>4. TypeOK'
  <2>1. "rollbacks" \in DOMAIN Bound /\ "changes" \in DOMAIN Bound
    BY DEF Bound
  <2>2. used' \in [DOMAIN Bound -> Nat] /\ \A j \in DOMAIN Bound : used'[j] <= Bound[j]
    BY <1>1, <2>1, UseBounded, LifecycleAssumption DEF LifecycleInv
  <2>3. QED
    BY <1>1, <1>3, <2>2 DEF LifecycleInv, TypeOK, Pending, Results
<1>5. op # "none"
  BY DEF Ops, BackingUp, InOneTry
<1>6. ShapeInv' /\ SealedInv'
  BY <1>1, <1>3, <1>5 DEF ShapeInv, SealedInv, Running, Pending
<1>7. UnsealedInv' /\ CheckInv' /\ PolicyInv'
  BY <1>1, <1>3 DEF UnsealedInv, CheckInv, PolicyInv, Same, Unprotected
<1>8. RestoreInv'
  BY <1>1, <1>3 DEF RestoreInv, Restoring
<1>9. ActivateInv'
  BY <1>1, <1>3 DEF ActivateInv
<1>10. ForeignInv'
  BY <1>1, <1>3 DEF ForeignInv, Foreign, Same
<1>11. CommandInv' /\ Running'
  BY <1>3, <1>5, <1>6, <1>7, <1>8, <1>9, <1>10 DEF CommandInv, Running
<1>12. QED
  BY <1>4, <1>11, AfterAStep DEF LifecycleInv

\* Steps that neither back up nor write into an unchecked directory, and the
\* beginning of a command that backs up first.
Plain(t) ==
  t \in Seq(BackupCommandSteps) /\ NoBackup(t) /\ \A id \in ProviderIds : Guarded(t, id)
BackedUp(t, P) ==
  /\ t \in Seq(BackupCommandSteps) /\ Sealing(t, P) /\ Has(t, Make)
  /\ \A id \in ProviderIds : Guarded(t, id)

\* Plain steps, one sequence after another.
LEMMA PlainConcat ==
  ASSUME NEW s, NEW t, Plain(s), Plain(t)
  PROVE  Plain(s \o t)
<1>1. NoBackup(s \o t)
  <2> DEFINE u == s \o t
  <2>1. /\ Len(u) = Len(s) + Len(t) /\ Len(s) \in Nat /\ Len(t) \in Nat
        /\ \A i \in 1..Len(s) : u[i] = s[i]
        /\ \A i \in 1..Len(u) : ~(i <= Len(s)) => u[i] = t[i - Len(s)] /\ i - Len(s) \in 1..Len(t)
    BY ConcatProperties DEF Plain
  <2> HIDE DEF u
  <2>2. \A i \in 1..Len(u) : u[i] \notin {Make, Seal}
    <3> TAKE i \in 1..Len(u)
    <3>1. CASE i <= Len(s)
      <4>1. i \in 1..Len(s)
        BY <2>1, <3>1
      <4>2. QED
        BY <2>1, <4>1 DEF Plain, NoBackup
    <3>2. CASE ~(i <= Len(s))
      BY <2>1, <3>2 DEF Plain, NoBackup
    <3>3. QED
      BY <3>1, <3>2
  <2>3. QED
    BY <2>2 DEF NoBackup, u
<1>2. QED
  BY <1>1, ConcatProperties, GuardedConcat DEF Plain

\* Plain steps may follow a backup.
LEMMA BackedUpConcat ==
  ASSUME NEW s, NEW t, NEW P, BackedUp(s, P), Plain(t)
  PROVE  BackedUp(s \o t, P)
BY ConcatProperties, SealingAppend, HasConcat, GuardedConcat DEF BackedUp, Plain

\* Steps other than those of a backup, which touch no plugin directory.
LEMMA PlainSteps ==
  ASSUME NEW t \in Seq(BackupCommandSteps),
         \A i \in 1..Len(t) : t[i] \notin {Make, Seal} \cup EntryPuts
  PROVE  Plain(t)
<1>1. ASSUME NEW s \in BackupCommandSteps \ EntryPuts, NEW id \in ProviderIds
      PROVE  ~Touches(s, id)
  <2>1. s.kind # "rmtree"
    BY StepKinds
  <2>2. Entry(id) \subseteq EntryPaths
    BY NodesOf
  <2>3. /\ WriteHindsightProfile.at \notin EntryPaths /\ WriteSecretEnv.at \notin EntryPaths
        /\ \A p \in PolicyPuts : p.at \notin EntryPaths
    <3>1. WriteHindsightProfile.at = Hindsight /\ WriteSecretEnv.at = Env
      BY DEF WriteHindsightProfile, WriteSecretEnv, Put, Step
    <3>2. Hindsight \notin EntryPaths /\ Env \notin EntryPaths /\ Router \notin EntryPaths
      BY NodesApart, NodesOf
    <3>3. \A p \in PolicyPuts : p.at = Router
      BY StepKinds
    <3>4. QED
      BY <3>1, <3>2, <3>3
  <2>4. CASE s.kind = "put"
    BY <2>2, <2>3, <2>4, NamedKinds DEF BackupCommandSteps, Touches
  <2>5. QED
    BY <2>1, <2>4 DEF Touches
<1>2. \A i \in 1..Len(t) : t[i] \in BackupCommandSteps \ EntryPuts
  BY ElementOfSeq
<1>3. \A id \in ProviderIds : Guarded(t, id)
  BY <1>1, <1>2 DEF Guarded
<1>4. QED
  BY <1>3 DEF Plain, NoBackup

\* The steps that stand for one call each.
Calls == {External, Activate, WriteHindsightProfile, WriteSecretEnv} \cup PolicyPuts

LEMMA PlainCalls ==
  ASSUME NEW t \in Seq(Calls)
  PROVE  Plain(t)
<1>1. Calls \subseteq BackupCommandSteps
  BY DEF Calls, BackupCommandSteps
<1>2. ASSUME NEW s \in Calls
      PROVE  s \notin {Make, Seal} \cup EntryPuts
  <2>1. /\ WriteHindsightProfile.at = Hindsight /\ WriteSecretEnv.at = Env
        /\ WriteHindsightProfile.kind = "put" /\ WriteSecretEnv.kind = "put"
    BY DEF WriteHindsightProfile, WriteSecretEnv, Put, Step
  <2>2. \A p \in EntryPuts : p.kind = "put" /\ p.at \in EntryPaths \cup Dirs
    BY StepKinds
  <2>3. \A p \in PolicyPuts : p.kind = "put" /\ p.at = Router
    BY StepKinds
  <2>4. CASE s \in {External, Activate}
    BY <2>2, <2>4, NamedKinds
  <2>5. CASE s \in {WriteHindsightProfile, WriteSecretEnv} \cup PolicyPuts
    BY <2>1, <2>2, <2>3, <2>5, NamedKinds, NodesApart, NodesOf
  <2>6. QED
    BY <2>4, <2>5 DEF Calls
<1>3. t \in Seq(BackupCommandSteps)
  BY <1>1, SeqMonotonic
<1>4. \A i \in 1..Len(t) : t[i] \notin {Make, Seal} \cup EntryPuts
  BY <1>2, ElementOfSeq
<1>5. QED
  BY <1>3, <1>4, PlainSteps

\* One call alone.
LEMMA PlainOne ==
  ASSUME NEW s \in Calls
  PROVE  Plain(<<s>>) /\ Has(<<s>>, s)
<1> DEFINE t == <<s>>
<1>1. t \in Seq(Calls) /\ Len(t) = 1 /\ t[1] = s
  OBVIOUS
<1> HIDE DEF t
<1>2. 1 \in 1..Len(t)
  BY <1>1
<1>3. Plain(t) /\ Has(t, s)
  BY <1>1, <1>2, PlainCalls DEF Has
<1>4. QED
  BY <1>3 DEF t

\* No call at all.
LEMMA PlainNone == Plain(<<>>)
BY PlainCalls, EmptySeq

\* backup_configuration, first of all in what follows it.
LEMMA BackupFirst ==
  ASSUME NEW P, Make \in P
  PROVE  BackedUp(Backup, P)
<1>1. Backup = <<Make, Seal>>
  BY DEF Backup, Make, Seal
<1>2. Make \in BackupCommandSteps /\ Seal \in BackupCommandSteps
  BY DEF BackupCommandSteps
<1>3. /\ <<Make, Seal>> \in Seq(BackupCommandSteps) /\ Len(<<Make, Seal>>) = 2
      /\ <<Make, Seal>>[1] = Make /\ <<Make, Seal>>[2] = Seal
  BY <1>2
<1>4. /\ Backup \in Seq(BackupCommandSteps) /\ Len(Backup) = 2
      /\ Backup[1] = Make /\ Backup[2] = Seal /\ 1 \in 1..Len(Backup) /\ 2 \in 1..Len(Backup)
      /\ \A i \in 1..Len(Backup) : i = 1 \/ i = 2
  BY <1>1, <1>3
<1>5. Has(Backup, Make)
  BY <1>4 DEF Has
<1>6. Sealing(Backup, P)
  <2>1. (\A i \in 1..(2 - 1) : Backup[i] \in P) /\ (2 + 1)..Len(Backup) = {}
    BY <1>4
  <2>2. QED
    BY <1>4, <2>1 DEF Sealing
<1>7. \A id : ~Touches(Make, id) /\ ~Touches(Seal, id)
  BY NamedKinds DEF Touches
<1>8. \A id \in ProviderIds : Guarded(Backup, id)
  BY <1>4, <1>7 DEF Guarded
<1>9. QED
  BY <1>4, <1>5, <1>6, <1>8 DEF BackedUp

\* install_plugin_entries checks first, and then only writes.
LEMMA EntriesChecked ==
  /\ InstallPluginEntries \in Seq({AssertWritable} \cup EntryPuts)
  /\ InstallPluginEntries # <<>> /\ InstallPluginEntries[1] = AssertWritable
  /\ \A i \in 1..Len(InstallPluginEntries) : i # 1 => InstallPluginEntries[i] \in EntryPuts
<1>1. ASSUME NEW id \in ProviderIds
      PROVE  InstallEntry(id) \in Seq(EntryPuts)
  <2>1. \A n \in Entry(id) : Put(n, "chronalyn") \in EntryPuts
    <3> SUFFICES ASSUME NEW n \in Entry(id)
                 PROVE  Put(n, "chronalyn") \in EntryPuts
      OBVIOUS
    <3>1. /\ n \in EntryPaths /\ n \in Nodes /\ "chronalyn" \in Contents(n)
          /\ "chronalyn" \in Content /\ "chronalyn" # Absent
      BY ContentsOf, NodesOf DEF Absent
    <3>2. QED
      BY <3>1 DEF EntryPuts, Steps, Put, Step, Kinds
  <2>2. Put(Dir(id), "present") \in EntryPuts
    <3>1. /\ Dir(id) \in Dirs /\ Dir(id) \in Nodes /\ "present" \in Contents(Dir(id))
          /\ "present" \in Content /\ "present" # Absent
      BY ContentsOf, NodesOf DEF Absent
    <3>2. QED
      BY <3>1 DEF EntryPuts, Steps, Put, Step, Kinds
  <2>3. /\ Put(Marker(id), "chronalyn") \in EntryPuts
        /\ Put(<<id, "__init__.py">>, "chronalyn") \in EntryPuts
        /\ Put(<<id, "plugin.yaml">>, "chronalyn") \in EntryPuts
    BY <2>1 DEF Entry, Marker
  <2>4. \A a, b, c, d \in EntryPuts : <<a, b, c, d>> \in Seq(EntryPuts)
    OBVIOUS
  <2>5. QED
    BY <2>2, <2>3, <2>4 DEF InstallEntry
<1> DEFINE S == {AssertWritable} \cup EntryPuts
           s == <<AssertWritable>>
           e == InstallEntry(Canonical)
           f == InstallEntry(Legacy)
<1>2. e \in Seq(EntryPuts) /\ f \in Seq(EntryPuts)
  BY <1>1 DEF ProviderIds
<1>3. s \in Seq(S) /\ e \in Seq(S) /\ f \in Seq(S)
  BY <1>2, SeqMonotonic
<1>4. Len(s) = 1 /\ s[1] = AssertWritable
  OBVIOUS
<1>5. InstallPluginEntries = (s \o e) \o f
  BY DEF InstallPluginEntries
<1> HIDE DEF s, e, f, S
<1>6. /\ s \o e \in Seq(S) /\ Len(s \o e) = 1 + Len(e) /\ (s \o e)[1] = AssertWritable
      /\ \A i \in 1..Len(s \o e) : i # 1 => (s \o e)[i] \in EntryPuts
  <2>1. /\ s \o e \in Seq(S) /\ Len(s \o e) = Len(s) + Len(e) /\ Len(e) \in Nat
        /\ \A i \in 1..Len(s) + Len(e) : (s \o e)[i] = IF i <= Len(s) THEN s[i] ELSE e[i - Len(s)]
    BY <1>3, ConcatProperties
  <2>2. Len(s \o e) = 1 + Len(e) /\ (s \o e)[1] = AssertWritable
    BY <1>4, <2>1
  <2>3. \A i \in 1..Len(s \o e) : i # 1 => (s \o e)[i] = e[i - 1] /\ i - 1 \in 1..Len(e)
    BY <1>4, <2>1
  <2>4. QED
    BY <1>2, <2>1, <2>2, <2>3, ElementOfSeq
<1> DEFINE t == s \o e
<1> HIDE DEF t
<1>7. /\ t \o f \in Seq(S) /\ Len(t \o f) = Len(t) + Len(f) /\ Len(f) \in Nat /\ Len(t) \in Nat \ {0}
      /\ \A i \in 1..Len(t) + Len(f) : (t \o f)[i] = IF i <= Len(t) THEN t[i] ELSE f[i - Len(t)]
  <2>1. t \in Seq(S) /\ Len(t) = 1 + Len(e)
    BY <1>6 DEF t
  <2>2. Len(e) \in Nat /\ Len(f) \in Nat
    BY <1>3, LenProperties
  <2>3. Len(t) \in Nat \ {0}
    BY <2>1, <2>2
  <2>4. QED
    BY <1>3, <2>1, <2>2, <2>3, ConcatProperties
<1>8. (t \o f)[1] = AssertWritable /\ t \o f # <<>>
  BY <1>6, <1>7, ConcatEmptySeq DEF t
<1>9. \A i \in 1..Len(t \o f) : i # 1 => (t \o f)[i] \in EntryPuts
  <2> SUFFICES ASSUME NEW i \in 1..Len(t \o f), i # 1
               PROVE  (t \o f)[i] \in EntryPuts
    OBVIOUS
  <2>1. CASE i <= Len(t)
    BY <1>6, <1>7, <2>1 DEF t
  <2>2. CASE ~(i <= Len(t))
    <3>1. (t \o f)[i] = f[i - Len(t)] /\ i - Len(t) \in 1..Len(f)
      BY <1>7, <2>2
    <3>2. QED
      BY <1>2, <3>1, ElementOfSeq
  <2>3. QED
    BY <2>1, <2>2
<1>10. QED
  BY <1>5, <1>7, <1>8, <1>9 DEF t, S

\* The installation of the entries is plain, and may come before a seal.
LEMMA EntriesPlain ==
  /\ Plain(InstallPluginEntries)
  /\ InstallPluginEntries \in Seq({AssertWritable, Make} \cup EntryPuts)
  /\ \A i \in 1..Len(InstallPluginEntries) : InstallPluginEntries[i] \notin PolicyPuts \cup {Activate}
  /\ PolicyLast(InstallPluginEntries)
<1> DEFINE t == InstallPluginEntries
<1>1. /\ t \in Seq({AssertWritable} \cup EntryPuts) /\ t # <<>> /\ t[1] = AssertWritable
      /\ \A i \in 1..Len(t) : i # 1 => t[i] \in EntryPuts
  BY EntriesChecked
<1> HIDE DEF t
<1>2. {AssertWritable} \cup EntryPuts \subseteq BackupCommandSteps
  BY DEF BackupCommandSteps
<1>3. t \in Seq(BackupCommandSteps) /\ t \in Seq({AssertWritable, Make} \cup EntryPuts)
  BY <1>1, <1>2, SeqMonotonic
<1>4. \A i \in 1..Len(t) : t[i] \notin {Make, Seal}
  <2>1. Make \notin {AssertWritable} \cup EntryPuts /\ Seal \notin {AssertWritable} \cup EntryPuts
    BY NamedKinds, StepKinds
  <2>2. QED
    BY <1>1, <2>1
<1>5. ~\E id : Touches(AssertWritable, id)
  BY NamedKinds DEF Touches
<1>6. ASSUME NEW id \in ProviderIds, NEW i \in 1..Len(t), Touches(t[i], id)
      PROVE  \E j \in 1..(i - 1) : t[j] = AssertWritable
  <2>1. i # 1
    BY <1>1, <1>5, <1>6
  <2>2. 1 \in 1..(i - 1)
    BY <2>1
  <2>3. QED
    BY <1>1, <2>2
<1>7. \A id \in ProviderIds : Guarded(t, id)
  BY <1>6 DEF Guarded
<1>8. \A i \in 1..Len(t) : t[i] \notin PolicyPuts \cup {Activate}
  <2>1. AssertWritable \notin PolicyPuts \cup {Activate}
    BY NamedKinds, StepKinds
  <2>2. \A e \in EntryPuts : e \notin PolicyPuts \cup {Activate}
    <3>1. \A e \in EntryPuts : e.kind = "put" /\ e.at \in EntryPaths \cup Dirs
      BY StepKinds
    <3>2. \A w \in PolicyPuts : w.at = Router
      BY StepKinds
    <3>3. Router \notin EntryPaths \cup Dirs
      BY NodesApart, NodesOf
    <3>4. QED
      BY <3>1, <3>2, <3>3, NamedKinds
  <2>3. QED
    BY <1>1, <2>1, <2>2
<1>9. Len(t) \in Nat
  BY <1>3, LenProperties
<1>10. PolicyLast(t)
  BY <1>8, <1>9, PolicyLastPlain
<1>11. QED
  BY <1>3, <1>4, <1>7, <1>8, <1>10 DEF Plain, NoBackup, t

\* apply_plan backs up before it writes the policy, and activates last if at all.
LEMMA PlanBacksUp ==
  ASSUME NEW P, Make \in P, NEW policy \in Policies, NEW activate \in BOOLEAN
  PROVE  /\ BackedUp(ApplyPlan(policy, activate), P)
         /\ ApplyPlan(policy, activate) \in Seq(PlanSteps) /\ PolicyLast(ApplyPlan(policy, activate))
         /\ Has(ApplyPlan(policy, activate), WriteConfig(policy))
         /\ activate => Has(ApplyPlan(policy, activate), Activate)
         /\ \A i \in 1..Len(ApplyPlan(policy, activate)) : ApplyPlan(policy, activate)[i] # AssertWritable
<1> DEFINE b == Backup
           w == <<WriteConfig(policy)>>
           a == IF activate THEN <<Activate>> ELSE <<>>
           S == PlanSteps
<1>1. ApplyPlan(policy, activate) = (b \o w) \o a
  BY DEF ApplyPlan
<1>2. BackedUp(b, P)
  BY BackupFirst
<1>3. WriteConfig(policy) \in PolicyPuts
  BY DEF PolicyPuts
<1>4. Plain(w) /\ Has(w, WriteConfig(policy)) /\ Plain(a) /\ (activate => Has(a, Activate))
  BY <1>3, PlainOne, PlainNone DEF Calls
<1>5. b \in Seq(S) /\ w \in Seq(S) /\ a \in Seq(S)
  <2>1. Make \in S /\ Seal \in S /\ WriteConfig(policy) \in S /\ Activate \in S
    BY <1>3 DEF PlanSteps
  <2> HIDE DEF S
  <2>2. <<Make, Seal>> \in Seq(S) /\ <<WriteConfig(policy)>> \in Seq(S) /\ <<Activate>> \in Seq(S)
        /\ <<>> \in Seq(S)
    BY <2>1
  <2>3. Backup = <<Make, Seal>>
    BY DEF Backup, Make, Seal
  <2>4. QED
    BY <2>2, <2>3
<1>6. AssertWritable \notin S
  BY NamedKinds, StepKinds DEF PlanSteps
<1>11. /\ PolicyLast(w) /\ \A i \in 1..Len(b) : b[i] \notin PolicyPuts \cup {Activate}
       /\ \A i \in 1..Len(a) : a[i] \notin Writes
       /\ Len(b) \in Nat /\ Len(a) \in Nat
  <2>1. Len(w) = 1 /\ Len(b) = 2 /\ b[1] = Make /\ b[2] = Seal
    BY DEF Backup, Make, Seal
  <2>2. Make \notin PolicyPuts \cup {Activate} /\ Seal \notin PolicyPuts \cup {Activate}
    BY NamedKinds, StepKinds
  <2>3. Activate \notin Writes
    BY NamedKinds, StepKinds DEF Writes
  <2>4. (Len(a) = 1 /\ a[1] = Activate) \/ Len(a) = 0
    OBVIOUS
  <2> HIDE DEF b, w, a
  <2>5. PolicyLast(w)
    BY <2>1, PolicyLastPlain
  <2>6. \A i \in 1..Len(b) : b[i] \notin PolicyPuts \cup {Activate}
    BY <2>1, <2>2
  <2>7. \A i \in 1..Len(a) : a[i] \notin Writes
    BY <2>3, <2>4
  <2>8. QED
    BY <2>1, <2>4, <2>5, <2>6, <2>7
<1> HIDE DEF b, w, a, S
<1>7. BackedUp(b \o w, P) /\ b \o w \in Seq(S) /\ Has(b \o w, WriteConfig(policy))
  BY <1>2, <1>4, <1>5, BackedUpConcat, ConcatProperties, HasConcat
<1>8. /\ BackedUp((b \o w) \o a, P) /\ (b \o w) \o a \in Seq(S)
      /\ Has((b \o w) \o a, WriteConfig(policy)) /\ (activate => Has((b \o w) \o a, Activate))
  BY <1>4, <1>5, <1>7, BackedUpConcat, ConcatProperties, HasConcat
<1>12. PolicyLast((b \o w) \o a)
  <2>1. PolicyLast(b) /\ PolicyLast(a)
    BY <1>11, PolicyLastPlain
  <2>2. PolicyLast(b \o w)
    BY <1>5, <1>11, <2>1, PolicyLastConcat
  <2>3. QED
    BY <1>5, <1>7, <1>11, <2>1, <2>2, PolicyLastConcat
<1>9. \A i \in 1..Len((b \o w) \o a) : ((b \o w) \o a)[i] # AssertWritable
  BY <1>6, <1>8, ElementOfSeq
<1>10. QED
  BY <1>1, <1>8, <1>9, <1>12 DEF S

\* The two forms of the guided setup share their kinds of steps.
LEMMA StepsOfSetup == \A op \in InOneTry : StepsOf(op) = BackupCommandSteps
BY DEF InOneTry, StepsOf

\* init and save_config write the policy and nothing else.
LEMMA InitConfigSafe ==
  ASSUME LifecycleInv, NEW policy \in Policies, NEW force \in BOOLEAN, InitConfig(policy, force)
  PROVE  LifecycleInv'
<1> DEFINE t == <<WriteConfig(policy)>>
<1>1. Begin("init", t)
  BY DEF InitConfig
<1>2. WriteConfig(policy) \in PolicyPuts
  BY DEF PolicyPuts
<1>3. t \in Seq(StepsOf("init"))
  BY <1>2 DEF StepsOf
<1>4. Plain(t)
  BY <1>2, PlainOne DEF Calls
<1>7. Len(t) = 1
  OBVIOUS
<1> HIDE DEF t
<1>8. PolicyLast(t)
  BY <1>7, PolicyLastPlain
<1>5. "init" \in Ops /\ "init" \notin BackingUp \cup Activating \cup Unprotected
  BY DEF Ops, BackingUp, InOneTry, Activating, Unprotected
<1>6. QED
  BY <1>1, <1>3, <1>4, <1>5, <1>8, BeginSafe DEF Plain

\* install-plugin is the check and the writes after it.
LEMMA InstallPluginSafe ==
  ASSUME LifecycleInv, InstallPlugin
  PROVE  LifecycleInv'
<1>1. Begin("install-plugin", InstallPluginEntries)
  BY DEF InstallPlugin
<1>2. InstallPluginEntries \in Seq(StepsOf("install-plugin"))
  BY EntriesChecked DEF StepsOf
<1>3. \A i \in 1..Len(InstallPluginEntries) : InstallPluginEntries[i] = AssertWritable => i = 1
  BY EntriesChecked, NamedKinds, StepKinds
<1>4. "install-plugin" \in Ops /\ "install-plugin" \notin BackingUp \cup Activating
  BY DEF Ops, BackingUp, InOneTry, Activating
<1>5. \A id \in ProviderIds : Guarded(InstallPluginEntries, id)
  BY EntriesPlain DEF Plain
<1>6. InstallPluginEntries # <<>> /\ Head(InstallPluginEntries) = AssertWritable
  BY <1>2, EntriesChecked, TailFacts
<1>7. PolicyLast(InstallPluginEntries)
  BY EntriesPlain
<1>8. QED
  BY <1>1, <1>2, <1>3, <1>4, <1>5, <1>6, <1>7, BeginSafe

\* uninstall-plugin only names directories with the marker.
LEMMA UninstallPluginSafe ==
  ASSUME LifecycleInv, UninstallPlugin
  PROVE  LifecycleInv'
<1> DEFINE Removal(id) == IF id \in InstalledEntries(files) THEN <<RemoveEntry(id)>> ELSE <<>>
           c == Removal(Canonical)
           l == Removal(Legacy)
<1>1. Begin("uninstall-plugin", c \o l)
  BY DEF UninstallPlugin
<1>2. ASSUME NEW id \in ProviderIds
      PROVE  /\ Removal(id) \in Seq({RemoveEntry(i) : i \in ProviderIds})
             /\ \A other \in ProviderIds : Foreign(files, other) => Guarded(Removal(id), other)
  <2>1. Removal(id) \in Seq({RemoveEntry(i) : i \in ProviderIds})
    OBVIOUS
  <2>2. ASSUME NEW other \in ProviderIds, Foreign(files, other), id \in InstalledEntries(files)
        PROVE  Guarded(<<RemoveEntry(id)>>, other)
    <3>1. id # other
      BY <2>2 DEF InstalledEntries, Foreign
    <3>2. ~Touches(RemoveEntry(id), other)
      BY <3>1, StepKinds, NodesApart DEF Touches
    <3>3. Len(<<RemoveEntry(id)>>) = 1 /\ <<RemoveEntry(id)>>[1] = RemoveEntry(id)
      OBVIOUS
    <3>4. QED
      BY <3>2, <3>3 DEF Guarded
  <2>3. \A other \in ProviderIds : Guarded(<<>>, other)
    BY PlainNone DEF Plain
  <2>4. QED
    BY <2>1, <2>2, <2>3
<1>3. Canonical \in ProviderIds /\ Legacy \in ProviderIds
  BY DEF ProviderIds
<1>4. /\ c \in Seq({RemoveEntry(i) : i \in ProviderIds}) /\ l \in Seq({RemoveEntry(i) : i \in ProviderIds})
      /\ \A id \in ProviderIds : Foreign(files, id) => Guarded(c, id) /\ Guarded(l, id)
  BY <1>2, <1>3
<1> HIDE DEF c, l
<1>5. c \o l \in Seq(StepsOf("uninstall-plugin"))
  BY <1>4, ConcatProperties DEF StepsOf
<1>6. \A id \in ProviderIds : Foreign(files, id) => Guarded(c \o l, id)
  BY <1>4, GuardedConcat
<1>7. /\ "uninstall-plugin" \in Ops
      /\ "uninstall-plugin" \notin BackingUp \cup Activating \cup Unprotected \cup Bare
  BY DEF Ops, BackingUp, InOneTry, Activating, Unprotected, Bare
<1>8. QED
  BY <1>1, <1>5, <1>6, <1>7, BeginSafe

\* adopt checks and writes the entries, and only then backs up.
LEMMA AdoptSafe ==
  ASSUME LifecycleInv, NEW policy \in Policies, Adopt(policy)
  PROVE  LifecycleInv'
<1> DEFINE e == InstallPluginEntries
           p == ApplyPlan(policy, TRUE)
           P == {AssertWritable, Make} \cup EntryPuts
           A == {AssertWritable} \cup EntryPuts \cup PlanSteps
<1>1. Begin("adopt", e \o p)
  BY DEF Adopt
<1>2. /\ "adopt" \in Ops /\ "adopt" \in BackingUp /\ BeforeSeal("adopt") = P
      /\ StepsOf("adopt") = A
  BY DEF Ops, BackingUp, BeforeSeal, StepsOf
<1>3. /\ e \in Seq(BackupCommandSteps) /\ e \in Seq(P) /\ e # <<>> /\ e[1] = AssertWritable
      /\ \A id \in ProviderIds : Guarded(e, id)
      /\ \A i \in 1..Len(e) : i # 1 => e[i] # AssertWritable
      /\ \A i \in 1..Len(e) : e[i] \notin PolicyPuts \cup {Activate}
      /\ PolicyLast(e)
  BY EntriesPlain, EntriesChecked, NamedKinds, StepKinds DEF Plain
<1>4. /\ p \in Seq(BackupCommandSteps) /\ Sealing(p, P) /\ Has(p, Make) /\ Has(p, WriteConfig(policy))
      /\ Has(p, Activate) /\ \A id \in ProviderIds : Guarded(p, id)
      /\ \A i \in 1..Len(p) : p[i] # AssertWritable
      /\ PolicyLast(p)
  BY PlanBacksUp DEF BackedUp
<1>12. e \in Seq(A) /\ p \in Seq(A)
  <2>1. {AssertWritable} \cup EntryPuts \subseteq A /\ PlanSteps \subseteq A
    OBVIOUS
  <2>2. e \in Seq({AssertWritable} \cup EntryPuts) /\ p \in Seq(PlanSteps)
    BY EntriesChecked, PlanBacksUp
  <2>3. QED
    BY <2>1, <2>2, SeqMonotonic
<1> HIDE DEF e, p, P, A
<1> DEFINE u == e \o p
<1>5. /\ u \in Seq(BackupCommandSteps) /\ Len(u) = Len(e) + Len(p) /\ Len(p) \in Nat /\ Len(e) \in Nat \ {0}
      /\ \A i \in 1..(Len(e) + Len(p)) : u[i] = IF i <= Len(e) THEN e[i] ELSE p[i - Len(e)]
  <2>1. Len(p) \in Nat /\ Len(e) \in Nat \ {0}
    BY <1>3, <1>4, EmptySeq
  <2>2. QED
    BY <1>3, <1>4, <2>1, ConcatProperties
<1>6. Sealing(u, P) /\ Has(u, Make) /\ Has(u, Activate) /\ Has(u, WriteConfig(policy))
  <2>1. Sealing(u, P)
    BY <1>3, <1>4, SealingPrepend
  <2>2. Has(u, Make) /\ Has(u, Activate) /\ Has(u, WriteConfig(policy))
    BY <1>3, <1>4, HasConcat
  <2>3. QED
    BY <2>1, <2>2
<1>7. \A id \in ProviderIds : Guarded(u, id)
  BY <1>3, <1>4, GuardedConcat
<1> HIDE DEF u
<1>8. \A i \in 1..Len(u) : u[i] = AssertWritable => i = 1
  <2> SUFFICES ASSUME NEW i \in 1..Len(u), i # 1
               PROVE  u[i] # AssertWritable
    OBVIOUS
  <2>1. CASE i <= Len(e)
    BY <1>3, <1>5, <2>1
  <2>2. CASE ~(i <= Len(e))
    <3>1. u[i] = p[i - Len(e)] /\ i - Len(e) \in 1..Len(p)
      BY <1>5, <2>2
    <3>2. QED
      BY <1>4, <3>1
  <2>3. QED
    BY <2>1, <2>2
<1>9. u # <<>> /\ Head(u) = AssertWritable
  <2>1. 1 \in 1..Len(u) /\ u[1] = e[1]
    BY <1>5
  <2>2. u # <<>>
    BY <2>1, EmptySeq
  <2>3. QED
    BY <1>3, <1>5, <2>1, <2>2, TailFacts
<1>10. u \in Seq(StepsOf("adopt")) /\ WriteConfig(policy) \in PolicyPuts
  BY <1>2, <1>12, ConcatProperties DEF PolicyPuts, u
<1>13. PolicyLast(u)
  BY <1>3, <1>4, PolicyLastConcat DEF u
<1>11. QED
  BY <1>1, <1>2, <1>6, <1>7, <1>8, <1>9, <1>10, <1>13, BeginSafe DEF u

\* The commands whose only steps are those of apply_plan.
LEMMA PlanSafe ==
  ASSUME LifecycleInv, NEW op \in {"provider", "upgrade-config"}, NEW policy \in Policies,
         Begin(op, ApplyPlan(policy, FALSE))
  PROVE  LifecycleInv'
<1> DEFINE t == ApplyPlan(policy, FALSE)
<1>1. op \in Ops /\ op \in BackingUp /\ op \notin Activating /\ BeforeSeal(op) = {Make}
  BY DEF Ops, BackingUp, Activating, BeforeSeal
<1>2. BackedUp(t, {Make}) /\ t \in Seq(PlanSteps) /\ PolicyLast(t)
  BY PlanBacksUp
<1> HIDE DEF t
<1>3. t \in Seq(StepsOf(op)) /\ Sealing(t, BeforeSeal(op)) /\ Has(t, Make)
  BY <1>1, <1>2 DEF BackedUp, StepsOf
<1>4. op \notin Unprotected \cup {"rollback"}
  BY DEF Unprotected
<1>5. QED
  BY <1>1, <1>2, <1>3, <1>4, BeginSafe DEF BackedUp, t

\* upgrade-config persists the policy that load_config finds.
LEMMA UpgradeConfigSafe ==
  ASSUME LifecycleInv, UpgradeConfig
  PROVE  LifecycleInv'
<1>1. files[Router] \in {"v1"} \cup Policies
  BY ContentsOf, NodesOf DEF UpgradeConfig, LifecycleInv, TypeOK, Home
<1>2. LoadConfig(files) \in Policies
  BY <1>1 DEF LoadConfig, Policies
<1>3. QED
  BY <1>2, PlanSafe DEF UpgradeConfig

\* The guided setup from inside Hermes backs up, and touches no plugin directory.
LEMMA NativeSetupSafe ==
  ASSUME LifecycleInv, NEW policy \in Policies, NEW secrets \in BOOLEAN, NativeSetup(policy, secrets)
  PROVE  LifecycleInv'
<1> DEFINE i == <<InstallDependencies, WriteHindsightProfile>>
           s == IF secrets THEN <<WriteSecretEnv>> ELSE <<>>
           a == <<WriteConfig(policy), VerifyRouter, Activate>>
           t == ((Backup \o i) \o s) \o a
<1>1. Begin("native setup", t)
  BY DEF NativeSetup
<1>2. /\ WriteConfig(policy) \in Calls /\ InstallDependencies \in Calls /\ VerifyRouter \in Calls
      /\ WriteHindsightProfile \in Calls /\ WriteSecretEnv \in Calls /\ Activate \in Calls
      /\ WriteConfig(policy) \in PolicyPuts
  BY DEF Calls, PolicyPuts, InstallDependencies, VerifyRouter
<1>3. i \in Seq(Calls) /\ s \in Seq(Calls) /\ a \in Seq(Calls)
  BY <1>2
<1>4. Len(a) = 3 /\ a[1] = WriteConfig(policy) /\ a[3] = Activate
  OBVIOUS
<1>5. Has(a, Activate) /\ Has(a, WriteConfig(policy))
  <2>1. 1 \in 1..Len(a) /\ 3 \in 1..Len(a)
    BY <1>4
  <2> HIDE DEF a
  <2>2. QED
    BY <1>4, <2>1 DEF Has
<1> HIDE DEF i, s, a
<1>6. Plain(i) /\ Plain(s) /\ Plain(a)
  BY <1>3, PlainCalls
<1>7. BackedUp(Backup \o i, {Make})
  BY <1>6, BackupFirst, BackedUpConcat
<1>8. BackedUp((Backup \o i) \o s, {Make})
  BY <1>6, <1>7, BackedUpConcat
<1>9. BackedUp(t, {Make})
  BY <1>6, <1>8, BackedUpConcat
<1>10. Has(t, Activate) /\ Has(t, WriteConfig(policy))
  BY <1>5, <1>6, <1>8, HasConcat DEF BackedUp, Plain
<1> HIDE DEF t
<1>11. /\ "native setup" \in Ops /\ "native setup" \in BackingUp
       /\ BeforeSeal("native setup") = {Make} /\ StepsOf("native setup") = BackupCommandSteps
       /\ "native setup" \notin Unprotected \cup Bare
  BY StepsOfSetup DEF Ops, BackingUp, InOneTry, BeforeSeal, Unprotected, Bare
<1>12. QED
  BY <1>1, <1>2, <1>9, <1>10, <1>11, BeginSafe DEF BackedUp

\* The guided setup from outside backs up, checks the directories, and goes on.
LEMMA SetupSafe ==
  ASSUME LifecycleInv, NEW policy \in Policies, NEW secrets \in BOOLEAN, Setup(policy, secrets)
  PROVE  LifecycleInv'
<1> DEFINE r == <<InstallRouter>>
           e == InstallPluginEntries
           i == <<InstallDependencies, WriteHindsightProfile>>
           s == IF secrets THEN <<WriteSecretEnv>> ELSE <<>>
           a == <<WriteConfig(policy), VerifyRouter, Activate, LinkCommand>>
           t == ((((Backup \o r) \o e) \o i) \o s) \o a
<1>1. Begin("setup", t)
  BY DEF Setup
<1>2. /\ WriteConfig(policy) \in Calls /\ InstallDependencies \in Calls /\ VerifyRouter \in Calls
      /\ WriteHindsightProfile \in Calls /\ WriteSecretEnv \in Calls /\ Activate \in Calls
      /\ InstallRouter \in Calls /\ LinkCommand \in Calls /\ WriteConfig(policy) \in PolicyPuts
  BY DEF Calls, PolicyPuts, InstallDependencies, VerifyRouter, InstallRouter, LinkCommand
<1>3. r \in Seq(Calls) /\ i \in Seq(Calls) /\ s \in Seq(Calls) /\ a \in Seq(Calls)
  BY <1>2
<1>4. Len(a) = 4 /\ a[1] = WriteConfig(policy) /\ a[3] = Activate
  OBVIOUS
<1>5. Has(a, Activate) /\ Has(a, WriteConfig(policy))
  <2>1. 1 \in 1..Len(a) /\ 3 \in 1..Len(a)
    BY <1>4
  <2> HIDE DEF a
  <2>2. QED
    BY <1>4, <2>1 DEF Has
<1> HIDE DEF r, e, i, s, a
<1>6. Plain(r) /\ Plain(e) /\ Plain(i) /\ Plain(s) /\ Plain(a)
  BY <1>3, PlainCalls, EntriesPlain DEF e
<1>7. BackedUp(Backup \o r, {Make})
  BY <1>6, BackupFirst, BackedUpConcat
<1>8. BackedUp((Backup \o r) \o e, {Make})
  BY <1>6, <1>7, BackedUpConcat
<1>9. BackedUp(((Backup \o r) \o e) \o i, {Make})
  BY <1>6, <1>8, BackedUpConcat
<1>10. BackedUp((((Backup \o r) \o e) \o i) \o s, {Make})
  BY <1>6, <1>9, BackedUpConcat
<1>11. BackedUp(t, {Make})
  BY <1>6, <1>10, BackedUpConcat
<1>12. Has(t, Activate) /\ Has(t, WriteConfig(policy))
  BY <1>5, <1>6, <1>10, HasConcat DEF BackedUp, Plain
<1> HIDE DEF t
<1>13. /\ "setup" \in Ops /\ "setup" \in BackingUp
       /\ BeforeSeal("setup") = {Make} /\ StepsOf("setup") = BackupCommandSteps
       /\ "setup" \notin Unprotected \cup Bare
  BY StepsOfSetup DEF Ops, BackingUp, InOneTry, BeforeSeal, Unprotected, Bare
<1>14. QED
  BY <1>1, <1>2, <1>11, <1>12, <1>13, BeginSafe DEF BackedUp

\* rollback is a restore of the newest backup.
LEMMA RollbackSafe ==
  ASSUME LifecycleInv, Rollback
  PROVE  LifecycleInv'
<1>1. Begin("rollback", RestoreBackup) /\ backups # <<>> /\ Last(backups).sealed
  BY DEF Rollback, Latest
<1>2. RestoreBackup \in Seq(StepsOf("rollback"))
  BY RestorePrograms DEF StepsOf
<1>3. "rollback" \in Ops /\ "rollback" \notin BackingUp \cup Activating \cup Unprotected \cup Bare
  BY DEF Ops, BackingUp, InOneTry, Activating, Unprotected, Bare
<1>4. QED
  BY <1>1, <1>2, <1>3, BeginSafe

\* Every command begins with the steps its invariant asks for.
LEMMA CommandSafe ==
  ASSUME LifecycleInv, Command
  PROVE  LifecycleInv'
<1>1. ASSUME NEW policy \in Policies, Provider(policy)
      PROVE  LifecycleInv'
  BY <1>1, PlanSafe DEF Provider
<1>2. QED
  BY <1>1, InitConfigSafe, AdoptSafe, SetupSafe, NativeSetupSafe, InstallPluginSafe,
     UninstallPluginSafe, UpgradeConfigSafe, RollbackSafe, RollbackInvalidSafe DEF Command

\* Every step of a command keeps the invariant.
LEMMA CommandStepSafe ==
  ASSUME LifecycleInv, CommandStep
  PROVE  LifecycleInv'
BY PutFileSafe, WriteFailsSafe, RemoveTreeSafe, RemoveTreeLeavesSafe, CheckWritableSafe,
   MakeBackupSafe, SealBackupSafe, BackupFailsSafe, RestoreOneSafe, RestoreFailsSafe, RunExternalSafe, ActivateSafe, FinishSafe DEF CommandStep

-----------------------------------------------------------------------------
\* The invariant of the commands: which steps are still to come, and what the
\* home and the newest backup are until they are done.
THEOREM Lifecycle == Spec => []LifecycleInv
<1>1. Init => LifecycleInv
  BY LifecycleInit
<1>2. LifecycleInv /\ [Next]_vars => LifecycleInv'
  BY CommandSafe, CommandStepSafe, CrashSafe, UserSafe, StutterSafe DEF Next
<1>3. QED
  BY <1>1, <1>2, PTL DEF Spec

\* Every variable of the configuration commands keeps its type.
THEOREM LifecycleTypes == Spec => []TypeOK
<1>1. LifecycleInv => TypeOK
  BY DEF LifecycleInv
<1>2. QED
  BY Lifecycle, <1>1, PTL

\* A command that reports failure has changed nothing it answers for, whichever
\* read, write or call raised, from any home and after any number of commands,
\* failures and crashes; when it found a plugin directory of the user's, nothing.
THEOREM FailuresLeaveNoTrace == Spec => []FailureLeavesNoTrace
<1>1. LifecycleInv => FailureLeavesNoTrace
  BY DEF LifecycleInv, Promises
<1>2. QED
  BY Lifecycle, <1>1, PTL

\* From the first change of a command that backs up, and after it has ended in
\* whatever way, the newest backup is the home from before the command.
THEOREM BackupsArePreChange == Spec => []BackupIsPreChange
<1>1. LifecycleInv => BackupIsPreChange
  BY DEF LifecycleInv, Promises
<1>2. QED
  BY Lifecycle, <1>1, PTL

\* A completed rollback leaves the files of the newest backup, all of them,
\* over whatever a killed command or a killed rollback left behind.
THEOREM RollbacksRestore == Spec => []RollbackRestores
<1>1. LifecycleInv => RollbackRestores
  BY DEF LifecycleInv, Promises
<1>2. QED
  BY Lifecycle, <1>1, PTL

\* Adoption and setup that succeed leave Chronalyn the only active provider.
THEOREM ActivatesAlone == Spec => []ActivatedAlone
<1>1. LifecycleInv => ActivatedAlone
  BY DEF LifecycleInv, Promises
<1>2. QED
  BY Lifecycle, <1>1, PTL

\* No command but a rollback changes a plugin directory without the marker.
THEOREM ForeignEntriesKept == Spec => []ForeignEntriesSurvive
<1>1. LifecycleInv => ForeignEntriesSurvive
  BY DEF LifecycleInv, Promises
<1>2. QED
  BY Lifecycle, <1>1, PTL
=============================================================================
