------------------------------ MODULE ManagedProofs ------------------------------
(***************************************************************************)
(* Proofs about ManagedHindsight, for any number of homes.  What the unit  *)
(* names is complete because every setup reaches the registration through  *)
(* the steps that make it so, and every removal drops the unit before it   *)
(* deletes anything, or leaves it disabled; StepInv says how far each home *)
(* has come, and LeftoverInv what became of a unit that stayed behind.     *)
(***************************************************************************)
EXTENDS ManagedHindsight, TLAPS

\* What a setup or a removal has established by the time it reaches each of its steps.
StepInv ==
  \A h \in Homes :
    /\ step[h] \in {"pip", "env", "look", "spawn", "launcher", "unit"} => venv[h] # "none"
    /\ step[h] \in {"look", "spawn", "launcher", "unit"} => settings[h] # 0
    /\ step[h] = "unit" => launcher[h]
    /\ step[h] = "remove" => unit # h \/ h \in leftover
    /\ step[h] = "enable" => h \notin leftover
    /\ step[h] = "unlink" => (enabled => enabler # h)

\* A unit that outlived its home was disabled by the removal of that home, and its own
\* setup enables it only after writing it again.
LeftoverInv == \A h \in leftover : enabled => enabler # h

ManagedInv == TypeOK /\ StepInv /\ LeftoverInv /\ UnitIsComplete /\ ServesWrittenSettings

\* The invariant holds before anything is installed.
LEMMA ManagedInit == Init => ManagedInv
<1> SUFFICES ASSUME Init PROVE ManagedInv
  OBVIOUS
<1> USE ManagedAssumption DEF Init
<1>1. TypeOK
  <2>1. /\ venv \in [Homes -> {"none", "bare", "complete"}]
        /\ settings \in [Homes -> 0..MaxSettings]
        /\ step \in [Homes -> Steps]
        /\ serving \in 0..MaxSettings /\ written \in 0..MaxSettings
        /\ leftover \subseteq Homes
    BY DEF Steps, SetupSteps
  <2>2. launcher \in [Homes -> BOOLEAN] /\ enabled \in BOOLEAN
    OBVIOUS
  <2>3. /\ unit \in Homes \cup {None} /\ port \in Homes \cup {Foreign, None}
        /\ enabler \in Homes \cup {None}
    OBVIOUS
  <2>4. QED
    BY <2>1, <2>2, <2>3 DEF TypeOK
<1>2. StepInv /\ LeftoverInv
  BY DEF StepInv, LeftoverInv
<1>3. UnitIsComplete /\ ServesWrittenSettings
  BY DEF UnitIsComplete, ServesWrittenSettings
<1>4. QED
  BY <1>1, <1>2, <1>3 DEF ManagedInv

\* Serving the home h, whose settings are written, keeps the type and the claim of the port.
LEMMA ServeSafe ==
  ASSUME NEW h \in Homes, TypeOK, ServesWrittenSettings, settings[h] # 0, Serve(h)
  PROVE  /\ port' \in Homes \cup {Foreign, None} /\ serving' \in 0..MaxSettings
         /\ ServesWrittenSettings'
BY ManagedAssumption DEF Serve, TypeOK, ServesWrittenSettings, portVars

\* No step of a setup disturbs the invariant, of its own home or of another.
LEMMA SetupSafe ==
  ASSUME NEW h \in Homes, ManagedInv, Setup(h)
  PROVE  ManagedInv'
<1> USE ManagedAssumption
        DEF ManagedInv, TypeOK, Steps, SetupSteps, StepInv, LeftoverInv, UnitIsComplete,
            Complete, ServesWrittenSettings, Proceed, homeVars, unitVars, portVars, history
<1>1. CASE BeginSetup(h)
  BY <1>1 DEF BeginSetup
<1>2. CASE AlreadyPresent(h)
  BY <1>2 DEF AlreadyPresent
<1>3. CASE CreateVenv(h)
  BY <1>3 DEF CreateVenv
<1>4. CASE InstallPackage(h)
  BY <1>4 DEF InstallPackage
<1>5. CASE WriteSettings(h)
  BY <1>5 DEF WriteSettings
<1>6. CASE AlreadyListening(h)
  BY <1>6 DEF AlreadyListening
<1>7. CASE PortIsFree(h)
  BY <1>7 DEF PortIsFree
<1>8. CASE Spawn(h)
  <2>1. settings[h] # 0
    BY <1>8 DEF Spawn
  <2>2. QED
    BY <1>8, <2>1, ServeSafe DEF Spawn
<1>9. CASE WriteLauncher(h)
  BY <1>9 DEF WriteLauncher
<1>10. CASE NoSystemd(h)
  BY <1>10 DEF NoSystemd
<1>11. CASE WriteUnit(h)
  BY <1>11 DEF WriteUnit
<1>12. CASE EnableUnit(h)
  BY <1>12 DEF EnableUnit
<1>13. CASE StartUnit(h)
  <2>1. CASE Startable(unit)
    <3>1. unit \in Homes /\ settings[unit] # 0 /\ Serve(unit)
      BY <1>13, <2>1 DEF StartUnit, Startable
    <3>2. QED
      BY <1>13, <3>1, ServeSafe DEF StartUnit
  <2>2. CASE ~Startable(unit)
    BY <1>13, <2>2 DEF StartUnit
  <2>3. QED
    BY <2>1, <2>2
<1>14. CASE SetupFails(h)
  BY <1>14 DEF SetupFails
<1>15. QED
  BY <1>1, <1>2, <1>3, <1>4, <1>5, <1>6, <1>7, <1>8, <1>9, <1>10, <1>11, <1>12, <1>13, <1>14
     DEF Setup

\* Nor does a step of a removal: the directory goes when no unit names its home, or when
\* the unit that does is recorded as left over.
LEMMA RemovalSafe ==
  ASSUME NEW h \in Homes, ManagedInv, Removal(h)
  PROVE  ManagedInv'
<1> USE ManagedAssumption
        DEF ManagedInv, TypeOK, Steps, SetupSteps, StepInv, LeftoverInv, UnitIsComplete,
            Complete, ServesWrittenSettings, Proceed, homeVars, unitVars, portVars, history
<1>1. CASE BeginRemoval(h)
  BY <1>1 DEF BeginRemoval
<1>2. CASE StopDaemon(h)
  BY <1>2 DEF StopDaemon
<1>3. CASE NoUnit(h)
  BY <1>3 DEF NoUnit
<1>4. CASE DisableUnit(h)
  BY <1>4 DEF DisableUnit
<1>5. CASE DisableFails(h)
  BY <1>5 DEF DisableFails
<1>6. CASE DropUnit(h)
  BY <1>6 DEF DropUnit
<1>7. CASE UnlinkFails(h)
  BY <1>7 DEF UnlinkFails
<1>8. CASE RemoveDirectory(h)
  BY <1>8 DEF RemoveDirectory
<1>9. CASE RemovePart(h)
  <2>1. /\ venv' = [venv EXCEPT ![h] = venv'[h]]
        /\ venv'[h] \in {"none", "bare", venv[h]}
    BY <1>9 DEF RemovePart
  <2>2. /\ settings' = [settings EXCEPT ![h] = settings'[h]]
        /\ settings'[h] \in {0, settings[h]}
    BY <1>9 DEF RemovePart
  <2>3. /\ launcher' = [launcher EXCEPT ![h] = launcher'[h]]
        /\ launcher'[h] \in {FALSE, launcher[h]}
    BY <1>9 DEF RemovePart
  <2>4. /\ step[h] = "remove" /\ step' = [step EXCEPT ![h] = "idle"]
        /\ UNCHANGED <<unit, enabled, port, serving, written, enabler, leftover>>
    BY <1>9 DEF RemovePart
  <2>5. TypeOK'
    <3>1. venv' \in [Homes -> {"none", "bare", "complete"}]
      BY <2>1
    <3>2. settings' \in [Homes -> 0..MaxSettings]
      BY <2>2
    <3>3. launcher' \in [Homes -> BOOLEAN]
      BY <2>3
    <3>4. step' \in [Homes -> Steps]
      BY <2>4
    <3>5. QED
      BY <2>4, <3>1, <3>2, <3>3, <3>4
  <2>6. StepInv' /\ LeftoverInv'
    BY <2>1, <2>2, <2>3, <2>4
  <2>7. UnitIsComplete' /\ ServesWrittenSettings'
    BY <2>1, <2>2, <2>3, <2>4
  <2>8. QED
    BY <2>5, <2>6, <2>7
<1>10. CASE RemovalDies(h)
  BY <1>10 DEF RemovalDies
<1>11. QED
  BY <1>1, <1>2, <1>3, <1>4, <1>5, <1>6, <1>7, <1>8, <1>9, <1>10 DEF Removal

\* Nor does the machine.
LEMMA MachineSafe ==
  ASSUME ManagedInv, Reboot \/ DaemonDies \/ ForeignListens
  PROVE  ManagedInv'
<1> USE ManagedAssumption
        DEF ManagedInv, TypeOK, Steps, SetupSteps, StepInv, LeftoverInv, UnitIsComplete,
            Complete, ServesWrittenSettings, homeVars, unitVars, portVars, history
<1>1. CASE Reboot
  BY <1>1 DEF Reboot, Startable
<1>2. CASE DaemonDies
  BY <1>2 DEF DaemonDies
<1>3. CASE ForeignListens
  BY <1>3 DEF ForeignListens
<1>4. QED
  BY <1>1, <1>2, <1>3

\* The inductive invariant holds in every reachable state.
THEOREM Managed == Spec => []ManagedInv
<1>1. Init => ManagedInv
  BY ManagedInit
<1>2. ManagedInv /\ [Next]_vars => ManagedInv'
  <2> SUFFICES ASSUME ManagedInv, [Next]_vars PROVE ManagedInv'
    OBVIOUS
  <2>1. CASE Next
    BY <2>1, SetupSafe, RemovalSafe, MachineSafe DEF Next
  <2>2. CASE UNCHANGED vars
    BY <2>2 DEF ManagedInv, TypeOK, Steps, SetupSteps, StepInv, LeftoverInv, UnitIsComplete,
                Complete, ServesWrittenSettings, vars, homeVars, unitVars, portVars, history
  <2>3. QED
    BY <2>1, <2>2
<1>3. QED
  BY <1>1, <1>2, PTL DEF Spec

\* managed.py: the unit of the user names a home that has everything it starts, or is the
\* file of a removed home that could not be unlinked, which only another home enables.
THEOREM CompleteUnit == Spec => []UnitIsComplete
BY Managed, PTL DEF ManagedInv

\* managed.py: nothing is served from a home whose env file was never written.
THEOREM WrittenSettings == Spec => []ServesWrittenSettings
BY Managed, PTL DEF ManagedInv

\* Files, unit and port keep their types.
THEOREM ManagedTypes == Spec => []TypeOK
BY Managed, PTL DEF ManagedInv
=============================================================================
