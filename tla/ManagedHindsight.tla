---------------------------- MODULE ManagedHindsight ----------------------------
(***************************************************************************)
(* The local Hindsight that Chronalyn installs, starts, registers and      *)
(* removes: src/chronalyn/managed.py, in the order the guided setup calls  *)
(* it (setup_tui.py).                                                      *)
(*                                                                         *)
(* Everything below hindsight-managed belongs to one Hermes home; the port *)
(* and the name of the systemd user unit are the same for every home of    *)
(* the user, so setups and removals of different homes meet there.         *)
(***************************************************************************)
EXTENDS Naturals

CONSTANTS
  Homes,       \* Hermes homes of one user
  Foreign,     \* a Hindsight that Chronalyn did not install
  None,        \* nobody
  MaxSettings  \* bound: how often a setup writes settings

ASSUME ManagedAssumption ==
  /\ Foreign \notin Homes
  /\ None \notin Homes \cup {Foreign}
  /\ MaxSettings \in Nat \ {0}

VARIABLES
  venv,      \* per home: "none", "bare" (no package yet) or "complete"
  settings,  \* per home: which settings the env file holds, 0 when there is no file
  launcher,  \* per home: start-hindsight.sh exists
  step,      \* per home: what its setup or removal does next
  unit,      \* the home that chronalyn-hindsight.service names
  enabled,   \* the unit is enabled
  port,      \* who listens on 127.0.0.1:8888
  serving,   \* the settings that process read when it started
  written,   \* settings written so far
  enabler,   \* history: the home whose setup enabled the unit last
  leftover   \* history: homes removed beside a unit file that names them

homeVars == <<venv, settings, launcher>>
unitVars == <<unit, enabled>>
portVars == <<port, serving>>
history == <<enabler, leftover>>
vars == <<homeVars, step, unitVars, portVars, written, history>>

SetupSteps == {"install", "pip", "env", "look", "spawn", "launcher", "unit", "enable", "start"}
Steps == SetupSteps \cup {"idle", "stop", "disable", "unlink", "remove"}

TypeOK ==
  /\ venv \in [Homes -> {"none", "bare", "complete"}]
  /\ settings \in [Homes -> 0..MaxSettings]
  /\ launcher \in [Homes -> BOOLEAN]
  /\ step \in [Homes -> Steps]
  /\ unit \in Homes \cup {None}
  /\ enabled \in BOOLEAN
  /\ port \in Homes \cup {Foreign, None}
  /\ serving \in 0..MaxSettings
  /\ written \in 0..MaxSettings
  /\ enabler \in Homes \cup {None}
  /\ leftover \subseteq Homes

Init ==
  /\ venv = [h \in Homes |-> "none"]
  /\ settings = [h \in Homes |-> 0]
  /\ launcher = [h \in Homes |-> FALSE]
  /\ step = [h \in Homes |-> "idle"]
  /\ unit = None
  /\ enabled = FALSE
  /\ port = None
  /\ serving = 0
  /\ written = 0
  /\ enabler = None
  /\ leftover = {}

Proceed(h, from, to) == step[h] = from /\ step' = [step EXCEPT ![h] = to]

-----------------------------------------------------------------------------
(* The managed part of the setup.                                          *)

BeginSetup(h) ==
  /\ Proceed(h, "idle", "install")
  /\ UNCHANGED <<homeVars, unitVars, portVars, written, history>>

\* Mutant of AlreadyPresent: an installed Hindsight is started without writing its settings.
StartPresent(h) ==
  /\ Proceed(h, "install", "look")
  /\ venv[h] # "none"
  /\ UNCHANGED <<homeVars, unitVars, portVars, written, history>>

\* install_hindsight takes any venv with a python for an installed one.
AlreadyPresent(h) ==
  /\ Proceed(h, "install", "env")
  /\ venv[h] # "none"
  /\ UNCHANGED <<homeVars, unitVars, portVars, written, history>>

CreateVenv(h) ==
  /\ Proceed(h, "install", "pip")
  /\ venv[h] = "none"
  /\ venv' = [venv EXCEPT ![h] = "bare"]
  /\ UNCHANGED <<settings, launcher, unitVars, portVars, written, history>>

InstallPackage(h) ==
  /\ Proceed(h, "pip", "env")
  /\ venv' = [venv EXCEPT ![h] = "complete"]
  /\ UNCHANGED <<settings, launcher, unitVars, portVars, written, history>>

\* build_env_file, after the dimensions are known.
WriteSettings(h) ==
  /\ Proceed(h, "env", "look")
  /\ written < MaxSettings
  /\ written' = written + 1
  /\ settings' = [settings EXCEPT ![h] = written + 1]
  /\ UNCHANGED <<venv, launcher, unitVars, portVars, history>>

\* start_hindsight: whoever answers on the port is taken for the managed service.
AlreadyListening(h) ==
  /\ Proceed(h, "look", "launcher")
  /\ port # None
  /\ UNCHANGED <<homeVars, unitVars, portVars, written, history>>

PortIsFree(h) ==
  /\ Proceed(h, "look", "spawn")
  /\ port = None
  /\ UNCHANGED <<homeVars, unitVars, portVars, written, history>>

\* hindsight-api --daemon serves the settings of its directory, unless the port is taken.
Serve(h) ==
  IF port = None /\ venv[h] = "complete"
  THEN port' = h /\ serving' = settings[h]
  ELSE UNCHANGED portVars

Spawn(h) ==
  /\ Proceed(h, "spawn", "launcher")
  /\ venv[h] = "complete"
  /\ Serve(h)
  /\ UNCHANGED <<homeVars, unitVars, written, history>>

WriteLauncher(h) ==
  /\ Proceed(h, "launcher", "unit")
  /\ launcher' = [launcher EXCEPT ![h] = TRUE]
  /\ UNCHANGED <<venv, settings, unitVars, portVars, written, history>>

\* No systemd --user, or no answer from it in time.
NoSystemd(h) ==
  /\ Proceed(h, "unit", "idle")
  /\ UNCHANGED <<homeVars, unitVars, portVars, written, history>>

WriteUnit(h) ==
  /\ Proceed(h, "unit", "enable")
  /\ unit' = h
  /\ leftover' = leftover \ {h}
  /\ UNCHANGED <<homeVars, enabled, portVars, written, enabler>>

\* daemon-reload and enable.
EnableUnit(h) ==
  /\ Proceed(h, "enable", "start")
  /\ unit # None
  /\ enabled' = TRUE
  /\ enabler' = h
  /\ UNCHANGED <<homeVars, unit, portVars, written, leftover>>

\* systemd starts a unit that names h: not without its EnvironmentFile or its launcher.
Startable(h) == settings[h] # 0 /\ launcher[h]

\* systemctl start runs the launcher that the unit names by now; of type simple, the
\* unit counts as started whatever becomes of it.
StartUnit(h) ==
  /\ Proceed(h, "start", "idle")
  /\ unit # None
  /\ IF Startable(unit) THEN Serve(unit) ELSE UNCHANGED portVars
  /\ UNCHANGED <<homeVars, unitVars, written, history>>

\* A command fails or times out, an endpoint does not answer, the daemon never gets
\* healthy, a file cannot be written, the process dies; the rollback of the
\* configuration touches nothing here.
SetupFails(h) ==
  /\ step[h] \in SetupSteps
  /\ Proceed(h, step[h], "idle")
  /\ UNCHANGED <<homeVars, unitVars, portVars, written, history>>

-----------------------------------------------------------------------------
(* uninstall_hindsight.                                                    *)

\* Mutant of BeginRemoval: a first step that no code continues.
BeginUnknown(h) ==
  /\ Proceed(h, "idle", "uninstall")
  /\ UNCHANGED <<homeVars, unitVars, portVars, written, history>>

BeginRemoval(h) ==
  /\ Proceed(h, "idle", "stop")
  /\ UNCHANGED <<homeVars, unitVars, portVars, written, history>>

\* stop_hindsight finds a process by the path of the home's own venv, and waits ten
\* seconds for a process that may take longer.
StopDaemon(h) ==
  /\ Proceed(h, "stop", "disable")
  /\ \/ port = h /\ port' = None /\ serving' = 0
     \/ UNCHANGED portVars
  /\ UNCHANGED <<homeVars, unitVars, written, history>>

NoUnit(h) ==
  /\ Proceed(h, "disable", "remove")
  /\ unit = None
  /\ UNCHANGED <<homeVars, unitVars, portVars, written, history>>

\* The unit is disabled, whichever home it names.
DisableUnit(h) ==
  /\ Proceed(h, "disable", "unlink")
  /\ unit # None
  /\ enabled' = FALSE
  /\ UNCHANGED <<homeVars, unit, portVars, written, history>>

\* Mutant of DisableFails: a failing systemctl is passed over, as the except clause means to.
PassOverFailure(h) ==
  /\ Proceed(h, "disable", "remove")
  /\ unit # None
  /\ UNCHANGED <<homeVars, unitVars, portVars, written, history>>

\* run_command turns the failure into a ConfigurationError, which nothing catches.
DisableFails(h) ==
  /\ Proceed(h, "disable", "idle")
  /\ unit # None
  /\ UNCHANGED <<homeVars, unitVars, portVars, written, history>>

\* So does the file, which another setup may have written or enabled meanwhile.
DropUnit(h) ==
  /\ Proceed(h, "unlink", "remove")
  /\ unit # None
  /\ unit' = None
  /\ UNCHANGED <<homeVars, enabled, portVars, written, history>>

\* An OSError of the unlink is caught, also when the file is gone, and the removal goes on.
UnlinkFails(h) ==
  /\ Proceed(h, "unlink", "remove")
  /\ leftover' = IF unit = h THEN leftover \cup {h} ELSE leftover
  /\ UNCHANGED <<homeVars, unitVars, portVars, written, enabler>>

RemoveDirectory(h) ==
  /\ Proceed(h, "remove", "idle")
  /\ venv' = [venv EXCEPT ![h] = "none"]
  /\ settings' = [settings EXCEPT ![h] = 0]
  /\ launcher' = [launcher EXCEPT ![h] = FALSE]
  /\ UNCHANGED <<unitVars, portVars, written, history>>

\* rmtree raises or dies with the process, and leaves some of the files.
RemovePart(h) ==
  /\ Proceed(h, "remove", "idle")
  /\ \/ UNCHANGED venv
     \/ venv' = [venv EXCEPT ![h] = "none"]
     \/ venv[h] = "complete" /\ venv' = [venv EXCEPT ![h] = "bare"]
  /\ UNCHANGED settings \/ settings' = [settings EXCEPT ![h] = 0]
  /\ UNCHANGED launcher \/ launcher' = [launcher EXCEPT ![h] = FALSE]
  /\ UNCHANGED <<unitVars, portVars, written, history>>

\* The process that removes dies between two of its steps.
RemovalDies(h) ==
  /\ step[h] \in {"stop", "disable", "unlink"}
  /\ Proceed(h, step[h], "idle")
  /\ UNCHANGED <<homeVars, unitVars, portVars, written, history>>

-----------------------------------------------------------------------------
(* The machine.                                                            *)

\* A restart ends every process; systemd starts the enabled unit.
Reboot ==
  /\ step' = [h \in Homes |-> "idle"]
  /\ IF enabled /\ unit # None /\ Startable(unit) /\ venv[unit] = "complete"
     THEN port' = unit /\ serving' = settings[unit]
     ELSE port' = None /\ serving' = 0
  /\ UNCHANGED <<homeVars, unitVars, written, history>>

\* The daemon setup started is not systemd's process, so nobody restarts it.
DaemonDies ==
  /\ port # None
  /\ port' = None
  /\ serving' = 0
  /\ UNCHANGED <<homeVars, step, unitVars, written, history>>

ForeignListens ==
  /\ port = None
  /\ port' = Foreign
  /\ UNCHANGED <<homeVars, step, unitVars, serving, written, history>>

Setup(h) ==
  \/ BeginSetup(h) \/ AlreadyPresent(h) \/ CreateVenv(h) \/ InstallPackage(h)
  \/ WriteSettings(h) \/ AlreadyListening(h) \/ PortIsFree(h) \/ Spawn(h)
  \/ WriteLauncher(h) \/ NoSystemd(h) \/ WriteUnit(h) \/ EnableUnit(h) \/ StartUnit(h)
  \/ SetupFails(h)

Removal(h) ==
  \/ BeginRemoval(h) \/ StopDaemon(h) \/ NoUnit(h) \/ DisableUnit(h) \/ DisableFails(h)
  \/ DropUnit(h) \/ UnlinkFails(h) \/ RemoveDirectory(h) \/ RemovePart(h) \/ RemovalDies(h)

Next ==
  \/ \E h \in Homes : Setup(h) \/ Removal(h)
  \/ Reboot \/ DaemonDies \/ ForeignListens

Spec == Init /\ [][Next]_vars

-----------------------------------------------------------------------------
(* Properties.                                                             *)

\* What a unit starts: a launcher, an env file and a venv.
Complete(h) == launcher[h] /\ settings[h] # 0 /\ venv[h] # "none"

\* However setups and removals of several homes interleave, fail or die, the unit names a
\* home that has what it starts.  Only a unit file that could not be unlinked outlives its
\* home, and that one is disabled, unless the setup of another home enables it, which had
\* written a unit of its own before.
UnitIsComplete ==
  unit # None /\ ~Complete(unit) => unit \in leftover /\ (enabled => enabler # unit)

\* Hindsight never runs from a home before its settings are written, also when systemd
\* starts it from what an interrupted setup or removal left behind.
ServesWrittenSettings == port \in Homes => serving # 0
=============================================================================
