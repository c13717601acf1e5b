------------------------------ MODULE SetupWizard ------------------------------
(***************************************************************************)
(* The guided setup, from its first menu to the start of its apply task.   *)
(* _main calls the screens in order, and a screen that goes back calls     *)
(* another screen and returns to its own caller: the screens left to run   *)
(* are a stack, and Back replaces its head.  What the screens collect is   *)
(* one DualSetupState that is never reset, only overwritten.  What the     *)
(* apply task then does to the files is ConfigLifecycle's Setup.           *)
(***************************************************************************)
EXTENDS Naturals, Sequences

Modes == {"local_external", "cloud", "managed_local"}
Urls == {"local", "remote"}        \* is_local_endpoint, or not
Statements == 1..4                 \* acknowledgement_items; the fourth names the url

\* The screens that ask for choices, the statements the first time and after
\* Back or Revise, and what comes after them.
ChoiceScreens == {"hermes", "identity", "architecture", "hindsight", "embeddings"}
AckScreens == {"acks", "acks again"}
Screens == ChoiceScreens \cup AckScreens \cup {"review", "apply"}

CONSTANT DetectedModes
\* What discover finds in hindsight/config.json: nothing, or a mode.
ASSUME DetectedAssumption == DetectedModes \subseteq Modes \cup {"none"}

VARIABLES screens,   \* the screens still to run; the head is on display
          detected,  \* the connection discover reports
          choices,   \* DualSetupState
          acks,      \* its acknowledgements
          ended,     \* "" while screens are up, then how the setup left them
          shown,     \* ghost: mode and url when the acknowledgements were complete
          told,      \* ghost: the url when the fourth statement was ticked
          wentBack   \* ghost: Back was used on the acknowledgements
vars == <<screens, detected, choices, acks, ended, shown, told, wentBack>>

Endpoint == [mode |-> choices.mode, url |-> choices.url]

TypeOK ==
  /\ screens \in Seq(Screens)
  /\ detected \in DetectedModes
  /\ choices \in [mode : Modes, url : Urls, key : BOOLEAN, dual : BOOLEAN, llm : BOOLEAN,
                  embedding : {"none", "api", "managed"}, dims : {"none", "api", "managed"}]
  /\ acks \subseteq Statements
  /\ ended \in {"", "cancelled", "failed", "applied"}
  /\ shown \in [mode : Modes, url : Urls] \cup {[mode |-> "none", url |-> "none"]}
  /\ told \in Urls \cup {"none"}
  /\ wentBack \in BOOLEAN

\* DualSetupState's defaults.
Init ==
  /\ screens = <<"hermes", "identity", "architecture", "hindsight", "embeddings", "acks",
                 "review", "apply">>
  /\ detected \in DetectedModes
  /\ choices = [mode |-> "local_external", url |-> "local", key |-> FALSE, dual |-> TRUE,
                llm |-> FALSE, embedding |-> "none", dims |-> "none"]
  /\ acks = {} /\ ended = ""
  /\ shown = [mode |-> "none", url |-> "none"] /\ told = "none" /\ wentBack = FALSE

On(screen) == ended = "" /\ screens # <<>> /\ Head(screens) = screen
Return == screens' = Tail(screens)
Stay == screens' = screens
\* `return self._other()': the other screen runs, then this one's caller goes on.
Instead(others) == screens' = others \o Tail(screens)
Set(c) == choices' = c /\ UNCHANGED <<detected, acks, ended, shown, told, wentBack>>
Keep == Set(choices)

\* Quit is offered by menus and pages, not by text fields.
Quit ==
  /\ \E s \in {"hermes", "architecture", "hindsight", "embeddings", "acks", "acks again", "review"} :
       On(s)
  /\ ended' = "cancelled"
  /\ UNCHANGED <<screens, detected, choices, acks, shown, told, wentBack>>

\* A runtime is found, or installed after approval; the installation may fail.
Hermes ==
  /\ On("hermes")
  /\ \/ Return /\ Keep
     \/ /\ ended' = "failed"
        /\ UNCHANGED <<screens, detected, choices, acks, shown, told, wentBack>>

\* Text fields only: Escape asks again.
Identity == On("identity") /\ Return /\ Keep

Architecture ==
  /\ On("architecture")
  /\ \/ \E dual \in BOOLEAN : Return /\ Set([choices EXCEPT !.dual = dual])
     \/ Instead(<<"identity">>) /\ Keep

\* A connection detected is taken as it is; nothing else is asked.
ReuseHindsight ==
  /\ On("hindsight") /\ detected # "none"
  /\ Return
  /\ \E url \in IF detected = "cloud" THEN {"remote"} ELSE
                IF detected = "managed_local" THEN {"local"} ELSE Urls :
       Set([choices EXCEPT !.mode = detected, !.url = url])

\* Each field typed is kept even when a later one is escaped from.
SelfHosted ==
  /\ On("hindsight")
  /\ LET chosen == [choices EXCEPT !.mode = "local_external"]
     IN \/ Stay /\ Set(chosen)
        \/ \E url \in Urls : Stay /\ Set([chosen EXCEPT !.url = url])
        \/ \E url \in Urls, key \in BOOLEAN :
             (Stay \/ Return) /\ Set([chosen EXCEPT !.url = url, !.key = key])

Cloud ==
  /\ On("hindsight")
  /\ LET chosen == [choices EXCEPT !.mode = "cloud"]
     IN \/ Stay /\ Set(chosen)
        \/ Stay /\ Set([chosen EXCEPT !.url = "remote"])
        \/ (Stay \/ Return) /\ Set([chosen EXCEPT !.url = "remote", !.key = TRUE])

\* _managed_local collects the LLM inputs; its base url is also the embeddings'.
ManagedLocal ==
  /\ On("hindsight")
  /\ LET chosen == [choices EXCEPT !.mode = "managed_local", !.url = "local", !.key = FALSE]
         base == [chosen EXCEPT !.embedding = "managed"]
     IN \/ Stay /\ Set(chosen)
        \/ Stay /\ Set(base)
        \/ (Stay \/ Return) /\ Set([base EXCEPT !.llm = TRUE])

HindsightBack == On("hindsight") /\ Instead(<<"identity">>) /\ Keep

Embeddings ==
  /\ On("embeddings")
  /\ IF ~choices.dual \/ choices.mode = "managed_local"
     THEN Return /\ Keep
     ELSE \/ Return /\ Keep                                     \* existing configuration
          \/ Stay /\ Set([choices EXCEPT !.embedding = "api"])  \* escaped after the url
          \/ Return /\ Set([choices EXCEPT !.embedding = "api", !.dims = "api"])
          \/ Instead(<<"hindsight">>) /\ Keep

OnAcks == On("acks") \/ On("acks again")

\* Mutant: the number key is off by one.
ToggleAckOffByOne(i) ==
  /\ OnAcks
  /\ acks' = IF i + 1 \in acks THEN acks \ {i + 1} ELSE acks \cup {i + 1}
  /\ told' = IF i = 4 /\ i \notin acks THEN choices.url ELSE told
  /\ UNCHANGED <<screens, detected, choices, ended, shown, wentBack>>

ToggleAck(i) ==
  /\ OnAcks
  /\ acks' = IF i \in acks THEN acks \ {i} ELSE acks \cup {i}
  /\ told' = IF i = 4 /\ i \notin acks THEN choices.url ELSE told
  /\ UNCHANGED <<screens, detected, choices, ended, shown, wentBack>>

AcksContinue ==
  /\ OnAcks /\ acks = Statements
  /\ Return /\ shown' = Endpoint
  /\ UNCHANGED <<detected, choices, acks, ended, told, wentBack>>

\* Back once: Hindsight again, then these statements, with their ticks.
AcksBack ==
  /\ OnAcks
  /\ IF On("acks") THEN Instead(<<"hindsight", "acks again">>) /\ ended' = ended
     ELSE Stay /\ ended' = "cancelled"
  /\ wentBack' = TRUE
  /\ UNCHANGED <<detected, choices, acks, shown, told>>

Confirm == On("review") /\ Return /\ Keep

\* Mutants: the ticks stay; the statements are not shown again.
ReviseKeepsAcks ==
  /\ On("review")
  /\ screens' = <<"hindsight", "acks again">> \o screens
  /\ UNCHANGED <<detected, choices, acks, ended, shown, told, wentBack>>
ReviseSkipsAcks ==
  /\ On("review")
  /\ acks' = {} /\ screens' = <<"hindsight">> \o screens
  /\ UNCHANGED <<detected, choices, ended, shown, told, wentBack>>

\* Revise: the ticks are cleared, Hindsight and the statements run again.
Revise ==
  /\ On("review")
  /\ acks' = {} /\ screens' = <<"hindsight", "acks again">> \o screens
  /\ UNCHANGED <<detected, choices, ended, shown, told, wentBack>>

\* The apply task: in managed mode it probes for the dimensions if it has none.
Apply ==
  /\ On("apply")
  /\ \/ /\ ended' = "applied"
        /\ choices' = IF choices.mode = "managed_local" /\ choices.dims = "none"
                      THEN [choices EXCEPT !.dims = "managed"] ELSE choices
     \/ ended' = "failed" /\ choices' = choices
  /\ Return
  /\ UNCHANGED <<detected, acks, shown, told, wentBack>>

Next ==
  \/ Quit \/ Hermes \/ Identity \/ Architecture
  \/ ReuseHindsight \/ SelfHosted \/ Cloud \/ ManagedLocal \/ HindsightBack
  \/ Embeddings
  \/ \E i \in Statements : ToggleAck(i)
  \/ AcksContinue \/ AcksBack \/ Confirm \/ Revise \/ Apply
Spec == Init /\ [][Next]_vars

-----------------------------------------------------------------------------
Applying == On("apply")

\* Whatever was revised, the endpoint applied is the one that stood when the
\* statements were last complete, and all of them are ticked
\* (setup_tui.py:551, 583, 1332-1337).
AppliedAsAcknowledged == Applying => shown = Endpoint /\ acks = Statements

\* A remote endpoint is applied only if the statement about it was ticked
\* while it said "off-device", unless Back was used on the statements.
RemoteIsAcknowledged == Applying /\ choices.url = "remote" /\ ~wentBack => told = "remote"

-----------------------------------------------------------------------------
\* What the code or its documents say and does not hold; each has a run.

\* "Remote endpoints ... require a privacy acknowledgement"
\* (docs/dual-setup-ui.md:66).
RemoteAlwaysAcknowledged == Applying /\ choices.url = "remote" => told = "remote"
=============================================================================
