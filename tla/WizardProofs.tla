------------------------------ MODULE WizardProofs ------------------------------
(***************************************************************************)
(* Proofs about SetupWizard, for whatever connections are detected.  The   *)
(* acknowledgements stay in the stack of screens, under nothing but        *)
(* choices and over the review, until they are complete; only Revise       *)
(* brings them back, and it clears them.                                   *)
(***************************************************************************)
EXTENDS SetupWizard, SequenceTheorems, TLAPS

\* A stack that leads to the acknowledgements, then the review, then the apply task.
ToAcks(s) ==
  /\ s \in Seq(Screens) /\ Len(s) >= 3
  /\ \A i \in 1..(Len(s) - 3) : s[i] \in ChoiceScreens
  /\ s[Len(s) - 2] \in AckScreens /\ s[Len(s) - 1] = "review" /\ s[Len(s)] = "apply"

Acknowledged == {<<"review", "apply">>, <<"apply">>, <<>>}

\* Past the acknowledgements they are complete, and were so for the endpoint chosen.
StackInv ==
  /\ ToAcks(screens) \/ screens \in Acknowledged
  /\ screens \in Acknowledged => shown = Endpoint /\ acks = Statements

\* Unless Back was used on the acknowledgements there are ticks only once the
\* choices are made, and the fourth was given for the url that was chosen.
ToldInv ==
  ~wentBack =>
    /\ acks # {} => Len(screens) <= 3
    /\ 4 \in acks => told = choices.url

WizardInv == TypeOK /\ StackInv /\ ToldInv

-----------------------------------------------------------------------------
\* A choice returns to another choice or to the acknowledgements.
LEMMA ChoiceReturns ==
  ASSUME NEW s, ToAcks(s), Len(s) > 3
  PROVE  Head(s) \in ChoiceScreens /\ ToAcks(Tail(s)) /\ Len(Tail(s)) = Len(s) - 1
BY HeadTailProperties DEF ToAcks

\* One choice called in place of another keeps the rest of the stack.
LEMMA ChoiceCalls ==
  ASSUME NEW s, ToAcks(s), NEW x \in ChoiceScreens
  PROVE  ToAcks(<<x>> \o s) /\ Len(<<x>> \o s) = Len(s) + 1
<1>1. <<x>> \in Seq(Screens) /\ Len(<<x>>) = 1
  BY DEF Screens
<1>2. QED
  BY <1>1, ConcatProperties DEF ToAcks

\* On the acknowledgements nothing is left but the review and the apply task.
LEMMA AcksReturn ==
  ASSUME NEW s, ToAcks(s), Len(s) = 3
  PROVE  Head(s) \in AckScreens /\ Tail(s) = <<"review", "apply">>
<1>1. PICK x \in AckScreens : s = <<x, "review", "apply">>
  <2>1. s = <<s[1], "review", "apply">> /\ s[1] \in AckScreens
    BY DEF ToAcks
  <2>2. QED
    BY <2>1
<1>2. Head(<<x, "review", "apply">>) = x /\ Tail(<<x, "review", "apply">>) = <<"review", "apply">>
  OBVIOUS
<1>3. QED
  BY <1>1, <1>2, Zenon

\* Which screen is on display says how much of the stack is left.
LEMMA WhereOnStack ==
  ASSUME StackInv, screens # <<>>
  PROVE  /\ Head(screens) \in ChoiceScreens => ToAcks(screens) /\ Len(screens) > 3
         /\ Head(screens) \in AckScreens => ToAcks(screens) /\ Len(screens) = 3
         /\ Head(screens) = "review" => screens = <<"review", "apply">>
         /\ Head(screens) = "apply" => screens = <<"apply">>
<1>1. CASE ToAcks(screens) /\ Len(screens) > 3
  BY <1>1, ChoiceReturns DEF ChoiceScreens, AckScreens
<1>2. CASE ToAcks(screens) /\ Len(screens) = 3
  BY <1>2, AcksReturn DEF ChoiceScreens, AckScreens
<1>3. CASE screens \in Acknowledged
  <2>1. screens = <<"review", "apply">> \/ screens = <<"apply">>
    BY <1>3 DEF Acknowledged
  <2>2. CASE screens = <<"review", "apply">>
    <3>1. Head(screens) = "review"
      BY <2>2
    <3>2. QED
      BY <2>2, <3>1 DEF ChoiceScreens, AckScreens
  <2>3. CASE screens = <<"apply">>
    <3>1. Head(screens) = "apply"
      BY <2>3
    <3>2. QED
      BY <2>3, <3>1 DEF ChoiceScreens, AckScreens
  <2>4. QED
    BY <2>1, <2>2, <2>3
<1>4. ASSUME ToAcks(screens) PROVE Len(screens) > 3 \/ Len(screens) = 3
  <2> DEFINE n == Len(screens)
  <2>1. n \in Nat /\ n >= 3
    BY <1>4, LenProperties DEF ToAcks
  <2> HIDE DEF n
  <2>2. n > 3 \/ n = 3
    BY <2>1
  <2>3. QED
    BY <2>2 DEF n
<1>5. QED
  BY <1>1, <1>2, <1>3, <1>4 DEF StackInv

\* The invariant holds when the first screen is shown.
LEMMA WizardInit == Init => WizardInv
<1> SUFFICES ASSUME Init PROVE WizardInv
  OBVIOUS
<1> USE DEF Init
<1>1. screens \in Seq(Screens) /\ Len(screens) = 8
  <2>1. \A x \in {"hermes", "identity", "architecture", "hindsight", "embeddings", "acks", "review",
                  "apply"} : x \in Screens
    BY DEF Screens, ChoiceScreens, AckScreens
  <2>2. screens = <<"hermes", "identity", "architecture", "hindsight", "embeddings", "acks", "review",
                    "apply">>
    OBVIOUS
  <2>3. QED
    BY ONLY <2>1, <2>2
<1>2. ToAcks(screens)
  <2>1. screens = <<"hermes", "identity", "architecture", "hindsight", "embeddings", "acks", "review",
                    "apply">>
    OBVIOUS
  <2>2. \A i \in 1..5 : screens[i] \in ChoiceScreens
    BY ONLY <2>1 DEF ChoiceScreens
  <2>3. screens[6] \in AckScreens /\ screens[7] = "review" /\ screens[8] = "apply"
    BY ONLY <2>1 DEF AckScreens
  <2>4. QED
    BY ONLY <1>1, <2>2, <2>3 DEF ToAcks
<1>3. TypeOK
  BY <1>1 DEF TypeOK, Modes, Urls, Statements
<1>4. screens \notin Acknowledged
  BY <1>1 DEF Acknowledged
<1>5. QED
  BY <1>2, <1>3, <1>4 DEF WizardInv, StackInv, ToldInv

\* A screen that returns or calls others keeps the form of the stack, and a
\* choice leaves the acknowledgements to come.
LEMMA ChoiceStack ==
  ASSUME WizardInv, screens # <<>>, Head(screens) \in ChoiceScreens,
         \/ Return \/ Stay
         \/ \E x \in ChoiceScreens : Instead(<<x>>)
  PROVE  ToAcks(screens') /\ ToAcks(screens) /\ Len(screens) > 3
<1>1. ToAcks(screens) /\ Len(screens) > 3
  BY WhereOnStack DEF WizardInv
<1>2. ToAcks(Tail(screens))
  BY <1>1, ChoiceReturns
<1>3. QED
  BY <1>1, <1>2, ChoiceCalls DEF Return, Stay, Instead

\* What a screen of choices may do to the state keeps the invariant.
LEMMA ChoiceSafe ==
  ASSUME WizardInv, screens # <<>>, Head(screens) \in ChoiceScreens,
         NEW c \in [mode : Modes, url : Urls, key : BOOLEAN, dual : BOOLEAN, llm : BOOLEAN,
                    embedding : {"none", "api", "managed"}, dims : {"none", "api", "managed"}],
         Set(c),
         \/ Return \/ Stay
         \/ \E x \in ChoiceScreens : Instead(<<x>>)
  PROVE  WizardInv'
<1>1. ToAcks(screens') /\ ToAcks(screens) /\ Len(screens) > 3
  BY ChoiceStack
<1>2. screens' \notin Acknowledged
  BY <1>1 DEF Acknowledged, ToAcks
<1>3. StackInv'
  BY <1>1, <1>2 DEF StackInv
<1>4. TypeOK'
  BY <1>1 DEF WizardInv, TypeOK, ToAcks, Set
<1>5. ToldInv'
  <2>1. wentBack \/ acks = {}
    BY <1>1 DEF WizardInv, ToldInv
  <2>2. QED
    BY <2>1 DEF ToldInv, Set
<1>6. QED
  BY <1>3, <1>4, <1>5 DEF WizardInv

\* Every answer to a screen of choices keeps the invariant.
LEMMA ChoicesSafe ==
  ASSUME WizardInv,
         \/ Hermes \/ Identity \/ Architecture
         \/ ReuseHindsight \/ SelfHosted \/ Cloud \/ ManagedLocal \/ HindsightBack \/ Embeddings
  PROVE  WizardInv'
<1> DEFINE C == [mode : Modes, url : Urls, key : BOOLEAN, dual : BOOLEAN, llm : BOOLEAN,
                 embedding : {"none", "api", "managed"}, dims : {"none", "api", "managed"}]
           Moves == Return \/ Stay \/ \E x \in ChoiceScreens : Instead(<<x>>)
<1>1. choices \in C /\ detected \in Modes \cup {"none"}
  BY DetectedAssumption DEF WizardInv, TypeOK
<1>2. ASSUME screens # <<>>, Head(screens) \in ChoiceScreens, NEW c \in C, Set(c), Moves
      PROVE  WizardInv'
  BY <1>2, ChoiceSafe
<1> HIDE DEF Moves
<1>3. CASE Hermes
  <2>1. CASE Return /\ Keep
    BY <1>1, <1>2, <1>3, <2>1 DEF Hermes, On, Keep, ChoiceScreens, Moves
  <2>2. CASE ended' = "failed" /\ UNCHANGED <<screens, detected, choices, acks, shown, told, wentBack>>
    <3>1. TypeOK'
      BY <2>2 DEF WizardInv, TypeOK
    <3>2. StackInv' /\ ToldInv'
      BY <2>2 DEF WizardInv, StackInv, ToldInv, Endpoint
    <3>3. QED
      BY <3>1, <3>2 DEF WizardInv
  <2>3. QED
    BY <1>3, <2>1, <2>2 DEF Hermes
<1>4. CASE Identity
  BY <1>1, <1>2, <1>4 DEF Identity, On, Keep, ChoiceScreens, Moves
<1>5. CASE Architecture
  <2>1. \A dual \in BOOLEAN : [choices EXCEPT !.dual = dual] \in C
    BY <1>1
  <2>2. QED
    BY <1>1, <1>2, <1>5, <2>1 DEF Architecture, On, Keep, ChoiceScreens, Moves
<1>6. CASE ReuseHindsight
  <2>1. PICK url \in Urls : Set([choices EXCEPT !.mode = detected, !.url = url])
    BY <1>6 DEF ReuseHindsight, Urls
  <2>2. [choices EXCEPT !.mode = detected, !.url = url] \in C
    BY <1>1, <1>6 DEF ReuseHindsight
  <2>3. QED
    BY <1>2, <1>6, <2>1, <2>2 DEF ReuseHindsight, On, ChoiceScreens, Moves
<1>7. CASE SelfHosted
  <2>1. PICK url \in Urls, key \in BOOLEAN :
          \/ Set([choices EXCEPT !.mode = "local_external"])
          \/ Set([[choices EXCEPT !.mode = "local_external"] EXCEPT !.url = url])
          \/ Set([[choices EXCEPT !.mode = "local_external"] EXCEPT !.url = url, !.key = key])
    BY <1>7 DEF SelfHosted, Urls
  <2>2. /\ [choices EXCEPT !.mode = "local_external"] \in C
        /\ [[choices EXCEPT !.mode = "local_external"] EXCEPT !.url = url] \in C
        /\ [[choices EXCEPT !.mode = "local_external"] EXCEPT !.url = url, !.key = key] \in C
    BY <1>1 DEF Modes
  <2>3. Moves /\ screens # <<>> /\ Head(screens) \in ChoiceScreens
    BY <1>7 DEF SelfHosted, On, ChoiceScreens, Moves
  <2>4. QED
    BY <1>2, <2>1, <2>2, <2>3
<1>8. CASE Cloud
  <2>1. \/ Set([choices EXCEPT !.mode = "cloud"])
        \/ Set([[choices EXCEPT !.mode = "cloud"] EXCEPT !.url = "remote"])
        \/ Set([[choices EXCEPT !.mode = "cloud"] EXCEPT !.url = "remote", !.key = TRUE])
    BY <1>8 DEF Cloud
  <2>2. /\ [choices EXCEPT !.mode = "cloud"] \in C
        /\ [[choices EXCEPT !.mode = "cloud"] EXCEPT !.url = "remote"] \in C
        /\ [[choices EXCEPT !.mode = "cloud"] EXCEPT !.url = "remote", !.key = TRUE] \in C
    BY <1>1 DEF Modes, Urls
  <2>3. Moves /\ screens # <<>> /\ Head(screens) \in ChoiceScreens
    BY <1>8 DEF Cloud, On, ChoiceScreens, Moves
  <2>4. QED
    BY <1>2, <2>1, <2>2, <2>3
<1>9. CASE ManagedLocal
  <2> DEFINE chosen == [choices EXCEPT !.mode = "managed_local", !.url = "local", !.key = FALSE]
             base == [chosen EXCEPT !.embedding = "managed"]
  <2>1. Set(chosen) \/ Set(base) \/ Set([base EXCEPT !.llm = TRUE])
    BY <1>9 DEF ManagedLocal
  <2>2. chosen \in C /\ base \in C /\ [base EXCEPT !.llm = TRUE] \in C
    BY <1>1 DEF Modes, Urls
  <2>3. Moves /\ screens # <<>> /\ Head(screens) \in ChoiceScreens
    BY <1>9 DEF ManagedLocal, On, ChoiceScreens, Moves
  <2>4. QED
    BY <1>2, <2>1, <2>2, <2>3
<1>10. CASE HindsightBack
  BY <1>1, <1>2, <1>10 DEF HindsightBack, On, Keep, ChoiceScreens, Moves
<1>11. CASE Embeddings
  <2>1. \/ Set(choices)
        \/ Set([choices EXCEPT !.embedding = "api"])
        \/ Set([choices EXCEPT !.embedding = "api", !.dims = "api"])
    BY <1>11 DEF Embeddings, Keep
  <2>2. /\ [choices EXCEPT !.embedding = "api"] \in C
        /\ [choices EXCEPT !.embedding = "api", !.dims = "api"] \in C
    BY <1>1
  <2>3. Moves /\ screens # <<>> /\ Head(screens) \in ChoiceScreens
    BY <1>11 DEF Embeddings, On, ChoiceScreens, Moves
  <2>4. QED
    BY <1>1, <1>2, <2>1, <2>2, <2>3
<1>12. QED
  BY <1>3, <1>4, <1>5, <1>6, <1>7, <1>8, <1>9, <1>10, <1>11

\* Back on the acknowledgements and Revise put the choices over them again.
LEMMA AskedAgain ==
  LET again == <<"hindsight", "acks again">> \o <<"review", "apply">>
  IN ToAcks(again) /\ Len(again) = 4
<1>1. ASSUME NEW s \in Seq(Screens), NEW t \in Seq(Screens), Len(s) = 2, Len(t) = 2,
             s[1] \in ChoiceScreens, s[2] \in AckScreens, t[1] = "review", t[2] = "apply"
      PROVE  ToAcks(s \o t) /\ Len(s \o t) = 4
  <2>1. /\ s \o t \in Seq(Screens) /\ Len(s \o t) = Len(s) + Len(t)
        /\ \A i \in 1..(Len(s) + Len(t)) : (s \o t)[i] = IF i <= Len(s) THEN s[i] ELSE t[i - Len(s)]
    BY ConcatProperties
  <2>2. /\ {1, 2, 3, 4} \subseteq 1..(Len(s) + Len(t))
        /\ 1 <= Len(s) /\ 2 <= Len(s) /\ ~(3 <= Len(s)) /\ ~(4 <= Len(s))
        /\ 3 - Len(s) = 1 /\ 4 - Len(s) = 2
    BY <1>1
  <2>3. /\ (s \o t)[1] = s[1] /\ (s \o t)[2] = s[2]
        /\ (s \o t)[3] = t[3 - Len(s)] /\ (s \o t)[4] = t[4 - Len(s)]
    BY <2>1, <2>2, Zenon
  <2>4. (s \o t)[3] = "review" /\ (s \o t)[4] = "apply"
    BY <1>1, <2>2, <2>3, Zenon
  <2>5. PICK u : u = s \o t
    OBVIOUS
  <2>6. u \in Seq(Screens) /\ Len(u) = 4
    BY <1>1, <2>1, <2>5
  <2>7. u[1] \in ChoiceScreens /\ u[2] \in AckScreens /\ u[3] = "review" /\ u[4] = "apply"
    BY <1>1, <2>3, <2>4, <2>5, Zenon
  <2>8. ToAcks(u)
    BY ONLY <2>6, <2>7 DEF ToAcks
  <2>9. QED
    BY <2>5, <2>6, <2>8, Zenon
<1>2. /\ <<"hindsight", "acks again">> \in Seq(Screens) /\ <<"review", "apply">> \in Seq(Screens)
      /\ "hindsight" \in ChoiceScreens /\ "acks again" \in AckScreens
  BY DEF Screens, ChoiceScreens, AckScreens
<1>3. /\ Len(<<"hindsight", "acks again">>) = 2 /\ Len(<<"review", "apply">>) = 2
      /\ <<"hindsight", "acks again">>[1] = "hindsight"
      /\ <<"hindsight", "acks again">>[2] = "acks again"
      /\ <<"review", "apply">>[1] = "review" /\ <<"review", "apply">>[2] = "apply"
  OBVIOUS
<1>4. QED
  BY <1>1, <1>2, <1>3, Zenon

\* The acknowledgements keep the invariant, by continuing or by going back.
LEMMA AcksSafe ==
  ASSUME WizardInv, (\E i \in Statements : ToggleAck(i)) \/ AcksContinue \/ AcksBack
  PROVE  WizardInv'
<1>1. ToAcks(screens) /\ Len(screens) = 3 /\ Tail(screens) = <<"review", "apply">>
  <2>1. OnAcks
    BY DEF ToggleAck, AcksContinue, AcksBack
  <2>2. ToAcks(screens) /\ Len(screens) = 3
    BY <2>1, WhereOnStack DEF WizardInv, OnAcks, On, AckScreens
  <2>3. QED
    BY <2>2, AcksReturn
<1>2. screens \notin Acknowledged
  BY <1>1 DEF Acknowledged
<1>3. CASE \E i \in Statements : ToggleAck(i)
  <2> PICK i \in Statements : ToggleAck(i)
    BY <1>3
  <2>1. TypeOK'
    BY DEF WizardInv, TypeOK, ToggleAck
  <2>2. StackInv'
    BY <1>1, <1>2 DEF StackInv, ToggleAck
  <2>3. ToldInv'
    BY <1>1 DEF WizardInv, ToldInv, ToggleAck
  <2>4. QED
    BY <2>1, <2>2, <2>3 DEF WizardInv
<1>4. CASE AcksContinue
  <2>1. screens' = <<"review", "apply">>
    BY <1>1, <1>4 DEF AcksContinue, Return
  <2>2. screens' \in Seq(Screens) /\ Len(screens') = 2
    BY <2>1 DEF Screens
  <2>3. TypeOK'
    BY <1>4, <2>2 DEF WizardInv, TypeOK, AcksContinue, Endpoint
  <2>4. StackInv'
    BY <1>4, <2>1 DEF StackInv, Acknowledged, AcksContinue, Endpoint
  <2>5. ToldInv'
    BY <1>4, <2>2 DEF WizardInv, ToldInv, AcksContinue
  <2>6. QED
    BY <2>3, <2>4, <2>5 DEF WizardInv
<1>5. CASE AcksBack
  <2>1. ToAcks(screens')
    BY <1>1, <1>5, AskedAgain DEF AcksBack, Instead, Stay
  <2>2. TypeOK'
    BY <1>5, <2>1 DEF WizardInv, TypeOK, ToAcks, AcksBack
  <2>3. StackInv'
    BY <2>1 DEF StackInv, ToAcks, Acknowledged
  <2>4. ToldInv'
    BY <1>5 DEF ToldInv, AcksBack
  <2>5. QED
    BY <2>2, <2>3, <2>4 DEF WizardInv
<1>6. QED
  BY <1>3, <1>4, <1>5

\* The review keeps the invariant: Confirm goes on, Revise clears the ticks.
LEMMA ReviewSafe ==
  ASSUME WizardInv, Confirm \/ Revise
  PROVE  WizardInv'
<1>1. screens = <<"review", "apply">>
  BY WhereOnStack DEF WizardInv, Confirm, Revise, On
<1>2. CASE Confirm
  <2>1. screens' = <<"apply">>
    BY <1>1, <1>2 DEF Confirm, Return
  <2>2. screens' \in Seq(Screens) /\ Len(screens') = 1
    BY <2>1 DEF Screens
  <2>3. screens \in Acknowledged /\ screens' \in Acknowledged
    BY <1>1, <2>1 DEF Acknowledged
  <2>4. TypeOK'
    BY <1>2, <2>2 DEF WizardInv, TypeOK, Confirm, Keep, Set
  <2>5. StackInv'
    BY <1>2, <2>3 DEF WizardInv, StackInv, Confirm, Keep, Set, Endpoint
  <2>6. ToldInv'
    BY <1>2, <2>2 DEF WizardInv, ToldInv, Confirm, Keep, Set
  <2>7. QED
    BY <2>4, <2>5, <2>6 DEF WizardInv
<1>3. CASE Revise
  <2>1. ToAcks(screens')
    BY <1>1, <1>3, AskedAgain DEF Revise
  <2>2. TypeOK'
    BY <1>3, <2>1 DEF WizardInv, TypeOK, ToAcks, Revise
  <2>3. StackInv'
    BY <2>1 DEF StackInv, ToAcks, Acknowledged
  <2>4. ToldInv'
    BY <1>3 DEF ToldInv, Revise
  <2>5. QED
    BY <2>2, <2>3, <2>4 DEF WizardInv
<1>4. QED
  BY <1>2, <1>3

\* The apply task measures dimensions, never the mode or the url it was given.
LEMMA ApplySafe ==
  ASSUME WizardInv, Apply
  PROVE  WizardInv'
<1>1. screens = <<"apply">>
  BY WhereOnStack DEF WizardInv, Apply, On
<1>2. screens' = <<>>
  BY <1>1 DEF Apply, Return
<1>3. screens \in Acknowledged /\ screens' \in Acknowledged
  BY <1>1, <1>2 DEF Acknowledged
<1>4. choices' = choices \/ choices' = [choices EXCEPT !.dims = "managed"]
  BY DEF Apply
<1>5. choices'.mode = choices.mode /\ choices'.url = choices.url
  BY <1>4 DEF WizardInv, TypeOK
<1>6. TypeOK'
  <2>1. screens' \in Seq(Screens)
    BY <1>2
  <2>2. QED
    BY <1>4, <2>1 DEF WizardInv, TypeOK, Apply
<1>7. StackInv'
  BY <1>3, <1>5 DEF WizardInv, StackInv, Apply, Endpoint
<1>8. ToldInv'
  BY <1>2, <1>5 DEF WizardInv, ToldInv, Apply
<1>9. QED
  BY <1>6, <1>7, <1>8 DEF WizardInv

\* Leaving the setup changes nothing it holds.
LEMMA QuitSafe ==
  ASSUME WizardInv, Quit \/ UNCHANGED vars
  PROVE  WizardInv'
<1>1. TypeOK'
  BY DEF WizardInv, TypeOK, Quit, vars
<1>2. StackInv' /\ ToldInv'
  BY DEF WizardInv, StackInv, ToldInv, Endpoint, Quit, vars
<1>3. QED
  BY <1>1, <1>2 DEF WizardInv

-----------------------------------------------------------------------------
\* The invariant of the guided setup: the form of its stack of screens, and
\* what the acknowledgements stand for in each.
THEOREM Wizard == Spec => []WizardInv
<1>1. WizardInv /\ [Next]_vars => WizardInv'
  BY ChoicesSafe, AcksSafe, ReviewSafe, ApplySafe, QuitSafe DEF Next
<1>2. QED
  BY WizardInit, <1>1, PTL DEF Spec

\* Every variable of the guided setup keeps its type.
THEOREM WizardTypes == Spec => []TypeOK
<1>1. WizardInv => TypeOK
  BY DEF WizardInv
<1>2. QED
  BY Wizard, <1>1, PTL

\* Whatever was chosen, gone back from and revised, the apply task starts with
\* all the statements ticked and the endpoint they were completed for.
THEOREM Acknowledges == Spec => []AppliedAsAcknowledged
<1>1. WizardInv => AppliedAsAcknowledged
  BY WhereOnStack DEF WizardInv, StackInv, Acknowledged, AppliedAsAcknowledged, Applying, On
<1>2. QED
  BY Wizard, <1>1, PTL

\* Without Back on the acknowledgements, a remote endpoint is only applied if
\* the fourth statement was ticked while it named a remote endpoint.
THEOREM TellsRemote == Spec => []RemoteIsAcknowledged
<1>1. WizardInv => RemoteIsAcknowledged
  <2> SUFFICES ASSUME WizardInv, Applying, ~wentBack
               PROVE  told = choices.url
    BY DEF RemoteIsAcknowledged
  <2>1. acks = Statements
    BY WhereOnStack DEF WizardInv, StackInv, Acknowledged, Applying, On
  <2>2. 4 \in acks
    BY <2>1 DEF Statements
  <2>3. QED
    BY <2>2 DEF WizardInv, ToldInv
<1>2. QED
  BY Wizard, <1>1, PTL
=============================================================================
