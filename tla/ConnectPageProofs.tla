-------------------------- MODULE ConnectPageProofs --------------------------
(***************************************************************************)
(* What the connect page guarantees for any menu, any number of attempts   *)
(* and any interleaving of keys and answers; and what it guarantees    *)
(* until the first disconnect, while a generation names one attempt.       *)
(***************************************************************************)
EXTENDS ConnectPage, TLAPS

\* A generation other than 0 belongs to an attempt that was launched.
GenerationBounded == page.generation <= Len(attempts)

LEMMA InitTyped == Init => TypeOK /\ GenerationBounded
BY MenuAssumption, FormAssumption, BoundAssumption
   DEF Init, InitialPage, TypeOK, GenerationBounded, Input, Attempt

LEMMA LaunchTyped ==
  ASSUME TypeOK, GenerationBounded, UNCHANGED disconnects,
         NEW repoPath \in Input, Launch(repoPath)
  PROVE  (TypeOK /\ GenerationBounded)'
<1> DEFINE n == Len(attempts)
<1> DEFINE a == [generation |-> page.generation + 1, option |-> page.choice,
                 repoPath |-> repoPath, done |-> 0, open |-> TRUE]
<1>1. /\ attempts \in Seq(Attempt)
      /\ n \in Nat /\ n < MaxAttempts /\ MaxAttempts \in Nat
      /\ page.generation \in 0 .. MaxAttempts /\ page.generation <= n
  BY BoundAssumption DEF Launch, TypeOK, GenerationBounded
<1>2. a \in Attempt
  BY <1>1 DEF TypeOK, Attempt, Awaited
<1>3. attempts' = Append(attempts, a)
  BY DEF Launch
<1>4. /\ attempts' \in Seq(Attempt) /\ Len(attempts') = n + 1
      /\ DOMAIN attempts = 1 .. n /\ DOMAIN attempts' = 1 .. (n + 1)
  BY <1>1, <1>2, <1>3
<1>5. /\ page' = [page EXCEPT !.generation = page.generation + 1, !.connecting = TRUE]
      /\ page.generation + 1 \in 0 .. MaxAttempts
      /\ DOMAIN attempts \subseteq DOMAIN attempts'
  BY <1>1, <1>4 DEF Launch
<1>6. page' \in [step : {"choose", "input-path", "input-graph"},
               choice : 0 .. LastOption, input : Input, repoPath : Input,
               error : BOOLEAN, generation : 0 .. MaxAttempts,
               connecting : BOOLEAN, session : DOMAIN attempts' \cup {NoSession}]
  BY <1>5 DEF TypeOK
<1> QED
  BY <1>1, <1>4, <1>5, <1>6 DEF TypeOK, GenerationBounded

LEMMA KeyTyped ==
  ASSUME TypeOK, GenerationBounded, Key
  PROVE  (TypeOK /\ GenerationBounded)'
<1>1. CASE Up \/ Down
  BY <1>1, MenuAssumption DEF Up, Down, TypeOK, GenerationBounded
<1>2. CASE SelectWizard
  BY <1>2, FormAssumption DEF SelectWizard, TypeOK, GenerationBounded, Input
<1>3. CASE SelectHost
  BY <1>3, LaunchTyped DEF SelectHost, Input
<1>4. ASSUME NEW input \in Input, Type(input) PROVE (TypeOK /\ GenerationBounded)'
  BY <1>4 DEF Type, TypeOK, GenerationBounded
<1>5. CASE ConfirmPath
  BY <1>5, FormAssumption DEF ConfirmPath, TypeOK, GenerationBounded, Input
<1>6. CASE ConfirmGraph
  BY <1>6, LaunchTyped DEF ConfirmGraph, TypeOK
<1>7. CASE Back
  BY <1>7 DEF Back, TypeOK, GenerationBounded
<1>8. CASE Disconnect
  BY <1>8, MenuAssumption, FormAssumption, BoundAssumption
     DEF Disconnect, InitialPage, TypeOK, GenerationBounded, Input
<1> QED BY <1>1, <1>2, <1>3, <1>4, <1>5, <1>6, <1>7, <1>8 DEF Key

\* An answer changes its own attempt, never the number of attempts.
LEMMA SettleAttempts ==
  ASSUME TypeOK, NEW a \in DOMAIN attempts, Settle(a)
  PROVE  /\ attempts' \in Seq(Attempt)
         /\ Len(attempts') = Len(attempts)
         /\ DOMAIN attempts' = DOMAIN attempts
         /\ \A b \in DOMAIN attempts :
              /\ attempts'[b].generation = attempts[b].generation
              /\ attempts'[b].option = attempts[b].option
              /\ attempts'[b].repoPath = attempts[b].repoPath
              /\ b # a => attempts'[b] = attempts[b]
<1>1. attempts \in Seq(Attempt) /\ attempts[a] \in Attempt
  BY DEF TypeOK
<1>2. PICK done \in 0 .. Len(Awaited), open \in BOOLEAN :
        attempts' = [attempts EXCEPT ![a].done = done, ![a].open = open]
  <2>1. CASE Advance(a)
    <3>1. attempts[a].done + 1 \in 0 .. Len(Awaited)
      BY <1>1, <2>1 DEF Advance, Attempt, Awaited
    <3>2. attempts' = [attempts EXCEPT ![a].done = attempts[a].done + 1,
                                       ![a].open = attempts[a].open]
      BY <1>1, <2>1 DEF Advance, Attempt
    <3> QED BY <1>1, <3>1, <3>2 DEF Attempt
  <2>2. CASE Ready(a)
    <3>1. attempts[a].done + 1 \in 0 .. Len(Awaited)
      BY <1>1, <2>2 DEF Ready, Attempt, Awaited
    <3> QED BY <3>1, <2>2 DEF Ready
  <2>3. CASE Refused(a)
    <3>1. attempts' = [attempts EXCEPT ![a].done = attempts[a].done, ![a].open = FALSE]
      BY <1>1, <2>3 DEF Refused, Attempt
    <3> QED BY <1>1, <3>1 DEF Attempt
  <2> QED BY <2>1, <2>2, <2>3 DEF Settle
<1>3. attempts'[a] = [attempts[a] EXCEPT !.done = done, !.open = open]
  BY <1>1, <1>2
<1>4. attempts'[a] \in Attempt
  BY <1>1, <1>3 DEF Attempt
<1>5. DOMAIN attempts' = DOMAIN attempts
  BY <1>2
<1>6. \A b \in DOMAIN attempts : b # a => attempts'[b] = attempts[b]
  BY <1>2
<1>7. attempts' = [attempts EXCEPT ![a] = attempts'[a]]
  BY <1>2, <1>3
<1>8. attempts' \in Seq(Attempt) /\ Len(attempts') = Len(attempts)
  BY <1>1, <1>4, <1>7
<1>9. /\ attempts'[a].generation = attempts[a].generation
      /\ attempts'[a].option = attempts[a].option
      /\ attempts'[a].repoPath = attempts[a].repoPath
  BY <1>1, <1>3 DEF Attempt
<1> QED BY <1>5, <1>6, <1>8, <1>9

LEMMA SettleTyped ==
  ASSUME TypeOK, GenerationBounded, NEW a \in DOMAIN attempts, Settle(a)
  PROVE  (TypeOK /\ GenerationBounded)'
<1>1. /\ attempts' \in Seq(Attempt)
      /\ Len(attempts') = Len(attempts)
      /\ DOMAIN attempts' = DOMAIN attempts
  BY SettleAttempts
<1>2. /\ page' \in [step : {"choose", "input-path", "input-graph"},
               choice : 0 .. LastOption, input : Input, repoPath : Input,
               error : BOOLEAN, generation : 0 .. MaxAttempts,
               connecting : BOOLEAN, session : DOMAIN attempts \cup {NoSession}]
      /\ page'.generation = page.generation
      /\ disconnects' = disconnects
  BY DEF Settle, Advance, Ready, Refused, TypeOK
<1> QED BY <1>1, <1>2 DEF TypeOK, GenerationBounded

LEMMA AlwaysTyped == Spec => [](TypeOK /\ GenerationBounded)
<1>1. TypeOK /\ GenerationBounded /\ [Next]_vars => (TypeOK /\ GenerationBounded)'
  <2> SUFFICES ASSUME TypeOK, GenerationBounded, [Next]_vars
               PROVE  (TypeOK /\ GenerationBounded)'
    OBVIOUS
  <2>1. CASE UNCHANGED vars
    BY <2>1 DEF vars, TypeOK, GenerationBounded
  <2>2. CASE Key
    BY <2>2, KeyTyped
  <2>3. ASSUME NEW a \in DOMAIN attempts, Settle(a) PROVE (TypeOK /\ GenerationBounded)'
    BY <2>3, SettleTyped
  <2> QED BY <2>1, <2>2, <2>3 DEF Next
<1> QED BY <1>1, InitTyped, PTL DEF Spec

\* The page and the attempts have their types.
THEOREM PageTyped == Spec => []TypeOK
BY AlwaysTyped, PTL

----------------------------------------------------------------------------
(* The form *)

\* On the second step of the form the path is the one that was checked.
PathChecked == page.step = "input-graph" => page.repoPath # Blank

FormInv == PathChecked /\ FormHasRepository

\* What a launch does to the attempts: one more, at the end.
Appended(repoPath) ==
  /\ Len(attempts) \in Nat
  /\ DOMAIN attempts = 1 .. Len(attempts)
  /\ Len(attempts') = Len(attempts) + 1
  /\ DOMAIN attempts' = 1 .. (Len(attempts) + 1)
  /\ \A b \in DOMAIN attempts : attempts'[b] = attempts[b]
  /\ attempts'[Len(attempts) + 1] =
       [generation |-> page.generation + 1, option |-> page.choice,
        repoPath |-> repoPath, done |-> 0, open |-> TRUE]

LEMMA LaunchAppends ==
  ASSUME TypeOK, NEW repoPath, Launch(repoPath)
  PROVE  /\ Appended(repoPath)
         /\ page' = [page EXCEPT !.generation = page.generation + 1, !.connecting = TRUE]
<1> DEFINE a == [generation |-> page.generation + 1, option |-> page.choice,
                 repoPath |-> repoPath, done |-> 0, open |-> TRUE]
<1>1. attempts \in Seq(Attempt) /\ attempts' = Append(attempts, a)
  BY DEF TypeOK, Launch
<1>2. page' = [page EXCEPT !.generation = page.generation + 1, !.connecting = TRUE]
  BY DEF Launch
<1> HIDE DEF a
<1>3. /\ Len(attempts) \in Nat
      /\ DOMAIN attempts = 1 .. Len(attempts)
      /\ Len(attempts') = Len(attempts) + 1
      /\ DOMAIN attempts' = 1 .. (Len(attempts) + 1)
      /\ \A b \in DOMAIN attempts : attempts'[b] = attempts[b]
      /\ attempts'[Len(attempts) + 1] = a
  BY <1>1
<1> QED BY <1>2, <1>3 DEF a, Appended

LEMMA FormStep ==
  ASSUME TypeOK, FormInv, [Next]_vars
  PROVE  FormInv'
<1>1. CASE UNCHANGED vars
  BY <1>1 DEF vars, FormInv, PathChecked, FormHasRepository
<1>2. CASE Up \/ Down \/ SelectWizard \/ ConfirmPath \/ Back \/ Disconnect
  <2>1. attempts' = attempts
    BY <1>2 DEF Up, Down, SelectWizard, ConfirmPath, Back, Disconnect
  <2>2. ASSUME Up \/ Down \/ SelectWizard \/ Back PROVE PathChecked'
    BY <2>2 DEF Up, Down, SelectWizard, Back, FormInv, PathChecked, TypeOK
  <2>3. ASSUME ConfirmPath PROVE PathChecked'
    BY <2>3 DEF ConfirmPath, FormInv, PathChecked, TypeOK
  <2>4. ASSUME Disconnect PROVE PathChecked'
    BY <2>4 DEF Disconnect, InitialPage, PathChecked
  <2>5. PathChecked'
    BY <1>2, <2>2, <2>3, <2>4
  <2> QED BY <2>1, <2>5 DEF FormInv, FormHasRepository
<1>3. ASSUME NEW input \in Input, Type(input) PROVE FormInv'
  BY <1>3 DEF Type, FormInv, PathChecked, FormHasRepository, TypeOK
<1>4. CASE SelectHost
  <2>1. Launch(Blank) /\ page.choice # Wizard /\ page.step = "choose"
    BY <1>4 DEF SelectHost
  <2>2. Appended(Blank)
    BY <2>1, LaunchAppends
  <2>3. FormHasRepository'
    BY <2>1, <2>2 DEF FormInv, FormHasRepository, Appended
  <2>4. PathChecked'
    BY <2>1, LaunchAppends DEF TypeOK, PathChecked
  <2> QED BY <2>3, <2>4 DEF FormInv
<1>5. CASE ConfirmGraph
  <2>1. Launch(page.repoPath) /\ page.repoPath # Blank
    BY <1>5 DEF ConfirmGraph, FormInv, PathChecked
  <2>2. Appended(page.repoPath)
    BY <2>1, LaunchAppends
  <2>3. FormHasRepository'
    BY <2>1, <2>2 DEF FormInv, FormHasRepository, Appended
  <2>4. PathChecked'
    BY <2>1, LaunchAppends DEF TypeOK, PathChecked
  <2> QED BY <2>3, <2>4 DEF FormInv
<1>6. ASSUME NEW a \in DOMAIN attempts, Settle(a) PROVE FormInv'
  <2>1. FormHasRepository'
    BY <1>6, SettleAttempts DEF FormInv, FormHasRepository
  <2>2. PathChecked'
    BY <1>6 DEF Settle, Advance, Ready, Refused, FormInv, PathChecked, TypeOK
  <2> QED BY <2>1, <2>2 DEF FormInv
<1> QED BY <1>1, <1>2, <1>3, <1>4, <1>5, <1>6 DEF Next, Key

\* No way through the form launches an attempt without a repository path
\* (handleInputSelect, handleBack).
THEOREM FormCorrect == Spec => []FormHasRepository
<1>1. Init => FormInv
  BY DEF Init, InitialPage, FormInv, PathChecked, FormHasRepository
<1>2. TypeOK /\ FormInv /\ [Next]_vars => FormInv'
  BY FormStep
<1>3. FormInv => FormHasRepository
  BY DEF FormInv
<1> QED BY <1>1, <1>2, <1>3, PageTyped, PTL DEF Spec

----------------------------------------------------------------------------
(* The generations before the first disconnect *)

\* A generation names one attempt, and the session on show has answered.
OwnGenerations ==
  /\ page.generation = Len(attempts)
  /\ \A a \in DOMAIN attempts : attempts[a].generation = a
  /\ page.session # NoSession =>
       page.session = Len(attempts) /\ ~attempts[page.session].open

LEMMA GenerationStep ==
  ASSUME disconnects = 0, disconnects' = 0, TypeOK, OwnGenerations, [Next]_vars
  PROVE  /\ OwnGenerations'
         /\ page.session # NoSession => page'.session = page.session
<1> DEFINE Goal == /\ OwnGenerations'
                   /\ page.session # NoSession => page'.session = page.session
<1>1. CASE UNCHANGED vars
  BY <1>1 DEF vars, OwnGenerations
<1>2. CASE Up \/ Down \/ SelectWizard \/ ConfirmPath \/ Back
  BY <1>2 DEF Up, Down, SelectWizard, ConfirmPath, Back, OwnGenerations, TypeOK
<1>3. ASSUME NEW input \in Input, Type(input) PROVE Goal
  BY <1>3 DEF Type, OwnGenerations, TypeOK
<1>4. CASE SelectHost \/ ConfirmGraph
  <2>1. PICK repoPath : Launch(repoPath)
    BY <1>4 DEF SelectHost, ConfirmGraph
  <2>2. page.session = NoSession
    BY <1>4 DEF SelectHost, ConfirmGraph, Listening
  <2>3. page'.session = NoSession /\ page'.generation = page.generation + 1
    BY <2>1, <2>2, LaunchAppends DEF TypeOK
  <2>4. Appended(repoPath)
    BY <2>1, LaunchAppends
  <2>5. \A a \in DOMAIN attempts' : attempts'[a].generation = a
    BY <2>4 DEF OwnGenerations, Appended
  <2> QED BY <2>2, <2>3, <2>4, <2>5 DEF OwnGenerations, Appended
<1>5. CASE Disconnect
  BY <1>5 DEF Disconnect, TypeOK
<1>6. ASSUME NEW a \in DOMAIN attempts, Settle(a) PROVE Goal
  <2>1. page'.generation = page.generation
    BY <1>6 DEF Settle, Advance, Ready, Refused, TypeOK
  <2>2. \A b \in DOMAIN attempts' : attempts'[b].generation = b
    BY <1>6, SettleAttempts DEF OwnGenerations
  <2>3. attempts[a].open
    BY <1>6 DEF Settle, Advance, Ready, Refused
  <2>4. CASE page'.session = page.session
    <3>1. page.session # NoSession => attempts'[page.session] = attempts[page.session]
      BY <1>6, <2>3, SettleAttempts DEF OwnGenerations, TypeOK
    <3> QED BY <1>6, <2>1, <2>2, <2>4, <3>1, SettleAttempts DEF OwnGenerations
  <2>5. CASE page'.session # page.session
    <3>1. Ready(a) /\ Expected(a) /\ page'.session = a
      BY <1>6, <2>5 DEF Settle, Advance, Ready, Refused, TypeOK
    <3>2. a = Len(attempts)
      BY <3>1 DEF Expected, OwnGenerations
    <3>3. page.session = NoSession
      BY <2>3, <3>2 DEF OwnGenerations
    <3>4. attempts' = [attempts EXCEPT ![a].done = @ + 1, ![a].open = FALSE]
      BY <3>1 DEF Ready
    <3>5. attempts[a] \in Attempt /\ a \in DOMAIN attempts
      BY <1>6 DEF TypeOK
    <3>6. ~attempts'[a].open
      BY <3>4, <3>5 DEF Attempt
    <3> QED BY <1>6, <2>1, <2>2, <3>1, <3>2, <3>3, <3>6, SettleAttempts
            DEF OwnGenerations
  <2> QED BY <2>4, <2>5
<1> QED BY <1>1, <1>2, <1>3, <1>4, <1>5, <1>6 DEF Next, Key

\* No disconnect is ever taken back.
LEMMA DisconnectsGrow ==
  ASSUME TypeOK, [Next]_vars, disconnects' = 0
  PROVE  disconnects = 0
<1>1. UNCHANGED disconnects \/ disconnects' = disconnects + 1
  <2>1. CASE UNCHANGED vars
    BY <2>1 DEF vars
  <2>2. CASE Key
    BY <2>2 DEF Key, Up, Down, SelectWizard, SelectHost, Type, ConfirmPath,
                ConfirmGraph, Back, Disconnect
  <2>3. ASSUME NEW a \in DOMAIN attempts, Settle(a) PROVE UNCHANGED disconnects
    BY <2>3 DEF Settle, Advance, Ready, Refused
  <2> QED BY <2>1, <2>2, <2>3 DEF Next
<1>2. disconnects \in Nat
  BY BoundAssumption DEF TypeOK
<1> QED BY <1>1, <1>2

GenerationInv == disconnects = 0 => OwnGenerations

LEMMA GenerationsAlways == Spec => []GenerationInv
<1>1. Init => GenerationInv
  BY DEF Init, InitialPage, GenerationInv, OwnGenerations
<1>2. TypeOK /\ GenerationInv /\ [Next]_vars => GenerationInv'
  BY GenerationStep, DisconnectsGrow DEF GenerationInv
<1> QED BY <1>1, <1>2, PageTyped, PTL DEF Spec

\* Until the first disconnect the session on show is the newest one selected,
\* in whatever order the attempts finish (handleConnectionResult).
THEOREM NewestSelectionWins == Spec => []NewestWins
<1>1. GenerationInv => NewestWins
  BY DEF GenerationInv, OwnGenerations, NewestWins
<1> QED BY <1>1, GenerationsAlways, PTL

\* Until the first disconnect no late answer replaces the session on show.
THEOREM ShownSessionStays == Spec => SessionStable
<1>1. TypeOK /\ GenerationInv /\ [Next]_vars
        => [disconnects' = 0 /\ page.session # NoSession
              => page'.session = page.session]_vars
  BY GenerationStep, DisconnectsGrow DEF GenerationInv
<1> QED BY <1>1, GenerationsAlways, PageTyped, PTL DEF Spec, SessionStable

----------------------------------------------------------------------------
(* After a disconnect *)

\* A page of generation 0 has launched nothing since the disconnect.
Disconnected == page.generation = 0 => page.session = NoSession /\ ~page.connecting

\* An answer leaves a page of generation 0 alone: every attempt has a
\* generation of its own from 1 on.
LEMMA AnswerDropped ==
  ASSUME TypeOK, page.generation = 0, NEW a \in DOMAIN attempts, Settle(a)
  PROVE  page' = page
<1>1. attempts \in Seq(Attempt)
  BY DEF TypeOK
<1>2. attempts[a] \in Attempt
  BY <1>1
<1>3. ~Expected(a)
  BY <1>2, BoundAssumption DEF Attempt, Expected
<1> QED BY <1>3 DEF Settle, Advance, Ready, Refused

LEMMA DisconnectedStep ==
  ASSUME TypeOK, Disconnected, [Next]_vars
  PROVE  /\ Disconnected'
         /\ page.generation = 0 /\ page'.generation = 0 /\ attempts' # attempts
              => page' = page
<1> DEFINE Goal == /\ Disconnected'
                   /\ page.generation = 0 /\ page'.generation = 0
                        /\ attempts' # attempts => page' = page
<1>1. CASE UNCHANGED vars
  BY <1>1 DEF vars, Disconnected
<1>2. CASE Up \/ Down \/ SelectWizard \/ ConfirmPath \/ Back
  BY <1>2 DEF Up, Down, SelectWizard, ConfirmPath, Back, Disconnected, TypeOK
<1>3. ASSUME NEW input \in Input, Type(input) PROVE Goal
  BY <1>3 DEF Type, Disconnected, TypeOK
<1>4. CASE SelectHost \/ ConfirmGraph
  <2>1. PICK repoPath : Launch(repoPath)
    BY <1>4 DEF SelectHost, ConfirmGraph
  <2>2. page'.generation = page.generation + 1 /\ page.generation \in Nat
    BY <2>1, BoundAssumption DEF Launch, TypeOK
  <2> QED BY <2>2 DEF Disconnected
<1>5. CASE Disconnect
  BY <1>5 DEF Disconnect, InitialPage, Disconnected
<1>6. ASSUME NEW a \in DOMAIN attempts, Settle(a) PROVE Goal
  <2>1. page'.generation = page.generation
    BY <1>6 DEF Settle, Advance, Ready, Refused, TypeOK
  <2>2. page.generation = 0 => page' = page
    BY <1>6, AnswerDropped
  <2> QED BY <2>1, <2>2 DEF Disconnected
<1> QED BY <1>1, <1>2, <1>3, <1>4, <1>5, <1>6 DEF Next, Key

\* A disconnected page, generation 0, shows no session and connects to none
\* until a host is selected again, and no answer of an attempt still in flight
\* changes anything on it, its error and its step included
\* (updateConnectGlobal, handleConnectionResult).
THEOREM DisconnectHolds == Spec => DisconnectSticks
<1>1. Init => Disconnected
  BY DEF Init, InitialPage, Disconnected
<1>2. TypeOK /\ Disconnected /\ [Next]_vars => Disconnected'
  BY DisconnectedStep
<1>3. TypeOK /\ Disconnected /\ [Next]_vars
        => [page.generation = 0 /\ page'.generation = 0
              => /\ page'.session = NoSession /\ ~page'.connecting
                 /\ attempts' # attempts => page' = page]_vars
  <2> SUFFICES ASSUME TypeOK, Disconnected, [Next]_vars,
                      page.generation = 0, page'.generation = 0
               PROVE  /\ page'.session = NoSession /\ ~page'.connecting
                      /\ attempts' # attempts => page' = page
    OBVIOUS
  <2>1. Disconnected' /\ (attempts' # attempts => page' = page)
    BY DisconnectedStep
  <2> QED BY <2>1 DEF Disconnected
<1> QED BY <1>1, <1>2, <1>3, PageTyped, PTL DEF Spec, DisconnectSticks
=============================================================================
