---------------------------- MODULE ConnectPage ----------------------------
(***************************************************************************)
(* The TUI's connect page: a menu of hosts, a two-step form for a git-warp *)
(* repository, and the connection attempts it launches.                    *)
(*                                                                         *)
(* An attempt runs for a while (resolve the adapter, create the session,   *)
(* seek to the last frame, read the lane catalog) and reports back with    *)
(* the generation it was launched under.  Nothing stops the user from      *)
(* launching another one, editing the form or disconnecting meanwhile, and *)
(* nothing cancels an attempt.                                             *)
(***************************************************************************)
EXTENDS Integers, Sequences

CONSTANTS
  LastOption,          \* the menu is 0..LastOption
  Wizard,              \* the option that opens the git-warp form
  Text,                \* form inputs that are not blank
  Blank,               \* the empty input, or white space only
  WorkingDirectory,    \* process.cwd()
  DefaultGraph,        \* "default"
  NoSession,
  MaxAttempts,         \* bound on the attempts launched
  MaxDisconnects       \* bound on the disconnects

ASSUME MenuAssumption ==
  /\ LastOption \in Nat
  /\ Wizard \in 0 .. LastOption

ASSUME FormAssumption ==
  /\ Blank \notin Text
  /\ WorkingDirectory \in Text
  /\ DefaultGraph \in Text

ASSUME BoundAssumption ==
  /\ MaxAttempts \in Nat
  /\ MaxDisconnects \in Nat
  /\ NoSession \notin 1 .. MaxAttempts

VARIABLES
  page,                \* the ConnectModel
  attempts,            \* every attempt launched, in order
  disconnects          \* how many disconnects there have been

vars == <<page, attempts, disconnects>>

Input == Text \cup {Blank}

\* What an attempt awaits: the adapter, the session, the seek, the catalog.
Awaited == <<"adapter", "session", "seek", "catalog">>

\* The initial model; a session is named by the attempt that made it.
InitialPage ==
  [step |-> "choose", choice |-> 0, input |-> WorkingDirectory, repoPath |-> Blank,
   error |-> FALSE, generation |-> 0, connecting |-> FALSE, session |-> NoSession]

Init ==
  /\ page = InitialPage
  /\ attempts = <<>>
  /\ disconnects = 0

----------------------------------------------------------------------------
(* Keys *)

\* A connected page answers to nothing but a disconnect and the results of
\* attempts.
Listening == page.session = NoSession

\* Mutant: a new attempt keeps the generation of the one before it.
LaunchSameGeneration(repoPath) ==
  /\ Len(attempts) < MaxAttempts
  /\ page' = [page EXCEPT !.generation = 1, !.connecting = TRUE]
  /\ attempts' = Append(attempts, [generation |-> 1, option |-> page.choice,
                                   repoPath |-> repoPath, done |-> 0, open |-> TRUE])

\* The attempt starts at once, whatever is still in flight.
Launch(repoPath) ==
  /\ Len(attempts) < MaxAttempts
  /\ page' = [page EXCEPT !.generation = @ + 1, !.connecting = TRUE]
  /\ attempts' = Append(attempts, [generation |-> page.generation + 1,
                                   option |-> page.choice, repoPath |-> repoPath,
                                   done |-> 0, open |-> TRUE])

Up ==
  /\ Listening /\ page.step = "choose"
  /\ page.choice > 0
  /\ page' = [page EXCEPT !.choice = @ - 1]
  /\ UNCHANGED <<attempts, disconnects>>

\* Mutant: the menu has no end.
DownUnbounded ==
  /\ Listening /\ page.step = "choose"
  /\ page.choice <= LastOption
  /\ page' = [page EXCEPT !.choice = @ + 1]
  /\ UNCHANGED <<attempts, disconnects>>

Down ==
  /\ Listening /\ page.step = "choose"
  /\ page.choice < LastOption
  /\ page' = [page EXCEPT !.choice = @ + 1]
  /\ UNCHANGED <<attempts, disconnects>>

SelectWizard ==
  /\ Listening /\ page.step = "choose"
  /\ page.choice = Wizard
  /\ page' = [page EXCEPT !.step = "input-path", !.input = WorkingDirectory]
  /\ UNCHANGED <<attempts, disconnects>>

\* The fixtures and scenarios have no repository.
SelectHost ==
  /\ Listening /\ page.step = "choose"
  /\ page.choice # Wizard
  /\ Launch(Blank)
  /\ UNCHANGED disconnects

\* Any number of char and backspace keys.
Type(input) ==
  /\ Listening /\ page.step # "choose"
  /\ input \in Input
  /\ page' = [page EXCEPT !.input = input]
  /\ UNCHANGED <<attempts, disconnects>>

\* Mutant: the path is taken before it is checked.
ConfirmPathUnchecked ==
  /\ Listening /\ page.step = "input-path"
  /\ page' = [page EXCEPT !.repoPath = page.input, !.step = "input-graph",
                          !.input = DefaultGraph, !.error = page.input = Blank]
  /\ UNCHANGED <<attempts, disconnects>>

ConfirmPath ==
  /\ Listening /\ page.step = "input-path"
  /\ page' = IF page.input = Blank
               THEN [page EXCEPT !.error = TRUE]
               ELSE [page EXCEPT !.repoPath = page.input, !.step = "input-graph",
                                 !.input = DefaultGraph, !.error = FALSE]
  /\ UNCHANGED <<attempts, disconnects>>

ConfirmGraph ==
  /\ Listening /\ page.step = "input-graph"
  /\ Launch(page.repoPath)
  /\ UNCHANGED disconnects

Back ==
  /\ Listening /\ page.step # "choose"
  /\ page' = IF page.step = "input-graph"
               THEN [page EXCEPT !.step = "input-path", !.input = page.repoPath]
               ELSE [page EXCEPT !.step = "choose"]
  /\ UNCHANGED <<attempts, disconnects>>

\* From any step, connected or not: back to the initial model, generation 0
\* included.  Attempts in flight stay in flight.
Disconnect ==
  /\ disconnects < MaxDisconnects
  /\ disconnects' = disconnects + 1
  /\ page' = InitialPage
  /\ UNCHANGED attempts

----------------------------------------------------------------------------
(* Attempts *)

Advance(a) ==
  /\ attempts[a].open
  /\ attempts[a].done < Len(Awaited) - 1
  /\ attempts' = [attempts EXCEPT ![a].done = @ + 1]
  /\ UNCHANGED <<page, disconnects>>

\* Mutant: only results older than the page are dropped.
ExpectedOrLater(a) == attempts[a].generation >= page.generation

Expected(a) == attempts[a].generation = page.generation

\* Mutant: a session is accepted whenever it arrives.
ReadyAnyGeneration(a) ==
  /\ attempts[a].open
  /\ attempts[a].done = Len(Awaited) - 1
  /\ attempts' = [attempts EXCEPT ![a].done = @ + 1, ![a].open = FALSE]
  /\ page' = [page EXCEPT !.connecting = FALSE, !.session = a]
  /\ UNCHANGED disconnects

\* session-ready
Ready(a) ==
  /\ attempts[a].open
  /\ attempts[a].done = Len(Awaited) - 1
  /\ attempts' = [attempts EXCEPT ![a].done = @ + 1, ![a].open = FALSE]
  /\ page' = IF Expected(a)
               THEN [page EXCEPT !.connecting = FALSE, !.session = a]
               ELSE page
  /\ UNCHANGED disconnects

\* Mutant: an error is shown, and the attempt is still waited for.
RefusedStillConnecting(a) ==
  /\ attempts[a].open
  /\ attempts' = [attempts EXCEPT ![a].open = FALSE]
  /\ page' = IF Expected(a) THEN [page EXCEPT !.error = TRUE, !.step = "choose"]
                            ELSE page
  /\ UNCHANGED disconnects

\* connect-error
Refused(a) ==
  /\ attempts[a].open
  /\ attempts' = [attempts EXCEPT ![a].open = FALSE]
  /\ page' = IF Expected(a)
               THEN [page EXCEPT !.connecting = FALSE, !.error = TRUE, !.step = "choose"]
               ELSE page
  /\ UNCHANGED disconnects

Settle(a) == Advance(a) \/ Ready(a) \/ Refused(a)

Key ==
  \/ Up \/ Down
  \/ SelectWizard \/ SelectHost
  \/ \E input \in Input : Type(input)
  \/ ConfirmPath \/ ConfirmGraph \/ Back \/ Disconnect

Next == Key \/ \E a \in DOMAIN attempts : Settle(a)

\* Adapters settle their promises; nobody has to press a key.
Fairness == \A a \in 1 .. MaxAttempts : WF_vars(a \in DOMAIN attempts /\ Settle(a))

Spec == Init /\ [][Next]_vars /\ Fairness

----------------------------------------------------------------------------
(* Properties *)

Attempt == [generation : 1 .. MaxAttempts, option : 0 .. LastOption,
            repoPath : Input, done : 0 .. Len(Awaited), open : BOOLEAN]

TypeOK ==
  /\ page \in [step : {"choose", "input-path", "input-graph"},
               choice : 0 .. LastOption, input : Input, repoPath : Input,
               error : BOOLEAN, generation : 0 .. MaxAttempts,
               connecting : BOOLEAN, session : DOMAIN attempts \cup {NoSession}]
  /\ attempts \in Seq(Attempt)
  /\ Len(attempts) <= MaxAttempts
  /\ disconnects \in 0 .. MaxDisconnects

\* Until the first disconnect the session on show is the one the user selected
\* last, in whatever order the attempts finish (handleConnectionResult).
NewestWins ==
  disconnects = 0 /\ page.session # NoSession => page.session = Len(attempts)

\* Until then a session, once shown, is never replaced by the late answer of
\* another attempt (updateConnectGlobal lets results in on a connected page).
SessionStable ==
  [][disconnects' = 0 /\ page.session # NoSession
       => page'.session = page.session]_vars

\* "The generation field prevents stale async connection attempts from
\* overwriting newer selections", disconnects or not.
GenerationGuards ==
  page.session # NoSession => page.session = Len(attempts)

\* After a disconnect, and until the user selects a host again, nothing in flight
\* brings a session or the connecting state back; and an answer that comes in,
\* a session or an error, leaves the page as the user has it: no error appears,
\* and the step stays where it is (updateConnectGlobal, handleConnectionResult).
DisconnectSticks ==
  [][page.generation = 0 /\ page'.generation = 0
       => /\ page'.session = NoSession /\ ~page'.connecting
          /\ attempts' # attempts => page' = page]_vars

\* The form launches no attempt without a repository path, whichever way the
\* user went back and forth and whatever attempts did to the step meanwhile.
FormHasRepository ==
  \A a \in DOMAIN attempts :
    attempts[a].option = Wizard => attempts[a].repoPath # Blank

\* The page does not stay connecting: the attempt is answered, replaced or
\* given up.
ConnectingEnds == page.connecting ~> ~page.connecting
============================================================================
