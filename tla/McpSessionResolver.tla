------------------------- MODULE McpSessionResolver -------------------------
(***************************************************************************)
(* The one DebuggerSession of the MCP server.  Every inspection tool asks  *)
(* for it; the first ones create it, and a client may have any number of   *)
(* tool calls in flight before it exists.                                  *)
(***************************************************************************)
EXTENDS Integers, Sequences

CONSTANTS
  ToolCalls,           \* tool calls that can be in flight together
  NoSession,           \* undefined
  MaxCreations         \* bound on the DebuggerSession.create calls

ASSUME CreationAssumption ==
  /\ MaxCreations \in Nat \ {0}
  /\ NoSession \notin Nat

VARIABLES
  session,             \* the session, named by the creation that made it
  sessionPromise,      \* the creation new callers are given to await
  creations,           \* the state of every DebuggerSession.create call
  calls                \* the creation each call awaits, and its last answer

vars == <<session, sessionPromise, creations, calls>>

Init ==
  /\ session = NoSession
  /\ sessionPromise = NoSession
  /\ creations = <<>>
  /\ calls = [c \in ToolCalls |-> [awaits |-> NoSession, got |-> NoSession]]

Pending == {k \in DOMAIN creations : creations[k] = "pending"}

\* The session exists: the call is answered without waiting.
GetKnown(c) ==
  /\ calls[c].awaits = NoSession
  /\ session # NoSession
  /\ calls' = [calls EXCEPT ![c].got = session]
  /\ UNCHANGED <<session, sessionPromise, creations>>

Share(c) ==
  /\ calls[c].awaits = NoSession
  /\ session = NoSession
  /\ sessionPromise # NoSession
  /\ calls' = [calls EXCEPT ![c].awaits = sessionPromise]
  /\ UNCHANGED <<session, sessionPromise, creations>>

\* Mutant: each call before the first session makes a session of its own.
InitializeEach(c) ==
  /\ calls[c].awaits = NoSession
  /\ session = NoSession
  /\ Len(creations) < MaxCreations
  /\ creations' = Append(creations, "pending")
  /\ sessionPromise' = Len(creations')
  /\ calls' = [calls EXCEPT ![c].awaits = sessionPromise']
  /\ UNCHANGED session

\* Mutant: the promise kept is that of the creation before.
InitializePrevious(c) ==
  /\ calls[c].awaits = NoSession
  /\ session = NoSession
  /\ sessionPromise = NoSession
  /\ Len(creations) < MaxCreations
  /\ creations' = Append(creations, "pending")
  /\ sessionPromise' = Len(creations)
  /\ calls' = [calls EXCEPT ![c].awaits = sessionPromise']
  /\ UNCHANGED session

Initialize(c) ==
  /\ calls[c].awaits = NoSession
  /\ session = NoSession
  /\ sessionPromise = NoSession
  /\ Len(creations) < MaxCreations
  /\ creations' = Append(creations, "pending")
  /\ sessionPromise' = Len(creations')
  /\ calls' = [calls EXCEPT ![c].awaits = sessionPromise']
  /\ UNCHANGED session

\* Mutant: the promise is given up with the session not recorded.
CreatedUnrecorded(k) ==
  /\ creations[k] = "pending"
  /\ creations' = [creations EXCEPT ![k] = "created"]
  /\ sessionPromise' = NoSession
  /\ UNCHANGED <<session, calls>>

\* Mutant: the session is recorded, and the promise never resolved.
CreatedUnresolved(k) ==
  /\ creations[k] = "pending"
  /\ session' = k
  /\ UNCHANGED <<sessionPromise, creations, calls>>

Created(k) ==
  /\ creations[k] = "pending"
  /\ creations' = [creations EXCEPT ![k] = "created"]
  /\ session' = k
  /\ UNCHANGED <<sessionPromise, calls>>

\* Mutant: the rejected promise is kept.
RejectedKept(k) ==
  /\ creations[k] = "pending"
  /\ k < MaxCreations
  /\ creations' = [creations EXCEPT ![k] = "rejected"]
  /\ UNCHANGED <<session, sessionPromise, calls>>

\* The failed creation is forgotten, so that a later call may try again; the
\* last creation MaxCreations allows does not fail.
Rejected(k) ==
  /\ creations[k] = "pending"
  /\ k < MaxCreations
  /\ creations' = [creations EXCEPT ![k] = "rejected"]
  /\ sessionPromise' = NoSession
  /\ UNCHANGED <<session, calls>>

\* The awaiting call goes on in a later turn: with that creation's session,
\* or with its error.
Resume(c) ==
  /\ calls[c].awaits # NoSession
  /\ creations[calls[c].awaits] # "pending"
  /\ calls' = [calls EXCEPT ![c] =
       [awaits |-> NoSession,
        got    |-> IF creations[calls[c].awaits] = "created"
                     THEN calls[c].awaits ELSE calls[c].got]]
  /\ UNCHANGED <<session, sessionPromise, creations>>

Next ==
  \/ \E c \in ToolCalls : GetKnown(c) \/ Share(c) \/ Initialize(c) \/ Resume(c)
  \/ \E k \in DOMAIN creations : Created(k) \/ Rejected(k)

\* Adapters settle the promises of a creation, and the event loop resumes
\* whoever awaits them; no tool has to be called.
Fairness ==
  /\ \A c \in ToolCalls : WF_vars(Resume(c))
  /\ \A k \in 1 .. MaxCreations :
       WF_vars(k \in DOMAIN creations /\ (Created(k) \/ Rejected(k)))

Spec == Init /\ [][Next]_vars /\ Fairness

----------------------------------------------------------------------------
(* Properties *)

Creation == 1 .. MaxCreations

TypeOK ==
  /\ session \in Creation \cup {NoSession}
  /\ sessionPromise \in Creation \cup {NoSession}
  /\ creations \in Seq({"pending", "created", "rejected"})
  /\ Len(creations) <= MaxCreations
  /\ calls \in [ToolCalls -> [awaits : Creation \cup {NoSession},
                              got : Creation \cup {NoSession}]]

\* "Concurrent first inspections share one session initialization": never
\* are two creations in flight (createSessionResolver).
OneCreation == \A j, k \in Pending : j = k

\* All tools inspect the same session, whenever they asked and however many
\* creations failed before.
OneSession ==
  \A c, d \in ToolCalls :
    calls[c].got # NoSession /\ calls[d].got # NoSession
      => calls[c].got = calls[d].got

\* A failed creation is never handed to a later call, so a host that was
\* down once does not stay unreachable.
NoStalePromise ==
  sessionPromise # NoSession => creations[sessionPromise] # "rejected"

\* Every tool call gets its session or an error.
CallsSettle ==
  \A c \in ToolCalls : calls[c].awaits # NoSession ~> calls[c].awaits = NoSession
=============================================================================
