---------------------- MODULE McpSessionResolverProofs ----------------------
(***************************************************************************)
(* However many tool calls overlap and however many creations fail, the    *)
(* tools inspect one session.  The invariants the runs check are not       *)
(* inductive alone: they follow from what ties the state of a creation to  *)
(* the two variables that may name it.                                     *)
(***************************************************************************)
EXTENDS McpSessionResolver, TLAPS

\* The promise names the creation that is pending or has succeeded.
PromiseTied ==
  /\ sessionPromise # NoSession =>
       sessionPromise \in DOMAIN creations /\ creations[sessionPromise] # "rejected"
  /\ \A k \in DOMAIN creations : creations[k] # "rejected" => sessionPromise = k

\* The session is the creation that has succeeded.
SessionTied ==
  /\ session # NoSession =>
       session \in DOMAIN creations /\ creations[session] = "created"
  /\ \A k \in DOMAIN creations : creations[k] = "created" => session = k

CallsTied ==
  \A c \in ToolCalls :
    /\ calls[c].awaits # NoSession => calls[c].awaits \in DOMAIN creations
    /\ calls[c].got \in {NoSession, session}

IInv == TypeOK /\ PromiseTied /\ SessionTied /\ CallsTied

LEMMA InitTied == Init => IInv
BY CreationAssumption
   DEF Init, IInv, TypeOK, PromiseTied, SessionTied, CallsTied, Creation

\* A creation that is appended leaves the states of the others alone.
LEMMA InitializeTied ==
  ASSUME NEW c \in ToolCalls, IInv, Initialize(c)
  PROVE  IInv'
<1> DEFINE n == Len(creations)
<1>1. /\ creations \in Seq({"pending", "created", "rejected"})
      /\ n \in Nat /\ n < MaxCreations
  BY DEF Initialize, IInv, TypeOK
<1>2. /\ creations' \in Seq({"pending", "created", "rejected"})
      /\ Len(creations') = n + 1
      /\ DOMAIN creations = 1 .. n
      /\ DOMAIN creations' = 1 .. (n + 1)
      /\ creations'[n + 1] = "pending"
      /\ \A k \in 1 .. n : creations'[k] = creations[k]
  BY <1>1 DEF Initialize
<1>3. sessionPromise' = n + 1 /\ n + 1 \in Creation /\ session' = session
  BY <1>1, <1>2, CreationAssumption DEF Initialize, Creation
<1>4. TypeOK'
  BY <1>1, <1>2, <1>3, CreationAssumption DEF Initialize, IInv, TypeOK
<1>5. \A k \in 1 .. n : creations[k] = "rejected"
  BY <1>1, <1>2, CreationAssumption DEF Initialize, IInv, PromiseTied
<1>6. PromiseTied'
  BY <1>1, <1>2, <1>3, <1>5 DEF PromiseTied
<1>7. SessionTied'
  BY <1>1, <1>2, <1>3, <1>5 DEF IInv, SessionTied, Initialize
<1>8. CallsTied'
  BY <1>1, <1>2, <1>3 DEF IInv, CallsTied, TypeOK, Initialize
<1> QED BY <1>4, <1>6, <1>7, <1>8 DEF IInv

LEMMA CreatedTied ==
  ASSUME NEW k \in DOMAIN creations, IInv, Created(k)
  PROVE  IInv'
<1>1. /\ creations \in Seq({"pending", "created", "rejected"})
      /\ Len(creations) \in Nat /\ Len(creations) <= MaxCreations
      /\ k \in 1 .. Len(creations) /\ k \in Creation
  BY CreationAssumption DEF IInv, TypeOK, Creation
<1>2. /\ creations' \in Seq({"pending", "created", "rejected"})
      /\ Len(creations') = Len(creations)
      /\ DOMAIN creations' = DOMAIN creations
      /\ creations'[k] = "created"
      /\ \A j \in DOMAIN creations : j # k => creations'[j] = creations[j]
  BY <1>1 DEF Created
<1>3. sessionPromise = k /\ session = NoSession
  BY <1>1 DEF Created, IInv, PromiseTied, SessionTied
<1>4. TypeOK'
  BY <1>1, <1>2 DEF Created, IInv, TypeOK
<1>5. PromiseTied' /\ SessionTied'
  BY <1>1, <1>2, <1>3 DEF Created, IInv, PromiseTied, SessionTied
<1>6. CallsTied'
  BY <1>2, <1>3 DEF Created, IInv, CallsTied
<1> QED BY <1>4, <1>5, <1>6 DEF IInv

LEMMA RejectedTied ==
  ASSUME NEW k \in DOMAIN creations, IInv, Rejected(k)
  PROVE  IInv'
<1>1. /\ creations \in Seq({"pending", "created", "rejected"})
      /\ k \in 1 .. Len(creations)
  BY DEF IInv, TypeOK
<1>2. /\ creations' \in Seq({"pending", "created", "rejected"})
      /\ Len(creations') = Len(creations)
      /\ DOMAIN creations' = DOMAIN creations
      /\ creations'[k] = "rejected"
      /\ \A j \in DOMAIN creations : j # k => creations'[j] = creations[j]
  BY <1>1 DEF Rejected
<1>3. \A j \in DOMAIN creations : creations'[j] = "rejected"
  BY <1>1, <1>2 DEF Rejected, IInv, PromiseTied
<1>4. session = NoSession
  BY <1>1, <1>2, <1>3 DEF Rejected, IInv, SessionTied
<1>5. TypeOK' /\ PromiseTied' /\ SessionTied' /\ CallsTied'
  BY <1>2, <1>3, <1>4
     DEF Rejected, IInv, TypeOK, PromiseTied, SessionTied, CallsTied
<1> QED BY <1>5 DEF IInv

LEMMA CallsStepTied ==
  ASSUME NEW c \in ToolCalls, IInv, GetKnown(c) \/ Share(c) \/ Resume(c)
  PROVE  IInv'
<1>1. CASE GetKnown(c)
  BY <1>1 DEF GetKnown, IInv, TypeOK, PromiseTied, SessionTied, CallsTied
<1>2. CASE Share(c)
  BY <1>2 DEF Share, IInv, TypeOK, PromiseTied, SessionTied, CallsTied
<1>3. CASE Resume(c)
  <2>1. calls[c].awaits \in DOMAIN creations /\ calls[c].awaits \in Creation
    BY <1>3 DEF Resume, IInv, TypeOK, CallsTied
  <2>2. UNCHANGED <<session, sessionPromise, creations>>
    BY <1>3 DEF Resume
  <2>3. creations[calls[c].awaits] = "created" => session = calls[c].awaits
    BY <2>1 DEF IInv, SessionTied
  <2>4. TypeOK' /\ CallsTied'
    BY <1>3, <2>1, <2>2, <2>3 DEF Resume, IInv, TypeOK, CallsTied
  <2> QED BY <2>2, <2>4 DEF IInv, PromiseTied, SessionTied
<1> QED BY <1>1, <1>2, <1>3

LEMMA StepTied == IInv /\ [Next]_vars => IInv'
<1> SUFFICES ASSUME IInv, [Next]_vars PROVE IInv'
  OBVIOUS
<1>1. CASE UNCHANGED vars
  BY <1>1 DEF vars, IInv, TypeOK, PromiseTied, SessionTied, CallsTied
<1>2. ASSUME NEW c \in ToolCalls, GetKnown(c) \/ Share(c) \/ Resume(c) PROVE IInv'
  BY <1>2, CallsStepTied
<1>3. ASSUME NEW c \in ToolCalls, Initialize(c) PROVE IInv'
  BY <1>3, InitializeTied
<1>4. ASSUME NEW k \in DOMAIN creations, Created(k) PROVE IInv'
  BY <1>4, CreatedTied
<1>5. ASSUME NEW k \in DOMAIN creations, Rejected(k) PROVE IInv'
  BY <1>5, RejectedTied
<1> QED BY <1>1, <1>2, <1>3, <1>4, <1>5 DEF Next

LEMMA AlwaysTied == Spec => []IInv
<1>1. Init => IInv
  BY InitTied
<1>2. IInv /\ [Next]_vars => IInv'
  BY StepTied
<1> QED BY <1>1, <1>2, PTL DEF Spec

----------------------------------------------------------------------------
\* Session and promise are creations that were begun, or none
\* (createSessionResolver).
THEOREM ResolverTyped == Spec => []TypeOK
<1>1. IInv => TypeOK
  BY DEF IInv
<1> QED BY <1>1, AlwaysTied, PTL

\* Every tool that was given a session was given the same one
\* (createSessionResolver).
THEOREM SharedSession == Spec => []OneSession
<1>1. IInv => OneSession
  BY DEF IInv, CallsTied, OneSession
<1> QED BY <1>1, AlwaysTied, PTL

\* Concurrent first inspections share one initialization, and a failed one
\* is forgotten.
THEOREM SharedCreation == Spec => [](OneCreation /\ NoStalePromise)
<1>1. IInv => OneCreation /\ NoStalePromise
  BY DEF IInv, PromiseTied, OneCreation, NoStalePromise, Pending
<1> QED BY <1>1, AlwaysTied, PTL
=============================================================================
