----------------------- MODULE DebuggerSessionProofs -----------------------
(***************************************************************************)
(* Safety of DebuggerSession for every history, every number of commands   *)
(* in flight, every host and every way its promises settle.                *)
(***************************************************************************)
EXTENDS DebuggerSession, SequenceLemmas

\* The step controls and the seek keep the head inside the history.
LEMMA MovesStayInHistory ==
  ASSUME NEW index \in Frames, NEW n \in Int
  PROVE  Forward(index) \in Frames /\ Backward(index) \in Frames /\ Clamp(n) \in Frames
BY MaxFrameAssumption DEF Frames, Forward, Backward, Clamp, Lesser, Greater

----------------------------------------------------------------------------
(* buildNeighborhoodState *)

\* A summary is taken from the facts that were read, or built from the local
\* basis; a faithful host's payload for the frame on show is about that frame.
LEMMA MaterializeProperties ==
  ASSUME NEW family \in Families,
         NEW view \in View, view["frame"] \in Frames,
         NEW localBasis \in SUBSET Frames
  PROVE  LET summary == Materialize(family, view, localBasis)
         IN  /\ summary \in Summary
             /\ FaithfulPayloads => summary.basis \in {localBasis, {view["frame"]}}
             /\ TakenFrom(PublishedFacts(view), family, view["frame"], summary)
<1> DEFINE facts == PublishedFacts(view)
           hits == {i \in 1 .. Len(facts) : Accepts(facts[i], family, view["frame"])}
           found == SelectInSeq(facts, LAMBDA fact : Accepts(fact, family, view["frame"]))
<1>1. facts \in Seq(HostFact)
  <2>1. view["facts"] \in Frames \cup {Absent}
    BY DEF View, Parts
  <2>2. CASE view["facts"] = Absent
    BY <2>2 DEF PublishedFacts
  <2>3. CASE view["facts"] # Absent
    BY <2>1, <2>3, HostAssumption DEF PublishedFacts
  <2> QED
    BY <2>2, <2>3
<1>2. found = IF hits # {} THEN Min(hits) ELSE 0
  BY DEF SelectInSeq
<1>3. \/ found = 0 /\ hits = {}
      \/ found \in hits /\ \A k \in hits : found <= k
  <2>1. hits \in SUBSET Nat
    BY <1>1
  <2>2. hits # {} => Min(hits) \in hits /\ \A k \in hits : Min(hits) <= k
    BY <2>1, MinIsLeast
  <2> QED
    BY <1>2, <2>2
<1>4. ASSUME found # 0
      PROVE  /\ found \in hits
             /\ \A k \in hits : found <= k
             /\ facts[found] \in HostFact
             /\ FaithfulPayloads => facts[found].about = view["frame"]
  <2>1. found \in hits /\ \A k \in hits : found <= k
    BY <1>3, <1>4
  <2>2. facts[found] \in HostFact /\ found \in DOMAIN facts
    BY <1>1, <2>1, ElementOfSeq
  <2>3. view["facts"] # Absent
    BY <2>2 DEF PublishedFacts
  <2>4. view["facts"] \in Frames /\ facts = HostFacts[view["facts"]]
    BY <2>3 DEF PublishedFacts, View, Parts
  <2>5. facts[found].target = view["frame"]
    BY <2>1 DEF Accepts
  <2> QED
    BY <2>1, <2>2, <2>4, <2>5 DEF FaithfulPayloads
<1>5. hits = {k \in DOMAIN facts : /\ facts[k].family = family
                                  /\ facts[k].target = view["frame"]
                                  /\ facts[k].posture # "unavailable"}
  BY <1>1 DEF Accepts
<1>6. Materialize(family, view, localBasis) =
        CASE found = 0 ->
               [origin |-> "LOCAL_FALLBACK", basis |-> localBasis]
          [] found # 0 /\ facts[found].posture = "malformed" ->
               [origin |-> "OBSTRUCTED", basis |-> localBasis]
          [] found # 0 /\ facts[found].posture # "malformed" ->
               [origin |-> "HOST_PUBLISHED", basis |-> {facts[found].about}]
  BY DEF Materialize, facts, found
<1>7. found = 0 => hits = {}
  <2>1. 0 \notin hits
    BY <1>1
  <2> QED
    BY <1>3, <2>1
<1>8. \A summary : TakenFrom(facts, family, view["frame"], summary) <=>
        \/ hits = {} /\ summary.origin = "LOCAL_FALLBACK"
        \/ \E first \in hits :
             /\ \A k \in hits : first <= k
             /\ \/ facts[first].posture = "malformed" /\ summary.origin = "OBSTRUCTED"
                \/ /\ facts[first].posture = "hydrates"
                   /\ summary = [origin |-> "HOST_PUBLISHED", basis |-> {facts[first].about}]
  BY <1>5 DEF TakenFrom
<1> SUFFICES LET summary == Materialize(family, view, localBasis)
             IN  /\ summary \in Summary
                 /\ FaithfulPayloads => summary.basis \in {localBasis, {view["frame"]}}
                 /\ TakenFrom(facts, family, view["frame"], summary)
  BY DEF facts
<1> HIDE DEF facts, hits, found
<1>9. CASE found = 0
  <2>1. Materialize(family, view, localBasis)
          = [origin |-> "LOCAL_FALLBACK", basis |-> localBasis]
    BY <1>6, <1>9
  <2> QED
    BY <1>7, <1>8, <1>9, <2>1 DEF Summary
<1>10. CASE found # 0 /\ facts[found].posture = "malformed"
  <2>1. Materialize(family, view, localBasis)
          = [origin |-> "OBSTRUCTED", basis |-> localBasis]
    BY <1>6, <1>10
  <2> QED
    BY <2>1, <1>4, <1>8, <1>10 DEF Summary
<1>11. CASE found # 0 /\ facts[found].posture # "malformed"
  <2>1. Materialize(family, view, localBasis)
          = [origin |-> "HOST_PUBLISHED", basis |-> {facts[found].about}]
    BY <1>6, <1>11
  <2>2. facts[found].about \in Frames
    BY <1>4, <1>11 DEF HostFact
  <2>3. facts[found].posture = "hydrates"
    <3>1. facts[found].posture # "unavailable"
      BY <1>4, <1>5, <1>11
    <3> QED
      BY <1>4, <1>11, <3>1 DEF HostFact
  <2> QED
    BY <2>1, <2>2, <2>3, <1>4, <1>8, <1>11 DEF Summary
<1> QED
  BY <1>9, <1>10, <1>11

Sound(summary, family, view) ==
  /\ summary \in Summary
  /\ TakenFrom(PublishedFacts(view), family, view["frame"], summary)

\* Every summary of a snapshot is well-formed and taken from the facts read.
LEMMA AssembleSound ==
  ASSUME NEW view \in View, view["frame"] \in Frames
  PROVE  /\ Assemble(view) \in [Families -> Summary]
         /\ \A family \in Families : Sound(Assemble(view)[family], family, view)
<1> DEFINE all == {"frame", "receipts", "emissions"}
           core == Materialize("neighborhoodCore", view, Sources(view, all))
<1>1. \A parts \in SUBSET Parts : Sources(view, parts) \in SUBSET Frames
  BY DEF Sources, View
<1>2. Sound(core, "neighborhoodCore", view)
  <2>1. "neighborhoodCore" \in Families /\ Sources(view, all) \in SUBSET Frames
    BY <1>1 DEF Families, Parts
  <2> QED
    BY <2>1, MaterializeProperties DEF Sound
<1>3. core.basis \in SUBSET Frames
  BY <1>2 DEF Sound, Summary
<1> DEFINE detail == Materialize("reintegrationDetail", view,
                                 core.basis \cup Sources(view, {"frame", "receipts"}))
           shell  == Materialize("receiptShell", view,
                                 core.basis \cup Sources(view, {"receipts"}))
<1> HIDE DEF core
<1>4. Sound(detail, "reintegrationDetail", view)
  <2>1. /\ "reintegrationDetail" \in Families
        /\ core.basis \cup Sources(view, {"frame", "receipts"}) \in SUBSET Frames
    BY <1>1, <1>3 DEF Families, Parts
  <2> QED
    BY <2>1, MaterializeProperties DEF Sound
<1>5. Sound(shell, "receiptShell", view)
  <2>1. /\ "receiptShell" \in Families
        /\ core.basis \cup Sources(view, {"receipts"}) \in SUBSET Frames
    BY <1>1, <1>3 DEF Families, Parts
  <2> QED
    BY <2>1, MaterializeProperties DEF Sound
<1> HIDE DEF detail, shell
<1>6. Assemble(view) =
        [family \in Families |->
           CASE family = "neighborhoodCore" -> core
             [] family = "reintegrationDetail" -> detail
             [] family = "receiptShell" -> shell]
  <2>1. ASSUME NEW family \in Families
        PROVE  (CASE family = "neighborhoodCore" -> core
                  [] family = "reintegrationDetail" ->
                       Materialize(family, view,
                                   core.basis \cup Sources(view, {"frame", "receipts"}))
                  [] family = "receiptShell" ->
                       Materialize(family, view,
                                   core.basis \cup Sources(view, {"receipts"})))
               = (CASE family = "neighborhoodCore" -> core
                    [] family = "reintegrationDetail" -> detail
                    [] family = "receiptShell" -> shell)
    BY DEF detail, shell, Families
  <2> QED
    BY <2>1 DEF Assemble, core
<1>7. /\ Assemble(view)["neighborhoodCore"] = core
      /\ Assemble(view)["reintegrationDetail"] = detail
      /\ Assemble(view)["receiptShell"] = shell
  BY <1>6 DEF Families
<1>8. ASSUME NEW family \in Families
      PROVE  Sound(Assemble(view)[family], family, view)
  <2>1. \/ family = "neighborhoodCore"
        \/ family = "reintegrationDetail"
        \/ family = "receiptShell"
    BY DEF Families
  <2> QED
    BY <1>2, <1>4, <1>5, <1>7, <2>1
<1>9. \A family \in Families : Assemble(view)[family] \in Summary
  BY <1>8 DEF Sound
<1> QED
  BY <1>6, <1>8, <1>9

----------------------------------------------------------------------------
(* Type correctness *)

\* What a command in flight knows: the frame, once it has been read.
CallTyped(call) ==
  /\ call \in [stage : Stages \cup {"idle"}, view : View]
  /\ call.stage \in Parts \cup {"context"} =>
       call.stage = "head" \/ call.view["frame"] \in Frames

\* A step that only advances one command keeps the types.
LEMMA AwaitTyped ==
  ASSUME TypeOK, NEW c \in Calls, NEW stage, NEW view,
         CallTyped([stage |-> stage, view |-> view]),
         Await(c, stage, view)
  PROVE  /\ calls' \in [Calls -> [stage : Stages \cup {"idle"}, view : View]]
         /\ \A d \in Calls :
              calls'[d].stage \in Parts \cup {"context"} =>
                calls'[d].stage = "head" \/ calls'[d].view["frame"] \in Frames
<1>1. calls' = [calls EXCEPT ![c] = [stage |-> stage, view |-> view]]
  BY DEF Await
<1>2. calls \in [Calls -> [stage : Stages \cup {"idle"}, view : View]]
  BY DEF TypeOK
<1>3. calls'[c] = [stage |-> stage, view |-> view]
  BY <1>1, <1>2
<1>4. \A d \in Calls \ {c} : calls'[d] = calls[d]
  BY <1>1, <1>2
<1>5. calls' \in [Calls -> [stage : Stages \cup {"idle"}, view : View]]
  BY <1>1, <1>2 DEF CallTyped
<1>6. ASSUME NEW d \in Calls, calls'[d].stage \in Parts \cup {"context"}
      PROVE  calls'[d].stage = "head" \/ calls'[d].view["frame"] \in Frames
  <2>1. CASE d = c
    BY <1>3, <1>6, <2>1 DEF CallTyped
  <2>2. CASE d # c
    BY <1>4, <1>6, <2>2 DEF TypeOK
  <2> QED
    BY <2>1, <2>2
<1> QED
  BY <1>5, <1>6

LEMMA BlankTyped == Blank \in View
BY DEF Blank, View

\* A read stores a frame index, or Absent where the host has no such part.
LEMMA ReadTyped ==
  ASSUME TypeOK, NEW c \in Calls, NEW awaited, NEW part \in Parts,
         NEW index \in Frames \cup {Absent},
         part = "frame" => index \in Frames,
         awaited \in {"hello", "move"} => part = "head",
         awaited = "head" => part = "frame",
         awaited \in Stages,
         Read(c, awaited, part, index),
         capabilities' \subseteq Capability
  PROVE  TypeOK'
<1> DEFINE view == [calls[c].view EXCEPT ![part] = index]
<1>1. /\ calls[c].view \in View
      /\ calls[c].stage = awaited
      /\ awaited \in Parts \cup {"context"} =>
           awaited = "head" \/ calls[c].view["frame"] \in Frames
  BY DEF TypeOK, Read
<1>2. view \in View /\ view[part] = index
  BY <1>1 DEF View
<1>3. part # "head" => view["frame"] \in Frames
  <2>1. CASE part = "frame"
    BY <1>2, <2>1
  <2>2. CASE part # "frame" /\ part # "head"
    <3>1. awaited \in Parts \cup {"context"} /\ awaited # "head"
      BY <2>2 DEF Stages
    <3>2. view["frame"] = calls[c].view["frame"]
      BY <1>1, <2>2 DEF View, Parts
    <3> QED
      BY <1>1, <3>1, <3>2
  <2> QED
    BY <2>1, <2>2
<1> HIDE DEF view
<1>4. CallTyped([stage |-> part, view |-> view])
  BY <1>2, <1>3 DEF CallTyped, Stages
<1>5. Await(c, part, view)
  BY DEF Read, view
<1>6. UNCHANGED <<headIndex, session, pins>>
  BY DEF Read
<1> QED
  BY <1>4, <1>5, <1>6, AwaitTyped DEF TypeOK

LEMMA PinTyped ==
  ASSUME TypeOK, NEW id \in ObservationId, Pin(id)
  PROVE  pins' \in Seq(PinnedObservation)
<1>1. /\ session \in Snapshot
      /\ session.view \in View
      /\ session.view["frame"] \in Frames
  BY DEF TypeOK, Pin, Snapshot
<1>2. PICK o \in Observed :
        /\ o.id = id
        /\ o.emission \in Emitted
        /\ pins' = Append(pins, [pinnedAt      |-> session.view["frame"],
                                 observation   |-> id,
                                 observedAt    |-> session.view["observations"],
                                 emission      |-> o.emission,
                                 emittedAt     |-> session.view["emissions"]])
  BY DEF Pin
<1>3. session.view["observations"] \in Frames /\ session.view["emissions"] \in Frames
  BY <1>1, <1>2 DEF Observed, Emitted, View, Parts
<1>4. o.emission \in EmissionId
  BY <1>2, <1>3, HostAssumption DEF Emitted
<1> QED
  BY <1>1, <1>2, <1>3, <1>4, AppendProperties DEF TypeOK, PinnedObservation

\* Unpin removes one pin and changes no other.
LEMMA UnpinRemoves ==
  ASSUME TypeOK, NEW id \in ObservationId, Unpin(id)
  PROVE  \E i \in 1 .. Len(pins) : pins' = RemoveAt(pins, i)
<1> DEFINE hits == {i \in 1 .. Len(pins) : pins[i].observation = id}
<1>1. pins \in Seq(PinnedObservation) /\ DOMAIN pins = 1 .. Len(pins)
  BY LenProperties DEF TypeOK
<1>2. hits # {} /\ hits \in SUBSET Nat
  BY <1>1 DEF Unpin
<1>3. Min(hits) \in 1 .. Len(pins)
  BY <1>2, MinIsLeast
<1>4. pins' = RemoveAt(pins, Min(hits))
  BY <1>2 DEF Unpin, RemoveFirstMatch, SelectInSeq
<1> QED
  BY <1>3, <1>4

THEOREM TypeCorrect == Spec => []TypeOK
<1>1. Init => TypeOK
  BY BlankTyped, EmptySeq DEF Init, TypeOK, Idle, Parts
<1>2. TypeOK /\ [Next]_vars => TypeOK'
  <2> SUFFICES ASSUME TypeOK, [Next]_vars
               PROVE  TypeOK'
    OBVIOUS
  <2>1. headIndex \in Frames /\ capabilities \subseteq Capability
    BY DEF TypeOK
  <2>2. ASSUME NEW c \in Calls, Create(c)
        PROVE  TypeOK'
    <3>1. CallTyped([stage |-> "hello", view |-> Blank])
      BY BlankTyped DEF CallTyped, Stages, Parts
    <3> QED
      BY <2>2, <3>1, AwaitTyped DEF Create, TypeOK
  <2>3. ASSUME NEW c \in Calls, NEW target \in Frames, Navigate(c, target)
        PROVE  TypeOK'
    <3>1. CallTyped([stage |-> "move", view |-> Blank])
      BY BlankTyped DEF CallTyped, Stages, Parts
    <3> QED
      BY <2>3, <3>1, AwaitTyped DEF Navigate, TypeOK
  <2>4. ASSUME NEW c \in Calls, StepForward(c) \/ StepBackward(c)
        PROVE  TypeOK'
    BY <2>1, <2>3, <2>4, MovesStayInHistory DEF StepForward, StepBackward
  <2>5. ASSUME NEW c \in Calls, NEW n \in Requests, SeekToFrame(c, n)
        PROVE  TypeOK'
    BY <2>1, <2>3, <2>5, MovesStayInHistory, HostAssumption DEF SeekToFrame
  <2>6. ASSUME NEW c \in Calls, Greet(c)
        PROVE  TypeOK'
    BY <2>1, <2>6, ReadTyped, HostAssumption DEF Greet, Stages, Parts
  <2>7. ASSUME NEW c \in Calls, ReadHead(c) \/ ReadFrame(c)
        PROVE  TypeOK'
    BY <2>1, <2>7, ReadTyped DEF ReadHead, ReadFrame, Stages, Parts
  <2>8. ASSUME NEW c \in Calls, ReadReceipts(c) \/ ReadEmissions(c) \/ ReadObservations(c)
        PROVE  TypeOK'
    <3>1. \A capability : IfCapable(capability, headIndex) \in Frames \cup {Absent}
      BY <2>1 DEF IfCapable
    <3> QED
      BY <2>1, <2>8, <3>1, ReadTyped
         DEF ReadReceipts, ReadEmissions, ReadObservations, Stages, Parts
  <2>9. ASSUME NEW c \in Calls, ReadContext(c)
        PROVE  TypeOK'
    <3>1. CallTyped([stage |-> "context", view |-> calls[c].view])
      BY <2>9 DEF ReadContext, TypeOK, CallTyped, Stages, Parts
    <3> QED
      BY <2>9, <3>1, AwaitTyped DEF ReadContext, TypeOK
  <2>10. ASSUME NEW c \in Calls, ReadFacts(c)
         PROVE  TypeOK'
    <3>1. calls[c].view \in View
      BY DEF TypeOK
    <3>2. IfCapable("READ_SESSION_FAMILY_FACTS", calls[c].view["frame"])
            \in Frames \cup {Absent}
      BY <3>1 DEF IfCapable, View, Parts
    <3> QED
      BY <2>1, <2>10, <3>2, ReadTyped DEF ReadFacts, Stages, Parts
  <2>11. ASSUME NEW c \in Calls, Commit(c)
         PROVE  TypeOK'
    <3>1. CallTyped([stage |-> "idle", view |-> Blank])
      BY BlankTyped DEF CallTyped, Stages, Parts
    <3>2. calls[c].view \in View /\ calls[c].view["frame"] \in Frames
      BY <2>11 DEF Commit, TypeOK, Parts
    <3>3. session' \in Snapshot /\ session'.view["frame"] \in Frames
      BY <2>11, <3>2, AssembleSound DEF Commit, Snapshot
    <3> QED
      BY <2>11, <3>1, <3>3, AwaitTyped DEF Commit, TypeOK
  <2>12. ASSUME NEW c \in Calls, Fail(c)
         PROVE  TypeOK'
    <3>1. CallTyped([stage |-> "idle", view |-> Blank])
      BY BlankTyped DEF CallTyped, Stages, Parts
    <3> QED
      BY <2>12, <3>1, AwaitTyped DEF Fail, TypeOK
  <2>13. ASSUME NEW id \in ObservationId, Pin(id)
         PROVE  TypeOK'
    BY <2>13, PinTyped DEF Pin, TypeOK
  <2>14. ASSUME NEW id \in ObservationId, Unpin(id)
         PROVE  TypeOK'
    <3>1. pins' \in Seq(PinnedObservation)
      BY <2>14, UnpinRemoves, RemoveAtProperties DEF TypeOK
    <3> QED
      BY <2>14, <3>1 DEF Unpin, TypeOK
  <2>15. CASE UNCHANGED vars
    BY <2>15 DEF vars, TypeOK
  <2> QED
    BY <2>2, <2>4, <2>5, <2>6, <2>7, <2>8, <2>9, <2>10, <2>11, <2>12, <2>13,
       <2>14, <2>15 DEF Next, Progress
<1> QED
  BY <1>1, <1>2, PTL DEF Spec

----------------------------------------------------------------------------
(* Invariants that hold however commands overlap *)

\* Only a commit replaces the snapshot.
LEMMA SnapshotSteps ==
  ASSUME [Next]_vars
  PROVE  \/ UNCHANGED session
         \/ \E c \in Calls : Commit(c)
BY DEF Next, Progress, Create, StepForward, StepBackward, SeekToFrame, Navigate, Greet,
       ReadHead, ReadFrame, ReadReceipts, ReadEmissions, ReadObservations, ReadContext,
       ReadFacts, Read, Fail, Pin, Unpin, vars

\* Only pin and unpin touch the pins.
LEMMA PinSteps ==
  ASSUME [Next]_vars
  PROVE  \/ UNCHANGED pins
         \/ \E id \in ObservationId : Pin(id) \/ Unpin(id)
BY DEF Next, Progress, Create, StepForward, StepBackward, SeekToFrame, Navigate, Greet,
       ReadHead, ReadFrame, ReadReceipts, ReadEmissions, ReadObservations, ReadContext,
       ReadFacts, Read, Commit, Fail, vars

\* A committing command has read its frame.
LEMMA CommittedView ==
  ASSUME TypeOK, NEW c \in Calls, Commit(c)
  PROVE  calls[c].view \in View /\ calls[c].view["frame"] \in Frames
BY DEF TypeOK, Commit, Parts

\* Awaiting moves one command on and no other.
LEMMA AwaitChanges ==
  ASSUME TypeOK, NEW c \in Calls, NEW stage, NEW view, Await(c, stage, view)
  PROVE  /\ calls'[c].stage = stage /\ calls'[c].view = view
         /\ \A d \in Calls \ {c} : calls'[d] = calls[d]
<1>1. /\ calls'[c] = [stage |-> stage, view |-> view]
      /\ \A d \in Calls \ {c} : calls'[d] = calls[d]
  BY DEF TypeOK, Await
<1> QED
  BY <1>1

\* Until a session exists one command is in flight: the one that creates it.
\* A hello is only ever awaited then.
CreatedOnce ==
  /\ session = NoSession =>
       \A c, d \in Calls : calls[c].stage # "idle" /\ calls[d].stage # "idle" => c = d
  /\ \A c \in Calls : calls[c].stage = "hello" => session = NoSession
  /\ \A c, d \in Calls : calls[c].stage = "hello" /\ calls[d].stage # "idle" => c = d

\* What has been asked for last are the facts of the frame that was read.
FactsOfFrame(call) ==
  call.stage = "facts" =>
    call.view["facts"] = IfCapable("READ_SESSION_FAMILY_FACTS", call.view["frame"])

\* The inductive invariant behind PublishedAsOffered: a hello, the only thing
\* that changes the capabilities, is awaited by nobody but the command that
\* creates the session.
PublicationInv ==
  /\ CreatedOnce
  /\ \A c \in Calls : FactsOfFrame(calls[c])
  /\ PublishedAsOffered

\* A command that goes on, or gives up, without replacing the snapshot.
LEMMA AwaitPublishes ==
  ASSUME TypeOK, PublicationInv, NEW c \in Calls, NEW stage, NEW view,
         Await(c, stage, view), UNCHANGED <<capabilities, session>>,
         calls[c].stage # "idle", stage # "hello",
         stage # "idle" => calls[c].stage # "hello",
         FactsOfFrame([stage |-> stage, view |-> view])
  PROVE  PublicationInv'
<1>1. /\ calls'[c].stage = stage /\ calls'[c].view = view
      /\ \A d \in Calls \ {c} : calls'[d] = calls[d]
  BY AwaitChanges
<1>2. CreatedOnce'
  BY <1>1 DEF PublicationInv, CreatedOnce
<1>3. ASSUME NEW d \in Calls
      PROVE  FactsOfFrame(calls[d])'
  <2>1. CASE d = c
    BY <1>1, <2>1 DEF FactsOfFrame, IfCapable
  <2>2. CASE d # c
    BY <1>1, <2>2 DEF PublicationInv, FactsOfFrame, IfCapable
  <2> QED
    BY <2>1, <2>2
<1>4. PublishedAsOffered'
  BY DEF PublicationInv, PublishedAsOffered, OfferedAt
<1> QED
  BY <1>2, <1>3, <1>4 DEF PublicationInv

LEMMA CommitPublishes ==
  ASSUME TypeOK, PublicationInv, NEW c \in Calls, Commit(c)
  PROVE  PublicationInv'
<1> DEFINE view == calls[c].view
<1>1. /\ calls[c].stage = "facts" /\ Await(c, "idle", Blank)
      /\ session' = [view |-> view, summaries |-> Assemble(view)]
      /\ UNCHANGED capabilities
  BY DEF Commit
<1>2. view \in View /\ view["frame"] \in Frames
  BY CommittedView
<1>3. session' # NoSession
  BY <1>1, <1>2, AssembleSound, SentinelAssumption DEF Snapshot
<1>4. /\ calls'[c].stage = "idle" /\ \A d \in Calls \ {c} : calls'[d] = calls[d]
  BY <1>1, AwaitChanges
<1>5. CreatedOnce'
  BY <1>1, <1>3, <1>4 DEF PublicationInv, CreatedOnce
<1>6. \A d \in Calls : FactsOfFrame(calls[d])'
  BY <1>1, <1>4 DEF PublicationInv, FactsOfFrame, IfCapable
<1>7. PublishedFacts(view) = OfferedAt(view["frame"])
  BY <1>1, <1>2, SentinelAssumption
     DEF PublicationInv, FactsOfFrame, IfCapable, PublishedFacts, OfferedAt
<1>8. ASSUME NEW family \in Families
      PROVE  TakenFrom(OfferedAt(view["frame"]), family, view["frame"], Assemble(view)[family])
  BY <1>2, <1>7, AssembleSound DEF Sound
<1>9. PublishedAsOffered'
  BY <1>1, <1>8 DEF PublishedAsOffered, OfferedAt
<1> QED
  BY <1>5, <1>6, <1>9 DEF PublicationInv

\* Each summary is what the host offers for the frame on show, for any number
\* of overlapping commands, wherever they fail, and for every host: one that
\* publishes facts about other frames, payloads that do not hydrate and
\* payloads about another frame than their envelope's included.
THEOREM PublishedCorrect == Spec => []PublishedAsOffered
<1>1. Init => PublicationInv
  BY DEF Init, Idle, PublicationInv, CreatedOnce, FactsOfFrame, PublishedAsOffered
<1>2. TypeOK /\ PublicationInv /\ [Next]_vars => PublicationInv'
  <2> SUFFICES ASSUME TypeOK, PublicationInv, [Next]_vars
               PROVE  PublicationInv'
    OBVIOUS
  <2>1. ASSUME NEW c \in Calls, Create(c)
        PROVE  PublicationInv'
    <3>1. /\ session = NoSession /\ UNCHANGED session /\ Await(c, "hello", Blank)
          /\ \A d \in Calls : calls[d].stage = "idle"
      BY <2>1 DEF Create
    <3>2. /\ calls'[c].stage = "hello" /\ \A d \in Calls \ {c} : calls'[d] = calls[d]
      BY <3>1, AwaitChanges
    <3>3. \A d \in Calls : calls'[d].stage \in {"idle", "hello"}
      BY <3>1, <3>2
    <3> QED
      BY <3>1, <3>2, <3>3 DEF PublicationInv, CreatedOnce, FactsOfFrame, PublishedAsOffered
  <2>2. ASSUME NEW c \in Calls, NEW target, Navigate(c, target)
        PROVE  PublicationInv'
    <3>1. /\ session # NoSession /\ UNCHANGED <<capabilities, session>>
          /\ Await(c, "move", Blank)
      BY <2>2 DEF Navigate
    <3>2. /\ calls'[c].stage = "move" /\ \A d \in Calls \ {c} : calls'[d] = calls[d]
      BY <3>1, AwaitChanges
    <3>3. CreatedOnce'
      BY <3>1, <3>2 DEF PublicationInv, CreatedOnce
    <3>4. \A d \in Calls : FactsOfFrame(calls[d])'
      BY <3>1, <3>2 DEF PublicationInv, FactsOfFrame, IfCapable
    <3>5. PublishedAsOffered'
      BY <3>1 DEF PublicationInv, PublishedAsOffered, OfferedAt
    <3> QED
      BY <3>3, <3>4, <3>5 DEF PublicationInv
  <2>3. ASSUME NEW c \in Calls, Greet(c)
        PROVE  PublicationInv'
    <3>1. /\ calls[c].stage = "hello" /\ UNCHANGED session
          /\ Await(c, "head", [calls[c].view EXCEPT !["head"] = headIndex])
      BY <2>3 DEF Greet, Read
    <3>2. session = NoSession /\ \A d \in Calls \ {c} : calls[d].stage = "idle"
      BY <3>1 DEF PublicationInv, CreatedOnce
    <3>3. /\ calls'[c].stage = "head" /\ \A d \in Calls \ {c} : calls'[d] = calls[d]
      BY <3>1, AwaitChanges
    <3>4. \A d \in Calls \ {c} : calls'[d].stage = "idle"
      BY <3>2, <3>3
    <3> QED
      BY <3>1, <3>2, <3>3, <3>4 DEF PublicationInv, CreatedOnce, FactsOfFrame, PublishedAsOffered
  <2>4. ASSUME NEW c \in Calls, NEW awaited, NEW part \in Parts \ {"facts"}, NEW index,
               Read(c, awaited, part, index), UNCHANGED capabilities,
               awaited \notin {"idle", "hello"}
        PROVE  PublicationInv'
    BY <2>4, AwaitPublishes DEF Read, FactsOfFrame, Parts
  <2>5. ASSUME NEW c \in Calls,
               ReadHead(c) \/ ReadFrame(c) \/ ReadReceipts(c) \/ ReadEmissions(c)
                 \/ ReadObservations(c)
        PROVE  PublicationInv'
    BY <2>4, <2>5
       DEF ReadHead, ReadFrame, ReadReceipts, ReadEmissions, ReadObservations, Parts
  <2>6. ASSUME NEW c \in Calls, ReadContext(c)
        PROVE  PublicationInv'
    BY <2>6, AwaitPublishes DEF ReadContext, FactsOfFrame
  <2>7. ASSUME NEW c \in Calls, ReadFacts(c)
        PROVE  PublicationInv'
    <3> DEFINE index == IfCapable("READ_SESSION_FAMILY_FACTS", calls[c].view["frame"])
               view  == [calls[c].view EXCEPT !["facts"] = index]
    <3>1. /\ calls[c].stage = "context" /\ Await(c, "facts", view)
          /\ UNCHANGED <<capabilities, session>>
      BY <2>7 DEF ReadFacts, Read
    <3>2. calls[c].view \in View
      BY DEF TypeOK
    <3>3. view["facts"] = index /\ view["frame"] = calls[c].view["frame"]
      BY <3>2 DEF View, Parts
    <3>4. FactsOfFrame([stage |-> "facts", view |-> view])
      BY <3>3 DEF FactsOfFrame
    <3> QED
      BY <3>1, <3>4, AwaitPublishes
  <2>8. ASSUME NEW c \in Calls, Commit(c)
        PROVE  PublicationInv'
    BY <2>8, CommitPublishes
  <2>9. ASSUME NEW c \in Calls, Fail(c)
        PROVE  PublicationInv'
    <3>1. /\ calls[c].stage # "idle" /\ Await(c, "idle", Blank)
          /\ UNCHANGED <<capabilities, session>>
      BY <2>9, HostAssumption DEF Fail, Stages, Parts
    <3> QED
      BY <3>1, AwaitPublishes DEF FactsOfFrame
  <2>10. ASSUME \/ \E id \in ObservationId : Pin(id) \/ Unpin(id)
                \/ UNCHANGED vars
         PROVE  PublicationInv'
    <3>1. UNCHANGED <<calls, capabilities, session>>
      BY <2>10 DEF Pin, Unpin, vars
    <3> QED
      BY <3>1
         DEF PublicationInv, CreatedOnce, FactsOfFrame, IfCapable, PublishedAsOffered, OfferedAt
  <2>11. \A c \in Calls :
           StepForward(c) \/ StepBackward(c) \/ (\E n \in Requests : SeekToFrame(c, n))
             => \E target : Navigate(c, target)
    BY DEF StepForward, StepBackward, SeekToFrame
  <2> QED
    BY <2>1, <2>2, <2>3, <2>5, <2>6, <2>7, <2>8, <2>9, <2>10, <2>11 DEF Next, Progress
<1>3. PublicationInv => PublishedAsOffered
  BY DEF PublicationInv
<1> QED
  BY <1>1, <1>2, <1>3, TypeCorrect, PTL DEF Spec

\* A pin pairs an observation with an emission of the same frame, even when
\* the snapshot mixes the observations of one frame with the emissions of
\* another.
THEOREM PinsCorrect == Spec => []PinsPaired
<1>1. Init => PinsPaired
  BY DEF Init, PinsPaired
<1>2. TypeOK /\ PinsPaired /\ [Next]_vars => PinsPaired'
  <2> SUFFICES ASSUME TypeOK, PinsPaired, [Next]_vars
               PROVE  PinsPaired'
    OBVIOUS
  <2> DEFINE Paired(pin) ==
        /\ pin.observedAt = pin.emittedAt
        /\ [id |-> pin.observation, emission |-> pin.emission]
             \in ObservationsAt[pin.observedAt]
  <2>1. pins \in Seq(PinnedObservation) /\ DOMAIN pins = 1 .. Len(pins)
    BY LenProperties DEF TypeOK
  <2>2. \A k \in 1 .. Len(pins) : Paired(pins[k])
    BY <2>1 DEF PinsPaired
  <2>3. CASE UNCHANGED pins
    BY <2>3 DEF PinsPaired
  <2>4. ASSUME NEW id \in ObservationId, Pin(id)
        PROVE  PinsPaired'
    <3>1. session.view \in View
      BY <2>4 DEF TypeOK, Pin, Snapshot
    <3> DEFINE new(o) == [pinnedAt      |-> session.view["frame"],
                          observation   |-> id,
                          observedAt    |-> session.view["observations"],
                          emission      |-> o.emission,
                          emittedAt     |-> session.view["emissions"]]
    <3>2. PICK o \in Observed :
            o.id = id /\ o.emission \in Emitted /\ pins' = Append(pins, new(o))
      BY <2>4 DEF Pin
    <3>3. /\ session.view["observations"] \in Frames
          /\ session.view["emissions"] \in Frames
          /\ o \in ObservationsAt[session.view["observations"]]
          /\ o.emission \in EmissionsAt[session.view["emissions"]]
      BY <3>1, <3>2 DEF Observed, Emitted, View, Parts
    <3>4. session.view["observations"] = session.view["emissions"]
      BY <3>3, IdentityAssumption
    <3>5. o = [id |-> id, emission |-> o.emission]
      BY <3>2, <3>3, HostAssumption DEF Observation
    <3>6. Paired(new(o))
      BY <3>3, <3>4, <3>5
    <3>7. pins' \in Seq(PinnedObservation)
      BY <2>4, PinTyped
    <3>8. /\ Len(pins') = Len(pins) + 1
          /\ pins'[Len(pins) + 1] = new(o)
          /\ \A k \in 1 .. Len(pins) : pins'[k] = pins[k]
          /\ DOMAIN pins' = 1 .. Len(pins')
      BY <2>1, <3>2, <3>7, LenProperties
    <3> HIDE DEF new, Paired
    <3>9. \A k \in DOMAIN pins' : Paired(pins'[k])
      BY <2>1, <2>2, <3>6, <3>8
    <3> QED
      BY <3>9 DEF PinsPaired, Paired
  <2>5. ASSUME NEW id \in ObservationId, Unpin(id)
        PROVE  PinsPaired'
    <3>1. PICK i \in 1 .. Len(pins) : pins' = RemoveAt(pins, i)
      BY <2>5, UnpinRemoves
    <3>2. /\ pins' \in Seq(PinnedObservation)
          /\ Len(pins') = Len(pins) - 1
          /\ \A k \in 1 .. Len(pins) - 1 :
               pins'[k] = IF k < i THEN pins[k] ELSE pins[k + 1]
      BY <2>1, <3>1, RemoveAtProperties
    <3>3. DOMAIN pins' = 1 .. Len(pins) - 1
      BY <3>2, LenProperties
    <3>4. ASSUME NEW k \in DOMAIN pins'
          PROVE  \E j \in 1 .. Len(pins) : pins'[k] = pins[j]
      BY <2>1, <3>2, <3>3
    <3> HIDE DEF Paired
    <3>5. \A k \in DOMAIN pins' : Paired(pins'[k])
      BY <2>2, <3>4
    <3> QED
      BY <3>5 DEF PinsPaired, Paired
  <2> QED
    BY <2>3, <2>4, <2>5, PinSteps
<1> QED
  BY <1>1, <1>2, TypeCorrect, PTL DEF Spec

----------------------------------------------------------------------------
(* A caller that awaits each command before the next *)

OneCommandAtATime == \A c, d \in Calls : c = d

\* Nobody moves the head under a command: all it has read is about the frame
\* the head is on.
CallsCurrent ==
  \A c \in Calls : \A part \in Parts :
    calls[c].stage # "idle" => calls[c].view[part] \in {headIndex, Absent}

\* If everything that was read is about one frame, so is every summary: the
\* host's payloads are about the frames they are published for.
LEMMA AssembleCoherent ==
  ASSUME FaithfulPayloads,
         NEW view \in View, NEW f \in Frames, view["frame"] = f,
         \A part \in Parts : view[part] \in {f, Absent}
  PROVE  Coherent([view |-> view, summaries |-> Assemble(view)])
<1> DEFINE core == Materialize("neighborhoodCore", view,
                               Sources(view, {"frame", "receipts", "emissions"}))
<1>1. \A parts \in SUBSET Parts : Sources(view, parts) \subseteq {f}
  BY DEF Sources
<1>2. \A parts \in SUBSET Parts : "frame" \in parts => Sources(view, parts) = {f}
  BY <1>1, SentinelAssumption DEF Sources
<1>3. \A family \in Families :
        Materialize(family, view, {f}).basis = {f}
  BY MaterializeProperties
<1>4. core.basis = {f}
  <2>1. Sources(view, {"frame", "receipts", "emissions"}) = {f}
    BY <1>2 DEF Parts
  <2> QED
    BY <1>3, <2>1 DEF Families
<1> HIDE DEF core
<1>5. /\ core.basis \cup Sources(view, {"frame", "receipts"}) = {f}
      /\ core.basis \cup Sources(view, {"receipts"}) = {f}
  BY <1>1, <1>4 DEF Parts
<1>6. ASSUME NEW family \in Families
      PROVE  Assemble(view)[family].basis = {f}
  <2>1. Assemble(view)[family] =
          CASE family = "neighborhoodCore" -> core
            [] family = "reintegrationDetail" ->
                 Materialize(family, view,
                             core.basis \cup Sources(view, {"frame", "receipts"}))
            [] family = "receiptShell" ->
                 Materialize(family, view,
                             core.basis \cup Sources(view, {"receipts"}))
    BY DEF Assemble, core
  <2>2. Assemble(view)[family] =
          CASE family = "neighborhoodCore" -> core
            [] family = "reintegrationDetail" -> Materialize(family, view, {f})
            [] family = "receiptShell" -> Materialize(family, view, {f})
    BY <2>1, <1>5
  <2>3. CASE family = "neighborhoodCore"
    BY <2>2, <2>3, <1>4
  <2>4. CASE family = "reintegrationDetail"
    BY <2>2, <2>4, <1>3
  <2>5. CASE family = "receiptShell"
    BY <2>2, <2>5, <1>3
  <2> QED
    BY <2>3, <2>4, <2>5 DEF Families
<1> QED
  BY <1>6 DEF Coherent

LEMMA SerialInvariant ==
  ASSUME OneCommandAtATime, FaithfulPayloads
  PROVE  Spec => [](CallsCurrent /\ SnapshotCoherent)
<1> DEFINE IInv == CallsCurrent /\ SnapshotCoherent
<1>1. Init => IInv
  BY DEF Init, Idle, Blank, CallsCurrent, SnapshotCoherent
<1>2. TypeOK /\ IInv /\ [Next]_vars => IInv'
  <2> SUFFICES ASSUME TypeOK, IInv, [Next]_vars
               PROVE  IInv'
    OBVIOUS
  <2>1. calls \in [Calls -> [stage : Stages \cup {"idle"}, view : View]]
    BY DEF TypeOK
  <2>2. ASSUME NEW c \in Calls, NEW stage, Await(c, stage, Blank)
        PROVE  CallsCurrent'
    <3>1. calls'[c].view = Blank
      BY <2>1, <2>2 DEF Await
    <3> QED
      BY <3>1, OneCommandAtATime DEF CallsCurrent, Blank, OneCommandAtATime
  <2>3. ASSUME NEW c \in Calls, NEW awaited \in Stages, NEW part \in Parts,
               NEW index \in {headIndex, Absent},
               Read(c, awaited, part, index)
        PROVE  IInv'
    <3> DEFINE view == [calls[c].view EXCEPT ![part] = index]
    <3>1. calls'[c].view = view
      BY <2>1, <2>3 DEF Read, Await
    <3>2. calls[c].view \in View
      BY <2>1
    <3>3. \A p \in Parts : calls[c].view[p] \in {headIndex, Absent}
      <4>1. calls[c].stage # "idle"
        BY <2>3 DEF Read, Stages, Parts
      <4> QED
        BY <4>1 DEF CallsCurrent
    <3>4. \A p \in Parts : view[p] \in {headIndex, Absent}
      BY <3>2, <3>3 DEF View
    <3>5. CallsCurrent'
      BY <3>1, <3>4, <2>3, OneCommandAtATime DEF CallsCurrent, OneCommandAtATime, Read
    <3> QED
      BY <2>3, <3>5 DEF Read, SnapshotCoherent
  <2>4. ASSUME NEW c \in Calls, Create(c) \/ Fail(c)
        PROVE  IInv'
    BY <2>2, <2>4 DEF Create, Fail, SnapshotCoherent
  <2>5. ASSUME NEW c \in Calls, NEW target, Navigate(c, target)
        PROVE  IInv'
    BY <2>2, <2>5 DEF Navigate, SnapshotCoherent
  <2>6. ASSUME NEW c \in Calls, Greet(c) \/ ReadHead(c) \/ ReadFrame(c)
        PROVE  IInv'
    BY <2>3, <2>6 DEF Greet, ReadHead, ReadFrame, Stages, Parts
  <2>7. ASSUME NEW c \in Calls, ReadReceipts(c) \/ ReadEmissions(c) \/ ReadObservations(c)
        PROVE  IInv'
    BY <2>3, <2>7
       DEF ReadReceipts, ReadEmissions, ReadObservations, IfCapable, Stages, Parts
  <2>8. ASSUME NEW c \in Calls, ReadContext(c)
        PROVE  IInv'
    <3>1. calls[c].stage # "idle" /\ calls'[c].view = calls[c].view
      BY <2>1, <2>8 DEF ReadContext, Await
    <3>2. CallsCurrent'
      BY <3>1, <2>8, OneCommandAtATime DEF CallsCurrent, OneCommandAtATime, ReadContext
    <3> QED
      BY <2>8, <3>2 DEF ReadContext, SnapshotCoherent
  <2>9. ASSUME NEW c \in Calls, ReadFacts(c)
        PROVE  IInv'
    <3>1. calls[c].stage # "idle"
      BY <2>9 DEF ReadFacts, Read
    <3>2. calls[c].view["frame"] \in {headIndex, Absent}
      BY <3>1 DEF CallsCurrent, Parts
    <3> QED
      BY <2>3, <2>9, <3>2 DEF ReadFacts, IfCapable, Stages, Parts
  <2>10. ASSUME NEW c \in Calls, Commit(c)
         PROVE  IInv'
    <3> DEFINE view == calls[c].view
    <3>1. view \in View /\ view["frame"] \in Frames
      BY <2>10, CommittedView
    <3>2. \A part \in Parts : view[part] \in {headIndex, Absent}
      BY <2>10 DEF Commit, CallsCurrent
    <3>3. view["frame"] = headIndex
      BY <3>1, <3>2, SentinelAssumption DEF Parts
    <3>4. Coherent([view |-> view, summaries |-> Assemble(view)])
      BY <3>1, <3>2, <3>3, AssembleCoherent
    <3>5. session' = [view |-> view, summaries |-> Assemble(view)]
      BY <2>10 DEF Commit
    <3>6. Coherent(session')
      BY <3>4, <3>5
    <3>7. SnapshotCoherent'
      BY <3>6 DEF SnapshotCoherent, Coherent
    <3>8. CallsCurrent'
      BY <2>2, <2>10 DEF Commit
    <3> QED
      BY <3>7, <3>8
  <2>11. ASSUME NEW id \in ObservationId, Pin(id) \/ Unpin(id)
         PROVE  IInv'
    BY <2>11 DEF Pin, Unpin, CallsCurrent, SnapshotCoherent
  <2>12. CASE UNCHANGED vars
    BY <2>12 DEF vars, CallsCurrent, SnapshotCoherent
  <2>13. \A c \in Calls :
           StepForward(c) \/ StepBackward(c) \/ (\E n \in Requests : SeekToFrame(c, n))
             => \E target : Navigate(c, target)
    BY DEF StepForward, StepBackward, SeekToFrame
  <2> QED
    BY <2>4, <2>5, <2>6, <2>7, <2>8, <2>9, <2>10, <2>11, <2>12, <2>13 DEF Next, Progress
<1> QED
  BY <1>1, <1>2, TypeCorrect, PTL DEF Spec

\* A caller that awaits its commands only ever sees whole frames, of a host
\* whose payloads are about the frames they are published for.
THEOREM SerialCoherent ==
  ASSUME OneCommandAtATime, FaithfulPayloads
  PROVE  Spec => []SnapshotCoherent
BY SerialInvariant, PTL

----------------------------------------------------------------------------
(* The contract *)

\* What the contract sees of a pin.
Seen(pin) == [frame |-> pin.pinnedAt, observation |-> pin.observation]

SeenPins(held) == [k \in DOMAIN held |-> Seen(held[k])]

SeenPin == [frame : Frames, observation : ObservationId]

LEMMA SeenPinsAre ==
  ASSUME NEW held \in Seq(PinnedObservation)
  PROVE  /\ SeenPins(held) \in Seq(SeenPin)
         /\ Len(SeenPins(held)) = Len(held) /\ Len(held) \in Nat
         /\ DOMAIN SeenPins(held) = 1 .. Len(held) /\ DOMAIN held = 1 .. Len(held)
         /\ \A k \in 1 .. Len(held) : SeenPins(held)[k] = Seen(held[k])
<1>1. DOMAIN held = 1 .. Len(held) /\ Len(held) \in Nat
  BY LenProperties
<1>2. \A k \in 1 .. Len(held) : Seen(held[k]) \in SeenPin
  <2>1. \A k \in 1 .. Len(held) : held[k] \in PinnedObservation
    BY <1>1, ElementOfSeq
  <2> QED BY <2>1 DEF PinnedObservation, Seen, SeenPin
<1>3. SeenPins(held) \in [1 .. Len(held) -> SeenPin]
  BY <1>1, <1>2 DEF SeenPins
<1>4. SeenPins(held) \in Seq(SeenPin)
  BY <1>1, <1>3, SeqDef
<1>5. Len(SeenPins(held)) = Len(held)
  BY <1>1, <1>3, <1>4, LenProperties
<1> QED BY <1>1, <1>3, <1>4, <1>5 DEF SeenPins

LEMMA ShownIs ==
  ASSUME SnapshotCoherent
  PROVE  Shown = IF session = NoSession THEN NoSession ELSE session.view["frame"]
BY DEF Shown, SnapshotCoherent

\* Pinning is pinning what is on show.
LEMMA PinRefines ==
  ASSUME TypeOK, SnapshotCoherent, NEW id \in ObservationId, Pin(id)
  PROVE  Contract!PinShown(id)
<1>1. PICK o \in Observed :
        /\ o.id = id
        /\ o.emission \in Emitted
        /\ pins' = Append(pins, [pinnedAt      |-> session.view["frame"],
                                 observation   |-> id,
                                 observedAt    |-> session.view["observations"],
                                 emission      |-> o.emission,
                                 emittedAt     |-> session.view["emissions"]])
  BY DEF Pin
<1>2. /\ session # NoSession /\ Len(pins) < MaxPins
      /\ UNCHANGED <<headIndex, session>>
  BY DEF Pin
<1>3. Shown = session.view["frame"] /\ Shown \in Frames /\ Shown' = Shown
  BY <1>2, ShownIs DEF TypeOK, Shown
<1>4. session.view \in View /\ Coherent(session)
  BY <1>2 DEF TypeOK, Snapshot, SnapshotCoherent
<1>5. session.view["observations"] = Shown /\ session.view["emissions"] = Shown
  BY <1>1, <1>3, <1>4 DEF Observed, Emitted, Coherent, Parts
<1>6. o \in ObservationsAt[Shown] /\ o.emission \in EmissionsAt[Shown]
  BY <1>1, <1>3, <1>5, SentinelAssumption DEF Observed, Emitted
<1>7. id \in {d.id : d \in {p \in ObservationsAt[Shown] : p.emission \in EmissionsAt[Shown]}}
  BY <1>1, <1>6
<1> DEFINE pin == [pinnedAt      |-> session.view["frame"],
                   observation   |-> id,
                   observedAt    |-> session.view["observations"],
                   emission      |-> o.emission,
                   emittedAt     |-> session.view["emissions"]]
<1>8. pins \in Seq(PinnedObservation) /\ pins' \in Seq(PinnedObservation)
  BY PinTyped DEF TypeOK
<1>9. pins' = Append(pins, pin) /\ Seen(pin) = [frame |-> Shown, observation |-> id]
  BY <1>1, <1>3 DEF Seen
<1> HIDE DEF pin
<1>10. SeenPins(pins') = Append(SeenPins(pins), Seen(pin))
  <2>1. /\ Len(pins') = Len(pins) + 1 /\ pins'[Len(pins) + 1] = pin
        /\ \A k \in 1 .. Len(pins) : pins'[k] = pins[k]
    BY <1>8, <1>9, LenProperties
  <2>2. /\ SeenPins(pins') \in Seq(SeenPin) /\ Len(SeenPins(pins')) = Len(pins) + 1
        /\ \A k \in 1 .. Len(pins) + 1 : SeenPins(pins')[k] = Seen(pins'[k])
    BY <1>8, <2>1, SeenPinsAre
  <2>3. /\ SeenPins(pins) \in Seq(SeenPin) /\ Len(SeenPins(pins)) = Len(pins) /\ Len(pins) \in Nat
        /\ \A k \in 1 .. Len(pins) : SeenPins(pins)[k] = Seen(pins[k])
    BY <1>8, SeenPinsAre
  <2>4. Seen(pin) \in SeenPin
    BY <1>3, <1>9 DEF SeenPin
  <2>5. /\ Append(SeenPins(pins), Seen(pin)) \in Seq(SeenPin)
        /\ Len(Append(SeenPins(pins), Seen(pin))) = Len(pins) + 1
        /\ \A k \in 1 .. Len(pins) :
             Append(SeenPins(pins), Seen(pin))[k] = SeenPins(pins)[k]
        /\ Append(SeenPins(pins), Seen(pin))[Len(pins) + 1] = Seen(pin)
    BY <2>3, <2>4, AppendProperties
  <2>6. ASSUME NEW k \in 1 .. Len(pins) + 1
        PROVE  SeenPins(pins')[k] = Append(SeenPins(pins), Seen(pin))[k]
    <3>1. CASE k \in 1 .. Len(pins)
      BY <2>1, <2>2, <2>3, <2>5, <3>1
    <3>2. CASE k = Len(pins) + 1
      BY <2>1, <2>2, <2>5, <3>2
    <3> QED BY <2>3, <3>1, <3>2
  <2> QED BY <2>2, <2>5, <2>6, SeqEqual
<1>11. Len(SeenPins(pins)) < MaxPins
  BY <1>2, <1>8, SeenPinsAre
<1> QED
  BY <1>2, <1>3, <1>7, <1>9, <1>10, <1>11, SentinelAssumption
     DEF Contract!PinShown, SeenPins, Seen

LEMMA SeenPinsRemoved ==
  ASSUME NEW held \in Seq(PinnedObservation), NEW i \in 1 .. Len(held)
  PROVE  SeenPins(RemoveAt(held, i)) = RemoveAt(SeenPins(held), i)
<1> DEFINE rest == RemoveAt(held, i)
           seen == SeenPins(held)
<1>1. /\ rest \in Seq(PinnedObservation) /\ Len(rest) = Len(held) - 1
      /\ \A k \in 1 .. Len(held) - 1 : rest[k] = IF k < i THEN held[k] ELSE held[k + 1]
  BY RemoveAtProperties
<1>2. /\ seen \in Seq(SeenPin) /\ Len(seen) = Len(held) /\ Len(held) \in Nat
      /\ \A k \in 1 .. Len(held) : seen[k] = Seen(held[k])
  BY SeenPinsAre
<1> HIDE DEF rest, seen
<1>3. /\ RemoveAt(seen, i) \in Seq(SeenPin) /\ Len(RemoveAt(seen, i)) = Len(held) - 1
      /\ \A k \in 1 .. Len(held) - 1 :
           RemoveAt(seen, i)[k] = IF k < i THEN seen[k] ELSE seen[k + 1]
  BY <1>2, RemoveAtProperties
<1>4. /\ SeenPins(rest) \in Seq(SeenPin) /\ Len(SeenPins(rest)) = Len(held) - 1
      /\ \A k \in 1 .. Len(held) - 1 : SeenPins(rest)[k] = Seen(rest[k])
  BY <1>1, SeenPinsAre
<1>5. ASSUME NEW k \in 1 .. Len(held) - 1
      PROVE  SeenPins(rest)[k] = RemoveAt(seen, i)[k]
  <2>1. k \in 1 .. Len(held) /\ k + 1 \in 1 .. Len(held)
    BY <1>2
  <2> QED BY <1>1, <1>2, <1>3, <1>4, <2>1
<1>6. SeenPins(rest) = RemoveAt(seen, i)
  BY <1>3, <1>4, <1>5, SeqEqual
<1> QED BY <1>6 DEF rest, seen

\* Unpinning releases the oldest pin of the same observation.
LEMMA UnpinRefines ==
  ASSUME TypeOK, NEW id \in ObservationId, Unpin(id)
  PROVE  Contract!Release(id)
<1> DEFINE seen == SeenPins(pins)
           hits == {i \in 1 .. Len(pins) : pins[i].observation = id}
           same == {i \in 1 .. Len(seen) : seen[i].observation = id}
<1>1. pins \in Seq(PinnedObservation) /\ DOMAIN pins = 1 .. Len(pins)
  BY LenProperties DEF TypeOK
<1>2. /\ Len(seen) = Len(pins) /\ DOMAIN seen = 1 .. Len(pins)
      /\ \A k \in 1 .. Len(pins) : seen[k] = Seen(pins[k])
  BY <1>1, SeenPinsAre
<1>3. hits # {} /\ hits \in SUBSET Nat
  BY <1>1 DEF Unpin
<1> HIDE DEF seen
<1>4. same = hits
  BY <1>2 DEF Seen
<1>5. Min(hits) \in 1 .. Len(pins)
  BY <1>3, MinIsLeast
<1>6. pins' = RemoveAt(pins, Min(hits))
  BY <1>3 DEF Unpin, RemoveFirstMatch, SelectInSeq
<1> HIDE DEF hits
<1>7. SeenPins(pins') = RemoveAt(seen, Min(hits))
  BY <1>1, <1>5, <1>6, SeenPinsRemoved DEF seen
<1>8. SeenPins(pins') =
        Contract!RemoveFirstMatch(seen, LAMBDA pin : pin.observation = id)
  <2>1. \E i \in 1 .. Len(seen) : seen[i].observation = id
    BY <1>3, <1>4
  <2>2. Contract!SelectInSeq(seen, LAMBDA pin : pin.observation = id) = Min(same)
    BY <2>1 DEF Contract!SelectInSeq, Contract!Min, Min
  <2> QED
    BY <1>4, <1>7, <2>1, <2>2 DEF Contract!RemoveFirstMatch, Contract!RemoveAt, RemoveAt
<1>9. \E k \in DOMAIN seen : seen[k].observation = id
  BY <1>2, <1>3, <1>4
<1>10. UNCHANGED <<headIndex, Shown>>
  BY DEF Unpin, Shown
<1> QED
  BY <1>8, <1>9, <1>10 DEF Contract!Release, seen, SeenPins, Seen

\* Moving the head is a move of the contract, whatever becomes of the command.
LEMMA NavigateRefines ==
  ASSUME TypeOK, SnapshotCoherent, NEW c \in Calls,
         NEW target \in {Forward(headIndex), Backward(headIndex)} \cup {Clamp(n) : n \in Requests},
         Navigate(c, target)
  PROVE  Contract!Move
<1>1. /\ session # NoSession /\ headIndex' = target /\ UNCHANGED <<session, pins>>
  BY DEF Navigate
<1>2. Shown # NoSession
  BY <1>1, ShownIs, SentinelAssumption DEF TypeOK
<1>3. UNCHANGED Shown
  BY <1>1 DEF Shown
<1> QED
  BY <1>1, <1>2, <1>3
     DEF Contract!Move, Contract!Forward, Contract!Backward, Contract!Clamp, Contract!Lesser,
         Contract!Greater, Forward, Backward, Clamp, Lesser, Greater

\* What is committed is the frame the head is on, so committing shows it.
LEMMA CommitRefines ==
  ASSUME TypeOK, CallsCurrent, SnapshotCoherent, SnapshotCoherent', NEW c \in Calls, Commit(c)
  PROVE  Contract!Show \/ UNCHANGED <<headIndex, Shown, pins>>
<1>1. calls[c].view \in View /\ calls[c].view["frame"] \in Frames
  BY CommittedView
<1>2. calls[c].view["frame"] = headIndex
  BY <1>1, SentinelAssumption DEF Commit, CallsCurrent, Parts
<1>3. session'.view = calls[c].view /\ session' # NoSession /\ UNCHANGED <<headIndex, pins>>
  <2>1. session' = [view |-> calls[c].view, summaries |-> Assemble(calls[c].view)]
    BY DEF Commit
  <2>2. session' \in Snapshot
    BY <1>1, <2>1, AssembleSound DEF Snapshot
  <2> QED BY <2>1, <2>2, SentinelAssumption DEF Commit
<1>4. Shown' = headIndex
  <2>1. Coherent(session)'
    BY <1>3 DEF SnapshotCoherent
  <2> QED BY <1>2, <1>3, <2>1 DEF Shown
<1> QED BY <1>3, <1>4 DEF Contract!Show

LEMMA StepRefines ==
  ASSUME TypeOK, CallsCurrent, SnapshotCoherent, SnapshotCoherent', [Next]_vars
  PROVE  [Contract!ContractNext]_(Contract!contractVars)
<1> DEFINE Stutters == UNCHANGED <<headIndex, Shown, pins>>
<1>0. Stutters => UNCHANGED Contract!contractVars
  BY DEF Contract!contractVars
<1>1. ASSUME NEW c \in Calls, Create(c) \/ Greet(c) \/ ReadHead(c) \/ ReadFrame(c)
        \/ ReadReceipts(c) \/ ReadEmissions(c) \/ ReadObservations(c) \/ ReadContext(c)
        \/ ReadFacts(c) \/ Fail(c)
      PROVE  Stutters
  <2>1. UNCHANGED <<headIndex, session, pins>>
    BY <1>1 DEF Create, Greet, ReadHead, ReadFrame, ReadReceipts, ReadEmissions,
                ReadObservations, ReadContext, ReadFacts, Read, Fail
  <2> QED BY <2>1 DEF Shown
<1>2. ASSUME NEW c \in Calls, StepForward(c) \/ StepBackward(c)
      PROVE  Contract!ContractNext
  BY <1>2, NavigateRefines DEF StepForward, StepBackward, Contract!ContractNext
<1>3. ASSUME NEW c \in Calls, NEW n \in Requests, SeekToFrame(c, n)
      PROVE  Contract!ContractNext
  BY <1>3, NavigateRefines DEF SeekToFrame, Contract!ContractNext
<1>4. ASSUME NEW c \in Calls, Commit(c)
      PROVE  Contract!ContractNext \/ Stutters
  BY <1>4, CommitRefines DEF Contract!ContractNext
<1>5. ASSUME NEW id \in ObservationId, Pin(id) \/ Unpin(id)
      PROVE  Contract!ContractNext
  BY <1>5, PinRefines, UnpinRefines DEF Contract!ContractNext
<1>6. UNCHANGED vars => Stutters
  BY DEF vars, Shown
<1> HIDE DEF Stutters
<1> QED
  BY <1>0, <1>1, <1>2, <1>3, <1>4, <1>5, <1>6 DEF Next, Progress

\* A caller that awaits its commands has what the contract promises: the
\* session shows whole frames, each the one the host was on, and a pin is of
\* the frame on show, if the host's payloads are about the frames they are
\* published for (DebuggerSession.snapshot, pin, unpin).
THEOREM SerialImplementsContract ==
  ASSUME OneCommandAtATime, FaithfulPayloads
  PROVE  Spec => ImplementsContract
<1>1. Init => Contract!ContractInit
  <2> SUFFICES ASSUME Init PROVE Contract!ContractInit
    OBVIOUS
  <2>1. /\ headIndex \in Frames /\ session = NoSession /\ pins = <<>>
    BY DEF Init
  <2>2. Shown = NoSession
    BY <2>1 DEF Shown
  <2>3. SeenPins(pins) = <<>>
    <3>1. pins \in Seq(PinnedObservation) /\ Len(pins) = 0
      BY <2>1, EmptySeq
    <3>2. SeenPins(pins) \in Seq(SeenPin) /\ Len(SeenPins(pins)) = 0
      BY <3>1, SeenPinsAre
    <3> QED BY <3>2, EmptySeq
  <2> QED BY <2>1, <2>2, <2>3 DEF Contract!ContractInit, Contract!Frames, Frames, SeenPins, Seen
<1>2. TypeOK /\ CallsCurrent /\ SnapshotCoherent /\ SnapshotCoherent' /\ [Next]_vars
        => [Contract!ContractNext]_(Contract!contractVars)
  BY StepRefines
<1>3. Spec => [](CallsCurrent /\ SnapshotCoherent)
  BY SerialInvariant
<1> QED
  BY <1>1, <1>2, <1>3, TypeCorrect, PTL DEF Spec, ImplementsContract, Contract!ContractSpec

----------------------------------------------------------------------------
(* Overlapping commands on a host that is slow in its emissions only *)

\* The host that awaits in effectEmissions and nowhere else (GitWarpAdapter)
\* declares no delivery observations: they would be read after the wait.
SlowHostsObserveNothing ==
  \A h \in HostCapabilities :
    Suspending[h] = {"emissions"} => "READ_DELIVERY_OBSERVATIONS" \notin h

SlowInEmissions ==
  capabilities \in HostCapabilities /\ Suspending[capabilities] \subseteq {"emissions"}

\* Whoever reads a part, or has read them all, knows what the host can do.
Greeted ==
  session # NoSession \/ (\E c \in Calls : calls[c].stage \notin {"idle", "hello"})
    => capabilities \in HostCapabilities

\* What a command has read.  Up to the emissions it is still in the turn of the
\* event loop it began to read in, and the head has not moved; after them its
\* parts agree, and if the emissions were not awaited the head is there still.
ReadsTogether(call) ==
  /\ call.stage \in {"idle", "hello", "move"} => call.view = Blank
  /\ call.stage \in {"head", "frame", "receipts"} =>
       \A part \in Parts : call.view[part] \in {headIndex, Absent}
  /\ call.stage \in {"emissions", "observations", "context", "facts"} =>
       \A part \in Parts : call.view[part] \in {call.view["frame"], Absent}
  /\ call.stage = "emissions" /\ "emissions" \notin Suspending[capabilities] =>
       call.view["frame"] = headIndex

\* The inductive invariant behind SlowEmissionsCoherent.
OverlapInv ==
  /\ CreatedOnce
  /\ Greeted
  /\ \A c \in Calls : calls[c].stage \in {"idle", "hello", "move"} => calls[c].view = Blank
  /\ SlowInEmissions => \A c \in Calls : ReadsTogether(calls[c])
  /\ SlowEmissionsCoherent

\* A command that goes on, or gives up, leaves the other commands as they are.
LEMMA AwaitOverlaps ==
  ASSUME TypeOK, OverlapInv, NEW c \in Calls, NEW stage, NEW view,
         Await(c, stage, view), UNCHANGED <<headIndex, capabilities, session>>,
         calls[c].stage # "idle", stage # "hello",
         stage # "idle" => calls[c].stage # "hello",
         stage \in {"idle", "move"} => view = Blank,
         SlowInEmissions => ReadsTogether([stage |-> stage, view |-> view])
  PROVE  OverlapInv'
<1>1. \A d \in Calls \ {c} : calls'[d] = calls[d]
  BY AwaitChanges
<1>2. calls'[c].stage = stage /\ calls'[c].view = view
  BY AwaitChanges
<1>3. CreatedOnce'
  BY <1>1, <1>2 DEF OverlapInv, CreatedOnce
<1>4. Greeted'
  BY <1>1, <1>2 DEF OverlapInv, Greeted
<1>5. \A d \in Calls : calls'[d].stage \in {"idle", "hello", "move"} => calls'[d].view = Blank
  BY <1>1, <1>2 DEF OverlapInv
<1>6. (SlowInEmissions => \A d \in Calls : ReadsTogether(calls[d]))'
  <2>1. ASSUME SlowInEmissions, NEW d \in Calls
        PROVE  ReadsTogether(calls[d])'
    <3>1. CASE d = c
      BY <1>2, <2>1, <3>1 DEF ReadsTogether
    <3>2. CASE d # c
      BY <1>1, <2>1, <3>2 DEF OverlapInv, ReadsTogether
    <3> QED
      BY <3>1, <3>2
  <2> QED
    BY <2>1 DEF SlowInEmissions
<1>7. SlowEmissionsCoherent'
  BY DEF OverlapInv, SlowEmissionsCoherent
<1> QED
  BY <1>3, <1>4, <1>5, <1>6, <1>7 DEF OverlapInv

\* A read that follows an answered one in the same turn stores the frame the
\* head is on, or Absent.
LEMMA ReadOverlaps ==
  ASSUME TypeOK, OverlapInv, NEW c \in Calls, NEW awaited, NEW part \in Parts, NEW index,
         Read(c, awaited, part, index), UNCHANGED capabilities,
         awaited \notin {"idle", "hello"},
         SlowInEmissions => ReadsTogether([stage |-> part,
                                           view  |-> [calls[c].view EXCEPT ![part] = index]])
  PROVE  OverlapInv'
BY AwaitOverlaps DEF Read, Parts

LEMMA OverlapStep ==
  ASSUME SlowHostsObserveNothing, FaithfulPayloads, TypeOK, OverlapInv, [Next]_vars
  PROVE  OverlapInv'
<1>1. /\ calls \in [Calls -> [stage : Stages \cup {"idle"}, view : View]]
      /\ \A c \in Calls : calls[c].view \in View /\ DOMAIN calls[c].view = Parts
  BY DEF TypeOK, View
<1>2. /\ CreatedOnce /\ Greeted /\ SlowEmissionsCoherent
      /\ \A c \in Calls : calls[c].stage \in {"idle", "hello", "move"} => calls[c].view = Blank
      /\ SlowInEmissions => \A c \in Calls : ReadsTogether(calls[c])
  BY DEF OverlapInv
<1>3. \A h \in HostCapabilities : Suspending[h] \subseteq {"emissions"} =>
        Suspending[h] = {} \/ "READ_DELIVERY_OBSERVATIONS" \notin h
  BY DEF SlowHostsObserveNothing
<1>4. ASSUME NEW c \in Calls, Create(c)
      PROVE  OverlapInv'
  <2>1. /\ session = NoSession /\ \A d \in Calls : calls[d].stage = "idle"
        /\ UNCHANGED <<headIndex, capabilities, session>>
        /\ Await(c, "hello", Blank)
    BY <1>4 DEF Create
  <2>2. /\ calls'[c].stage = "hello" /\ calls'[c].view = Blank
        /\ \A d \in Calls \ {c} : calls'[d] = calls[d]
    BY <2>1, AwaitChanges
  <2>3. CreatedOnce' /\ Greeted'
    BY <2>1, <2>2 DEF CreatedOnce, Greeted
  <2>4. \A d \in Calls : calls'[d].stage \in {"idle", "hello"} /\ calls'[d].view = Blank
    BY <1>2, <2>1, <2>2
  <2>5. \A d \in Calls : ReadsTogether(calls[d])'
    BY <2>4 DEF ReadsTogether
  <2> QED
    BY <2>1, <2>3, <2>4, <2>5 DEF OverlapInv, SlowEmissionsCoherent
<1>5. ASSUME NEW c \in Calls, NEW target, Navigate(c, target)
      PROVE  OverlapInv'
  <2>1. /\ session # NoSession /\ calls[c].stage = "idle" /\ Overtakable
        /\ UNCHANGED <<capabilities, session>>
        /\ Await(c, "move", Blank)
    BY <1>5 DEF Navigate
  <2>2. /\ calls'[c].stage = "move" /\ calls'[c].view = Blank
        /\ \A d \in Calls \ {c} : calls'[d] = calls[d]
    BY <2>1, AwaitChanges
  <2>3. CreatedOnce' /\ Greeted'
    BY <1>2, <2>1, <2>2 DEF CreatedOnce, Greeted
  <2>4. \A d \in Calls : calls'[d].stage \in {"idle", "hello", "move"} => calls'[d].view = Blank
    BY <1>2, <2>2
  <2>5. ASSUME SlowInEmissions, NEW d \in Calls
        PROVE  ReadsTogether(calls[d])'
    <3>1. CASE d = c
      BY <2>2, <3>1 DEF ReadsTogether
    <3>2. CASE d # c
      <4>1. calls[d].stage \in {"idle", "move"} \cup Suspending[capabilities]
        BY <2>1 DEF Overtakable
      <4>2. \/ calls[d].stage \in {"idle", "move"}
            \/ calls[d].stage = "emissions" /\ "emissions" \in Suspending[capabilities]
        BY <2>5, <4>1 DEF SlowInEmissions
      <4> QED
        BY <1>2, <2>1, <2>2, <2>5, <3>2, <4>2 DEF ReadsTogether
    <3> QED
      BY <3>1, <3>2
  <2>6. SlowInEmissions' <=> SlowInEmissions
    BY <2>1 DEF SlowInEmissions
  <2>7. SlowEmissionsCoherent'
    BY <1>2, <2>1 DEF SlowEmissionsCoherent
  <2> QED
    BY <2>3, <2>4, <2>5, <2>6, <2>7 DEF OverlapInv
<1>6. ASSUME NEW c \in Calls, Greet(c)
      PROVE  OverlapInv'
  <2> DEFINE view == [calls[c].view EXCEPT !["head"] = headIndex]
  <2>1. /\ calls[c].stage = "hello" /\ capabilities' \in HostCapabilities
        /\ UNCHANGED <<headIndex, session>>
        /\ Await(c, "head", view)
    BY <1>6 DEF Greet, Read
  <2>2. /\ calls'[c].stage = "head" /\ calls'[c].view = view
        /\ \A d \in Calls \ {c} : calls'[d] = calls[d]
    BY <2>1, AwaitChanges
  <2>3. session = NoSession /\ \A d \in Calls \ {c} : calls[d].stage = "idle"
    BY <1>2, <2>1 DEF CreatedOnce
  <2>4. CreatedOnce' /\ Greeted'
    BY <2>1, <2>2, <2>3 DEF CreatedOnce, Greeted
  <2>5. \A d \in Calls : calls'[d].stage \in {"idle", "hello", "move"} => calls'[d].view = Blank
    BY <1>2, <2>2
  <2>6. \A part \in Parts : view[part] \in {headIndex, Absent}
    BY <1>1, <1>2, <2>1 DEF Blank
  <2>7. \A d \in Calls : ReadsTogether(calls[d])'
    BY <2>1, <2>2, <2>3, <2>5, <2>6 DEF ReadsTogether
  <2> QED
    BY <2>1, <2>3, <2>4, <2>5, <2>7 DEF OverlapInv, SlowEmissionsCoherent
<1>7. ASSUME NEW c \in Calls, ReadHead(c)
      PROVE  OverlapInv'
  <2> DEFINE view == [calls[c].view EXCEPT !["head"] = headIndex]
  <2>1. /\ Read(c, "move", "head", headIndex) /\ UNCHANGED capabilities
        /\ calls[c].stage = "move"
    BY <1>7 DEF ReadHead, Read
  <2>2. \A part \in Parts : view[part] \in {headIndex, Absent}
    BY <1>1, <1>2, <2>1 DEF Blank
  <2>3. ReadsTogether([stage |-> "head", view |-> view])
    BY <2>2 DEF ReadsTogether
  <2> QED
    BY <2>1, <2>3, ReadOverlaps DEF Parts
<1>8. ASSUME NEW c \in Calls, ReadFrame(c)
      PROVE  OverlapInv'
  <2> DEFINE view == [calls[c].view EXCEPT !["frame"] = headIndex]
  <2>1. /\ Read(c, "head", "frame", headIndex) /\ UNCHANGED capabilities
        /\ calls[c].stage = "head"
    BY <1>8 DEF ReadFrame, Read
  <2>2. SlowInEmissions => \A part \in Parts : view[part] \in {headIndex, Absent}
    BY <1>1, <1>2, <2>1 DEF ReadsTogether
  <2>3. SlowInEmissions => ReadsTogether([stage |-> "frame", view |-> view])
    BY <2>2 DEF ReadsTogether
  <2> QED
    BY <2>1, <2>3, ReadOverlaps DEF Parts
<1>9. ASSUME NEW c \in Calls, ReadReceipts(c)
      PROVE  OverlapInv'
  <2> DEFINE index == IfCapable("READ_RECEIPTS", headIndex)
             view == [calls[c].view EXCEPT !["receipts"] = index]
  <2>1. /\ Read(c, "frame", "receipts", index) /\ UNCHANGED capabilities
        /\ calls[c].stage = "frame" /\ index \in {headIndex, Absent}
    BY <1>9 DEF ReadReceipts, Read, IfCapable
  <2> HIDE DEF index
  <2>2. SlowInEmissions => \A part \in Parts : view[part] \in {headIndex, Absent}
    BY <1>1, <1>2, <2>1 DEF ReadsTogether
  <2>3. SlowInEmissions => ReadsTogether([stage |-> "receipts", view |-> view])
    BY <2>2 DEF ReadsTogether
  <2> QED
    BY <2>1, <2>3, ReadOverlaps DEF Parts
<1>10. ASSUME NEW c \in Calls, ReadEmissions(c)
       PROVE  OverlapInv'
  <2> DEFINE index == IfCapable("READ_EFFECT_EMISSIONS", headIndex)
             view == [calls[c].view EXCEPT !["emissions"] = index]
  <2>1. /\ Read(c, "receipts", "emissions", index) /\ UNCHANGED capabilities
        /\ calls[c].stage = "receipts" /\ index \in {headIndex, Absent}
    BY <1>10 DEF ReadEmissions, Read, IfCapable
  <2> HIDE DEF index
  <2>2. view["frame"] = calls[c].view["frame"] /\ calls[c].view["frame"] # Absent
    BY <1>1, <2>1, SentinelAssumption DEF TypeOK, Parts
  <2>3. SlowInEmissions =>
          view["frame"] = headIndex /\ \A part \in Parts : view[part] \in {headIndex, Absent}
    BY <1>1, <1>2, <2>1, <2>2 DEF ReadsTogether, Parts
  <2>4. SlowInEmissions => ReadsTogether([stage |-> "emissions", view |-> view])
    BY <2>3 DEF ReadsTogether
  <2> QED
    BY <2>1, <2>4, ReadOverlaps DEF Parts
<1>11. ASSUME NEW c \in Calls, ReadObservations(c)
       PROVE  OverlapInv'
  <2> DEFINE index == IfCapable("READ_DELIVERY_OBSERVATIONS", headIndex)
             view == [calls[c].view EXCEPT !["observations"] = index]
  <2>1. /\ Read(c, "emissions", "observations", index) /\ UNCHANGED capabilities
        /\ calls[c].stage = "emissions"
    BY <1>11 DEF ReadObservations, Read
  <2>2. ASSUME SlowInEmissions
        PROVE  /\ index \in {calls[c].view["frame"], Absent}
               /\ \A part \in Parts : calls[c].view[part] \in {calls[c].view["frame"], Absent}
    <3>1. ReadsTogether(calls[c])
      BY <1>2, <2>2
    <3>2. Suspending[capabilities] = {} \/ "READ_DELIVERY_OBSERVATIONS" \notin capabilities
      BY <1>3, <2>2 DEF SlowInEmissions
    <3> QED
      BY <2>1, <3>1, <3>2 DEF ReadsTogether, IfCapable
  <2> HIDE DEF index
  <2>3. view["frame"] = calls[c].view["frame"]
    BY <1>1 DEF Parts
  <2>4. SlowInEmissions => \A part \in Parts : view[part] \in {view["frame"], Absent}
    BY <1>1, <2>2, <2>3
  <2>5. SlowInEmissions => ReadsTogether([stage |-> "observations", view |-> view])
    BY <2>4 DEF ReadsTogether
  <2> QED
    BY <2>1, <2>5, ReadOverlaps DEF Parts
<1>12. ASSUME NEW c \in Calls, ReadContext(c)
       PROVE  OverlapInv'
  <2>1. /\ calls[c].stage = "observations" /\ Await(c, "context", calls[c].view)
        /\ UNCHANGED <<headIndex, capabilities, session>>
    BY <1>12 DEF ReadContext
  <2>2. SlowInEmissions => ReadsTogether([stage |-> "context", view |-> calls[c].view])
    BY <1>2, <2>1 DEF ReadsTogether
  <2> QED
    BY <2>1, <2>2, AwaitOverlaps
<1>13. ASSUME NEW c \in Calls, ReadFacts(c)
       PROVE  OverlapInv'
  <2> DEFINE index == IfCapable("READ_SESSION_FAMILY_FACTS", calls[c].view["frame"])
             view == [calls[c].view EXCEPT !["facts"] = index]
  <2>1. /\ Read(c, "context", "facts", index) /\ UNCHANGED capabilities
        /\ calls[c].stage = "context" /\ index \in {calls[c].view["frame"], Absent}
    BY <1>13 DEF ReadFacts, Read, IfCapable
  <2> HIDE DEF index
  <2>2. view["frame"] = calls[c].view["frame"]
    BY <1>1 DEF Parts
  <2>3. SlowInEmissions => \A part \in Parts : view[part] \in {view["frame"], Absent}
    BY <1>1, <1>2, <2>1, <2>2 DEF ReadsTogether
  <2>4. SlowInEmissions => ReadsTogether([stage |-> "facts", view |-> view])
    BY <2>3 DEF ReadsTogether
  <2> QED
    BY <2>1, <2>4, ReadOverlaps DEF Parts
<1>14. ASSUME NEW c \in Calls, Commit(c)
       PROVE  OverlapInv'
  <2> DEFINE view == calls[c].view
  <2>1. /\ calls[c].stage = "facts" /\ Await(c, "idle", Blank)
        /\ session' = [view |-> view, summaries |-> Assemble(view)]
        /\ UNCHANGED <<headIndex, capabilities>>
    BY <1>14 DEF Commit
  <2>2. view \in View /\ view["frame"] \in Frames
    BY <1>14, CommittedView
  <2>3. session' # NoSession
    BY <2>1, <2>2, AssembleSound, SentinelAssumption DEF Snapshot
  <2>4. /\ calls'[c].stage = "idle" /\ calls'[c].view = Blank
        /\ \A d \in Calls \ {c} : calls'[d] = calls[d]
    BY <2>1, AwaitChanges
  <2>5. CreatedOnce' /\ Greeted'
    BY <1>2, <2>1, <2>3, <2>4 DEF CreatedOnce, Greeted
  <2>6. \A d \in Calls : calls'[d].stage \in {"idle", "hello", "move"} => calls'[d].view = Blank
    BY <1>2, <2>4
  <2>7. (SlowInEmissions => \A d \in Calls : ReadsTogether(calls[d]))'
    BY <1>2, <2>1, <2>4 DEF SlowInEmissions, ReadsTogether
  <2>8. SlowInEmissions => Coherent(session)'
    <3>1. SlowInEmissions => \A part \in Parts : view[part] \in {view["frame"], Absent}
      BY <1>2, <2>1 DEF ReadsTogether
    <3>2. SlowInEmissions => Coherent([view |-> view, summaries |-> Assemble(view)])
      BY <2>2, <3>1, AssembleCoherent
    <3> QED
      BY <2>1, <3>2 DEF Coherent
  <2>9. capabilities \in HostCapabilities
    BY <1>2, <2>1 DEF Greeted
  <2>10. SlowEmissionsCoherent'
    BY <2>1, <2>8, <2>9 DEF SlowInEmissions, SlowEmissionsCoherent
  <2> QED
    BY <2>5, <2>6, <2>7, <2>10 DEF OverlapInv
<1>15. ASSUME NEW c \in Calls, Fail(c)
       PROVE  OverlapInv'
  <2>1. /\ calls[c].stage # "idle" /\ Await(c, "idle", Blank)
        /\ UNCHANGED <<headIndex, capabilities, session>>
    BY <1>15, HostAssumption DEF Fail, Stages, Parts
  <2>2. ReadsTogether([stage |-> "idle", view |-> Blank])
    BY DEF ReadsTogether
  <2> QED
    BY <2>1, <2>2, AwaitOverlaps
<1>16. ASSUME \/ \E id \in ObservationId : Pin(id) \/ Unpin(id)
              \/ UNCHANGED vars
       PROVE  OverlapInv'
  <2>1. UNCHANGED <<headIndex, calls, capabilities, session>>
    BY <1>16 DEF Pin, Unpin, vars
  <2> QED
    BY <2>1
       DEF OverlapInv, CreatedOnce, Greeted, SlowInEmissions, ReadsTogether,
           SlowEmissionsCoherent, Coherent
<1>17. \A c \in Calls :
         StepForward(c) \/ StepBackward(c) \/ (\E n \in Requests : SeekToFrame(c, n))
           => \E target : Navigate(c, target)
  BY DEF StepForward, StepBackward, SeekToFrame
<1> QED
  BY <1>4, <1>5, <1>6, <1>7, <1>8, <1>9, <1>10, <1>11, <1>12, <1>13, <1>14, <1>15, <1>16,
     <1>17 DEF Next, Progress

\* Any number of overlapping commands leaves only whole snapshots on a host
\* whose adapter awaits in nothing but its emissions, for every history and
\* wherever commands fail (DebuggerSession over GitWarpAdapter).
THEOREM SlowEmissionsWhole ==
  ASSUME SlowHostsObserveNothing, FaithfulPayloads
  PROVE  Spec => []SlowEmissionsCoherent
<1>1. Init => OverlapInv
  BY DEF Init, Idle, Blank, OverlapInv, CreatedOnce, Greeted, ReadsTogether,
         SlowEmissionsCoherent
<1>2. TypeOK /\ OverlapInv /\ [Next]_vars => OverlapInv'
  BY OverlapStep
<1>3. OverlapInv => SlowEmissionsCoherent
  BY DEF OverlapInv
<1> QED
  BY <1>1, <1>2, <1>3, TypeCorrect, PTL DEF Spec
============================================================================
