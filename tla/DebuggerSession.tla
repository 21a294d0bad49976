-------------------------- MODULE DebuggerSession --------------------------
(***************************************************************************)
(* DebuggerSession over the TtdHostAdapter port.                           *)
(*                                                                         *)
(* Every navigation command moves the host's head and then rebuilds the    *)
(* snapshot with one awaited adapter call after the other.  The calls that *)
(* carry no frame index are answered for whatever frame the head is on     *)
(* when they are made, and nothing in the session makes a second command   *)
(* wait for the first: Calls is the set of commands that can be in flight  *)
(* together.  A one-element Calls is a caller that awaits every command    *)
(* before it issues the next one.                                          *)
(*                                                                         *)
(* Data is abstracted to provenance: a fetched head, frame or list is the  *)
(* index of the frame it was read at, and a derived summary is the set of  *)
(* frames its content is about.  A published payload is about whatever     *)
(* frame its host wrote into it, whichever frame its envelope targets.     *)
(***************************************************************************)
EXTENDS PlaybackHead, SequencesExt

CONSTANTS
  Calls,               \* commands that can be in flight together
  Requests,            \* frame indices a caller may seek to, in range or not
  HostCapabilities,    \* the capability sets a host's hello may declare
  Suspending,          \* Suspending[h]: the promises the host with capabilities
                       \* h settles in a later turn of the event loop; it
                       \* returns every other one settled
  Fallible,            \* promises that may reject
  ObservationId,
  EmissionId,
  EmissionsAt,         \* EmissionsAt[f]: ids of the effects emitted at frame f
  ObservationsAt,      \* ObservationsAt[f]: the deliveries observed at frame f
  HostFacts,           \* HostFacts[f]: the family facts a host publishes when
                       \* asked about frame f, in its order
  MaxPins,             \* bound on the pins held at once
  Absent,              \* a part the host cannot serve: [] or the default
  NoSession            \* DebuggerSession.create has not completed

Parts == {"head", "frame", "receipts", "emissions", "observations", "facts"}

\* The promise a command awaits: the hello or the move it began with, a part
\* of the snapshot, or the execution context.
Stages == {"hello", "move", "context"} \cup Parts

Families == {"neighborhoodCore", "reintegrationDetail", "receiptShell"}

Capability == {"READ_RECEIPTS", "READ_EFFECT_EMISSIONS",
               "READ_DELIVERY_OBSERVATIONS", "READ_SESSION_FAMILY_FACTS"}

\* target is the frame the envelope names, about the one the payload speaks of:
\* the hydrators check a payload's types and compare it with nothing.  posture:
\* "malformed" is PRESENT and HOST_PUBLISHED with a payload the hydrator
\* rejects; "unavailable" is any fact the assembler does not accept.
HostFact == [family : Families, target : Frames, about : Frames,
             posture : {"hydrates", "malformed", "unavailable"}]

Observation == [id : ObservationId, emission : EmissionId]

View     == [Parts -> Frames \cup {Absent}]
Summary  == [origin : {"LOCAL_FALLBACK", "OBSTRUCTED", "HOST_PUBLISHED"},
             basis : SUBSET Frames]
Snapshot == [view : View, summaries : [Families -> Summary]]

ASSUME HostAssumption ==
  /\ Requests \subseteq Int
  /\ HostCapabilities \subseteq SUBSET Capability
  /\ Suspending \in [HostCapabilities -> SUBSET Stages]
  /\ Fallible \subseteq Stages
  /\ EmissionsAt \in [Frames -> SUBSET EmissionId]
  /\ ObservationsAt \in [Frames -> SUBSET Observation]
  /\ HostFacts \in [Frames -> Seq(HostFact)]
  /\ MaxPins \in Nat

ASSUME SentinelAssumption ==
  /\ Absent \notin Frames
  /\ NoSession \notin Snapshot \cup Frames

\* Within a frame an observation id names one delivery, and a delivery names
\* an emission of its own frame only: the scenario adapter numbers both over
\* the whole history, the Echo fixture lists distinct ids, git-warp observes
\* no deliveries.
ASSUME IdentityAssumption ==
  /\ \A f \in Frames : \A o, p \in ObservationsAt[f] : o.id = p.id => o = p
  /\ \A f, g \in Frames :
       \A o \in ObservationsAt[f] : o.emission \in EmissionsAt[g] => f = g

VARIABLES
  headIndex,           \* the host's currentFrameIndex for the session's head
  calls,               \* the progress of each command
  capabilities,        \* what the session's one hello declared
  session,             \* the session's current snapshot, or NoSession
  pins                 \* #pins, oldest first

vars == <<headIndex, calls, capabilities, session, pins>>

Blank == [part \in Parts |-> Absent]
Idle  == [stage |-> "idle", view |-> Blank]

----------------------------------------------------------------------------
(* buildNeighborhoodState *)

\* The frames a local summary is computed from.
Sources(view, parts) == {view[part] : part \in parts} \ {Absent}

PublishedFacts(view) ==
  IF view["facts"] = Absent THEN <<>> ELSE HostFacts[view["facts"]]

Accepts(fact, family, frame) ==
  /\ fact.family = family
  /\ fact.target = frame
  /\ fact.posture # "unavailable"

Materialize(family, view, localBasis) ==
  LET facts == PublishedFacts(view)
      found == SelectInSeq(facts, LAMBDA fact : Accepts(fact, family, view["frame"]))
  IN  CASE found = 0 ->
             [origin |-> "LOCAL_FALLBACK", basis |-> localBasis]
        [] found # 0 /\ facts[found].posture = "malformed" ->
             [origin |-> "OBSTRUCTED", basis |-> localBasis]
        [] found # 0 /\ facts[found].posture # "malformed" ->
             [origin |-> "HOST_PUBLISHED", basis |-> {facts[found].about}]

\* The detail and the shell start from the core that was materialized, local
\* or published.
Assemble(view) ==
  LET core == Materialize("neighborhoodCore", view,
                          Sources(view, {"frame", "receipts", "emissions"}))
  IN  [family \in Families |->
         CASE family = "neighborhoodCore" -> core
           [] family = "reintegrationDetail" ->
                Materialize(family, view,
                            core.basis \cup Sources(view, {"frame", "receipts"}))
           [] family = "receiptShell" ->
                Materialize(family, view,
                            core.basis \cup Sources(view, {"receipts"}))]

----------------------------------------------------------------------------
(* The stages of one command *)

Init ==
  /\ headIndex \in Frames
  /\ calls = [c \in Calls |-> Idle]
  /\ capabilities = {}
  /\ session = NoSession
  /\ pins = <<>>

Await(c, stage, view) == calls' = [calls EXCEPT ![c] = [stage |-> stage, view |-> view]]

\* A command is issued from an event handler, so never between two reads that
\* are answered without leaving the current turn of the event loop.
Overtakable ==
  \A d \in Calls : calls[d].stage \in {"idle", "move"} \cup Suspending[capabilities]

\* DebuggerSession.create, on an adapter whose head may be anywhere.
Create(c) ==
  /\ session = NoSession
  /\ \A d \in Calls : calls[d].stage = "idle"
  /\ Await(c, "hello", Blank)
  /\ UNCHANGED <<headIndex, capabilities, session, pins>>

\* Mutant: the head is read before the move has been made.
NavigateReadsHeadFirst(c, target) ==
  /\ session # NoSession
  /\ calls[c].stage = "idle"
  /\ Overtakable
  /\ headIndex' = target
  /\ Await(c, "head", [Blank EXCEPT !["head"] = headIndex])
  /\ UNCHANGED <<capabilities, session, pins>>

\* stepForward, stepBackward and seekToFrame differ in the move they make;
\* an adapter makes it before it returns its promise.
Navigate(c, target) ==
  /\ session # NoSession
  /\ calls[c].stage = "idle"
  /\ Overtakable
  /\ headIndex' = target
  /\ Await(c, "move", Blank)
  /\ UNCHANGED <<capabilities, session, pins>>

StepForward(c)    == Navigate(c, Forward(headIndex))
StepBackward(c)   == Navigate(c, Backward(headIndex))
SeekToFrame(c, n) == Navigate(c, Clamp(n))

\* The awaited promise settles and the next part is asked for in the same
\* turn; the adapter resolves it at once to the frame it is answered for.
Read(c, awaited, part, index) ==
  /\ calls[c].stage = awaited
  /\ Await(c, part, [calls[c].view EXCEPT ![part] = index])
  /\ UNCHANGED <<headIndex, session, pins>>

IfCapable(capability, index) ==
  IF capability \in capabilities THEN index ELSE Absent

\* The one hello of a session fixes its capabilities.
Greet(c) ==
  /\ capabilities' \in HostCapabilities
  /\ Read(c, "hello", "head", headIndex)

ReadHead(c) == Read(c, "move", "head", headIndex) /\ UNCHANGED capabilities

ReadFrame(c) == Read(c, "head", "frame", headIndex) /\ UNCHANGED capabilities

ReadReceipts(c) ==
  /\ Read(c, "frame", "receipts", IfCapable("READ_RECEIPTS", headIndex))
  /\ UNCHANGED capabilities

ReadEmissions(c) ==
  /\ Read(c, "receipts", "emissions", IfCapable("READ_EFFECT_EMISSIONS", headIndex))
  /\ UNCHANGED capabilities

ReadObservations(c) ==
  /\ Read(c, "emissions", "observations",
          IfCapable("READ_DELIVERY_OBSERVATIONS", headIndex))
  /\ UNCHANGED capabilities

\* Mutant: the facts are asked for without an index, as the lists are.
ReadFactsAtHead(c) ==
  /\ Read(c, "context", "facts", IfCapable("READ_SESSION_FAMILY_FACTS", headIndex))
  /\ UNCHANGED capabilities

\* Mutant: the head is read once more, after the lists.
ReadContextAndHead(c) ==
  /\ calls[c].stage = "observations"
  /\ Await(c, "context", [calls[c].view EXCEPT !["head"] = headIndex])
  /\ UNCHANGED <<headIndex, capabilities, session, pins>>

\* Mutant: a command that was overtaken starts its reads again.
ReadContextRetrying(c) ==
  /\ calls[c].stage = "observations"
  /\ IF calls[c].view["head"] = headIndex
       THEN Await(c, "context", calls[c].view)
       ELSE Await(c, "move", Blank)
  /\ UNCHANGED <<headIndex, capabilities, session, pins>>

\* The execution context belongs to the host, not to a frame.
ReadContext(c) ==
  /\ calls[c].stage = "observations"
  /\ Await(c, "context", calls[c].view)
  /\ UNCHANGED <<headIndex, capabilities, session, pins>>

\* The only read that names its frame: the one the frame read answered.
ReadFacts(c) ==
  /\ Read(c, "context", "facts",
          IfCapable("READ_SESSION_FAMILY_FACTS", calls[c].view["frame"]))
  /\ UNCHANGED capabilities

\* The summaries are built and the snapshot replaced, whatever happened to
\* the head or to the snapshot since the command was issued.
Commit(c) ==
  /\ calls[c].stage = "facts"
  /\ session' = [view |-> calls[c].view, summaries |-> Assemble(calls[c].view)]
  /\ Await(c, "idle", Blank)
  /\ UNCHANGED <<headIndex, capabilities, pins>>

\* A rejected promise ends the command: the head has moved, the snapshot
\* stays.
Fail(c) ==
  /\ calls[c].stage \in Fallible
  /\ Await(c, "idle", Blank)
  /\ UNCHANGED <<headIndex, capabilities, session, pins>>

Progress(c) ==
  \/ Greet(c) \/ ReadHead(c) \/ ReadFrame(c) \/ ReadReceipts(c)
  \/ ReadEmissions(c) \/ ReadObservations(c) \/ ReadContext(c)
  \/ ReadFacts(c) \/ Commit(c) \/ Fail(c)

----------------------------------------------------------------------------
(* Pins *)

Observed == IF session.view["observations"] = Absent
              THEN {} ELSE ObservationsAt[session.view["observations"]]
Emitted  == IF session.view["emissions"] = Absent
              THEN {} ELSE EmissionsAt[session.view["emissions"]]

\* Mutant: the pin is stamped with the frame the host is on now.
PinAtHead(id) ==
  /\ session # NoSession
  /\ Len(pins) < MaxPins
  /\ \E o \in Observed :
       /\ o.id = id
       /\ o.emission \in Emitted
       /\ pins' = Append(pins,
                    [pinnedAt      |-> headIndex,
                     observation   |-> id,
                     observedAt    |-> session.view["observations"],
                     emission      |-> o.emission,
                     emittedAt     |-> session.view["emissions"]])
  /\ UNCHANGED <<headIndex, calls, capabilities, session>>

\* Mutant: the delivery is pinned with whatever effect the snapshot lists.
PinAnyEmission(id) ==
  /\ session # NoSession
  /\ Len(pins) < MaxPins
  /\ \E o \in Observed, emission \in Emitted :
       /\ o.id = id
       /\ pins' = Append(pins,
                    [pinnedAt      |-> session.view["frame"],
                     observation   |-> id,
                     observedAt    |-> session.view["observations"],
                     emission      |-> emission,
                     emittedAt     |-> session.view["emissions"]])
  /\ UNCHANGED <<headIndex, calls, capabilities, session>>

\* No pin is made for an observation or an emission the snapshot lacks.
Pin(id) ==
  /\ session # NoSession
  /\ Len(pins) < MaxPins
  /\ \E o \in Observed :
       /\ o.id = id
       /\ o.emission \in Emitted
       /\ pins' = Append(pins,
                    [pinnedAt      |-> session.view["frame"],
                     observation   |-> id,
                     observedAt    |-> session.view["observations"],
                     emission      |-> o.emission,
                     emittedAt     |-> session.view["emissions"]])
  /\ UNCHANGED <<headIndex, calls, capabilities, session>>

Unpin(id) ==
  /\ \E k \in DOMAIN pins : pins[k].observation = id
  /\ pins' = RemoveFirstMatch(pins, LAMBDA pin : pin.observation = id)
  /\ UNCHANGED <<headIndex, calls, capabilities, session>>

----------------------------------------------------------------------------
Next ==
  \/ \E c \in Calls :
       \/ Create(c) \/ StepForward(c) \/ StepBackward(c)
       \/ \E n \in Requests : SeekToFrame(c, n)
       \/ Progress(c)
  \/ \E id \in ObservationId : Pin(id) \/ Unpin(id)

\* An adapter settles every promise it returns, and the event loop resumes
\* whoever awaits it.
Fairness == \A c \in Calls : WF_vars(Progress(c))

Spec == Init /\ [][Next]_vars /\ Fairness

----------------------------------------------------------------------------
(* Properties *)

PinnedObservation ==
  [pinnedAt : Frames, observation : ObservationId, observedAt : Frames,
   emission : EmissionId, emittedAt : Frames]

\* The types of the state; whatever is in flight or has been committed knows
\* the frame it is about.
TypeOK ==
  /\ headIndex \in Frames
  /\ calls \in [Calls -> [stage : Stages \cup {"idle"}, view : View]]
  /\ \A c \in Calls :
       calls[c].stage \in Parts \cup {"context"} =>
         \/ calls[c].stage = "head"
         \/ calls[c].view["frame"] \in Frames
  /\ capabilities \subseteq Capability
  /\ session \in Snapshot \cup {NoSession}
  /\ session # NoSession => session.view["frame"] \in Frames
  /\ pins \in Seq(PinnedObservation)

\* A snapshot is about one frame: head, frame, lists and summaries agree.
Coherent(snapshot) ==
  /\ \A part \in Parts : snapshot.view[part] \in {snapshot.view["frame"], Absent}
  /\ \A family \in Families :
       snapshot.summaries[family].basis = {snapshot.view["frame"]}

\* DebuggerSession.snapshot never mixes frames (fetchSnapshotProtocolFacts,
\* buildNeighborhoodState).
SnapshotCoherent == session # NoSession => Coherent(session)

\* Overlapping commands leave snapshots whole on a host that is slow in
\* nothing but its emissions, which name their frame (GitWarpAdapter).
SlowEmissionsCoherent ==
  session # NoSession /\ Suspending[capabilities] \subseteq {"emissions"}
    => Coherent(session)

\* Once every command has settled the snapshot is the view at the frame the
\* host's head is on.
SnapshotCurrent ==
  session # NoSession /\ (\A c \in Calls : calls[c].stage = "idle")
    => session.view["head"] = headIndex

\* A host's payloads are about the frame their envelopes target, as those of
\* the one adapter that publishes any are (EchoFixtureAdapter).
FaithfulPayloads ==
  \A f \in Frames : \A k \in DOMAIN HostFacts[f] :
    HostFacts[f][k].about = HostFacts[f][k].target

\* The facts a host publishes when asked about frame f.
OfferedAt(f) == IF "READ_SESSION_FAMILY_FACTS" \in capabilities THEN HostFacts[f] ELSE <<>>

\* The summary is the first of the facts that is available, of its family and
\* for frame f, taken as it is; an obstruction if that one does not hydrate;
\* and called local only if there is none.
TakenFrom(facts, family, f, summary) ==
  LET fits == {k \in DOMAIN facts : /\ facts[k].family = family
                                    /\ facts[k].target = f
                                    /\ facts[k].posture # "unavailable"}
  IN  \/ fits = {} /\ summary.origin = "LOCAL_FALLBACK"
      \/ \E first \in fits :
           /\ \A k \in fits : first <= k
           /\ \/ facts[first].posture = "malformed" /\ summary.origin = "OBSTRUCTED"
              \/ /\ facts[first].posture = "hydrates"
                 /\ summary = [origin |-> "HOST_PUBLISHED", basis |-> {facts[first].about}]

\* Whatever frame the head is moved to while a snapshot is being read, no
\* publication for the frame on show is lost and none for another is shown:
\* each summary is what the host offers for that frame (fetchSnapshot,
\* buildNeighborhoodState).
PublishedAsOffered ==
  session # NoSession =>
    \A family \in Families :
      LET f == session.view["frame"]
      IN  TakenFrom(OfferedAt(f), family, f, session.summaries[family])

\* A pin joins an observation to an emission of the same frame even when the
\* snapshot it was taken from mixes frames, and keeps the pair (pin, unpin).
PinsPaired ==
  \A k \in DOMAIN pins :
    /\ pins[k].observedAt = pins[k].emittedAt
    /\ [id |-> pins[k].observation, emission |-> pins[k].emission]
         \in ObservationsAt[pins[k].observedAt]

Shown ==
  CASE session = NoSession -> NoSession
    [] session # NoSession /\ Coherent(session) -> session.view["frame"]
    [] session # NoSession /\ ~Coherent(session) -> "torn"

Contract == INSTANCE SessionContract WITH
  Deliveries <- [f \in Frames |->
                   {o.id : o \in {p \in ObservationsAt[f] : p.emission \in EmissionsAt[f]}}],
  Nothing <- NoSession,
  host    <- headIndex,
  shown   <- Shown,
  pinned  <- [k \in DOMAIN pins |->
                [frame |-> pins[k].pinnedAt, observation |-> pins[k].observation]]

\* A caller that awaits each command sees only whole frames, each the one
\* the host was on, and pins that name the frame they were taken at, also
\* when commands fail part-way.
ImplementsContract == Contract!ContractSpec

\* Every command settles: it commits or it is rejected.
CommandsSettle ==
  \A c \in Calls : calls[c].stage # "idle" ~> calls[c].stage = "idle"
============================================================================
