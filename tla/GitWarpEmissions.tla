-------------------------- MODULE GitWarpEmissions --------------------------
(***************************************************************************)
(* GitWarpAdapter.effectEmissions and the extractor it calls.              *)
(*                                                                         *)
(* The effects of a frame are read from one shared git-warp graph: the     *)
(* extractor materializes the graph at the frame's tick, then reads the    *)
(* properties of each effect node the frame's receipts added, and the      *)
(* adapter keeps the result for good.  Between the materialization and     *)
(* each property read the call is suspended, and the adapter lets any      *)
(* number of calls in.                                                     *)
(***************************************************************************)
EXTENDS PlaybackHead

CONSTANTS
  Callers,             \* calls of effectEmissions that can overlap
  Asked,               \* the frames they may be made for
  Together,            \* the pairs of frames whose extractions the callers let
                       \* overlap; the adapter lets any two
  EffectNode,          \* the @warp/effect: nodes
  Candidates,          \* Candidates[f]: effect nodes frame f's receipts added
  Kind,                \* values of a node's "kind" property
  NoKind,              \* no node, no property, or not a non-empty string
  KindAt,              \* KindAt[n][f]: the property, materialized at frame f
  NotCached            \* no cache entry for a frame; no answer for a caller

ASSUME HistoryAssumption ==
  /\ Asked \subseteq Frames
  /\ Together \subseteq Frames \X Frames
  /\ Candidates \in [Frames -> SUBSET EffectNode]
  /\ KindAt \in [EffectNode -> [Frames -> Kind \cup {NoKind}]]
  /\ NoKind \notin Kind

\* Frame 0 is the synthetic genesis frame.
ASSUME GenesisAssumption == Candidates[0] = {}

Emission == [node : EffectNode, kind : Kind]

ASSUME NotCachedAssumption == \A s \in SUBSET Emission : s # NotCached

VARIABLES
  ceiling,             \* the frame the shared graph is materialized at
  cache,               \* #emissionCache
  calls,               \* the extraction each caller is in
  answer               \* the last answer each caller got

vars == <<ceiling, cache, calls, answer>>

Idle == [stage |-> "idle", frame |-> 0, unread |-> {}, found |-> {}]

Init ==
  /\ ceiling = MaxFrame          \* create() materializes the whole history
  /\ cache = [f \in Frames |-> NotCached]
  /\ calls = [c \in Callers |-> Idle]
  /\ answer = [c \in Callers |-> [frame |-> 0, emissions |-> {}]]

Answer(c, f, emissions) ==
  answer' = [answer EXCEPT ![c] = [frame |-> f, emissions |-> emissions]]

\* Answered without the graph: the genesis frame, or a frame in the cache.
AskKnown(c, f) ==
  /\ calls[c].stage = "idle"
  /\ f = 0 \/ cache[f] # NotCached
  /\ Answer(c, f, IF f = 0 THEN {} ELSE cache[f])
  /\ UNCHANGED <<ceiling, cache, calls>>

\* A frame that added no effect node is cached as empty.
AskWithoutCandidates(c, f) ==
  /\ calls[c].stage = "idle"
  /\ f # 0 /\ cache[f] = NotCached
  /\ Candidates[f] = {}
  /\ cache' = [cache EXCEPT ![f] = {}]
  /\ Answer(c, f, {})
  /\ UNCHANGED <<ceiling, calls>>

AskGraph(c, f) ==
  /\ calls[c].stage = "idle"
  /\ f # 0 /\ cache[f] = NotCached
  /\ Candidates[f] # {}
  /\ calls' = [calls EXCEPT ![c] = [stage |-> "materializing", frame |-> f,
                                    unread |-> Candidates[f], found |-> {}]]
  /\ UNCHANGED <<ceiling, cache, answer>>

\* What the callers do to keep extractions apart.
Serialized(f) ==
  \A d \in Callers : calls[d].stage # "idle" => <<calls[d].frame, f>> \in Together

\* Mutant: the properties are read at the live frontier.
MaterializeFrontier(c) ==
  /\ calls[c].stage = "materializing"
  /\ calls' = [calls EXCEPT ![c].stage = "reading"]
  /\ UNCHANGED <<ceiling, cache, answer>>

\* graph.materialize({ ceiling }) replaces the state of the shared graph.
Materialize(c) ==
  /\ calls[c].stage = "materializing"
  /\ ceiling' = calls[c].frame
  /\ calls' = [calls EXCEPT ![c].stage = "reading"]
  /\ UNCHANGED <<cache, answer>>

\* Mutant: a node without a kind is reported.
SeenKeepingAll(n) == {[node |-> n, kind |-> KindAt[n][ceiling]]}

Seen(n) == {[node |-> n, kind |-> k] : k \in {KindAt[n][ceiling]} \ {NoKind}}

\* Mutant: each read replaces what the ones before it found.
ReadNodeReplacing(c, n) ==
  /\ calls[c].stage = "reading"
  /\ n \in calls[c].unread
  /\ calls' = [calls EXCEPT ![c].unread = @ \ {n}, ![c].found = Seen(n)]
  /\ UNCHANGED <<ceiling, cache, answer>>

\* Mutant: a node without a kind is waited for.
ReadNodeWithKind(c, n) ==
  /\ calls[c].stage = "reading"
  /\ n \in calls[c].unread
  /\ Seen(n) # {}
  /\ calls' = [calls EXCEPT ![c].unread = @ \ {n}, ![c].found = @ \cup Seen(n)]
  /\ UNCHANGED <<ceiling, cache, answer>>

\* getNodeProps answers from the graph as it is now; a node without a kind is
\* dropped.  The reads of Promise.all settle in any order.
ReadNode(c, n) ==
  /\ calls[c].stage = "reading"
  /\ n \in calls[c].unread
  /\ calls' = [calls EXCEPT ![c].unread = @ \ {n}, ![c].found = @ \cup Seen(n)]
  /\ UNCHANGED <<ceiling, cache, answer>>

\* Mutant: the result is cached before every node has been read.
CompleteEarly(c) ==
  /\ calls[c].stage = "reading"
  /\ cache' = [cache EXCEPT ![calls[c].frame] = calls[c].found]
  /\ Answer(c, calls[c].frame, calls[c].found)
  /\ calls' = [calls EXCEPT ![c] = Idle]
  /\ UNCHANGED ceiling

Complete(c) ==
  /\ calls[c].stage = "reading"
  /\ calls[c].unread = {}
  /\ cache' = [cache EXCEPT ![calls[c].frame] = calls[c].found]
  /\ Answer(c, calls[c].frame, calls[c].found)
  /\ calls' = [calls EXCEPT ![c] = Idle]
  /\ UNCHANGED ceiling

\* The graph rejects: nothing is cached, the caller gets no answer.
Reject(c) ==
  /\ calls[c].stage # "idle"
  /\ calls' = [calls EXCEPT ![c] = Idle]
  /\ UNCHANGED <<ceiling, cache, answer>>

Progress(c) ==
  \/ Materialize(c)
  \/ \E n \in EffectNode : ReadNode(c, n)
  \/ Complete(c)

Next ==
  \E c \in Callers :
    \/ \E f \in Asked :
         \/ AskKnown(c, f)
         \/ AskWithoutCandidates(c, f)
         \/ Serialized(f) /\ AskGraph(c, f)
    \/ Progress(c)
    \/ Reject(c)

\* The graph settles every promise it returns.
Fairness == \A c \in Callers : WF_vars(Progress(c))

Spec == Init /\ [][Next]_vars /\ Fairness

----------------------------------------------------------------------------
(* Properties *)

TypeOK ==
  /\ ceiling \in Frames
  /\ cache \in [Frames -> {NotCached} \cup SUBSET Emission]
  /\ calls \in [Callers -> [stage : {"idle", "materializing", "reading"},
                            frame : Frames, unread : SUBSET EffectNode,
                            found : SUBSET Emission]]
  /\ answer \in [Callers -> [frame : Frames, emissions : SUBSET Emission]]

\* The effects of a frame as that frame's own materialization has them.
EmissionsOf(f) ==
  {e \in Emission : e.node \in Candidates[f] /\ e.kind = KindAt[e.node][f]}

\* What is cached for a frame reflects that historical frame, also after
\* rejected calls (extractGitWarpEffectEmissions, #emissionCache).
CacheReflectsFrame ==
  \A f \in Frames : cache[f] # NotCached => cache[f] = EmissionsOf(f)

\* What a caller is answered reflects the frame it asked about.
AnswersReflectFrame ==
  \A c \in Callers : answer[c].emissions = EmissionsOf(answer[c].frame)

\* A cache entry never changes once it is there, so two reads of a frame
\* agree whenever they are made.
CacheStable ==
  [][\A f \in Frames : cache[f] # NotCached => cache'[f] = cache[f]]_vars

\* Every call is answered or rejected.
CallsSettle ==
  \A c \in Callers : calls[c].stage # "idle" ~> calls[c].stage = "idle"
=============================================================================
