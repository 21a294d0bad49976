----------------------- MODULE GitWarpEmissionsProofs -----------------------
(***************************************************************************)
(* What the emission cache guarantees, for any history, any number of      *)
(* callers, any rejections of the graph and whatever extractions overlap:  *)
(* a frame is answered wrongly only if the graph was materialized at       *)
(* another one while an extraction of it had nodes left to read.  Nothing  *)
(* is assumed of the callers; that overlap is recorded instead.            *)
(***************************************************************************)
EXTENDS GitWarpEmissions, TLAPS

VARIABLE overlapped    \* frames the graph was taken from under their readers

\* An extraction of frame f depends on the graph as it is.
Reads(c, f) ==
  calls[c].stage = "reading" /\ calls[c].frame = f /\ calls[c].unread # {}

\* A history variable: it restricts no behaviour of the specification.
RecordOverlap ==
  overlapped' = overlapped \cup
    {f \in Frames : \E c, d \in Callers :
       Reads(c, f) /\ Materialize(d) /\ calls[d].frame # f}

History == overlapped = {} /\ [][RecordOverlap]_<<vars, overlapped>>

\* A step of the specification with the record it leaves.
Step == [Next]_vars /\ [RecordOverlap]_<<vars, overlapped>>

LEMMA FramesBounded == 0 \in Frames /\ MaxFrame \in Frames
BY MaxFrameAssumption DEF Frames

LEMMA InitTyped == Init => TypeOK
BY FramesBounded, HistoryAssumption DEF Init, TypeOK, Idle

LEMMA SeenIs ==
  ASSUME NEW n \in EffectNode, ceiling \in Frames
  PROVE  Seen(n) = {e \in Emission : e.node = n /\ e.kind = KindAt[n][ceiling]}
<1>1. KindAt[n][ceiling] \in Kind \cup {NoKind}
  BY HistoryAssumption
<1>2. ASSUME NEW e \in Seen(n)
      PROVE  e \in Emission /\ e.node = n /\ e.kind = KindAt[n][ceiling]
  BY <1>1 DEF Seen, Emission
<1>3. ASSUME NEW e \in Emission, e.node = n, e.kind = KindAt[n][ceiling]
      PROVE  e \in Seen(n)
  <2>1. e.kind # NoKind /\ e = [node |-> n, kind |-> e.kind]
    BY <1>3, HistoryAssumption DEF Emission
  <2> QED BY <1>3, <2>1 DEF Seen
<1> QED BY <1>2, <1>3

----------------------------------------------------------------------------
(* Types *)

LEMMA StepTyped == TypeOK /\ [Next]_vars => TypeOK'
<1> SUFFICES ASSUME TypeOK, [Next]_vars PROVE TypeOK'
  OBVIOUS
<1> USE FramesBounded
<1>1. CASE UNCHANGED vars
  BY <1>1 DEF vars, TypeOK
<1>2. ASSUME NEW c \in Callers, NEW f \in Asked, AskKnown(c, f) PROVE TypeOK'
  <2>1. f \in Frames /\ (IF f = 0 THEN {} ELSE cache[f]) \in SUBSET Emission
    BY <1>2, HistoryAssumption DEF AskKnown, TypeOK
  <2> QED BY <1>2, <2>1 DEF AskKnown, Answer, TypeOK
<1>3. ASSUME NEW c \in Callers, NEW f \in Asked, AskWithoutCandidates(c, f) PROVE TypeOK'
  BY <1>3, HistoryAssumption DEF AskWithoutCandidates, Answer, TypeOK
<1>4. ASSUME NEW c \in Callers, NEW f \in Asked, AskGraph(c, f) PROVE TypeOK'
  BY <1>4, HistoryAssumption DEF AskGraph, TypeOK
<1>5. ASSUME NEW c \in Callers, Materialize(c) PROVE TypeOK'
  BY <1>5 DEF Materialize, TypeOK
<1>6. ASSUME NEW c \in Callers, NEW n \in EffectNode, ReadNode(c, n) PROVE TypeOK'
  <2>1. Seen(n) \subseteq Emission
    BY SeenIs DEF TypeOK
  <2> QED BY <1>6, <2>1 DEF ReadNode, TypeOK
<1>7. ASSUME NEW c \in Callers, Complete(c) PROVE TypeOK'
  BY <1>7 DEF Complete, Answer, Idle, TypeOK
<1>8. ASSUME NEW c \in Callers, Reject(c) PROVE TypeOK'
  BY <1>8 DEF Reject, Idle, TypeOK
<1> QED BY <1>1, <1>2, <1>3, <1>4, <1>5, <1>6, <1>7, <1>8 DEF Next, Progress

\* The state is well typed, and nothing outside the frames, the effect nodes
\* and their kinds is ever cached or answered.
THEOREM EmissionsTyped == Spec => []TypeOK
BY InitTyped, StepTyped, PTL DEF Spec

----------------------------------------------------------------------------
(* Frames that were not overlapped *)

\* The graph is at the frame of an extraction that still reads.
AtFrame ==
  \A c \in Callers : \A f \in Frames \ overlapped : Reads(c, f) => ceiling = f

\* An extraction is left with nodes of its frame, and has found the effects of
\* its frame among the nodes it has read.
FoundSoFar ==
  \A c \in Callers :
    calls[c].stage # "idle" =>
      /\ calls[c].unread \subseteq Candidates[calls[c].frame]
      /\ calls[c].frame \notin overlapped =>
           calls[c].found =
             {e \in EmissionsOf(calls[c].frame) : e.node \notin calls[c].unread}

\* What is cached for a frame that was not overlapped reflects that frame.
CacheRight ==
  \A f \in Frames \ overlapped : cache[f] # NotCached => cache[f] = EmissionsOf(f)

\* What a caller is answered for such a frame reflects it.
AnswersRight ==
  \A c \in Callers :
    answer[c].frame \notin overlapped => answer[c].emissions = EmissionsOf(answer[c].frame)

IInv == AtFrame /\ FoundSoFar /\ CacheRight /\ AnswersRight

LEMMA NoEffectsWithoutCandidates ==
  ASSUME NEW f \in Frames, Candidates[f] = {}
  PROVE  EmissionsOf(f) = {}
BY DEF EmissionsOf

LEMMA InitRight == Init => IInv
<1> SUFFICES ASSUME Init PROVE IInv
  OBVIOUS
<1>1. EmissionsOf(0) = {}
  BY NoEffectsWithoutCandidates, FramesBounded, GenesisAssumption
<1>2. \A c \in Callers : calls[c].stage = "idle"
  BY DEF Init, Idle
<1>3. AtFrame /\ FoundSoFar
  BY <1>2 DEF AtFrame, Reads, FoundSoFar
<1>4. CacheRight /\ AnswersRight
  BY <1>1 DEF Init, CacheRight, AnswersRight
<1> QED BY <1>3, <1>4 DEF IInv

\* What was overlapped stays so.
LEMMA OverlapGrows ==
  ASSUME [RecordOverlap]_<<vars, overlapped>>
  PROVE  overlapped \subseteq overlapped'
BY DEF RecordOverlap

\* A call that leaves the graph alone and is answered the effects of its frame.
LEMMA AnsweredRight ==
  ASSUME TypeOK, IInv, overlapped \subseteq overlapped',
         NEW c \in Callers, NEW f \in Frames, NEW emissions,
         Answer(c, f, emissions), f \notin overlapped => emissions = EmissionsOf(f),
         UNCHANGED calls, UNCHANGED ceiling,
         cache' = cache \/ cache' = [cache EXCEPT ![f] = EmissionsOf(f)]
  PROVE  IInv'
<1>1. AtFrame' /\ FoundSoFar'
  BY DEF IInv, AtFrame, Reads, FoundSoFar, EmissionsOf
<1>2. CacheRight'
  BY DEF IInv, CacheRight, TypeOK, EmissionsOf
<1>3. AnswersRight'
  BY DEF IInv, AnswersRight, Answer, TypeOK, EmissionsOf
<1> QED BY <1>1, <1>2, <1>3 DEF IInv

LEMMA AskRight ==
  ASSUME TypeOK, IInv, overlapped \subseteq overlapped',
         NEW c \in Callers, NEW f \in Asked,
         AskKnown(c, f) \/ AskWithoutCandidates(c, f)
  PROVE  IInv'
<1>1. f \in Frames
  BY HistoryAssumption
<1>2. CASE AskKnown(c, f)
  <2>1. f \notin overlapped => (IF f = 0 THEN {} ELSE cache[f]) = EmissionsOf(f)
    BY <1>1, <1>2, NoEffectsWithoutCandidates, GenesisAssumption
       DEF AskKnown, IInv, CacheRight
  <2> QED BY <1>1, <1>2, <2>1, AnsweredRight DEF AskKnown
<1>3. CASE AskWithoutCandidates(c, f)
  <2>1. EmissionsOf(f) = {}
    BY <1>1, <1>3, NoEffectsWithoutCandidates DEF AskWithoutCandidates
  <2> QED BY <1>1, <1>3, <2>1, AnsweredRight DEF AskWithoutCandidates
<1> QED BY <1>2, <1>3

LEMMA AskGraphRight ==
  ASSUME TypeOK, IInv, overlapped \subseteq overlapped',
         NEW c \in Callers, NEW f \in Asked, AskGraph(c, f)
  PROVE  IInv'
<1>1. f \in Frames
  BY HistoryAssumption
<1>2. \A d \in Callers : calls'[d] =
        IF d = c THEN [stage |-> "materializing", frame |-> f,
                       unread |-> Candidates[f], found |-> {}]
                 ELSE calls[d]
  BY DEF AskGraph, TypeOK
<1>3. AtFrame'
  BY <1>2 DEF IInv, AtFrame, Reads, AskGraph
<1>4. {e \in EmissionsOf(f) : e.node \notin Candidates[f]} = {}
  BY DEF EmissionsOf
<1>5. FoundSoFar'
  BY <1>2, <1>4 DEF IInv, FoundSoFar, EmissionsOf
<1>6. CacheRight' /\ AnswersRight'
  BY DEF IInv, CacheRight, AnswersRight, AskGraph, EmissionsOf
<1> QED BY <1>3, <1>5, <1>6 DEF IInv

\* The step that can do harm records the frames it may harm.
LEMMA MaterializeRight ==
  ASSUME TypeOK, IInv, [RecordOverlap]_<<vars, overlapped>>,
         NEW c \in Callers, Materialize(c)
  PROVE  IInv'
<1>1. \A d \in Callers :
        /\ calls'[d].frame = calls[d].frame
        /\ calls'[d].unread = calls[d].unread /\ calls'[d].found = calls[d].found
        /\ calls'[d].stage # "idle" <=> calls[d].stage # "idle"
        /\ d # c => calls'[d] = calls[d]
  BY DEF Materialize, TypeOK
<1>2. overlapped \subseteq overlapped'
  BY OverlapGrows
<1>3. RecordOverlap
  <2>1. calls' # calls
    BY DEF Materialize, TypeOK
  <2> QED BY <2>1 DEF vars
<1>4. AtFrame'
  <2> SUFFICES ASSUME NEW d \in Callers, NEW f \in Frames \ overlapped', Reads(d, f)'
               PROVE  ceiling' = f
    BY DEF AtFrame
  <2>1. CASE d = c
    BY <1>1, <2>1 DEF Materialize, Reads
  <2>2. CASE d # c
    <3>1. Reads(d, f)
      BY <1>1, <2>2 DEF Reads
    <3>2. calls[c].frame = f
      BY <1>3, <3>1 DEF RecordOverlap
    <3> QED BY <3>2 DEF Materialize
  <2> QED BY <2>1, <2>2
<1>5. FoundSoFar'
  BY <1>1, <1>2 DEF IInv, FoundSoFar, EmissionsOf
<1>6. CacheRight' /\ AnswersRight'
  BY <1>2 DEF IInv, CacheRight, AnswersRight, Materialize, EmissionsOf
<1> QED BY <1>4, <1>5, <1>6 DEF IInv

LEMMA ReadNodeRight ==
  ASSUME TypeOK, IInv, overlapped \subseteq overlapped',
         NEW c \in Callers, NEW n \in EffectNode, ReadNode(c, n)
  PROVE  IInv'
<1> DEFINE f == calls[c].frame
<1>1. /\ f \in Frames /\ n \in calls[c].unread
      /\ calls[c].unread \subseteq Candidates[f]
  BY DEF ReadNode, TypeOK, IInv, FoundSoFar
<1>2. ASSUME f \notin overlapped
      PROVE  calls[c].found \cup Seen(n) =
               {e \in EmissionsOf(f) : e.node \notin calls[c].unread \ {n}}
  <2>1. ceiling = f
    BY <1>1, <1>2 DEF ReadNode, IInv, AtFrame, Reads
  <2>2. Seen(n) = {e \in EmissionsOf(f) : e.node = n}
    BY <1>1, <2>1, SeenIs DEF EmissionsOf
  <2>3. calls[c].found = {e \in EmissionsOf(f) : e.node \notin calls[c].unread}
    BY <1>2 DEF ReadNode, IInv, FoundSoFar
  <2> QED BY <1>1, <2>2, <2>3
<1>3. \A d \in Callers :
        /\ calls'[d].frame = calls[d].frame /\ calls'[d].stage = calls[d].stage
        /\ d # c => calls'[d] = calls[d]
  BY DEF ReadNode, TypeOK
<1>4. calls'[c].unread = calls[c].unread \ {n} /\ calls'[c].found = calls[c].found \cup Seen(n)
  BY DEF ReadNode, TypeOK
<1>5. AtFrame'
  <2>1. ceiling' = ceiling
    BY DEF ReadNode
  <2>2. \A d \in Callers : calls'[d].unread \subseteq calls[d].unread
    BY <1>3, <1>4
  <2> QED BY <1>3, <2>1, <2>2 DEF IInv, AtFrame, Reads
<1>6. FoundSoFar'
  <2> SUFFICES ASSUME NEW d \in Callers, calls'[d].stage # "idle"
               PROVE  /\ calls'[d].unread \subseteq Candidates[calls'[d].frame]
                      /\ calls'[d].frame \notin overlapped' =>
                           calls'[d].found =
                             {e \in EmissionsOf(calls'[d].frame) : e.node \notin calls'[d].unread}
    BY DEF FoundSoFar, EmissionsOf
  <2>1. CASE d = c
    BY <1>1, <1>2, <1>3, <1>4, <2>1
  <2>2. CASE d # c
    BY <1>3, <2>2 DEF IInv, FoundSoFar
  <2> QED BY <2>1, <2>2
<1>7. CacheRight' /\ AnswersRight'
  BY DEF IInv, CacheRight, AnswersRight, ReadNode, EmissionsOf
<1> QED BY <1>5, <1>6, <1>7 DEF IInv

\* A call that ends leaves the others as they are.
LEMMA EndedRight ==
  ASSUME TypeOK, IInv, overlapped \subseteq overlapped', NEW c \in Callers,
         calls' = [calls EXCEPT ![c] = Idle], UNCHANGED ceiling
  PROVE  AtFrame' /\ FoundSoFar'
<1>1. \A d \in Callers : calls'[d].stage # "idle" => calls'[d] = calls[d]
  BY DEF Idle, TypeOK
<1>2. AtFrame'
  BY <1>1 DEF IInv, AtFrame, Reads
<1>3. FoundSoFar'
  BY <1>1 DEF IInv, FoundSoFar, EmissionsOf
<1> QED BY <1>2, <1>3

LEMMA CompleteRight ==
  ASSUME TypeOK, IInv, overlapped \subseteq overlapped', NEW c \in Callers, Complete(c)
  PROVE  IInv'
<1> DEFINE f == calls[c].frame
<1>1. f \in Frames /\ (f \notin overlapped => calls[c].found = EmissionsOf(f))
  BY DEF Complete, TypeOK, IInv, FoundSoFar
<1>2. CacheRight'
  BY <1>1 DEF Complete, IInv, CacheRight, TypeOK, EmissionsOf
<1>3. AnswersRight'
  BY <1>1 DEF Complete, Answer, IInv, AnswersRight, TypeOK, EmissionsOf
<1> QED BY <1>2, <1>3, EndedRight DEF Complete, IInv

LEMMA RejectRight ==
  ASSUME TypeOK, IInv, overlapped \subseteq overlapped', NEW c \in Callers, Reject(c)
  PROVE  IInv'
<1>1. CacheRight' /\ AnswersRight'
  BY DEF Reject, IInv, CacheRight, AnswersRight, EmissionsOf
<1> QED BY <1>1, EndedRight DEF Reject, IInv

LEMMA AlwaysRight == Spec /\ History => [](TypeOK /\ IInv)
<1>1. TypeOK /\ IInv /\ Step => IInv'
  <2> SUFFICES ASSUME TypeOK, IInv, [Next]_vars, [RecordOverlap]_<<vars, overlapped>>
               PROVE  IInv'
    BY DEF Step
  <2>1. overlapped \subseteq overlapped'
    BY OverlapGrows
  <2>2. CASE UNCHANGED vars
    BY <2>1, <2>2 DEF vars, IInv, AtFrame, Reads, FoundSoFar, CacheRight,
                      AnswersRight, EmissionsOf
  <2>3. CASE Next
    BY <2>1, <2>3, AskRight, AskGraphRight, MaterializeRight, ReadNodeRight,
       CompleteRight, RejectRight DEF Next, Progress
  <2> QED BY <2>2, <2>3
<1> QED BY <1>1, InitRight, EmissionsTyped, PTL DEF Spec, History, Step

\* Whatever the callers let overlap, the cache holds the effects of a frame as
\* that frame has them, rejected calls included, unless the graph was
\* materialized at another frame while an extraction of this one had nodes
\* left to read (GitWarpAdapter.effectEmissions, extractGitWarpEffectEmissions).
THEOREM CacheCorrect == Spec /\ History => []CacheRight
<1>1. IInv => CacheRight
  BY DEF IInv
<1> QED BY <1>1, AlwaysRight, PTL

\* With the same exception every caller is answered the effects of the frame it
\* asked about, from the cache or from the graph.
THEOREM AnswersCorrect == Spec /\ History => []AnswersRight
<1>1. IInv => AnswersRight
  BY DEF IInv
<1> QED BY <1>1, AlwaysRight, PTL

\* An entry of the cache, once there, does not change but for that overlap.
CacheStays == [][\A f \in Frames \ overlapped' :
                   cache[f] # NotCached => cache'[f] = cache[f]]_vars

\* With the same exception an entry of the cache never changes, although
\* overlapping extractions of its frame each write it.
THEOREM CacheKept == Spec /\ History => CacheStays
<1>1. TypeOK /\ IInv /\ Step
        => [\A f \in Frames \ overlapped' :
              cache[f] # NotCached => cache'[f] = cache[f]]_vars
  <2> SUFFICES ASSUME TypeOK, IInv, Next, overlapped \subseteq overlapped',
                      NEW f \in Frames \ overlapped', cache[f] # NotCached
               PROVE  cache'[f] = cache[f]
    BY OverlapGrows DEF Step
  <2>1. cache' = cache
        \/ (\E g \in Asked : cache[g] = NotCached /\ cache' = [cache EXCEPT ![g] = {}])
        \/ \E c \in Callers : Complete(c)
    BY DEF Next, Progress, AskKnown, AskWithoutCandidates, AskGraph, Materialize,
           ReadNode, Reject
  <2>2. ASSUME NEW c \in Callers, Complete(c) PROVE cache'[f] = cache[f]
    <3>1. calls[c].frame = f => calls[c].found = EmissionsOf(f)
      BY <2>2 DEF Complete, IInv, FoundSoFar
    <3> QED BY <2>2, <3>1 DEF Complete, TypeOK, IInv, CacheRight
  <2> QED BY <2>1, <2>2 DEF TypeOK
<1> QED BY <1>1, AlwaysRight, PTL DEF Spec, History, Step, CacheStays
=============================================================================
