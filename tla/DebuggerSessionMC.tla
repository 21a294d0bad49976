------------------------- MODULE DebuggerSessionMC -------------------------
(***************************************************************************)
(* Small hosts for DebuggerSession: a history of three frames (or two),    *)
(* the deliveries and the published facts chosen so that each way of       *)
(* matching or missing them occurs.                                        *)
(***************************************************************************)
EXTENDS DebuggerSession

CONSTANTS c1, c2, o1, o2, o3, e1, e2, e3

\* A seek below, inside and above the history.
MCRequests == {-1, 1, MaxFrame + 1}

GitWarpCapabilities == {"READ_RECEIPTS", "READ_EFFECT_EMISSIONS"}

\* Everything; nothing optional; the git-warp adapter's set.
MixedCapabilities == {Capability, {}, GitWarpCapabilities}

OnlyGitWarp == {GitWarpCapabilities}

FullAndGitWarp == {Capability, GitWarpCapabilities}

\* Every promise may take a turn.
AllSuspending == [h \in HostCapabilities |-> Stages]

\* The git-warp adapter awaits in effectEmissions alone; a full host is slow in
\* its frame too: the head may move between any two of head and frame, receipts
\* and emissions, observations and facts.
SomeSuspending ==
  [h \in HostCapabilities |->
     IF h = GitWarpCapabilities THEN {"emissions"} ELSE {"frame", "emissions"}]

\* Frame 0 is the genesis frame.  o3 names an emission its host does not
\* report.
MCEmissionsAt == [f \in Frames |-> CASE f = 0 -> {} [] f = 1 -> {e1} [] f = 2 -> {e2}]

MCObservationsAt ==
  [f \in Frames |->
     CASE f = 0 -> {}
       [] f = 1 -> {[id |-> o1, emission |-> e1], [id |-> o3, emission |-> e3]}
       [] f = 2 -> {[id |-> o2, emission |-> e2]}]

\* Two frames whose lists can be mixed up in one snapshot: every delivery
\* names the emission of its frame.
TwoFramesObserved ==
  [f \in Frames |->
     CASE f = 0 -> {}
       [] f = 1 -> {[id |-> o1, emission |-> e1]}
       [] f = 2 -> {[id |-> o2, emission |-> e2]}]

Fact(family, target, posture) ==
  [family |-> family, target |-> target, about |-> target, posture |-> posture]

\* The host answers with facts about other frames too, before the one asked
\* for, with a payload that does not hydrate, and with one it does not have.
MCHostFacts ==
  [f \in Frames |->
     CASE f = 0 -> <<Fact("neighborhoodCore", 1, "hydrates"),
                     Fact("neighborhoodCore", 0, "hydrates"),
                     Fact("receiptShell", 0, "malformed")>>
       [] f = 1 -> <<Fact("reintegrationDetail", 0, "hydrates"),
                     Fact("reintegrationDetail", 1, "hydrates"),
                     Fact("neighborhoodCore", 1, "unavailable"),
                     Fact("receiptShell", 1, "hydrates")>>
       [] f = 2 -> <<Fact("receiptShell", 1, "hydrates")>>]

\* A host whose envelope for frame 1 holds a payload about frame 0.
MisdescribedFacts ==
  [f \in Frames |->
     IF f # 1 THEN MCHostFacts[f]
     ELSE [k \in DOMAIN MCHostFacts[f] |-> [MCHostFacts[f][k] EXCEPT !.about = 0]]]
============================================================================
