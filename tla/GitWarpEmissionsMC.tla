------------------------- MODULE GitWarpEmissionsMC -------------------------
(***************************************************************************)
(* A history of four frames after genesis.  Frame 1 adds the effect node   *)
(* n1, which frame 2 removes and frame 4 adds again with another kind;     *)
(* frame 2 adds n2, which never has a kind, and n3, which frame 4 removes; *)
(* frame 3 adds no effect node.                                            *)
(***************************************************************************)
EXTENDS GitWarpEmissions, TLC

CONSTANTS n1, n2, n3, k1, k2

MCCandidates ==
  [f \in Frames |->
     CASE f = 1 -> {n1} [] f = 2 -> {n2, n3} [] f = 4 -> {n1} [] OTHER -> {}]

MCKindAt ==
  [n \in EffectNode |->
     [f \in Frames |->
        CASE n = n1 /\ f = 1 -> k1
          [] n = n1 /\ f = 4 -> k2
          [] n = n3 /\ f \in {2, 3} -> k1
          [] OTHER -> NoKind]]

\* Callers that serialize extractions, but for those of one frame.
SameFrame == {<<f, f>> : f \in Frames}

AnyFrames == Frames \X Frames
=============================================================================
