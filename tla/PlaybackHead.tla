--------------------------- MODULE PlaybackHead ---------------------------
(***************************************************************************)
(* The playback head of a TtdHostAdapter: a cursor over the frames         *)
(* 0..MaxFrame of one recorded history.  The three in-repository adapters  *)
(* (git-warp, Echo fixture, scenario fixture) move it the same way: the    *)
(* step controls saturate at the ends and a seek is clamped, so a move     *)
(* never fails and never leaves the history.                               *)
(***************************************************************************)
EXTENDS Integers

CONSTANT MaxFrame      \* index of the last frame; frame 0 always exists

ASSUME MaxFrameAssumption == MaxFrame \in Nat

Frames == 0 .. MaxFrame

Lesser(a, b)  == IF a <= b THEN a ELSE b
Greater(a, b) == IF a >= b THEN a ELSE b

Forward(index)   == Lesser(index + 1, MaxFrame)
Backward(index)  == Greater(index - 1, 0)
\* Mutant: a seek past the last frame is not clamped.
ClampUnbounded(requested) == Greater(0, requested)

Clamp(requested) == Greater(0, Lesser(requested, MaxFrame))
===========================================================================
