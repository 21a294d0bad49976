----------------------------- MODULE TuiShellMC -----------------------------
(***************************************************************************)
(* Four frames of a worldline, a strand the second one adds and one the    *)
(* third adds: frames with and without counterfactual sites, a lane of the *)
(* tree without a site, two sites on one lane.                             *)
(***************************************************************************)
EXTENDS TuiShell

CONSTANTS main, side, sandbox

\* Up, down; left, right.
MCMoves == {-1, 1}

MCLanesAt ==
  [f \in Frames |-> CASE f = 0 -> {main} [] f = 1 -> {main, side}
                      [] f > 1 -> {main, side, sandbox}]

MCSitesAt ==
  [f \in Frames |-> CASE f < 2 -> <<main>> [] f = 2 -> <<main, sandbox>>
                      [] f = 3 -> <<main, main, sandbox>>]

MCTreeAt ==
  [f \in Frames |-> CASE f = 0 -> <<main>> [] f = 1 -> <<main, side>>
                      [] f = 2 -> <<main, sandbox>> [] f = 3 -> <<main, side, sandbox>>]
=============================================================================
