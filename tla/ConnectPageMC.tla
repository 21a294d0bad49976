--------------------------- MODULE ConnectPageMC ---------------------------
(***************************************************************************)
(* A menu of a fixture and the git-warp form; two attempts settle in both  *)
(* orders, and with two disconnects a generation recurs.                   *)
(***************************************************************************)
EXTENDS ConnectPage

MCText == {"cwd", "default"}
============================================================================
