----------------------------- MODULE MCInputPath -----------------------------
(***************************************************************************)
(* Model-checking instance of InputPath: one pad, and one key, mouse       *)
(* button or move of each kind that the host treats differently.           *)
(***************************************************************************)
EXTENDS InputPath

CONSTANTS w, x1, f1

MCSessions == {[client |-> b, host |-> b] : b \in BOOLEAN}
MCKeys == {w}
MCXButtons == {x1}
MCSticks == {0, 1}
MCMoves == {-1, 3}
=============================================================================
