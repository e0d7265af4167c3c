------------------------------- MODULE MCPs2 --------------------------------
(* Model-checking instance of Ps2: a letter (A, 30), a digit (1, code 2),   *)
(* both shift keys, caps lock and the up arrow.                             *)
EXTENDS Ps2
=============================================================================
