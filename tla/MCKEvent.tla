------------------------------ MODULE MCKEvent ------------------------------
(* Model-checking instance of KEvent: ring and table small enough to fill. *)
EXTENDS KEvent
CONSTANTS k1, c1, f1
MCKeys  == {k1}
MCChars == {c1}
MCCallbacks == {f1}
=============================================================================
