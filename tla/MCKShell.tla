------------------------------ MODULE MCKShell ------------------------------
(* Model-checking instance of KShell: lines of at most two characters, the  *)
(* NUL of a serial line among them, a history of two entries.               *)
EXTENDS KShell
=============================================================================
