------------------------------- MODULE MCBoot -------------------------------
(* Model-checking instance of Boot: a queue of three events.               *)
EXTENDS Boot
=============================================================================
