------------------------------ MODULE MCPaging ------------------------------
(* Model-checking instance of Paging: tables of two entries; the user heap  *)
(* has two tables, the kernel has one of its own after the shared one; six  *)
(* frames above low memory, so that faults run out of them in every way.   *)
EXTENDS Paging

\* What was in memory before names a frame of the kernel.
MCDust == [e \in 0 .. Size-1 |-> 1]
=============================================================================
