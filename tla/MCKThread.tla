----------------------------- MODULE MCKThread ------------------------------
(* Model-checking instance of KThread: four slots and enough stacks for    *)
(* every slot, more creates than slots so that slots and stacks are reused.*)
EXTENDS KThread, TLC
CONSTANTS s1, s2, s3, s4, s5, s6
MCStack == {s1, s2, s3, s4, s5, s6}
\* Only four for liveness, which is checked without the symmetry.
MCLiveStack == {s1, s2, s3, s4}
StackSymmetry == Permutations(MCStack)
=============================================================================
