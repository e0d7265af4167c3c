------------------------------ MODULE MCKHeap -------------------------------
(* Model-checking instance of KHeap: two heaps of a few blocks each.       *)
(* MaxCoalesce is 7 words: two of the smallest blocks merged just reach it,*)
(* any larger merged block passes it and is left unmerged.                 *)
EXTENDS KHeap
MCHeapBase  == [h \in {0, 1} |-> IF h = 0 THEN 12 ELSE 1]
MCHeapLimit == [h \in {0, 1} |-> IF h = 0 THEN 32 ELSE 11]
=============================================================================
