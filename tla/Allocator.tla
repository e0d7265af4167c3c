----------------------------- MODULE Allocator ------------------------------
(***************************************************************************)
(* What kmalloc and kfree promise their callers: a set of allocations, no  *)
(* two of which share an address, each inside the memory of its kind.      *)
(***************************************************************************)
EXTENDS Integers

CONSTANTS Low, High,   \* heap h has the addresses Low[h] .. High[h] - 1
          Lengths      \* the lengths an allocation may have

VARIABLE allocated     \* set of [addr, len, heap]

Apart(r, s) == r.addr + r.len <= s.addr \/ s.addr + s.len <= r.addr

Init == allocated = {}

Alloc == \E new \in allocated' \ allocated :
            /\ new.len \in Lengths
            /\ Low[new.heap] <= new.addr /\ new.addr + new.len <= High[new.heap]
            /\ \A r \in allocated : Apart(r, new)
            /\ allocated' = allocated \cup {new}

Free == \E r \in allocated : allocated' = allocated \ {r}

Next == Alloc \/ Free

Spec == Init /\ [][Next]_allocated
=============================================================================
