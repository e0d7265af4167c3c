----------------------------- MODULE RingBuffer -----------------------------
(***************************************************************************)
(* lib/ringbuffer/ringbuffer.c: the byte ring shared by the kernel event   *)
(* queue (kernel/kevent.c) and the serial transmitter (drivers/serial.c).  *)
(*                                                                         *)
(* A ring is the record ringbuffer_t: `data' is the storage, one entry per *)
(* element of elem_size bytes, `head' the slot the next rb_put fills,      *)
(* `tail' the slot the next rb_get empties.  One slot always stays unused, *)
(* so head = tail can only mean "empty".                                   *)
(*                                                                         *)
(* The operators are the uninterrupted calls.  A client whose call can be  *)
(* interrupted takes the parts (rb_empty, the copy, Advance) as steps of   *)
(* its own.                                                                *)
(***************************************************************************)
EXTENDS Integers, Sequences

rb_init(contents, n) == [data |-> contents, head |-> 0, tail |-> 0, size |-> n]

rb_empty(rb) == rb.head = rb.tail

\* Mutant: no slot is kept free, "full" is never reported.
rb_full_never(rb) == FALSE

rb_full(rb) == rb.size # 0 /\ (rb.head + 1) % rb.size = rb.tail

\* The index that follows i.
NextSlot(rb, i) == (i + 1) % rb.size

Fill(rb, e) == [rb EXCEPT !.data = [rb.data EXCEPT ![rb.head] = e]]

AdvanceHead(rb) == [rb EXCEPT !.head = NextSlot(rb, rb.head)]

AdvanceTail(rb) == [rb EXCEPT !.tail = NextSlot(rb, rb.tail)]

\* rb_put: the ring after the call; unchanged when the ring is full.
rb_put(rb, e) == IF rb_full(rb) THEN rb ELSE AdvanceHead(Fill(rb, e))

\* rb_get returns 1 on an empty ring; otherwise it hands out rb_first.
rb_first(rb) == rb.data[rb.tail]

rb_get(rb) == IF rb_empty(rb) THEN rb ELSE AdvanceTail(rb)

-----------------------------------------------------------------------------
(***************************************************************************)
(* What a ring holds, oldest element first.  Defined without the modulo of *)
(* the code, so that it can serve as the reference the code is compared to.*)
(***************************************************************************)
Ring(n, E) == [data : [0 .. n-1 -> E], head : 0 .. n-1, tail : 0 .. n-1, size : {n}]

RbCount(rb) == IF rb.head >= rb.tail THEN rb.head - rb.tail
                                     ELSE rb.head - rb.tail + rb.size

RbSlot(rb, k) == IF rb.tail + k < rb.size THEN rb.tail + k
                                          ELSE rb.tail + k - rb.size

RbSeq(rb) == [k \in 1 .. RbCount(rb) |-> rb.data[RbSlot(rb, k - 1)]]
=============================================================================
