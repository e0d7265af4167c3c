------------------------------- MODULE KHeap --------------------------------
(***************************************************************************)
(* kernel/kmalloc.c: two heaps of blocks with boundary tags.               *)
(*                                                                         *)
(* Addresses and sizes count words of 4 bytes.  A block is a header of two *)
(* words (size, flags), the payload, and a footer of one word that points  *)
(* back to the header.  mem holds the tags that are in memory: size[b] of  *)
(* a header at b, foot[a] of a footer at a, and the headers whose flags    *)
(* have MEM_PRESENT (used) and, while present, MEM_USER (user).  Where no  *)
(* tag was written memory holds payloads, which can be anything: size and  *)
(* foot are not defined there, and a step that read them would be an error.*)
(*                                                                         *)
(* kmalloc is one step per turn of its loop, so that a walk that misses a  *)
(* block or never ends would show; kfree is one step.  Calls do not        *)
(* overlap: the code takes no lock, and in the kernel as it boots only one *)
(* thread uses the heap at a time (module Boot).                           *)
(***************************************************************************)
EXTENDS Integers

CONSTANTS HeapBase,      \* heap_base: HeapBase[0] kernel heap, HeapBase[1] user heap
          HeapLimit,     \* bound: where the model stops growing a heap; the code never does
          MaxCoalesce,   \* MAX_COALESCE, 16384 words in the code
          Sizes          \* the sizes, in bytes, that callers ask for

Heaps == {0, 1}

ASSUME HeapAssumption ==
    /\ HeapBase \in [Heaps -> Nat \ {0}]
    /\ HeapLimit \in [Heaps -> Nat]
    /\ \A h \in Heaps : HeapBase[h] <= HeapLimit[h]
    /\ HeapLimit[1] <= HeapBase[0]
ASSUME SizeAssumption == Sizes \subseteq Nat \ {0} /\ MaxCoalesce \in Nat

Addr == 0 .. HeapLimit[0]

Header   == 2
Footer   == 1
MinSplit == Header + 2 + Footer

VARIABLES mem, heap_ptr,
          pc, c, heap_idx, a_size,   \* kmalloc: position, walking pointer, its heap and size
          want, wanted               \* the bytes this call, and the owner of a block, asked for

call == <<pc, c, heap_idx, a_size, want>>
vars == <<mem, heap_ptr, call, wanted>>

\* A word of memory is written; or it becomes payload and loses its meaning.
Write(f, a, v) == [x \in DOMAIN f \cup {a} |-> IF x = a THEN v ELSE f[x]]
Forget(f, a)   == [x \in DOMAIN f \ {a} |-> f[x]]

Blocks(m) == DOMAIN m.size

\* The address after block b.
After(m, b) == b + Header + m.size[b] + Footer

\* _kheap_init
Init == /\ mem = [size |-> [a \in {} |-> 0], used |-> {}, user |-> {},
                  foot |-> [a \in {} |-> 0]]
        /\ heap_ptr = HeapBase
        /\ pc = "idle" /\ c = 0 /\ heap_idx = 0 /\ a_size = 0 /\ want = 0
        /\ wanted = [a \in {} |-> 0]

-----------------------------------------------------------------------------
(* kmalloc(size, flags).  A size of 0 returns NULL and changes nothing.    *)

\* (size + 7) & ~7, in words.
Words(size) == 2 * ((size + 7) \div 8)

Malloc == /\ pc = "idle"
          /\ pc' = "walk"
          /\ heap_idx' \in Heaps
          /\ want' \in Sizes
          /\ a_size' = Words(want')
          /\ c' = HeapBase[heap_idx']
          /\ UNCHANGED <<mem, heap_ptr, wanted>>

Fits(b) == b \notin mem.used /\ mem.size[b] >= a_size

\* MEM_USER is set in the flags of block b when this call asks for it.
user_bit(b) == IF heap_idx = 1 THEN {b} ELSE {}

\* The flags of block b are overwritten: present, of the heap asked for.
Claim(m, b) == [size |-> m.size, used |-> m.used \cup {b},
                user |-> m.user \cup user_bit(b), foot |-> m.foot]

\* Mutant: the old footer goes on pointing to the first part.
Split_footer(m, b, a) ==
    LET new == b + Header + a + Footer
    IN  [size |-> Write(Write(m.size, new, m.size[b] - a - Header - Footer), b, a),
         used |-> m.used, user |-> m.user,
         foot |-> Write(m.foot, new - Footer, b)]

\* Block b keeps a words, the rest becomes a free block.
Split(m, b, a) ==
    LET new == b + Header + a + Footer
    IN  [size |-> Write(Write(m.size, new, m.size[b] - a - Header - Footer), b, a),
         used |-> m.used, user |-> m.user,
         foot |-> Write(Write(m.foot, new - Footer, b), b + Header + m.size[b], new)]

Splittable(b) == mem.size[b] - a_size >= MinSplit

\* The call is over, and its locals with it.
Over == pc' = "idle" /\ c' = 0 /\ heap_idx' = 0 /\ a_size' = 0 /\ want' = 0

Return(b) == Over /\ wanted' = Write(wanted, b, want)

\* The loop found a block: it is taken, and split when that is worth while.
Take == /\ pc = "walk"
        /\ c < heap_ptr[heap_idx] /\ Fits(c)
        /\ mem' = IF Splittable(c) THEN Split(Claim(mem, c), c, a_size) ELSE Claim(mem, c)
        /\ Return(c)
        /\ UNCHANGED heap_ptr

\* Mutant: the search ends behind the first block that does not fit.
Walk_short == /\ pc = "walk"
              /\ c < heap_ptr[heap_idx] /\ ~ Fits(c)
              /\ c' = heap_ptr[heap_idx]
              /\ UNCHANGED <<mem, heap_ptr, pc, heap_idx, a_size, want, wanted>>

Walk == /\ pc = "walk"
        /\ c < heap_ptr[heap_idx] /\ ~ Fits(c)
        /\ c' = After(mem, c)
        /\ UNCHANGED <<mem, heap_ptr, pc, heap_idx, a_size, want, wanted>>

\* A new block at the end of the heap.
NewBlock(m, b, a) ==
    [size |-> Write(m.size, b, a), used |-> m.used, user |-> m.user,
     foot |-> Write(m.foot, b + Header + a, b)]

GrownPtr == heap_ptr[heap_idx] + Header + a_size + Footer

Grow == /\ pc = "walk"
        /\ c >= heap_ptr[heap_idx]
        /\ GrownPtr <= HeapLimit[heap_idx]
        /\ mem' = NewBlock(Claim(mem, heap_ptr[heap_idx]), heap_ptr[heap_idx], a_size)
        /\ heap_ptr' = [heap_ptr EXCEPT ![heap_idx] = GrownPtr]
        /\ Return(heap_ptr[heap_idx])

\* The bound: the model lets go of a call that would pass HeapLimit.
Bound == /\ pc = "walk"
         /\ c >= heap_ptr[heap_idx]
         /\ GrownPtr > HeapLimit[heap_idx]
         /\ Over
         /\ UNCHANGED <<mem, heap_ptr, wanted>>

kmalloc == Malloc \/ Take \/ Walk \/ Grow \/ Bound

-----------------------------------------------------------------------------
(* kfree of the payload of block b.                                        *)

\* Mutant: the footer of a merged block keeps pointing to its right part.
Merge_nofooter(m, l, r) ==
    [size |-> Forget(Write(m.size, l, m.size[l] + Footer + Header + m.size[r]), r),
     used |-> m.used, user |-> m.user,
     foot |-> Forget(m.foot, r - Footer)]

\* Block r, just behind l, becomes part of l.
Merge(m, l, r) ==
    LET size == m.size[l] + Footer + Header + m.size[r]
    IN  [size |-> Forget(Write(m.size, l, size), r),
         used |-> m.used, user |-> m.user,
         foot |-> Write(Forget(m.foot, r - Footer), l + Header + size, l)]

Unclaim(m, b) == [size |-> m.size, used |-> m.used \ {b},
                  user |-> m.user \ {b}, foot |-> m.foot]

\* Mutant: the neighbour is merged whether it is in use or not.
Mergeable_used(m, b) == m.size[b] <= MaxCoalesce

Mergeable(m, b) == b \notin m.used /\ m.size[b] <= MaxCoalesce

\* The heap a header says its block belongs to.
HeapOf(m, b) == IF b \in m.user THEN 1 ELSE 0

\* Mutant: a block is only ever merged with its left neighbour.
MergeRight_never(m, b, h) == m

MergeRight(m, b, h) ==
    IF After(m, b) < heap_ptr[h] /\ Mergeable(m, After(m, b))
    THEN Merge(m, b, After(m, b)) ELSE m

MergeLeft(m, b, h) ==
    IF b > HeapBase[h] /\ Mergeable(m, m.foot[b - Footer])
    THEN Merge(m, m.foot[b - Footer], b) ELSE m

\* Only what kmalloc returned, and not yet freed, is freed; kfree(NULL) and a
\* block that is not present change nothing.
kfree(b) == /\ pc = "idle"
            /\ b \in mem.used
            /\ LET h == HeapOf(mem, b)
               IN  mem' = MergeLeft(MergeRight(Unclaim(mem, b), b, h), b, h)
            /\ wanted' = Forget(wanted, b)
            /\ UNCHANGED <<heap_ptr, call>>

Next == kmalloc \/ \E b \in Blocks(mem) : kfree(b)

Spec == Init /\ [][Next]_vars

-----------------------------------------------------------------------------
(* Properties.                                                             *)

InHeap(m, h, p) == {b \in Blocks(m) : HeapBase[h] <= b /\ b < p}
Feet(m) == {After(m, b) - Footer : b \in Blocks(m)}

\* Shape of the state; there is a tag exactly where a block has one.
TypeOK ==
    /\ Blocks(mem) \subseteq Addr
    /\ mem \in [size : [Blocks(mem) -> Nat], used : SUBSET Blocks(mem),
                user : SUBSET mem.used, foot : [Feet(mem) -> Blocks(mem)]]
    /\ heap_ptr \in [Heaps -> Addr]
    /\ \A h \in Heaps : HeapBase[h] <= heap_ptr[h] /\ heap_ptr[h] <= HeapLimit[h]
    /\ pc \in {"idle", "walk"}
    /\ c \in Addr /\ heap_idx \in Heaps /\ a_size \in Nat /\ want \in Sizes \cup {0}
    /\ wanted \in [mem.used -> Sizes]

\* The blocks of a heap tile it from its base to heap_ptr, whatever was split
\* and merged: every block ends where the next begins, its footer points back
\* to it, and the footer in front of it points to a block that ends there.
Tiled(m, h, p) ==
    /\ HeapBase[h] < p
          => /\ HeapBase[h] \in Blocks(m)
             /\ LET l == m.foot[p - Footer] IN l \in InHeap(m, h, p) /\ After(m, l) = p
    /\ \A b \in InHeap(m, h, p) :
          /\ After(m, b) \in InHeap(m, h, p) \cup {p}
          /\ m.foot[After(m, b) - Footer] = b
          /\ \A d \in InHeap(m, h, p) : b < d => After(m, b) <= d
          /\ b # HeapBase[h] => LET l == m.foot[b - Footer]
                                IN  l \in InHeap(m, h, p) /\ After(m, l) = b

HeapTiled == \A h \in Heaps : Tiled(mem, h, heap_ptr[h])

\* Every block is in one of the heaps, and one that is in use says in which.
BlocksKnowTheirHeap ==
    \A b \in Blocks(mem) : \E h \in Heaps :
        /\ b \in InHeap(mem, h, heap_ptr[h])
        /\ b \in mem.used => HeapOf(mem, b) = h

\* What a caller got is as large as what it asked for, in the memory it asked
\* for, and no call that follows gives any part of it to somebody else.
allocation(b) == [addr |-> 4 * (b + Header), len |-> wanted[b], heap |-> HeapOf(mem, b)]

Memory == INSTANCE Allocator WITH
    Low  <- [h \in Heaps |-> 4 * HeapBase[h]],
    High <- [h \in Heaps |-> 4 * HeapLimit[h]],
    Lengths <- Sizes,
    allocated <- {allocation(b) : b \in mem.used}

ImplementsAllocator == Memory!Spec

\* Splitting never leaves less than a block, merging never makes one that
\* reaches into the next: a block in use is large enough for its owner.
OwnersHaveRoom == \A b \in mem.used : wanted[b] <= 4 * mem.size[b]

\* The heap grows only when no free block of it is large enough: the walk,
\* which follows the sizes and not the blocks, misses none.
NoNeedlessGrowth ==
    [][heap_ptr' # heap_ptr
        => \A b \in InHeap(mem, heap_idx, heap_ptr[heap_idx]) : ~ Fits(b)]_vars

\* Block b of heap h and the block behind it are both free; an address where
\* two free blocks of a heap meet; a block that kfree does not merge.
FreePair(m, p, h, b) == /\ b \in InHeap(m, h, p[h]) /\ After(m, b) < p[h]
                        /\ b \notin m.used /\ After(m, b) \notin m.used
Seam(m, p, a) == \E h \in Heaps : \E b \in Blocks(m) : FreePair(m, p, h, b) /\ After(m, b) = a
Large(m, b) == m.size[b] > MaxCoalesce

\* Free memory comes together again: kfree looks at both sides, and a split
\* leaves its rest next to a block in use or where two free blocks met before.
\* Two free blocks come to meet at a new place only when one of them is larger
\* than MAX_COALESCE, and so is left unmerged.
FreeMemoryMerges ==
    [][\A h \in Heaps : \A b \in Blocks(mem') :
          FreePair(mem', heap_ptr', h, b) /\ ~ Seam(mem, heap_ptr, After(mem', b))
             => Large(mem', b) \/ Large(mem', After(mem', b))]_vars
=============================================================================
