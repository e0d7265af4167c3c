------------------------------- MODULE Paging -------------------------------
(***************************************************************************)
(* arch/x86/mm.c: the page directory kpagedir that every thread runs on,   *)
(* the page tables, the bitmap of frames, and demand mapping: a page fault *)
(* on a page that is not present maps a new frame there, whatever the      *)
(* address.                                                                *)
(*                                                                         *)
(* A virtual page is a pair <<d, e>>: the directory entry and the entry of *)
(* the table it leads to.  Page tables are written through the recursive   *)
(* entry of the directory (PTAB); here they are named by their frame, and  *)
(* accesses of programs to that window, the last directory entry, are left *)
(* out.  page_fault runs with interrupts disabled and is one step.  When   *)
(* it fails, exception_handler stops the processor.                        *)
(***************************************************************************)
EXTENDS Integers, FiniteSets

CONSTANTS Frames,       \* number of page frames: MAX_PAGES, 2^20
          Size,         \* entries of a table, and frames of low memory: 1024
          Dirs,         \* directory entries but for the recursive one: 1023
          UserFirst,    \* i_pdir(0x10000000): the user heap starts here ...
          Kernel,       \* ... and ends at i_pdir(0xC0000000), the higher half
          IdTab,        \* the frame pagetab_id is in
          Dust          \* what a frame holds before its first use, read as a table

ASSUME SizeAssumption == Frames \in Nat /\ Size \in Nat /\ 1 < Size /\ Size <= Frames
ASSUME LayoutAssumption == /\ {Dirs, UserFirst, Kernel} \subseteq Nat
                           /\ 0 < UserFirst /\ UserFirst < Kernel /\ Kernel < Dirs
ASSUME TableAssumption == IdTab \in 1 .. Size-1 /\ Dust \in [0 .. Size-1 -> -1 .. Frames-1]

Frame  == 0 .. Frames-1
Low    == 0 .. Size-1
Dir    == 0 .. Dirs-1
Index  == 0 .. Size-1
Page   == Dir \X Index
None   == -1                     \* the entry is not present
Flags  == SUBSET {"RW", "USER"}

VARIABLES used,       \* bitmap
          pdir, dflags,   \* kpagedir: the table's frame, and its flags
          ptab, pflags,   \* ptab[<<f, e>>], pflags[<<f, e>>]: the same for entry e of table f
          halted

vars == <<used, pdir, dflags, ptab, pflags, halted>>

\* The table of page v, and the frame v is mapped to.
TableOf(v)   == pdir[v[1]]
Translate(v) == IF TableOf(v) = None THEN None ELSE ptab[<<TableOf(v), v[2]>>]

-----------------------------------------------------------------------------
\* _mm_init: low memory is identity-mapped and also mapped at the higher half,
\* by one table, but for the first page.
Init ==
    /\ used   = Low
    /\ pdir   = [d \in Dir |-> IF d \in {0, Kernel} THEN IdTab ELSE None]
    /\ dflags = [d \in Dir |-> IF d = Kernel THEN {"RW"} ELSE {}]
    /\ ptab   = [p \in Frame \X Index |-> IF p[1] # IdTab THEN Dust[p[2]] ELSE IF p[2] = 0 THEN None ELSE p[2]]
    /\ pflags = [p \in Frame \X Index |-> IF p[1] # IdTab THEN {"RW"} ELSE IF p[2] = 0 THEN {} ELSE {"RW"}]
    /\ halted = FALSE

Free == Frame \ used

\* alloc_page returns the lowest frame of those that are free.
alloc_page(f, S) == f \in S /\ \A g \in S : f <= g

\* Mutant: the upper end of the user's addresses is not looked at.
kmem_is_user_above(v, first) == UserFirst <= v[1]

\* __kmem_is_user: 0x10000000 up to and including 0xC0000000.  `first' says
\* that the address is the first byte of the page.
kmem_is_user(v, first) == \/ (UserFirst <= v[1] /\ v[1] < Kernel)
                          \/ (v = <<Kernel, 0>> /\ first)

FlagsFor(v, first) == IF kmem_is_user(v, first) THEN {"RW", "USER"} ELSE {"RW"}

-----------------------------------------------------------------------------
(* page_fault, for an address on page v that is not present.               *)

Fault(v) == ~ halted /\ Translate(v) = None

Stop == halted' = TRUE /\ UNCHANGED <<pdir, dflags, ptab, pflags>>

OutOfFrames(v) == Fault(v) /\ Free = {} /\ Stop /\ UNCHANGED used

\* The address is NULL: map_page refuses it, the frame is already taken.
NullFault(v, first) ==
    /\ Fault(v) /\ v = <<0, 0>> /\ first
    /\ \E phys \in Free : alloc_page(phys, Free) /\ used' = used \cup {phys}
    /\ Stop

\* Mutant: the table is left as it was.
Write_dusty(t, v, phys, flags) ==
    /\ ptab'   = [ptab   EXCEPT ![<<t, v[2]>>] = phys]
    /\ pflags' = [pflags EXCEPT ![<<t, v[2]>>] = flags]

\* Mutant: every table is cleared.
Write_clears(t, v, phys, flags) ==
    /\ ptab'   = [p \in Frame \X Index |-> IF p = <<t, v[2]>> THEN phys
                                            ELSE IF p[1] = t THEN None ELSE ptab[p]]
    /\ pflags' = [pflags EXCEPT ![<<t, v[2]>>] = flags]

\* map_page writes the entry; a new table, one that the directory does not
\* name yet, is cleared before.
Write(t, v, phys, flags) ==
    /\ ptab'   = [p \in Frame \X Index |-> IF p = <<t, v[2]>> THEN phys
                                            ELSE IF p[1] = t /\ TableOf(v) = None THEN None ELSE ptab[p]]
    /\ pflags' = [p \in Frame \X Index |-> IF p = <<t, v[2]>> THEN flags
                                            ELSE IF p[1] = t /\ TableOf(v) = None THEN {} ELSE pflags[p]]

\* Mutant: a frame for a table is taken before the directory is looked at.
MapInTable_takes_two(v, first) ==
    /\ Fault(v) /\ ~ (v = <<0, 0>> /\ first) /\ TableOf(v) # None
    /\ \E phys \in Free : \E page \in Free \ {phys} :
          /\ used' = used \cup {phys, page}
          /\ Write(TableOf(v), v, phys, FlagsFor(v, first))
    /\ dflags' = [dflags EXCEPT ![v[1]] = @ \cup (FlagsFor(v, first) \ {"RW"})]
    /\ UNCHANGED <<pdir, halted>>

\* map_page, when the directory names a table for v.
MapInTable(v, first) ==
    /\ Fault(v) /\ ~ (v = <<0, 0>> /\ first) /\ TableOf(v) # None
    /\ \E phys \in Free :
          /\ alloc_page(phys, Free)
          /\ used' = used \cup {phys}
          /\ Write(TableOf(v), v, phys, FlagsFor(v, first))
    /\ dflags' = [dflags EXCEPT ![v[1]] = @ \cup (FlagsFor(v, first) \ {"RW"})]
    /\ UNCHANGED <<pdir, halted>>

\* Mutant: the frame of the table stays free.
MapNewTable_forgets(v, first) ==
    /\ Fault(v) /\ TableOf(v) = None
    /\ \E phys \in Free : \E page \in Free \ {phys} :
          /\ alloc_page(phys, Free) /\ alloc_page(page, Free \ {phys})
          /\ used' = used \cup {phys}
          /\ pdir' = [pdir EXCEPT ![v[1]] = page]
          /\ Write(page, v, phys, FlagsFor(v, first))
    /\ dflags' = [dflags EXCEPT ![v[1]] = FlagsFor(v, first)]
    /\ UNCHANGED halted

\* Mutant: the directory entry of a user page is the kernel's.
MapNewTable_kernel(v, first) ==
    /\ Fault(v) /\ TableOf(v) = None
    /\ \E phys \in Free : \E page \in Free \ {phys} :
          /\ alloc_page(phys, Free) /\ alloc_page(page, Free \ {phys})
          /\ used' = used \cup {phys, page}
          /\ pdir' = [pdir EXCEPT ![v[1]] = page]
          /\ Write(page, v, phys, FlagsFor(v, first))
    /\ dflags' = [dflags EXCEPT ![v[1]] = {"RW"}]
    /\ UNCHANGED halted

\* map_page, when it does not: a second frame becomes the table.
MapNewTable(v, first) ==
    /\ Fault(v) /\ TableOf(v) = None
    /\ \E phys \in Free : \E page \in Free \ {phys} :
          /\ alloc_page(phys, Free) /\ alloc_page(page, Free \ {phys})
          /\ used' = used \cup {phys, page}
          /\ pdir' = [pdir EXCEPT ![v[1]] = page]
          /\ Write(page, v, phys, FlagsFor(v, first))
    /\ dflags' = [dflags EXCEPT ![v[1]] = FlagsFor(v, first)]
    /\ UNCHANGED halted

NoFrameForTable(v) == /\ Fault(v) /\ TableOf(v) = None
                      /\ \E phys \in Free : Free = {phys} /\ used' = used \cup {phys}
                      /\ Stop

\* The page is present and does not allow the access of a user program.
UserMay(v) == /\ Translate(v) # None
              /\ "USER" \in dflags[v[1]] /\ "USER" \in pflags[<<TableOf(v), v[2]>>]

Protection(v) == /\ ~ halted /\ Translate(v) # None /\ ~ UserMay(v)
                 /\ Stop /\ UNCHANGED used

page_fault == \E v \in Page, first \in BOOLEAN :
    OutOfFrames(v) \/ NullFault(v, first) \/ MapInTable(v, first) \/ MapNewTable(v, first)
                   \/ NoFrameForTable(v) \/ Protection(v)

Next == page_fault

Spec == Init /\ [][Next]_vars

-----------------------------------------------------------------------------
(* Properties.                                                             *)

TypeOK ==
    /\ used \subseteq Frame
    /\ pdir \in [Dir -> Frame \cup {None}] /\ dflags \in [Dir -> Flags]
    /\ ptab \in [Frame \X Index -> Frame \cup {None}] /\ pflags \in [Frame \X Index -> Flags]
    /\ halted \in BOOLEAN

\* The two views of low memory are meant to be the same.
SameView(v, w) == v[2] = w[2] /\ {v[1], w[1]} \subseteq {0, Kernel}

\* No frame is mapped at two pages: what is written to one page is never seen
\* at another.
NoAlias == \A v, w \in Page :
    (Translate(v) # None /\ Translate(v) = Translate(w)) => (v = w \/ SameView(v, w))

\* No page shows a page table that map_page has made, so no program can
\* change the mapping by writing to memory.
TablesPrivate == \A v \in Page, d \in Dir \ {0, Kernel} : pdir[d] # None => Translate(v) # pdir[d]

\* A user program reaches the pages of the user heap and nothing of low
\* memory, where the kernel is.  One page is outside: that of the address
\* 0xC0000000, which __kmem_is_user still counts as the user's.
UserConfined == \A v \in Page : UserMay(v) =>
    /\ Translate(v) \notin Low
    /\ (UserFirst <= v[1] /\ v[1] < Kernel) \/ v = <<Kernel, 0>>

\* A page of the user heap that is present is one a user program may use: the
\* access that faulted goes through when it is repeated, and does not stop the
\* machine because the kernel had touched the page, or its table, first.
UserPagesUsable == \A v \in Page :
    (UserFirst <= v[1] /\ v[1] < Kernel /\ Translate(v) # None)
        => UserMay(v) /\ "RW" \in dflags[v[1]] \cap pflags[<<TableOf(v), v[2]>>]

\* The frames taken are low memory, what is mapped and the tables: none is
\* lost, except by a fault that stops the machine.
NoFrameLost == ~ halted =>
    used = Low \cup ({Translate(v) : v \in Page} \ {None}) \cup ({pdir[d] : d \in Dir} \ {None})

\* A page that is present stays where it is: the kernel and every block of the
\* heaps keep their contents whatever is touched later.
MappedStays == [][\A v \in Page : Translate(v) # None => Translate(v)' = Translate(v)]_vars
=============================================================================
