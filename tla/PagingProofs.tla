---------------------------- MODULE PagingProofs ----------------------------
(***************************************************************************)
(* Proofs about Paging, for every number of frames, every table size, every*)
(* layout and whatever memory held before.                                 *)
(*                                                                         *)
(* The inductive invariant speaks of entries, not of pages: what the       *)
(* directory names, what the tables it names hold, and how the frames of   *)
(* both differ.                                                            *)
(***************************************************************************)
EXTENDS Paging, TLAPS

\* The directory entries whose table map_page makes.
Own == Dir \ {0, Kernel}

\* The directory: the shared table, and tables of their own elsewhere.
DirOK == /\ pdir[0] = IdTab /\ pdir[Kernel] = IdTab
         /\ \A d \in Own : pdir[d] # None => pdir[d] \in used /\ pdir[d] \notin Low
         /\ \A c, d \in Own : (pdir[c] # None /\ pdir[c] = pdir[d]) => c = d

\* The tables in use: entries name frames in use, of low memory only where the
\* shared table has its own.
TabOK == \A d \in Dir, e \in Index : pdir[d] # None =>
            /\ ptab[<<pdir[d], e>>] # None => ptab[<<pdir[d], e>>] \in used
            /\ IF pdir[d] = IdTab /\ e # 0 THEN ptab[<<pdir[d], e>>] = e
                                          ELSE ptab[<<pdir[d], e>>] \notin Low

\* Two entries of tables in use never name the same frame.
ApartOK == \A c, d \in Dir, e, g \in Index :
    (pdir[c] # None /\ pdir[d] # None /\ ptab[<<pdir[c], e>>] # None
       /\ ptab[<<pdir[c], e>>] = ptab[<<pdir[d], g>>]) => pdir[c] = pdir[d] /\ e = g

\* Nor a table.
PrivOK == \A c \in Own, d \in Dir, e \in Index :
    (pdir[c] # None /\ pdir[d] # None) => ptab[<<pdir[d], e>>] # pdir[c]

\* What users may do.
UserOK == /\ \A d \in Dir : "USER" \in dflags[d] => UserFirst <= d /\ d <= Kernel
          /\ \A e \in Index : "USER" \in pflags[<<IdTab, e>>] => e = 0
          /\ \A d \in Dir, e \in Index : (UserFirst <= d /\ d < Kernel /\ pdir[d] # None) =>
                /\ "USER" \in dflags[d] /\ "RW" \in dflags[d]
                /\ ptab[<<pdir[d], e>>] # None =>
                      "USER" \in pflags[<<pdir[d], e>>] /\ "RW" \in pflags[<<pdir[d], e>>]

\* Every frame taken is of low memory, a table, or in a table.
KeptOK == ~ halted => \A f \in used : \/ f \in Low
                                      \/ \E d \in Dir : pdir[d] = f
                                      \/ \E d \in Dir, e \in Index : pdir[d] # None /\ ptab[<<pdir[d], e>>] = f

IInv == TypeOK /\ Low \subseteq used /\ DirOK /\ TabOK /\ ApartOK /\ PrivOK /\ UserOK /\ KeptOK

\* The arithmetic of the layout.
LEMMA Layout == /\ 0 \in Dir /\ Kernel \in Dir /\ 0 # Kernel
                /\ IdTab \in Frame /\ IdTab \in Low /\ 0 \in Index /\ Low = Index
                /\ Low \subseteq Frame /\ None \notin Frame /\ None \notin Low
                /\ Own \subseteq Dir
BY SizeAssumption, LayoutAssumption, TableAssumption, SMT
   DEF Dir, Frame, Low, Index, Own, None

-----------------------------------------------------------------------------
LEMMA InitOK == Init => IInv
<1> SUFFICES ASSUME Init PROVE IInv
    OBVIOUS
<1> USE Layout
<1>d. \A d \in Dir : pdir[d] = IF d \in {0, Kernel} THEN IdTab ELSE None
    BY DEF Init
<1>p. \A e \in Index : ptab[<<IdTab, e>>] = IF e = 0 THEN None ELSE e
    BY DEF Init
<1>1. TypeOK
    <2>1. used \subseteq Frame /\ halted \in BOOLEAN
        BY DEF Init
    <2>2. pdir \in [Dir -> Frame \cup {None}] /\ dflags \in [Dir -> Flags]
        BY DEF Init, Flags
    <2>3. ptab \in [Frame \X Index -> Frame \cup {None}]
        <3>1. ASSUME NEW p \in Frame \X Index
              PROVE  (IF p[1] # IdTab THEN Dust[p[2]] ELSE IF p[2] = 0 THEN None ELSE p[2]) \in Frame \cup {None}
            <4>1. p[2] \in Index /\ p[2] \in Frame
                OBVIOUS
            <4>2. Dust[p[2]] \in -1 .. Frames-1
                BY <4>1, TableAssumption DEF Index
            <4>3. -1 .. Frames-1 = Frame \cup {None}
                BY SizeAssumption DEF Frame, None
            <4> QED
                BY <4>1, <4>2, <4>3
        <3> QED
            BY <3>1 DEF Init
    <2>4. pflags \in [Frame \X Index -> Flags]
        BY DEF Init, Flags
    <2> QED
        BY <2>1, <2>2, <2>3, <2>4 DEF TypeOK
<1>2. Low \subseteq used /\ used = Low
    BY DEF Init
<1>3. DirOK
    BY <1>d DEF DirOK, Own
<1>4. TabOK
    BY <1>d, <1>p, <1>2 DEF TabOK
<1>5. ApartOK
    BY <1>d, <1>p DEF ApartOK
<1>6. PrivOK
    BY <1>d DEF PrivOK, Own
<1>7. UserOK
    <2>1. \A d \in Dir : "USER" \notin dflags[d]
        BY DEF Init
    <2>2. \A e \in Index : "USER" \in pflags[<<IdTab, e>>] => e = 0
        BY DEF Init
    <2>3. \A d \in Dir : UserFirst <= d /\ d < Kernel => pdir[d] = None
        BY <1>d, LayoutAssumption DEF Dir
    <2> QED
        BY <2>1, <2>2, <2>3 DEF UserOK
<1>8. KeptOK
    BY <1>2 DEF KeptOK
<1> QED
    BY <1>1, <1>2, <1>3, <1>4, <1>5, <1>6, <1>7, <1>8 DEF IInv

-----------------------------------------------------------------------------
\* A fault that stops the machine changes no mapping.
LEMMA StopOK == ASSUME IInv, Stop, used \subseteq used', used' \subseteq Frame PROVE IInv'
<1>1. pdir' = pdir /\ dflags' = dflags /\ ptab' = ptab /\ pflags' = pflags /\ halted' = TRUE
    BY DEF Stop
<1>2. TypeOK'
    BY <1>1 DEF IInv, TypeOK
<1>3. (Low \subseteq used)' /\ DirOK' /\ TabOK'
    BY <1>1 DEF IInv, DirOK, TabOK
<1>4. ApartOK' /\ PrivOK'
    BY <1>1 DEF IInv, ApartOK, PrivOK
<1>5. UserOK' /\ KeptOK'
    BY <1>1 DEF IInv, UserOK, KeptOK
<1> QED
    BY <1>2, <1>3, <1>4, <1>5 DEF IInv

\* The flags an entry gets name what __kmem_is_user says of the address.
LEMMA FlagsOK ==
    ASSUME NEW v \in Page, NEW first \in BOOLEAN
    PROVE  /\ FlagsFor(v, first) \in Flags /\ "RW" \in FlagsFor(v, first)
           /\ UserFirst <= v[1] /\ v[1] < Kernel => "USER" \in FlagsFor(v, first)
           /\ "USER" \in FlagsFor(v, first) =>
                 /\ UserFirst <= v[1] /\ v[1] <= Kernel
                 /\ v[1] = Kernel => v[2] = 0
BY LayoutAssumption DEF FlagsFor, kmem_is_user, Flags, Page, Dir

LEMMA MapInTableOK ==
    ASSUME IInv, NEW v \in Page, NEW first \in BOOLEAN, MapInTable(v, first)
    PROVE  IInv'
<1> USE Layout
<1> DEFINE d0 == v[1]
           e0 == v[2]
           t  == pdir[d0]
           fl == FlagsFor(v, first)
<1>1. d0 \in Dir /\ e0 \in Index /\ v = <<d0, e0>>
    BY DEF Page
<1>2. /\ pdir \in [Dir -> Frame \cup {None}] /\ dflags \in [Dir -> Flags]
      /\ ptab \in [Frame \X Index -> Frame \cup {None}] /\ pflags \in [Frame \X Index -> Flags]
      /\ used \subseteq Frame
    BY DEF IInv, TypeOK
<1>3. t \in Frame /\ t # None /\ ptab[<<t, e0>>] = None /\ ~ halted /\ halted' = halted /\ pdir' = pdir
    BY <1>1, <1>2 DEF MapInTable, Fault, Translate, TableOf
<1>4. PICK phys \in Free : used' = used \cup {phys} /\ Write(t, v, phys, fl)
    BY DEF MapInTable, TableOf
<1>5. phys \in Frame /\ phys \notin used /\ phys \notin Low /\ phys # None
    BY <1>4 DEF Free, IInv
<1>6. dflags' = [d \in Dir |-> IF d = d0 THEN dflags[d] \cup (fl \ {"RW"}) ELSE dflags[d]]
    BY <1>2 DEF MapInTable
<1>7. fl \in Flags
    BY FlagsOK
<1>8. ASSUME NEW d \in Dir, NEW e \in Index, pdir[d] # None
      PROVE  /\ pdir[d] \in Frame
             /\ ptab'[<<pdir[d], e>>]   = IF pdir[d] = t /\ e = e0 THEN phys ELSE ptab[<<pdir[d], e>>]
             /\ pflags'[<<pdir[d], e>>] = IF pdir[d] = t /\ e = e0 THEN fl ELSE pflags[<<pdir[d], e>>]
    <2>1. <<pdir[d], e>> \in Frame \X Index /\ pdir[d] \in Frame
        BY <1>2, <1>8
    <2> QED
        BY <2>1, <1>3, <1>4 DEF Write, TableOf
<1>9. TypeOK'
    <2>1. dflags' \in [Dir -> Flags]
        BY <1>2, <1>6, <1>7 DEF Flags
    <2>2. ptab' \in [Frame \X Index -> Frame \cup {None}]
        BY <1>2, <1>3, <1>4, <1>5 DEF Write, TableOf
    <2>3. pflags' \in [Frame \X Index -> Flags]
        BY <1>2, <1>3, <1>4, <1>7 DEF Write, TableOf
    <2> QED
        BY <2>1, <2>2, <2>3, <1>2, <1>3, <1>4, <1>5 DEF TypeOK, IInv
<1>10. t = IdTab => e0 = 0
    BY <1>1, <1>3 DEF IInv, TabOK, Index, None
<1> HIDE DEF t, d0, e0, fl
<1>11. (Low \subseteq used)' /\ DirOK'
    BY <1>3, <1>4 DEF IInv, DirOK
<1>12. TabOK'
    BY <1>3, <1>4, <1>5, <1>8, <1>10 DEF IInv, TabOK
<1>13. ApartOK'
    <2> SUFFICES ASSUME NEW c \in Dir, NEW d \in Dir, NEW e \in Index, NEW g \in Index,
                        pdir[c] # None, pdir[d] # None, ptab'[<<pdir[c], e>>] # None,
                        ptab'[<<pdir[c], e>>] = ptab'[<<pdir[d], g>>]
                 PROVE  pdir[c] = pdir[d] /\ e = g
        BY <1>3 DEF ApartOK
    <2>1. /\ ptab[<<pdir[c], e>>] # phys /\ ptab[<<pdir[d], g>>] # phys
        BY <1>5 DEF IInv, TabOK
    <2> QED
        BY <2>1, <1>8 DEF IInv, ApartOK
<1>14. PrivOK'
    <2>1. \A c \in Own : pdir[c] # None => pdir[c] # phys
        BY <1>5 DEF IInv, DirOK
    <2> QED
        BY <2>1, <1>3, <1>8 DEF IInv, PrivOK, Own
<1>15. UserOK'
    <2>1. /\ "RW" \in fl /\ (UserFirst <= d0 /\ d0 < Kernel => "USER" \in fl)
          /\ "USER" \in fl => UserFirst <= d0 /\ d0 <= Kernel /\ (d0 = Kernel => e0 = 0)
        BY FlagsOK DEF fl, d0, e0
    <2>2. \A d \in Dir : "USER" \in dflags'[d] => UserFirst <= d /\ d <= Kernel
        BY <2>1, <1>1, <1>6 DEF IInv, UserOK
    <2>3. \A e \in Index : "USER" \in pflags'[<<IdTab, e>>] => e = 0
        BY <1>8, <1>10 DEF IInv, UserOK, DirOK
    <2>4. ASSUME NEW d \in Dir, NEW e \in Index, UserFirst <= d, d < Kernel, pdir[d] # None
          PROVE  /\ "USER" \in dflags'[d] /\ "RW" \in dflags'[d]
                 /\ ptab'[<<pdir[d], e>>] # None =>
                       "USER" \in pflags'[<<pdir[d], e>>] /\ "RW" \in pflags'[<<pdir[d], e>>]
        <3>1. "USER" \in dflags'[d] /\ "RW" \in dflags'[d]
            BY <2>4, <1>6 DEF IInv, UserOK
        <3>2. pdir[d] = t => d = d0
            <4>1. d \in Own
                BY <2>4, LayoutAssumption DEF Own, Dir
            <4>2. pdir[d] \notin Low
                BY <4>1, <2>4 DEF IInv, DirOK
            <4>3. CASE d0 \in Own
                BY <4>1, <4>3, <2>4 DEF IInv, DirOK, t
            <4>4. CASE d0 \notin Own
                BY <4>2, <4>4, <1>1 DEF IInv, DirOK, t, Own
            <4> QED
                BY <4>3, <4>4
        <3> QED
            BY <3>1, <3>2, <2>1, <2>4, <1>8 DEF IInv, UserOK
    <2> QED
        BY <2>2, <2>3, <2>4, <1>3 DEF UserOK
<1>16. KeptOK'
    <2> SUFFICES ASSUME NEW f \in used'
                 PROVE  \/ f \in Low
                        \/ \E d \in Dir : pdir[d] = f
                        \/ \E d \in Dir, e \in Index : pdir[d] # None /\ ptab'[<<pdir[d], e>>] = f
        BY <1>3 DEF KeptOK
    <2>1. CASE f = phys
        <3>1. pdir[d0] # None /\ ptab'[<<pdir[d0], e0>>] = phys
            BY <1>1, <1>3, <1>8 DEF t
        <3> QED
            BY <3>1, <2>1, <1>1
    <2>2. CASE f \in used
        <3>1. f # None
            BY <2>2, <1>2
        <3>2. CASE \E d \in Dir, e \in Index : pdir[d] # None /\ ptab[<<pdir[d], e>>] = f
            <4>1. PICK d \in Dir, e \in Index : pdir[d] # None /\ ptab[<<pdir[d], e>>] = f
                BY <3>2
            <4>2. ~ (pdir[d] = t /\ e = e0)
                BY <4>1, <3>1, <1>3
            <4>3. ptab'[<<pdir[d], e>>] = f
                BY <4>1, <4>2, <1>8
            <4> QED
                BY <4>1, <4>3
        <3> QED
            BY <2>2, <3>2, <1>3 DEF IInv, KeptOK
    <2> QED
        BY <2>1, <2>2, <1>4
<1> QED
    BY <1>9, <1>11, <1>12, <1>13, <1>14, <1>15, <1>16 DEF IInv

LEMMA MapNewTableOK ==
    ASSUME IInv, NEW v \in Page, NEW first \in BOOLEAN, MapNewTable(v, first)
    PROVE  IInv'
<1> USE Layout
<1> DEFINE d0 == v[1]
           e0 == v[2]
           fl == FlagsFor(v, first)
<1>1. d0 \in Dir /\ e0 \in Index /\ v = <<d0, e0>>
    BY DEF Page
<1>2. /\ pdir \in [Dir -> Frame \cup {None}] /\ dflags \in [Dir -> Flags]
      /\ ptab \in [Frame \X Index -> Frame \cup {None}] /\ pflags \in [Frame \X Index -> Flags]
      /\ used \subseteq Frame
    BY DEF IInv, TypeOK
<1>3. pdir[d0] = None /\ ~ halted /\ halted' = halted
    BY DEF MapNewTable, Fault, TableOf
<1>a. PICK phys \in Free : \E page \in Free \ {phys} :
          used' = used \cup {phys, page} /\ pdir' = [pdir EXCEPT ![d0] = page] /\ Write(page, v, phys, fl)
    BY DEF MapNewTable
<1>4. PICK page \in Free \ {phys} :
          used' = used \cup {phys, page} /\ pdir' = [pdir EXCEPT ![d0] = page] /\ Write(page, v, phys, fl)
    BY <1>a
<1>5. /\ phys \in Frame /\ phys \notin used /\ phys \notin Low /\ phys # None
      /\ page \in Frame /\ page \notin used /\ page \notin Low /\ page # None
      /\ phys # page
    BY <1>4 DEF Free, IInv
<1>6. dflags' = [d \in Dir |-> IF d = d0 THEN fl ELSE dflags[d]]
    BY <1>2 DEF MapNewTable
<1>7. fl \in Flags
    BY FlagsOK
<1>8. d0 \in Own /\ d0 # 0 /\ d0 # Kernel
    BY <1>1, <1>3 DEF IInv, DirOK, Own
<1>9. \A d \in Dir : pdir'[d] = IF d = d0 THEN page ELSE pdir[d]
    BY <1>2, <1>4
<1>10. \A d \in Dir : pdir[d] # page /\ pdir[d] # phys
    BY <1>5 DEF IInv, DirOK, Own
<1>11. \A d \in Dir, e \in Index : pdir[d] # None => ptab[<<pdir[d], e>>] # page /\ ptab[<<pdir[d], e>>] # phys
    BY <1>5 DEF IInv, TabOK
<1>12. ASSUME NEW d \in Dir, NEW e \in Index, pdir'[d] # None
       PROVE  /\ ptab'[<<pdir'[d], e>>]   = IF d = d0 THEN (IF e = e0 THEN phys ELSE None) ELSE ptab[<<pdir[d], e>>]
              /\ pflags'[<<pdir'[d], e>>] = IF d = d0 THEN (IF e = e0 THEN fl ELSE {}) ELSE pflags[<<pdir[d], e>>]
    <2>1. <<pdir'[d], e>> \in Frame \X Index
        BY <1>2, <1>5, <1>9, <1>12
    <2>2. d # d0 => pdir'[d] # page
        BY <1>9, <1>10
    <2> QED
        BY <2>1, <2>2, <1>1, <1>3, <1>4, <1>9 DEF Write, TableOf
<1>13. TypeOK'
    <2>1. dflags' \in [Dir -> Flags]
        BY <1>2, <1>6, <1>7 DEF Flags
    <2>2. ptab' \in [Frame \X Index -> Frame \cup {None}]
        BY <1>2, <1>4, <1>5 DEF Write
    <2>3. pflags' \in [Frame \X Index -> Flags]
        <3>1. {} \in Flags
            BY DEF Flags
        <3> QED
            BY <3>1, <1>2, <1>4, <1>7 DEF Write
    <2>4. pdir' \in [Dir -> Frame \cup {None}]
        BY <1>2, <1>4, <1>5
    <2>5. halted' \in BOOLEAN
        BY <1>3 DEF IInv, TypeOK
    <2> QED
        BY <2>1, <2>2, <2>3, <2>4, <2>5, <1>2, <1>4, <1>5 DEF TypeOK
<1> HIDE DEF d0, e0, fl
<1>14. (Low \subseteq used)' /\ DirOK'
    <2>1. (Low \subseteq used)' /\ pdir'[0] = IdTab /\ pdir'[Kernel] = IdTab
        BY <1>4, <1>8, <1>9 DEF IInv, DirOK
    <2>2. \A d \in Own : pdir'[d] # None => pdir'[d] \in used' /\ pdir'[d] \notin Low
        BY <1>4, <1>5, <1>9 DEF IInv, DirOK
    <2>3. \A c, d \in Own : (pdir'[c] # None /\ pdir'[c] = pdir'[d]) => c = d
        BY <1>9, <1>10 DEF IInv, DirOK
    <2> QED
        BY <2>1, <2>2, <2>3 DEF DirOK
<1>15. TabOK'
    <2> SUFFICES ASSUME NEW d \in Dir, NEW e \in Index, pdir'[d] # None
                 PROVE  /\ ptab'[<<pdir'[d], e>>] # None => ptab'[<<pdir'[d], e>>] \in used'
                        /\ IF pdir'[d] = IdTab /\ e # 0 THEN ptab'[<<pdir'[d], e>>] = e
                                                       ELSE ptab'[<<pdir'[d], e>>] \notin Low
        BY DEF TabOK
    <2>1. CASE d = d0
        <3>1. pdir'[d] = page /\ page # IdTab /\ ptab'[<<pdir'[d], e>>] = IF e = e0 THEN phys ELSE None
            BY <2>1, <1>5, <1>9, <1>12
        <3> QED
            BY <3>1, <1>4, <1>5
    <2>2. CASE d # d0
        <3>1. pdir'[d] = pdir[d] /\ pdir[d] # None /\ ptab'[<<pdir'[d], e>>] = ptab[<<pdir[d], e>>]
            BY <2>2, <1>9, <1>12
        <3>2. /\ ptab[<<pdir[d], e>>] # None => ptab[<<pdir[d], e>>] \in used
              /\ IF pdir[d] = IdTab /\ e # 0 THEN ptab[<<pdir[d], e>>] = e ELSE ptab[<<pdir[d], e>>] \notin Low
            BY <3>1 DEF IInv, TabOK
        <3> QED
            BY <3>1, <3>2, <1>4
    <2> QED
        BY <2>1, <2>2
<1>16. ApartOK'
    <2> SUFFICES ASSUME NEW c \in Dir, NEW d \in Dir, NEW e \in Index, NEW g \in Index,
                        pdir'[c] # None, pdir'[d] # None, ptab'[<<pdir'[c], e>>] # None,
                        ptab'[<<pdir'[c], e>>] = ptab'[<<pdir'[d], g>>]
                 PROVE  pdir'[c] = pdir'[d] /\ e = g
        BY DEF ApartOK
    <2>1. CASE c = d0 /\ d = d0
        BY <2>1, <1>12
    <2>2. CASE c = d0 /\ d # d0
        <3>1. ptab'[<<pdir'[c], e>>] = phys
            BY <2>2, <1>12
        <3>2. ptab'[<<pdir'[d], g>>] = ptab[<<pdir[d], g>>] /\ pdir[d] # None
            BY <2>2, <1>9, <1>12
        <3> QED
            BY <3>1, <3>2, <1>11
    <2>3. CASE c # d0 /\ d = d0
        <3>1. ptab'[<<pdir'[d], g>>] = phys
            BY <2>3, <1>12
        <3>2. ptab'[<<pdir'[c], e>>] = ptab[<<pdir[c], e>>] /\ pdir[c] # None
            BY <2>3, <1>9, <1>12
        <3> QED
            BY <3>1, <3>2, <1>11
    <2>4. CASE c # d0 /\ d # d0
        BY <2>4, <1>9, <1>12 DEF IInv, ApartOK
    <2> QED
        BY <2>1, <2>2, <2>3, <2>4
<1>17. PrivOK'
    <2> SUFFICES ASSUME NEW c \in Own, NEW d \in Dir, NEW e \in Index, pdir'[c] # None, pdir'[d] # None
                 PROVE  ptab'[<<pdir'[d], e>>] # pdir'[c]
        BY DEF PrivOK
    <2>1. CASE d = d0
        <3>1. ptab'[<<pdir'[d], e>>] \in {phys, None}
            BY <2>1, <1>12
        <3>2. pdir'[c] # phys
            BY <1>5, <1>9, <1>10 DEF Own
        <3> QED
            BY <3>1, <3>2
    <2>2. CASE d # d0 /\ c = d0
        <3>1. ptab'[<<pdir'[d], e>>] = ptab[<<pdir[d], e>>] /\ pdir[d] # None /\ pdir'[c] = page
            BY <2>2, <1>9, <1>12
        <3> QED
            BY <3>1, <1>11
    <2>3. CASE d # d0 /\ c # d0
        <3>1. ptab'[<<pdir'[d], e>>] = ptab[<<pdir[d], e>>] /\ pdir[d] # None
            BY <2>3, <1>9, <1>12
        <3>2. pdir'[c] = pdir[c] /\ pdir[c] # None
            BY <2>3, <1>9 DEF Own
        <3>3. ptab[<<pdir[d], e>>] # pdir[c]
            BY <3>1, <3>2 DEF IInv, PrivOK
        <3> QED
            BY <3>1, <3>2, <3>3
    <2> QED
        BY <2>1, <2>2, <2>3
<1>18. UserOK'
    <2>1. /\ "RW" \in fl /\ (UserFirst <= d0 /\ d0 < Kernel => "USER" \in fl)
          /\ "USER" \in fl => UserFirst <= d0 /\ d0 <= Kernel
        BY FlagsOK DEF fl, d0
    <2>2. \A d \in Dir : "USER" \in dflags'[d] => UserFirst <= d /\ d <= Kernel
        BY <2>1, <1>1, <1>6 DEF IInv, UserOK
    <2>3. \A e \in Index : "USER" \in pflags'[<<IdTab, e>>] => e = 0
        <3>1. pdir'[0] = IdTab /\ pdir'[0] # None /\ pdir[0] = IdTab
            BY <1>8, <1>9 DEF IInv, DirOK
        <3>2. \A e \in Index : pflags'[<<IdTab, e>>] = pflags[<<IdTab, e>>]
            BY <3>1, <1>8, <1>12
        <3> QED
            BY <3>2 DEF IInv, UserOK
    <2>4. ASSUME NEW d \in Dir, NEW e \in Index, UserFirst <= d, d < Kernel, pdir'[d] # None
          PROVE  /\ "USER" \in dflags'[d] /\ "RW" \in dflags'[d]
                 /\ ptab'[<<pdir'[d], e>>] # None =>
                       "USER" \in pflags'[<<pdir'[d], e>>] /\ "RW" \in pflags'[<<pdir'[d], e>>]
        <3>1. CASE d = d0
            BY <3>1, <2>1, <2>4, <1>6, <1>12
        <3>2. CASE d # d0
            BY <3>2, <2>4, <1>6, <1>9, <1>12 DEF IInv, UserOK
        <3> QED
            BY <3>1, <3>2
    <2> QED
        BY <2>2, <2>3, <2>4 DEF UserOK
<1>19. KeptOK'
    <2> SUFFICES ASSUME NEW f \in used'
                 PROVE  \/ f \in Low
                        \/ \E d \in Dir : pdir'[d] = f
                        \/ \E d \in Dir, e \in Index : pdir'[d] # None /\ ptab'[<<pdir'[d], e>>] = f
        BY DEF KeptOK
    <2>1. CASE f = phys
        <3>1. pdir'[d0] # None /\ ptab'[<<pdir'[d0], e0>>] = phys
            BY <1>1, <1>5, <1>9, <1>12
        <3> QED
            BY <3>1, <2>1, <1>1
    <2>2. CASE f = page
        BY <2>2, <1>1, <1>9
    <2>3. CASE f \in used
        <3>1. f # None
            BY <2>3, <1>2
        <3>2. CASE \E d \in Dir : pdir[d] = f
            BY <3>2, <3>1, <1>3, <1>9
        <3>3. CASE \E d \in Dir, e \in Index : pdir[d] # None /\ ptab[<<pdir[d], e>>] = f
            <4>1. PICK d \in Dir, e \in Index : pdir[d] # None /\ ptab[<<pdir[d], e>>] = f
                BY <3>3
            <4>2. d # d0 /\ pdir'[d] # None
                BY <4>1, <1>3, <1>9
            <4>3. ptab'[<<pdir'[d], e>>] = f
                BY <4>1, <4>2, <1>12
            <4> QED
                BY <4>2, <4>3
        <3> QED
            BY <2>3, <3>2, <3>3, <1>3 DEF IInv, KeptOK
    <2> QED
        BY <2>1, <2>2, <2>3, <1>4
<1> QED
    BY <1>13, <1>14, <1>15, <1>16, <1>17, <1>18, <1>19 DEF IInv

LEMMA NextOK == IInv /\ [Next]_vars => IInv'
<1> SUFFICES ASSUME IInv, [Next]_vars PROVE IInv'
    OBVIOUS
<1>1. CASE UNCHANGED vars
    <2>1. /\ used' = used /\ pdir' = pdir /\ dflags' = dflags
          /\ ptab' = ptab /\ pflags' = pflags /\ halted' = halted
        BY <1>1 DEF vars
    <2>2. TypeOK' /\ (Low \subseteq used)'
        BY <2>1 DEF IInv, TypeOK
    <2>3. DirOK' /\ TabOK'
        BY <2>1 DEF IInv, DirOK, TabOK
    <2>4. ApartOK' /\ PrivOK'
        BY <2>1 DEF IInv, ApartOK, PrivOK
    <2>5. UserOK' /\ KeptOK'
        BY <2>1 DEF IInv, UserOK, KeptOK
    <2> QED
        BY <2>2, <2>3, <2>4, <2>5 DEF IInv
<1>2. CASE Next
    <2>1. PICK v \in Page, first \in BOOLEAN :
              OutOfFrames(v) \/ NullFault(v, first) \/ MapInTable(v, first) \/ MapNewTable(v, first)
                             \/ NoFrameForTable(v) \/ Protection(v)
        BY <1>2 DEF Next, page_fault
    <2>2. used \subseteq Frame /\ Free \subseteq Frame
        BY DEF IInv, TypeOK, Free
    <2>3. CASE OutOfFrames(v)
        BY <2>2, <2>3, StopOK DEF OutOfFrames
    <2>4. CASE NullFault(v, first)
        BY <2>2, <2>4, StopOK DEF NullFault
    <2>5. CASE NoFrameForTable(v)
        BY <2>2, <2>5, StopOK DEF NoFrameForTable
    <2>6. CASE Protection(v)
        BY <2>2, <2>6, StopOK DEF Protection
    <2>7. CASE MapInTable(v, first)
        BY <2>7, MapInTableOK
    <2>8. CASE MapNewTable(v, first)
        BY <2>8, MapNewTableOK
    <2> QED
        BY <2>1, <2>3, <2>4, <2>5, <2>6, <2>7, <2>8
<1> QED
    BY <1>1, <1>2

\* The inductive invariant holds in every reachable state.
THEOREM Invariance == Spec => []IInv
BY InitOK, NextOK, PTL DEF Spec

-----------------------------------------------------------------------------
(* What follows from the invariant.                                        *)

\* No index leaves the directory, a table or the bitmap, for every size.
THEOREM TypeCorrect == Spec => []TypeOK
<1>1. IInv => TypeOK
    BY DEF IInv
<1> QED
    BY <1>1, Invariance, PTL

\* The page of a present page's table.
LEMMA Mapped ==
    ASSUME NEW v \in Page, Translate(v) # None
    PROVE  /\ v[1] \in Dir /\ v[2] \in Index /\ v = <<v[1], v[2]>>
           /\ pdir[v[1]] # None /\ Translate(v) = ptab[<<pdir[v[1]], v[2]>>]
BY DEF Page, Translate, TableOf

\* No frame is mapped at two pages, but for the two views of low memory.
THEOREM NoAliasEver == Spec => []NoAlias
<1>1. ASSUME IInv PROVE NoAlias
    <2> SUFFICES ASSUME NEW v \in Page, NEW w \in Page, Translate(v) # None, Translate(v) = Translate(w)
                 PROVE  v = w \/ SameView(v, w)
        BY DEF NoAlias
    <2>0. Translate(w) # None
        OBVIOUS
    <2>2. /\ v[1] \in Dir /\ v[2] \in Index /\ v = <<v[1], v[2]>>
          /\ w[1] \in Dir /\ w[2] \in Index /\ w = <<w[1], w[2]>>
          /\ pdir[v[1]] # None /\ Translate(v) = ptab[<<pdir[v[1]], v[2]>>]
          /\ pdir[w[1]] # None /\ Translate(w) = ptab[<<pdir[w[1]], w[2]>>]
        BY <2>0, Mapped
    <2>1. pdir[v[1]] = pdir[w[1]] /\ v[2] = w[2]
        <3>1. ApartOK
            BY <1>1 DEF IInv
        <3>2. /\ ptab[<<pdir[v[1]], v[2]>>] # None
              /\ ptab[<<pdir[v[1]], v[2]>>] = ptab[<<pdir[w[1]], w[2]>>]
            BY <2>0, <2>2
        <3> QED
            BY <3>1, <3>2, <2>2 DEF ApartOK
    <2>3. CASE v[1] \in Own /\ w[1] \in Own
        BY <1>1, <2>1, <2>2, <2>3 DEF IInv, DirOK
    <2>4. CASE v[1] \notin Own /\ w[1] \notin Own
        BY <2>1, <2>2, <2>4 DEF SameView, Own
    <2>5. CASE v[1] \in Own /\ w[1] \notin Own
        BY <1>1, <2>1, <2>2, <2>5, Layout DEF IInv, DirOK, Own
    <2>6. CASE v[1] \notin Own /\ w[1] \in Own
        BY <1>1, <2>1, <2>2, <2>6, Layout DEF IInv, DirOK, Own
    <2> QED
        BY <2>3, <2>4, <2>5, <2>6
<1> QED
    BY <1>1, Invariance, PTL

\* No page shows a page table.
THEOREM TablesStayPrivate == Spec => []TablesPrivate
<1>1. ASSUME IInv PROVE TablesPrivate
    <2> SUFFICES ASSUME NEW v \in Page, NEW d \in Own, pdir[d] # None PROVE Translate(v) # pdir[d]
        BY DEF TablesPrivate, Own
    <2>1. CASE Translate(v) = None
        BY <2>1
    <2>2. CASE Translate(v) # None
        <3>1. PrivOK
            BY <1>1 DEF IInv
        <3>2. pdir[v[1]] # None /\ Translate(v) = ptab[<<pdir[v[1]], v[2]>>]
            BY <2>2, Mapped
        <3> QED
            BY <2>2, <3>1, <3>2 DEF PrivOK, Page
    <2> QED
        BY <2>1, <2>2
<1> QED
    BY <1>1, Invariance, PTL

\* User programs reach the user heap, the page of 0xC0000000, and no frame of
\* low memory.
THEOREM UserStaysConfined == Spec => []UserConfined
<1>1. ASSUME IInv PROVE UserConfined
    <2> SUFFICES ASSUME NEW v \in Page, UserMay(v)
                 PROVE  /\ Translate(v) \notin Low
                        /\ (UserFirst <= v[1] /\ v[1] < Kernel) \/ v = <<Kernel, 0>>
        BY DEF UserConfined
    <2>1. /\ Translate(v) # None /\ "USER" \in dflags[v[1]]
          /\ "USER" \in pflags[<<pdir[v[1]], v[2]>>]
        BY DEF UserMay, TableOf
    <2>2. /\ v[1] \in Dir /\ v[2] \in Index /\ v = <<v[1], v[2]>>
          /\ pdir[v[1]] # None /\ Translate(v) = ptab[<<pdir[v[1]], v[2]>>]
        BY <2>1, Mapped
    <2>3. UserFirst <= v[1] /\ v[1] <= Kernel
        BY <1>1, <2>1, <2>2 DEF IInv, UserOK
    <2>4. pdir[v[1]] = IdTab => v[2] = 0
        BY <1>1, <2>1, <2>2 DEF IInv, UserOK
    <2>5. Translate(v) \notin Low
        BY <1>1, <2>2, <2>4 DEF IInv, TabOK
    <2>6. v[1] = Kernel => v[2] = 0
        BY <1>1, <2>4 DEF IInv, DirOK
    <2>7. v[1] < Kernel \/ v[1] = Kernel
        BY <2>2, <2>3, LayoutAssumption DEF Dir
    <2> QED
        BY <2>2, <2>3, <2>5, <2>6, <2>7
<1> QED
    BY <1>1, Invariance, PTL

\* A present page of the user heap is one that a user program may use.
THEOREM UserPagesAlwaysUsable == Spec => []UserPagesUsable
<1>1. ASSUME IInv PROVE UserPagesUsable
    <2> SUFFICES ASSUME NEW v \in Page, UserFirst <= v[1], v[1] < Kernel, Translate(v) # None
                 PROVE  UserMay(v) /\ "RW" \in dflags[v[1]] \cap pflags[<<TableOf(v), v[2]>>]
        BY DEF UserPagesUsable
    <2>1. /\ v[1] \in Dir /\ v[2] \in Index /\ pdir[v[1]] # None
          /\ ptab[<<pdir[v[1]], v[2]>>] # None
        BY Mapped
    <2>2. /\ "USER" \in dflags[v[1]] /\ "RW" \in dflags[v[1]]
          /\ "USER" \in pflags[<<pdir[v[1]], v[2]>>] /\ "RW" \in pflags[<<pdir[v[1]], v[2]>>]
        BY <1>1, <2>1 DEF IInv, UserOK
    <2> QED
        BY <2>2 DEF UserMay, TableOf
<1> QED
    BY <1>1, Invariance, PTL

\* No frame is lost while the machine runs.
THEOREM NoFrameEverLost == Spec => []NoFrameLost
<1>1. ASSUME IInv, ~ halted PROVE NoFrameLost
    <2> DEFINE M == {Translate(v) : v \in Page} \ {None}
               T == {pdir[d] : d \in Dir} \ {None}
    <2>1. ASSUME NEW f \in used PROVE f \in Low \cup M \cup T
        <3>1. f # None
            BY <1>1, Layout DEF IInv, TypeOK
        <3>2. CASE \E d \in Dir, e \in Index : pdir[d] # None /\ ptab[<<pdir[d], e>>] = f
            <4>1. PICK d \in Dir, e \in Index : pdir[d] # None /\ ptab[<<pdir[d], e>>] = f
                BY <3>2
            <4>2. <<d, e>> \in Page /\ Translate(<<d, e>>) = f
                BY <4>1 DEF Page, Translate, TableOf
            <4> QED
                BY <4>2, <3>1
        <3> QED
            BY <3>1, <3>2, <1>1 DEF IInv, KeptOK
    <2>2. ASSUME NEW f \in M PROVE f \in used
        <3>1. PICK v \in Page : f = Translate(v) /\ f # None
            OBVIOUS
        <3> QED
            BY <3>1, <1>1, Mapped DEF IInv, TabOK
    <2>3. ASSUME NEW f \in T PROVE f \in used
        BY <2>3, <1>1, Layout DEF IInv, DirOK, Own
    <2> QED
        BY <2>1, <2>2, <2>3, <1>1 DEF NoFrameLost, IInv
<1>2. IInv => NoFrameLost
    BY <1>1 DEF NoFrameLost
<1> QED
    BY <1>2, Invariance, PTL

-----------------------------------------------------------------------------
LEMMA StaysStep ==
    ASSUME IInv, [Next]_vars, NEW w \in Page, Translate(w) # None
    PROVE  Translate(w)' = Translate(w)
<1> DEFINE d == w[1]
           e == w[2]
<1>1. /\ d \in Dir /\ e \in Index /\ pdir[d] # None
      /\ Translate(w) = ptab[<<pdir[d], e>>] /\ ptab[<<pdir[d], e>>] # None
    BY Mapped
<1>2. /\ pdir \in [Dir -> Frame \cup {None}] /\ pdir[d] \in Frame
      /\ <<pdir[d], e>> \in Frame \X Index
    BY <1>1 DEF IInv, TypeOK
<1>3. SUFFICES pdir'[d] = pdir[d] /\ ptab'[<<pdir[d], e>>] = ptab[<<pdir[d], e>>]
    BY <1>1 DEF Translate, TableOf
<1>4. CASE pdir' = pdir /\ ptab' = ptab
    BY <1>4
<1>5. CASE \E v \in Page, first \in BOOLEAN : MapInTable(v, first)
    <2>1. PICK v \in Page, first \in BOOLEAN : MapInTable(v, first)
        BY <1>5
    <2>2. /\ TableOf(v) # None /\ ptab[<<TableOf(v), v[2]>>] = None /\ pdir' = pdir
        BY <2>1 DEF MapInTable, Fault, Translate
    <2>3. PICK phys \in Free : Write(TableOf(v), v, phys, FlagsFor(v, first))
        BY <2>1 DEF MapInTable
    <2>4. <<pdir[d], e>> # <<TableOf(v), v[2]>>
        BY <1>1, <2>2
    <2> QED
        BY <1>2, <2>2, <2>3, <2>4 DEF Write
<1>6. CASE \E v \in Page, first \in BOOLEAN : MapNewTable(v, first)
    <2>1. PICK v \in Page, first \in BOOLEAN : MapNewTable(v, first)
        BY <1>6
    <2>2. pdir[v[1]] = None
        BY <2>1 DEF MapNewTable, Fault, TableOf
    <2>3. PICK phys \in Free : \E page \in Free \ {phys} :
              pdir' = [pdir EXCEPT ![v[1]] = page] /\ Write(page, v, phys, FlagsFor(v, first))
        BY <2>1 DEF MapNewTable
    <2>4. PICK page \in Free \ {phys} :
              pdir' = [pdir EXCEPT ![v[1]] = page] /\ Write(page, v, phys, FlagsFor(v, first))
        BY <2>3
    <2>5. page \notin used /\ page \notin Low
        BY <2>4 DEF Free, IInv
    <2>6. pdir[d] # page
        BY <1>1, <2>5, Layout DEF IInv, DirOK, Own
    <2>7. d # v[1]
        BY <1>1, <2>2
    <2> QED
        BY <1>2, <2>4, <2>6, <2>7 DEF Write
<1> QED
    BY <1>4, <1>5, <1>6 DEF Next, page_fault, OutOfFrames, NullFault, NoFrameForTable, Protection, Stop, vars

\* A present page stays where it is.
THEOREM MappedAlwaysStays == Spec => MappedStays
<1>1. IInv /\ [Next]_vars => [\A v \in Page : Translate(v) # None => Translate(v)' = Translate(v)]_vars
    BY StaysStep
<1> QED
    BY <1>1, Invariance, PTL DEF Spec, MappedStays
=============================================================================
