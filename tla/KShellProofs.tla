---------------------------- MODULE KShellProofs ----------------------------
(***************************************************************************)
(* Proofs about KShell, for lines and histories of every length and any    *)
(* characters, NUL among them: the line is what was typed up to a NUL and  *)
(* the cursor is behind all of it, the history owns its blocks, Enter      *)
(* alone changes it, and the input that was typed is saved when the user   *)
(* goes up unless histptr was left over.                                   *)
(*                                                                         *)
(* The invariant adds what the buffers and the blocks hold: every character *)
(* typed in its place, with a NUL behind the last, and elsewhere strings   *)
(* that fit in a line, so that strncpy always copies their NUL; and how    *)
(* recalled and stale follow from the places where the code sets histptr.  *)
(*                                                                         *)
(* The last part is about Ps2, where the shell's characters come from: each *)
(* waiting code says how the shift keys changed before the next was sent.  *)
(***************************************************************************)
EXTENDS KShell, Ps2, FiniteSetTheorems, SequenceTheorems, TLAPS

\* The strings that fit in a line.
Line == {s \in Seq(Typed \ {NUL}) : Len(s) <= len - 1}

\* The buffer b holds a string of n characters.
Holds(b, n) == /\ b \in Buffer /\ n \in 0 .. len-1
               /\ b[n] = NUL
               /\ \A k \in 0 .. n-1 : b[k] # NUL

\* Before the cursor are the characters typed; the string may end before it.
LineOK == /\ typed \in Seq(Char) /\ shellptr = Len(typed)
          /\ \A k \in 1 .. Len(typed) : shellbuf[k-1] = typed[k]
          /\ shellbuf[shellptr] = NUL
          /\ \E m \in 0 .. shellptr : Holds(shellbuf, m)

SavedOK == \E n \in 0 .. len-1 : Holds(savebuf, n)

TextOK == text \in [DOMAIN text -> Line]

\* The line was recalled since histptr was last -1, unless Enter left it over;
\* what is not recalled is the live input.
ViewOK == /\ recalled \in BOOLEAN /\ stale \in BOOLEAN
          /\ recalled \/ stale <=> histptr # -1
          /\ ~ recalled => live = Str(shellbuf)

IInv == TypeOK /\ LineOK /\ SavedOK /\ TextOK /\ EntriesOwned /\ ViewOK /\ InputSaved

-----------------------------------------------------------------------------
(* Strings in buffers.                                                     *)

\* strlen finds the first NUL, and strdup copies what is before it.
LEMMA HoldsLemma ==
    ASSUME NEW b, NEW n, Holds(b, n)
    PROVE  /\ strlen(b) = n
           /\ Str(b) \in Line /\ Len(Str(b)) = n
           /\ \A k \in 1 .. n : Str(b)[k] = b[k-1]
<1> USE SizeAssumption DEF Holds
<1>1. strlen(b) = n
  <2> DEFINE P(m) == b[m] = NUL /\ \A k \in 0 .. m-1 : b[k] # NUL
  <2>1. n \in 0 .. len /\ P(n)
    OBVIOUS
  <2>2. \A m \in 0 .. len : P(m) => m = n
    OBVIOUS
  <2>3. strlen(b) = CHOOSE m \in 0 .. len : P(m)
    BY DEF strlen
  <2> HIDE DEF P
  <2> QED BY <2>1, <2>2, <2>3
<1>2. Str(b) = [k \in 1 .. n |-> b[k-1]]
  BY <1>1 DEF Str
<1>3. \A k \in 1 .. n : b[k-1] \in Typed \ {NUL}
  <2> TAKE k \in 1 .. n
  <2>1. k - 1 \in 0 .. n-1 /\ k - 1 \in 0 .. len
    OBVIOUS
  <2> QED BY <2>1 DEF Buffer, Char
<1>4. Str(b) \in Seq(Typed \ {NUL}) /\ Len(Str(b)) = n
  BY <1>2, <1>3
<1> QED BY <1>1, <1>2, <1>4 DEF Line

\* strncpy copies a string that fits in a line whole.
LEMMA CopiedLemma ==
    ASSUME NEW s \in Line
    PROVE  Holds(Copied(s), Len(s)) /\ Str(Copied(s)) = s
<1> USE SizeAssumption
<1>1. s \in Seq(Typed \ {NUL}) /\ Len(s) \in 0 .. len-1 /\ \A k \in 1 .. Len(s) : s[k] \in Typed \ {NUL}
  BY DEF Line
<1>2. Copied(s) \in Buffer
  <2>1. ASSUME NEW k \in 0 .. len PROVE (IF k < Len(s) THEN s[k+1] ELSE NUL) \in Char
    BY <1>1 DEF Char
  <2> QED BY <2>1 DEF Copied, Buffer
<1>3. Copied(s)[Len(s)] = NUL /\ \A k \in 0 .. Len(s)-1 : Copied(s)[k] = s[k+1]
  BY <1>1 DEF Copied
<1>4. \A k \in 0 .. Len(s)-1 : Copied(s)[k] # NUL
  <2> TAKE k \in 0 .. Len(s)-1
  <2>1. k + 1 \in 1 .. Len(s)
    BY <1>1
  <2> QED BY <1>1, <1>3, <2>1
<1>5. Holds(Copied(s), Len(s))
  BY <1>1, <1>2, <1>3, <1>4 DEF Holds
<1>6. /\ Str(Copied(s)) \in Seq(Typed \ {NUL}) /\ Len(Str(Copied(s))) = Len(s)
      /\ \A k \in 1 .. Len(s) : Str(Copied(s))[k] = Copied(s)[k-1]
  BY <1>5, HoldsLemma DEF Line
<1>7. \A k \in 1 .. Len(s) : Str(Copied(s))[k] = s[k]
  BY <1>1, <1>3, <1>6
<1>8. Str(Copied(s)) = s
  BY <1>1, <1>6, <1>7
<1> QED BY <1>5, <1>8

\* A line that is cleared is empty, and keeps its last character.
LEMMA ClearedLemma ==
    ASSUME NEW b, NEW n, Holds(b, n)
    PROVE  Holds([b EXCEPT ![0] = NUL], 0)
  BY SizeAssumption DEF Holds, Buffer, Char

\* A buffer that holds a string is one of TypeOK's, but for its last character.
LEMMA FitsLemma ==
    ASSUME NEW s \in Line
    PROVE  Copied(s)[len] = NUL
  BY SizeAssumption DEF Copied, Line

\* The line is what was typed, up to a NUL.
LEMMA LineLemma ==
    ASSUME LineOK
    PROVE  Str(shellbuf) = UpToNul(typed) /\ Str(shellbuf) \in Line
<1>1. PICK m \in 0 .. shellptr : Holds(shellbuf, m)
  BY DEF LineOK
<1>2. typed \in Seq(Char) /\ shellptr = Len(typed) /\ Len(typed) \in Nat
  BY DEF LineOK
<1>3. \A k \in 1 .. Len(typed) : shellbuf[k-1] = typed[k]
  BY DEF LineOK
<1>4. /\ Str(shellbuf) \in Line /\ Len(Str(shellbuf)) = m
      /\ \A k \in 1 .. m : Str(shellbuf)[k] = shellbuf[k-1]
      /\ shellbuf[m] = NUL /\ \A k \in 0 .. m-1 : shellbuf[k] # NUL
      /\ m \in 0 .. Len(typed)
  BY <1>1, <1>2, HoldsLemma DEF Holds
<1> DEFINE P(n) == (n < Len(typed) => typed[n+1] = NUL) /\ \A k \in 1 .. n : typed[k] # NUL
<1>5. P(m)
  <2>1. m < Len(typed) => typed[m+1] = NUL
    <3>1. m < Len(typed) => m + 1 \in 1 .. Len(typed) /\ (m + 1) - 1 = m
      BY <1>2, <1>4
    <3> QED BY <1>3, <1>4, <3>1
  <2>2. ASSUME NEW k \in 1 .. m PROVE typed[k] # NUL
    <3>1. k \in 1 .. Len(typed) /\ k - 1 \in 0 .. m-1
      BY <1>2, <1>4
    <3> QED BY <1>3, <1>4, <3>1
  <2> QED BY <2>1, <2>2
<1>6. ASSUME NEW n \in 0 .. Len(typed), P(n) PROVE n = m
  <2>1. CASE n < m
    <3>1. n < Len(typed) /\ n + 1 \in 1 .. m
      BY <1>2, <1>4, <2>1
    <3> QED BY <1>5, <1>6, <3>1
  <2>2. CASE m < n
    <3>1. m < Len(typed) /\ m + 1 \in 1 .. n
      BY <1>2, <1>4, <2>2
    <3> QED BY <1>5, <1>6, <3>1
  <2> QED BY <1>2, <1>4, <2>1, <2>2
<1>7. UpToNul(typed) = SubSeq(typed, 1, CHOOSE n \in 0 .. Len(typed) : P(n))
  BY DEF UpToNul
<1> HIDE DEF P
<1>8. UpToNul(typed) = SubSeq(typed, 1, m)
  <2>1. (CHOOSE n \in 0 .. Len(typed) : P(n)) = m
    BY <1>4, <1>5, <1>6
  <2> QED BY <1>7, <2>1
<1>9. SubSeq(typed, 1, m) = [k \in 1 .. m |-> typed[k]]
  BY <1>2, <1>4
<1>10. Str(shellbuf) = [k \in 1 .. m |-> Str(shellbuf)[k]]
  BY <1>4 DEF Line
<1>11. ASSUME NEW k \in 1 .. m PROVE Str(shellbuf)[k] = typed[k]
  <2>1. k \in 1 .. Len(typed)
    BY <1>2, <1>4
  <2> QED BY <1>3, <1>4, <2>1
<1>12. Str(shellbuf) = [k \in 1 .. m |-> typed[k]]
  BY <1>10, <1>11
<1> QED BY <1>4, <1>8, <1>9, <1>12

\* A line that becomes s holds s.
LEMMA ShownLemma ==
    ASSUME NEW s \in Line, Show(s)
    PROVE  LineOK' /\ shellbuf'[len] = NUL /\ shellbuf' \in Buffer /\ shellptr' \in 0 .. len-1
<1> USE SizeAssumption
<1>1. shellbuf' = Copied(s) /\ shellptr' = Len(s) /\ typed' = s
  BY DEF Show
<1>2. Holds(Copied(s), Len(s)) /\ Copied(s)[len] = NUL
  BY CopiedLemma, FitsLemma
<1>3. s \in Seq(Char) /\ Len(s) \in 0 .. len-1
  BY DEF Line, Char
<1>4. \A k \in 1 .. Len(s) : Copied(s)[k-1] = s[k]
  <2> TAKE k \in 1 .. Len(s)
  <2>1. k - 1 \in 0 .. len /\ k - 1 < Len(s) /\ (k - 1) + 1 = k
    BY <1>3
  <2> QED BY <2>1 DEF Copied
<1>5. Len(s) \in 0 .. Len(s)
  BY <1>3
<1>6. LineOK'
  BY <1>1, <1>2, <1>3, <1>4, <1>5 DEF LineOK, Holds
<1> QED BY <1>1, <1>2, <1>3, <1>6 DEF Holds

-----------------------------------------------------------------------------
(* The user's view.                                                        *)

\* A step that recalls a line needs an entry to be shown, and the live input
\* to be saved if histptr is not left over.
LEMMA SeesLemma ==
    ASSUME NEW r \in BOOLEAN, Sees(r, shellbuf'), stale \in BOOLEAN,
           r => histptr' # -1, r /\ ~ stale => Str(savebuf') = live
    PROVE  ViewOK' /\ InputSaved'
<1>1. /\ recalled' = r /\ live' = IF r THEN live ELSE Str(shellbuf')
      /\ stale' = (histptr' # -1 /\ (stale \/ ~ r))
  BY Zenon DEF Sees
<1>2. CASE r
  <2>1. recalled' = TRUE /\ live' = live /\ stale' = stale
    BY <1>1, <1>2
  <2> QED BY <1>2, <2>1 DEF ViewOK, InputSaved
<1>3. CASE ~ r
  <2>1. recalled' = FALSE /\ live' = Str(shellbuf') /\ stale' = (histptr' # -1)
    BY <1>1, <1>3
  <2> QED BY <2>1 DEF ViewOK, InputSaved
<1> QED BY <1>2, <1>3

\* A step of the user's that leaves the history and histptr alone.
LEMMA EditOK ==
    ASSUME IInv, Sees(recalled, shellbuf'), state' \in {"NONE", "ESC", "CSI"},
           UNCHANGED <<savebuf, histptr, shellhist, hist_count, text>>,
           LineOK', shellbuf'[len] = NUL, shellbuf' \in Buffer, shellptr' \in 0 .. len-1
    PROVE  IInv'
<1> USE DEF IInv
<1>1. ViewOK' /\ InputSaved'
  <2>1. /\ recalled \in BOOLEAN /\ stale \in BOOLEAN
        /\ recalled => histptr' # -1
        /\ recalled /\ ~ stale => Str(savebuf') = live
    BY DEF ViewOK, InputSaved
  <2> QED BY <2>1, SeesLemma
<1>2. TypeOK'
  BY DEF TypeOK
<1>3. SavedOK' /\ TextOK' /\ EntriesOwned'
  BY DEF SavedOK, TextOK, EntriesOwned
<1> QED BY <1>1, <1>2, <1>3

-----------------------------------------------------------------------------
(* The steps.                                                              *)

LEMMA InitOK == Init => IInv
<1> SUFFICES ASSUME Init PROVE IInv
  OBVIOUS
<1> USE SizeAssumption DEF Init
<1>1. Holds(Blank, 0) /\ Blank[len] = NUL
  BY DEF Holds, Blank, Buffer, Char
<1>2. TypeOK
  BY <1>1 DEF TypeOK, Holds
<1>3. LineOK /\ SavedOK
  <2>1. 0 \in 0 .. len-1 /\ 0 \in 0 .. 0
    OBVIOUS
  <2>2. typed \in Seq(Char) /\ Len(typed) = 0 /\ shellptr = 0 /\ shellbuf = Blank
    OBVIOUS
  <2>3. Blank[0] = NUL
    BY <1>1 DEF Holds
  <2>4. LineOK
    BY <1>1, <2>1, <2>2, <2>3 DEF LineOK
  <2> QED BY <1>1, <2>1, <2>4 DEF SavedOK
<1>4. TextOK /\ EntriesOwned
  BY DEF TextOK, EntriesOwned
<1>5. Str(shellbuf) = << >>
  BY <1>1, HoldsLemma DEF Line
<1>6. ViewOK /\ InputSaved
  BY <1>5 DEF ViewOK, InputSaved
<1> QED BY <1>2, <1>3, <1>4, <1>6 DEF IInv

LEMMA BackspaceOK == ASSUME IInv, Backspace, state' = "NONE" PROVE IInv'
<1> USE SizeAssumption
<1> DEFINE p == shellptr
<1>1. /\ LineOK /\ shellbuf[len] = NUL /\ shellbuf \in Buffer /\ p \in 0 .. len-1
  BY DEF IInv, TypeOK
<1>2. LineOK' /\ shellbuf'[len] = NUL /\ shellbuf' \in Buffer /\ shellptr' \in 0 .. len-1
  <2>1. CASE p = 0
    BY <1>1, <2>1 DEF Backspace, LineOK
  <2>2. CASE p # 0
    <3>1. /\ shellptr' = p - 1 /\ shellbuf' = [shellbuf EXCEPT ![p - 1] = NUL]
          /\ typed' = SubSeq(typed, 1, Len(typed) - 1)
      BY <2>2 DEF Backspace
    <3>2. typed \in Seq(Char) /\ Len(typed) = p
      BY <1>1 DEF LineOK
    <3>3. p - 1 \in 0 .. len /\ p - 1 \in 0 .. len-1
      BY <1>1, <2>2
    <3>4. /\ typed' \in Seq(Char) /\ Len(typed') = p - 1
          /\ \A k \in 1 .. p - 1 : typed'[k] = typed[k]
      <4>1. 1 \in 1 .. p + 1 /\ Len(typed) - 1 \in 0 .. Len(typed)
        BY <1>1, <2>2, <3>2
      <4> HIDE DEF p
      <4> QED BY <1>1, <2>2, <3>1, <3>2, <3>3, <4>1
    <3>5. /\ shellbuf' \in Buffer /\ shellbuf'[p - 1] = NUL /\ shellbuf'[len] = NUL
          /\ \A k \in 0 .. len : k # p - 1 => shellbuf'[k] = shellbuf[k]
      BY <1>1, <3>1, <3>3 DEF Buffer, Char
    <3>6. ASSUME NEW k \in 1 .. Len(typed') PROVE shellbuf'[k-1] = typed'[k]
      <4>1. k \in 1 .. Len(typed) /\ k - 1 \in 0 .. len /\ k - 1 # p - 1
        BY <1>1, <3>2, <3>4
      <4>2. shellbuf[k-1] = typed[k]
        BY <1>1, <4>1 DEF LineOK
      <4> QED BY <3>4, <3>5, <4>1, <4>2
    <3>7. \E m \in 0 .. shellptr' : Holds(shellbuf', m)
      <4>1. PICK m \in 0 .. p : Holds(shellbuf, m)
        BY <1>1 DEF LineOK
      <4>2. m \in 0 .. len-1 /\ shellbuf[m] = NUL /\ \A k \in 0 .. m-1 : shellbuf[k] # NUL
        BY <4>1 DEF Holds
      <4>3. CASE m = p
        <5>1. \A k \in 0 .. (p - 1)-1 : k \in 0 .. m-1 /\ k \in 0 .. len /\ k # p - 1
          BY <1>1, <4>3
        <5>2. Holds(shellbuf', p - 1)
          BY <3>3, <3>5, <4>2, <5>1 DEF Holds
        <5>3. p - 1 \in 0 .. shellptr'
          BY <3>1, <3>3
        <5> QED BY <5>2, <5>3
      <4>4. CASE m # p
        <5>1. m \in 0 .. p - 1 /\ \A k \in 0 .. m-1 : k \in 0 .. len /\ k # p - 1
          BY <1>1, <4>1, <4>4
        <5>2. shellbuf'[m] = NUL
          BY <3>5, <4>2, <5>1
        <5>3. Holds(shellbuf', m)
          BY <3>5, <4>2, <5>1, <5>2 DEF Holds
        <5> QED BY <3>1, <5>1, <5>3
      <4> QED BY <4>3, <4>4
    <3>8. LineOK'
      BY <3>1, <3>4, <3>5, <3>6, <3>7 DEF LineOK
    <3> QED BY <3>1, <3>3, <3>5, <3>8
  <2> QED BY <2>1, <2>2
<1> QED BY <1>2, EditOK DEF Backspace

LEMMA InsertOK == ASSUME IInv, NEW c \in Typed, Insert(c), state' = "NONE" PROVE IInv'
<1> USE SizeAssumption
<1> DEFINE p == shellptr
<1>1. /\ LineOK /\ shellbuf[len] = NUL /\ shellbuf \in Buffer /\ p \in 0 .. len-1
  BY DEF IInv, TypeOK
<1>2. LineOK' /\ shellbuf'[len] = NUL /\ shellbuf' \in Buffer /\ shellptr' \in 0 .. len-1
  <2>1. CASE p >= len - 1
    BY <1>1, <2>1 DEF Insert, LineOK
  <2>2. CASE ~ p >= len - 1
    <3>1. /\ shellptr' = p + 1 /\ typed' = Append(typed, c)
          /\ shellbuf' = [shellbuf EXCEPT ![p] = c, ![p + 1] = NUL]
      BY <2>2 DEF Insert
    <3>2. c \in Char /\ NUL \in Char
      BY DEF Char
    <3>3. typed \in Seq(Char) /\ Len(typed) = p
      BY <1>1 DEF LineOK
    <3>4. p + 1 \in 0 .. len-1 /\ p \in 0 .. len /\ p + 1 \in 0 .. len
      BY <1>1, <2>2
    <3>5. /\ typed' \in Seq(Char) /\ Len(typed') = p + 1 /\ typed'[p + 1] = c
          /\ \A k \in 1 .. p : typed'[k] = typed[k]
      BY <3>1, <3>2, <3>3
    <3>6. /\ shellbuf' \in Buffer /\ shellbuf'[p] = c /\ shellbuf'[p + 1] = NUL
          /\ shellbuf'[len] = NUL
          /\ \A k \in 0 .. len : k # p /\ k # p + 1 => shellbuf'[k] = shellbuf[k]
      BY <1>1, <3>1, <3>2, <3>4 DEF Buffer
    <3>7. ASSUME NEW k \in 1 .. Len(typed') PROVE shellbuf'[k-1] = typed'[k]
      <4>1. CASE k = p + 1
        BY <1>1, <3>5, <3>6, <4>1
      <4>2. CASE k # p + 1
        <5>1. k \in 1 .. p /\ k - 1 \in 0 .. len /\ k - 1 # p /\ k - 1 # p + 1
          BY <1>1, <3>5, <4>2
        <5>2. shellbuf[k-1] = typed[k]
          BY <1>1, <3>3, <5>1 DEF LineOK
        <5> QED BY <3>5, <3>6, <5>1, <5>2
      <4> QED BY <4>1, <4>2
    <3>8. \E m \in 0 .. shellptr' : Holds(shellbuf', m)
      <4>1. PICK m \in 0 .. p : Holds(shellbuf, m)
        BY <1>1 DEF LineOK
      <4>2. m \in 0 .. len-1 /\ shellbuf[m] = NUL /\ \A k \in 0 .. m-1 : shellbuf[k] # NUL
        BY <4>1 DEF Holds
      <4>3. \A k \in 0 .. m-1 : k \in 0 .. len /\ k # p /\ k # p + 1
        BY <1>1, <4>1
      <4>4. CASE m = p /\ c # NUL
        <5>1. \A k \in 0 .. (p + 1)-1 : k = p \/ k \in 0 .. m-1
          BY <1>1, <4>4
        <5>2. \A k \in 0 .. (p + 1)-1 : shellbuf'[k] # NUL
          BY <3>6, <4>2, <4>3, <4>4, <5>1
        <5>3. Holds(shellbuf', p + 1)
          BY <3>4, <3>6, <5>2 DEF Holds
        <5>4. p + 1 \in 0 .. shellptr'
          BY <3>1, <3>4
        <5> QED BY <5>3, <5>4
      <4>5. CASE m # p \/ c = NUL
        <5>1. m \in 0 .. shellptr' /\ m \in 0 .. len /\ m # p + 1
          BY <1>1, <3>1, <3>4, <4>1
        <5>2. shellbuf'[m] = NUL
          BY <3>6, <4>2, <4>5, <5>1
        <5>3. Holds(shellbuf', m)
          BY <3>6, <4>2, <4>3, <5>2 DEF Holds
        <5> QED BY <5>1, <5>3
      <4> QED BY <4>4, <4>5
    <3>9. LineOK'
      BY <3>1, <3>5, <3>6, <3>7, <3>8 DEF LineOK
    <3> QED BY <3>1, <3>4, <3>6, <3>9
  <2> QED BY <2>1, <2>2
<1> QED BY <1>2, EditOK DEF Insert

\* An entry of the history is a string that fits in a line.
LEMMA EntryLemma ==
    ASSUME IInv, NEW i \in 0 .. hist_count-1
    PROVE  shellhist[i] \in DOMAIN text /\ Entry(i) \in Line
  BY DEF IInv, EntriesOwned, TextOK, Entry

\* The line becomes s: what is left of a step that moves in the history.
LEMMA ShowOK ==
    ASSUME IInv, NEW s \in Line, Show(s), NEW r \in BOOLEAN, Sees(r, shellbuf'),
           histptr' \in -1 .. hist_count-1, state' \in {"NONE", "ESC", "CSI"},
           UNCHANGED <<shellhist, hist_count, text>>,
           SavedOK', savebuf'[len] = NUL,
           r => histptr' # -1, r /\ ~ stale => Str(savebuf') = live
    PROVE  IInv'
<1>1. LineOK' /\ shellbuf'[len] = NUL /\ shellbuf' \in Buffer /\ shellptr' \in 0 .. len-1
  BY ShownLemma
<1>2. ViewOK' /\ InputSaved'
  BY SeesLemma DEF IInv, ViewOK
<1>3. TypeOK'
  <2>1. savebuf' \in Buffer
    BY DEF SavedOK, Holds
  <2> QED BY <1>1, <2>1 DEF IInv, TypeOK
<1>4. TextOK' /\ EntriesOwned'
  BY DEF IInv, TextOK, EntriesOwned
<1> QED BY <1>1, <1>2, <1>3, <1>4 DEF IInv

LEMMA UpOK ==
    ASSUME IInv, hist_up, state' \in {"NONE", "ESC", "CSI"}
    PROVE  IInv'
<1> USE SizeAssumption
<1>1. /\ LineOK /\ Str(shellbuf) \in Line /\ SavedOK /\ savebuf[len] = NUL
      /\ histptr \in -1 .. hist_count-1 /\ hist_count \in 0 .. hist_len
  BY LineLemma DEF IInv, TypeOK
<1>2. SavedOK' /\ savebuf'[len] = NUL
  <2>1. CASE histptr = -1
    <3>1. savebuf' = Copied(Str(shellbuf))
      BY <2>1 DEF hist_up
    <3>2. Len(Str(shellbuf)) \in 0 .. len-1
      BY <1>1 DEF Line
    <3> QED BY <1>1, <3>1, <3>2, CopiedLemma, FitsLemma DEF SavedOK
  <2>2. CASE histptr # -1
    BY <1>1, <2>2 DEF hist_up, SavedOK
  <2> QED BY <2>1, <2>2
<1>3. ~ stale => Str(savebuf') = live
  <2>1. CASE histptr = -1
    <3>1. Str(savebuf') = Str(shellbuf)
      BY <1>1, <2>1, CopiedLemma DEF hist_up
    <3>2. live = Str(shellbuf)
      BY <2>1 DEF IInv, ViewOK
    <3> QED BY <3>1, <3>2
  <2>2. CASE histptr # -1
    BY <2>2 DEF hist_up, IInv, ViewOK, InputSaved
  <2> QED BY <2>1, <2>2
<1>4. CASE histptr + 1 >= hist_count
  <2>1. UNCHANGED <<histptr, shellbuf, shellptr, typed, recalled, live, stale, shellhist, hist_count, text>>
    BY <1>4 DEF hist_up
  <2>2. TypeOK'
    <3>1. savebuf' \in Buffer
      BY <1>2 DEF SavedOK, Holds
    <3> QED BY <1>2, <2>1, <3>1 DEF IInv, TypeOK
  <2>3. LineOK' /\ TextOK' /\ EntriesOwned' /\ ViewOK'
    BY <2>1 DEF IInv, LineOK, TextOK, EntriesOwned, ViewOK
  <2>4. InputSaved'
    BY <1>3, <2>1 DEF InputSaved
  <2> QED BY <1>2, <2>2, <2>3, <2>4 DEF IInv
<1>5. CASE ~ histptr + 1 >= hist_count
  <2>1. /\ histptr' = histptr + 1 /\ Show(Entry(histptr + 1)) /\ Sees(TRUE, shellbuf')
        /\ UNCHANGED <<shellhist, hist_count, text>>
    BY <1>5 DEF hist_up
  <2>2. histptr + 1 \in 0 .. hist_count-1
    BY <1>1, <1>5
  <2>3. Entry(histptr + 1) \in Line
    BY <2>2, EntryLemma
  <2>4. histptr' \in -1 .. hist_count-1 /\ histptr' # -1
    BY <2>1, <2>2
  <2> QED BY <1>2, <1>3, <2>1, <2>3, <2>4, ShowOK
<1> QED BY <1>4, <1>5

LEMMA DownOK ==
    ASSUME IInv, hist_down, state' \in {"NONE", "ESC", "CSI"}
    PROVE  IInv'
<1> USE SizeAssumption
<1>1. /\ SavedOK /\ savebuf[len] = NUL
      /\ histptr \in -1 .. hist_count-1 /\ hist_count \in 0 .. hist_len
      /\ UNCHANGED <<savebuf, shellhist, hist_count, text>>
  BY DEF IInv, TypeOK, hist_down
<1>2. CASE histptr = -1
  <2>1. UNCHANGED <<histptr, shellbuf, shellptr, typed, recalled, live, stale>>
    BY <1>2 DEF hist_down
  <2> QED BY <1>1, <2>1 DEF IInv, TypeOK, LineOK, SavedOK, TextOK, EntriesOwned, ViewOK, InputSaved
<1>3. CASE histptr # -1
  <2> DEFINE s == IF histptr = 0 THEN Str(savebuf) ELSE Entry(histptr - 1)
  <2>1. histptr' = histptr - 1 /\ Show(s) /\ Sees(histptr # 0, shellbuf')
    BY <1>3 DEF hist_down
  <2>2. s \in Line
    <3>1. Str(savebuf) \in Line
      BY <1>1, HoldsLemma DEF SavedOK
    <3>2. histptr # 0 => Entry(histptr - 1) \in Line
      BY <1>1, <1>3, EntryLemma
    <3> QED BY <3>1, <3>2
  <2> HIDE DEF s
  <2>3. histptr' \in -1 .. hist_count-1 /\ (histptr # 0 => histptr' # -1)
    BY <1>1, <1>3, <2>1
  <2>4. SavedOK' /\ savebuf'[len] = NUL
    BY <1>1 DEF SavedOK
  <2>5. ~ stale => Str(savebuf') = live
    BY <1>1, <1>3 DEF IInv, ViewOK, InputSaved
  <2>6. (histptr # 0) \in BOOLEAN
    OBVIOUS
  <2> DEFINE r == histptr # 0
  <2>7. r \in BOOLEAN /\ Sees(r, shellbuf') /\ (r => histptr' # -1)
    BY <2>1, <2>3
  <2> HIDE DEF r
  <2> QED BY <1>1, <2>1, <2>2, <2>3, <2>4, <2>5, <2>7, ShowOK
<1> QED BY <1>2, <1>3

-----------------------------------------------------------------------------
(* Enter.                                                                  *)

\* The entries are fewer than the blocks, so strdup finds one.
LEMMA FreeBlock ==
    ASSUME IInv
    PROVE  \E b \in Block : b \notin DOMAIN text
<1> USE SizeAssumption, BlockAssumption
<1> DEFINE I == 0 .. hist_count-1
           f == [i \in I |-> shellhist[i]]
<1>1. hist_count \in 0 .. hist_len /\ DOMAIN text \subseteq Block
  BY DEF IInv, TypeOK
<1>2. f \in Surjection(I, DOMAIN text)
  BY DEF IInv, EntriesOwned, Surjection
<1>3. IsFiniteSet(I) /\ Cardinality(I) = hist_count
  BY <1>1, FS_Interval
<1> HIDE DEF I, f
<1>4. IsFiniteSet(DOMAIN text) /\ Cardinality(DOMAIN text) <= hist_count
  BY <1>2, <1>3, FS_Surjection
<1>5. Cardinality(Block) \in Nat /\ Cardinality(DOMAIN text) \in Nat
  BY <1>4, FS_CardinalityType
<1>6. DOMAIN text # Block
  BY <1>1, <1>4, <1>5
<1> QED BY <1>1, <1>6

\* Storing a line: n entries are kept, the new one is in front of them, in a
\* block b that is none of theirs.
LEMMA StoreLemma ==
    ASSUME IInv, Store
    PROVE  \E b \in Block, n \in 0 .. hist_len-1 :
              /\ b \notin Kept /\ Kept = {shellhist[i] : i \in 0 .. n-1}
              /\ n <= hist_count /\ hist_count' = n + 1
              /\ n = IF hist_count = hist_len THEN hist_count - 1 ELSE hist_count
              /\ DOMAIN text' = Kept \cup {b}
              /\ text'[b] = Str(shellbuf) /\ \A c \in Kept : text'[c] = text[c]
              /\ shellhist' \in [0 .. hist_len-1 -> Block \cup {NoBlock}]
              /\ shellhist'[0] = b /\ \A i \in 1 .. n : shellhist'[i] = shellhist[i - 1]
<1> USE SizeAssumption
<1> DEFINE b == CHOOSE b \in Block : b \notin Kept
           n == IF Evicts THEN hist_count - 1 ELSE hist_count
<1>1. /\ hist_count \in 0 .. hist_len
      /\ shellhist \in [0 .. hist_len-1 -> Block \cup {NoBlock}]
      /\ \A i, j \in 0 .. hist_count-1 : shellhist[i] = shellhist[j] => i = j
      /\ {shellhist[i] : i \in 0 .. hist_count-1} = DOMAIN text
  BY DEF IInv, TypeOK, EntriesOwned
<1>2. b \in Block /\ b \notin Kept
  <2>1. \E c \in Block : c \notin Kept
    BY FreeBlock DEF Kept
  <2> QED BY <2>1
<1>3. /\ text' = [c \in Kept \cup {b} |-> IF c = b THEN Str(shellbuf) ELSE text[c]]
      /\ shellhist' = [Shifted(n) EXCEPT ![0] = b] /\ hist_count' = n + 1
  BY DEF Store
<1> HIDE DEF b
<1>4. n \in 0 .. hist_len-1 /\ n <= hist_count
  BY <1>1 DEF Evicts
<1>5. Kept = {shellhist[i] : i \in 0 .. n-1}
  <2>1. CASE Evicts
    <3>1. hist_count = hist_len /\ n = hist_len - 1
      BY <2>1 DEF Evicts
    <3>2. Kept = DOMAIN text \ {shellhist[hist_len - 1]}
      BY <2>1 DEF Kept
    <3> QED BY <1>1, <3>1, <3>2
  <2>2. CASE ~ Evicts
    BY <1>1, <2>2 DEF Kept
  <2> QED BY <2>1, <2>2
<1>6. n = IF hist_count = hist_len THEN hist_count - 1 ELSE hist_count
  BY DEF Evicts
<1> HIDE DEF n
<1>7. Shifted(n) \in [0 .. hist_len-1 -> Block \cup {NoBlock}]
  <2>1. ASSUME NEW i \in 0 .. hist_len-1
        PROVE  (IF i \in 1 .. n THEN shellhist[i - 1] ELSE shellhist[i]) \in Block \cup {NoBlock}
    <3>1. i \in 1 .. n => i - 1 \in 0 .. hist_len-1
      BY <1>4
    <3> QED BY <1>1, <3>1
  <2> QED BY <2>1 DEF Shifted
<1>8. \A i \in 1 .. n : Shifted(n)[i] = shellhist[i - 1]
  BY <1>4 DEF Shifted
<1>9. /\ shellhist' \in [0 .. hist_len-1 -> Block \cup {NoBlock}]
      /\ shellhist'[0] = b /\ \A i \in 1 .. n : shellhist'[i] = shellhist[i - 1]
  BY <1>2, <1>3, <1>4, <1>7, <1>8
<1>10. /\ DOMAIN text' = Kept \cup {b} /\ text'[b] = Str(shellbuf)
       /\ \A c \in Kept : text'[c] = text[c]
  BY <1>2, <1>3
<1> QED BY <1>2, <1>3, <1>4, <1>5, <1>6, <1>9, <1>10

\* What Store does to the blocks and the entries keeps them matched.
LEMMA StoreOK ==
    ASSUME IInv, Store
    PROVE  /\ EntriesOwned' /\ TextOK'
           /\ hist_count' \in 1 .. hist_len /\ DOMAIN text' \subseteq Block
           /\ shellhist' \in [0 .. hist_len-1 -> Block \cup {NoBlock}]
<1> USE SizeAssumption
<1>1. PICK b \in Block, n \in 0 .. hist_len-1 :
              /\ b \notin Kept /\ Kept = {shellhist[i] : i \in 0 .. n-1}
              /\ n <= hist_count /\ hist_count' = n + 1
              /\ n = IF hist_count = hist_len THEN hist_count - 1 ELSE hist_count
              /\ DOMAIN text' = Kept \cup {b}
              /\ text'[b] = Str(shellbuf) /\ \A c \in Kept : text'[c] = text[c]
              /\ shellhist' \in [0 .. hist_len-1 -> Block \cup {NoBlock}]
              /\ shellhist'[0] = b /\ \A i \in 1 .. n : shellhist'[i] = shellhist[i - 1]
  BY StoreLemma
<1>2. /\ Kept \subseteq DOMAIN text /\ DOMAIN text \subseteq Block
      /\ text \in [DOMAIN text -> Line] /\ Str(shellbuf) \in Line
      /\ \A i, j \in 0 .. hist_count-1 : shellhist[i] = shellhist[j] => i = j
      /\ hist_count \in Nat
  BY LineLemma DEF IInv, TypeOK, TextOK, EntriesOwned, Kept
<1>3. TextOK'
  <2>1. \A c \in DOMAIN text' : text'[c] \in Line
    BY <1>1, <1>2
  <2>2. text' = [c \in DOMAIN text' |-> text'[c]]
    BY Zenon DEF Store
  <2> QED BY <2>1, <2>2 DEF TextOK
<1>4. EntriesOwned'
  <2>1. ASSUME NEW i \in 0 .. n, NEW j \in 0 .. n, shellhist'[i] = shellhist'[j] PROVE i = j
    <3>1. \A k \in 1 .. n : k - 1 \in 0 .. n-1 /\ k - 1 \in 0 .. hist_count-1
      BY <1>1, <1>2
    <3>2. \A k \in 1 .. n : shellhist'[k] \in Kept /\ shellhist'[k] = shellhist[k - 1]
      BY <1>1, <3>1
    <3>3. CASE i = 0 \/ j = 0
      BY <1>1, <2>1, <3>2, <3>3
    <3>4. CASE i # 0 /\ j # 0
      <4>1. i \in 1 .. n /\ j \in 1 .. n
        BY <3>4
      <4>2. i - 1 = j - 1
        BY <1>2, <2>1, <3>1, <3>2, <4>1
      <4> QED BY <4>1, <4>2
    <3> QED BY <3>3, <3>4
  <2>2. {shellhist'[i] : i \in 0 .. n} = Kept \cup {b}
    <3>1. \A i \in 0 .. n-1 : i + 1 \in 1 .. n /\ shellhist'[i + 1] = shellhist[i]
      BY <1>1
    <3>2. \A i \in 1 .. n : i - 1 \in 0 .. n-1
      OBVIOUS
    <3>3. ASSUME NEW c \in Kept \cup {b} PROVE \E i \in 0 .. n : shellhist'[i] = c
      <4>1. CASE c = b
        BY <1>1, <4>1
      <4>2. CASE c # b
        <5>1. PICK i \in 0 .. n-1 : c = shellhist[i]
          BY <1>1, <4>2
        <5>2. i + 1 \in 0 .. n
          OBVIOUS
        <5> QED BY <3>1, <5>1, <5>2
      <4> QED BY <4>1, <4>2
    <3>4. ASSUME NEW i \in 0 .. n PROVE shellhist'[i] \in Kept \cup {b}
      BY <1>1, <3>2
    <3> QED BY <3>3, <3>4
  <2>3. hist_count' - 1 = n
    BY <1>1
  <2> QED BY <1>1, <2>1, <2>2, <2>3 DEF EntriesOwned
<1> QED BY <1>1, <1>2, <1>3, <1>4

LEMMA NewlineOK == ASSUME IInv, hist_newline, state' = "NONE" PROVE IInv'
<1> USE SizeAssumption
<1>1. /\ LineOK /\ SavedOK /\ savebuf[len] = NUL /\ shellbuf[len] = NUL
      /\ hist_count \in 0 .. hist_len
  BY DEF IInv, TypeOK
<1>2. ViewOK' /\ InputSaved'
  <2>1. Sees(FALSE, shellbuf') /\ stale \in BOOLEAN
    BY DEF hist_newline, IInv, ViewOK
  <2> QED BY <2>1, SeesLemma
<1>0. typed' = <<>> /\ typed' \in Seq(Char) /\ Len(typed') = 0
  BY DEF hist_newline
<1>3. CASE Empty /\ UNCHANGED <<shellbuf, shellptr, savebuf, histptr, shellhist, hist_count, text>>
  <2>1. typed = <<>>
    <3>1. typed \in Seq(Char) /\ Len(typed) = 0
      BY <1>1, <1>3 DEF Empty, LineOK
    <3> QED BY <3>1, EmptySeq
  <2>2. LineOK'
    BY <1>0, <1>1, <1>3, <2>1 DEF LineOK
  <2> QED BY <1>2, <1>3, <2>2 DEF IInv, TypeOK, SavedOK, TextOK, EntriesOwned
<1>4. ASSUME ClearLine
      PROVE  LineOK' /\ shellbuf'[len] = NUL /\ shellbuf' \in Buffer /\ histptr' = -1 /\ shellptr' = 0
  <2>1. PICK m \in 0 .. shellptr : Holds(shellbuf, m)
    BY <1>1 DEF LineOK
  <2>2. shellbuf' = [shellbuf EXCEPT ![0] = NUL] /\ shellptr' = 0 /\ histptr' = -1
    BY <1>4 DEF ClearLine
  <2>3. Holds(shellbuf', 0)
    BY <2>1, <2>2, ClearedLemma
  <2>4. shellbuf' \in Buffer /\ shellbuf'[0] = NUL /\ shellbuf'[len] = NUL
    BY <1>1, <2>1, <2>2, <2>3 DEF Holds, Buffer
  <2>5. 0 \in 0 .. shellptr' /\ 1 .. Len(typed') = {}
    BY <1>0, <2>2
  <2>6. LineOK'
    BY <1>0, <2>2, <2>3, <2>4, <2>5 DEF LineOK
  <2> QED BY <2>2, <2>4, <2>6
<1>5. CASE ClearLine /\ UNCHANGED <<savebuf, shellhist, hist_count, text>>
  <2>1. TypeOK'
    BY <1>1, <1>4, <1>5 DEF IInv, TypeOK
  <2> QED BY <1>2, <1>4, <1>5, <2>1 DEF IInv, SavedOK, TextOK, EntriesOwned
<1>6. CASE Store /\ ClearLine /\ savebuf' = [savebuf EXCEPT ![0] = NUL]
  <2>1. SavedOK' /\ savebuf'[len] = NUL
    <3>1. 0 \in 0 .. len-1
      OBVIOUS
    <3>2. PICK m \in 0 .. len-1 : Holds(savebuf, m)
      BY <1>1 DEF SavedOK
    <3>3. Holds(savebuf', 0)
      BY <1>6, <3>2, ClearedLemma
    <3>4. savebuf'[len] = NUL
      BY <1>1, <1>6, <3>2 DEF Holds, Buffer
    <3> QED BY <3>1, <3>3, <3>4 DEF SavedOK
  <2>2. TypeOK'
    <3>1. savebuf' \in Buffer /\ shellbuf' \in Buffer
      BY <1>4, <1>6, <2>1 DEF SavedOK, Holds
    <3>2. -1 \in -1 .. hist_count'-1
      BY <1>6, StoreOK
    <3> QED BY <1>4, <1>6, <2>1, <3>1, <3>2, StoreOK DEF TypeOK
  <2> QED BY <1>2, <1>4, <1>6, <2>1, <2>2, StoreOK DEF IInv
<1> QED BY <1>3, <1>5, <1>6 DEF hist_newline

-----------------------------------------------------------------------------
(* The theorems.                                                           *)

LEMMA StepOK == IInv /\ [Next]_vars => IInv'
<1> SUFFICES ASSUME IInv, [Next]_vars PROVE IInv'
  OBVIOUS
<1>1. ASSUME UNCHANGED line, state' \in {"NONE", "ESC", "CSI"} PROVE IInv'
  BY <1>1 DEF line, IInv, TypeOK, LineOK, SavedOK, TextOK, EntriesOwned, ViewOK, InputSaved
<1>2. CASE UNCHANGED vars
  <2>1. UNCHANGED line /\ state' \in {"NONE", "ESC", "CSI"}
    BY <1>2 DEF vars, line, IInv, TypeOK
  <2> QED BY <1>1, <2>1
<1>3. CASE Plain
  <2>1. CASE state' = "ESC" /\ UNCHANGED line
    BY <1>1, <2>1
  <2>2. CASE state' = "NONE" /\ hist_newline
    BY <2>2, NewlineOK
  <2>3. CASE state' = "NONE" /\ Backspace
    BY <2>3, BackspaceOK
  <2>4. CASE state' = "NONE" /\ \E c \in Typed : Insert(c)
    BY <2>4, InsertOK
  <2> QED BY <1>3, <2>1, <2>2, <2>3, <2>4 DEF Plain
<1>4. CASE Escape
  BY <1>1, <1>4 DEF Escape
<1>5. CASE Sequence
  BY <1>1, <1>5, UpOK, DownOK DEF Sequence
<1>6. CASE kconsumer_arrows
  <2>1. state' \in {"NONE", "ESC", "CSI"}
    BY <1>6 DEF kconsumer_arrows, IInv, TypeOK
  <2> QED BY <1>6, <2>1, UpOK, DownOK DEF kconsumer_arrows
<1> QED BY <1>2, <1>3, <1>4, <1>5, <1>6 DEF Next, kconsumer_shell

\* The inductive invariant.
THEOREM Invariant == Spec => []IInv
  BY InitOK, StepOK, PTL DEF Spec

\* No index leaves the buffers or the history, and both buffers always end
\* with a NUL.
THEOREM TypeCorrect == Spec => []TypeOK
<1>1. IInv => TypeOK
  BY DEF IInv
<1> QED BY <1>1, Invariant, PTL

\* However the line came about, by typing, by Backspace or from the history,
\* the cursor is behind all that was typed and the line is what was typed up to
\* a NUL.
THEOREM CursorFollowsLine == Spec => []CursorAtEnd
<1>1. IInv => CursorAtEnd
  <2>1. LineOK => shellptr = Len(typed)
    BY DEF LineOK
  <2> QED BY <2>1, LineLemma DEF IInv, CursorAtEnd
<1> QED BY <1>1, Invariant, PTL

\* The history frees each of its strings once and keeps every other.
THEOREM HistoryOwnsItsBlocks == Spec => []EntriesOwned
<1>1. IInv => EntriesOwned
  BY DEF IInv
<1> QED BY <1>1, Invariant, PTL

\* The input is saved when the user goes up, unless histptr was left over.
THEOREM InputIsSaved == Spec => []InputSaved
<1>1. IInv => InputSaved
  BY DEF IInv
<1> QED BY <1>1, Invariant, PTL

\* The new history after Store is the old one with the line in front.
LEMMA StoreHistory ==
    ASSUME IInv, Store, ~ Empty, ~ Duplicate
    PROVE  History' = Stored(History)
<1> USE SizeAssumption
<1> DEFINE s == Str(shellbuf)
           h == History
<1>1. PICK b \in Block, n \in 0 .. hist_len-1 :
              /\ b \notin Kept /\ Kept = {shellhist[i] : i \in 0 .. n-1}
              /\ n <= hist_count /\ hist_count' = n + 1
              /\ n = IF hist_count = hist_len THEN hist_count - 1 ELSE hist_count
              /\ DOMAIN text' = Kept \cup {b}
              /\ text'[b] = Str(shellbuf) /\ \A c \in Kept : text'[c] = text[c]
              /\ shellhist' \in [0 .. hist_len-1 -> Block \cup {NoBlock}]
              /\ shellhist'[0] = b /\ \A i \in 1 .. n : shellhist'[i] = shellhist[i - 1]
  BY StoreLemma
<1>2. /\ h \in Seq(Line) /\ Len(h) = hist_count /\ hist_count \in 0 .. hist_len
      /\ \A i \in 1 .. hist_count : h[i] = text[shellhist[i - 1]]
  <2>1. hist_count \in 0 .. hist_len
    BY DEF IInv, TypeOK
  <2>2. \A i \in 1 .. hist_count : Entry(i - 1) \in Line
    <3> TAKE i \in 1 .. hist_count
    <3>1. i - 1 \in 0 .. hist_count-1
      BY <2>1
    <3> QED BY <3>1, EntryLemma
  <2> QED BY <2>1, <2>2 DEF History, Entry
<1>3. s \in Line /\ s = UpToNul(typed) /\ typed # << >>
  <2>1. s \in Line /\ s = UpToNul(typed)
    BY LineLemma DEF IInv
  <2>2. typed # << >>
    BY DEF IInv, LineOK, Empty
  <2> QED BY <2>1, <2>2
<1>4. hist_count > 0 => Head(h) # s
  <2> SUFFICES ASSUME hist_count > 0 PROVE Head(h) # s
    OBVIOUS
  <2>1. Head(h) = text[shellhist[0]]
    BY <1>2
  <2> QED BY <2>1 DEF Duplicate
<1>5. History' = [i \in 1 .. n+1 |-> IF i = 1 THEN s ELSE h[i - 1]]
  <2>1. History' = [i \in 1 .. n+1 |-> text'[shellhist'[i - 1]]]
    BY <1>1 DEF History, Entry
  <2>2. ASSUME NEW i \in 1 .. n+1
        PROVE  text'[shellhist'[i - 1]] = IF i = 1 THEN s ELSE h[i - 1]
    <3>1. CASE i = 1
      BY <1>1, <3>1
    <3>2. CASE i # 1
      <4>1. i - 1 \in 1 .. n /\ i - 1 \in 1 .. hist_count /\ (i - 1) - 1 \in 0 .. n-1
        BY <1>1, <1>2, <3>2
      <4>2. shellhist'[i - 1] = shellhist[(i - 1) - 1] /\ shellhist[(i - 1) - 1] \in Kept
        BY <1>1, <4>1
      <4>3. h[i - 1] = text[shellhist[(i - 1) - 1]]
        BY <1>2, <4>1
      <4> QED BY <1>1, <3>2, <4>2, <4>3
    <3> QED BY <3>1, <3>2
  <2> QED BY <2>1, <2>2
<1> HIDE DEF s, h
<1>6. Stored(h) = SubSeq(<<s>> \o h, 1, n + 1)
  <2>1. ~ (typed = << >> \/ (h # << >> /\ Head(h) = s))
    BY <1>2, <1>3, <1>4
  <2>2. (IF Len(h) < hist_len THEN Len(h) + 1 ELSE hist_len) = n + 1
    BY <1>1, <1>2
  <2> QED BY <1>3, <2>1, <2>2 DEF Stored
<1>7. SubSeq(<<s>> \o h, 1, n + 1) = [i \in 1 .. n+1 |-> IF i = 1 THEN s ELSE h[i - 1]]
  <2>1. /\ <<s>> \o h \in Seq(Line) /\ Len(<<s>> \o h) = hist_count + 1
        /\ \A i \in 1 .. hist_count + 1 : (<<s>> \o h)[i] = IF i = 1 THEN s ELSE h[i - 1]
    BY <1>2, <1>3
  <2> DEFINE w == <<s>> \o h
  <2> HIDE DEF w
  <2>2. SubSeq(w, 1, n + 1) = [i \in 1 .. n+1 |-> w[i]]
    BY <1>1, <1>2, <2>1 DEF w
  <2>3. \A i \in 1 .. n+1 : w[i] = IF i = 1 THEN s ELSE h[i - 1]
    BY <1>1, <1>2, <2>1 DEF w
  <2> QED BY <2>2, <2>3 DEF w
<1> QED BY <1>5, <1>6, <1>7 DEF s, h

\* Moving about in the history and editing lines that came from it leave it
\* alone; Enter puts the line in front, an empty one too if it began with a NUL.
THEOREM EnterAloneChangesHistory == Spec => HistoryOfLines
<1>1. ASSUME IInv, [Next]_vars
      PROVE  [History' \in {History, Stored(History)}]_vars
  <2>1. CASE UNCHANGED <<shellhist, hist_count, text>>
    BY <2>1 DEF History, Entry
  <2>2. CASE hist_newline
    <3>1. CASE Store /\ ~ Empty /\ ~ Duplicate
      BY <1>1, <3>1, StoreHistory
    <3>2. CASE UNCHANGED <<shellhist, hist_count, text>>
      BY <2>1, <3>2
    <3> QED BY <2>2, <3>1, <3>2 DEF hist_newline
  <2> QED
    BY <1>1, <2>1, <2>2 DEF Next, kconsumer_shell, Plain, Escape, Sequence, kconsumer_arrows,
                            hist_up, hist_down, Backspace, Insert, line, vars
<1> QED BY <1>1, Invariant, PTL DEF Spec, HistoryOfLines

-----------------------------------------------------------------------------
(* The keyboard (module Ps2).                                              *)

\* The shift keys that are held before the i-th waiting code was sent.
HeldAt(i) == IF i <= Len(wire) THEN wire[i].held ELSE down \cap Shift

\* The flag fits the shift keys held, when all or none of them are.
Agrees(held, flag) == /\ held = {} => ~ flag
                      /\ held = Shift => (flag \/ Shift = {})

\* The shift keys held once a code has been sent.
HeldAfter(c) == IF c.sc \in Shift THEN c.held \cup {c.sc}
                ELSE IF c.sc - 128 \in Shift THEN c.held \ {c.sc - 128} ELSE c.held

WireOK == wire \in Seq([sc : 1 .. 255, held : SUBSET Shift])

\* Each waiting code before an extended key changes the keys held as it says.
WireTells == \A i \in 1 .. Len(wire) :
    (\A j \in 1 .. i : wire[j].sc # EXT) => HeldAt(i + 1) = HeldAfter(wire[i])

\* Until an extended key makes the handler deaf, the flag fits the next code.
Ps2Inv == /\ ext \in BOOLEAN /\ shift \in BOOLEAN /\ caps \in BOOLEAN
          /\ down \subseteq Key /\ WireOK
          /\ ~ ext => WireTells /\ Agrees(HeldAt(1), shift)
          /\ CharOfKeysHeld

LEMMA ShiftCodes == /\ Shift \subseteq Key /\ Shift \subseteq 1 .. 127 /\ Key \subseteq 1 .. 127
                    /\ Arrow \subseteq 1 .. 127
                    /\ EXT = 224 /\ 224 - 128 \notin Shift
                    /\ \A s \in Shift : s = 42 \/ s = 54
  BY KeyAssumption DEF Shift, LSHIFT, RSHIFT, EXT

\* Codes are appended: what waits already keeps its place, and the keys held
\* before the first new code are those held now.
LEMMA Appended ==
    ASSUME Ps2Inv, NEW codes \in Seq([sc : 1 .. 255, held : SUBSET Shift]), Len(codes) > 0,
           codes[1].held = down \cap Shift, down' \subseteq Key, Send(codes),
           \A i \in 1 .. Len(codes) : (\A j \in 1 .. i : codes[j].sc # EXT) =>
               (IF i < Len(codes) THEN codes[i + 1].held ELSE down' \cap Shift) = HeldAfter(codes[i])
    PROVE  Ps2Inv'
<1> DEFINE n == Len(wire)
<1>1. /\ wire' = wire \o codes
      /\ UNCHANGED <<ext, shift, caps, events>>
  BY DEF Send
<1>2. wire \in Seq([sc : 1 .. 255, held : SUBSET Shift])
  BY DEF Ps2Inv, WireOK
<1>3. /\ wire' \in Seq([sc : 1 .. 255, held : SUBSET Shift])
      /\ Len(wire') = Len(wire) + Len(codes)
      /\ \A i \in 1 .. Len(wire) + Len(codes) :
             wire'[i] = IF i <= Len(wire) THEN wire[i] ELSE codes[i - Len(wire)]
  BY <1>1, <1>2, ConcatProperties
<1>4. n \in Nat /\ Len(codes) \in Nat /\ n = Len(wire)
  BY <1>2, LenProperties
<1> HIDE DEF n
<1>5. /\ \A i \in 1 .. n : wire'[i] = wire[i]
      /\ \A i \in 1 .. Len(codes) : wire'[n + i] = codes[i]
      /\ Len(wire') = n + Len(codes)
  <2>1. ASSUME NEW i \in 1 .. n PROVE wire'[i] = wire[i]
    BY <1>3, <1>4
  <2>2. ASSUME NEW i \in 1 .. Len(codes) PROVE wire'[n + i] = codes[i]
    <3> DEFINE k == n + i
    <3>1. k \in 1 .. Len(wire) + Len(codes) /\ k > Len(wire) /\ k - Len(wire) = i /\ k \in Int
      BY <1>4
    <3> HIDE DEF k
    <3>2. wire'[k] = IF k <= Len(wire) THEN wire[k] ELSE codes[k - Len(wire)]
      BY <1>3, <3>1
    <3>3. ~ (k <= Len(wire))
      BY <1>4, <3>1
    <3>4. wire'[k] = codes[i]
      BY <3>1, <3>2, <3>3
    <3> QED BY <3>4 DEF k
  <2>3. Len(wire') = n + Len(codes)
    BY <1>3, <1>4
  <2> QED BY <2>1, <2>2, <2>3
<1>6. ASSUME NEW i \in 1 .. n + 1 PROVE HeldAt(i)' = HeldAt(i)
  <2>1. CASE i <= n
    <3>1. i \in 1 .. n /\ i <= Len(wire) /\ i <= Len(wire')
      BY <1>4, <1>5, <2>1
    <3> QED BY <1>5, <3>1 DEF HeldAt
  <2>2. CASE ~ (i <= n)
    <3>1. i = n + 1 /\ 1 \in 1 .. Len(codes) /\ i <= Len(wire') /\ ~ (i <= Len(wire))
      BY <1>4, <1>5, <2>2
    <3> QED BY <1>5, <3>1 DEF HeldAt
  <2> QED BY <2>1, <2>2
<1>7. ASSUME ~ ext PROVE WireTells'
  <2> SUFFICES ASSUME NEW i \in 1 .. n + Len(codes), \A j \in 1 .. i : wire'[j].sc # EXT
               PROVE  HeldAt(i + 1)' = HeldAfter(wire'[i])
    BY <1>4, <1>5 DEF WireTells, HeldAfter
  <2>1. CASE i <= n
    <3>1. i \in 1 .. n /\ i + 1 \in 1 .. n + 1 /\ wire'[i] = wire[i]
      BY <1>4, <1>5, <2>1
    <3>2. ASSUME NEW j \in 1 .. i PROVE wire[j].sc # EXT
      <4>1. j \in 1 .. n
        BY <1>4, <2>1
      <4> QED BY <1>5, <4>1
    <3>3. HeldAt(i + 1) = HeldAfter(wire[i])
      BY <1>4, <1>7, <3>1, <3>2 DEF Ps2Inv, WireTells
    <3> QED BY <1>6, <3>1, <3>3
  <2>2. CASE i > n
    <3> DEFINE m == i - n
    <3>1. m \in 1 .. Len(codes) /\ i = n + m
      BY <1>4, <2>2
    <3> HIDE DEF m
    <3>2. wire'[i] = codes[m]
      BY <1>5, <3>1
    <3>3. \A j \in 1 .. m : codes[j].sc # EXT
      <4> SUFFICES ASSUME NEW j \in 1 .. m PROVE codes[j].sc # EXT
        OBVIOUS
      <4>1. j \in 1 .. Len(codes) /\ n + j \in 1 .. i
        BY <1>4, <3>1
      <4> QED BY <1>5, <4>1
    <3>4. HeldAt(i + 1)' = IF m < Len(codes) THEN codes[m + 1].held ELSE down' \cap Shift
      <4>1. CASE m < Len(codes)
        <5>1. m + 1 \in 1 .. Len(codes) /\ i + 1 <= Len(wire') /\ i + 1 = n + (m + 1)
          BY <1>4, <1>5, <3>1, <4>1
        <5>2. wire'[n + (m + 1)] = codes[m + 1]
          BY <1>5, <5>1
        <5> QED BY <4>1, <5>1, <5>2 DEF HeldAt
      <4>2. CASE ~ (m < Len(codes))
        <5>1. ~ (i + 1 <= Len(wire'))
          BY <1>4, <1>5, <3>1, <4>2
        <5> QED BY <4>2, <5>1 DEF HeldAt
      <4> QED BY <4>1, <4>2
    <3>5. (IF m < Len(codes) THEN codes[m + 1].held ELSE down' \cap Shift) = HeldAfter(codes[m])
      BY <3>1, <3>3
    <3> QED BY <3>2, <3>4, <3>5
  <2> QED BY <1>4, <2>1, <2>2
<1>8. HeldAt(1)' = HeldAt(1)
  <2>1. 1 \in 1 .. n + 1
    BY <1>4
  <2> QED BY <1>6, <2>1
<1> QED
  BY <1>1, <1>3, <1>7, <1>8 DEF Ps2Inv, WireOK, Agrees, CharOfKeysHeld

LEMMA CodeOK == ASSUME NEW sc \in 1 .. 255
                PROVE  /\ Code(sc) \in [sc : 1 .. 255, held : SUBSET Shift]
                       /\ Code(sc).held = down \cap Shift /\ Code(sc).sc = sc
  BY DEF Code

\* The next code is read.
LEMMA Read == ASSUME Ps2Inv, ps2_irq PROVE Ps2Inv'
<1> DEFINE c == Head(wire)
<1>1. /\ wire \in Seq([sc : 1 .. 255, held : SUBSET Shift]) /\ wire # <<>>
      /\ wire' = Tail(wire) /\ down' = down
  BY DEF Ps2Inv, WireOK, ps2_irq
<1>2. /\ Len(wire) \in Nat \ {0} /\ Len(wire') = Len(wire) - 1
      /\ \A i \in 1 .. Len(wire') : wire'[i] = wire[i + 1]
      /\ wire' \in Seq([sc : 1 .. 255, held : SUBSET Shift])
  BY <1>1, HeadTailProperties, EmptySeq, LenProperties
<1>3. c = wire[1] /\ c \in [sc : 1 .. 255, held : SUBSET Shift]
  <2>1. c = wire[1]
    BY <1>1
  <2>2. 1 \in 1 .. Len(wire)
    BY <1>2
  <2>3. wire[1] \in [sc : 1 .. 255, held : SUBSET Shift]
    BY <1>1, <2>2, ElementOfSeq
  <2> QED BY <2>1, <2>3
<1> HIDE DEF c
<1>4. ASSUME NEW i \in 1 .. Len(wire) PROVE HeldAt(i)' = HeldAt(i + 1)
  <2>1. i + 1 <= Len(wire) <=> i <= Len(wire')
    BY <1>2
  <2>2. i <= Len(wire') => i \in 1 .. Len(wire')
    BY <1>2
  <2> QED BY <1>1, <1>2, <2>1, <2>2 DEF HeldAt
<1>5. HeldAt(1) = c.held
  BY <1>2, <1>3 DEF HeldAt
<1>6. CASE ext
  <2>1. events' = <<>> /\ ext' = ext /\ shift' = shift /\ caps' = caps
    BY <1>6 DEF ps2_irq
  <2>2. CharOfKeysHeld'
    BY <2>1 DEF CharOfKeysHeld
  <2> QED
    BY <1>1, <1>2, <1>6, <2>1, <2>2 DEF Ps2Inv, WireOK
<1>7. CASE ~ ext
  <2>1. /\ events' = <<KeyEvent(c)>> \o (IF HasChar(c.sc) THEN <<CharEvent(c)>> ELSE <<>>)
        /\ Modifiers(c.sc)
    BY <1>7 DEF ps2_irq, c
  <2>2. ext' \in BOOLEAN /\ shift' \in BOOLEAN /\ caps' \in BOOLEAN
    BY <2>1 DEF Modifiers, Ps2Inv
  <2>3. CharOfKeysHeld'
    <3>1. Agrees(c.held, shift)
      BY <1>5, <1>7 DEF Ps2Inv
    <3>3. \A i \in 1 .. Len(events') : events'[i] = KeyEvent(c) \/ events'[i] = CharEvent(c)
      <4> DEFINE e == KeyEvent(c)
                 d == CharEvent(c)
                 x == IF HasChar(c.sc) THEN <<d>> ELSE <<>>
      <4>1. events' = <<e>> \o x
        BY <2>1
      <4> HIDE DEF e, d
      <4>2. <<e>> \in Seq({e, d}) /\ x \in Seq({e, d})
        <5>1. <<e>> \in Seq({e, d}) /\ <<d>> \in Seq({e, d}) /\ <<>> \in Seq({e, d})
          OBVIOUS
        <5> HIDE DEF x
        <5>2. x = <<d>> \/ x = <<>>
          BY DEF x
        <5> QED BY <5>1, <5>2
      <4> HIDE DEF x
      <4>3. events' \in Seq({e, d})
        BY <4>1, <4>2, ConcatProperties
      <4>4. \A i \in 1 .. Len(events') : events'[i] \in {e, d}
        BY <4>3, ElementOfSeq
      <4> QED BY <4>4 DEF e, d
    <3>4. KeyEvent(c).type = "KEY" /\ CharEvent(c).held = c.held /\ CharEvent(c).key = c.sc
          /\ (c.sc \notin Letter => CharEvent(c).other = shift)
      BY DEF KeyEvent, CharEvent
    <3> QED BY <3>1, <3>3, <3>4 DEF CharOfKeysHeld, Agrees
  <2>4. ASSUME c.sc # EXT PROVE WireTells' /\ Agrees(HeldAt(1), shift)'
    <3>1. WireTells'
      <4> SUFFICES ASSUME NEW i \in 1 .. Len(wire'), \A j \in 1 .. i : wire'[j].sc # EXT
                   PROVE  HeldAt(i + 1)' = HeldAfter(wire'[i])
        BY DEF WireTells, HeldAfter
      <4>1. i + 1 \in 1 .. Len(wire)
        BY <1>2
      <4>2. ASSUME NEW j \in 1 .. i + 1 PROVE wire[j].sc # EXT
        <5>1. CASE j = 1
          BY <1>3, <2>4, <5>1
        <5>2. CASE j # 1
          <6>1. j - 1 \in 1 .. i /\ j - 1 \in 1 .. Len(wire') /\ (j - 1) + 1 = j
            BY <1>2, <5>2
          <6> QED BY <1>2, <6>1
        <5> QED BY <5>1, <5>2
      <4>3. HeldAt(i + 1 + 1) = HeldAfter(wire[i + 1])
        BY <1>7, <4>1, <4>2 DEF Ps2Inv, WireTells
      <4>4. HeldAt(i + 1)' = HeldAt(i + 1 + 1)
        BY <1>4, <4>1
      <4> QED BY <1>2, <4>3, <4>4
    <3>2. HeldAt(1)' = HeldAfter(c)
      <4>1. 1 \in 1 .. Len(wire) /\ \A j \in 1 .. 1 : j = 1
        BY <1>2
      <4>2. HeldAt(1 + 1) = HeldAfter(wire[1])
        BY <1>3, <1>7, <2>4, <4>1 DEF Ps2Inv, WireTells
      <4> QED BY <1>3, <1>4, <4>1, <4>2
    <3>3. Agrees(HeldAfter(c), shift')
      <4>1. shift' = (c.sc \in Shift \/ (shift /\ c.sc \notin {s + 128 : s \in Shift}))
        BY <2>1 DEF Modifiers
      <4>2. Agrees(c.held, shift)
        BY <1>5, <1>7 DEF Ps2Inv
      <4>3. c.sc \in {s + 128 : s \in Shift} <=> c.sc - 128 \in Shift
        BY <1>3, ShiftCodes
      <4>4. c.held \subseteq Shift
        BY <1>3
      <4>5. CASE c.sc \in Shift
        BY <4>1, <4>5 DEF Agrees, HeldAfter
      <4>6. CASE c.sc \notin Shift /\ c.sc - 128 \in Shift
        BY <4>1, <4>3, <4>6 DEF Agrees, HeldAfter
      <4>7. CASE c.sc \notin Shift /\ c.sc - 128 \notin Shift
        BY <4>1, <4>2, <4>3, <4>7 DEF Agrees, HeldAfter
      <4> QED BY <4>5, <4>6, <4>7
    <3> QED BY <3>1, <3>2, <3>3 DEF Agrees
  <2>5. ext' = (c.sc = EXT)
    BY <2>1 DEF Modifiers
  <2> QED
    BY <1>1, <1>2, <2>2, <2>3, <2>4, <2>5 DEF Ps2Inv, WireOK
<1> QED
  BY <1>6, <1>7 DEF Ps2Inv

\* A character that is not a letter has the form of the shift keys held when it
\* was struck, whatever keys there are and however far the handler lags behind.
THEOREM CharactersFitShift == Ps2Spec => []CharOfKeysHeld
<1>1. Ps2Init => Ps2Inv
  <2> SUFFICES ASSUME Ps2Init PROVE Ps2Inv
    OBVIOUS
  <2>1. wire = <<>> /\ Len(wire) = 0 /\ WireOK
    BY DEF Ps2Init, WireOK
  <2>2. HeldAt(1) = {}
    BY <2>1 DEF HeldAt, Ps2Init
  <2>3. WireTells
    BY <2>1 DEF WireTells
  <2>4. CharOfKeysHeld
    BY DEF Ps2Init, CharOfKeysHeld
  <2> QED BY <2>1, <2>2, <2>3, <2>4 DEF Ps2Init, Ps2Inv, Agrees
<1>2. Ps2Inv /\ [Ps2Next]_ps2_vars => Ps2Inv'
  <2> SUFFICES ASSUME Ps2Inv, [Ps2Next]_ps2_vars PROVE Ps2Inv'
    OBVIOUS
  <2>0. down \subseteq Key
    BY DEF Ps2Inv
  <2>1. ASSUME NEW k \in Key, Press(k) PROVE Ps2Inv'
    <3> DEFINE codes == <<Code(k)>>
    <3>1. k \in 1 .. 255 /\ k # EXT /\ ~ (k - 128 \in Shift)
      BY ShiftCodes
    <3>2. codes \in Seq([sc : 1 .. 255, held : SUBSET Shift]) /\ Len(codes) = 1 /\ codes[1] = Code(k)
      <4>1. Code(k) \in [sc : 1 .. 255, held : SUBSET Shift]
        BY <3>1, CodeOK
      <4> QED BY <4>1
    <3>3. Send(codes) /\ down' = down \cup {k} /\ down' \subseteq Key
      BY <2>0, <2>1 DEF Press
    <3>4. down' \cap Shift = HeldAfter(Code(k))
      <4>1. Code(k).sc = k /\ Code(k).held = down \cap Shift
        BY <3>1, CodeOK
      <4>2. CASE k \in Shift
        BY <3>3, <4>1, <4>2 DEF HeldAfter
      <4>3. CASE k \notin Shift
        BY <3>1, <3>3, <4>1, <4>3 DEF HeldAfter
      <4> QED BY <4>2, <4>3
    <3>5. Code(k).held = down \cap Shift
      BY <3>1, CodeOK
    <3> HIDE DEF codes
    <3>6. \A i \in 1 .. Len(codes) : i = 1 /\ ~ (i < Len(codes))
      BY <3>2
    <3>7. \A i \in 1 .. Len(codes) :
               (IF i < Len(codes) THEN codes[i + 1].held ELSE down' \cap Shift) = HeldAfter(codes[i])
      BY <3>2, <3>4, <3>6
    <3>8. Len(codes) > 0 /\ codes[1].held = down \cap Shift
      BY <3>2, <3>5
    <3> QED BY <3>2, <3>3, <3>7, <3>8, Appended
  <2>2. ASSUME NEW k \in Key, Release(k) PROVE Ps2Inv'
    <3> DEFINE codes == <<Code(k + 128)>>
    <3>1. k + 128 \in 1 .. 255 /\ k + 128 \notin Shift /\ (k + 128) - 128 = k
      BY ShiftCodes
    <3>2. codes \in Seq([sc : 1 .. 255, held : SUBSET Shift]) /\ Len(codes) = 1 /\ codes[1] = Code(k + 128)
      <4>1. Code(k + 128) \in [sc : 1 .. 255, held : SUBSET Shift]
        BY <3>1, CodeOK
      <4> QED BY <4>1
    <3>3. Send(codes) /\ down' = down \ {k} /\ down' \subseteq Key
      BY <2>0, <2>2 DEF Release
    <3>4. down' \cap Shift = HeldAfter(Code(k + 128))
      <4>1. Code(k + 128).sc = k + 128 /\ Code(k + 128).held = down \cap Shift
        BY <3>1, CodeOK
      <4> QED BY <3>1, <3>3, <4>1 DEF HeldAfter
    <3>5. Code(k + 128).held = down \cap Shift
      BY <3>1, CodeOK
    <3> HIDE DEF codes
    <3>6. \A i \in 1 .. Len(codes) : i = 1 /\ ~ (i < Len(codes))
      BY <3>2
    <3>7. \A i \in 1 .. Len(codes) :
               (IF i < Len(codes) THEN codes[i + 1].held ELSE down' \cap Shift) = HeldAfter(codes[i])
      BY <3>2, <3>4, <3>6
    <3>8. Len(codes) > 0 /\ codes[1].held = down \cap Shift
      BY <3>2, <3>5
    <3> QED BY <3>2, <3>3, <3>7, <3>8, Appended
  <2>3. ASSUME NEW k \in 1 .. 255, Extended(k) PROVE Ps2Inv'
    <3> DEFINE codes == <<Code(EXT), Code(k)>>
    <3>1. EXT \in 1 .. 255
      BY ShiftCodes
    <3>2. codes \in Seq([sc : 1 .. 255, held : SUBSET Shift]) /\ Len(codes) = 2 /\ codes[1] = Code(EXT)
      <4>1. /\ Code(EXT) \in [sc : 1 .. 255, held : SUBSET Shift]
            /\ Code(k) \in [sc : 1 .. 255, held : SUBSET Shift]
        BY <3>1, CodeOK
      <4> QED BY <4>1
    <3>3. Send(codes) /\ down' \subseteq Key
      BY <2>0, <2>3 DEF Extended
    <3>4. Code(EXT).sc = EXT /\ Code(EXT).held = down \cap Shift
      BY <3>1, CodeOK
    <3> HIDE DEF codes
    <3>5. \A i \in 1 .. Len(codes) : 1 \in 1 .. i
      BY <3>2
    <3>6. ~ \E i \in 1 .. Len(codes) : \A j \in 1 .. i : codes[j].sc # EXT
      BY <3>2, <3>4, <3>5
    <3>7. Len(codes) > 0 /\ codes[1].held = down \cap Shift
      BY <3>2, <3>4
    <3> QED BY <3>2, <3>3, <3>6, <3>7, Appended
  <2>4. ASSUME Keyboard PROVE Ps2Inv'
    <3>1. ASSUME NEW k \in Arrow PROVE k \in 1 .. 255 /\ k + 128 \in 1 .. 255
      BY ShiftCodes
    <3> QED BY <2>1, <2>2, <2>3, <2>4, <3>1 DEF Keyboard
  <2>5. ASSUME UNCHANGED ps2_vars PROVE Ps2Inv'
    BY <2>5 DEF Ps2Inv, ps2_vars, WireOK, WireTells, HeldAt, HeldAfter, Agrees, CharOfKeysHeld
  <2> QED BY <2>4, <2>5, Read DEF Ps2Next
<1>3. Ps2Inv => CharOfKeysHeld
  BY DEF Ps2Inv
<1> QED BY <1>1, <1>2, <1>3, PTL DEF Ps2Spec
=============================================================================
