----------------------------- MODULE Ext2Proofs -----------------------------
(***************************************************************************)
(* Theorems about Ext2, for every volume that is what module Ext2Volume    *)
(* says, every line typed, every call, and every set of sectors that       *)
(* fails.                                                                  *)
(*                                                                         *)
(* What is found and read follows from what the walk along the path has    *)
(* come to: the inode of the first names of the path, with the other names *)
(* still in the string that strtok_r keeps (CameTo). It says nothing of a  *)
(* path that goes through a file, nor of a volume that offsets of 32 bits  *)
(* cannot address. The blocks of the heap that a call has are counted on   *)
(* the way (MemOK).                                                        *)
(***************************************************************************)
EXTENDS Ext2Reading

-----------------------------------------------------------------------------
(* The words of a string.                                                  *)

\* The first word of s is from b + 1 to e.
Word(s, delim, b, e) ==
    /\ b \in 0 .. Len(s) /\ e \in b .. Len(s)
    /\ \A k \in 1 .. b : s[k] = delim
    /\ \A k \in b + 1 .. e : s[k] # delim
    /\ b < Len(s) => s[b + 1] # delim
    /\ e < Len(s) => s[e + 1] = delim

\* What follows the first m of s.
From(s, m) == SubSeq(s, m + 1, Len(s))

\* What follows, element by element.
LEMMA FromLemma ==
    ASSUME NEW s, IsSeq(s), NEW m \in Nat
    PROVE  /\ IsSeq(From(s, m)) /\ Len(From(s, m)) = IF Len(s) <= m THEN 0 ELSE Len(s) - m
           /\ \A k \in 1 .. Len(From(s, m)) : From(s, m)[k] = s[m + k]
<1> DEFINE w == IF Len(s) <= m THEN 0 ELSE Len(s) - m
           f == From(s, m)
<1>1. Len(s) \in Nat /\ s = [k \in 1 .. Len(s) |-> s[k]]
  BY DEF IsSeq
<1>2. f = [k \in 1 .. w |-> s[m + k]] /\ Len(f) = w
  BY <1>1, SubSeqLemma DEF From
<1>3. w \in Nat
  BY <1>1
<1> HIDE DEF f, w
<1>4. f = [k \in 1 .. w |-> f[k]] /\ \A k \in 1 .. w : f[k] = s[m + k]
  BY <1>2
<1>5. IsSeq(f)
  BY <1>2, <1>3, <1>4 DEF IsSeq
<1> QED BY <1>2, <1>4, <1>5 DEF f, w

\* strspn, and strcspn.
LEMMA FirstNot ==
    ASSUME NEW s, IsSeq(s), NEW delim
    PROVE  LET b == strspn(s, delim)
           IN  /\ b \in 0 .. Len(s) /\ \A k \in 1 .. b : s[k] = delim
               /\ b < Len(s) => s[b + 1] # delim
<1> DEFINE n == Len(s)
           T == {k \in 0 .. n : k = n \/ s[k + 1] # delim}
           b == Min(T)
<1>1. n \in Nat
  BY DEF IsSeq
<1>2. b \in T /\ \A y \in T : b <= y
  <2>1. T \subseteq Nat /\ n \in T
    BY <1>1
  <2> HIDE DEF T
  <2> QED BY <2>1, MinLemma
<1> HIDE DEF b
<1>3. b \in 0 .. n /\ (b < n => s[b + 1] # delim)
  BY <1>1, <1>2
<1>4. ASSUME NEW k \in 1 .. b PROVE s[k] = delim
  <2>1. k - 1 \in 0 .. n /\ ~ (b <= k - 1) /\ (k - 1) + 1 = k /\ k - 1 # n
    BY <1>1, <1>3
  <2>2. k - 1 \notin T
    <3> HIDE DEF T
    <3> QED BY <1>2, <2>1
  <2> QED BY <2>1, <2>2
<1> QED BY <1>3, <1>4 DEF b, strspn

LEMMA FirstIs ==
    ASSUME NEW s, IsSeq(s), NEW delim
    PROVE  LET b == strcspn(s, delim)
           IN  /\ b \in 0 .. Len(s) /\ \A k \in 1 .. b : s[k] # delim
               /\ b < Len(s) => s[b + 1] = delim
<1> DEFINE n == Len(s)
           T == {k \in 0 .. n : k = n \/ s[k + 1] = delim}
           b == Min(T)
<1>1. n \in Nat
  BY DEF IsSeq
<1>2. b \in T /\ \A y \in T : b <= y
  <2>1. T \subseteq Nat /\ n \in T
    BY <1>1
  <2> HIDE DEF T
  <2> QED BY <2>1, MinLemma
<1> HIDE DEF b
<1>3. b \in 0 .. n /\ (b < n => s[b + 1] = delim)
  BY <1>1, <1>2
<1>4. ASSUME NEW k \in 1 .. b PROVE s[k] # delim
  <2>1. k - 1 \in 0 .. n /\ ~ (b <= k - 1) /\ (k - 1) + 1 = k /\ k - 1 # n
    BY <1>1, <1>3
  <2>2. k - 1 \notin T
    <3> HIDE DEF T
    <3> QED BY <1>2, <2>1
  <2> QED BY <2>1, <2>2
<1> QED BY <1>3, <1>4 DEF b, strcspn

\* There is one first word; it is what strtok_r returns, and what it leaves is
\* what follows the separator.
LEMMA TokenPlaces ==
    ASSUME NEW s, IsSeq(s), NEW delim
    PROVE  LET b == strspn(s, delim)
               e == b + strcspn(From(s, b), delim)
           IN  /\ Word(s, delim, b, e)
               /\ strtok_r(s, delim) = [tok |-> SubSeq(s, b + 1, e), save |-> From(s, e + 1)]
<1> DEFINE n == Len(s)
           b == strspn(s, delim)
           r == From(s, b)
           c == strcspn(r, delim)
           e == b + c
           t == strtok_r(s, delim)
<1>1. n \in Nat /\ s = [k \in 1 .. n |-> s[k]]
  BY DEF IsSeq
<1>2. b \in 0 .. n /\ (\A k \in 1 .. b : s[k] = delim) /\ (b < n => s[b + 1] # delim)
  BY FirstNot
<1> HIDE DEF b
<1>3. b \in Nat
  BY <1>1, <1>2
<1>4. IsSeq(r) /\ Len(r) = n - b /\ \A k \in 1 .. Len(r) : r[k] = s[b + k]
  <2>1. (IF n <= b THEN 0 ELSE n - b) = n - b
    BY <1>1, <1>2
  <2> QED BY <1>3, <2>1, FromLemma
<1>5. c \in 0 .. Len(r) /\ (\A k \in 1 .. c : r[k] # delim) /\ (c < Len(r) => r[c + 1] = delim)
  BY <1>4, FirstIs
<1> HIDE DEF r, c
<1>6. Word(s, delim, b, e)
  <2>1. e \in b .. n
    BY <1>1, <1>2, <1>4, <1>5
  <2>2. ASSUME NEW k \in b + 1 .. e PROVE s[k] # delim
    <3>1. k - b \in 1 .. c /\ b + (k - b) = k /\ k - b \in 1 .. Len(r)
      BY <1>1, <1>2, <1>4, <1>5
    <3> QED BY <1>4, <1>5, <3>1
  <2>3. e < n => s[e + 1] = delim
    <3> SUFFICES ASSUME e < n PROVE s[e + 1] = delim
      OBVIOUS
    <3>1. c < Len(r) /\ c + 1 \in 1 .. Len(r) /\ b + (c + 1) = e + 1
      BY <1>1, <1>2, <1>4, <1>5
    <3> QED BY <1>4, <1>5, <3>1
  <2> QED BY <1>2, <2>1, <2>2, <2>3 DEF Word
<1>7. t = [tok |-> SubSeq(r, 1, c), save |-> SubSeq(r, c + 2, Len(r))]
  BY DEF strtok_r, b, r, c, From
<1>8. SubSeq(r, 1, c) = SubSeq(s, b + 1, e)
  <2>1. r = [k \in 1 .. Len(r) |-> r[k]] /\ Len(r) \in Nat
    BY <1>4 DEF IsSeq
  <2>2. c \in Nat /\ c <= Len(r) /\ e \in Nat /\ e <= n /\ e - b = c
    BY <1>1, <1>2, <1>4, <1>5
  <2>3. SubSeq(r, 0 + 1, c) = [k \in 1 .. (IF c <= 0 THEN 0 ELSE c - 0) |-> r[0 + k]]
    BY <2>1, <2>2, SubSeqLemma
  <2>4. SubSeq(s, b + 1, e) = [k \in 1 .. (IF e <= b THEN 0 ELSE e - b) |-> s[b + k]]
    BY <1>1, <1>3, <2>2, SubSeqLemma
  <2>5. (IF c <= 0 THEN 0 ELSE c - 0) = c /\ (IF e <= b THEN 0 ELSE e - b) = c /\ 0 + 1 = 1
    BY <1>3, <2>2
  <2>6. \A k \in 1 .. c : r[0 + k] = s[b + k]
    <3> TAKE k \in 1 .. c
    <3>1. k \in 1 .. Len(r) /\ 0 + k = k
      BY <2>2
    <3> QED BY <1>4, <3>1
  <2>7. SubSeq(r, 1, c) = [k \in 1 .. c |-> r[0 + k]] /\ SubSeq(s, b + 1, e) = [k \in 1 .. c |-> s[b + k]]
    BY <2>3, <2>4, <2>5
  <2> HIDE DEF e
  <2> QED BY <2>6, <2>7
<1>9. SubSeq(r, c + 2, Len(r)) = From(s, e + 1)
  <2>1. c + 1 \in Nat /\ e + 1 \in Nat /\ (c + 1) + 1 = c + 2 /\ b + (c + 1) = e + 1
    BY <1>1, <1>3, <1>4, <1>5
  <2> DEFINE f == From(r, c + 1)
             g == From(s, e + 1)
  <2>2. /\ IsSeq(f) /\ Len(f) = IF Len(r) <= c + 1 THEN 0 ELSE Len(r) - (c + 1)
        /\ \A k \in 1 .. Len(f) : f[k] = r[(c + 1) + k]
    BY <1>4, <2>1, FromLemma
  <2>3. /\ IsSeq(g) /\ Len(g) = IF n <= e + 1 THEN 0 ELSE n - (e + 1)
        /\ \A k \in 1 .. Len(g) : g[k] = s[(e + 1) + k]
    BY <2>1, FromLemma
  <2>4. SubSeq(r, c + 2, Len(r)) = f
    BY <2>1 DEF From
  <2> HIDE DEF f, g
  <2>5. Len(f) = Len(g) /\ Len(f) \in Nat
    BY <1>1, <1>2, <1>4, <1>5, <2>2, <2>3
  <2>6. ASSUME NEW k \in 1 .. Len(f) PROVE f[k] = g[k]
    <3>1. (c + 1) + k \in 1 .. Len(r) /\ b + ((c + 1) + k) = (e + 1) + k
      BY <1>1, <1>2, <1>4, <1>5, <2>2, <2>5, <2>6
    <3>2. r[(c + 1) + k] = s[b + ((c + 1) + k)]
      BY <1>4, <3>1
    <3> QED BY <2>2, <2>3, <2>5, <3>1, <3>2
  <2>7. f = [k \in 1 .. Len(f) |-> f[k]] /\ g = [k \in 1 .. Len(g) |-> g[k]]
    BY <2>2, <2>3 DEF IsSeq
  <2>8. f = g
    BY <2>5, <2>6, <2>7
  <2> QED BY <2>4, <2>8 DEF g
<1> QED BY <1>6, <1>7, <1>8, <1>9 DEF b, r, c

\* There is only one first word.
LEMMA WordUnique ==
    ASSUME NEW s, IsSeq(s), NEW delim, NEW b, NEW e, Word(s, delim, b, e),
           NEW b2, NEW e2, Word(s, delim, b2, e2)
    PROVE  b = b2 /\ e = e2
<1>1. Len(s) \in Nat
  BY DEF IsSeq
<1>2. ASSUME NEW x, NEW f, Word(s, delim, x, f), NEW y, NEW g, Word(s, delim, y, g) PROVE ~ (x < y)
  <2> SUFFICES ASSUME x < y PROVE FALSE
    OBVIOUS
  <2>1. x + 1 \in 1 .. y /\ x < Len(s)
    BY <1>1, <1>2 DEF Word
  <2> QED BY <1>2, <2>1 DEF Word
<1>3. b = b2
  <2>1. b \in Int /\ b2 \in Int
    BY <1>1 DEF Word
  <2> QED BY <1>2, <2>1
<1>4. ASSUME NEW f, Word(s, delim, b, f), NEW g, Word(s, delim, b, g) PROVE ~ (f < g)
  <2> SUFFICES ASSUME f < g PROVE FALSE
    OBVIOUS
  <2>1. f + 1 \in b + 1 .. g /\ f < Len(s)
    BY <1>1, <1>4 DEF Word
  <2> QED BY <1>4, <2>1 DEF Word
<1>5. e = e2
  <2>1. e \in Int /\ e2 \in Int
    BY <1>1 DEF Word
  <2> QED BY <1>3, <1>4, <2>1
<1> QED BY <1>3, <1>5

\* What strtok_r does with a string whose first word is known.
LEMMA TokenAt ==
    ASSUME NEW s, IsSeq(s), NEW delim, NEW b, NEW e, Word(s, delim, b, e)
    PROVE  /\ strtok_r(s, delim) = [tok |-> SubSeq(s, b + 1, e), save |-> From(s, e + 1)]
           /\ strspn(s, delim) = b
<1> DEFINE b2 == strspn(s, delim)
           e2 == b2 + strcspn(From(s, b2), delim)
<1>1. /\ Word(s, delim, b2, e2)
      /\ strtok_r(s, delim) = [tok |-> SubSeq(s, b2 + 1, e2), save |-> From(s, e2 + 1)]
  BY TokenPlaces
<1> HIDE DEF b2, e2
<1>2. b2 = b /\ e2 = e
  BY <1>1, WordUnique
<1> QED BY <1>1, <1>2 DEF b2

\* A word of one letter, as names and commands are.
LEMMA TokenOne ==
    ASSUME NEW s, IsSeq(s), NEW b \in Nat, b + 1 <= Len(s)
    PROVE  SubSeq(s, b + 1, b + 1) = <<s[b + 1]>>
<1>1. Len(s) \in Nat /\ s = [k \in 1 .. Len(s) |-> s[k]]
  BY DEF IsSeq
<1> DEFINE e == b + 1
           w == IF e <= b THEN 0 ELSE e - b
<1>2. e \in Nat /\ e <= Len(s) /\ w = 1
  OBVIOUS
<1> HIDE DEF e
<1>3. SubSeq(s, b + 1, e) = [k \in 1 .. w |-> s[b + k]]
  BY <1>1, <1>2, SubSeqLemma
<1> HIDE DEF w
<1>4. SubSeq(s, b + 1, b + 1) = [k \in 1 .. 1 |-> s[b + k]]
  BY <1>2, <1>3 DEF e
<1>5. [k \in 1 .. 1 |-> s[b + k]] = <<s[b + 1]>>
  OBVIOUS
<1> QED BY <1>4, <1>5

\* strtok_r takes the names of a path one by one.
LEMMA NextName ==
    ASSUME NEW s, IsSeq(s), NEW names, IsSeq(names), Spells(s, names)
    PROVE  LET t == strtok_r(s, "/")
           IN  /\ Len(names) = 0 => t.tok = <<>>
               /\ Len(names) > 0 => /\ t.tok = <<names[1]>>
                                    /\ IsSeq(t.save) /\ Spells(t.save, From(names, 1))
<1> DEFINE n == Len(s)
           m == Len(names)
           t == strtok_r(s, "/")
<1>1. n \in Nat /\ m \in Nat
  BY DEF IsSeq
<1>2. PICK pos \in [1 .. m -> 1 .. n] :
        /\ \A i \in 1 .. m : s[pos[i]] = names[i] /\ names[i] # "/"
        /\ \A i, j \in 1 .. m : i < j => pos[i] + 1 < pos[j]
        /\ \A k \in 1 .. n : s[k] = "/" \/ \E i \in 1 .. m : pos[i] = k
  BY DEF Spells
<1>3. CASE m = 0
  <2>1. Word(s, "/", n, n)
    BY <1>1, <1>2, <1>3 DEF Word
  <2>2. t.tok = SubSeq(s, n + 1, n)
    BY <2>1, TokenAt
  <2>3. SubSeq(s, n + 1, n) = <<>>
    <3>1. SubSeq(s, n + 1, n) = [k \in 1 .. (IF n <= n THEN 0 ELSE n - n) |-> s[n + k]]
      BY <1>1, SubSeqLemma DEF IsSeq
    <3>2. [k \in 1 .. 0 |-> s[n + k]] = <<>>
      OBVIOUS
    <3> QED BY <1>1, <3>1, <3>2
  <2>4. t.tok = <<>>
    BY <2>2, <2>3
  <2> QED BY <1>3, <2>4
<1>4. CASE m > 0
  <2> DEFINE p == pos[1]
             b == p - 1
             rest == From(names, 1)
             save == From(s, p + 1)
  <2>1. 1 \in 1 .. m /\ p \in 1 .. n /\ s[p] = names[1] /\ names[1] # "/"
    BY <1>1, <1>2, <1>4
  <2>2. \A i \in 1 .. m : i # 1 => p + 1 < pos[i] /\ pos[i] \in 1 .. n
    <3> TAKE i \in 1 .. m
    <3>1. i # 1 => 1 < i
      BY <1>1
    <3> QED BY <1>2, <2>1, <3>1
  <2> HIDE DEF p
  <2>3. Word(s, "/", b, p)
    <3>1. b \in 0 .. n /\ p \in b .. n /\ b + 1 = p
      BY <1>1, <2>1
    <3>2. ASSUME NEW k \in 1 .. n, k # p, k <= p + 1 PROVE s[k] = "/"
      <4> SUFFICES ASSUME NEW i \in 1 .. m, pos[i] = k PROVE FALSE
        BY <1>2
      <4>1. i # 1
        BY <3>2 DEF p
      <4> QED BY <2>1, <2>2, <3>2, <4>1
    <3>3. \A k \in 1 .. b : s[k] = "/"
      <4> TAKE k \in 1 .. b
      <4>1. k \in 1 .. n /\ k # p /\ k <= p + 1
        BY <1>1, <2>1
      <4> QED BY <3>2, <4>1
    <3>4. p < n => s[p + 1] = "/"
      <4>1. p < n => p + 1 \in 1 .. n /\ p + 1 # p /\ p + 1 <= p + 1
        BY <1>1, <2>1
      <4> QED BY <3>2, <4>1
    <3>5. \A k \in b + 1 .. p : s[k] # "/"
      <4> TAKE k \in b + 1 .. p
      <4>1. k = p
        BY <2>1
      <4> QED BY <2>1, <4>1
    <3>6. b < n => s[b + 1] # "/"
      BY <2>1, <3>1
    <3> QED BY <3>1, <3>3, <3>4, <3>5, <3>6 DEF Word
  <2>4. t = [tok |-> SubSeq(s, b + 1, p), save |-> save]
    BY <2>3, TokenAt
  <2>5. SubSeq(s, b + 1, p) = <<names[1]>>
    <3>1. b \in Nat /\ b + 1 = p /\ b + 1 <= n
      BY <1>1, <2>1
    <3>2. SubSeq(s, b + 1, b + 1) = <<s[b + 1]>>
      BY <3>1, TokenOne
    <3> QED BY <2>1, <3>1, <3>2
  <2>6. p + 1 \in Nat
    BY <2>1
  <2>7. /\ IsSeq(save) /\ Len(save) = IF n <= p + 1 THEN 0 ELSE n - (p + 1)
        /\ \A k \in 1 .. Len(save) : save[k] = s[(p + 1) + k]
    BY <2>6, FromLemma
  <2>8. /\ IsSeq(rest) /\ Len(rest) = m - 1 /\ \A k \in 1 .. Len(rest) : rest[k] = names[1 + k]
    <3>1. /\ IsSeq(rest) /\ Len(rest) = IF m <= 1 THEN 0 ELSE m - 1
          /\ \A k \in 1 .. Len(rest) : rest[k] = names[1 + k]
      BY FromLemma
    <3> QED BY <1>1, <1>4, <3>1
  <2> HIDE DEF save, rest
  <2>9. Spells(save, rest)
    <3> DEFINE q == [i \in 1 .. Len(rest) |-> pos[i + 1] - (p + 1)]
    <3>1. ASSUME NEW i \in 1 .. Len(rest)
          PROVE  /\ i + 1 \in 1 .. m /\ i + 1 # 1 /\ pos[i + 1] \in 1 .. n /\ p + 1 < pos[i + 1]
                 /\ q[i] \in 1 .. Len(save) /\ (p + 1) + q[i] = pos[i + 1]
      <4>1. i + 1 \in 1 .. m /\ i + 1 # 1
        BY <1>1, <2>8
      <4>2. pos[i + 1] \in 1 .. n /\ p + 1 < pos[i + 1]
        BY <2>2, <4>1
      <4>3. q[i] = pos[i + 1] - (p + 1)
        OBVIOUS
      <4> HIDE DEF q
      <4> QED BY <1>1, <2>6, <2>7, <4>1, <4>2, <4>3
    <3>2. q \in [1 .. Len(rest) -> 1 .. Len(save)]
      <4> q = [i \in 1 .. Len(rest) |-> q[i]]
        OBVIOUS
      <4> HIDE DEF q
      <4> QED BY <3>1
    <3> HIDE DEF q
    <3>3. \A i \in 1 .. Len(rest) : save[q[i]] = rest[i] /\ rest[i] # "/"
      <4> TAKE i \in 1 .. Len(rest)
      <4>1. save[q[i]] = s[pos[i + 1]]
        BY <2>7, <3>1
      <4>2. rest[i] = names[i + 1]
        <5>1. 1 + i = i + 1
          BY <2>8, <1>1
        <5> QED BY <2>8, <5>1
      <4> QED BY <1>2, <3>1, <4>1, <4>2
    <3>4. \A i, j \in 1 .. Len(rest) : i < j => q[i] + 1 < q[j]
      <4> TAKE i, j \in 1 .. Len(rest)
      <4> HAVE i < j
      <4>1. pos[i + 1] + 1 < pos[j + 1]
        <5>1. i + 1 < j + 1
          BY <1>1, <2>8
        <5> QED BY <1>2, <3>1, <5>1
      <4>2. q[i] \in Int /\ q[j] \in Int /\ p \in Int
        BY <2>1, <2>7, <3>1
      <4>3. (p + 1) + q[i] = pos[i + 1] /\ (p + 1) + q[j] = pos[j + 1]
        BY <3>1
      <4> QED BY <4>1, <4>2, <4>3
    <3>5. \A k \in 1 .. Len(save) : save[k] = "/" \/ \E i \in 1 .. Len(rest) : q[i] = k
      <4> TAKE k \in 1 .. Len(save)
      <4> SUFFICES ASSUME save[k] # "/" PROVE \E i \in 1 .. Len(rest) : q[i] = k
        OBVIOUS
      <4>1. (p + 1) + k \in 1 .. n /\ save[k] = s[(p + 1) + k] /\ k \in Nat /\ k >= 1
        BY <1>1, <2>6, <2>7
      <4>2. PICK i \in 1 .. m : pos[i] = (p + 1) + k
        BY <1>2, <4>1
      <4>3. i # 1
        BY <2>1, <4>1, <4>2 DEF p
      <4>4. i - 1 \in 1 .. Len(rest) /\ (i - 1) + 1 = i
        BY <1>1, <2>8, <4>3
      <4>5. (p + 1) + q[i - 1] = (p + 1) + k /\ q[i - 1] \in Int
        BY <2>7, <3>1, <4>2, <4>4
      <4>6. q[i - 1] = k
        BY <2>6, <4>1, <4>5
      <4> QED BY <4>4, <4>6
    <3> QED BY <3>2, <3>3, <3>4, <3>5 DEF Spells
  <2>10. t.tok = <<names[1]>> /\ t.save = save
    <3> HIDE DEF t
    <3> QED BY <2>4, <2>5
  <2> QED BY <1>1, <1>4, <2>7, <2>9, <2>10 DEF rest
<1> QED BY <1>1, <1>3, <1>4

-----------------------------------------------------------------------------
(* The words of a line.                                                    *)

Cut(s, x, y) == SubSeq(s, x + 1, y)

\* A part of what follows is a part of the whole.
LEMMA PieceOfRest ==
    ASSUME NEW s, IsSeq(s), NEW m \in Nat, NEW x \in Nat, NEW y \in Nat, x <= y, m + y <= Len(s)
    PROVE  /\ Cut(From(s, m), x, y) = Cut(s, m + x, m + y)
           /\ IsSeq(SubSeq(s, (m + x) + 1, m + y)) /\ Len(SubSeq(s, (m + x) + 1, m + y)) = y - x
<1> DEFINE r == From(s, m)
           a == m + x
           e == m + y
           f == SubSeq(r, x + 1, y)
           g == SubSeq(s, a + 1, e)
<1>1. Len(s) \in Nat /\ s = [k \in 1 .. Len(s) |-> s[k]]
  BY DEF IsSeq
<1>2. IsSeq(r) /\ Len(r) = Len(s) - m /\ \A k \in 1 .. Len(r) : r[k] = s[m + k]
  <2>1. (IF Len(s) <= m THEN 0 ELSE Len(s) - m) = Len(s) - m
    BY <1>1
  <2> QED BY <2>1, FromLemma
<1>3. Len(r) \in Nat /\ r = [k \in 1 .. Len(r) |-> r[k]] /\ y <= Len(r)
  BY <1>1, <1>2 DEF IsSeq
<1>4. a \in Nat /\ e \in Nat /\ e <= Len(s) /\ e - a = y - x
  OBVIOUS
<1> HIDE DEF r
<1> DEFINE w == IF y <= x THEN 0 ELSE y - x
           w2 == IF e <= a THEN 0 ELSE e - a
<1>5. w = y - x /\ w2 = y - x /\ y - x \in Nat
  OBVIOUS
<1>6. f = [k \in 1 .. w |-> r[x + k]] /\ Len(f) = w
  <2> DEFINE l == Len(r)
  <2> HIDE DEF l
  <2>1. l \in Nat /\ r = [k \in 1 .. l |-> r[k]] /\ y <= l
    BY <1>3 DEF l
  <2>2. SubSeq(r, x + 1, y) = [k \in 1 .. w |-> r[x + k]]
    BY <2>1, SubSeqLemma
  <2>3. Len(SubSeq(r, x + 1, y)) = w
    BY <2>1, SubSeqLemma
  <2> QED BY <2>2, <2>3
<1>7. g = [k \in 1 .. w2 |-> s[a + k]] /\ Len(g) = w2
  <2> DEFINE l == Len(s)
  <2> HIDE DEF a, e, l
  <2>1. l \in Nat /\ s = [k \in 1 .. l |-> s[k]] /\ a \in Nat /\ e \in Nat /\ e <= l
    BY <1>1, <1>4 DEF l
  <2>2. SubSeq(s, a + 1, e) = [k \in 1 .. w2 |-> s[a + k]]
    BY <2>1, SubSeqLemma
  <2>3. Len(SubSeq(s, a + 1, e)) = w2
    BY <2>1, SubSeqLemma
  <2> QED BY <2>2, <2>3
<1>8. \A k \in 1 .. y - x : r[x + k] = s[a + k]
  <2> TAKE k \in 1 .. y - x
  <2>1. x + k \in 1 .. Len(r) /\ m + (x + k) = a + k
    BY <1>3
  <2> QED BY <1>2, <2>1
<1> HIDE DEF w, w2, f, g, a
<1>9. f = g /\ Len(g) = y - x
  BY <1>5, <1>6, <1>7, <1>8
<1>10. g = [k \in 1 .. y - x |-> g[k]]
  BY <1>5, <1>7
<1>11. IsSeq(g)
  BY <1>5, <1>9, <1>10 DEF IsSeq
<1> QED BY <1>9, <1>11 DEF f, g, a, r, Cut

\* The places IsFor looks for.
Places(str) ==
    {p \in (1 .. Len(str)) \X (1 .. Len(str)) \X (1 .. Len(str)) :
        str[p[1]] \in {"read", "stat"} /\ Parts(str, p[1], p[2], p[3])}

\* The words of a line are where Parts says.
LEMMA WordsAtPlace ==
    ASSUME NEW str, IsSeq(str), NEW a \in 1 .. Len(str), NEW b \in 1 .. Len(str), NEW c \in 1 .. Len(str),
           Parts(str, a, b, c)
    PROVE  LET cmd == strtok_r(str, Space)
               fp  == strtok_r(cmd.save, Space).tok
           IN  /\ cmd.tok = <<str[a]>>
               /\ fp = SubSeq(str, b + 1, c) /\ fp # <<>> /\ IsSeq(fp)
<1> DEFINE n == Len(str)
           cmd == strtok_r(str, Space)
           fp == strtok_r(cmd.save, Space).tok
           save == From(str, a + 1)
           x == b - (a + 1)
           y == c - (a + 1)
<1>1. n \in Nat /\ a \in Nat /\ b \in Nat /\ c \in Nat
  BY DEF IsSeq
<1>2. /\ str[a] # Space /\ \A k \in 1 .. a - 1 : str[k] = Space
      /\ a < b /\ \A k \in a + 1 .. b : str[k] = Space
      /\ b < c /\ \A k \in b + 1 .. c : str[k] # Space
      /\ c < n => str[c + 1] = Space
  BY DEF Parts
<1>3. Word(str, Space, a - 1, a)
  <2>1. a - 1 \in 0 .. n /\ a \in a - 1 .. n /\ (a - 1) + 1 = a /\ a + 1 \in a + 1 .. b
    BY <1>1, <1>2
  <2>2. \A k \in (a - 1) + 1 .. a : str[k] # Space
    <3> TAKE k \in (a - 1) + 1 .. a
    <3>1. k = a
      BY <1>1
    <3> QED BY <1>2, <3>1
  <2>3. a < Len(str) => str[a + 1] = Space
    BY <1>2, <2>1
  <2> QED BY <1>2, <2>1, <2>2, <2>3 DEF Word
<1>4. cmd = [tok |-> SubSeq(str, (a - 1) + 1, a), save |-> save]
  BY <1>3, TokenAt
<1>5. SubSeq(str, (a - 1) + 1, a) = <<str[a]>>
  <2>1. a - 1 \in Nat /\ (a - 1) + 1 = a /\ (a - 1) + 1 <= n
    BY <1>1
  <2>2. SubSeq(str, (a - 1) + 1, (a - 1) + 1) = <<str[(a - 1) + 1]>>
    BY <2>1, TokenOne
  <2> QED BY <2>1, <2>2
<1>6. /\ IsSeq(save) /\ Len(save) = n - (a + 1)
      /\ \A k \in 1 .. Len(save) : save[k] = str[(a + 1) + k]
  <2>1. a + 1 \in Nat /\ (IF n <= a + 1 THEN 0 ELSE n - (a + 1)) = n - (a + 1)
    BY <1>1, <1>2
  <2> QED BY <2>1, FromLemma
<1> HIDE DEF save, n, cmd
<1>7. x \in Nat /\ y \in Nat /\ x < y /\ (a + 1) + x = b /\ (a + 1) + y = c /\ y <= Len(save)
  BY <1>1, <1>2, <1>6 DEF n
<1>8. Word(save, Space, x, y)
  <2> HIDE DEF x, y
  <2>1. x \in 0 .. Len(save) /\ y \in x .. Len(save) /\ Len(save) \in Nat
    BY <1>6, <1>7 DEF IsSeq
  <2>2. \A k \in 1 .. x : save[k] = Space
    <3> TAKE k \in 1 .. x
    <3>1. k \in 1 .. Len(save) /\ (a + 1) + k \in a + 1 .. b
      BY <1>1, <1>7, <2>1
    <3> QED BY <1>2, <1>6, <3>1
  <2>3. \A k \in x + 1 .. y : save[k] # Space
    <3> TAKE k \in x + 1 .. y
    <3>1. k \in 1 .. Len(save) /\ (a + 1) + k \in b + 1 .. c
      BY <1>1, <1>7, <2>1
    <3> QED BY <1>2, <1>6, <3>1
  <2>4. x + 1 \in x + 1 .. y
    BY <1>7
  <2>5. y < Len(save) => save[y + 1] = Space
    <3> SUFFICES ASSUME y < Len(save) PROVE save[y + 1] = Space
      OBVIOUS
    <3>1. y + 1 \in 1 .. Len(save) /\ (a + 1) + (y + 1) = c + 1 /\ c < n
      BY <1>1, <1>6, <1>7, <2>1
    <3> QED BY <1>2, <1>6, <3>1
  <2> QED BY <2>1, <2>2, <2>3, <2>4, <2>5 DEF Word
<1>9. fp = SubSeq(save, x + 1, y)
  <2>1. cmd.save = save
    BY <1>4
  <2>2. strtok_r(save, Space) = [tok |-> SubSeq(save, x + 1, y), save |-> From(save, y + 1)]
    BY <1>6, <1>8, TokenAt
  <2> QED BY <2>1, <2>2
<1>10. /\ SubSeq(save, x + 1, y) = SubSeq(str, b + 1, c)
       /\ IsSeq(SubSeq(str, b + 1, c)) /\ Len(SubSeq(str, b + 1, c)) = y - x
  <2>1. (a + 1) \in Nat /\ x <= y /\ (a + 1) + y <= Len(str)
    BY <1>1, <1>7
  <2> HIDE DEF x, y
  <2> DEFINE m == a + 1
  <2>2. m \in Nat /\ x \in Nat /\ y \in Nat /\ x <= y /\ m + y <= Len(str) /\ m + x = b /\ m + y = c
    BY <1>7, <2>1
  <2> HIDE DEF m
  <2>3. SubSeq(From(str, m), x + 1, y) = SubSeq(str, (m + x) + 1, m + y)
    <3>1. Cut(From(str, m), x, y) = Cut(str, m + x, m + y)
      BY <2>2, PieceOfRest
    <3> QED BY <3>1 DEF Cut
  <2>4. IsSeq(SubSeq(str, (m + x) + 1, m + y))
    BY <2>2, PieceOfRest
  <2>5. Len(SubSeq(str, (m + x) + 1, m + y)) = y - x
    BY <2>2, PieceOfRest
  <2> QED BY <2>2, <2>3, <2>4, <2>5 DEF save, m
<1>11. fp # <<>>
  <2>1. Len(fp) # 0
    <3> HIDE DEF fp, x, y
    <3> QED BY <1>7, <1>9, <1>10
  <2>2. Len(<<>>) = 0
    OBVIOUS
  <2> HIDE DEF fp
  <2> QED BY <2>1, <2>2
<1>12. cmd.tok = <<str[a]>>
  BY <1>4, <1>5
<1> QED BY <1>9, <1>10, <1>11, <1>12 DEF cmd

\* A line with a command and a path has them at such a place.
LEMMA PlaceOfWords ==
    ASSUME NEW str, IsSeq(str), NEW w \in {"read", "stat"},
           strtok_r(str, Space).tok = <<w>>,
           strtok_r(strtok_r(str, Space).save, Space).tok # <<>>
    PROVE  Places(str) # {}
<1> DEFINE n == Len(str)
           cmd == strtok_r(str, Space)
           b1 == strspn(str, Space)
           e1 == b1 + strcspn(From(str, b1), Space)
           save == From(str, e1 + 1)
           b2 == strspn(save, Space)
           e2 == b2 + strcspn(From(save, b2), Space)
           fp == strtok_r(save, Space).tok
<1>1. n \in Nat /\ str = [k \in 1 .. n |-> str[k]]
  BY DEF IsSeq
<1>2. Word(str, Space, b1, e1) /\ cmd = [tok |-> SubSeq(str, b1 + 1, e1), save |-> save]
  BY TokenPlaces
<1> HIDE DEF b1, e1
<1>3. b1 \in Nat /\ e1 \in Nat /\ b1 <= e1 /\ e1 <= n
  BY <1>1, <1>2 DEF Word
<1>4. /\ IsSeq(save) /\ Len(save) = IF n <= e1 + 1 THEN 0 ELSE n - (e1 + 1)
      /\ \A k \in 1 .. Len(save) : save[k] = str[(e1 + 1) + k]
  <2>1. e1 + 1 \in Nat
    BY <1>3
  <2> QED BY <2>1, FromLemma
<1> HIDE DEF save
<1>5. Word(save, Space, b2, e2) /\ strtok_r(save, Space) = [tok |-> SubSeq(save, b2 + 1, e2), save |-> From(save, e2 + 1)]
  BY <1>4, TokenPlaces
<1> HIDE DEF b2, e2
<1>6. cmd.tok = SubSeq(str, b1 + 1, e1) /\ cmd.save = save /\ fp = SubSeq(save, b2 + 1, e2)
  <2> DEFINE u == strtok_r(save, Space)
  <2>1. u = [tok |-> SubSeq(save, b2 + 1, e2), save |-> From(save, e2 + 1)]
    BY <1>5
  <2>2. fp = u.tok
    OBVIOUS
  <2> HIDE DEF cmd, u, fp
  <2> QED BY <1>2, <2>1, <2>2
<1>7. e1 = b1 + 1 /\ str[e1] = w
  <2>1. SubSeq(str, b1 + 1, e1) = <<w>> /\ Len(<<w>>) = 1
    BY <1>6
  <2> DEFINE m == IF e1 <= b1 THEN 0 ELSE e1 - b1
  <2>2. SubSeq(str, b1 + 1, e1) = [k \in 1 .. m |-> str[b1 + k]] /\ Len(SubSeq(str, b1 + 1, e1)) = m
    BY <1>1, <1>3, SubSeqLemma
  <2>3. m = 1
    <3> HIDE DEF m
    <3> QED BY <2>1, <2>2
  <2>4. e1 = b1 + 1
    BY <1>3, <2>3
  <2>5. <<w>>[1] = str[b1 + 1]
    <3> HIDE DEF m
    <3>1. [k \in 1 .. 1 |-> str[b1 + k]][1] = str[b1 + 1]
      OBVIOUS
    <3> QED BY <2>1, <2>2, <2>3, <3>1
  <2> QED BY <2>4, <2>5
<1>8. b2 \in Nat /\ e2 \in Nat /\ b2 < e2 /\ e2 <= Len(save) /\ Len(save) \in Nat
  <2>1. Len(save) \in Nat /\ save = [k \in 1 .. Len(save) |-> save[k]]
    BY <1>4 DEF IsSeq
  <2>2. b2 \in Nat /\ e2 \in Nat /\ b2 <= e2 /\ e2 <= Len(save)
    BY <1>5, <2>1 DEF Word
  <2>3. b2 # e2
    <3> SUFFICES ASSUME b2 = e2 PROVE FALSE
      OBVIOUS
    <3> DEFINE m == IF e2 <= b2 THEN 0 ELSE e2 - b2
    <3>1. m = 0
      BY <2>2
    <3> HIDE DEF m
    <3>2. SubSeq(save, b2 + 1, e2) = [k \in 1 .. m |-> save[b2 + k]]
      BY <2>1, <2>2, SubSeqLemma DEF m
    <3>3. [k \in 1 .. 0 |-> save[b2 + k]] = <<>>
      OBVIOUS
    <3>4. fp = <<>>
      BY <1>6, <3>1, <3>2, <3>3
    <3> QED BY <1>6, <3>4
  <2> QED BY <2>1, <2>2, <2>3
<1> HIDE DEF fp, cmd, n
<1> DEFINE a == e1
           b == (e1 + 1) + b2
           c == (e1 + 1) + e2
<1>9. Len(save) = n - (e1 + 1) /\ e1 < n /\ c <= n
  BY <1>1, <1>3, <1>4, <1>8
<1>10. a \in 1 .. n /\ b \in 1 .. n /\ c \in 1 .. n /\ a < b /\ b < c
  BY <1>1, <1>3, <1>7, <1>8, <1>9
<1>11. Parts(str, a, b, c)
  <2>1. \A k \in 1 .. a - 1 : str[k] = Space
    <3>1. a - 1 = b1
      BY <1>3, <1>7
    <3> QED BY <1>2, <3>1 DEF Word
  <2>2. \A k \in a + 1 .. b : str[k] = Space
    <3> TAKE k \in a + 1 .. b
    <3>1. CASE k = e1 + 1
      BY <1>2, <1>9, <3>1 DEF Word, n
    <3>2. CASE k # e1 + 1
      <4>1. k - (e1 + 1) \in 1 .. b2 /\ k - (e1 + 1) \in 1 .. Len(save) /\ (e1 + 1) + (k - (e1 + 1)) = k
        BY <1>3, <1>8, <3>2
      <4>2. save[k - (e1 + 1)] = Space
        BY <1>5, <4>1 DEF Word
      <4> QED BY <1>4, <4>1, <4>2
    <3> QED BY <3>1, <3>2
  <2>3. \A k \in b + 1 .. c : str[k] # Space
    <3> TAKE k \in b + 1 .. c
    <3>1. k - (e1 + 1) \in b2 + 1 .. e2 /\ k - (e1 + 1) \in 1 .. Len(save) /\ (e1 + 1) + (k - (e1 + 1)) = k
      BY <1>3, <1>8
    <3>2. save[k - (e1 + 1)] # Space
      BY <1>5, <3>1 DEF Word
    <3> QED BY <1>4, <3>1, <3>2
  <2>4. c < n => str[c + 1] = Space
    <3> SUFFICES ASSUME c < n PROVE str[c + 1] = Space
      OBVIOUS
    <3>1. e2 < Len(save) /\ e2 + 1 \in 1 .. Len(save) /\ (e1 + 1) + (e2 + 1) = c + 1
      BY <1>1, <1>3, <1>8, <1>9
    <3>2. save[e2 + 1] = Space
      BY <1>5, <3>1 DEF Word
    <3> QED BY <1>4, <3>1, <3>2
  <2>5. str[a] # Space
    <3>1. b1 < n
      BY <1>1, <1>3, <1>7, <1>9
    <3> QED BY <1>2, <1>7, <3>1 DEF Word, n
  <2> HIDE DEF a, b, c
  <2> QED BY <1>10, <2>1, <2>2, <2>3, <2>4, <2>5 DEF Parts, n
<1> HIDE DEF b, c
<1>12. <<a, b, c>> \in (1 .. n) \X (1 .. n) \X (1 .. n) /\ <<a, b, c>>[1] = a /\ <<a, b, c>>[2] = b /\ <<a, b, c>>[3] = c
  BY <1>10
<1>13. <<a, b, c>> \in Places(str)
  BY <1>7, <1>11, <1>12 DEF Places, n
<1> QED BY <1>13

\* What kshell_proc takes from a ln is what the line is for.
LEMMA CommandOfLine ==
    ASSUME NEW ln \in Lines
    PROVE  LET cmd == strtok_r(ln.text, Space)
               fp  == strtok_r(cmd.save, Space).tok
           IN  /\ ln.cmd \in {"read", "stat"} =>
                     /\ cmd.tok = <<ln.cmd>> /\ fp # <<>>
                     /\ IsSeq(fp) /\ IsSeq(ln.names) /\ Spells(fp, ln.names)
               /\ (cmd.tok \in {<<"read">>, <<"stat">>} /\ fp # <<>>) => ln.cmd \in {"read", "stat"}
               /\ cmd.tok = <<>> <=> strspn(ln.text, Space) = Len(ln.text)
<1> DEFINE str == ln.text
           cmd == strtok_r(str, Space)
           fp == strtok_r(cmd.save, Space).tok
<1>1. IsSeq(str) /\ IsSeq(ln.names)
  BY CallsAssumption
<1>2. IF ln.cmd \in {"read", "stat"}
      THEN \E p \in Places(str) : str[p[1]] = ln.cmd /\ Spells(SubSeq(str, p[2] + 1, p[3]), ln.names)
      ELSE Places(str) = {}
  <2>1. IsFor(ln)
    BY CallsAssumption
  <2> QED BY <2>1 DEF IsFor, Places
<1>3. ASSUME ln.cmd \in {"read", "stat"}
      PROVE  /\ cmd.tok = <<ln.cmd>> /\ fp # <<>> /\ IsSeq(fp) /\ Spells(fp, ln.names)
  <2>1. PICK p \in Places(str) : str[p[1]] = ln.cmd /\ Spells(SubSeq(str, p[2] + 1, p[3]), ln.names)
    BY <1>2, <1>3
  <2>2. p[1] \in 1 .. Len(str) /\ p[2] \in 1 .. Len(str) /\ p[3] \in 1 .. Len(str) /\ Parts(str, p[1], p[2], p[3])
    BY <2>1 DEF Places
  <2>4. cmd.tok = <<str[p[1]]>> /\ fp = SubSeq(str, p[2] + 1, p[3]) /\ fp # <<>> /\ IsSeq(fp)
    BY <1>1, <2>2, WordsAtPlace
  <2> HIDE DEF cmd, fp, str
  <2> QED BY <2>1, <2>4
<1>4. ASSUME cmd.tok \in {<<"read">>, <<"stat">>}, fp # <<>> PROVE ln.cmd \in {"read", "stat"}
  <2>1. PICK w \in {"read", "stat"} : cmd.tok = <<w>>
    BY <1>4
  <2>2. Places(str) # {}
    BY <1>1, <1>4, <2>1, PlaceOfWords
  <2> QED BY <1>2, <2>2
<1>5. cmd.tok = <<>> <=> strspn(str, Space) = Len(str)
  <2> DEFINE b == strspn(str, Space)
             e == b + strcspn(From(str, b), Space)
             m == IF e <= b THEN 0 ELSE e - b
             n == Len(str)
  <2>1. Word(str, Space, b, e) /\ cmd = [tok |-> SubSeq(str, b + 1, e), save |-> From(str, e + 1)]
    BY <1>1, TokenPlaces
  <2>2. cmd.tok = SubSeq(str, b + 1, e)
    <3> HIDE DEF cmd
    <3> QED BY <2>1
  <2> HIDE DEF b, e, cmd, str
  <2>3. n \in Nat /\ str = [k \in 1 .. n |-> str[k]]
    BY <1>1 DEF IsSeq
  <2>4. b \in Nat /\ e \in Nat /\ b <= e /\ e <= n
    BY <2>1, <2>3 DEF Word
  <2>5. SubSeq(str, b + 1, e) = [k \in 1 .. m |-> str[b + k]] /\ Len(SubSeq(str, b + 1, e)) = m
    BY <2>3, <2>4, SubSeqLemma
  <2>6. e = b <=> b = n
    <3>1. CASE b < n
      <4>1. str[b + 1] # Space /\ (e < n => str[e + 1] = Space)
        BY <2>1, <3>1 DEF Word
      <4>2. e # b
        BY <3>1, <4>1
      <4> QED BY <2>3, <2>4, <3>1, <4>2
    <3>2. CASE ~ (b < n)
      BY <2>3, <2>4, <3>2
    <3> QED BY <3>1, <3>2
  <2>7. m = 0 <=> e = b
    BY <2>4
  <2> HIDE DEF m
  <2>8. SubSeq(str, b + 1, e) = <<>> <=> m = 0
    <3>1. [k \in 1 .. 0 |-> str[b + k]] = <<>> /\ Len(<<>>) = 0
      OBVIOUS
    <3> QED BY <2>5, <3>1
  <2>9. cmd.tok = <<>> <=> b = n
    BY <2>2, <2>6, <2>7, <2>8
  <2> QED BY <2>9 DEF cmd, b, str
<1> QED BY <1>1, <1>3, <1>4, <1>5

-----------------------------------------------------------------------------
(* The invariant.                                                          *)

\* The blocks a call has while it is under way.
Copies == IF call.who = "shell" THEN {"s"} ELSE {}

MemOK == /\ pc \in {"boot", "idle"} => mem = Freed
         /\ pc = "walk" => mem = Taken(Freed, {"path"} \cup Copies)
         /\ pc = "walked" => mem = Taken(Freed, Copies)
         /\ pc = "show" => mem = Taken(Freed, {"s", "inode", "private"})

\* What was called.
CallOK == /\ pc \in {"boot", "idle"} => call = NoCall /\ ~ faulted
          /\ pc = "boot" => ~ Mounted
          /\ pc \in {"walk", "walked", "show"} =>
                /\ Mounted /\ IsSeq(call.names) /\ call.op \in {"open", "stat"}
                /\ call.who \in {"other", "shell"}
                /\ call.cmd = "read" => call.op = "open" /\ call.who = "shell" /\ call.flags = {}
          /\ pc = "show" => call.op = "open" /\ call.who = "shell"

\* What was mounted and opened.
DiskOK == /\ vol \in Volumes
          /\ Mounted => IsExt2(vol) /\ mnt = MountOf(vol)
          /\ DOMAIN fd = {"other", "shell"}
          /\ \A w \in {"other", "shell"} :
                fd[w].inode # Null =>
                   /\ Mounted
                   /\ (fd[w].i_num \in DOMAIN vol.truth /\ Within) => fd[w].inode = InodeOf(vol, fd[w].i_num)

\* The walk has come to the inode of the first names of the path, and strs has
\* the others; or a name was not found.
Clear == ~ ThroughFile /\ Within

CameTo(j) == /\ j \in 0 .. Len(call.names)
             /\ IsSeq(strs) /\ Spells(strs, From(call.names, j))
             /\ SubSeq(call.names, 1, j) \in DOMAIN vol.where
             /\ vol.where[SubSeq(call.names, 1, j)] = i_num

WalkOK ==
    /\ (pc = "walk" /\ Clear) => IF i_num = 0 THEN faulted \/ ~ Exists
                                 ELSE \E j \in 0 .. Len(call.names) : CameTo(j)
    /\ (pc = "walked" /\ Clear) => IF i_num = 0 THEN faulted \/ ~ Exists ELSE Exists /\ i_num = Ino
    /\ pc = "show" => /\ fd["shell"].inode # Null /\ fd["shell"].i_num = i_num
                      /\ Clear => Exists /\ i_num = Ino

Ext2Inv == /\ MemOK /\ CallOK /\ DiskOK /\ WalkOK
           /\ BlocksFreed /\ WildOnlyIf /\ FoundIsFile /\ ReadIsFile /\ ShownIsFile

-----------------------------------------------------------------------------
(* Paths.                                                                  *)

\* IsSeq says what Seq says.
LEMMA IsSeqSeq ==
    ASSUME NEW s, IsSeq(s)
    PROVE  s \in Seq({s[k] : k \in 1 .. Len(s)})
<1> DEFINE S == {s[k] : k \in 1 .. Len(s)}
           m == Len(s)
<1>1. m \in Nat /\ s = [k \in 1 .. m |-> s[k]]
  BY DEF IsSeq
<1>2. \A k \in 1 .. m : s[k] \in S
  OBVIOUS
<1> HIDE DEF S, m
<1>3. s \in [1 .. m -> S]
  BY <1>1, <1>2
<1>4. s \in Seq(S)
  BY <1>1, <1>3
<1> QED BY <1>4 DEF S

\* The first names of a path.
Upto(names, j) == SubSeq(names, 1, j)

\* No names of a path, and all of them.
LEMMA PathEnds ==
    ASSUME NEW names, IsSeq(names)
    PROVE  Upto(names, 0) = <<>> /\ Upto(names, Len(names)) = names /\ From(names, 0) = names
<1> DEFINE S == {names[k] : k \in 1 .. Len(names)}
<1>1. names \in Seq(S)
  BY IsSeqSeq
<1>2. SubSeq(names, 1, 0) = <<>>
  BY SubSeqEmpty
<1> HIDE DEF S
<1>3. SubSeq(names, 1, Len(names)) = names
  BY <1>1, SubSeqFull
<1> QED BY <1>2, <1>3 DEF Upto, From

\* One name more.
LEMMA PathNext ==
    ASSUME NEW names, IsSeq(names), NEW j \in Nat, j < Len(names)
    PROVE  /\ Upto(names, j + 1) = Upto(names, j) \o <<names[j + 1]>>
           /\ Parent(Upto(names, j + 1)) = Upto(names, j)
           /\ Upto(names, j + 1) # <<>>
           /\ Upto(names, j + 1)[Len(Upto(names, j + 1))] = names[j + 1]
<1> DEFINE S == {names[k] : k \in 1 .. Len(names)}
           p == SubSeq(names, 1, j + 1)
<1>1. names \in Seq(S) /\ Len(names) \in Nat
  BY IsSeqSeq DEF IsSeq
<1> HIDE DEF S
<1>2. j + 1 \in 1 .. Len(names) /\ 1 \in 1 .. Len(names) /\ j \in 0 .. Len(names) /\ (j + 1) - 1 = j
  BY <1>1
<1>3. p = SubSeq(names, 1, (j + 1) - 1) \o <<names[j + 1]>>
  BY <1>1, <1>2, SubSeqRecursiveSecond
<1>4. p = SubSeq(names, 1, j) \o <<names[j + 1]>>
  BY <1>2, <1>3
<1>5. \A i \in 1 .. j + 1 : names[i] \in S
  BY <1>1, <1>2
<1>6. p \in Seq(S) /\ Len(p) = j + 1 /\ \A i \in 1 .. (j + 1) - 1 + 1 : p[i] = names[1 + i - 1]
  BY <1>5, SubSeqProperties
<1>7. p[j + 1] = names[j + 1] /\ p # <<>>
  BY <1>6
<1>8. SubSeq(p, 1, Len(p) - 1) = SubSeq(names, 1, j)
  <2>1. CASE j = 0
    <3>1. Len(p) - 1 = 0
      BY <1>6, <2>1
    <3> QED BY <2>1, <3>1, SubSeqEmpty
  <2>2. CASE j > 0
    <3> DEFINE a == 1
    <3> HIDE DEF p
    <3>1. 1 \in 1 .. (j + 1) - 1 + 1 /\ j \in 1 .. (j + 1) - 1 + 1 /\ 1 + 1 - 1 = 1 /\ 1 + j - 1 = j
      BY <2>2
    <3>2. SubSeq(SubSeq(names, 1, j + 1), 1, j) = SubSeq(names, 1 + 1 - 1, 1 + j - 1)
      BY <1>1, <1>2, <3>1, SubSeqOfSubSeq
    <3>3. Len(p) - 1 = j
      BY <1>6
    <3> QED BY <3>1, <3>2, <3>3 DEF p
  <2> QED BY <2>1, <2>2
<1> HIDE DEF p
<1>9. Upto(names, j + 1) = p
  BY DEF p, Upto
<1>10. Parent(p) = Upto(names, j)
  BY <1>8 DEF Parent, Upto
<1> QED BY <1>4, <1>6, <1>7, <1>9, <1>10 DEF Upto

\* One name less.
LEMMA RestNext ==
    ASSUME NEW names, IsSeq(names), NEW j \in Nat, j <= Len(names)
    PROVE  /\ IsSeq(From(names, j)) /\ Len(From(names, j)) = Len(names) - j
           /\ j < Len(names) => /\ From(names, j)[1] = names[j + 1]
                                /\ From(From(names, j), 1) = From(names, j + 1)
<1> DEFINE r == From(names, j)
<1>1. Len(names) \in Nat /\ (IF Len(names) <= j THEN 0 ELSE Len(names) - j) = Len(names) - j
  BY DEF IsSeq
<1>2. IsSeq(r) /\ Len(r) = Len(names) - j /\ \A k \in 1 .. Len(r) : r[k] = names[j + k]
  BY <1>1, FromLemma
<1>3. ASSUME j < Len(names)
      PROVE  r[1] = names[j + 1] /\ From(r, 1) = From(names, j + 1)
  <2>1. 1 \in 1 .. Len(r) /\ j + (Len(names) - j) = Len(names) /\ Len(r) \in Nat /\ 1 <= Len(r)
    BY <1>1, <1>2, <1>3
  <2>2. r[1] = names[j + 1]
    BY <1>2, <2>1
  <2> HIDE DEF r
  <2> DEFINE y == Len(r)
  <2>3. j + y <= Len(names) /\ j + y = Len(names) /\ y \in Nat
    BY <1>1, <1>2, <2>1
  <2> HIDE DEF y
  <2>4. 1 \in Nat /\ y \in Nat /\ 1 <= y /\ j + y <= Len(names)
    BY <2>1, <2>3 DEF y
  <2>5. Cut(From(names, j), 1, y) = Cut(names, j + 1, j + y)
    BY <2>4, PieceOfRest
  <2>6. Cut(r, 1, Len(r)) = Cut(names, j + 1, Len(names))
    BY <2>3, <2>5 DEF y, r
  <2>7. From(r, 1) = Cut(r, 1, Len(r)) /\ From(names, j + 1) = Cut(names, j + 1, Len(names))
    BY DEF From, Cut
  <2> QED BY <2>2, <2>6, <2>7
<1> QED BY <1>2, <1>3

\* The paths of a mounted volume.
LEMMA PathsFacts ==
    ASSUME OnVolume
    PROVE  PathsOK(vol)
BY VolumesAssumption DEF OnVolume, VolumeOK

\* Where a path leads somewhere, the directories on the way are there.
LEMMA Prefixes ==
    ASSUME OnVolume, NEW names \in DOMAIN vol.where, IsSeq(names), NEW j \in 0 .. Len(names)
    PROVE  Upto(names, j) \in DOMAIN vol.where
<1> DEFINE W == DOMAIN vol.where
           T == {k \in 0 .. Len(names) : \A i \in k .. Len(names) : Upto(names, i) \in W}
<1>1. Len(names) \in Nat
  BY DEF IsSeq
<1>2. Upto(names, Len(names)) \in W
  BY PathEnds
<1>3. Len(names) \in T
  BY <1>1, <1>2
<1>4. T \subseteq Nat /\ T # {}
  BY <1>3
<1> DEFINE m == Min(T)
<1>5. m \in T /\ \A y \in T : m <= y
  <2> HIDE DEF T
  <2> QED BY <1>4, MinLemma
<1>6. m \in 0 .. Len(names) /\ \A i \in m .. Len(names) : Upto(names, i) \in W
  BY <1>5
<1>7. ASSUME m # 0 PROVE FALSE
  <2> DEFINE n == m - 1
  <2> HIDE DEF m, T, W
  <2>1. n \in Nat /\ n < Len(names) /\ n + 1 = m
    BY <1>1, <1>6, <1>7
  <2> HIDE DEF n
  <2>2. Parent(Upto(names, n + 1)) = Upto(names, n) /\ Upto(names, n + 1) # <<>>
    BY <2>1, PathNext
  <2>3. m \in m .. Len(names)
    BY <1>1, <1>6
  <2>4. Upto(names, n + 1) \in W
    BY <1>6, <2>1, <2>3
  <2>5. Parent(Upto(names, n + 1)) \in W
    BY <2>2, <2>4, PathsFacts DEF PathsOK, W
  <2>6. Upto(names, n) \in W
    BY <2>2, <2>5
  <2>7. n \in 0 .. Len(names)
    BY <1>1, <2>1
  <2>8. \A i \in n .. Len(names) : i = n \/ i \in m .. Len(names)
    BY <1>1, <2>1
  <2>9. \A i \in n .. Len(names) : Upto(names, i) \in W
    BY <1>6, <2>6, <2>8
  <2>10. n \in T
    BY <2>7, <2>9 DEF T
  <2> QED BY <1>5, <2>1, <2>10
<1> QED BY <1>6, <1>7

\* One step of the walk finds the next name of the path.
LEMMA StepDown ==
    ASSUME OnVolume, ~ ThroughFile, IsSeq(call.names),
           NEW j \in 0 .. Len(call.names), j < Len(call.names), CameTo(j), NEW bad
    PROVE  LET r == lookup_inode_num(get_inode(i_num, bad), <<call.names[j + 1]>>, bad)
           IN  /\ r # 0 => /\ Upto(call.names, j + 1) \in DOMAIN vol.where
                           /\ vol.where[Upto(call.names, j + 1)] = r
               /\ r = 0 => bad # {} \/ ~ Exists
<1> DEFINE ns   == call.names
           path == Upto(ns, j)
           name == <<ns[j + 1]>>
           ino  == vol.where[path]
           r    == lookup_inode_num(get_inode(i_num, bad), name, bad)
<1>1. Len(ns) \in Nat /\ j \in Nat
  BY DEF IsSeq
<1>2. path \in DOMAIN vol.where /\ ino = i_num
  BY DEF CameTo, Upto
<1>3. IsDir(vol, ino)
  <2>1. CASE j = 0
    <3>1. path = <<>>
      BY <2>1, PathEnds
    <3> HIDE DEF path
    <3> QED BY <3>1, PathsFacts DEF PathsOK
  <2>2. CASE j # 0
    <3>1. j \in 1 .. Len(ns) - 1
      BY <1>1, <2>2
    <3> QED BY <1>2, <3>1 DEF ThroughFile, Upto
  <2> QED BY <2>1, <2>2
<1> HIDE DEF path, name
<1>4. DirOK(vol, path) /\ ino \in DOMAIN vol.truth
  BY <1>2, <1>3, PathsFacts DEF PathsOK
<1>5. get_inode(ino, bad) = InodeOf(vol, ino) \/ (get_inode(ino, bad) = Null /\ bad # {})
  <2> HIDE DEF ino
  <2> QED BY <1>4, GetInode DEF OnVolume
<1>6. CASE get_inode(ino, bad) = Null
  <2>1. r = 0
    BY <1>2, <1>6 DEF lookup_inode_num
  <2>2. InodeOf(vol, ino) # Null
    <3> HIDE DEF ino
    <3> QED BY <1>4, GetInode DEF OnVolume
  <2>3. bad # {}
    BY <1>5, <1>6, <2>2
  <2> QED BY <2>1, <2>3 DEF name
<1>7. CASE get_inode(ino, bad) = InodeOf(vol, ino)
  <2> DEFINE found == lookup_inode_num(InodeOf(vol, ino), name, bad)
  <2>1. r = found
    BY <1>2, <1>7
  <2>2. /\ found # 0 => InDir(ino, name, found)
        /\ found = 0 => bad # {} \/ \A e \in Live(vol, ino) : e.name # name
    BY <1>2, <1>3, DirLookup
  <2>3. Upto(ns, j + 1) = path \o name /\ Parent(Upto(ns, j + 1)) = path
        /\ Upto(ns, j + 1) # <<>> /\ Upto(ns, j + 1)[Len(Upto(ns, j + 1))] = ns[j + 1]
    BY <1>1, PathNext DEF path, name
  <2> HIDE DEF found, r
  <2>4. ASSUME found # 0
        PROVE  Upto(ns, j + 1) \in DOMAIN vol.where /\ vol.where[Upto(ns, j + 1)] = r
    <3>1. PICK e \in Live(vol, ino) : e.name = name /\ e.inode = found
      BY <2>2, <2>4 DEF InDir
    <3>2. path \o e.name \in DOMAIN vol.where /\ vol.where[path \o e.name] = e.inode
      BY <1>4 DEF DirOK
    <3> QED BY <2>1, <2>3, <3>1, <3>2
  <2>5. ASSUME found = 0, bad = {}
        PROVE  ~ Exists
    <3> SUFFICES ASSUME Exists PROVE FALSE
      OBVIOUS
    <3>1. ns \in DOMAIN vol.where /\ j + 1 \in 0 .. Len(ns)
      BY <1>1 DEF Exists
    <3>2. Upto(ns, j + 1) \in DOMAIN vol.where
      BY <3>1, Prefixes
    <3>3. \E e \in Live(vol, vol.where[Parent(Upto(ns, j + 1))]) :
             e.name = <<Upto(ns, j + 1)[Len(Upto(ns, j + 1))]>>
      BY <2>3, <3>2, PathsFacts DEF PathsOK
    <3>4. \E e \in Live(vol, ino) : e.name = name
      BY <2>3, <3>3 DEF name
    <3> QED BY <2>2, <2>5, <3>4
  <2> QED BY <2>1, <2>4, <2>5 DEF r, name
<1> QED BY <1>5, <1>6, <1>7

-----------------------------------------------------------------------------
(* Blocks of the heap, and a turn of the walk.                             *)

\* Blocks taken, and given back.
LEMMA TakenOnce ==
    ASSUME NEW K
    PROVE  Taken(Freed, K) = [k \in {"s", "path", "inode", "private", "fdata"} |-> IF k \in K THEN 1 ELSE 0]
<1> DEFINE D == {"s", "path", "inode", "private", "fdata"}
<1>1. DOMAIN Freed = D /\ \A k \in D : Freed[k] = 0
  BY DEF Freed
<1> HIDE DEF D
<1>2. Taken(Freed, K) = [k \in D |-> IF k \in K THEN Freed[k] + 1 ELSE Freed[k]]
  BY <1>1 DEF Taken
<1>3. Taken(Freed, K) = [k \in D |-> IF k \in K THEN 1 ELSE 0]
  BY <1>1, <1>2
<1> QED BY <1>3 DEF D

LEMMA TakenTwice ==
    ASSUME NEW K, NEW L, \A k \in K : k \notin L
    PROVE  Taken(Taken(Freed, K), L) = Taken(Freed, K \cup L)
<1> DEFINE D == {"s", "path", "inode", "private", "fdata"}
           h == Taken(Freed, K)
<1>1. h = [k \in D |-> IF k \in K THEN 1 ELSE 0]
  BY TakenOnce
<1>2. Taken(Freed, K \cup L) = [k \in D |-> IF k \in K \cup L THEN 1 ELSE 0]
  BY TakenOnce
<1> HIDE DEF h, D
<1>3. DOMAIN h = D /\ \A k \in D : h[k] = IF k \in K THEN 1 ELSE 0
  BY <1>1
<1>4. Taken(h, L) = [k \in D |-> IF k \in L THEN h[k] + 1 ELSE h[k]]
  BY <1>3 DEF Taken
<1>5. \A k \in D : (IF k \in L THEN h[k] + 1 ELSE h[k]) = IF k \in K \cup L THEN 1 ELSE 0
  BY <1>3
<1> QED BY <1>2, <1>4, <1>5 DEF h

LEMMA WithoutSome ==
    ASSUME NEW K, NEW L, L \subseteq K
    PROVE  Without(Taken(Freed, K), L) = Taken(Freed, K \ L)
<1> DEFINE D == {"s", "path", "inode", "private", "fdata"}
           h == Taken(Freed, K)
<1>1. h = [k \in D |-> IF k \in K THEN 1 ELSE 0]
  BY TakenOnce
<1>2. Taken(Freed, K \ L) = [k \in D |-> IF k \in K \ L THEN 1 ELSE 0]
  BY TakenOnce
<1> HIDE DEF h, D
<1>3. DOMAIN h = D /\ \A k \in D : h[k] = IF k \in K THEN 1 ELSE 0
  BY <1>1
<1>4. Without(h, L) = [k \in D |-> IF k \in L THEN h[k] - 1 ELSE h[k]]
  BY <1>3 DEF Without
<1>5. \A k \in D : (IF k \in L THEN h[k] - 1 ELSE h[k]) = IF k \in K \ L THEN 1 ELSE 0
  BY <1>3
<1> QED BY <1>2, <1>4, <1>5 DEF h

LEMMA TakenNone == Taken(Freed, {}) = Freed
<1>1. Taken(Freed, {}) = [k \in {"s", "path", "inode", "private", "fdata"} |-> IF k \in {} THEN 1 ELSE 0]
  BY TakenOnce
<1> QED BY <1>1 DEF Freed

\* While a call goes on, what it is about stays.
LEMMA SameCall ==
    ASSUME vol' = vol, call' = call
    PROVE  /\ ThroughFile' = ThroughFile /\ Exists' = Exists /\ Ino' = Ino
           /\ Within' = Within /\ Clear' = Clear /\ Copies' = Copies /\ Create' = Create
BY DEF ThroughFile, Exists, Ino, Within, Clear, Copies, Create

\* A turn of the walk.
LEMMA WalkStep ==
    ASSUME OnVolume, ~ ThroughFile, IsSeq(call.names),
           NEW j \in 0 .. Len(call.names), CameTo(j), NEW bad
    PROVE  LET t == strtok_r(strs, "/")
               r == lookup_inode_num(get_inode(i_num, bad), t.tok, bad)
           IN  /\ t.tok = <<>> => Exists /\ i_num = Ino
               /\ t.tok # <<>> =>
                     IF r = 0 THEN bad # {} \/ ~ Exists
                     ELSE \E k \in 0 .. Len(call.names) :
                             /\ IsSeq(t.save) /\ Spells(t.save, From(call.names, k))
                             /\ SubSeq(call.names, 1, k) \in DOMAIN vol.where
                             /\ vol.where[SubSeq(call.names, 1, k)] = r
<1> DEFINE ns == call.names
           t == strtok_r(strs, "/")
           r == lookup_inode_num(get_inode(i_num, bad), t.tok, bad)
           rest == From(ns, j)
<1>1. Len(ns) \in Nat /\ j \in Nat /\ j <= Len(ns)
  BY DEF IsSeq
<1>2. IsSeq(rest) /\ Len(rest) = Len(ns) - j
  BY <1>1, RestNext
<1>3. j < Len(ns) => rest[1] = ns[j + 1] /\ From(rest, 1) = From(ns, j + 1)
  BY <1>1, RestNext
<1>4. IsSeq(strs) /\ Spells(strs, rest)
  BY DEF CameTo
<1> HIDE DEF rest
<1>5. /\ Len(rest) = 0 => t.tok = <<>>
      /\ Len(rest) > 0 => /\ t.tok = <<rest[1]>>
                          /\ IsSeq(t.save) /\ Spells(t.save, From(rest, 1))
  BY <1>2, <1>4, NextName
<1>6. CASE j = Len(ns)
  <2>1. t.tok = <<>>
    BY <1>1, <1>2, <1>5, <1>6
  <2>2. Upto(ns, j) = ns
    BY <1>6, PathEnds
  <2>3. Upto(ns, j) \in DOMAIN vol.where /\ vol.where[Upto(ns, j)] = i_num
    BY DEF CameTo, Upto
  <2>4. Exists /\ i_num = Ino
    BY <2>2, <2>3 DEF Exists, Ino
  <2> QED BY <2>1, <2>4
<1>7. CASE j < Len(ns)
  <2>1. Len(rest) > 0 /\ j + 1 \in 0 .. Len(ns)
    BY <1>1, <1>2, <1>7
  <2>2. t.tok = <<ns[j + 1]>> /\ IsSeq(t.save) /\ Spells(t.save, From(ns, j + 1))
    BY <1>3, <1>5, <1>7, <2>1
  <2>3. t.tok # <<>>
    <3> DEFINE w == t.tok
               x == ns[j + 1]
    <3>1. w = <<x>>
      BY <2>2
    <3> HIDE DEF w, x
    <3>2. w # <<>>
      BY <3>1
    <3> QED BY <3>2 DEF w
  <2>4. r = lookup_inode_num(get_inode(i_num, bad), <<ns[j + 1]>>, bad)
    BY <2>2
  <2> HIDE DEF r, t
  <2>5. /\ r # 0 => /\ Upto(ns, j + 1) \in DOMAIN vol.where
                    /\ vol.where[Upto(ns, j + 1)] = r
        /\ r = 0 => bad # {} \/ ~ Exists
    BY <1>7, <2>4, StepDown
  <2>6. ASSUME r # 0
        PROVE  \E k \in 0 .. Len(ns) :
                             /\ IsSeq(t.save) /\ Spells(t.save, From(ns, k))
                             /\ SubSeq(ns, 1, k) \in DOMAIN vol.where
                             /\ vol.where[SubSeq(ns, 1, k)] = r
    <3>1. SubSeq(ns, 1, j + 1) \in DOMAIN vol.where /\ vol.where[SubSeq(ns, 1, j + 1)] = r
      BY <2>5, <2>6 DEF Upto
    <3> QED BY <2>1, <2>2, <3>1
  <2> QED BY <2>3, <2>5, <2>6 DEF r, t
<1> QED BY <1>1, <1>6, <1>7

-----------------------------------------------------------------------------
(* The steps.                                                              *)

\* What holds by the place the call has come to.
LEMMA OtherPlaces ==
    /\ pc' # "done" => BlocksFreed' /\ FoundIsFile' /\ ReadIsFile' /\ ShownIsFile'
    /\ pc' # "wild" => WildOnlyIf'
    /\ pc' \notin {"walk", "walked", "show"} => WalkOK'
    /\ pc' \in {"done", "wild"} => MemOK' /\ CallOK'
<1>1. pc' # "done" => BlocksFreed' /\ FoundIsFile' /\ ReadIsFile' /\ ShownIsFile'
  BY DEF BlocksFreed, FoundIsFile, ReadIsFile, ShownIsFile, At
<1>2. pc' # "wild" => WildOnlyIf'
  BY DEF WildOnlyIf, At
<1>3. pc' \notin {"walk", "walked", "show"} => WalkOK'
  BY DEF WalkOK
<1>4. pc' \in {"done", "wild"} => MemOK' /\ CallOK'
  BY DEF MemOK, CallOK
<1> QED BY <1>1, <1>2, <1>3, <1>4

\* What was mounted and opened stays.
LEMMA DiskKept ==
    ASSUME DiskOK, vol' = vol, mnt' = mnt, fd' = fd
    PROVE  DiskOK'
BY DEF DiskOK, Mounted, Within

\* The invariant holds at first.
LEMMA Ext2Begins ==
    ASSUME Ext2Init
    PROVE  Ext2Inv
<1>1. pc = "boot" /\ ~ Mounted /\ call = NoCall /\ ~ faulted /\ mem = Freed /\ vol \in Volumes
  BY DEF Ext2Init, Mounted
<1>2. DOMAIN fd = {"other", "shell"} /\ \A w \in {"other", "shell"} : fd[w].inode = Null
  BY DEF Ext2Init, Closed
<1>3. DiskOK
  BY <1>1, <1>2 DEF DiskOK
<1>4. MemOK
  BY <1>1 DEF MemOK
<1>5. CallOK /\ WalkOK /\ BlocksFreed /\ WildOnlyIf /\ FoundIsFile /\ ReadIsFile /\ ShownIsFile
  BY <1>1 DEF CallOK, WalkOK, BlocksFreed, WildOnlyIf, FoundIsFile, ReadIsFile, ShownIsFile, At
<1> QED BY <1>3, <1>4, <1>5 DEF Ext2Inv

\* It holds when nothing changes,
LEMMA Ext2Stutters ==
    ASSUME Ext2Inv, UNCHANGED ext2_vars
    PROVE  Ext2Inv'
<1>1. /\ vol' = vol /\ mnt' = mnt /\ pc' = pc /\ call' = call /\ strs' = strs /\ i_num' = i_num
      /\ fd' = fd /\ out' = out /\ mem' = mem /\ faulted' = faulted
  BY DEF ext2_vars
<1>2. DiskOK'
  BY <1>1, DiskKept DEF Ext2Inv
<1>3. /\ ThroughFile' = ThroughFile /\ Exists' = Exists /\ Ino' = Ino
      /\ Within' = Within /\ Clear' = Clear /\ Copies' = Copies /\ Create' = Create
  BY <1>1, SameCall
<1>4. MemOK'
  BY <1>1, <1>3 DEF Ext2Inv, MemOK
<1>5. CallOK'
  BY <1>1 DEF Ext2Inv, CallOK, Mounted
<1>6. WalkOK'
  BY <1>1, <1>3 DEF Ext2Inv, WalkOK, CameTo
<1>7. BlocksFreed'
  BY <1>1 DEF Ext2Inv, BlocksFreed, At, Left
<1>8. WildOnlyIf'
  BY <1>1, <1>3 DEF Ext2Inv, WildOnlyIf, At, Mounted
<1>9. FoundIsFile'
  BY <1>1, <1>3 DEF Ext2Inv, FoundIsFile, At
<1>10. ReadIsFile'
  BY <1>1, <1>3 DEF Ext2Inv, ReadIsFile, At
<1>11. ShownIsFile'
  BY <1>1, <1>3 DEF Ext2Inv, ShownIsFile, At
<1> QED BY <1>2, <1>4, <1>5, <1>6, <1>7, <1>8, <1>9, <1>10, <1>11 DEF Ext2Inv

\* when the caller goes on,
LEMMA Ext2Returns ==
    ASSUME Ext2Inv, Return
    PROVE  Ext2Inv'
<1>1. /\ pc' = "idle" /\ vol' = vol /\ mnt' = mnt /\ fd' = fd
      /\ call' = NoCall /\ mem' = Freed /\ ~ faulted'
  BY DEF Return
<1>2. DiskOK'
  BY <1>1, DiskKept DEF Ext2Inv
<1>3. MemOK' /\ CallOK'
  BY <1>1 DEF MemOK, CallOK
<1> QED BY <1>1, <1>2, <1>3, OtherPlaces DEF Ext2Inv

\* and after ext2_init.
LEMMA Ext2Mounts ==
    ASSUME Ext2Inv, ext2_init
    PROVE  Ext2Inv'
<1>1. /\ pc = "boot" /\ vol' = vol /\ call' = call /\ fd' = fd /\ mem = Freed /\ call = NoCall
      /\ ~ Mounted /\ vol \in Volumes
  BY DEF ext2_init, Ext2Inv, MemOK, CallOK, DiskOK, At
<1>2. call.op = "none" /\ call.cmd = "none"
  BY <1>1 DEF NoCall
<1>3. \A w \in {"other", "shell"} : fd[w].inode = Null
  BY <1>1 DEF Ext2Inv, DiskOK
<1>4. CASE NoDevice
  <2>1. pc' = "wild" /\ mnt' = mnt
    BY <1>4 DEF ext2_init, Wild
  <2>2. DiskOK'
    BY <1>1, <2>1, DiskKept DEF Ext2Inv
  <2>3. WildOnlyIf'
    BY <1>1, <2>1 DEF WildOnlyIf, Mounted
  <2> QED BY <2>1, <2>2, <2>3, OtherPlaces DEF Ext2Inv
<1>5. CASE ~ NoDevice
  <2>1. PICK bad : mnt' = ReadVolume(bad)
    BY <1>5 DEF ext2_init
  <2>2. pc' = "done" /\ mem' = Freed
    BY <1>1, <1>5 DEF ext2_init
  <2>3. mnt' = NotMounted \/ (IsExt2(vol) /\ mnt' = MountOf(vol))
    BY <1>1, <2>1, MountLemma
  <2>4. Mounted' => IsExt2(vol') /\ mnt' = MountOf(vol')
    BY <1>1, <2>3 DEF Mounted
  <2>5. DiskOK'
    BY <1>1, <1>3, <2>4 DEF DiskOK, Ext2Inv
  <2>6. Left' = {} /\ call'.op = "none"
    BY <1>1, <1>2 DEF Left
  <2>7. BlocksFreed'
    BY <2>2, <2>6, TakenNone DEF BlocksFreed
  <2>8. FoundIsFile' /\ ReadIsFile' /\ ShownIsFile'
    BY <1>1, <1>2 DEF FoundIsFile, ReadIsFile, ShownIsFile
  <2> QED BY <2>2, <2>5, <2>7, <2>8, OtherPlaces DEF Ext2Inv
<1> QED BY <1>4, <1>5

\* A call with a path begins its walk at the root.
LEMMA Ext2Calls ==
    ASSUME Ext2Inv, pc = "idle", vol' = vol, mnt' = mnt, fd' = fd, faulted' = faulted,
           NEW c, Begin(c),
           IsSeq(c.path), IsSeq(c.names), Spells(c.path, c.names),
           c.op \in {"open", "stat"}, c.who \in {"other", "shell"},
           c.cmd = "read" => c.op = "open" /\ c.who = "shell" /\ c.flags = {}
    PROVE  Ext2Inv'
<1>1. mem = Freed /\ vol \in Volumes /\ call' = c /\ Mounted' = Mounted /\ DiskOK
  BY DEF Ext2Inv, MemOK, DiskOK, Begin, Mounted
<1>2. DiskOK'
  BY <1>1, DiskKept
<1>3. CASE ~ Mounted
  <2>1. pc' = "wild"
    BY <1>3 DEF Begin, Wild
  <2>2. WildOnlyIf'
    BY <1>1, <1>3 DEF WildOnlyIf
  <2> QED BY <1>2, <2>1, <2>2, OtherPlaces DEF Ext2Inv
<1>4. CASE Mounted
  <2>1. pc' = "walk" /\ strs' = c.path /\ i_num' = Root
        /\ mem' = Taken(mem, {"path"} \cup IF c.who = "shell" THEN {"s"} ELSE {})
    BY <1>4 DEF Begin
  <2>2. MemOK'
    BY <1>1, <2>1 DEF MemOK, Copies
  <2>3. CallOK'
    BY <1>1, <1>4, <2>1 DEF CallOK
  <2>4. ASSUME Clear'
        PROVE  CameTo(0)'
    <3>1. Within
      BY <2>4 DEF Clear, Within
    <3>2. OnVolume
      BY <1>1, <1>4, <3>1 DEF OnVolume, DiskOK
    <3>3. <<>> \in DOMAIN vol.where /\ vol.where[<<>>] = Root
      BY <3>2, PathsFacts DEF PathsOK
    <3>4. SubSeq(c.names, 1, 0) = <<>> /\ From(c.names, 0) = c.names
      BY PathEnds DEF Upto
    <3>5. Len(c.names) \in Nat
      BY DEF IsSeq
    <3>6. 0 \in 0 .. Len(c.names)
      BY <3>5
    <3> QED BY <1>1, <2>1, <3>3, <3>4, <3>6 DEF CameTo
  <2>5. Root # 0
    BY DEF Root
  <2>6. WalkOK'
    <3>1. Len(c.names) \in Nat
      BY DEF IsSeq
    <3>2. 0 \in 0 .. Len(call'.names)
      BY <1>1, <3>1
    <3>3. Clear' => \E j \in 0 .. Len(call'.names) : CameTo(j)'
      BY <2>4, <3>2
    <3>4. i_num' # 0
      BY <2>1, <2>5
    <3> QED BY <2>1, <3>3, <3>4 DEF WalkOK
  <2> QED BY <1>2, <2>1, <2>2, <2>3, <2>6, OtherPlaces DEF Ext2Inv
<1> QED BY <1>3, <1>4

\* A command begins its call with the path that was typed, or is done.
LEMMA Ext2Command ==
    ASSUME Ext2Inv, pc = "idle", vol' = vol, mnt' = mnt, NEW ln \in Lines, Command(ln)
    PROVE  Ext2Inv'
<1> DEFINE cmd == strtok_r(ln.text, Space)
           fp  == strtok_r(cmd.save, Space).tok
           c(op) == [NoCall EXCEPT !.op = op, !.who = "shell", !.path = fp,
                                    !.cmd = ln.cmd, !.names = ln.names]
           both == cmd.tok \in {<<"read">>, <<"stat">>} /\ fp # <<>>
<1>1. /\ ln.cmd \in {"read", "stat"} =>
           /\ cmd.tok = <<ln.cmd>> /\ fp # <<>>
           /\ IsSeq(fp) /\ IsSeq(ln.names) /\ Spells(fp, ln.names)
      /\ both => ln.cmd \in {"read", "stat"}
      /\ cmd.tok = <<>> <=> strspn(ln.text, Space) = Len(ln.text)
  BY CommandOfLine
<1>2. \A op : /\ c(op).op = op /\ c(op).who = "shell" /\ c(op).path = fp /\ c(op).cmd = ln.cmd
              /\ c(op).names = ln.names /\ c(op).flags = {}
  BY DEF NoCall
<1>3. CASE both
  <2> DEFINE op == IF cmd.tok = <<"read">> THEN "open" ELSE "stat"
             d  == c(op)
  <2>1. Begin(d) /\ fd' = fd /\ faulted' = faulted
    BY <1>3 DEF Command
  <2>2. op \in {"open", "stat"} /\ (ln.cmd = "read" => op = "open")
    <3>1. ln.cmd = "read" => cmd.tok = <<"read">>
      BY <1>1
    <3> QED BY <3>1
  <2>3. IsSeq(fp) /\ IsSeq(ln.names) /\ Spells(fp, ln.names)
    BY <1>1, <1>3
  <2>4. /\ d.op = op /\ d.who = "shell" /\ d.path = fp /\ d.cmd = ln.cmd
        /\ d.names = ln.names /\ d.flags = {}
    BY <1>2
  <2> HIDE DEF d, op, fp, cmd, both, c
  <2>5. IsSeq(d.path) /\ IsSeq(d.names) /\ Spells(d.path, d.names)
    BY <2>3, <2>4
  <2>6. /\ d.op \in {"open", "stat"} /\ d.who \in {"other", "shell"}
        /\ d.cmd = "read" => d.op = "open" /\ d.who = "shell" /\ d.flags = {}
    BY <2>2, <2>4
  <2> QED BY <2>1, <2>5, <2>6, Ext2Calls
<1>4. CASE ~ both
  <2> DEFINE d == [c("line") EXCEPT !.path = ln.text]
  <2>1. call' = d /\ fd' = fd /\ pc' = "done"
        /\ mem' = IF cmd.tok # <<>> THEN Without(Taken(mem, {"s"}), {"s"}) ELSE Taken(mem, {"s"})
    BY <1>4 DEF Command, Done
  <2>2. d.op = "line" /\ d.path = ln.text /\ d.cmd = ln.cmd
    BY DEF NoCall
  <2>3. mem = Freed /\ DiskOK
    BY DEF Ext2Inv, MemOK
  <2>4. DiskOK'
    BY <2>1, <2>3, DiskKept
  <2>5. ln.cmd # "read"
    BY <1>1, <1>4
  <2> HIDE DEF d, fp, cmd, both, c
  <2>6. FoundIsFile' /\ ReadIsFile' /\ ShownIsFile'
    BY <2>1, <2>2, <2>5 DEF FoundIsFile, ReadIsFile, ShownIsFile
  <2>7. Left' = IF strspn(ln.text, Space) = Len(ln.text) THEN {"s"} ELSE {}
    BY <2>1, <2>2 DEF Left
  <2>8. Without(Taken(Freed, {"s"}), {"s"}) = Taken(Freed, {})
    <3>1. {"s"} \ {"s"} = {}
      OBVIOUS
    <3>2. Without(Taken(Freed, {"s"}), {"s"}) = Taken(Freed, {"s"} \ {"s"})
      BY WithoutSome
    <3> QED BY <3>1, <3>2
  <2>9. mem' = Taken(Freed, Left')
    BY <1>1, <2>1, <2>3, <2>7, <2>8
  <2>10. BlocksFreed'
    BY <2>1, <2>2, <2>9 DEF BlocksFreed
  <2> QED BY <2>1, <2>4, <2>6, <2>10, OtherPlaces DEF Ext2Inv
<1> QED BY <1>3, <1>4

\* ext2_read.
LEMMA Ext2Reads ==
    ASSUME Ext2Inv, pc = "idle", vol' = vol, mnt' = mnt,
           NEW off \in Nat, NEW n \in Nat, CallRead(off, n)
    PROVE  Ext2Inv'
<1> DEFINE f == fd["other"]
           d == [NoCall EXCEPT !.op = "read", !.off = off, !.len = n]
<1>1. PICK bad : LET data == ext2_read(f, off, n, bad)
                 IN  Done("other", Len(data), data, mem) /\ Noting(bad)
  BY DEF CallRead
<1> DEFINE data == ext2_read(f, off, n, bad)
<1>2. /\ pc' = "done" /\ out' = [res |-> Len(data), data |-> data] /\ mem' = mem
      /\ faulted' = (faulted \/ bad # {})
  BY <1>1 DEF Done, Noting
<1>3. call' = d /\ fd' = fd /\ f.inode # Null
  BY DEF CallRead, IsOpen
<1>4. d.op = "read" /\ d.off = off /\ d.len = n /\ d.cmd = "none"
  BY DEF NoCall
<1>5. mem = Freed /\ DiskOK /\ ~ faulted
  BY DEF Ext2Inv, MemOK, CallOK
<1>6. DiskOK'
  BY <1>3, <1>5, DiskKept
<1> HIDE DEF d, data
<1>7. BlocksFreed'
  <2>1. Left' = {}
    BY <1>3, <1>4 DEF Left
  <2> QED BY <1>2, <1>3, <1>4, <1>5, <2>1, TakenNone DEF BlocksFreed
<1>8. FoundIsFile' /\ ShownIsFile'
  BY <1>3, <1>4 DEF FoundIsFile, ShownIsFile
<1>9. ReadIsFile'
  <2> DEFINE ino == f.i_num
  <2>1. SUFFICES ASSUME ino \in DOMAIN vol.truth, Within
                 PROVE  FilePiece(ino, off, n, bad, data)
    <3>1. Within' = Within
      BY DEF Within
    <3>2. out'.data = data /\ call'.off = off /\ call'.len = n /\ fd'["other"].i_num = ino
      BY <1>2, <1>3, <1>4
    <3>3. ~ faulted' => bad = {}
      BY <1>2
    <3> HIDE DEF ino, f
    <3>4. ASSUME FilePiece(ino, off, n, bad, data)
          PROVE  LET file == FileOf(vol', ino)
                     want == SubSeq(file, off + 1, Min({off + n, Len(file)}))
                 IN  /\ Len(data) <= Len(want)
                     /\ \A k \in DOMAIN data : data[k] \in {want[k], Zero}
                     /\ ~ faulted' => data = want
      BY <3>3, <3>4 DEF FilePiece
    <3> QED BY <3>1, <3>2, <3>4 DEF ReadIsFile
  <2>2. f.inode = InodeOf(vol, ino) /\ OnVolume
    BY <1>3, <1>5, <2>1 DEF DiskOK, OnVolume
  <2>3. CASE n # 0
    <3>1. data = ext2_read_inode(InodeOf(vol, ino), off, n, bad)
      BY <2>2, <2>3 DEF data, ext2_read
    <3> HIDE DEF ino
    <3> QED BY <2>1, <2>2, <3>1, ReadFile
  <2>4. CASE n = 0
    <3>1. data = <<>>
      BY <2>4 DEF data, ext2_read
    <3> DEFINE file == FileOf(vol, ino)
               e    == Min({off + n, Len(file)})
    <3> HIDE DEF ino
    <3>2. Len(file) \in Nat
      BY <2>1, <2>2, FileFacts, BlockFacts
    <3>3. e \in Int /\ e < off + 1
      <4> DEFINE m == Len(file)
      <4> HIDE DEF file
      <4>1. m \in Int /\ off + n \in Int
        BY <3>2 DEF file
      <4> HIDE DEF m
      <4>2. Min({off + n, m}) = IF off + n <= m THEN off + n ELSE m
        BY <4>1, MinPair
      <4> QED BY <2>4, <4>1, <4>2 DEF m
    <3> HIDE DEF e, file
    <3>4. SubSeq(file, off + 1, e) = <<>>
      BY <3>3, SubSeqEmpty
    <3> DEFINE w == SubSeq(file, off + 1, e)
    <3> HIDE DEF w
    <3>5. w = <<>> /\ Len(data) = 0 /\ Len(w) = 0 /\ DOMAIN data = {}
      <4>1. w = <<>>
        BY <3>4 DEF w
      <4>2. Len(data) = 0 /\ Len(w) = 0
        BY <3>1, <4>1
      <4>3. DOMAIN data = {}
        BY <3>1
      <4> QED BY <4>1, <4>2, <4>3
    <3>6. Len(data) <= Len(w)
      BY <3>5
    <3>7. /\ \A k \in DOMAIN data : data[k] \in {w[k], Zero}
          /\ bad = {} => data = w
      BY <3>1, <3>5
    <3> QED BY <3>6, <3>7, Zenon DEF FilePiece, e, file, w
  <2> QED BY <2>3, <2>4
<1> QED BY <1>2, <1>6, <1>7, <1>8, <1>9, OtherPlaces DEF Ext2Inv

\* ext2_close.
LEMMA Ext2Closes ==
    ASSUME Ext2Inv, pc = "idle", vol' = vol, mnt' = mnt, Close
    PROVE  Ext2Inv'
<1>1. /\ call' = [NoCall EXCEPT !.op = "close"] /\ pc' = "done"
      /\ mem' = Without(mem, {"inode", "private"}) /\ fd' = [fd EXCEPT !["other"] = Closed]
  BY DEF Close, Done
<1>2. mem = Freed /\ DiskOK
  BY DEF Ext2Inv, MemOK
<1>3. call'.op = "close" /\ call'.cmd = "none"
  BY <1>1 DEF NoCall
<1>4. BlocksFreed'
  BY <1>1, <1>2, <1>3 DEF BlocksFreed
<1>5. FoundIsFile' /\ ReadIsFile' /\ ShownIsFile'
  BY <1>3 DEF FoundIsFile, ReadIsFile, ShownIsFile
<1>6. DOMAIN fd' = {"other", "shell"} /\ fd'["other"].inode = Null /\ fd'["shell"] = fd["shell"]
  BY <1>1, <1>2 DEF DiskOK, Closed
<1>7. DiskOK'
  BY <1>2, <1>6 DEF DiskOK, Mounted, Within
<1> QED BY <1>1, <1>4, <1>5, <1>7, OtherPlaces DEF Ext2Inv

\* Whatever is called.
LEMMA Ext2Starts ==
    ASSUME Ext2Inv, Start
    PROVE  Ext2Inv'
<1>1. pc = "idle" /\ vol' = vol /\ mnt' = mnt
  BY DEF Start, At
<1>2. ASSUME NEW ln \in Lines, Command(ln) PROVE Ext2Inv'
  BY <1>1, <1>2, Ext2Command
<1>3. ASSUME NEW c \in Opens, Begin(c), UNCHANGED <<fd, faulted>> PROVE Ext2Inv'
  <2>1. /\ IsSeq(c.path) /\ IsSeq(c.names) /\ Spells(c.path, c.names)
        /\ c.op \in {"open", "stat"} /\ c.who = "other" /\ c.cmd = "none"
    BY CallsAssumption
  <2>2. /\ c.who \in {"other", "shell"}
        /\ c.cmd = "read" => c.op = "open" /\ c.who = "shell" /\ c.flags = {}
    BY <2>1
  <2>3. fd' = fd /\ faulted' = faulted
    BY <1>3
  <2> QED BY <1>1, <1>3, <2>1, <2>2, <2>3, Ext2Calls
<1>4. ASSUME NEW r \in Reads, CallRead(r[1], r[2]) PROVE Ext2Inv'
  <2>1. r[1] \in Nat /\ r[2] \in Nat
    BY CallsAssumption
  <2> QED BY <1>1, <1>4, <2>1, Ext2Reads
<1>5. CASE Close
  BY <1>1, <1>5, Ext2Closes
<1> QED BY <1>2, <1>3, <1>4, <1>5 DEF Start

\* One turn of the loop of get_fp_num, or its end.
LEMMA Ext2Walks ==
    ASSUME Ext2Inv, Walk
    PROVE  Ext2Inv'
<1> DEFINE t == strtok_r(strs, "/")
<1>1. /\ pc = "walk" /\ vol' = vol /\ mnt' = mnt /\ call' = call /\ fd' = fd
      /\ DiskOK /\ CallOK /\ mem = Taken(Freed, {"path"} \cup Copies)
  BY DEF Walk, At, Ext2Inv, MemOK
<1>2. PICK bad : IF t.tok = <<>> \/ i_num = 0
                 THEN /\ pc' = "walked" /\ mem' = Without(mem, {"path"})
                      /\ UNCHANGED <<strs, i_num, faulted>>
                 ELSE /\ i_num' = lookup_inode_num(get_inode(i_num, bad), t.tok, bad)
                      /\ strs' = t.save
                      /\ Noting(bad)
                      /\ UNCHANGED <<pc, mem>>
  BY DEF Walk
<1>3. /\ Exists' = Exists /\ Ino' = Ino /\ Clear' = Clear /\ Copies' = Copies
  BY <1>1, SameCall
<1>4. DiskOK'
  BY <1>1, DiskKept
<1>5. pc' \in {"walk", "walked"}
  BY <1>1, <1>2
<1>6. CallOK'
  BY <1>1, <1>5 DEF CallOK, Mounted
<1>7. Mounted /\ IsSeq(call.names)
  BY <1>1 DEF CallOK
<1>8. Clear => OnVolume /\ ~ ThroughFile
  BY <1>1, <1>7 DEF Clear, DiskOK, OnVolume
<1>9. Clear => IF i_num = 0 THEN faulted \/ ~ Exists
               ELSE \E j \in 0 .. Len(call.names) : CameTo(j)
  BY <1>1 DEF Ext2Inv, WalkOK
<1> DEFINE r == lookup_inode_num(get_inode(i_num, bad), t.tok, bad)
<1>10. ASSUME Clear, i_num # 0
       PROVE  /\ t.tok = <<>> => Exists /\ i_num = Ino
              /\ t.tok # <<>> =>
                     IF r = 0 THEN bad # {} \/ ~ Exists
                     ELSE \E k \in 0 .. Len(call.names) :
                             /\ IsSeq(t.save) /\ Spells(t.save, From(call.names, k))
                             /\ SubSeq(call.names, 1, k) \in DOMAIN vol.where
                             /\ vol.where[SubSeq(call.names, 1, k)] = r
  <2>1. PICK j \in 0 .. Len(call.names) : CameTo(j)
    BY <1>9, <1>10
  <2>2. OnVolume /\ ~ ThroughFile
    BY <1>8, <1>10
  <2> QED BY <1>7, <2>1, <2>2, WalkStep
<1>11. CASE t.tok = <<>> \/ i_num = 0
  <2>1. pc' = "walked" /\ mem' = Without(mem, {"path"}) /\ i_num' = i_num /\ faulted' = faulted
    BY <1>2, <1>11
  <2>2. mem' = Taken(Freed, Copies')
    <3>1. {"path"} \subseteq {"path"} \cup Copies /\ ({"path"} \cup Copies) \ {"path"} = Copies
      BY DEF Copies
    <3> DEFINE K == {"path"} \cup Copies
               L == {"path"}
    <3> HIDE DEF K, L
    <3>2. L \subseteq K /\ K \ L = Copies
      BY <3>1 DEF K, L
    <3>3. Without(Taken(Freed, K), L) = Taken(Freed, Copies)
      BY <3>2, WithoutSome
    <3> QED BY <1>1, <1>3, <2>1, <3>3 DEF K, L
  <2>3. MemOK'
    BY <2>1, <2>2 DEF MemOK
  <2>4. WalkOK'
    BY <1>3, <1>9, <1>10, <1>11, <2>1 DEF WalkOK
  <2> QED BY <1>4, <1>6, <2>1, <2>3, <2>4, OtherPlaces DEF Ext2Inv
<1>12. CASE ~ (t.tok = <<>> \/ i_num = 0)
  <2>1. /\ i_num' = r /\ strs' = t.save /\ faulted' = (faulted \/ bad # {})
        /\ pc' = pc /\ mem' = mem
    BY <1>2, <1>12 DEF Noting
  <2>2. MemOK'
    BY <1>1, <1>3, <2>1 DEF MemOK
  <2>3. ASSUME Clear
        PROVE  IF i_num' = 0 THEN faulted' \/ ~ Exists'
               ELSE \E j \in 0 .. Len(call'.names) : CameTo(j)'
    <3>1. /\ t.tok # <<>> /\ IF r = 0 THEN bad # {} \/ ~ Exists
                     ELSE \E k \in 0 .. Len(call.names) :
                             /\ IsSeq(t.save) /\ Spells(t.save, From(call.names, k))
                             /\ SubSeq(call.names, 1, k) \in DOMAIN vol.where
                             /\ vol.where[SubSeq(call.names, 1, k)] = r
      BY <1>10, <1>12, <2>3
    <3> HIDE DEF r, t
    <3>2. CASE r = 0
      BY <1>3, <2>1, <3>1, <3>2
    <3>3. CASE r # 0
      <4>1. PICK k \in 0 .. Len(call.names) :
                             /\ IsSeq(t.save) /\ Spells(t.save, From(call.names, k))
                             /\ SubSeq(call.names, 1, k) \in DOMAIN vol.where
                             /\ vol.where[SubSeq(call.names, 1, k)] = r
        BY <3>1, <3>3
      <4>2. CameTo(k)'
        BY <1>1, <2>1, <4>1 DEF CameTo
      <4>3. k \in 0 .. Len(call'.names)
        BY <1>1
      <4> QED BY <2>1, <3>3, <4>2, <4>3
    <3> QED BY <3>2, <3>3
  <2>4. pc' = "walk"
    BY <1>1, <2>1
  <2>5. WalkOK'
    BY <1>3, <2>3, <2>4 DEF WalkOK
  <2> QED BY <1>4, <1>6, <2>2, <2>4, <2>5, OtherPlaces DEF Ext2Inv
<1> QED BY <1>11, <1>12

\* What the walk came to.
LEMMA Ext2Came ==
    ASSUME Ext2Inv, pc = "walked", NEW bad
    PROVE  LET inode == get_inode(i_num, bad)
           IN  /\ Mounted /\ vol \in Volumes /\ IsExt2(vol) /\ mnt = MountOf(vol)
               /\ mem = Taken(Freed, Copies)
               /\ i_num = 0 => inode = Null
               /\ (i_num \in DOMAIN vol.truth /\ Within /\ inode # Null) => inode = InodeOf(vol, i_num)
               /\ (Clear /\ i_num = 0) => faulted \/ ~ Exists
               /\ (Clear /\ i_num # 0) => /\ Exists /\ i_num = Ino /\ Ino \in DOMAIN vol.truth
                                          /\ inode = Null => bad # {}
<1>1. Mounted /\ DiskOK /\ WalkOK
  BY DEF Ext2Inv, CallOK
<1>2. vol \in Volumes /\ IsExt2(vol) /\ mnt = MountOf(vol) /\ mem = Taken(Freed, Copies)
  BY <1>1 DEF DiskOK, Ext2Inv, MemOK
<1>3. i_num = 0 => get_inode(i_num, bad) = Null
  BY DEF get_inode
<1>4. ASSUME i_num \in DOMAIN vol.truth, Within
      PROVE  /\ get_inode(i_num, bad) = InodeOf(vol, i_num) \/ (get_inode(i_num, bad) = Null /\ bad # {})
             /\ InodeOf(vol, i_num) # Null
  <2> DEFINE in == i_num
  <2> HIDE DEF in
  <2>1. in \in DOMAIN vol.truth
    BY <1>4 DEF in
  <2>2. /\ get_inode(in, bad) = InodeOf(vol, in) \/ (get_inode(in, bad) = Null /\ bad # {})
        /\ InodeOf(vol, in) # Null
    BY <1>2, <1>4, <2>1, GetInode
  <2> QED BY <2>2 DEF in
<1>5. (Clear /\ i_num = 0) => faulted \/ ~ Exists
  BY <1>1 DEF WalkOK
<1>6. ASSUME Clear, i_num # 0
      PROVE  Exists /\ i_num = Ino /\ Ino \in DOMAIN vol.truth
  <2>1. Exists /\ i_num = Ino
    BY <1>1, <1>6 DEF WalkOK
  <2>2. OnVolume
    BY <1>2, <1>6 DEF Clear, OnVolume
  <2>3. Ino \in DOMAIN vol.truth
    BY <2>1, <2>2, PathsFacts DEF PathsOK, Exists, Ino
  <2> QED BY <2>1, <2>3
<1> QED BY <1>1, <1>2, <1>3, <1>4, <1>5, <1>6 DEF Clear

\* What a call that is done still has.
LEMMA HeldAfter ==
    ASSUME mem = Taken(Freed, Copies), NEW M, "s" \notin M
    PROVE  /\ (IF call.who = "shell" THEN Without(mem, {"s"}) ELSE mem) = Freed
           /\ (IF call.who = "shell" THEN Without(Taken(mem, M), {"s"}) ELSE Taken(mem, M)) = Taken(Freed, M)
<1>1. CASE call.who = "shell"
  <2>1. Copies = {"s"}
    BY <1>1 DEF Copies
  <2>2. Without(mem, {"s"}) = Freed
    <3> DEFINE L == {"s"}
    <3>1. L \subseteq L /\ L \ L = {}
      OBVIOUS
    <3> HIDE DEF L
    <3>2. Without(Taken(Freed, L), L) = Taken(Freed, L \ L)
      BY <3>1, WithoutSome
    <3> QED BY <2>1, <3>1, <3>2, TakenNone DEF L
  <2>3. Without(Taken(mem, M), {"s"}) = Taken(Freed, M)
    <3> DEFINE L == {"s"}
               K == L \cup M
    <3>1. (\A k \in L : k \notin M) /\ L \subseteq K /\ K \ L = M
      OBVIOUS
    <3> HIDE DEF L, K
    <3>2. Taken(Taken(Freed, L), M) = Taken(Freed, L \cup M)
      BY <3>1, TakenTwice
    <3>3. Without(Taken(Freed, K), L) = Taken(Freed, K \ L)
      BY <3>1, WithoutSome
    <3> QED BY <2>1, <3>1, <3>2, <3>3 DEF L, K
  <2> QED BY <1>1, <2>2, <2>3
<1>2. CASE call.who # "shell"
  <2>1. mem = Freed
    BY <1>2, TakenNone DEF Copies
  <2> QED BY <1>2, <2>1
<1> QED BY <1>1, <1>2

\* The rest of ext2_open.
LEMMA Ext2Opens ==
    ASSUME Ext2Inv, ext2_open
    PROVE  Ext2Inv'
<1>1. /\ pc = "walked" /\ call.op = "open" /\ vol' = vol /\ mnt' = mnt /\ call' = call
      /\ i_num' = i_num /\ DiskOK /\ CallOK
  BY DEF ext2_open, At, Ext2Inv
<1>2. PICK bad : Opened(get_inode(i_num, bad)) /\ Noting(bad)
  BY DEF ext2_open
<1> DEFINE inode == get_inode(i_num, bad)
<1>3. Opened(inode) /\ faulted' = (faulted \/ bad # {})
  BY <1>2 DEF Noting
<1>4. /\ Mounted /\ vol \in Volumes /\ IsExt2(vol) /\ mnt = MountOf(vol)
      /\ mem = Taken(Freed, Copies)
      /\ i_num = 0 => inode = Null
      /\ (i_num \in DOMAIN vol.truth /\ Within /\ inode # Null) => inode = InodeOf(vol, i_num)
      /\ (Clear /\ i_num = 0) => faulted \/ ~ Exists
      /\ (Clear /\ i_num # 0) => /\ Exists /\ i_num = Ino /\ Ino \in DOMAIN vol.truth
                                 /\ inode = Null => bad # {}
  BY <1>1, Ext2Came
<1>5. /\ ThroughFile' = ThroughFile /\ Exists' = Exists /\ Ino' = Ino /\ Within' = Within
      /\ Clear' = Clear /\ Create' = Create
  BY <1>1, SameCall
<1>6. /\ call.who \in {"other", "shell"} /\ IsSeq(call.names)
      /\ call.cmd = "read" => call.who = "shell" /\ call.flags = {}
  BY <1>1 DEF CallOK
<1> HIDE DEF inode
<1>7. Clear <=> ~ ThroughFile /\ Within
  BY DEF Clear
<1>8. CASE inode = Null /\ Create
  <2>1. pc' = "wild" /\ fd' = fd
    BY <1>3, <1>8 DEF Opened, Wild
  <2>2. DiskOK'
    BY <1>1, <2>1, DiskKept
  <2>3. WildOnlyIf'
    BY <1>5, <1>8 DEF WildOnlyIf
  <2> QED BY <2>1, <2>2, <2>3, OtherPlaces DEF Ext2Inv
<1>9. CASE inode = Null /\ ~ Create
  <2>1. /\ pc' = "done" /\ fd' = fd /\ out' = [res |-> ENOENT, data |-> <<>>]
        /\ mem' = IF call.who = "shell" THEN Without(mem, {"s"}) ELSE mem
    BY <1>3, <1>9 DEF Opened, Done
  <2>2. DiskOK'
    BY <1>1, <2>1, DiskKept
  <2>3. out'.res = ENOENT /\ ENOENT # 0 /\ ENOENT \notin {EEXIST, EISDIR}
    BY <2>1 DEF ENOENT, EEXIST, EISDIR
  <2>4. mem' = Freed
    <3>1. "s" \notin {}
      OBVIOUS
    <3> QED BY <1>4, <2>1, <3>1, HeldAfter
  <2>5. Left' = {}
    BY <1>1, <2>3 DEF Left
  <2>6. BlocksFreed'
    BY <1>1, <2>4, <2>5, TakenNone DEF BlocksFreed
  <2>7. FoundIsFile'
    BY <1>3, <1>4, <1>5, <1>7, <1>9, <2>3 DEF FoundIsFile
  <2>8. ReadIsFile'
    BY <1>1 DEF ReadIsFile
  <2>9. ShownIsFile'
    BY <1>3, <1>4, <1>5, <1>7, <1>9 DEF ShownIsFile
  <2> QED BY <2>1, <2>2, <2>6, <2>7, <2>8, <2>9, OtherPlaces DEF Ext2Inv
<1>10. ASSUME NEW res \in {EEXIST, EISDIR}, inode # Null,
              call.flags # {}, fd' = fd, Done(call.who, res, <<>>, Taken(mem, {"inode"}))
       PROVE  Ext2Inv'
  <2>1. /\ pc' = "done" /\ out'.res = res /\ res # ENOENT /\ res # 0
        /\ mem' = IF call.who = "shell" THEN Without(Taken(mem, {"inode"}), {"s"}) ELSE Taken(mem, {"inode"})
    BY <1>10 DEF Done, ENOENT, EEXIST, EISDIR
  <2>2. DiskOK'
    BY <1>1, <1>10, DiskKept
  <2>3. mem' = Taken(Freed, {"inode"})
    <3>1. "s" \notin {"inode"}
      OBVIOUS
    <3> QED BY <1>4, <2>1, <3>1, HeldAfter
  <2>4. Left' = {"inode"}
    BY <1>1, <1>10, <2>1 DEF Left
  <2>5. BlocksFreed'
    BY <1>1, <2>3, <2>4 DEF BlocksFreed
  <2>6. FoundIsFile'
    BY <1>4, <1>5, <1>7, <1>10, <2>1 DEF FoundIsFile
  <2>7. ReadIsFile'
    BY <1>1 DEF ReadIsFile
  <2>8. ShownIsFile'
    BY <1>1, <1>6, <1>10 DEF ShownIsFile
  <2> QED BY <2>1, <2>2, <2>5, <2>6, <2>7, <2>8, OtherPlaces DEF Ext2Inv
<1>11. CASE inode # Null /\ "excl" \in call.flags
  <2>1. fd' = fd /\ Done(call.who, EEXIST, <<>>, Taken(mem, {"inode"})) /\ call.flags # {}
    BY <1>3, <1>11 DEF Opened
  <2> QED BY <1>10, <1>11, <2>1
<1>12. CASE inode # Null /\ "excl" \notin call.flags /\ inode.mode = "dir" /\ "wronly" \in call.flags
  <2>1. fd' = fd /\ Done(call.who, EISDIR, <<>>, Taken(mem, {"inode"})) /\ call.flags # {}
    BY <1>3, <1>12 DEF Opened
  <2> QED BY <1>10, <1>12, <2>1
<1>13. CASE inode # Null /\ "excl" \notin call.flags /\ ~ (inode.mode = "dir" /\ "wronly" \in call.flags)
  <2>1. fd' = [fd EXCEPT ![call.who] = [inode |-> inode, i_num |-> i_num]]
    BY <1>3, <1>13 DEF Opened
  <2>2. /\ fd'[call.who].inode = inode /\ fd'[call.who].i_num = i_num /\ DOMAIN fd' = {"other", "shell"}
        /\ \A w \in {"other", "shell"} : w # call.who => fd'[w] = fd[w]
    BY <1>1, <1>6, <2>1 DEF DiskOK
  <2>3. DiskOK'
    <3>1. \A w \in {"other", "shell"} :
             fd'[w].inode # Null =>
                /\ Mounted'
                /\ (fd'[w].i_num \in DOMAIN vol.truth /\ Within) => fd'[w].inode = InodeOf(vol, fd'[w].i_num)
      <4> TAKE w \in {"other", "shell"}
      <4>1. Mounted' = Mounted
        BY <1>1 DEF Mounted
      <4>2. CASE w = call.who
        BY <1>4, <2>2, <4>1, <4>2
      <4>3. CASE w # call.who
        BY <1>1, <1>4, <2>2, <4>1, <4>3 DEF DiskOK
      <4> QED BY <4>2, <4>3
    <3>2. Mounted' => IsExt2(vol') /\ mnt' = MountOf(vol')
      BY <1>1, <1>4
    <3> QED BY <1>1, <1>4, <1>5, <2>2, <3>1, <3>2 DEF DiskOK
  <2>4. i_num # 0
    BY <1>4, <1>13
  <2>5. CASE call.who = "shell"
    <3>1. pc' = "show" /\ mem' = Taken(mem, {"inode", "private"})
      BY <1>3, <1>13, <2>5 DEF Opened
    <3>2. mem' = Taken(Freed, {"s", "inode", "private"})
      <4> DEFINE K == {"s"}
                 L == {"inode", "private"}
      <4>1. (\A k \in K : k \notin L) /\ K \cup L = {"s", "inode", "private"} /\ Copies = K
        BY <2>5 DEF Copies
      <4> HIDE DEF K
      <4>2. Taken(Taken(Freed, K), L) = Taken(Freed, K \cup L)
        <5> HIDE DEF L
        <5> QED BY <4>1, TakenTwice DEF L
      <4> QED BY <1>4, <3>1, <4>1, <4>2
    <3>3. MemOK'
      BY <3>1, <3>2 DEF MemOK
    <3>4. CallOK'
      BY <1>1, <1>4, <2>5, <3>1 DEF CallOK, Mounted
    <3>5. WalkOK'
      BY <1>1, <1>4, <1>5, <1>13, <2>2, <2>4, <2>5, <3>1 DEF WalkOK
    <3> QED BY <2>3, <3>1, <3>3, <3>4, <3>5, OtherPlaces DEF Ext2Inv
  <2>6. CASE call.who # "shell"
    <3>1. pc' = "done" /\ out' = [res |-> 0, data |-> <<i_num>>] /\ mem' = Taken(mem, {"inode", "private"})
      BY <1>3, <1>13, <2>6 DEF Opened, Done
    <3>2. out'.res = 0 /\ out'.data = <<i_num>> /\ ENOENT # 0
      BY <3>1 DEF ENOENT
    <3>3. mem' = Taken(Freed, {"inode", "private"})
      BY <1>4, <2>6, <3>1, TakenNone DEF Copies
    <3>4. Left' = {"inode", "private"}
      <4>1. call'.op = "open" /\ out'.res = 0 /\ call'.who # "shell" /\ "open" # "line"
        BY <1>1, <2>6, <3>2
      <4>2. (IF call'.who = "shell" THEN {"inode", "private", "fdata"} ELSE {"inode", "private"}) = {"inode", "private"}
        BY <4>1
      <4>3. Left' = IF call'.who = "shell" THEN {"inode", "private", "fdata"} ELSE {"inode", "private"}
        BY <4>1 DEF Left, EEXIST, EISDIR
      <4> QED BY <4>2, <4>3
    <3>5. BlocksFreed'
      BY <1>1, <3>3, <3>4 DEF BlocksFreed
    <3>6. FoundIsFile'
      BY <1>1, <1>4, <1>5, <1>7, <2>4, <3>2 DEF FoundIsFile
    <3>7. ReadIsFile'
      BY <1>1 DEF ReadIsFile
    <3>8. ShownIsFile'
      BY <1>1, <1>6, <2>6 DEF ShownIsFile
    <3> QED BY <2>3, <3>1, <3>5, <3>6, <3>7, <3>8, OtherPlaces DEF Ext2Inv
  <2> QED BY <2>5, <2>6
<1> QED BY <1>8, <1>9, <1>11, <1>12, <1>13

\* The rest of ext2_stat.
LEMMA Ext2Stats ==
    ASSUME Ext2Inv, ext2_stat
    PROVE  Ext2Inv'
<1>1. /\ pc = "walked" /\ call.op = "stat" /\ vol' = vol /\ mnt' = mnt /\ call' = call /\ fd' = fd
      /\ DiskOK /\ CallOK
  BY DEF ext2_stat, At, Ext2Inv
<1>2. PICK bad : LET inode == get_inode(i_num, bad) IN
                  /\ IF i_num = 0 THEN Done(call.who, ENOENT, <<>>, mem)
                     ELSE IF inode = Null THEN Wild
                     ELSE Done(call.who, 0, <<i_num, inode.mode, inode.size>>, mem)
                  /\ Noting(bad)
  BY DEF ext2_stat
<1> DEFINE inode == get_inode(i_num, bad)
<1>3. faulted' = (faulted \/ bad # {})
  BY <1>2 DEF Noting
<1>4. /\ Mounted /\ vol \in Volumes /\ IsExt2(vol) /\ mnt = MountOf(vol)
      /\ mem = Taken(Freed, Copies)
      /\ i_num = 0 => inode = Null
      /\ (i_num \in DOMAIN vol.truth /\ Within /\ inode # Null) => inode = InodeOf(vol, i_num)
      /\ (Clear /\ i_num = 0) => faulted \/ ~ Exists
      /\ (Clear /\ i_num # 0) => /\ Exists /\ i_num = Ino /\ Ino \in DOMAIN vol.truth
                                 /\ inode = Null => bad # {}
  BY <1>1, Ext2Came
<1>5. /\ ThroughFile' = ThroughFile /\ Exists' = Exists /\ Ino' = Ino /\ Within' = Within
      /\ Clear' = Clear /\ Create' = Create
  BY <1>1, SameCall
<1>6. call.cmd # "read"
  BY <1>1 DEF CallOK
<1>7. Clear <=> ~ ThroughFile /\ Within
  BY DEF Clear
<1>8. DiskOK'
  BY <1>1, DiskKept
<1>9. ReadIsFile' /\ ShownIsFile'
  BY <1>1, <1>6 DEF ReadIsFile, ShownIsFile
<1>10. Left' = {}
  BY <1>1 DEF Left
<1>11. ASSUME NEW res, NEW data, Done(call.who, res, data, mem)
       PROVE  pc' = "done" /\ out'.res = res /\ out'.data = data /\ BlocksFreed'
  <2>1. /\ pc' = "done" /\ out'.res = res /\ out'.data = data
        /\ mem' = IF call.who = "shell" THEN Without(mem, {"s"}) ELSE mem
    BY <1>11 DEF Done
  <2>2. mem' = Freed
    <3>1. "s" \notin {}
      OBVIOUS
    <3> QED BY <1>4, <2>1, <3>1, HeldAfter
  <2>3. BlocksFreed'
    BY <1>1, <1>10, <2>2, TakenNone DEF BlocksFreed
  <2> QED BY <2>1, <2>3
<1>12. CASE i_num = 0
  <2>1. Done(call.who, ENOENT, <<>>, mem)
    BY <1>2, <1>12
  <2>2. pc' = "done" /\ out'.res = ENOENT /\ BlocksFreed'
    BY <1>11, <2>1
  <2>3. FoundIsFile'
    <3>1. out'.res # 0 /\ out'.res = ENOENT
      BY <2>2 DEF ENOENT
    <3>2. ~ ThroughFile' /\ Within' => ~ Exists' \/ faulted'
      BY <1>3, <1>4, <1>5, <1>7, <1>12
    <3> QED BY <3>1, <3>2 DEF FoundIsFile
  <2> QED BY <1>8, <1>9, <2>2, <2>3, OtherPlaces DEF Ext2Inv
<1>13. CASE i_num # 0 /\ inode = Null
  <2>1. pc' = "wild"
    BY <1>2, <1>13 DEF Wild
  <2>2. WildOnlyIf'
    BY <1>3, <1>4, <1>5, <1>7, <1>13 DEF WildOnlyIf
  <2> QED BY <1>8, <2>1, <2>2, OtherPlaces DEF Ext2Inv
<1>14. CASE i_num # 0 /\ inode # Null
  <2> DEFINE data == <<i_num, inode.mode, inode.size>>
  <2>1. Done(call.who, 0, data, mem)
    BY <1>2, <1>14
  <2>2. pc' = "done" /\ out'.res = 0 /\ out'.data = data /\ BlocksFreed'
    <3> HIDE DEF data
    <3> QED BY <1>11, <2>1
  <2>3. ASSUME Clear
        PROVE  Exists /\ data = <<Ino, vol.truth[Ino].mode, vol.truth[Ino].size>>
    <3>1. Exists /\ i_num = Ino /\ Ino \in DOMAIN vol.truth /\ OnVolume
      BY <1>4, <1>7, <1>14, <2>3 DEF OnVolume
    <3>2. inode = InodeOf(vol, Ino)
      BY <1>4, <1>7, <1>14, <2>3, <3>1
    <3>3. InodeOf(vol, Ino).size = vol.truth[Ino].size /\ InodeOf(vol, Ino).mode = vol.truth[Ino].mode
      BY <3>1, BlockFacts
    <3> QED BY <3>1, <3>2, <3>3
  <2> HIDE DEF data
  <2>4. ASSUME ~ ThroughFile', Within'
        PROVE  Exists' /\ data = <<Ino', vol'.truth[Ino'].mode, vol'.truth[Ino'].size>>
    <3>1. Exists /\ data = <<Ino, vol.truth[Ino].mode, vol.truth[Ino].size>>
      BY <1>5, <1>7, <2>3, <2>4
    <3> QED BY <1>1, <1>5, <3>1
  <2>5. out'.res # ENOENT /\ call'.op # "open"
    BY <1>1, <2>2 DEF ENOENT
  <2>6. FoundIsFile'
    <3> SUFFICES ASSUME ~ ThroughFile', Within'
                 PROVE  (/\ out.res = ENOENT => ~ Exists \/ faulted
                         /\ out.res # ENOENT => Exists
                         /\ (out.res = 0 /\ call.op = "stat") =>
                                out.data = <<Ino, vol.truth[Ino].mode, vol.truth[Ino].size>>
                         /\ (out.res = 0 /\ call.op = "open" /\ call.who = "other") => out.data = <<Ino>>)'
      BY DEF FoundIsFile
    <3>1. Exists' /\ out'.data = <<Ino', vol'.truth[Ino'].mode, vol'.truth[Ino'].size>>
      BY <2>2, <2>4
    <3> QED BY <2>5, <3>1
  <2> QED BY <1>8, <1>9, <2>2, <2>6, OtherPlaces DEF Ext2Inv
<1> QED BY <1>12, <1>13, <1>14

\* The whole file, if no sector fails, is shown up to the first zero.
LEMMA ShownFile ==
    ASSUME OnVolume, NEW ino \in DOMAIN vol.truth, NEW f, f.inode = InodeOf(vol, ino)
    PROVE  Shown(ext2_read(f, 0, f.inode.size, {}), f.inode.size) = UpToZero(FileOf(vol, ino))
<1> DEFINE file == FileOf(vol, ino)
           size == f.inode.size
           data == ext2_read(f, 0, size, {})
<1>1. size \in Nat /\ size = vol.truth[ino].size
  BY BlockFacts
<1>2. file = [k \in 1 .. size |-> file[k]] /\ Len(file) = size
  BY <1>1, FileFacts
<1> HIDE DEF file, size
<1> DEFINE S == {file[k] : k \in 1 .. size}
<1>3. file \in Seq(S)
  <2>1. IsSeq(file)
    BY <1>1, <1>2 DEF IsSeq
  <2> QED BY <1>2, <2>1, IsSeqSeq
<1>4. data = file
  <2>1. CASE size = 0
    <3>1. data = <<>>
      BY <2>1 DEF ext2_read
    <3>2. file = <<>>
      <4> HIDE DEF S
      <4> QED BY <1>2, <1>3, <2>1, EmptySeq
    <3> QED BY <3>1, <3>2
  <2>2. CASE size # 0
    <3>1. data = ext2_read_inode(InodeOf(vol, ino), 0, size, {})
      BY <2>2 DEF ext2_read
    <3>2. FilePiece(ino, 0, size, {}, ext2_read_inode(InodeOf(vol, ino), 0, size, {}))
      <4>1. 0 \in Nat
        OBVIOUS
      <4> QED BY <1>1, <4>1, ReadFile
    <3>3. data = SubSeq(file, 0 + 1, Min({0 + size, Len(file)}))
      BY <3>1, <3>2, Zenon DEF FilePiece, file
    <3>4. Min({0 + size, Len(file)}) = size
      <4>1. 0 + size = size /\ size \in Int /\ size <= size
        BY <1>1
      <4>2. Min({size, size}) = IF size <= size THEN size ELSE size
        BY <4>1, MinPair
      <4> QED BY <1>2, <4>1, <4>2
    <3>5. SubSeq(file, 1, Len(file)) = file
      <4> HIDE DEF S
      <4> QED BY <1>3, SubSeqFull
    <3>6. Len(file) = size
      BY <1>2
    <3>7. 0 + 1 = 1
      OBVIOUS
    <3> HIDE DEF data
    <3> QED BY <3>3, <3>4, <3>5, <3>6, <3>7
  <2> QED BY <2>1, <2>2
<1> HIDE DEF data, S
<1>5. [k \in 1 .. size - Len(data) |-> Dust] = <<>>
  <2>1. 1 .. size - Len(data) = {}
    BY <1>1, <1>2, <1>4
  <2> QED BY <2>1
<1>6. data \o [k \in 1 .. size - Len(data) |-> Dust] = file
  BY <1>3, <1>4, <1>5, ConcatEmptySeq
<1>7. Shown(data, size) = SubSeq(file, 1, Min({k \in 0 .. size : k = size \/ file[k + 1] = Zero}))
  BY <1>6 DEF Shown
<1>8. UpToZero(file) = SubSeq(file, 1, Min({k \in 0 .. size : k = size \/ file[k + 1] = Zero}))
  BY <1>2 DEF UpToZero
<1> QED BY <1>7, <1>8 DEF data, size, file

\* What the read command prints.
LEMMA Ext2Shows ==
    ASSUME Ext2Inv, ShowFile
    PROVE  Ext2Inv'
<1> DEFINE f == fd["shell"]
<1>1. /\ pc = "show" /\ vol' = vol /\ mnt' = mnt /\ call' = call
      /\ fd' = [fd EXCEPT !["shell"] = Closed]
      /\ DiskOK /\ CallOK /\ WalkOK /\ mem = Taken(Freed, {"s", "inode", "private"})
  BY DEF ShowFile, At, Ext2Inv, MemOK
<1>2. PICK bad : /\ Done("shell", 0, Shown(ext2_read(f, 0, f.inode.size, bad), f.inode.size), Taken(mem, {"fdata"}))
                 /\ Noting(bad)
  BY DEF ShowFile
<1> DEFINE data == Shown(ext2_read(f, 0, f.inode.size, bad), f.inode.size)
<1>3. /\ pc' = "done" /\ out'.res = 0 /\ out'.data = data /\ 0 # ENOENT
      /\ mem' = Without(Taken(mem, {"fdata"}), {"s"}) /\ faulted' = (faulted \/ bad # {})
  BY <1>2 DEF Done, Noting, ENOENT
<1>4. call.op = "open" /\ call.who = "shell" /\ Mounted
  BY <1>1 DEF CallOK
<1>5. f.inode # Null /\ f.i_num = i_num /\ (Clear => Exists /\ i_num = Ino)
  BY <1>1 DEF WalkOK
<1>6. /\ ThroughFile' = ThroughFile /\ Exists' = Exists /\ Ino' = Ino /\ Within' = Within
  BY <1>1, SameCall
<1>7. Clear <=> ~ ThroughFile /\ Within
  BY DEF Clear
<1> HIDE DEF data
<1>8. DiskOK'
  <2>1. DOMAIN fd' = {"other", "shell"} /\ fd'["shell"].inode = Null /\ fd'["other"] = fd["other"]
    BY <1>1 DEF DiskOK, Closed
  <2> QED BY <1>1, <2>1 DEF DiskOK, Mounted, Within
<1>9. BlocksFreed'
  <2> DEFINE K == {"s", "inode", "private"}
             L == {"fdata"}
             M == {"inode", "private", "fdata"}
             N == {"s"}
  <2>1. (\A k \in K : k \notin L) /\ (N \subseteq K \cup L) /\ (K \cup L) \ N = M
    OBVIOUS
  <2> HIDE DEF K, L, M, N
  <2>2. Taken(Taken(Freed, K), L) = Taken(Freed, K \cup L)
    BY <2>1, TakenTwice
  <2>3. Without(Taken(Freed, K \cup L), N) = Taken(Freed, (K \cup L) \ N)
    BY <2>1, WithoutSome
  <2>4. mem' = Taken(Freed, M)
    BY <1>1, <1>3, <2>1, <2>2, <2>3 DEF K, L, N
  <2>5. Left' = M
    <3>1. call'.op = "open" /\ out'.res = 0 /\ call'.who = "shell"
      BY <1>1, <1>3, <1>4
    <3> QED BY <3>1 DEF Left, EEXIST, EISDIR, M
  <2> QED BY <1>1, <1>4, <2>4, <2>5 DEF BlocksFreed
<1>10. FoundIsFile'
  BY <1>1, <1>3, <1>4, <1>5, <1>6, <1>7 DEF FoundIsFile
<1>11. ReadIsFile'
  BY <1>1, <1>4 DEF ReadIsFile
<1>12. ShownIsFile'
  <2>1. SUFFICES ASSUME ~ ThroughFile, ~ faulted', Within
                 PROVE  data = UpToZero(FileOf(vol, Ino))
    <3>1. (~ ThroughFile /\ ~ faulted' /\ Within) => data = UpToZero(FileOf(vol, Ino))
      BY <2>1
    <3> DEFINE up == UpToZero(FileOf(vol, Ino))
    <3>2. UpToZero(FileOf(vol', Ino')) = up
      BY <1>1, <1>6
    <3> HIDE DEF up
    <3>3. (~ ThroughFile' /\ ~ faulted' /\ Within') => call'.op = "open" /\ out'.data = UpToZero(FileOf(vol', Ino'))
      BY <1>1, <1>3, <1>4, <1>6, <3>1, <3>2 DEF up
    <3> QED BY <3>3 DEF ShownIsFile
  <2>2. bad = {} /\ Exists /\ f.i_num = Ino /\ OnVolume
    BY <1>1, <1>3, <1>4, <1>5, <1>7, <2>1 DEF OnVolume, DiskOK
  <2>3. Ino \in DOMAIN vol.truth
    BY <2>2, PathsFacts DEF PathsOK, Exists, Ino
  <2>4. f.inode = InodeOf(vol, Ino)
    BY <1>1, <1>5, <2>1, <2>2, <2>3 DEF DiskOK
  <2> DEFINE ino == Ino
             g   == f
  <2> HIDE DEF ino, g
  <2>5. ino \in DOMAIN vol.truth /\ g.inode = InodeOf(vol, ino)
    BY <2>3, <2>4 DEF ino, g
  <2>6. Shown(ext2_read(g, 0, g.inode.size, {}), g.inode.size) = UpToZero(FileOf(vol, ino))
    BY <2>2, <2>5, ShownFile
  <2> QED BY <2>2, <2>6 DEF data, ino, g
<1> QED BY <1>3, <1>8, <1>9, <1>10, <1>11, <1>12, OtherPlaces DEF Ext2Inv

\* The invariant of the file system, for all volumes that are what the format
\* says, all lines, calls and sectors that fail.
THEOREM FilesInvariant == Ext2Spec => []Ext2Inv
<1>1. Ext2Init => Ext2Inv
  BY Ext2Begins
<1>2. Ext2Inv /\ [Ext2Next]_ext2_vars => Ext2Inv'
  BY Ext2Stutters, Ext2Mounts, Ext2Starts, Ext2Walks, Ext2Opens, Ext2Stats, Ext2Shows, Ext2Returns
     DEF Ext2Next
<1> QED BY <1>1, <1>2, PTL DEF Ext2Spec

\* ext2_open and ext2_stat (get_fp_num, lookup_inode_num, get_inode) find the
\* file that the path names, and only that one.
THEOREM PathsLeadToFiles == Ext2Spec => []FoundIsFile
<1>1. Ext2Inv => FoundIsFile
  BY DEF Ext2Inv
<1> QED BY <1>1, FilesInvariant, PTL

\* ext2_read (ext2_read_inode, get_block, get_block_iter) returns the piece of
\* the file asked for, through every level of tables.
THEOREM ReadsAreOfFile == Ext2Spec => []ReadIsFile
<1>1. Ext2Inv => ReadIsFile
  BY DEF Ext2Inv
<1> QED BY <1>1, FilesInvariant, PTL

\* The read command of kshell_proc shows the file whose path was typed.
THEOREM CommandShowsFile == Ext2Spec => []ShownIsFile
<1>1. Ext2Inv => ShownIsFile
  BY DEF Ext2Inv
<1> QED BY <1>1, FilesInvariant, PTL

\* Every way out of ext2_open, ext2_stat, ext2_read, ext2_close and kshell_proc
\* gives back what was taken from the heap, but for what Left names.
THEOREM BlocksGivenBack == Ext2Spec => []BlocksFreed
<1>1. Ext2Inv => BlocksFreed
  BY DEF Ext2Inv
<1> QED BY <1>1, FilesInvariant, PTL

\* The code follows a null pointer only where WildOnlyIf says.
THEOREM NoOtherWildPointer == Ext2Spec => []WildOnlyIf
<1>1. Ext2Inv => WildOnlyIf
  BY DEF Ext2Inv
<1> QED BY <1>1, FilesInvariant, PTL
=============================================================================
