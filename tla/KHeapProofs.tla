----------------------------- MODULE KHeapProofs ----------------------------
(***************************************************************************)
(* Theorems about the heaps of KHeap, for every placement and size of the  *)
(* heaps, every MAX_COALESCE and every set of sizes.                       *)
(*                                                                         *)
(* The three ways the chain of blocks changes (a new block at the end, a   *)
(* split, a merge) are treated first, for memory alone; kmalloc and kfree  *)
(* are compositions of them.  The last part is about the boot (module      *)
(* Boot), for any queue: there it is shown that calls of the heap do not   *)
(* overlap, which KHeap takes for granted.                                 *)
(***************************************************************************)
EXTENDS KHeap, Boot, TLAPS, SequenceTheorems, FiniteSetTheorems

\* Memory m, whose heaps end at p[h], has a tag exactly where a block has one.
Shape(m, p) ==
    /\ Blocks(m) \subseteq Nat
    /\ m.size \in [Blocks(m) -> Nat]
    /\ m.used \subseteq Blocks(m)
    /\ m.foot \in [Feet(m) -> Blocks(m)]
    /\ p \in [Heaps -> Nat]
    /\ \A h \in Heaps : HeapBase[h] <= p[h] /\ p[h] <= HeapLimit[h]

Chained(m, p) ==
    /\ Shape(m, p)
    /\ \A b \in Blocks(m) : \E h \in Heaps : b \in InHeap(m, h, p[h])
    /\ \A h \in Heaps : Tiled(m, h, p[h])

LEMMA HeapFacts ==
    /\ \A h \in Heaps : HeapBase[h] \in Nat /\ HeapBase[h] > 0 /\ HeapLimit[h] \in Nat
    /\ HeapLimit[1] <= HeapBase[0]
    /\ Heaps = {0, 1}
  BY HeapAssumption DEF Heaps

\* The heaps do not meet, so a block is in one of them only, and blocks are
\* ordered: the one at the lower address ends before the other begins.
LEMMA OrderLemma ==
    ASSUME NEW m, NEW p, Chained(m, p)
    PROVE  /\ \A b \in Blocks(m) : b \in Nat /\ m.size[b] \in Nat /\ After(m, b) \in Nat /\ After(m, b) >= b + 3
           /\ \A g, h \in Heaps : \A b \in Blocks(m) :
                 b \in InHeap(m, g, p[g]) /\ b \in InHeap(m, h, p[h]) => g = h
           /\ \A b, d \in Blocks(m) : b < d => After(m, b) <= d
           /\ \A h \in Heaps : \A b \in InHeap(m, h, p[h]) : After(m, b) <= p[h]
  <1> USE HeapFacts DEF Header, Footer
  <1>1. Shape(m, p) /\ \A h \in Heaps : Tiled(m, h, p[h])
    BY DEF Chained
  <1>2. \A b \in Blocks(m) : b \in Nat /\ m.size[b] \in Nat /\ After(m, b) \in Nat /\ After(m, b) >= b + 3
    BY <1>1 DEF Shape, After
  <1>3. \A h \in Heaps : p[h] \in Nat /\ HeapBase[h] <= p[h] /\ p[h] <= HeapLimit[h]
    BY <1>1 DEF Shape
  <1>4. ASSUME NEW h \in Heaps, NEW b \in InHeap(m, h, p[h])
        PROVE  After(m, b) <= p[h] /\ b \in Blocks(m) /\ HeapBase[h] <= b /\ b < p[h]
    <2>1. b \in Blocks(m) /\ HeapBase[h] <= b /\ b < p[h]
      BY DEF InHeap
    <2>2. After(m, b) \in InHeap(m, h, p[h]) \cup {p[h]}
      BY <1>1 DEF Tiled
    <2>3. CASE After(m, b) = p[h]
      BY <1>2, <1>3, <2>1, <2>3
    <2>4. CASE After(m, b) \in InHeap(m, h, p[h])
      BY <1>2, <1>3, <2>1, <2>4 DEF InHeap
    <2> QED
      BY <2>1, <2>2, <2>3, <2>4
  <1>5. ASSUME NEW g \in Heaps, NEW h \in Heaps, NEW b \in Blocks(m),
               b \in InHeap(m, g, p[g]), b \in InHeap(m, h, p[h])
        PROVE  g = h
    BY <1>2, <1>3, <1>5 DEF InHeap
  <1>6. ASSUME NEW b \in Blocks(m), NEW d \in Blocks(m), b < d
        PROVE  After(m, b) <= d
    <2>1. PICK g \in Heaps, h \in Heaps : b \in InHeap(m, g, p[g]) /\ d \in InHeap(m, h, p[h])
      BY DEF Chained
    <2>2. CASE g = h
      BY <1>1, <1>6, <2>1, <2>2 DEF Tiled
    <2>3. CASE g # h
      <3>1. g = 1 /\ h = 0
        BY <1>2, <1>3, <1>4, <1>6, <2>1, <2>3
      <3> QED
        BY <1>2, <1>3, <1>4, <2>1, <3>1
    <2> QED
      BY <2>2, <2>3
  <1> QED
    BY <1>2, <1>4, <1>5, <1>6

-----------------------------------------------------------------------------
\* Merging block l with its right neighbour r.
LEMMA MergeLemma ==
    ASSUME NEW m, NEW p, Chained(m, p), NEW g \in Heaps,
           NEW l \in InHeap(m, g, p[g]), NEW r \in InHeap(m, g, p[g]), After(m, l) = r,
           r \notin m.used
    PROVE  LET n == Merge(m, l, r)
           IN  /\ Chained(n, p)
               /\ Blocks(n) = Blocks(m) \ {r}
               /\ n.used = m.used
               /\ n.user = m.user
               /\ n = [size |-> n.size, used |-> n.used, user |-> n.user, foot |-> n.foot]
               /\ \A b \in Blocks(n) : n.size[b] >= m.size[b]
               /\ \A b \in Blocks(n) \ {l} : n.size[b] = m.size[b]
               /\ After(n, l) = After(m, r)
  <1> USE HeapFacts DEF Header, Footer
  <1> DEFINE n == Merge(m, l, r)
             s == m.size[l] + Footer + Header + m.size[r]
             e == After(m, r) - Footer
  <1>1. /\ \A b \in Blocks(m) : b \in Nat /\ m.size[b] \in Nat /\ After(m, b) \in Nat /\ After(m, b) >= b + 3
        /\ \A b, d \in Blocks(m) : b < d => After(m, b) <= d
        /\ \A h \in Heaps : \A b \in InHeap(m, h, p[h]) : After(m, b) <= p[h]
        /\ \A i, h \in Heaps : \A b \in Blocks(m) :
                 b \in InHeap(m, i, p[i]) /\ b \in InHeap(m, h, p[h]) => i = h
    BY OrderLemma
  <1>2. /\ l \in Blocks(m) /\ r \in Blocks(m) /\ l # r /\ l < r
        /\ r = l + 3 + m.size[l]
        /\ HeapBase[g] <= l /\ r < p[g]
    BY <1>1 DEF InHeap, After
  <1>3. Shape(m, p) /\ \A h \in Heaps : Tiled(m, h, p[h])
    BY DEF Chained
  <1>4. /\ n.size = Forget(Write(m.size, l, s), r)
        /\ n.used = m.used
        /\ n.user = m.user
        /\ n.foot = Write(Forget(m.foot, r - Footer), l + Header + s, l)
        /\ n = [size |-> n.size, used |-> n.used, user |-> n.user, foot |-> n.foot]
    BY DEF Merge
  <1>5. Blocks(n) = Blocks(m) \ {r}
    BY <1>2, <1>4 DEF Blocks, Forget, Write
  <1>6. /\ n.size \in [Blocks(n) -> Nat]
        /\ n.size[l] = s /\ s \in Nat
        /\ \A b \in Blocks(n) \ {l} : n.size[b] = m.size[b]
    <2>1. s \in Nat
      BY <1>1, <1>2
    <2>2. n.size = [x \in Blocks(n) |-> IF x = l THEN s ELSE m.size[x]]
      BY <1>2, <1>4, <1>5 DEF Blocks, Forget, Write
    <2> QED
      BY <1>1, <1>2, <1>5, <2>1, <2>2
  <1>7. n.used \subseteq Blocks(n)
    BY <1>3, <1>4, <1>5 DEF Shape
  <1>8. /\ \A b \in Blocks(n) \ {l} : After(n, b) = After(m, b)
        /\ After(n, l) = After(m, r)
        /\ l + Header + s = e
    BY <1>1, <1>2, <1>6 DEF After
  <1>9. Feet(n) = (Feet(m) \ {r - Footer}) \cup {e}
    <2>1. \A b \in Blocks(m) : After(m, b) - Footer = r - Footer => b = l
      BY <1>1, <1>2
    <2>2. ASSUME NEW x \in Feet(n) PROVE x \in (Feet(m) \ {r - Footer}) \cup {e}
      <3>1. PICK b \in Blocks(n) : x = After(n, b) - Footer
        BY DEF Feet
      <3>2. CASE b = l
        BY <1>8, <3>1, <3>2
      <3>3. CASE b # l
        BY <1>5, <1>8, <2>1, <3>1, <3>3 DEF Feet
      <3> QED
        BY <3>2, <3>3
    <2>3. ASSUME NEW x \in Feet(m), x # r - Footer PROVE x \in Feet(n)
      <3>1. PICK b \in Blocks(m) : x = After(m, b) - Footer
        BY DEF Feet
      <3>2. b # l
        BY <1>2, <2>3, <3>1
      <3>3. CASE b = r
        BY <1>2, <1>5, <1>8, <3>1, <3>3 DEF Feet
      <3>4. CASE b # r
        BY <1>5, <1>8, <3>1, <3>2, <3>4 DEF Feet
      <3> QED
        BY <3>3, <3>4
    <2>4. e \in Feet(n)
      BY <1>2, <1>5, <1>8 DEF Feet
    <2> QED
      BY <2>2, <2>3, <2>4
  <1>10. /\ \A x \in Feet(n) \ {e} : n.foot[x] = m.foot[x] /\ x \in Feet(m)
         /\ n.foot[e] = l
         /\ DOMAIN n.foot = Feet(n)
    BY <1>3, <1>4, <1>8, <1>9 DEF Shape, Forget, Write
  <1>11. ASSUME NEW x \in Feet(n) PROVE n.foot[x] \in Blocks(n)
    <2>1. CASE x = e
      BY <1>2, <1>5, <1>10, <2>1
    <2>2. CASE x # e
      <3>1. n.foot[x] = m.foot[x] /\ x \in Feet(m)
        BY <1>10, <2>2
      <3>2. PICK b \in Blocks(n) : x = After(n, b) - Footer
        BY DEF Feet
      <3>3. b # l /\ x = After(m, b) - Footer /\ b \in Blocks(m) /\ b # r
        BY <1>5, <1>8, <2>2, <3>2
      <3>4. PICK h \in Heaps : b \in InHeap(m, h, p[h])
        BY <3>3 DEF Chained
      <3>5. m.foot[x] = b
        BY <1>3, <3>3, <3>4 DEF Tiled
      <3> QED
        BY <3>1, <3>2, <3>5
    <2> QED
      BY <2>1, <2>2
  <1>12. Shape(n, p)
    <2>1. n.foot \in [Feet(n) -> Blocks(n)]
      BY <1>4, <1>10, <1>11 DEF Write, Forget
    <2> QED
      BY <1>3, <1>5, <1>6, <1>7, <2>1 DEF Shape
  <1>13. \A h \in Heaps : InHeap(n, h, p[h]) = InHeap(m, h, p[h]) \ {r}
    BY <1>5 DEF InHeap
  <1>14. ASSUME NEW h \in Heaps PROVE Tiled(n, h, p[h])
    <2>1. Tiled(m, h, p[h])
      BY <1>3
    <2>2. HeapBase[h] < p[h] => HeapBase[h] \in Blocks(n)
      <3>1. SUFFICES ASSUME HeapBase[h] < p[h] PROVE HeapBase[h] # r
        BY <1>5, <2>1, <3>1 DEF Tiled
      <3>2. HeapBase[h] \in InHeap(m, h, p[h])
        BY <2>1, <3>1 DEF Tiled, InHeap
      <3>3. CASE h = g
        BY <1>1, <1>2, <3>3
      <3>4. CASE h # g
        BY <1>1, <1>2, <3>2, <3>4
      <3> QED
        BY <3>3, <3>4
    <2>3. ASSUME NEW b \in InHeap(n, h, p[h])
          PROVE  /\ After(n, b) \in InHeap(n, h, p[h]) \cup {p[h]}
                 /\ n.foot[After(n, b) - Footer] = b
                 /\ \A d \in InHeap(n, h, p[h]) : b < d => After(n, b) <= d
                 /\ b # HeapBase[h] => LET q == n.foot[b - Footer]
                                       IN  q \in InHeap(n, h, p[h]) /\ After(n, q) = b
      <3>1. b \in InHeap(m, h, p[h]) /\ b \in Blocks(m) /\ b # r /\ b \in Blocks(n)
        BY <1>5, <1>13 DEF InHeap
      <3>2. After(n, b) \in InHeap(n, h, p[h]) \cup {p[h]}
        <4>1. CASE b = l
          <5>1. g = h
            BY <1>1, <3>1, <4>1
          <5>2. After(m, r) \in InHeap(m, h, p[h]) \cup {p[h]}
            BY <2>1, <5>1 DEF Tiled
          <5>3. After(m, r) # r
            BY <1>1, <1>2
          <5> QED
            BY <1>8, <1>13, <4>1, <5>2, <5>3
        <4>2. CASE b # l
          <5>1. After(m, b) \in InHeap(m, h, p[h]) \cup {p[h]}
            BY <2>1, <3>1 DEF Tiled
          <5>2. After(m, b) # r
            BY <1>1, <1>2, <3>1, <4>2
          <5> QED
            BY <1>8, <1>13, <3>1, <4>2, <5>1, <5>2
        <4> QED
          BY <4>1, <4>2
      <3>3. n.foot[After(n, b) - Footer] = b
        <4>1. CASE b = l
          BY <1>8, <1>10, <4>1
        <4>2. CASE b # l
          <5>1. After(n, b) = After(m, b) /\ m.foot[After(m, b) - Footer] = b
            BY <1>8, <2>1, <3>1, <4>2 DEF Tiled
          <5>2. After(m, b) - Footer # e
            BY <1>1, <1>2, <3>1
          <5>3. After(n, b) - Footer \in Feet(n)
            BY <3>1 DEF Feet
          <5> QED
            BY <1>10, <5>1, <5>2, <5>3
        <4> QED
          BY <4>1, <4>2
      <3>4. ASSUME NEW d \in InHeap(n, h, p[h]), b < d PROVE After(n, b) <= d
        <4>1. d \in Blocks(m) /\ d # r
          BY <1>5 DEF InHeap
        <4>2. CASE b = l
          <5>1. r < d
            BY <1>1, <1>2, <3>4, <4>1, <4>2
          <5> QED
            BY <1>1, <1>2, <1>8, <4>1, <4>2, <5>1
        <4>3. CASE b # l
          BY <1>1, <1>8, <3>1, <3>4, <4>1, <4>3
        <4> QED
          BY <4>2, <4>3
      <3>5. ASSUME b # HeapBase[h]
            PROVE  n.foot[b - Footer] \in InHeap(n, h, p[h]) /\ After(n, n.foot[b - Footer]) = b
        <4> DEFINE q == m.foot[b - Footer]
        <4>1. q \in InHeap(m, h, p[h]) /\ After(m, q) = b
          BY <2>1, <3>1, <3>5 DEF Tiled
        <4>2. q \in Blocks(m)
          BY <4>1 DEF InHeap
        <4>3. CASE q = r
          BY <1>1, <1>2, <1>8, <1>10, <1>13, <3>1, <4>1, <4>3
        <4>4. CASE q # r
          <5>1. q # l
            BY <3>1, <4>1
          <5>2. After(n, q) = b /\ q \in InHeap(n, h, p[h])
            BY <1>5, <1>8, <1>13, <4>1, <4>2, <4>4, <5>1
          <5>3. b - Footer \in Feet(n)
            BY <5>2 DEF Feet, InHeap
          <5>4. b - Footer # e
            BY <1>1, <1>2, <4>1, <4>2, <4>4
          <5> QED
            BY <1>10, <5>2, <5>3, <5>4
        <4> QED
          BY <4>3, <4>4
      <3> QED
        BY <3>2, <3>3, <3>4, <3>5
    <2>4. ASSUME HeapBase[h] < p[h]
          PROVE  LET t == n.foot[p[h] - Footer] IN t \in InHeap(n, h, p[h]) /\ After(n, t) = p[h]
      <3> DEFINE t == m.foot[p[h] - Footer]
      <3>1. t \in InHeap(m, h, p[h]) /\ After(m, t) = p[h] /\ p[h] \in Nat
        BY <1>3, <2>1, <2>4 DEF Tiled, Shape
      <3>2. t \in Blocks(m) /\ p[h] - Footer \in Feet(m)
        BY <3>1 DEF InHeap, Feet
      <3>3. CASE t = r
        <4>1. g = h
          BY <1>1, <1>2, <3>1, <3>2, <3>3
        <4>2. n.foot[p[h] - Footer] = l
          BY <1>10, <3>1, <3>3
        <4>3. l \in InHeap(n, h, p[h]) /\ After(n, l) = p[h]
          BY <1>2, <1>8, <1>13, <3>1, <3>3, <4>1
        <4> QED
          BY <4>2, <4>3
      <3>4. CASE t # r
        <4>1. t # l
          <5>1. ASSUME t = l PROVE g = h /\ p[h] = r
            BY <1>1, <1>2, <3>1, <5>1
          <5> QED
            BY <1>2, <3>1, <5>1
        <4>2. After(n, t) = p[h] /\ t \in InHeap(n, h, p[h])
          BY <1>5, <1>8, <1>13, <3>1, <3>2, <3>4, <4>1
        <4>3. p[h] - Footer # e
          BY <1>1, <1>2, <3>1, <3>2, <3>4
        <4>4. p[h] - Footer \in Feet(n)
          BY <4>2 DEF Feet, InHeap
        <4>5. n.foot[p[h] - Footer] = t
          BY <1>10, <4>3, <4>4
        <4> QED
          BY <4>2, <4>5
      <3> QED
        BY <3>3, <3>4
    <2> QED
      BY <2>2, <2>3, <2>4 DEF Tiled
  <1>15. \A b \in Blocks(n) : \E h \in Heaps : b \in InHeap(n, h, p[h])
    BY <1>5, <1>13 DEF Chained
  <1>16. \A b \in Blocks(n) : n.size[b] >= m.size[b]
    BY <1>1, <1>2, <1>5, <1>6
  <1> QED
    BY <1>4, <1>5, <1>6, <1>8, <1>12, <1>14, <1>15, <1>16 DEF Chained

-----------------------------------------------------------------------------
\* Splitting block b after a words.
LEMMA SplitLemma ==
    ASSUME NEW m, NEW p, Chained(m, p), NEW g \in Heaps,
           NEW b \in InHeap(m, g, p[g]), NEW a \in Nat, m.size[b] - a >= MinSplit
    PROVE  LET n   == Split(m, b, a)
               new == b + Header + a + Footer
           IN  /\ Chained(n, p)
               /\ new \notin Blocks(m)
               /\ Blocks(n) = Blocks(m) \cup {new}
               /\ n.used = m.used
               /\ n.user = m.user
               /\ n = [size |-> n.size, used |-> n.used, user |-> n.user, foot |-> n.foot]
               /\ \A d \in Blocks(m) \ {b} : n.size[d] = m.size[d]
               /\ n.size[b] = a
               /\ new \in InHeap(n, g, p[g])
  <1> USE HeapFacts DEF Header, Footer, MinSplit
  <1> DEFINE n   == Split(m, b, a)
             new == b + Header + a + Footer
             s   == m.size[b] - a - Header - Footer
             e   == After(m, b) - Footer
  <1>1. /\ \A d \in Blocks(m) : d \in Nat /\ m.size[d] \in Nat /\ After(m, d) \in Nat /\ After(m, d) >= d + 3
        /\ \A d, f \in Blocks(m) : d < f => After(m, d) <= f
        /\ \A h \in Heaps : \A d \in InHeap(m, h, p[h]) : After(m, d) <= p[h]
        /\ \A i, h \in Heaps : \A d \in Blocks(m) :
                 d \in InHeap(m, i, p[i]) /\ d \in InHeap(m, h, p[h]) => i = h
    BY OrderLemma
  <1>2. b \in Blocks(m) /\ HeapBase[g] <= b /\ b < p[g] /\ p[g] \in Nat
    BY DEF InHeap, Chained, Shape
  <1>3. Shape(m, p) /\ \A h \in Heaps : Tiled(m, h, p[h])
    BY DEF Chained
  <1>4. /\ n.size = Write(Write(m.size, new, s), b, a)
        /\ n.used = m.used
        /\ n.user = m.user
        /\ n.foot = Write(Write(m.foot, new - Footer, b), b + Header + m.size[b], new)
        /\ n = [size |-> n.size, used |-> n.used, user |-> n.user, foot |-> n.foot]
    BY DEF Split
  <1>5. /\ new \in Nat /\ s \in Nat /\ s >= 2 /\ b < new
        /\ new + Header + s + Footer = After(m, b)
        /\ e = b + Header + m.size[b]
        /\ new + 3 <= After(m, b) /\ new < p[g]
    BY <1>1, <1>2 DEF After
  <1>6. new \notin Blocks(m)
    <2>1. SUFFICES ASSUME new \in Blocks(m) PROVE FALSE
      OBVIOUS
    <2> QED
      BY <1>1, <1>2, <1>5, <2>1
  <1>7. Blocks(n) = Blocks(m) \cup {new}
    BY <1>2, <1>4 DEF Blocks, Write
  <1>8. /\ n.size \in [Blocks(n) -> Nat]
        /\ n.size[b] = a /\ n.size[new] = s
        /\ \A d \in Blocks(m) \ {b} : n.size[d] = m.size[d]
    <2>1. n.size = [x \in Blocks(n) |-> IF x = b THEN a ELSE IF x = new THEN s ELSE m.size[x]]
      BY <1>2, <1>4, <1>7 DEF Blocks, Write
    <2> HIDE DEF n, new, s
    <2> QED
      BY <1>1, <1>2, <1>5, <1>6, <1>7, <2>1
  <1>9. n.used \subseteq Blocks(n)
    BY <1>3, <1>4, <1>7 DEF Shape
  <1>10. /\ \A d \in Blocks(m) \ {b} : After(n, d) = After(m, d)
         /\ After(n, b) = new
         /\ After(n, new) = After(m, b)
    BY <1>5, <1>8 DEF After
  <1> DEFINE x0 == new - Footer
  <1>11. x0 # e /\ x0 \notin Feet(m)
    <2>1. x0 # e
      BY <1>1, <1>2, <1>5
    <2>2. ASSUME NEW d \in Blocks(m), x0 = After(m, d) - Footer PROVE FALSE
      <3>1. After(m, d) = new
        BY <1>1, <1>5, <2>2
      <3>2. d # b /\ b < After(m, d) /\ After(m, d) < After(m, b)
        BY <1>1, <1>2, <1>5, <3>1
      <3>3. CASE b < d
        BY <1>1, <1>2, <3>2, <3>3
      <3>4. CASE d < b
        BY <1>1, <1>2, <3>2, <3>4
      <3> QED
        BY <1>1, <1>2, <3>2, <3>3, <3>4
    <2> QED
      BY <2>1, <2>2 DEF Feet
  <1> HIDE DEF x0
  <1>12. Feet(n) = Feet(m) \cup {x0} /\ e \in Feet(m)
    <2>1. e \in Feet(m)
      BY <1>2 DEF Feet
    <2>2. ASSUME NEW x \in Feet(n) PROVE x \in Feet(m) \cup {x0}
      <3>1. PICK d \in Blocks(n) : x = After(n, d) - Footer
        BY DEF Feet
      <3>2. CASE d = b
        BY <1>10, <3>1, <3>2 DEF x0
      <3>3. CASE d = new
        BY <1>10, <2>1, <3>1, <3>3
      <3>4. CASE d \in Blocks(m) \ {b}
        BY <1>10, <3>1, <3>4 DEF Feet
      <3> QED
        BY <1>7, <3>2, <3>3, <3>4
    <2>3. x0 \in Feet(n)
      BY <1>2, <1>7, <1>10 DEF Feet, x0
    <2>4. ASSUME NEW x \in Feet(m) PROVE x \in Feet(n)
      <3>1. PICK d \in Blocks(m) : x = After(m, d) - Footer
        BY DEF Feet
      <3>2. CASE d = b
        BY <1>7, <1>10, <3>1, <3>2 DEF Feet
      <3>3. CASE d # b
        BY <1>7, <1>10, <3>1, <3>3 DEF Feet
      <3> QED
        BY <3>2, <3>3
    <2> QED
      BY <2>1, <2>2, <2>3, <2>4
  <1>13. /\ \A x \in Feet(m) \ {e} : n.foot[x] = m.foot[x]
         /\ n.foot[e] = new /\ n.foot[x0] = b
         /\ DOMAIN n.foot = Feet(n)
    <2>1. DOMAIN m.foot = Feet(m)
      BY <1>3 DEF Shape
    <2>2. n.foot = [x \in Feet(n) |-> IF x = e THEN new ELSE IF x = x0 THEN b ELSE m.foot[x]]
      <3>1. n.foot = Write(Write(m.foot, x0, b), e, new)
        BY <1>4, <1>5 DEF x0
      <3> QED
        BY <1>12, <2>1, <3>1 DEF Write
    <2> HIDE DEF n, new, e
    <2> QED
      BY <1>11, <1>12, <2>2
  <1>14. ASSUME NEW x \in Feet(n) PROVE n.foot[x] \in Blocks(n)
    <2>1. CASE x = e
      BY <1>7, <1>13, <2>1
    <2>2. CASE x = x0
      BY <1>2, <1>7, <1>13, <2>2
    <2>3. CASE x \in Feet(m) \ {e}
      BY <1>3, <1>7, <1>13, <2>3 DEF Shape
    <2> QED
      BY <1>12, <2>1, <2>2, <2>3
  <1>15. Shape(n, p)
    <2>1. n.foot \in [Feet(n) -> Blocks(n)]
      BY <1>4, <1>13, <1>14 DEF Write
    <2> QED
      BY <1>3, <1>5, <1>7, <1>8, <1>9, <2>1 DEF Shape
  <1>16. /\ \A h \in Heaps \ {g} : InHeap(n, h, p[h]) = InHeap(m, h, p[h])
         /\ InHeap(n, g, p[g]) = InHeap(m, g, p[g]) \cup {new}
    <2>1. HeapBase[g] <= new /\ new < p[g]
      BY <1>1, <1>2, <1>5
    <2>2. ASSUME NEW h \in Heaps, h # g PROVE ~ (HeapBase[h] <= new /\ new < p[h])
      BY <1>2, <1>3, <1>5, <2>1, <2>2 DEF Shape
    <2> QED
      BY <1>7, <2>1, <2>2 DEF InHeap
  <1> HIDE DEF n, new, s, e
  <1>17. ASSUME NEW h \in Heaps PROVE Tiled(n, h, p[h])
    <2>1. Tiled(m, h, p[h])
      BY <1>3
    <2>2. HeapBase[h] < p[h] => HeapBase[h] \in Blocks(n)
      BY <1>7, <2>1 DEF Tiled
    <2>3. ASSUME NEW d \in InHeap(n, h, p[h])
          PROVE  /\ After(n, d) \in InHeap(n, h, p[h]) \cup {p[h]}
                 /\ n.foot[After(n, d) - Footer] = d
                 /\ \A f \in InHeap(n, h, p[h]) : d < f => After(n, d) <= f
                 /\ d # HeapBase[h] => LET q == n.foot[d - Footer]
                                       IN  q \in InHeap(n, h, p[h]) /\ After(n, q) = d
      <3>1. CASE d = b
        <4>1. h = g
          BY <1>1, <1>2, <1>16, <2>3, <3>1
        <4>2. After(n, d) \in InHeap(n, h, p[h]) \cup {p[h]}
          BY <1>10, <1>16, <3>1, <4>1
        <4>3. n.foot[After(n, d) - Footer] = d
          BY <1>10, <1>13, <3>1 DEF x0
        <4>4. ASSUME NEW f \in InHeap(n, h, p[h]), d < f PROVE After(n, d) <= f
          <5>1. f = new \/ f \in Blocks(m)
            BY <1>7 DEF InHeap
          <5> QED
            BY <1>1, <1>2, <1>5, <1>10, <3>1, <4>4, <5>1
        <4>5. ASSUME d # HeapBase[h]
              PROVE  n.foot[d - Footer] \in InHeap(n, h, p[h]) /\ After(n, n.foot[d - Footer]) = d
          <5>1. m.foot[d - Footer] \in InHeap(m, h, p[h]) /\ After(m, m.foot[d - Footer]) = d
            BY <2>1, <3>1, <4>1, <4>5 DEF Tiled
          <5>2. m.foot[d - Footer] \in Blocks(m) /\ m.foot[d - Footer] # b
            BY <1>1, <1>2, <3>1, <5>1 DEF InHeap
          <5>3. d - Footer \in Feet(m) /\ d - Footer # e
            BY <1>1, <1>2, <3>1, <5>1, <5>2 DEF Feet, e
          <5> QED
            BY <1>10, <1>13, <1>16, <4>1, <5>1, <5>2, <5>3
        <4> QED
          BY <4>2, <4>3, <4>4, <4>5
      <3>2. CASE d = new
        <4>1. h = g
          BY <1>6, <1>16, <2>3, <3>2 DEF InHeap
        <4>2. After(m, b) \in InHeap(m, g, p[g]) \cup {p[g]}
          BY <2>1, <4>1 DEF Tiled
        <4>3. After(n, d) \in InHeap(n, h, p[h]) \cup {p[h]}
          BY <1>10, <1>16, <3>2, <4>1, <4>2
        <4>4. n.foot[After(n, d) - Footer] = d
          BY <1>10, <1>13, <3>2 DEF e
        <4>5. ASSUME NEW f \in InHeap(n, h, p[h]), d < f PROVE After(n, d) <= f
          <5>1. f \in Blocks(m) /\ b < f
            <6>1. f = new \/ f \in Blocks(m)
              BY <1>7 DEF InHeap
            <6>2. f # new
              BY <1>5, <3>2, <4>5
            <6>3. f \in Blocks(m)
              BY <6>1, <6>2
            <6>4. f \in Nat /\ b \in Nat
              BY <1>1, <1>2, <6>3
            <6>5. b < f
              BY <1>5, <3>2, <4>5, <6>4
            <6> QED
              BY <6>3, <6>5
          <5> QED
            BY <1>1, <1>2, <1>10, <3>2, <5>1
        <4>6. n.foot[d - Footer] \in InHeap(n, h, p[h]) /\ After(n, n.foot[d - Footer]) = d
          BY <1>10, <1>13, <1>16, <3>2, <4>1 DEF x0
        <4> QED
          BY <4>3, <4>4, <4>5, <4>6
      <3>3. CASE d # b /\ d # new
        <4>1. d \in InHeap(m, h, p[h]) /\ d \in Blocks(m) /\ After(n, d) = After(m, d)
          BY <1>10, <1>16, <3>3 DEF InHeap
        <4>2. After(n, d) \in InHeap(n, h, p[h]) \cup {p[h]}
          <5>1. After(m, d) \in InHeap(m, h, p[h]) \cup {p[h]}
            BY <2>1, <4>1 DEF Tiled
          <5> QED
            BY <1>16, <4>1, <5>1
        <4>3. n.foot[After(n, d) - Footer] = d
          <5>1. m.foot[After(m, d) - Footer] = d
            BY <2>1, <4>1 DEF Tiled
          <5>2. After(m, d) - Footer # e
            BY <1>1, <1>2, <3>3, <4>1 DEF e
          <5>3. After(m, d) - Footer \in Feet(m)
            BY <4>1 DEF Feet
          <5> QED
            BY <1>13, <4>1, <5>1, <5>2, <5>3
        <4>4. ASSUME NEW f \in InHeap(n, h, p[h]), d < f PROVE After(n, d) <= f
          <5>1. CASE f = new
            <6>1. d < b
              <7>1. ASSUME b < d PROVE FALSE
                BY <1>1, <1>2, <1>5, <4>1, <4>4, <5>1, <7>1
              <7> QED
                BY <1>1, <1>2, <3>3, <4>1, <7>1
            <6> QED
              BY <1>1, <1>2, <1>5, <4>1, <5>1, <6>1
          <5>2. CASE f \in Blocks(m)
            BY <1>1, <4>1, <4>4, <5>2
          <5> QED
            BY <1>7, <5>1, <5>2 DEF InHeap
        <4>5. ASSUME d # HeapBase[h]
              PROVE  n.foot[d - Footer] \in InHeap(n, h, p[h]) /\ After(n, n.foot[d - Footer]) = d
          <5> DEFINE q == m.foot[d - Footer]
          <5>1. q \in InHeap(m, h, p[h]) /\ After(m, q) = d
            BY <2>1, <4>1, <4>5 DEF Tiled
          <5>2. q \in Blocks(m) /\ d - Footer \in Feet(m)
            BY <5>1 DEF InHeap, Feet
          <5>3. CASE q = b
            <6>1. h = g
              BY <1>1, <1>2, <5>1, <5>3
            <6>2. n.foot[d - Footer] = new
              BY <1>13, <5>1, <5>3 DEF e
            <6> QED
              BY <1>10, <1>16, <5>1, <5>3, <6>1, <6>2
          <5>4. CASE q # b
            <6>1. d - Footer # e
              BY <1>1, <1>2, <4>1, <5>1, <5>2, <5>4 DEF e
            <6>2. n.foot[d - Footer] = q
              BY <1>13, <5>2, <6>1
            <6> QED
              BY <1>10, <1>16, <5>1, <5>2, <5>4, <6>2
          <5> QED
            BY <5>3, <5>4
        <4> QED
          BY <4>2, <4>3, <4>4, <4>5
      <3> QED
        BY <3>1, <3>2, <3>3
    <2>4. ASSUME HeapBase[h] < p[h]
          PROVE  LET t == n.foot[p[h] - Footer] IN t \in InHeap(n, h, p[h]) /\ After(n, t) = p[h]
      <3> DEFINE t == m.foot[p[h] - Footer]
      <3>1. t \in InHeap(m, h, p[h]) /\ After(m, t) = p[h] /\ p[h] \in Nat
        BY <1>3, <2>1, <2>4 DEF Tiled, Shape
      <3>2. t \in Blocks(m) /\ p[h] - Footer \in Feet(m)
        BY <3>1 DEF InHeap, Feet
      <3>3. CASE t = b
        <4>1. g = h
          BY <1>1, <1>2, <3>1, <3>2, <3>3
        <4>2. n.foot[p[h] - Footer] = new
          BY <1>13, <3>1, <3>3 DEF e
        <4>3. new \in InHeap(n, h, p[h]) /\ After(n, new) = p[h]
          BY <1>10, <1>16, <3>1, <3>3, <4>1
        <4> QED
          BY <4>2, <4>3
      <3>4. CASE t # b
        <4>1. After(n, t) = p[h] /\ t \in InHeap(n, h, p[h])
          BY <1>10, <1>16, <3>1, <3>2, <3>4
        <4>2. p[h] - Footer # e
          BY <1>1, <1>2, <3>1, <3>2, <3>4 DEF e
        <4>3. n.foot[p[h] - Footer] = t
          BY <1>13, <3>2, <4>2
        <4> QED
          BY <4>1, <4>3
      <3> QED
        BY <3>3, <3>4
    <2> QED
      BY <2>2, <2>3, <2>4 DEF Tiled
  <1>18. \A d \in Blocks(n) : \E h \in Heaps : d \in InHeap(n, h, p[h])
    <2>1. \A d \in Blocks(m) : \E h \in Heaps : d \in InHeap(m, h, p[h])
      BY DEF Chained
    <2> QED
      BY <1>7, <1>16, <2>1
  <1>19. Chained(n, p)
    BY <1>15, <1>17, <1>18 DEF Chained
  <1> QED
    BY <1>4, <1>6, <1>7, <1>8, <1>16, <1>19 DEF n, new

-----------------------------------------------------------------------------
\* A change of flags leaves the chain as it is.
LEMMA FlagsLemma ==
    ASSUME NEW m, NEW n, NEW p, Chained(m, p),
           n.size = m.size, n.foot = m.foot, n.used \subseteq Blocks(m)
    PROVE  Chained(n, p) /\ Blocks(n) = Blocks(m)
  <1>1. Blocks(n) = Blocks(m)
    BY DEF Blocks
  <1>2. \A b : After(n, b) = After(m, b)
    BY DEF After
  <1>3. Feet(n) = Feet(m)
    BY <1>1, <1>2 DEF Feet
  <1>4. \A h, q : InHeap(n, h, q) = InHeap(m, h, q)
    BY <1>1 DEF InHeap
  <1>5. Shape(n, p)
    BY <1>1, <1>3 DEF Chained, Shape
  <1>6. ASSUME NEW h \in Heaps PROVE Tiled(n, h, p[h])
    <2>1. Tiled(m, h, p[h])
      BY DEF Chained
    <2> QED
      BY <1>1, <1>2, <1>4, <2>1 DEF Tiled
  <1> QED
    BY <1>1, <1>4, <1>5, <1>6 DEF Chained

\* A new block at the end of heap g.
LEMMA NewBlockLemma ==
    ASSUME NEW m, NEW p, Chained(m, p), NEW g \in Heaps, NEW a \in Nat,
           p[g] + Header + a + Footer <= HeapLimit[g]
    PROVE  LET b == p[g]
               k == Claim(m, b)
               n == NewBlock(k, b, a)
               q == [p EXCEPT ![g] = b + Header + a + Footer]
           IN  /\ Chained(n, q)
               /\ b \notin Blocks(m)
               /\ Blocks(n) = Blocks(m) \cup {b}
               /\ n.used = m.used \cup {b}
               /\ n.user = m.user \cup user_bit(b)
               /\ n = [size |-> n.size, used |-> n.used, user |-> n.user, foot |-> n.foot]
               /\ \A d \in Blocks(m) : n.size[d] = m.size[d]
               /\ n.size[b] = a
               /\ b \in InHeap(n, g, q[g])
               /\ \A h \in Heaps, d \in Blocks(m) : d \in InHeap(n, h, q[h]) <=> d \in InHeap(m, h, p[h])
  <1> USE HeapFacts DEF Header, Footer
  <1> DEFINE b == p[g]
             k == Claim(m, b)
             n == NewBlock(k, b, a)
             z == b + Header + a + Footer
             q == [p EXCEPT ![g] = z]
             e == z - Footer
  <1>1. /\ \A d \in Blocks(m) : d \in Nat /\ m.size[d] \in Nat /\ After(m, d) \in Nat /\ After(m, d) >= d + 3
        /\ \A d, f \in Blocks(m) : d < f => After(m, d) <= f
        /\ \A h \in Heaps : \A d \in InHeap(m, h, p[h]) : After(m, d) <= p[h]
        /\ \A i, h \in Heaps : \A d \in Blocks(m) :
                 d \in InHeap(m, i, p[i]) /\ d \in InHeap(m, h, p[h]) => i = h
    BY OrderLemma
  <1>2. Shape(m, p) /\ \A h \in Heaps : Tiled(m, h, p[h])
    BY DEF Chained
  <1>3. /\ p \in [Heaps -> Nat] /\ b \in Nat /\ z \in Nat /\ z > b /\ HeapBase[g] <= b /\ e \in Nat
        /\ \A h \in Heaps : HeapBase[h] <= p[h] /\ p[h] <= HeapLimit[h]
    BY <1>2 DEF Shape
  <1>4. /\ q \in [Heaps -> Nat] /\ q[g] = z
        /\ \A h \in Heaps : h # g => q[h] = p[h]
        /\ \A h \in Heaps : HeapBase[h] <= q[h] /\ q[h] <= HeapLimit[h]
    BY <1>3
  <1>5. /\ n.size = Write(m.size, b, a)
        /\ n.used = m.used \cup {b}
        /\ n.user = m.user \cup user_bit(b)
        /\ n.foot = Write(m.foot, e, b)
        /\ n = [size |-> n.size, used |-> n.used, user |-> n.user, foot |-> n.foot]
    <2>1. e = b + Header + a
      BY <1>3
    <2> QED
      BY <2>1 DEF NewBlock, Claim
  <1>6. ASSUME NEW d \in Blocks(m), NEW h \in Heaps, d \in InHeap(m, h, p[h])
        PROVE  /\ d # b
               /\ d < b => After(m, d) <= b
               /\ h = g => d < b
               /\ h # g => z <= d \/ After(m, d) <= b
    <2>1. HeapBase[h] <= d /\ d < p[h] /\ After(m, d) <= p[h]
      BY <1>1, <1>6 DEF InHeap
    <2>2. CASE h = g
      BY <1>1, <1>3, <2>1, <2>2
    <2>3. CASE h = 1 /\ g = 0
      BY <1>1, <1>3, <2>1, <2>3
    <2>4. CASE h = 0 /\ g = 1
      BY <1>1, <1>3, <2>1, <2>4
    <2> QED
      BY <2>2, <2>3, <2>4
  <1>7. b \notin Blocks(m)
    BY <1>6 DEF Chained
  <1>8. Blocks(n) = Blocks(m) \cup {b}
    BY <1>5 DEF Blocks, Write
  <1>9. /\ n.size \in [Blocks(n) -> Nat] /\ n.size[b] = a
        /\ \A d \in Blocks(m) : n.size[d] = m.size[d]
    <2>1. n.size = [x \in Blocks(n) |-> IF x = b THEN a ELSE m.size[x]]
      BY <1>5, <1>8 DEF Blocks, Write
    <2> HIDE DEF n, b
    <2> QED
      BY <1>1, <1>7, <1>8, <2>1
  <1>10. n.used \subseteq Blocks(n)
    BY <1>2, <1>5, <1>8 DEF Shape
  <1>11. /\ After(n, b) = z
         /\ \A d \in Blocks(m) : After(n, d) = After(m, d)
    BY <1>9 DEF After
  <1> HIDE DEF n, k, z, q, e
  <1>12. After(n, b) - Footer = e /\ e + Footer = z
    BY <1>3, <1>11 DEF e
  <1>13. e \notin Feet(m)
    <2>1. ASSUME NEW d \in Blocks(m), e = After(m, d) - Footer PROVE FALSE
      <3>1. After(m, d) = z
        BY <1>1, <1>3, <1>12, <2>1
      <3>2. PICK h \in Heaps : d \in InHeap(m, h, p[h])
        BY DEF Chained
      <3> QED
        BY <1>1, <1>3, <1>6, <3>1, <3>2
    <2> QED
      BY <2>1 DEF Feet
  <1>14. Feet(n) = Feet(m) \cup {e}
    <2>1. ASSUME NEW x \in Feet(n) PROVE x \in Feet(m) \cup {e}
      <3>1. PICK d \in Blocks(n) : x = After(n, d) - Footer
        BY DEF Feet
      <3>2. CASE d = b
        BY <1>12, <3>1, <3>2
      <3>3. CASE d \in Blocks(m)
        BY <1>11, <3>1, <3>3 DEF Feet
      <3> QED
        BY <1>8, <3>2, <3>3
    <2>2. e \in Feet(n)
      BY <1>8, <1>12 DEF Feet
    <2>3. ASSUME NEW x \in Feet(m) PROVE x \in Feet(n)
      BY <1>8, <1>11 DEF Feet
    <2> QED
      BY <2>1, <2>2, <2>3
  <1>15. /\ \A x \in Feet(m) : n.foot[x] = m.foot[x]
         /\ n.foot[e] = b
         /\ n.foot \in [Feet(n) -> Blocks(n)]
    <2>1. m.foot \in [Feet(m) -> Blocks(m)]
      BY <1>2 DEF Shape
    <2>2. n.foot = [x \in Feet(n) |-> IF x = e THEN b ELSE m.foot[x]]
      BY <1>5, <1>14, <2>1 DEF Write
    <2> QED
      BY <1>8, <1>13, <1>14, <2>1, <2>2
  <1>16. Shape(n, q)
    <2>1. Blocks(n) \subseteq Nat
      BY <1>1, <1>3, <1>8
    <2> QED
      BY <1>4, <1>9, <1>10, <1>15, <2>1 DEF Shape
  <1>17. /\ \A h \in Heaps : h # g => InHeap(n, h, q[h]) = InHeap(m, h, p[h])
         /\ InHeap(n, g, q[g]) = InHeap(m, g, p[g]) \cup {b}
    <2>1. ASSUME NEW h \in Heaps, h # g PROVE ~ (HeapBase[h] <= b /\ b < p[h])
      <3>1. CASE h = 1 /\ g = 0
        BY <1>3, <3>1
      <3>2. CASE h = 0 /\ g = 1
        BY <1>3, <1>4, <3>2 DEF z
      <3> QED
        BY <2>1, <3>1, <3>2
    <2>2. ASSUME NEW d \in Blocks(m), HeapBase[g] <= d, d < z PROVE d \in InHeap(m, g, p[g])
      <3>1. PICK h \in Heaps : d \in InHeap(m, h, p[h])
        BY DEF Chained
      <3>2. HeapBase[h] <= d /\ d < p[h]
        BY <3>1 DEF InHeap
      <3>3. CASE h = g
        BY <3>1, <3>3
      <3>4. CASE h # g
        BY <1>1, <1>3, <1>4, <2>2, <3>2, <3>4
      <3> QED
        BY <3>3, <3>4
    <2>3. InHeap(n, g, q[g]) = InHeap(m, g, p[g]) \cup {b}
      <3>1. \A d \in InHeap(m, g, p[g]) : d < z
        BY <1>1, <1>3 DEF InHeap
      <3> QED
        BY <1>3, <1>4, <1>8, <2>2, <3>1 DEF InHeap
    <2>4. ASSUME NEW h \in Heaps, h # g PROVE InHeap(n, h, q[h]) = InHeap(m, h, p[h])
      BY <1>4, <1>8, <2>1, <2>4 DEF InHeap
    <2> QED
      BY <2>3, <2>4
  <1>18. ASSUME NEW h \in Heaps PROVE Tiled(n, h, q[h])
    <2>1. Tiled(m, h, p[h])
      BY <1>2
    <2>2. HeapBase[h] < q[h] => HeapBase[h] \in Blocks(n)
      <3>1. CASE h = g /\ HeapBase[g] = b
        BY <1>8, <3>1
      <3>2. CASE h = g /\ HeapBase[g] # b
        BY <1>3, <1>8, <2>1, <3>2 DEF Tiled
      <3>3. CASE h # g
        BY <1>4, <1>8, <2>1, <3>3 DEF Tiled
      <3> QED
        BY <3>1, <3>2, <3>3
    <2>3. ASSUME NEW d \in InHeap(n, h, q[h])
          PROVE  /\ After(n, d) \in InHeap(n, h, q[h]) \cup {q[h]}
                 /\ n.foot[After(n, d) - Footer] = d
                 /\ \A f \in InHeap(n, h, q[h]) : d < f => After(n, d) <= f
                 /\ d # HeapBase[h] => LET l == n.foot[d - Footer]
                                       IN  l \in InHeap(n, h, q[h]) /\ After(n, l) = d
      <3>1. CASE d = b
        <4>1. h = g
          BY <1>7, <1>17, <2>3, <3>1 DEF InHeap
        <4>2. \A f \in InHeap(n, h, q[h]) : ~ (d < f)
          <5>1. \A f \in InHeap(m, g, p[g]) : f < b
            BY DEF InHeap
          <5> QED
            BY <1>1, <1>3, <1>17, <3>1, <4>1, <5>1 DEF InHeap
        <4>3. After(n, d) = q[h] /\ n.foot[After(n, d) - Footer] = d
          BY <1>4, <1>11, <1>12, <1>15, <3>1, <4>1
        <4>4. ASSUME d # HeapBase[h]
              PROVE  n.foot[d - Footer] \in InHeap(n, h, q[h]) /\ After(n, n.foot[d - Footer]) = d
          <5>1. HeapBase[g] \in Blocks(m) /\ HeapBase[g] < p[g]
            BY <1>3, <2>1, <3>1, <4>1, <4>4 DEF Tiled
          <5> DEFINE f == m.foot[b - Footer]
          <5>2. f \in InHeap(m, g, p[g]) /\ After(m, f) = b
            BY <2>1, <4>1, <5>1 DEF Tiled
          <5>3. b - Footer \in Feet(m)
            BY <5>2 DEF Feet, InHeap
          <5> QED
            BY <1>11, <1>15, <1>17, <3>1, <4>1, <5>2, <5>3 DEF InHeap
        <4> QED
          BY <4>2, <4>3, <4>4
      <3>2. CASE d # b
        <4>1. d \in InHeap(m, h, p[h]) /\ d \in Blocks(m) /\ After(n, d) = After(m, d)
          BY <1>11, <1>17, <2>3, <3>2 DEF InHeap
        <4>2. After(n, d) \in InHeap(n, h, q[h]) \cup {q[h]}
          <5>1. After(m, d) \in InHeap(m, h, p[h]) \cup {p[h]}
            BY <2>1, <4>1 DEF Tiled
          <5> QED
            BY <1>4, <1>17, <4>1, <5>1
        <4>3. n.foot[After(n, d) - Footer] = d
          <5>1. m.foot[After(m, d) - Footer] = d /\ After(m, d) - Footer \in Feet(m)
            BY <2>1, <4>1 DEF Tiled, Feet
          <5> QED
            BY <1>15, <4>1, <5>1
        <4>4. ASSUME NEW f \in InHeap(n, h, q[h]), d < f PROVE After(n, d) <= f
          <5>1. CASE f = b
            BY <1>6, <4>1, <4>4, <5>1
          <5>2. CASE f \in Blocks(m)
            BY <1>1, <4>1, <4>4, <5>2
          <5> QED
            BY <1>8, <5>1, <5>2 DEF InHeap
        <4>5. ASSUME d # HeapBase[h]
              PROVE  n.foot[d - Footer] \in InHeap(n, h, q[h]) /\ After(n, n.foot[d - Footer]) = d
          <5> DEFINE l == m.foot[d - Footer]
          <5>1. l \in InHeap(m, h, p[h]) /\ After(m, l) = d
            BY <2>1, <4>1, <4>5 DEF Tiled
          <5>2. l \in Blocks(m) /\ d - Footer \in Feet(m)
            BY <5>1 DEF InHeap, Feet
          <5> QED
            BY <1>11, <1>15, <1>17, <5>1, <5>2
        <4> QED
          BY <4>2, <4>3, <4>4, <4>5
      <3> QED
        BY <3>1, <3>2
    <2>4. ASSUME HeapBase[h] < q[h]
          PROVE  LET t == n.foot[q[h] - Footer] IN t \in InHeap(n, h, q[h]) /\ After(n, t) = q[h]
      <3>1. CASE h = g
        <4>1. n.foot[q[h] - Footer] = b
          BY <1>3, <1>4, <1>12, <1>15, <3>1 DEF e
        <4>2. b \in InHeap(n, h, q[h]) /\ After(n, b) = q[h]
          BY <1>4, <1>11, <1>17, <3>1
        <4> QED
          BY <4>1, <4>2
      <3>2. CASE h # g
        <4> DEFINE t == m.foot[p[h] - Footer]
        <4>1. t \in InHeap(m, h, p[h]) /\ After(m, t) = p[h] /\ q[h] = p[h]
          BY <1>4, <2>1, <2>4, <3>2 DEF Tiled
        <4>2. t \in Blocks(m) /\ p[h] - Footer \in Feet(m)
          BY <4>1 DEF InHeap, Feet
        <4> QED
          BY <1>11, <1>15, <1>17, <3>2, <4>1, <4>2
      <3> QED
        BY <3>1, <3>2
    <2> QED
      BY <2>2, <2>3, <2>4 DEF Tiled
  <1>19. \A d \in Blocks(n) : \E h \in Heaps : d \in InHeap(n, h, q[h])
    <2>1. \A d \in Blocks(m) : \E h \in Heaps : d \in InHeap(m, h, p[h])
      BY DEF Chained
    <2> QED
      BY <1>8, <1>17, <2>1
  <1>20. \A h \in Heaps, d \in Blocks(m) : d \in InHeap(n, h, q[h]) <=> d \in InHeap(m, h, p[h])
    BY <1>7, <1>17
  <1> QED
    BY <1>5, <1>7, <1>8, <1>9, <1>16, <1>17, <1>18, <1>19, <1>20 DEF Chained, n, k, z, q

-----------------------------------------------------------------------------
(* The inductive invariant.                                                *)

\* A block in use says which heap it is in.
FlagsTellHeap == \A h \in Heaps : \A b \in InHeap(mem, h, heap_ptr[h]) :
                    b \in mem.used => HeapOf(mem, b) = h

\* What is known of the blocks in use.
Owned ==
    /\ mem = [size |-> mem.size, used |-> mem.used, user |-> mem.user, foot |-> mem.foot]
    /\ mem.user \subseteq mem.used
    /\ wanted \in [mem.used -> Sizes]
    /\ FlagsTellHeap
    /\ OwnersHaveRoom

\* The walk stands at a block, or at the end, and has passed none that fits.
CallInv ==
    /\ pc \in {"idle", "walk"} /\ heap_idx \in Heaps
    /\ a_size \in Nat /\ want \in Sizes \cup {0} /\ c \in Addr
    /\ pc = "walk" =>
          /\ want \in Sizes /\ a_size = Words(want)
          /\ c \in InHeap(mem, heap_idx, heap_ptr[heap_idx]) \cup {heap_ptr[heap_idx]}
          /\ \A b \in InHeap(mem, heap_idx, heap_ptr[heap_idx]) : b < c => ~ Fits(b)

IInv == Chained(mem, heap_ptr) /\ Owned /\ CallInv

LEMMA WriteLemma ==
    ASSUME NEW S, NEW T, NEW f \in [S -> T], NEW a, NEW v \in T
    PROVE  /\ Write(f, a, v) \in [S \cup {a} -> T] /\ Write(f, a, v)[a] = v
           /\ \A x \in S \ {a} : Write(f, a, v)[x] = f[x]
           /\ Forget(f, a) \in [S \ {a} -> T]
           /\ \A x \in S \ {a} : Forget(f, a)[x] = f[x]
  BY DEF Write, Forget

\* Words rounds up.
LEMMA WordsLemma == \A s \in Nat : Words(s) \in Nat /\ s <= 4 * Words(s)
  BY DEF Words

-----------------------------------------------------------------------------
\* A claimed block, whole or split, is all that a Take changes.
LEMMA TakeLemma ==
    ASSUME IInv, Take
    PROVE  /\ Chained(mem', heap_ptr)
           /\ mem' = [size |-> mem'.size, used |-> mem'.used, user |-> mem'.user, foot |-> mem'.foot]
           /\ c \in Blocks(mem) /\ c \in InHeap(mem, heap_idx, heap_ptr[heap_idx])
           /\ c \notin mem.used
           /\ mem'.used = mem.used \cup {c}
           /\ Blocks(mem) \subseteq Blocks(mem')
           /\ mem'.user = mem.user \cup user_bit(c)
           /\ \A b \in mem.used : mem'.size[b] = mem.size[b]
           /\ mem'.size[c] \in Nat /\ mem'.size[c] >= a_size
           /\ mem'.size[c] <= mem.size[c]
  <1> DEFINE k == Claim(mem, c)
  <1>1. /\ heap_idx \in Heaps /\ a_size \in Nat
        /\ c \in InHeap(mem, heap_idx, heap_ptr[heap_idx]) \cup {heap_ptr[heap_idx]}
    BY DEF IInv, CallInv, Take
  <1>2. Chained(mem, heap_ptr) /\ Shape(mem, heap_ptr)
    BY DEF IInv, Chained
  <1>3. c < heap_ptr[heap_idx] /\ Fits(c) /\ heap_ptr \in [Heaps -> Nat]
    BY <1>2 DEF Take, Shape
  <1>4. c \in InHeap(mem, heap_idx, heap_ptr[heap_idx]) /\ c \in Blocks(mem)
    BY <1>1, <1>3 DEF InHeap
  <1>5. c \notin mem.used /\ mem.size[c] >= a_size /\ mem.size[c] \in Nat
    BY <1>2, <1>3, <1>4 DEF Fits, Shape
  <1>6. /\ k.size = mem.size /\ k.foot = mem.foot
        /\ k.used = mem.used \cup {c} /\ k.user = mem.user \cup user_bit(c)
        /\ k = [size |-> k.size, used |-> k.used, user |-> k.user, foot |-> k.foot]
    BY DEF Claim
  <1> HIDE DEF k
  <1>8. mem.used \subseteq Blocks(mem) /\ k.used \subseteq Blocks(mem)
    BY <1>2, <1>4, <1>6 DEF Shape
  <1>9. Chained(k, heap_ptr) /\ Blocks(k) = Blocks(mem)
    BY <1>2, <1>6, <1>8, FlagsLemma
  <1>11. InHeap(k, heap_idx, heap_ptr[heap_idx]) = InHeap(mem, heap_idx, heap_ptr[heap_idx])
    BY <1>9 DEF InHeap
  <1>12. CASE ~ Splittable(c)
    <2>1. mem' = k
      BY <1>12 DEF Take, k
    <2> QED
      BY <1>4, <1>5, <1>6, <1>9, <2>1
  <1>13. CASE Splittable(c)
    <2>1. mem' = Split(k, c, a_size)
      BY <1>13 DEF Take, k
    <2>2. k.size[c] - a_size >= MinSplit
      BY <1>6, <1>13 DEF Splittable
    <2> DEFINE new == c + Header + a_size + Footer
    <2>3. /\ Chained(mem', heap_ptr)
          /\ new \notin Blocks(k)
          /\ Blocks(mem') = Blocks(k) \cup {new}
          /\ mem'.used = k.used
          /\ mem'.user = k.user
          /\ mem' = [size |-> mem'.size, used |-> mem'.used, user |-> mem'.user, foot |-> mem'.foot]
          /\ \A d \in Blocks(k) \ {c} : mem'.size[d] = k.size[d]
          /\ mem'.size[c] = a_size
      BY <1>1, <1>4, <1>9, <1>11, <2>1, <2>2, SplitLemma
    <2> HIDE DEF new
    <2>5. \A b \in mem.used : mem'.size[b] = mem.size[b]
      BY <1>5, <1>6, <1>8, <1>9, <2>3
    <2> QED
      BY <1>1, <1>4, <1>5, <1>6, <1>9, <2>3, <2>5
  <1> QED
    BY <1>12, <1>13

LEMMA GrowLemma ==
    ASSUME IInv, Grow
    PROVE  LET b == heap_ptr[heap_idx]
           IN  /\ Chained(mem', heap_ptr')
               /\ mem' = [size |-> mem'.size, used |-> mem'.used, user |-> mem'.user, foot |-> mem'.foot]
               /\ b \notin Blocks(mem) /\ b \in Nat
               /\ mem'.used = mem.used \cup {b}
               /\ Blocks(mem') = Blocks(mem) \cup {b}
               /\ mem'.user = mem.user \cup user_bit(b)
               /\ \A d \in Blocks(mem) : mem'.size[d] = mem.size[d]
               /\ mem'.size[b] = a_size
               /\ b \in InHeap(mem', heap_idx, heap_ptr'[heap_idx])
               /\ \A h \in Heaps, d \in Blocks(mem) :
                     d \in InHeap(mem', h, heap_ptr'[h]) <=> d \in InHeap(mem, h, heap_ptr[h])
  <1> DEFINE b == heap_ptr[heap_idx]
  <1>1. heap_idx \in Heaps /\ a_size \in Nat
    BY DEF IInv, CallInv
  <1>2. Chained(mem, heap_ptr) /\ Shape(mem, heap_ptr)
    BY DEF IInv, Chained
  <1>3. b \in Nat
    BY <1>1, <1>2 DEF Shape
  <1>4. b + Header + a_size + Footer <= HeapLimit[heap_idx]
    BY DEF Grow, GrownPtr
  <1>5. /\ mem' = NewBlock(Claim(mem, b), b, a_size)
        /\ heap_ptr' = [heap_ptr EXCEPT ![heap_idx] = b + Header + a_size + Footer]
    BY DEF Grow, GrownPtr
  <1>6. /\ Chained(mem', heap_ptr')
        /\ b \notin Blocks(mem)
        /\ Blocks(mem') = Blocks(mem) \cup {b}
        /\ mem'.used = mem.used \cup {b}
        /\ mem'.user = mem.user \cup user_bit(b)
        /\ mem' = [size |-> mem'.size, used |-> mem'.used, user |-> mem'.user, foot |-> mem'.foot]
        /\ \A d \in Blocks(mem) : mem'.size[d] = mem.size[d]
        /\ mem'.size[b] = a_size
        /\ b \in InHeap(mem', heap_idx, heap_ptr'[heap_idx])
        /\ \A h \in Heaps, d \in Blocks(mem) :
              d \in InHeap(mem', h, heap_ptr'[h]) <=> d \in InHeap(mem, h, heap_ptr[h])
    <2> DEFINE n == NewBlock(Claim(mem, b), b, a_size)
               q == [heap_ptr EXCEPT ![heap_idx] = b + Header + a_size + Footer]
    <2>1. /\ Chained(n, q)
          /\ b \notin Blocks(mem)
          /\ Blocks(n) = Blocks(mem) \cup {b}
          /\ n.used = mem.used \cup {b}
          /\ n.user = mem.user \cup user_bit(b)
          /\ n = [size |-> n.size, used |-> n.used, user |-> n.user, foot |-> n.foot]
          /\ \A d \in Blocks(mem) : n.size[d] = mem.size[d]
          /\ n.size[b] = a_size
          /\ b \in InHeap(n, heap_idx, q[heap_idx])
          /\ \A h \in Heaps, d \in Blocks(mem) :
                d \in InHeap(n, h, q[h]) <=> d \in InHeap(mem, h, heap_ptr[h])
      BY <1>1, <1>2, <1>4, NewBlockLemma
    <2>2. n = mem' /\ q = heap_ptr'
      BY <1>5
    <2> HIDE DEF n, q, b
    <2> QED
      BY <2>1, <2>2
  <1> QED
    BY <1>3, <1>6

\* What kfree changes: the block is no longer in use, and blocks that are not
\* in use may have become part of others.
LEMMA FreeLemma ==
    ASSUME IInv, NEW b \in Blocks(mem), kfree(b)
    PROVE  /\ Chained(mem', heap_ptr)
           /\ mem' = [size |-> mem'.size, used |-> mem'.used, user |-> mem'.user, foot |-> mem'.foot]
           /\ Blocks(mem') \subseteq Blocks(mem)
           /\ b \in mem.used
           /\ mem'.used = mem.used \ {b}
           /\ mem'.user = mem.user \ {b}
           /\ \A d \in Blocks(mem') : mem'.size[d] >= mem.size[d]
  <1> DEFINE h  == HeapOf(mem, b)
             m1 == Unclaim(mem, b)
             m2 == MergeRight(m1, b, h)
             m3 == MergeLeft(m2, b, h)
  <1>1. Chained(mem, heap_ptr) /\ Shape(mem, heap_ptr) /\ heap_ptr \in [Heaps -> Nat]
    BY DEF IInv, Chained, Shape
  <1>2. b \in mem.used /\ mem' = m3
    BY DEF kfree
  <1>3. h \in Heaps /\ b \in InHeap(mem, h, heap_ptr[h])
    <2>1. PICK g \in Heaps : b \in InHeap(mem, g, heap_ptr[g])
      BY <1>1 DEF Chained
    <2>2. h = g
      BY <1>2, <2>1 DEF IInv, Owned, FlagsTellHeap
    <2> QED
      BY <2>1, <2>2
  <1>4. /\ m1.size = mem.size /\ m1.foot = mem.foot
        /\ m1.used = mem.used \ {b} /\ m1.user = mem.user \ {b}
        /\ m1 = [size |-> m1.size, used |-> m1.used, user |-> m1.user, foot |-> m1.foot]
    BY DEF Unclaim
  <1> HIDE DEF m1, h
  <1>6. m1.used \subseteq Blocks(mem)
    BY <1>1, <1>4 DEF Shape
  <1>7. Chained(m1, heap_ptr) /\ Blocks(m1) = Blocks(mem)
    BY <1>1, <1>4, <1>6, FlagsLemma
  <1>8. b \in InHeap(m1, h, heap_ptr[h])
    BY <1>3, <1>7 DEF InHeap
  <1>9. /\ Chained(m2, heap_ptr)
        /\ m2 = [size |-> m2.size, used |-> m2.used, user |-> m2.user, foot |-> m2.foot]
        /\ Blocks(m2) \subseteq Blocks(m1) /\ b \in Blocks(m2)
        /\ m2.used = m1.used /\ m2.user = m1.user
        /\ \A d \in Blocks(m2) : m2.size[d] >= m1.size[d]
    <2> DEFINE r == After(m1, b)
    <2>1. CASE ~ (r < heap_ptr[h] /\ Mergeable(m1, r))
      <3>1. m2 = m1
        BY <2>1 DEF MergeRight
      <3>2. \A d \in Blocks(m1) : m1.size[d] >= m1.size[d]
        BY <1>7, OrderLemma
      <3> QED
        BY <1>4, <1>6, <1>7, <3>1, <3>2
    <2>2. CASE r < heap_ptr[h] /\ Mergeable(m1, r)
      <3>1. m2 = Merge(m1, b, r)
        BY <2>2 DEF MergeRight
      <3>2. r \in InHeap(m1, h, heap_ptr[h]) \cup {heap_ptr[h]}
        BY <1>3, <1>7, <1>8 DEF Chained, Tiled
      <3>3. r \in InHeap(m1, h, heap_ptr[h]) /\ r \in Blocks(m1)
        BY <1>1, <1>3, <2>2, <3>2 DEF InHeap
      <3>4. /\ Chained(m2, heap_ptr)
            /\ Blocks(m2) = Blocks(m1) \ {r}
            /\ m2.used = m1.used
            /\ m2.user = m1.user
            /\ m2 = [size |-> m2.size, used |-> m2.used, user |-> m2.user, foot |-> m2.foot]
            /\ \A d \in Blocks(m2) : m2.size[d] >= m1.size[d]
        <4> HIDE DEF m2, r
        <4>1. After(m1, b) = r /\ r \notin m1.used
          BY <2>2 DEF r, Mergeable
        <4> QED
          BY <1>3, <1>7, <1>8, <3>1, <3>3, <4>1, MergeLemma
      <3>5. r # b
        BY <1>7, <1>8, OrderLemma DEF InHeap
      <3> QED
        BY <1>7, <1>8, <3>4, <3>5 DEF InHeap
    <2> QED
      BY <2>1, <2>2
  <1> HIDE DEF m2
  <1>10. b \in InHeap(m2, h, heap_ptr[h])
    BY <1>8, <1>9 DEF InHeap
  <1>11. b \notin m2.used
    BY <1>4, <1>9
  <1>12. /\ Chained(m3, heap_ptr)
         /\ m3 = [size |-> m3.size, used |-> m3.used, user |-> m3.user, foot |-> m3.foot]
         /\ Blocks(m3) \subseteq Blocks(m2)
         /\ m3.used = m2.used /\ m3.user = m2.user
         /\ \A d \in Blocks(m3) : m3.size[d] >= m2.size[d]
    <2> DEFINE l == m2.foot[b - Footer]
    <2>1. CASE ~ (b > HeapBase[h] /\ Mergeable(m2, l))
      <3>1. m3 = m2
        BY <2>1 DEF MergeLeft
      <3>2. \A d \in Blocks(m2) : m2.size[d] >= m2.size[d]
        BY <1>9, OrderLemma
      <3> QED
        BY <1>9, <3>1, <3>2
    <2>2. CASE b > HeapBase[h] /\ Mergeable(m2, l)
      <3>1. m3 = Merge(m2, l, b)
        BY <2>2 DEF MergeLeft
      <3>2. b # HeapBase[h]
        BY <1>1, <1>3, <2>2, HeapFacts
      <3>3. l \in InHeap(m2, h, heap_ptr[h]) /\ After(m2, l) = b
        BY <1>3, <1>9, <1>10, <3>2 DEF Chained, Tiled
      <3>4. /\ Chained(m3, heap_ptr)
            /\ Blocks(m3) = Blocks(m2) \ {b}
            /\ m3.used = m2.used
            /\ m3.user = m2.user
            /\ m3 = [size |-> m3.size, used |-> m3.used, user |-> m3.user, foot |-> m3.foot]
            /\ \A d \in Blocks(m3) : m3.size[d] >= m2.size[d]
        <4> HIDE DEF m3, l
        <4> QED
          BY <1>3, <1>9, <1>10, <1>11, <3>1, <3>3, MergeLemma
      <3> QED
        BY <3>4
    <2> QED
      BY <2>1, <2>2
  <1> HIDE DEF m3
  <1>13. \A d \in Blocks(m3) : m3.size[d] >= mem.size[d]
    <2>1. ASSUME NEW d \in Blocks(m3) PROVE m3.size[d] >= mem.size[d]
      <3>1. d \in Blocks(m2) /\ d \in Blocks(m1)
        BY <1>9, <1>12
      <3>2. m3.size[d] \in Nat /\ m2.size[d] \in Nat /\ m1.size[d] \in Nat
        BY <1>7, <1>9, <1>12, <3>1, OrderLemma
      <3> QED
        BY <1>4, <1>9, <1>12, <3>1, <3>2
    <2> QED
      BY <2>1
  <1> QED
    BY <1>2, <1>4, <1>7, <1>9, <1>12, <1>13

-----------------------------------------------------------------------------
LEMMA InitLemma == ASSUME Init PROVE IInv
  <1> USE HeapFacts
  <1>1. /\ Blocks(mem) = {} /\ mem.used = {} /\ mem.user = {} /\ Feet(mem) = {}
        /\ mem.size = [a \in {} |-> 0] /\ mem.foot = [a \in {} |-> 0]
        /\ mem = [size |-> mem.size, used |-> mem.used, user |-> mem.user, foot |-> mem.foot]
    BY DEF Init, Blocks, Feet
  <1>2. heap_ptr \in [Heaps -> Nat] /\ \A h \in Heaps : heap_ptr[h] = HeapBase[h]
    BY HeapAssumption DEF Init
  <1>3. Shape(mem, heap_ptr)
    BY <1>1, <1>2, HeapAssumption DEF Shape
  <1>4. \A h \in Heaps : Tiled(mem, h, heap_ptr[h])
    BY <1>1, <1>2 DEF Tiled, InHeap
  <1>5. Owned
    <2>1. wanted \in [mem.used -> Sizes]
      BY <1>1 DEF Init
    <2> QED
      BY <1>1, <2>1 DEF Owned, FlagsTellHeap, OwnersHaveRoom, InHeap
  <1>6. CallInv
    BY DEF Init, CallInv, Addr
  <1> QED
    BY <1>1, <1>3, <1>4, <1>5, <1>6 DEF IInv, Chained

\* Facts that all the steps use.
LEMMA StateLemma ==
    ASSUME IInv
    PROVE  /\ Chained(mem, heap_ptr) /\ Owned /\ CallInv
           /\ heap_ptr \in [Heaps -> Nat]
           /\ \A h \in Heaps : HeapBase[h] <= heap_ptr[h] /\ heap_ptr[h] <= HeapLimit[h]
                                /\ heap_ptr[h] \in Addr
           /\ \A h \in Heaps : Tiled(mem, h, heap_ptr[h])
           /\ mem.used \subseteq Blocks(mem)
           /\ \A b \in Blocks(mem) : b \in Addr
  <1> USE HeapFacts
  <1>1. Chained(mem, heap_ptr) /\ Owned /\ CallInv /\ Shape(mem, heap_ptr)
    BY DEF IInv, Chained
  <1>2. /\ heap_ptr \in [Heaps -> Nat]
        /\ \A h \in Heaps : HeapBase[h] <= heap_ptr[h] /\ heap_ptr[h] <= HeapLimit[h]
        /\ mem.used \subseteq Blocks(mem)
        /\ Blocks(mem) \subseteq Nat
    BY <1>1 DEF Shape
  <1>3. \A h \in Heaps : HeapLimit[h] <= HeapLimit[0] /\ HeapLimit[h] \in Nat
    BY HeapAssumption
  <1>4. \A h \in Heaps : heap_ptr[h] \in Addr
    BY <1>2, <1>3 DEF Addr
  <1>5. ASSUME NEW b \in Blocks(mem) PROVE b \in Addr
    <2>1. PICK h \in Heaps : b \in InHeap(mem, h, heap_ptr[h])
      BY <1>1 DEF Chained
    <2>2. b \in Nat /\ b < heap_ptr[h]
      BY <1>2, <2>1 DEF InHeap
    <2> QED
      BY <1>2, <1>3, <2>2 DEF Addr
  <1> QED
    BY <1>1, <1>2, <1>4, <1>5 DEF Chained

\* After a call of kmalloc, or with none under way.
LEMMA OverLemma ==
    ASSUME IInv, Over
    PROVE  CallInv'
  BY HeapFacts DEF Over, CallInv, Addr

LEMMA MallocStep == ASSUME IInv, Malloc PROVE IInv'
  <1>1. /\ Chained(mem, heap_ptr) /\ Owned /\ heap_ptr \in [Heaps -> Nat]
        /\ \A h \in Heaps : Tiled(mem, h, heap_ptr[h])
        /\ \A h \in Heaps : HeapBase[h] <= heap_ptr[h] /\ heap_ptr[h] \in Addr
        /\ \A b \in Blocks(mem) : b \in Addr
    BY StateLemma
  <1>2. Chained(mem, heap_ptr)' /\ Owned'
    BY <1>1 DEF Malloc, Owned, FlagsTellHeap, OwnersHaveRoom, HeapOf
  <1>3. /\ heap_idx' \in Heaps /\ want' \in Sizes /\ want' \in Nat /\ pc' = "walk"
        /\ a_size' = Words(want') /\ c' = HeapBase[heap_idx']
        /\ mem' = mem /\ heap_ptr' = heap_ptr
    BY SizeAssumption DEF Malloc
  <1>4. a_size' \in Nat
    BY <1>3, WordsLemma
  <1>5. c' \in InHeap(mem, heap_idx', heap_ptr[heap_idx']) \cup {heap_ptr[heap_idx']}
    <2>1. CASE HeapBase[heap_idx'] < heap_ptr[heap_idx']
      BY <1>1, <1>3, <2>1, HeapFacts DEF Tiled, InHeap
    <2>2. CASE ~ (HeapBase[heap_idx'] < heap_ptr[heap_idx'])
      BY <1>1, <1>3, <2>2, HeapFacts
    <2> QED
      BY <2>1, <2>2
  <1>6. c' \in Addr
    BY <1>1, <1>3, <1>5 DEF InHeap
  <1>7. \A b \in InHeap(mem, heap_idx', heap_ptr[heap_idx']) : ~ (b < c')
    BY <1>1, <1>3, HeapFacts DEF InHeap, Addr
  <1>8. CallInv'
    BY <1>3, <1>4, <1>5, <1>6, <1>7 DEF CallInv
  <1> QED
    BY <1>2, <1>8 DEF IInv

LEMMA WalkStep == ASSUME IInv, Walk PROVE IInv'
  <1>1. /\ Chained(mem, heap_ptr) /\ Owned /\ CallInv /\ heap_ptr \in [Heaps -> Nat]
        /\ \A h \in Heaps : Tiled(mem, h, heap_ptr[h])
        /\ \A h \in Heaps : heap_ptr[h] \in Addr
        /\ \A b \in Blocks(mem) : b \in Addr
    BY StateLemma
  <1>2. Chained(mem, heap_ptr)' /\ Owned'
    BY <1>1 DEF Walk, Owned, FlagsTellHeap, OwnersHaveRoom, HeapOf
  <1> DEFINE H == InHeap(mem, heap_idx, heap_ptr[heap_idx])
  <1>3. /\ heap_idx \in Heaps /\ pc = "walk" /\ c \in H \cup {heap_ptr[heap_idx]}
        /\ c < heap_ptr[heap_idx] /\ ~ Fits(c) /\ c' = After(mem, c)
        /\ \A b \in H : b < c => ~ Fits(b)
        /\ UNCHANGED <<mem, heap_ptr, pc, heap_idx, a_size, want>>
    BY <1>1 DEF Walk, CallInv
  <1>4. c \in H /\ c \in Blocks(mem)
    BY <1>1, <1>3 DEF InHeap
  <1>5. c' \in H \cup {heap_ptr[heap_idx]}
    BY <1>1, <1>3, <1>4 DEF Tiled
  <1>6. c' \in Addr
    BY <1>1, <1>3, <1>5 DEF InHeap
  <1>7. ASSUME NEW b \in H, b < c' PROVE ~ Fits(b)
    <2>1. b \in Blocks(mem) /\ b \in Nat /\ c \in Nat
      BY <1>1, <1>4, OrderLemma DEF InHeap
    <2>2. ~ (c < b)
      <3>1. ASSUME c < b PROVE FALSE
        <4>1. After(mem, c) <= b /\ After(mem, c) \in Nat
          BY <1>1, <1>4, <2>1, <3>1, OrderLemma
        <4> QED
          BY <1>3, <1>7, <2>1, <4>1
      <3> QED
        BY <3>1
    <2> QED
      BY <1>3, <2>1, <2>2
  <1>8. \A b \in H : Fits(b)' <=> Fits(b)
    BY <1>3 DEF Fits
  <1>9. CallInv'
    BY <1>1, <1>3, <1>5, <1>6, <1>7, <1>8 DEF CallInv
  <1> QED
    BY <1>2, <1>9 DEF IInv

\* The block handed out is of the heap asked for, and large enough.
LEMMA ReturnLemma ==
    ASSUME IInv, pc = "walk", NEW b, Return(b),
           b \notin mem.used, mem'.used = mem.used \cup {b},
           mem'.user = mem.user \cup user_bit(b),
           mem' = [size |-> mem'.size, used |-> mem'.used, user |-> mem'.user, foot |-> mem'.foot],
           \A d \in mem.used : mem'.size[d] = mem.size[d],
           mem'.size[b] \in Nat, mem'.size[b] >= a_size,
           \A h \in Heaps : \A d \in InHeap(mem', h, heap_ptr'[h]) :
              d \in mem.used => d \in InHeap(mem, h, heap_ptr[h]),
           \A h \in Heaps : b \in InHeap(mem', h, heap_ptr'[h]) => h = heap_idx
    PROVE  Owned'
  <1>1. Owned /\ CallInv /\ want \in Sizes /\ a_size = Words(want) /\ want \in Nat /\ heap_idx \in Heaps
    BY SizeAssumption DEF IInv, CallInv
  <1>2. wanted' = Write(wanted, b, want) /\ wanted \in [mem.used -> Sizes]
    BY <1>1 DEF Return, Owned
  <1>3. /\ wanted' \in [mem'.used -> Sizes] /\ wanted'[b] = want
        /\ \A d \in mem.used : wanted'[d] = wanted[d]
    BY <1>1, <1>2 DEF Write
  <1>4. mem'.user \subseteq mem'.used
    BY <1>1 DEF Owned, user_bit
  <1>5. OwnersHaveRoom'
    <2>1. \A d \in mem.used : wanted'[d] <= 4 * mem'.size[d]
      BY <1>1, <1>3 DEF Owned, OwnersHaveRoom
    <2>2. wanted'[b] <= 4 * mem'.size[b]
      BY <1>1, <1>3, WordsLemma
    <2> QED
      BY <2>1, <2>2 DEF OwnersHaveRoom
  <1>6. FlagsTellHeap'
    <2>1. ASSUME NEW h \in Heaps, NEW d \in InHeap(mem', h, heap_ptr'[h]), d \in mem'.used
          PROVE  HeapOf(mem', d) = h
      <3>1. CASE d = b
        <4>1. h = heap_idx /\ b \notin mem.user
          BY <1>1, <2>1, <3>1 DEF Owned
        <4> QED
          BY <1>1, <3>1, <4>1, HeapFacts DEF HeapOf, user_bit
      <3>2. CASE d # b
        <4>1. HeapOf(mem, d) = h
          BY <1>1, <2>1, <3>2 DEF Owned, FlagsTellHeap
        <4> QED
          BY <3>2, <4>1 DEF HeapOf, user_bit
      <3> QED
        BY <3>1, <3>2
    <2> QED
      BY <2>1 DEF FlagsTellHeap
  <1> QED
    BY <1>3, <1>4, <1>5, <1>6 DEF Owned

LEMMA TakeStep == ASSUME IInv, Take PROVE IInv'
  <1>1. /\ pc = "walk" /\ Return(c) /\ Over /\ heap_ptr' = heap_ptr
    BY DEF Take, Return
  <1>2. /\ Chained(mem', heap_ptr)
        /\ mem' = [size |-> mem'.size, used |-> mem'.used, user |-> mem'.user, foot |-> mem'.foot]
        /\ c \in Blocks(mem) /\ c \in InHeap(mem, heap_idx, heap_ptr[heap_idx])
        /\ c \notin mem.used
        /\ mem'.used = mem.used \cup {c}
        /\ Blocks(mem) \subseteq Blocks(mem')
        /\ mem'.user = mem.user \cup user_bit(c)
        /\ \A b \in mem.used : mem'.size[b] = mem.size[b]
        /\ mem'.size[c] \in Nat /\ mem'.size[c] >= a_size
    BY TakeLemma
  <1>3. Chained(mem, heap_ptr) /\ mem.used \subseteq Blocks(mem) /\ heap_idx \in Heaps
    BY StateLemma DEF CallInv
  <1>4. \A h \in Heaps : \A d \in InHeap(mem', h, heap_ptr'[h]) :
           d \in mem.used => d \in InHeap(mem, h, heap_ptr[h])
    BY <1>1, <1>3 DEF InHeap
  <1>5. ASSUME NEW h \in Heaps, c \in InHeap(mem', h, heap_ptr'[h]) PROVE h = heap_idx
    <2>1. c \in InHeap(mem, h, heap_ptr[h])
      BY <1>1, <1>2, <1>5 DEF InHeap
    <2> QED
      BY <1>2, <1>3, <2>1, OrderLemma
  <1>6. Owned'
    BY <1>1, <1>2, <1>4, <1>5, ReturnLemma
  <1>7. Chained(mem, heap_ptr)'
    BY <1>1, <1>2
  <1> QED
    BY <1>1, <1>6, <1>7, OverLemma DEF IInv

LEMMA GrowStep == ASSUME IInv, Grow PROVE IInv'
  <1> DEFINE b == heap_ptr[heap_idx]
  <1>1. pc = "walk" /\ Return(b) /\ Over
    BY DEF Grow, Return
  <1>2. /\ Chained(mem', heap_ptr')
        /\ mem' = [size |-> mem'.size, used |-> mem'.used, user |-> mem'.user, foot |-> mem'.foot]
        /\ b \notin Blocks(mem) /\ b \in Nat
        /\ mem'.used = mem.used \cup {b}
        /\ Blocks(mem') = Blocks(mem) \cup {b}
        /\ mem'.user = mem.user \cup user_bit(b)
        /\ \A d \in Blocks(mem) : mem'.size[d] = mem.size[d]
        /\ mem'.size[b] = a_size
        /\ b \in InHeap(mem', heap_idx, heap_ptr'[heap_idx])
        /\ \A h \in Heaps, d \in Blocks(mem) :
              d \in InHeap(mem', h, heap_ptr'[h]) <=> d \in InHeap(mem, h, heap_ptr[h])
    BY GrowLemma
  <1> HIDE DEF b
  <1>3. mem.used \subseteq Blocks(mem) /\ heap_idx \in Heaps /\ a_size \in Nat
    BY StateLemma DEF CallInv
  <1>4. \A h \in Heaps : \A d \in InHeap(mem', h, heap_ptr'[h]) :
           d \in mem.used => d \in InHeap(mem, h, heap_ptr[h])
    BY <1>2, <1>3
  <1>5. ASSUME NEW h \in Heaps, b \in InHeap(mem', h, heap_ptr'[h]) PROVE h = heap_idx
    <2>1. b \in Blocks(mem')
      BY <1>2
    <2> QED
      BY <1>2, <1>3, <1>5, <2>1, OrderLemma
  <1>6. Owned'
    <2>1. b \notin mem.used /\ \A d \in mem.used : mem'.size[d] = mem.size[d]
      BY <1>2, <1>3
    <2>2. mem'.size[b] \in Nat /\ mem'.size[b] >= a_size
      BY <1>2, <1>3
    <2> QED
      BY <1>1, <1>2, <1>4, <1>5, <2>1, <2>2, ReturnLemma
  <1>7. Chained(mem, heap_ptr)'
    BY <1>2
  <1> QED
    BY <1>1, <1>6, <1>7, OverLemma DEF IInv

LEMMA FreeStep == ASSUME IInv, NEW b \in Blocks(mem), kfree(b) PROVE IInv'
  <1>1. /\ Chained(mem', heap_ptr)
        /\ mem' = [size |-> mem'.size, used |-> mem'.used, user |-> mem'.user, foot |-> mem'.foot]
        /\ Blocks(mem') \subseteq Blocks(mem)
        /\ b \in mem.used
        /\ mem'.used = mem.used \ {b}
        /\ mem'.user = mem.user \ {b}
        /\ \A d \in Blocks(mem') : mem'.size[d] >= mem.size[d]
    BY FreeLemma
  <1>2. pc = "idle" /\ heap_ptr' = heap_ptr /\ wanted' = Forget(wanted, b)
        /\ UNCHANGED <<pc, c, heap_idx, a_size, want>>
    BY DEF kfree, call
  <1>3. Owned /\ CallInv /\ Chained(mem, heap_ptr)
    BY StateLemma
  <1>4. wanted' \in [mem'.used -> Sizes] /\ \A d \in mem'.used : wanted'[d] = wanted[d]
    BY <1>1, <1>2, <1>3 DEF Owned, Forget
  <1>5. mem'.user \subseteq mem'.used
    BY <1>1, <1>3 DEF Owned
  <1>6. OwnersHaveRoom'
    <2>1. ASSUME NEW d \in mem'.used PROVE wanted'[d] <= 4 * mem'.size[d]
      <3>1. d \in mem.used /\ d \in Blocks(mem') /\ d \in Blocks(mem)
        BY <1>1 DEF Chained, Shape
      <3>2. mem.size[d] \in Nat /\ mem'.size[d] \in Nat
        BY <1>1, <1>3, <3>1, OrderLemma
      <3>3. wanted'[d] <= 4 * mem.size[d] /\ wanted'[d] \in Nat
        BY <1>3, <1>4, <3>1, SizeAssumption DEF Owned, OwnersHaveRoom
      <3> QED
        BY <1>1, <3>1, <3>2, <3>3
    <2> QED
      BY <2>1 DEF OwnersHaveRoom
  <1>7. FlagsTellHeap'
    <2>1. ASSUME NEW h \in Heaps, NEW d \in InHeap(mem', h, heap_ptr'[h]), d \in mem'.used
          PROVE  HeapOf(mem', d) = h
      <3>1. d \in InHeap(mem, h, heap_ptr[h]) /\ d \in mem.used /\ d # b
        BY <1>1, <1>2, <2>1 DEF InHeap
      <3>2. HeapOf(mem, d) = h
        BY <1>3, <3>1 DEF Owned, FlagsTellHeap
      <3> QED
        BY <1>1, <3>1, <3>2 DEF HeapOf
    <2> QED
      BY <2>1 DEF FlagsTellHeap
  <1>8. Owned'
    BY <1>1, <1>4, <1>5, <1>6, <1>7 DEF Owned
  <1>9. CallInv'
    BY <1>2, <1>3 DEF CallInv
  <1>10. Chained(mem, heap_ptr)'
    BY <1>1, <1>2
  <1> QED
    BY <1>8, <1>9, <1>10 DEF IInv

LEMMA QuietLemma == ASSUME IInv, UNCHANGED <<mem, heap_ptr, wanted>> PROVE Chained(mem, heap_ptr)' /\ Owned'
  BY DEF IInv, Owned, FlagsTellHeap, OwnersHaveRoom, HeapOf

LEMMA StepLemma == ASSUME IInv, [Next]_vars PROVE IInv'
  <1>1. CASE Malloc
    BY <1>1, MallocStep
  <1>2. CASE Take
    BY <1>2, TakeStep
  <1>3. CASE Walk
    BY <1>3, WalkStep
  <1>4. CASE Grow
    BY <1>4, GrowStep
  <1>5. CASE Bound
    BY <1>5, QuietLemma, OverLemma DEF Bound, IInv
  <1>6. ASSUME NEW b \in Blocks(mem), kfree(b) PROVE IInv'
    BY <1>6, FreeStep
  <1>7. CASE UNCHANGED vars
    <2>1. CallInv'
      BY <1>7 DEF vars, call, IInv, CallInv, Fits
    <2> QED
      BY <1>7, <2>1, QuietLemma DEF vars, IInv
  <1> QED
    BY <1>1, <1>2, <1>3, <1>4, <1>5, <1>6, <1>7 DEF Next, kmalloc

\* The inductive invariant holds of every reachable state.
THEOREM IInvariant == Spec => []IInv
  <1>1. Init => IInv
    BY InitLemma
  <1>2. IInv /\ [Next]_vars => IInv'
    BY StepLemma
  <1> QED
    BY <1>1, <1>2, PTL DEF Spec

\* The state keeps its shape: a tag is known exactly where a block has one,
\* and no address passes the end of a heap.
THEOREM TypeCorrect == Spec => []TypeOK
  <1>1. ASSUME IInv PROVE TypeOK
    <2>1. Chained(mem, heap_ptr) /\ Shape(mem, heap_ptr) /\ Owned /\ CallInv
      BY <1>1, StateLemma DEF Chained
    <2>2. Blocks(mem) \subseteq Addr
      BY <1>1, StateLemma
    <2>3. mem \in [size : [Blocks(mem) -> Nat], used : SUBSET Blocks(mem),
                   user : SUBSET mem.used, foot : [Feet(mem) -> Blocks(mem)]]
      <3> DEFINE s == mem.size  u == mem.used  w == mem.user  f == mem.foot
                 S == [Blocks(mem) -> Nat]  F == [Feet(mem) -> Blocks(mem)]  U == SUBSET Blocks(mem)
                 W == SUBSET mem.used
      <3>1. s \in S /\ u \in U /\ w \in W /\ f \in F /\ mem = [size |-> s, used |-> u, user |-> w, foot |-> f]
        BY <2>1 DEF Shape, Owned
      <3> HIDE DEF s, u, w, f, S, F, U, W
      <3>2. mem \in [size : S, used : U, user : W, foot : F]
        BY <3>1
      <3> QED
        BY <3>2 DEF S, F, U, W
    <2>4. /\ heap_ptr \in [Heaps -> Addr]
          /\ \A h \in Heaps : HeapBase[h] <= heap_ptr[h] /\ heap_ptr[h] <= HeapLimit[h]
      BY <1>1, StateLemma
    <2>5. /\ pc \in {"idle", "walk"}
          /\ c \in Addr /\ heap_idx \in Heaps /\ a_size \in Nat /\ want \in Sizes \cup {0}
      BY <2>1 DEF CallInv
    <2>6. wanted \in [mem.used -> Sizes]
      BY <2>1 DEF Owned
    <2> QED
      BY <2>2, <2>3, <2>4, <2>5, <2>6 DEF TypeOK
  <1> QED
    BY <1>1, IInvariant, PTL

\* The blocks of each heap tile it, and the footers chain them backwards,
\* whatever sequence of splits and merges led there.
THEOREM ChainIsWhole == Spec => []HeapTiled
  <1>1. IInv => HeapTiled
    BY DEF IInv, Chained, HeapTiled
  <1> QED
    BY <1>1, IInvariant, PTL

\* Every block is in a heap, and one in use names the heap it is in, which is
\* what kfree relies on to find the neighbours.
THEOREM FlagsNameTheHeap == Spec => []BlocksKnowTheirHeap
  <1>1. IInv => BlocksKnowTheirHeap
    BY DEF IInv, Chained, Owned, FlagsTellHeap, BlocksKnowTheirHeap
  <1> QED
    BY <1>1, IInvariant, PTL

\* A block in use is never smaller than what its owner asked for.
THEOREM RoomForOwners == Spec => []OwnersHaveRoom
  <1>1. IInv => OwnersHaveRoom
    BY DEF IInv, Owned
  <1> QED
    BY <1>1, IInvariant, PTL

\* kmalloc grows a heap only when no free block of it is large enough.
THEOREM GrowthIsNeeded == Spec => NoNeedlessGrowth
  <1> DEFINE A == heap_ptr' # heap_ptr
                    => \A b \in InHeap(mem, heap_idx, heap_ptr[heap_idx]) : ~ Fits(b)
  <1>1. ASSUME IInv, [Next]_vars PROVE [A]_vars
    <2>1. CASE Grow
      <3>1. /\ pc = "walk" /\ c >= heap_ptr[heap_idx] /\ c \in Addr /\ heap_idx \in Heaps
            /\ heap_ptr[heap_idx] \in Addr
            /\ \A b \in InHeap(mem, heap_idx, heap_ptr[heap_idx]) : b < c => ~ Fits(b)
        BY <1>1, <2>1, StateLemma DEF Grow, CallInv
      <3>2. ASSUME NEW b \in InHeap(mem, heap_idx, heap_ptr[heap_idx]) PROVE b < c
        <4>1. b \in Addr /\ b < heap_ptr[heap_idx]
          BY <1>1, StateLemma DEF InHeap
        <4> QED
          BY <3>1, <4>1, HeapFacts DEF Addr
      <3> QED
        BY <3>1, <3>2
    <2>2. CASE heap_ptr' = heap_ptr
      BY <2>2
    <2>3. ~ Grow => heap_ptr' = heap_ptr
      BY <1>1 DEF Next, kmalloc, Malloc, Take, Walk, Bound, kfree, vars
    <2> QED
      BY <2>1, <2>2, <2>3
  <1> QED
    BY <1>1, IInvariant, PTL DEF Spec, NoNeedlessGrowth

-----------------------------------------------------------------------------
(* Refinement of the allocator.                                            *)


\* Two blocks in use do not meet, and each is inside its heap.
LEMMA ApartLemma ==
    ASSUME NEW m, NEW p, NEW w, Chained(m, p), w \in [m.used -> Sizes],
           \A b \in m.used : w[b] <= 4 * m.size[b],
           \A h \in Heaps : \A b \in InHeap(m, h, p[h]) : b \in m.used => HeapOf(m, b) = h
    PROVE  /\ \A b, d \in m.used : b # d => \/ 4 * (b + Header) + w[b] <= 4 * (d + Header)
                                            \/ 4 * (d + Header) + w[d] <= 4 * (b + Header)
           /\ \A b \in m.used : LET h == HeapOf(m, b)
                                IN  /\ h \in Heaps
                                    /\ 4 * HeapBase[h] <= 4 * (b + Header)
                                    /\ 4 * (b + Header) + w[b] <= 4 * HeapLimit[h]
  <1> USE HeapFacts DEF Header, Footer
  <1>1. m.used \subseteq Blocks(m) /\ p \in [Heaps -> Nat] /\ \A h \in Heaps : p[h] <= HeapLimit[h]
    BY DEF Chained, Shape
  <1>2. \A b \in m.used : /\ w[b] \in Nat /\ b \in Nat /\ m.size[b] \in Nat
                          /\ After(m, b) \in Nat
                          /\ 4 * (b + Header) + w[b] <= 4 * After(m, b)
    <2>1. ASSUME NEW b \in m.used
          PROVE  /\ w[b] \in Nat /\ b \in Nat /\ m.size[b] \in Nat
                 /\ After(m, b) \in Nat
                 /\ 4 * (b + Header) + w[b] <= 4 * After(m, b)
      <3>1. b \in Nat /\ m.size[b] \in Nat /\ After(m, b) \in Nat
        BY <1>1, OrderLemma
      <3>2. w[b] \in Nat /\ w[b] <= 4 * m.size[b]
        BY SizeAssumption
      <3>3. After(m, b) = b + 3 + m.size[b]
        BY <3>1 DEF After
      <3> QED
        BY <3>1, <3>2, <3>3
    <2> QED
      BY <2>1
  <1>3. ASSUME NEW b \in m.used, NEW d \in m.used, b < d
        PROVE  4 * (b + Header) + w[b] <= 4 * (d + Header)
    <2>1. After(m, b) <= d
      BY <1>1, <1>3, OrderLemma
    <2> QED
      BY <1>2, <2>1
  <1>4. ASSUME NEW b \in m.used
        PROVE  LET h == HeapOf(m, b)
               IN  /\ h \in Heaps
                   /\ 4 * HeapBase[h] <= 4 * (b + Header)
                   /\ 4 * (b + Header) + w[b] <= 4 * HeapLimit[h]
    <2>1. PICK h \in Heaps : b \in InHeap(m, h, p[h])
      BY <1>1 DEF Chained
    <2>2. HeapOf(m, b) = h
      BY <2>1
    <2>3. HeapBase[h] <= b /\ After(m, b) <= p[h] /\ p[h] <= HeapLimit[h] /\ p[h] \in Nat
      BY <1>1, <2>1, OrderLemma DEF InHeap
    <2>4. 4 * HeapBase[h] <= 4 * (b + Header) /\ 4 * (b + Header) + w[b] <= 4 * HeapLimit[h]
      BY <1>2, <2>3
    <2> QED
      BY <2>2, <2>4
  <1> QED
    BY <1>2, <1>3, <1>4

\* A call that hands out block b is an Alloc.
LEMMA AllocLemma ==
    ASSUME IInv, IInv', NEW b, b \notin mem.used, mem'.used = mem.used \cup {b},
           mem'.user = mem.user \cup user_bit(b), wanted' = Write(wanted, b, want)
    PROVE  Memory!Alloc
  <1> DEFINE new == [addr |-> 4 * (b + Header), len |-> wanted'[b], heap |-> HeapOf(mem', b)]
             A  == {allocation(d) : d \in mem.used}
             A1 == {allocation(d)' : d \in mem'.used}
  <1>1. /\ \A d, e \in mem'.used : d # e => \/ 4 * (d + Header) + wanted'[d] <= 4 * (e + Header)
                                            \/ 4 * (e + Header) + wanted'[e] <= 4 * (d + Header)
        /\ \A d \in mem'.used : /\ HeapOf(mem', d) \in Heaps
                                /\ 4 * HeapBase[HeapOf(mem', d)] <= 4 * (d + Header)
                                /\ 4 * (d + Header) + wanted'[d] <= 4 * HeapLimit[HeapOf(mem', d)]
    BY ApartLemma DEF IInv, Owned, FlagsTellHeap, OwnersHaveRoom
  <1>2. wanted \in [mem.used -> Sizes] /\ wanted' \in [mem'.used -> Sizes]
    BY DEF IInv, Owned
  <1>3. \A d \in mem'.used : d \in Nat /\ wanted'[d] \in Nat /\ wanted'[d] \in Sizes
    BY <1>2, SizeAssumption DEF IInv, Chained, Shape
  <1>4. \A d \in mem.used : wanted'[d] = wanted[d] /\ HeapOf(mem', d) = HeapOf(mem, d)
    BY <1>2 DEF Write, HeapOf, user_bit
  <1>5. \A d \in mem.used : allocation(d) = [addr |-> 4 * (d + Header), len |-> wanted'[d], heap |-> HeapOf(mem', d)]
    BY <1>4 DEF allocation
  <1>6. A1 = A \cup {new}
    <2>1. \A d \in mem'.used : allocation(d)' = [addr |-> 4 * (d + Header), len |-> wanted'[d], heap |-> HeapOf(mem', d)]
      BY DEF allocation, HeapOf
    <2>2. \A d \in mem.used : allocation(d)' = allocation(d)
      BY <1>5, <2>1
    <2>3. allocation(b)' = new
      BY <2>1
    <2> HIDE DEF new
    <2> QED
      BY <2>2, <2>3
  <1>7. \A r \in A : Memory!Apart(r, new)
    BY <1>1, <1>5 DEF Memory!Apart
  <1>8. new \notin A
    <2>1. ASSUME NEW d \in mem.used, allocation(d) = new PROVE FALSE
      <3>1. 4 * (d + Header) = 4 * (b + Header)
        BY <1>5, <2>1
      <3> QED
        BY <1>3, <3>1 DEF Header
    <2> QED
      BY <2>1
  <1>9. /\ new.len \in Sizes
        /\ [h \in Heaps |-> 4 * HeapBase[h]][new.heap] <= new.addr
        /\ new.addr + new.len <= [h \in Heaps |-> 4 * HeapLimit[h]][new.heap]
    BY <1>1, <1>3
  <1>10. new \in A1 \ A
    BY <1>6, <1>8
  <1> HIDE DEF new
  <1> QED
    BY <1>6, <1>7, <1>9, <1>10 DEF Memory!Alloc

LEMMA AllocationsStay ==
    ASSUME UNCHANGED <<mem, wanted>>
    PROVE  {allocation(b)' : b \in mem'.used} = {allocation(b) : b \in mem.used}
  BY DEF allocation, HeapOf

LEMMA FreesLemma ==
    ASSUME IInv, NEW b \in Blocks(mem), kfree(b)
    PROVE  Memory!Free
  <1>1. b \in mem.used /\ mem'.used = mem.used \ {b} /\ mem'.user = mem.user \ {b}
        /\ mem.used \subseteq Nat
    BY FreeLemma DEF IInv, Chained, Shape
  <1>2. wanted' = Forget(wanted, b) /\ wanted \in [mem.used -> Sizes]
    BY DEF kfree, IInv, Owned
  <1>3. \A d \in mem'.used : wanted'[d] = wanted[d] /\ HeapOf(mem', d) = HeapOf(mem, d)
    BY <1>1, <1>2 DEF Forget, HeapOf
  <1>4. \A d \in mem'.used : allocation(d)' = allocation(d)
    BY <1>3 DEF allocation
  <1>5. \A d \in mem'.used : allocation(d) # allocation(b)
    <2>1. ASSUME NEW d \in mem'.used, allocation(d) = allocation(b) PROVE FALSE
      <3>1. 4 * (d + Header) = 4 * (b + Header)
        BY <2>1 DEF allocation
      <3> QED
        BY <1>1, <3>1 DEF Header
    <2> QED
      BY <2>1
  <1>6. {allocation(d)' : d \in mem'.used} = {allocation(d) : d \in mem.used} \ {allocation(b)}
    BY <1>1, <1>4, <1>5
  <1> QED
    BY <1>1, <1>6 DEF Memory!Free

\* Callers see an allocator: what they are given is theirs alone, lies in the
\* memory of the kind they asked for, and stays theirs until they free it,
\* whatever blocks kmalloc splits and kfree merges meanwhile.
THEOREM RefinesAllocator == Spec => ImplementsAllocator
  <1>1. ASSUME Init PROVE Memory!Init
    BY <1>1 DEF Init, Memory!Init
  <1>2. ASSUME IInv, [Next]_vars PROVE [Memory!Next]_({allocation(b) : b \in mem.used})
    <2>1. IInv'
      BY <1>2, StepLemma
    <2>2. CASE UNCHANGED <<mem, wanted>>
      BY <2>2, AllocationsStay
    <2>3. CASE Take
      <3>1. Memory!Alloc
        BY <1>2, <2>1, <2>3, TakeLemma, AllocLemma DEF Take, Return
      <3> QED
        BY <3>1 DEF Memory!Next
    <2>4. CASE Grow
      <3>1. heap_ptr[heap_idx] \notin mem.used
        BY <1>2, <2>4, GrowLemma, StateLemma
      <3>2. Memory!Alloc
        BY <1>2, <2>1, <2>4, <3>1, GrowLemma, AllocLemma DEF Grow, Return
      <3> QED
        BY <3>2 DEF Memory!Next
    <2>5. ASSUME NEW b \in Blocks(mem), kfree(b) PROVE Memory!Next
      BY <1>2, <2>5, FreesLemma DEF Memory!Next
    <2> QED
      BY <1>2, <2>2, <2>3, <2>4, <2>5 DEF Next, kmalloc, Malloc, Walk, Bound, vars
  <1> QED
    BY <1>1, <1>2, IInvariant, PTL DEF Spec, ImplementsAllocator, Memory!Spec

-----------------------------------------------------------------------------
(* Free blocks do not stay side by side.                                   *)

\* The blocks that come before one another once r has become part of l.
LEMMA MergedPairs ==
    ASSUME NEW m, NEW p, Chained(m, p), NEW g \in Heaps,
           NEW l \in InHeap(m, g, p[g]), NEW r \in InHeap(m, g, p[g]), After(m, l) = r,
           r \notin m.used,
           NEW h \in Heaps, NEW x \in InHeap(Merge(m, l, r), h, p[h])
    PROVE  /\ x \in InHeap(m, h, p[h]) /\ x # r
           /\ After(Merge(m, l, r), x) = IF x = l THEN After(m, r) ELSE After(m, x)
  <1> DEFINE n == Merge(m, l, r)
  <1>1. /\ Blocks(n) = Blocks(m) \ {r}
        /\ \A b \in Blocks(n) \ {l} : n.size[b] = m.size[b]
        /\ After(n, l) = After(m, r)
    BY MergeLemma
  <1>2. x \in Blocks(n)
    BY DEF InHeap
  <1> HIDE DEF n
  <1>3. x # l => After(n, x) = After(m, x)
    BY <1>1, <1>2 DEF After
  <1> QED
    BY <1>1, <1>2, <1>3 DEF InHeap, n

\* kfree, first half.  W holds the addresses where free blocks met before.  Once
\* the right neighbour is merged, what b can still meet at a new place is a free
\* block on its left, or a large one on its right.
LEMMA RightApart ==
    ASSUME NEW m, Chained(m, heap_ptr), NEW g \in Heaps, NEW b \in InHeap(m, g, heap_ptr[g]),
           b \notin m.used,
           NEW W,
           \A h \in Heaps : \A x : FreePair(m, heap_ptr, h, x)
               => After(m, x) \in W \/ x = b \/ After(m, x) = b,
           NEW n, n = MergeRight(m, b, g)
    PROVE  /\ Chained(n, heap_ptr) /\ b \in InHeap(n, g, heap_ptr[g]) /\ n.used = m.used
           /\ \A h \in Heaps : \A x : FreePair(n, heap_ptr, h, x)
                  => After(n, x) \in W \/ After(n, x) = b \/ (x = b /\ Large(n, After(n, b)))
  <1> DEFINE r == After(m, b)
  <1>1. /\ r \in InHeap(m, g, heap_ptr[g]) \cup {heap_ptr[g]}
        /\ heap_ptr \in [Heaps -> Nat] /\ r \in Nat
        /\ b \in Blocks(m) /\ b < r
        /\ \A h \in Heaps : \A d \in Blocks(m) :
               d \in InHeap(m, g, heap_ptr[g]) /\ d \in InHeap(m, h, heap_ptr[h]) => g = h
    BY OrderLemma DEF Chained, Tiled, Shape, InHeap
  <1>2. CASE r < heap_ptr[g] /\ Mergeable(m, r)
    <2>1. r \in InHeap(m, g, heap_ptr[g]) /\ r \in Blocks(m) /\ r # b
      BY <1>1, <1>2 DEF InHeap
    <2>2. n = Merge(m, b, r)
      BY <1>2, <2>1 DEF MergeRight
    <2>3. /\ Chained(n, heap_ptr) /\ Blocks(n) = Blocks(m) \ {r} /\ n.used = m.used
          /\ \A d \in Blocks(n) \ {b} : n.size[d] = m.size[d]
      <3> HIDE DEF r
      <3>1. After(m, b) = r /\ r < heap_ptr[g] /\ r \notin m.used
        BY <1>2 DEF r, Mergeable
      <3> QED BY <2>1, <2>2, <3>1, MergeLemma
    <2>4. b \in InHeap(n, g, heap_ptr[g])
      BY <1>1, <2>1, <2>3 DEF InHeap
    <2>5. ASSUME NEW h \in Heaps, NEW x, FreePair(n, heap_ptr, h, x)
          PROVE  After(n, x) \in W \/ After(n, x) = b
      <3>1. x \in InHeap(n, h, heap_ptr[h])
        BY <2>5 DEF FreePair
      <3>2. /\ x \in InHeap(m, h, heap_ptr[h]) /\ x # r
            /\ After(n, x) = IF x = b THEN After(m, r) ELSE After(m, x)
        <4> HIDE DEF r
        <4>1. After(m, b) = r /\ r \notin m.used
          BY <1>2 DEF r, Mergeable
        <4> QED BY <2>1, <2>2, <3>1, <4>1, MergedPairs
      <3>3. CASE x = b
        <4>1. h = g
          BY <1>1, <3>2, <3>3
        <4>2. FreePair(m, heap_ptr, g, r)
          BY <1>2, <2>1, <2>3, <2>5, <3>2, <3>3, <4>1 DEF FreePair, Mergeable
        <4>3. After(m, r) >= r + 3 /\ After(m, r) \in Nat /\ b \in Nat
          BY <1>1, <2>1, OrderLemma
        <4>4. After(m, r) \in W \/ r = b \/ After(m, r) = b
          BY <4>2
        <4>5. After(m, r) # b
          <5> HIDE DEF r
          <5> QED BY <1>1, <4>3
        <4> QED BY <2>1, <3>2, <3>3, <4>4, <4>5
      <3>4. CASE x # b
        <4>1. FreePair(m, heap_ptr, h, x)
          BY <2>3, <2>5, <3>2, <3>4 DEF FreePair
        <4> QED BY <3>2, <3>4, <4>1
      <3> QED BY <3>3, <3>4
    <2> QED BY <2>3, <2>4, <2>5
  <1>3. CASE ~ (r < heap_ptr[g] /\ Mergeable(m, r))
    <2>1. n = m
      BY <1>3 DEF MergeRight
    <2>2. ASSUME NEW h \in Heaps, FreePair(m, heap_ptr, h, b) PROVE Large(m, r)
      <3>1. h = g
        BY <1>1, <2>2 DEF FreePair
      <3>2. r < heap_ptr[g] /\ r \notin m.used
        BY <2>2, <3>1 DEF FreePair
      <3>3. r \in Blocks(m)
        BY <1>1, <3>2 DEF InHeap
      <3>4. m.size[r] \in Nat /\ MaxCoalesce \in Nat
        BY <3>3, SizeAssumption DEF Chained, Shape
      <3> QED BY <1>3, <3>2, <3>4 DEF Mergeable, Large
    <2> QED BY <2>1, <2>2
  <1> QED BY <1>2, <1>3

\* Second half: and once that is merged, only large ones.
LEMMA LeftApart ==
    ASSUME NEW m, Chained(m, heap_ptr), NEW g \in Heaps, NEW b \in InHeap(m, g, heap_ptr[g]),
           b \notin m.used,
           NEW W,
           \A h \in Heaps : \A x : FreePair(m, heap_ptr, h, x)
               => After(m, x) \in W \/ After(m, x) = b \/ (x = b /\ Large(m, After(m, b))),
           NEW n, n = MergeLeft(m, b, g)
    PROVE  \A h \in Heaps : \A x : FreePair(n, heap_ptr, h, x)
               => After(n, x) \in W \/ Large(n, x) \/ Large(n, After(n, x))
  <1> DEFINE l == m.foot[b - Footer]
  <1>1. /\ HeapBase[g] \in Nat /\ b \in Nat /\ HeapBase[g] <= b /\ b \in Blocks(m)
        /\ b # HeapBase[g] => l \in InHeap(m, g, heap_ptr[g]) /\ After(m, l) = b
        /\ \A d \in Blocks(m) : d \in Nat /\ After(m, d) \in Nat /\ After(m, d) > d
        /\ \A d, e \in Blocks(m) : d < e => After(m, d) <= e
        /\ \A h, i \in Heaps : \A d \in Blocks(m) :
               d \in InHeap(m, i, heap_ptr[i]) /\ d \in InHeap(m, h, heap_ptr[h]) => i = h
    <2>1. \A d \in Blocks(m) : d \in Nat /\ After(m, d) \in Nat /\ After(m, d) > d
      BY OrderLemma DEF Header, Footer
    <2> QED BY <2>1, OrderLemma, HeapFacts DEF Chained, Tiled, InHeap
  <1>2. ASSUME NEW h \in Heaps, NEW x \in InHeap(m, h, heap_ptr[h]), After(m, x) = b, b # HeapBase[g]
        PROVE  x = l
    <2>1. x \in Blocks(m) /\ l \in Blocks(m)
      BY <1>1, <1>2 DEF InHeap
    <2>2. After(m, l) = b /\ After(m, x) = b /\ l \in Nat /\ x \in Nat /\ l < b /\ x < b
      BY <1>1, <1>2, <2>1
    <2>3. (l < x => b <= x) /\ (x < l => b <= l)
      BY <1>1, <2>1, <2>2
    <2> HIDE DEF l
    <2> QED BY <1>1, <2>2, <2>3
  <1>3. CASE b # HeapBase[g] /\ Mergeable(m, l)
    <2>1. l \in InHeap(m, g, heap_ptr[g]) /\ l \in Blocks(m) /\ After(m, l) = b /\ l # b
      BY <1>1, <1>3 DEF InHeap
    <2>2. n = Merge(m, l, b)
      BY <1>1, <1>3, <2>1 DEF MergeLeft
    <2> HIDE DEF l
    <2>3. n.used = m.used /\ \A d \in Blocks(n) \ {l} : n.size[d] = m.size[d]
      <3>1. b \notin m.used
        OBVIOUS
      <3> QED BY <2>1, <2>2, <3>1, MergeLemma
    <2>4. Blocks(n) = Blocks(m) \ {b} /\ Chained(n, heap_ptr)
      BY <2>1, <2>2, MergeLemma
    <2>5. ASSUME NEW h \in Heaps, NEW x, FreePair(n, heap_ptr, h, x), After(n, x) \notin W
          PROVE  Large(n, After(n, x))
      <3>1. x \in InHeap(n, h, heap_ptr[h])
        BY <2>5 DEF FreePair
      <3>2. /\ x \in InHeap(m, h, heap_ptr[h]) /\ x # b
            /\ After(n, x) = IF x = l THEN After(m, b) ELSE After(m, x)
        BY <2>1, <2>2, <3>1, MergedPairs
      <3>3. CASE x = l
        <4>1. h = g
          BY <1>1, <2>1, <3>2, <3>3
        <4>2. FreePair(m, heap_ptr, g, b)
          BY <2>3, <2>5, <3>2, <3>3, <4>1 DEF FreePair
        <4>3. Large(m, After(m, b)) /\ After(n, x) = After(m, b)
          BY <1>1, <2>5, <3>2, <3>3, <4>2
        <4>4. After(n, x) \in Blocks(n) /\ After(n, x) # l
          <5>1. After(n, x) \in InHeap(n, g, heap_ptr[g])
            <6>1. After(n, x) < heap_ptr[g] /\ x \in InHeap(n, g, heap_ptr[g])
              BY <2>5, <3>1, <4>1 DEF FreePair
            <6>2. Tiled(n, g, heap_ptr[g]) /\ heap_ptr[g] \in Nat
              BY <2>4 DEF Chained, Shape
            <6>3. After(n, x) \in InHeap(n, g, heap_ptr[g]) \cup {heap_ptr[g]}
              BY <6>1, <6>2 DEF Tiled
            <6> QED BY <6>1, <6>2, <6>3
          <5>2. l < b /\ b < After(m, b) /\ l \in Nat /\ b \in Nat /\ After(m, b) \in Nat
            BY <1>1, <2>1
          <5> QED BY <4>3, <5>1, <5>2 DEF InHeap
        <4> QED BY <2>3, <4>3, <4>4 DEF Large
      <3>4. CASE x # l
        <4>1. FreePair(m, heap_ptr, h, x)
          BY <2>3, <2>5, <3>2, <3>4 DEF FreePair
        <4>2. After(m, x) = b
          BY <2>5, <3>2, <3>4, <4>1
        <4> QED BY <1>2, <1>3, <3>2, <3>4, <4>2
      <3> QED BY <3>3, <3>4
    <2> QED BY <2>5
  <1>4. CASE b = HeapBase[g] \/ ~ Mergeable(m, l)
    <2>1. n = m
      BY <1>1, <1>4 DEF MergeLeft
    <2>2. ASSUME NEW h \in Heaps, NEW x, FreePair(m, heap_ptr, h, x), After(m, x) = b
          PROVE  Large(m, x)
      <3>1. x \in InHeap(m, h, heap_ptr[h]) /\ After(m, x) = b /\ After(m, x) < heap_ptr[h]
        BY <2>2 DEF FreePair
      <3>2. x \notin m.used
        BY <2>2 DEF FreePair
      <3>3. h = g /\ x < b
        <4>1. x \in Blocks(m) /\ HeapBase[h] <= x /\ x < b /\ HeapBase[h] \in Nat
          BY <1>1, <3>1, HeapFacts DEF InHeap
        <4>2. b < heap_ptr[h]
          BY <3>1
        <4>3. HeapBase[h] <= b
          <5>1. x \in Nat
            BY <1>1, <4>1
          <5> QED BY <1>1, <4>1, <5>1
        <4>4. b \in InHeap(m, h, heap_ptr[h])
          BY <1>1, <4>2, <4>3 DEF InHeap
        <4> QED BY <1>1, <4>1, <4>4
      <3>4. b # HeapBase[g]
        BY <1>1, <3>1, <3>3 DEF InHeap
      <3>5. x = l /\ x \in Blocks(m)
        BY <1>2, <3>1, <3>4 DEF InHeap
      <3>6. m.size[x] \in Nat /\ MaxCoalesce \in Nat
        BY <3>5, SizeAssumption DEF Chained, Shape
      <3> QED BY <1>4, <3>2, <3>4, <3>5, <3>6 DEF Mergeable, Large
    <2> QED BY <2>1, <2>2
  <1> QED BY <1>3, <1>4

\* kmalloc: free blocks meet only where they met before.
LEMMA TakeApart ==
    ASSUME IInv, Take, NEW h \in Heaps, NEW b, FreePair(mem', heap_ptr', h, b)
    PROVE  Seam(mem, heap_ptr, After(mem', b))
  <1> DEFINE g == heap_idx
  <1>1. /\ Chained(mem, heap_ptr) /\ Chained(mem', heap_ptr) /\ heap_ptr' = heap_ptr /\ g \in Heaps
        /\ c \in InHeap(mem, g, heap_ptr[g]) /\ c \in Blocks(mem) /\ c \notin mem.used
        /\ mem'.used = mem.used \cup {c} /\ a_size \in Nat
        /\ mem.used \subseteq Blocks(mem)
        /\ \A d \in Blocks(mem) : d \in Nat /\ mem.size[d] \in Nat
    BY TakeLemma, StateLemma, OrderLemma DEF CallInv, Take
  <1>2. CASE ~ Splittable(c)
    <2>1. mem'.size = mem.size
      BY <1>2 DEF Take, Claim
    <2>2. FreePair(mem, heap_ptr, h, b) /\ After(mem', b) = After(mem, b)
      BY <1>1, <2>1 DEF FreePair, InHeap, Blocks, After
    <2> QED BY <2>2 DEF Seam, FreePair, InHeap
  <1>3. CASE Splittable(c)
    <2> DEFINE new == c + Header + a_size + Footer
    <2>1. /\ mem'.size = Write(Write(mem.size, new, mem.size[c] - a_size - Header - Footer), c, a_size)
          /\ mem'.foot = Split(Claim(mem, c), c, a_size).foot
      BY <1>3 DEF Take, Split, Claim
    <2>2. new # c /\ mem.size[c] - a_size >= MinSplit /\ c \in Nat /\ new \in Nat
      BY <1>1, <1>3 DEF Splittable, Header, Footer
    <2>3. Blocks(mem') = Blocks(mem) \cup {new} /\ new \notin Blocks(mem)
      <3>1. Blocks(mem') = Blocks(mem) \cup {new}
        BY <1>1, <2>1 DEF Blocks, Write
      <3>2. new > c /\ new < After(mem, c)
        BY <1>1, <2>2 DEF After, Header, Footer, MinSplit
      <3>3. \A d \in Blocks(mem) : c < d => After(mem, c) <= d
        BY <1>1, OrderLemma
      <3> QED BY <1>1, <2>2, <3>1, <3>2, <3>3 DEF After, Header, Footer
    <2>4. After(mem', c) = new /\ After(mem', new) = After(mem, c)
      <3>1. mem'.size[c] = a_size /\ mem'.size[new] = mem.size[c] - a_size - Header - Footer
        BY <1>1, <2>1, <2>2 DEF Write, Blocks
      <3> QED BY <1>1, <2>2, <3>1 DEF After, Header, Footer
    <2>5. \A d \in Blocks(mem) \ {c} : After(mem', d) = After(mem, d)
      BY <2>1, <2>3 DEF After, Write, Blocks
    <2> HIDE DEF new
    <2>6. /\ b \in InHeap(mem', h, heap_ptr[h]) /\ After(mem', b) < heap_ptr[h]
          /\ b \notin mem'.used /\ After(mem', b) \notin mem'.used /\ b # c
      BY <1>1 DEF FreePair
    <2>7. CASE b = new
      <3>1. g \in Heaps /\ new \in InHeap(mem', g, heap_ptr[g])
        <4>1. new < heap_ptr[g] /\ HeapBase[g] <= new
          <5>1. new < After(mem, c) /\ After(mem, c) <= heap_ptr[g] /\ HeapBase[g] <= c /\ c < new
            <6>1. After(mem, c) <= heap_ptr[g] /\ HeapBase[g] <= c
              BY <1>1, OrderLemma DEF InHeap
            <6> QED BY <1>1, <2>2, <6>1 DEF After, new, Header, Footer, MinSplit
          <5>2. After(mem, c) \in Nat /\ heap_ptr[g] \in Nat /\ HeapBase[g] \in Nat
            BY <1>1, OrderLemma, HeapFacts, StateLemma
          <5> QED BY <2>2, <5>1, <5>2, <1>1
        <4> QED BY <1>1, <2>3, <4>1 DEF InHeap
      <3>2. new \in Blocks(mem')
        BY <2>3
      <3>3. h = g
        BY <1>1, <2>6, <2>7, <3>1, <3>2, OrderLemma
      <3>4. FreePair(mem, heap_ptr, g, c)
        BY <1>1, <2>4, <2>6, <2>7, <3>3 DEF FreePair
      <3> QED BY <1>1, <2>4, <2>7, <3>4 DEF Seam
    <2>8. CASE b # new
      <3>1. b \in InHeap(mem, h, heap_ptr[h]) /\ b \in Blocks(mem)
        BY <2>3, <2>6, <2>8 DEF InHeap
      <3>2. After(mem', b) = After(mem, b)
        BY <2>5, <2>6, <3>1
      <3>3. FreePair(mem, heap_ptr, h, b)
        BY <1>1, <2>6, <3>1, <3>2 DEF FreePair
      <3> QED BY <3>1, <3>2, <3>3 DEF Seam
    <2> QED BY <2>7, <2>8
  <1> QED BY <1>2, <1>3

LEMMA GrowApart ==
    ASSUME IInv, Grow, NEW h \in Heaps, NEW d, FreePair(mem', heap_ptr', h, d)
    PROVE  Seam(mem, heap_ptr, After(mem', d))
  <1> DEFINE b == heap_ptr[heap_idx]
  <1>1. /\ Chained(mem', heap_ptr') /\ Chained(mem, heap_ptr) /\ b \notin Blocks(mem) /\ b \in Nat
        /\ mem'.used = mem.used \cup {b}
        /\ Blocks(mem') = Blocks(mem) \cup {b}
        /\ \A e \in Blocks(mem) : mem'.size[e] = mem.size[e]
        /\ \A i \in Heaps, e \in Blocks(mem) :
              e \in InHeap(mem', i, heap_ptr'[i]) <=> e \in InHeap(mem, i, heap_ptr[i])
        /\ heap_idx \in Heaps
    BY GrowLemma, StateLemma DEF CallInv
  <1>2. \A i \in Heaps : i # heap_idx => heap_ptr'[i] = heap_ptr[i]
    BY StateLemma DEF Grow
  <1> HIDE DEF b
  <1>3. /\ d \in InHeap(mem', h, heap_ptr'[h]) /\ After(mem', d) < heap_ptr'[h]
        /\ d \notin mem'.used /\ After(mem', d) \notin mem'.used /\ d # b
    BY <1>1 DEF FreePair
  <1>4. d \in InHeap(mem, h, heap_ptr[h]) /\ d \in Blocks(mem)
    BY <1>1, <1>3 DEF InHeap
  <1>5. After(mem', d) = After(mem, d)
    BY <1>1, <1>4 DEF After
  <1>6. After(mem, d) \in InHeap(mem, h, heap_ptr[h]) \cup {heap_ptr[h]}
    BY <1>1, <1>4 DEF Chained, Tiled
  <1>7. After(mem, d) # heap_ptr[h]
    <2> SUFFICES ASSUME After(mem, d) = heap_ptr[h] PROVE FALSE
      OBVIOUS
    <2>1. CASE h = heap_idx
      BY <1>1, <1>3, <1>5, <2>1 DEF b
    <2>2. CASE h # heap_idx
      <3>1. heap_ptr[h] < heap_ptr[h] /\ heap_ptr[h] \in Nat
        BY <1>2, <1>3, <1>5, <2>2, StateLemma
      <3> QED BY <3>1
    <2> QED BY <2>1, <2>2
  <1>8. FreePair(mem, heap_ptr, h, d)
    BY <1>1, <1>3, <1>4, <1>5, <1>6, <1>7 DEF FreePair, InHeap
  <1> QED BY <1>4, <1>5, <1>8 DEF Seam

\* kfree: and at a new place only next to a large one.
LEMMA FreeApart ==
    ASSUME IInv, NEW b \in Blocks(mem), kfree(b),
           NEW k \in Heaps, NEW y, FreePair(mem', heap_ptr', k, y)
    PROVE  \/ Seam(mem, heap_ptr, After(mem', y))
           \/ Large(mem', y) \/ Large(mem', After(mem', y))
  <1> DEFINE h  == HeapOf(mem, b)
             m1 == Unclaim(mem, b)
             m2 == MergeRight(m1, b, h)
             W  == {a \in Nat : Seam(mem, heap_ptr, a)}
  <1>1. Chained(mem, heap_ptr) /\ Shape(mem, heap_ptr) /\ heap_ptr \in [Heaps -> Nat]
    BY DEF IInv, Chained, Shape
  <1>2. b \in mem.used /\ mem' = MergeLeft(m2, b, h) /\ heap_ptr' = heap_ptr
    BY DEF kfree
  <1>3. h \in Heaps /\ b \in InHeap(mem, h, heap_ptr[h])
    <2>1. PICK g \in Heaps : b \in InHeap(mem, g, heap_ptr[g])
      BY <1>1 DEF Chained
    <2>2. h = g
      BY <1>2, <2>1 DEF IInv, Owned, FlagsTellHeap
    <2> QED BY <2>1, <2>2
  <1>4. m1.size = mem.size /\ m1.foot = mem.foot /\ m1.used = mem.used \ {b}
    BY DEF Unclaim
  <1> HIDE DEF m1, h
  <1>6. m1.used \subseteq Blocks(mem)
    BY <1>1, <1>4 DEF Shape
  <1>7. Chained(m1, heap_ptr) /\ Blocks(m1) = Blocks(mem)
    BY <1>1, <1>4, <1>6, FlagsLemma
  <1>8. b \in InHeap(m1, h, heap_ptr[h])
    BY <1>3, <1>7 DEF InHeap
  <1>9. \A i \in Heaps : \A x : FreePair(m1, heap_ptr, i, x)
            => After(m1, x) \in W \/ x = b \/ After(m1, x) = b
    <2> SUFFICES ASSUME NEW i \in Heaps, NEW x, FreePair(m1, heap_ptr, i, x), x # b, After(m1, x) # b
                 PROVE  After(m1, x) \in W
      OBVIOUS
    <2>1. /\ x \in InHeap(mem, i, heap_ptr[i]) /\ x \in Blocks(mem) /\ After(mem, x) = After(m1, x)
          /\ After(mem, x) \in Nat
      BY <1>1, <1>4, <1>7, OrderLemma DEF FreePair, InHeap, After
    <2>2. FreePair(mem, heap_ptr, i, x)
      BY <1>4, <2>1 DEF FreePair
    <2> QED BY <2>1, <2>2 DEF Seam
  <1>10. b \notin m1.used
    BY <1>4
  <1> HIDE DEF m2, W
  <1>11. /\ Chained(m2, heap_ptr) /\ b \in InHeap(m2, h, heap_ptr[h]) /\ m2.used = m1.used
         /\ \A i \in Heaps : \A x : FreePair(m2, heap_ptr, i, x)
               => After(m2, x) \in W \/ After(m2, x) = b \/ (x = b /\ Large(m2, After(m2, b)))
    <2>1. m2 = MergeRight(m1, b, h)
      BY DEF m2
    <2> QED BY <1>3, <1>7, <1>8, <1>9, <1>10, <2>1, RightApart
  <1>12. \A i \in Heaps : \A x : FreePair(mem', heap_ptr, i, x)
            => After(mem', x) \in W \/ Large(mem', x) \/ Large(mem', After(mem', x))
    <2>1. b \notin m2.used
      BY <1>10, <1>11
    <2> QED BY <1>2, <1>3, <1>11, <2>1, LeftApart
  <1>13. FreePair(mem', heap_ptr, k, y)
    BY <1>2
  <1> QED BY <1>12, <1>13 DEF W

\* Memory that is given back in any order comes together again: two free blocks
\* come to meet at a new place only when one of them is larger than MAX_COALESCE,
\* which is what kfree compares with, however large the heaps grow.
THEOREM FreeBlocksComeTogether == Spec => FreeMemoryMerges
  <1> DEFINE Apart == \A h \in Heaps : \A b \in Blocks(mem') :
                         FreePair(mem', heap_ptr', h, b) /\ ~ Seam(mem, heap_ptr, After(mem', b))
                            => Large(mem', b) \/ Large(mem', After(mem', b))
  <1>1. IInv /\ [Next]_vars => [Apart]_vars
    <2> SUFFICES ASSUME IInv, [Next]_vars, NEW h \in Heaps, NEW b \in Blocks(mem'),
                        FreePair(mem', heap_ptr', h, b)
                 PROVE  \/ Seam(mem, heap_ptr, After(mem', b))
                        \/ Large(mem', b) \/ Large(mem', After(mem', b))
      OBVIOUS
    <2>1. CASE UNCHANGED <<mem, heap_ptr>>
      BY <2>1 DEF Seam
    <2>2. ASSUME NEW d \in Blocks(mem), kfree(d)
          PROVE  \/ Seam(mem, heap_ptr, After(mem', b))
                 \/ Large(mem', b) \/ Large(mem', After(mem', b))
      BY <2>2, FreeApart
    <2> QED BY <2>1, <2>2, TakeApart, GrowApart DEF Next, kmalloc, Malloc, Walk, Bound, vars
  <1> QED BY <1>1, IInvariant, PTL DEF Spec, FreeMemoryMerges

-----------------------------------------------------------------------------
(* The boot (module Boot), where calls of the heap are shown not to overlap. *)

\* What is ready when kmain is at call i.
ReadyAt(i) == UNION {kmain[j].makes : j \in 1 .. i-1}

\* Where kmain is, what that makes ready, and who is called back.
BootInv ==
    /\ at \in 1 .. Len(kmain) + 1 /\ inside \in BOOLEAN /\ (inside => ~ AtEnd)
    /\ ready = ReadyAt(at)
    /\ proc = "polls" \/ proc \in ready
    /\ NothingUsedEarly

\* The calls of kmain, by what they need and make.
LEMMA Calls_of_kmain ==
    /\ Len(kmain) = 15
    /\ kmain[1]  = Does("arch_init",     FALSE, TRUE,  {},                  {})
    /\ kmain[2]  = Does("kheap_init",    FALSE, FALSE, {},                  {"heap"})
    /\ kmain[3]  = Does("usermode_init", TRUE,  FALSE, {"heap"},            {"tss"})
    /\ kmain[4]  = Does("kevent_init",   TRUE,  FALSE, {"heap"},            {"queue"})
    /\ kmain[5]  = Does("kthread_init",  TRUE,  TRUE,  {"heap"},            {"table"})
    /\ kmain[6]  = Does("driver_init",   FALSE, FALSE, {},                  {"drivers"})
    /\ kmain[7]  = Does("blkdev_init",   TRUE,  FALSE, {"heap"},            {"devices"})
    /\ kmain[8]  = Does("ata_init",      TRUE,  FALSE, {"heap", "drivers"}, {})
    /\ kmain[9]  = Does("pci_enumerate",  TRUE, FALSE, {"heap", "drivers", "devices"}, {})
    /\ kmain[10] = Does("kthread_create", TRUE, TRUE,  {"heap", "table"}, {"thread1"})
    /\ kmain[11] = Does("ext2_init",      TRUE, FALSE, {"heap", "devices"}, {})
    /\ kmain[12] = Does("kshell_init",   TRUE,  FALSE, {"heap"},            {})
    /\ kmain[13] = Does("register",      FALSE, FALSE, {"queue"},           {"CHAR"})
    /\ kmain[14] = Does("register",      FALSE, FALSE, {"queue"},           {"KEY"})
    /\ kmain[15] = Does("prompt",        FALSE, FALSE, {},                  {})
<1> DEFINE probes == << Does("pci_enumerate",  TRUE, FALSE, {"heap", "drivers", "devices"}, {}),
                         Does("kthread_create", TRUE, TRUE,  {"heap", "table"}, {"thread1"}),
                         Does("ext2_init",      TRUE, FALSE, {"heap", "devices"}, {}) >>
<1>1. Len(Initcalls) = 8 /\ Len(probes) = 3 /\ Len(kshell_init) = 4
  BY DEF Initcalls, kshell_init
<1>2. kmain = Initcalls \o probes \o kshell_init
  BY DEF kmain
<1> DEFINE calls == {Does("arch_init",     FALSE, TRUE,  {},                  {}),
     Does("kheap_init",    FALSE, FALSE, {},                  {"heap"}),
     Does("usermode_init", TRUE,  FALSE, {"heap"},            {"tss"}),
     Does("kevent_init",   TRUE,  FALSE, {"heap"},            {"queue"}),
     Does("kthread_init",  TRUE,  TRUE,  {"heap"},            {"table"}),
     Does("driver_init",   FALSE, FALSE, {},                  {"drivers"}),
     Does("blkdev_init",   TRUE,  FALSE, {"heap"},            {"devices"}),
     Does("ata_init",      TRUE,  FALSE, {"heap", "drivers"}, {})}
   \cup {probes[1], probes[2], probes[3]} \cup {kshell_init[1], kshell_init[2], kshell_init[3], kshell_init[4]}
<1>3. Initcalls \in Seq(calls)
  BY DEF Initcalls
<1>4. probes \in Seq(calls)
  OBVIOUS
<1>5. kshell_init \in Seq(calls)
  BY DEF kshell_init
<1>6. /\ Initcalls[1]  = Does("arch_init",     FALSE, TRUE,  {},                  {})
      /\ Initcalls[2]  = Does("kheap_init",    FALSE, FALSE, {},                  {"heap"})
      /\ Initcalls[3]  = Does("usermode_init", TRUE,  FALSE, {"heap"},            {"tss"})
      /\ Initcalls[4]  = Does("kevent_init",   TRUE,  FALSE, {"heap"},            {"queue"})
      /\ Initcalls[5]  = Does("kthread_init",  TRUE,  TRUE,  {"heap"},            {"table"})
      /\ Initcalls[6]  = Does("driver_init",   FALSE, FALSE, {},                  {"drivers"})
      /\ Initcalls[7]  = Does("blkdev_init",   TRUE,  FALSE, {"heap"},            {"devices"})
      /\ Initcalls[8]  = Does("ata_init",      TRUE,  FALSE, {"heap", "drivers"}, {})
  BY DEF Initcalls
<1>7. /\ probes[1] = Does("pci_enumerate",  TRUE, FALSE, {"heap", "drivers", "devices"}, {})
      /\ probes[2] = Does("kthread_create", TRUE, TRUE,  {"heap", "table"}, {"thread1"})
      /\ probes[3] = Does("ext2_init",      TRUE, FALSE, {"heap", "devices"}, {})
  OBVIOUS
<1>8. /\ kshell_init[1] = Does("kshell_init",   TRUE,  FALSE, {"heap"},            {})
      /\ kshell_init[2] = Does("register",      FALSE, FALSE, {"queue"},           {"CHAR"})
      /\ kshell_init[3] = Does("register",      FALSE, FALSE, {"queue"},           {"KEY"})
      /\ kshell_init[4] = Does("prompt",        FALSE, FALSE, {},                  {})
  BY DEF kshell_init
<1> HIDE DEF probes, calls
<1> DEFINE front == Initcalls \o probes
<1>9. /\ front \in Seq(calls)
      /\ Len(front) = Len(Initcalls) + Len(probes)
      /\ \A i \in 1 .. Len(Initcalls) + Len(probes) :
            front[i] = IF i <= Len(Initcalls) THEN Initcalls[i] ELSE probes[i - Len(Initcalls)]
  BY <1>3, <1>4, ConcatProperties, Zenon
<1>10. kmain = front \o kshell_init
  BY <1>2
<1> HIDE DEF front
<1>11. /\ Len(kmain) = Len(front) + Len(kshell_init)
       /\ \A i \in 1 .. Len(front) + Len(kshell_init) :
            kmain[i] = IF i <= Len(front) THEN front[i] ELSE kshell_init[i - Len(front)]
  <2>0. front \in Seq(calls)
    BY <1>9
  <2>1. /\ Len(front \o kshell_init) = Len(front) + Len(kshell_init)
        /\ \A i \in 1 .. Len(front) + Len(kshell_init) :
             (front \o kshell_init)[i] = IF i <= Len(front) THEN front[i] ELSE kshell_init[i - Len(front)]
    BY <1>5, <2>0, ConcatProperties, Zenon
  <2> QED BY <2>1, <1>10, Zenon
<1>12. Len(kmain) = 15 /\ Len(front) = 11
  BY <1>1, <1>9, <1>11
<1>13. \A i \in 1 .. 15 : kmain[i] = IF i <= 11 THEN front[i] ELSE kshell_init[i - 11]
  BY <1>1, <1>11, <1>12
<1>14. \A i \in 1 .. 11 : front[i] = IF i <= 8 THEN Initcalls[i] ELSE probes[i - 8]
  BY <1>1, <1>9
<1>15. \A i \in 1 .. 15 : kmain[i] = IF i <= 8 THEN Initcalls[i]
                                     ELSE IF i <= 11 THEN probes[i - 8] ELSE kshell_init[i - 11]
  BY <1>13, <1>14
<1>16. /\ kmain[1] = Initcalls[1] /\ kmain[2] = Initcalls[2] /\ kmain[3] = Initcalls[3]
       /\ kmain[4] = Initcalls[4] /\ kmain[5] = Initcalls[5] /\ kmain[6] = Initcalls[6]
       /\ kmain[7] = Initcalls[7] /\ kmain[8] = Initcalls[8]
       /\ kmain[9] = probes[1] /\ kmain[10] = probes[2] /\ kmain[11] = probes[3]
       /\ kmain[12] = kshell_init[1] /\ kmain[13] = kshell_init[2]
       /\ kmain[14] = kshell_init[3] /\ kmain[15] = kshell_init[4]
  <2> HIDE <1>6, <1>7, <1>8
  <2> QED BY <1>15
<1> QED BY <1>6, <1>7, <1>8, <1>12, <1>16, Zenon

\* What is ready grows by what each call makes.
LEMMA ReadyGrows ==
    ReadyAt(1) = {} /\ \A i \in 1 .. 15 : ReadyAt(i + 1) = ReadyAt(i) \cup kmain[i].makes
<1>1. ReadyAt(1) = {}
  BY DEF ReadyAt
<1>2. ASSUME NEW i \in 1 .. 15 PROVE ReadyAt(i + 1) = ReadyAt(i) \cup kmain[i].makes
  <2>1. 1 .. (i + 1) - 1 = (1 .. i - 1) \cup {i}
    OBVIOUS
  <2> QED BY <2>1 DEF ReadyAt
<1> QED BY <1>1, <1>2

\* The order of the calls: each finds what it needs, the last one that uses the
\* heap comes before the consumers, and the task state before the threads.
LEMMA OrderOfCalls ==
    /\ \A i \in 1 .. 15 : kmain[i].needs \subseteq ReadyAt(i)
    /\ \A i \in 1 .. 15 : kmain[i].heap => "CHAR" \notin ReadyAt(i)
    /\ \A i \in 1 .. 16 : "table" \in ReadyAt(i) => "tss" \in ReadyAt(i)
<1> USE DEF Does
<1>1. ReadyAt(2) = {} /\ ReadyAt(3) = {"heap"}
  BY ReadyGrows, Calls_of_kmain
<1>2. ReadyAt(4) = {"heap", "tss"}
  BY <1>1, ReadyGrows, Calls_of_kmain
<1>3. ReadyAt(5) = {"heap", "tss", "queue"}
  BY <1>2, ReadyGrows, Calls_of_kmain
<1>4. ReadyAt(6) = {"heap", "tss", "queue", "table"}
  BY <1>3, ReadyGrows, Calls_of_kmain
<1>5. ReadyAt(7) = {"heap", "tss", "queue", "table", "drivers"}
  BY <1>4, ReadyGrows, Calls_of_kmain
<1> DEFINE all == {"heap", "tss", "queue", "table", "drivers", "devices"}
<1>6. ReadyAt(8) = all /\ ReadyAt(9) = all /\ ReadyAt(10) = all
  BY <1>5, ReadyGrows, Calls_of_kmain
<1>7. ReadyAt(11) = all \cup {"thread1"} /\ ReadyAt(12) = all \cup {"thread1"} /\ ReadyAt(13) = all \cup {"thread1"}
  BY <1>6, ReadyGrows, Calls_of_kmain
<1>8. /\ ReadyAt(14) = all \cup {"thread1", "CHAR"}
      /\ ReadyAt(15) = all \cup {"thread1", "CHAR", "KEY"} /\ ReadyAt(16) = all \cup {"thread1", "CHAR", "KEY"}
  BY <1>7, ReadyGrows, Calls_of_kmain
<1>9. \A i \in 1 .. 15 : kmain[i].needs \subseteq ReadyAt(i)
  <2>1. \A i \in 1 .. 5 : kmain[i].needs \subseteq ReadyAt(i)
    BY <1>1, <1>2, <1>3, <1>4, ReadyGrows, Calls_of_kmain
  <2>2. \A i \in 6 .. 10 : kmain[i].needs \subseteq ReadyAt(i)
    BY <1>4, <1>5, <1>6, Calls_of_kmain
  <2>3. \A i \in 11 .. 15 : kmain[i].needs \subseteq ReadyAt(i)
    BY <1>7, <1>8, Calls_of_kmain
  <2> QED BY <2>1, <2>2, <2>3
<1>10. \A i \in 1 .. 15 : kmain[i].heap => "CHAR" \notin ReadyAt(i)
  <2>1. \A i \in 1 .. 5 : "CHAR" \notin ReadyAt(i)
    BY <1>1, <1>2, <1>3, ReadyGrows
  <2>2. \A i \in 6 .. 12 : "CHAR" \notin ReadyAt(i)
    BY <1>4, <1>5, <1>6, <1>7
  <2>3. \A i \in 13 .. 15 : ~ kmain[i].heap
    BY Calls_of_kmain
  <2> QED BY <2>1, <2>2, <2>3
<1>11. \A i \in 1 .. 16 : "table" \in ReadyAt(i) => "tss" \in ReadyAt(i)
  BY <1>1, <1>2, <1>3, <1>4, <1>5, <1>6, <1>7, <1>8, ReadyGrows
<1> QED BY <1>9, <1>10, <1>11

LEMMA BootInductive == BootInv /\ [BootNext]_boot_vars => BootInv'
<1> SUFFICES ASSUME BootInv, [BootNext]_boot_vars PROVE BootInv'
  OBVIOUS
<1>0. Len(kmain) = 15 /\ at \in 1 .. 16 /\ ready = ReadyAt(at)
  BY Calls_of_kmain DEF BootInv
<1>1. CASE Begin
  <2>1. at \in 1 .. 15
    BY <1>0, <1>1 DEF Begin, AtEnd
  <2>2. early' = early
    BY <1>0, <1>1, <2>1, OrderOfCalls DEF Begin
  <2> QED BY <1>0, <1>1, <2>1, <2>2 DEF Begin, BootInv, AtEnd, NothingUsedEarly
<1>2. CASE End
  <2>1. at \in 1 .. 15
    BY <1>0, <1>2 DEF End, BootInv, AtEnd
  <2>2. ready' = ReadyAt(at')
    BY <1>0, <1>2, <2>1, ReadyGrows DEF End
  <2>3. proc' = "polls" \/ proc' \in ready'
    BY <1>2 DEF End, BootInv
  <2>4. at' \in 1 .. Len(kmain) + 1 /\ inside' = FALSE
    BY <1>0, <1>2, <2>1 DEF End
  <2>5. NothingUsedEarly'
    BY <1>2 DEF End, BootInv, NothingUsedEarly
  <2> QED BY <2>2, <2>3, <2>4, <2>5 DEF BootInv
<1>3. CASE Dispatch
  BY <1>3 DEF Dispatch, BootInv, AtEnd, NothingUsedEarly
<1>4. CASE CallbackDone
  BY <1>4 DEF CallbackDone, BootInv, AtEnd, NothingUsedEarly
<1>5. CASE Timer
  <2>1. early' = early
    BY <1>0, <1>5, OrderOfCalls DEF Timer
  <2> QED BY <1>5, <2>1 DEF Timer, BootInv, AtEnd, NothingUsedEarly
<1>6. CASE Key
  BY <1>6 DEF Key, BootInv, AtEnd, NothingUsedEarly
<1>7. CASE UNCHANGED boot_vars
  BY <1>7 DEF boot_vars, BootInv, AtEnd, NothingUsedEarly
<1> QED BY <1>1, <1>2, <1>3, <1>4, <1>5, <1>6, <1>7 DEF BootNext

THEOREM BootInvariant == BootSpec => []BootInv
<1>1. BootInit => BootInv
  <2> SUFFICES ASSUME BootInit PROVE BootInv
    OBVIOUS
  <2>1. at \in 1 .. Len(kmain) + 1 /\ inside = FALSE
    BY Calls_of_kmain DEF BootInit
  <2>2. ready = ReadyAt(at)
    BY ReadyGrows DEF BootInit
  <2> QED BY <2>1, <2>2 DEF BootInit, BootInv, NothingUsedEarly
<1> QED BY <1>1, BootInductive, PTL DEF BootSpec

\* kmalloc and kfree take no lock, and a thread can be preempted inside them;
\* yet no two threads are ever inside together, whatever keys are pressed and
\* however long the queue: this is what module KHeap takes for granted.
THEOREM HeapHasOneUser == BootSpec => []HeapExclusive
<1>1. BootInv => HeapExclusive
  <2> SUFFICES ASSUME BootInv PROVE HeapExclusive
    OBVIOUS
  <2>1. ~ (inside /\ kmain[at].heap /\ proc = "CHAR")
    <3> SUFFICES ASSUME inside, kmain[at].heap, proc = "CHAR" PROVE FALSE
      OBVIOUS
    <3>1. at \in 1 .. 15
      BY Calls_of_kmain DEF BootInv, AtEnd
    <3> QED BY <3>1, OrderOfCalls DEF BootInv
  <2>2. HeapUsers = {} \/ HeapUsers = {0} \/ HeapUsers = {1}
    BY <2>1 DEF HeapUsers
  <2> QED BY <2>2, FS_EmptySet, FS_Singleton DEF HeapExclusive
<1> QED BY <1>1, BootInvariant, PTL

\* Everything is ready when it is used, by kmain and by the interrupts that are
\* enabled from the first call on, but for a queue that an early key needs.
THEOREM ReadyWhenUsed == BootSpec => []NothingUsedEarly
<1>1. BootInv => NothingUsedEarly
  BY DEF BootInv
<1> QED BY <1>1, BootInvariant, PTL
=============================================================================
