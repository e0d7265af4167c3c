-------------------------- MODULE RingBufferProofs --------------------------
(***************************************************************************)
(* The ring buffer and its two users.                                      *)
(*                                                                         *)
(* What the ring operators do to the sequence a ring holds, for rings of   *)
(* every size: rb_put appends or refuses, advancing the tail removes the   *)
(* oldest element.                                                         *)
(*                                                                         *)
(* Theorems about the input path of KEvent, for every size of the ring and *)
(* of the consumer table.                                                  *)
(*                                                                         *)
(* Theorems about Serial: for every size of the ring, depth of the FIFO    *)
(* and number of bytes, the bytes leave in the order in which they were    *)
(* put, unless the one race that `raced' names has happened.               *)
(***************************************************************************)
EXTENDS KEvent, Serial, SequenceTheorems, TLAPS

\* The modulo of the code is a wrap to 0 and nothing else.
LEMMA WrapLemma ==
    ASSUME NEW n \in Nat \ {0}, NEW j \in 0 .. n-1
    PROVE  /\ j + 1 = n => (j + 1) % n = 0
           /\ j + 1 # n => (j + 1) % n = j + 1
  OBVIOUS

\* NextSlot stays inside the storage and wraps at its end.
LEMMA NextSlotLemma ==
    ASSUME NEW n \in Nat \ {0}, NEW E, NEW rb \in Ring(n, E), NEW j \in 0 .. n-1
    PROVE  /\ NextSlot(rb, j) \in 0 .. n-1
           /\ NextSlot(rb, j) = IF j + 1 = n THEN 0 ELSE j + 1
  <1>1. rb.size = n
    BY DEF Ring
  <1> QED
    BY <1>1, WrapLemma DEF NextSlot

\* The length of the sequence: one slot is always unused.
LEMMA CountLemma ==
    ASSUME NEW n \in Nat \ {0}, NEW E, NEW rb \in Ring(n, E)
    PROVE  /\ RbCount(rb) \in 0 .. n-1
           /\ rb_empty(rb) <=> RbCount(rb) = 0
           /\ rb_full(rb)  <=> RbCount(rb) = n - 1
           /\ \A k \in 0 .. n-1 : RbSlot(rb, k) \in 0 .. n-1
           /\ RbSlot(rb, 0) = rb.tail
           /\ ~ rb_full(rb) => RbSlot(rb, RbCount(rb)) = rb.head
           /\ \A k \in 0 .. RbCount(rb)-1 : RbSlot(rb, k) # rb.head
  <1>1. /\ rb.size = n
        /\ rb.head \in 0 .. n-1
        /\ rb.tail \in 0 .. n-1
    BY DEF Ring
  <1>2. /\ rb.head + 1 = n => (rb.head + 1) % n = 0
        /\ rb.head + 1 # n => (rb.head + 1) % n = rb.head + 1
    BY <1>1, WrapLemma
  <1>3. rb_full(rb) <=> RbCount(rb) = n - 1
    <2>1. CASE rb.head + 1 = n
      BY <2>1, <1>1, <1>2 DEF rb_full, RbCount
    <2>2. CASE rb.head + 1 # n
      BY <2>2, <1>1, <1>2 DEF rb_full, RbCount
    <2> QED
      BY <2>1, <2>2
  <1>4. RbCount(rb) \in 0 .. n-1
    BY <1>1 DEF RbCount
  <1>5. rb_empty(rb) <=> RbCount(rb) = 0
    BY <1>1 DEF RbCount, rb_empty
  <1>6. \A k \in 0 .. n-1 : RbSlot(rb, k) \in 0 .. n-1
    BY <1>1 DEF RbSlot
  <1>7. RbSlot(rb, 0) = rb.tail /\ RbSlot(rb, RbCount(rb)) = rb.head
    BY <1>1 DEF RbSlot, RbCount
  <1>8. \A k \in 0 .. RbCount(rb)-1 : RbSlot(rb, k) # rb.head
    BY <1>1 DEF RbSlot, RbCount
  <1> QED
    BY <1>3, <1>4, <1>5, <1>6, <1>7, <1>8

\* The sequence is a sequence over E, and its head is the slot at the tail.
LEMMA SeqLemma ==
    ASSUME NEW n \in Nat \ {0}, NEW E, NEW rb \in Ring(n, E)
    PROVE  /\ RbSeq(rb) \in Seq(E)
           /\ Len(RbSeq(rb)) = RbCount(rb)
           /\ ~ rb_empty(rb) => Head(RbSeq(rb)) = rb_first(rb)
  <1>1. /\ RbCount(rb) \in 0 .. n-1
        /\ rb_empty(rb) <=> RbCount(rb) = 0
        /\ \A k \in 0 .. n-1 : RbSlot(rb, k) \in 0 .. n-1
        /\ RbSlot(rb, 0) = rb.tail
    BY CountLemma
  <1>2. rb.data \in [0 .. n-1 -> E]
    BY DEF Ring
  <1>3. \A k \in 1 .. RbCount(rb) : rb.data[RbSlot(rb, k - 1)] \in E
    <2> SUFFICES ASSUME NEW k \in 1 .. RbCount(rb)
                 PROVE  rb.data[RbSlot(rb, k - 1)] \in E
      OBVIOUS
    <2>1. k - 1 \in 0 .. n-1
      BY <1>1
    <2> QED
      BY <2>1, <1>1, <1>2
  <1>4. RbSeq(rb) \in Seq(E)
    <2>1. RbSeq(rb) \in [1 .. RbCount(rb) -> E]
      BY <1>3 DEF RbSeq
    <2>2. RbCount(rb) \in Nat
      BY <1>1
    <2> QED
      BY <2>1, <2>2, SeqDef, Zenon
  <1>5. Len(RbSeq(rb)) = RbCount(rb)
    BY <1>1, <1>4 DEF RbSeq
  <1>6. ASSUME ~ rb_empty(rb) PROVE Head(RbSeq(rb)) = rb_first(rb)
    <2>1. 1 \in 1 .. RbCount(rb) /\ 1 - 1 = 0
      BY <1>1, <1>6
    <2>2. RbSeq(rb)[1] = rb.data[RbSlot(rb, 0)]
      BY <2>1 DEF RbSeq
    <2>3. Head(RbSeq(rb)) = RbSeq(rb)[1]
      BY <1>4, <1>5, <2>1
    <2> QED
      BY <2>2, <2>3, <1>1 DEF rb_first
  <1> QED
    BY <1>4, <1>5, <1>6

\* rb_put keeps the shape of the ring, refuses exactly when n - 1 elements
\* wait, and otherwise appends; the slot at the tail is never written.
LEMMA PutLemma ==
    ASSUME NEW n \in Nat \ {0}, NEW E, NEW rb \in Ring(n, E), NEW e \in E
    PROVE  /\ rb_put(rb, e) \in Ring(n, E)
           /\ rb_put(rb, e).tail = rb.tail
           /\ ~ rb_empty(rb) => /\ ~ rb_empty(rb_put(rb, e))
                                /\ rb_first(rb_put(rb, e)) = rb_first(rb)
           /\ RbSeq(rb_put(rb, e)) = IF Len(RbSeq(rb)) < n - 1
                                     THEN Append(RbSeq(rb), e)
                                     ELSE RbSeq(rb)
  <1> DEFINE q == rb_put(rb, e)
             h == NextSlot(rb, rb.head)
  <1>1. /\ rb.size = n
        /\ rb.head \in 0 .. n-1
        /\ rb.tail \in 0 .. n-1
        /\ rb.data \in [0 .. n-1 -> E]
    BY DEF Ring
  <1>2. /\ RbCount(rb) \in 0 .. n-1
        /\ rb_empty(rb) <=> RbCount(rb) = 0
        /\ rb_full(rb) <=> RbCount(rb) = n - 1
        /\ \A k \in 0 .. n-1 : RbSlot(rb, k) \in 0 .. n-1
        /\ RbSlot(rb, 0) = rb.tail
        /\ ~ rb_full(rb) => RbSlot(rb, RbCount(rb)) = rb.head
        /\ \A k \in 0 .. RbCount(rb)-1 : RbSlot(rb, k) # rb.head
    BY CountLemma
  <1>3. RbSeq(rb) \in Seq(E) /\ Len(RbSeq(rb)) = RbCount(rb)
    BY SeqLemma
  <1>4. CASE rb_full(rb)
    BY <1>4, <1>2, <1>3 DEF rb_put
  <1>5. CASE ~ rb_full(rb)
    <2>1. /\ h \in 0 .. n-1
          /\ h = IF rb.head + 1 = n THEN 0 ELSE rb.head + 1
      BY <1>1, NextSlotLemma
    <2> DEFINE d == [rb.data EXCEPT ![rb.head] = e]
    <2>2. Fill(rb, e) = [data |-> d, head |-> rb.head, tail |-> rb.tail, size |-> n]
      <3>1. rb = [data |-> rb.data, head |-> rb.head, tail |-> rb.tail, size |-> n]
        BY DEF Ring
      <3>2. Fill(rb, e) = [rb EXCEPT !.data = d]
        BY DEF Fill
      <3> QED
        BY <3>1, <3>2
    <2>3. /\ q \in Ring(n, E)
          /\ q.tail = rb.tail /\ q.head = h /\ q.size = n
          /\ q.data = [rb.data EXCEPT ![rb.head] = e]
      <3>1. q = [Fill(rb, e) EXCEPT !.head = NextSlot(Fill(rb, e), Fill(rb, e).head)]
        BY <1>5 DEF rb_put, AdvanceHead
      <3>2. NextSlot(Fill(rb, e), Fill(rb, e).head) = h
        BY <2>2, <1>1 DEF NextSlot
      <3>3. q = [data |-> d, head |-> h, tail |-> rb.tail, size |-> n]
        BY <3>1, <3>2, <2>2
      <3>4. d \in [0 .. n-1 -> E]
        BY <1>1
      <3> QED
        BY <3>3, <3>4, <2>1, <1>1 DEF Ring
    <2>4. RbCount(q) = RbCount(rb) + 1
      <3> HIDE DEF q, h
      <3>1. ~ (rb.head + 1 = n /\ rb.tail = 0) /\ rb.head + 1 # rb.tail
        <4>1. RbCount(rb) # n - 1
          BY <1>2, <1>5
        <4> QED
          BY <4>1, <1>1 DEF RbCount
      <3>2. q.head = h /\ q.tail = rb.tail /\ q.size = n
        BY <2>3
      <3>3. CASE rb.head + 1 = n
        <4>1. h = 0
          BY <3>3, <2>1
        <4> QED
          BY <4>1, <3>1, <3>2, <3>3, <1>1 DEF RbCount
      <3>4. CASE rb.head + 1 # n
        <4>1. h = rb.head + 1
          BY <3>4, <2>1
        <4> QED
          BY <4>1, <3>1, <3>2, <3>4, <1>1 DEF RbCount
      <3> QED
        BY <3>3, <3>4
    <2>5. \A k \in 0 .. n-1 : RbSlot(q, k) = RbSlot(rb, k)
      BY <2>3, <1>1 DEF RbSlot
    <2>6. ASSUME ~ rb_empty(rb)
          PROVE  ~ rb_empty(q) /\ rb_first(q) = rb_first(rb)
      <3>1. ~ rb_empty(q)
        BY <2>3, <2>4, <1>2, CountLemma
      <3>2. rb.tail # rb.head
        BY <2>6 DEF rb_empty
      <3> QED
        BY <3>1, <3>2, <2>3, <1>1 DEF rb_first
    <2>7. RbSeq(q) = Append(RbSeq(rb), e)
      <3>1. RbSeq(q) \in Seq(E) /\ Len(RbSeq(q)) = RbCount(rb) + 1
        BY <2>3, <2>4, SeqLemma
      <3>2. ASSUME NEW k \in 1 .. RbCount(rb) + 1
            PROVE  RbSeq(q)[k] = Append(RbSeq(rb), e)[k]
        <4>1. k - 1 \in 0 .. n-1 /\ k \in 1 .. RbCount(q)
          BY <1>2, <1>5, <2>4
        <4>2. RbSeq(q)[k] = q.data[RbSlot(rb, k - 1)]
          BY <4>1, <2>5 DEF RbSeq
        <4>3. CASE k = RbCount(rb) + 1
          <5>1. RbSlot(rb, k - 1) = rb.head
            BY <4>3, <1>2, <1>5
          <5>2. q.data[rb.head] = e
            BY <2>3, <1>1
          <5> QED
            BY <5>1, <5>2, <4>2, <4>3, <1>3
        <4>4. CASE k # RbCount(rb) + 1
          <5>1. k \in 1 .. RbCount(rb) /\ k - 1 \in 0 .. RbCount(rb) - 1
            BY <4>4, <1>2
          <5>2. RbSlot(rb, k - 1) # rb.head /\ RbSlot(rb, k - 1) \in 0 .. n-1
            BY <5>1, <4>1, <1>2
          <5>3. q.data[RbSlot(rb, k - 1)] = rb.data[RbSlot(rb, k - 1)]
            BY <5>2, <2>3, <1>1
          <5>4. RbSeq(rb)[k] = rb.data[RbSlot(rb, k - 1)]
            BY <5>1 DEF RbSeq
          <5> QED
            BY <5>1, <5>3, <5>4, <4>2, <1>3
        <4> QED
          BY <4>3, <4>4
      <3> QED
        BY <3>1, <3>2, <1>3
    <2> QED
      BY <2>3, <2>6, <2>7, <1>2, <1>3, <1>5
  <1> QED
    BY <1>4, <1>5

\* Advancing the tail of a ring that is not empty removes the oldest element.
LEMMA GetLemma ==
    ASSUME NEW n \in Nat \ {0}, NEW E, NEW rb \in Ring(n, E), ~ rb_empty(rb)
    PROVE  /\ AdvanceTail(rb) \in Ring(n, E)
           /\ RbSeq(rb) # << >>
           /\ RbSeq(AdvanceTail(rb)) = Tail(RbSeq(rb))
  <1> DEFINE q == AdvanceTail(rb)
             t == NextSlot(rb, rb.tail)
  <1>1. /\ rb.size = n
        /\ rb.head \in 0 .. n-1
        /\ rb.tail \in 0 .. n-1
        /\ rb.data \in [0 .. n-1 -> E]
    BY DEF Ring
  <1>2. /\ t \in 0 .. n-1
        /\ t = IF rb.tail + 1 = n THEN 0 ELSE rb.tail + 1
    BY <1>1, NextSlotLemma
  <1>3. q \in Ring(n, E) /\ q.tail = t /\ q.head = rb.head /\ q.size = n /\ q.data = rb.data
    BY <1>1, <1>2 DEF Ring, AdvanceTail
  <1>4. RbCount(rb) \in 1 .. n-1
    BY CountLemma
  <1>5. RbCount(q) = RbCount(rb) - 1
    BY <1>1, <1>2, <1>3, <1>4 DEF RbCount, rb_empty
  <1>6. /\ RbSeq(rb) \in Seq(E) /\ Len(RbSeq(rb)) = RbCount(rb)
        /\ RbSeq(q) \in Seq(E) /\ Len(RbSeq(q)) = RbCount(rb) - 1
    <2>1. RbSeq(rb) \in Seq(E) /\ Len(RbSeq(rb)) = RbCount(rb)
      BY SeqLemma
    <2>2. q \in Ring(n, E)
      BY <1>3
    <2> HIDE DEF q
    <2>3. RbSeq(q) \in Seq(E) /\ Len(RbSeq(q)) = RbCount(q)
      BY <2>2, SeqLemma
    <2> QED
      BY <2>1, <2>3, <1>5
  <1>7. ASSUME NEW k \in 1 .. RbCount(rb) - 1
        PROVE  RbSeq(q)[k] = Tail(RbSeq(rb))[k]
    <2>1. k + 1 \in 1 .. RbCount(rb) /\ k \in 1 .. RbCount(q) /\ (k + 1) - 1 = k
      BY <1>4, <1>5
    <2>2. RbSeq(rb)[k + 1] = rb.data[RbSlot(rb, k)]
      BY <2>1 DEF RbSeq
    <2>3. RbSeq(q)[k] = rb.data[RbSlot(q, k - 1)]
      BY <2>1, <1>3 DEF RbSeq
    <2>4. RbSlot(q, k - 1) = RbSlot(rb, k)
      BY <1>1, <1>2, <1>3, <1>4 DEF RbSlot
    <2>5. Tail(RbSeq(rb))[k] = RbSeq(rb)[k + 1]
      BY <1>4, <1>6
    <2> QED
      BY <2>2, <2>3, <2>4, <2>5
  <1> QED
    BY <1>3, <1>4, <1>6, <1>7

-----------------------------------------------------------------------------
(***************************************************************************)
(* The input path of module KEvent.                                        *)
(***************************************************************************)

\* What waits in the ring are events.  The type of the ring alone does not say
\* so: the slots outside tail .. head hold what memory held before.
QueueOfEvents == RbSeq(kinput_rb) \in Seq(Event)

\* Thread 0 past its test has a slot to fill, and then has filled it.
Registering ==
    /\ regpc = "slot"  => con_idx < MaxConsumers /\ reg \in Consumer
    /\ regpc = "index" => /\ con_idx < MaxConsumers
                          /\ consumers[con_idx] \in Consumer

IInv == /\ TypeOK
        /\ NoTornEvent
        /\ RegisteredConsumersReady
        /\ QueueOfEvents
        /\ Registering
        /\ pc = "dispatch" => i <= con_idx

-----------------------------------------------------------------------------
Slots == Ring(BufSize, Event \cup {NoEvent})

\* kinput is Put of the abstract queue, and leaves the oldest event alone.
LEMMA KinputLemma ==
    ASSUME NEW rb \in Slots, RbSeq(rb) \in Seq(Event), NEW e \in Event
    PROVE  /\ kinput(rb, e) \in Slots
           /\ RbSeq(kinput(rb, e)) \in Seq(Event)
           /\ RbSeq(kinput(rb, e)) = Service!Put(RbSeq(rb), e)
           /\ ~ rb_empty(rb) => /\ ~ rb_empty(kinput(rb, e))
                                /\ rb_first(kinput(rb, e)) = rb_first(rb)
  <1>1. BufSize \in Nat \ {0} /\ e \in Event \cup {NoEvent}
    BY BufSizeAssumption
  <1>2. /\ rb_put(rb, e) \in Slots
        /\ ~ rb_empty(rb) => /\ ~ rb_empty(rb_put(rb, e))
                             /\ rb_first(rb_put(rb, e)) = rb_first(rb)
        /\ RbSeq(rb_put(rb, e)) = IF Len(RbSeq(rb)) < BufSize - 1
                                  THEN Append(RbSeq(rb), e)
                                  ELSE RbSeq(rb)
    BY <1>1, PutLemma DEF Slots
  <1>3. Append(RbSeq(rb), e) \in Seq(Event)
    OBVIOUS
  <1> QED
    BY <1>2, <1>3 DEF kinput, Service!Put

\* What one interrupt does: it offers one event, or two back to back.
LEMMA InterruptLemma ==
    ASSUME IInv, ps2_irq \/ serial_irq
    PROVE  /\ kinput_rb' \in Slots
           /\ RbSeq(kinput_rb') \in Seq(Event)
           /\ ~ rb_empty(kinput_rb) => /\ ~ rb_empty(kinput_rb')
                                       /\ rb_first(kinput_rb') = rb_first(kinput_rb)
           /\ \E e, f \in Event :
                RbSeq(kinput_rb') \in {Service!Put(RbSeq(kinput_rb), e),
                                       Service!Put(Service!Put(RbSeq(kinput_rb), e), f)}
           /\ UNCHANGED <<procVars, regVars>>
  <1>1. kinput_rb \in Slots /\ RbSeq(kinput_rb) \in Seq(Event)
    BY DEF IInv, TypeOK, QueueOfEvents, Slots
  <1>2. \A k \in Keys : KeyEvent(k) \in Event
    BY DEF Event
  <1>3. \A c \in Chars : CharEvent(c) \in Event
    BY DEF Event
  <1>4. ASSUME NEW e \in Event, kinput_rb' = kinput(kinput_rb, e)
        PROVE  /\ kinput_rb' \in Slots
               /\ RbSeq(kinput_rb') \in Seq(Event)
               /\ ~ rb_empty(kinput_rb) => /\ ~ rb_empty(kinput_rb')
                                           /\ rb_first(kinput_rb') = rb_first(kinput_rb)
               /\ RbSeq(kinput_rb') = Service!Put(RbSeq(kinput_rb), e)
    BY <1>1, <1>4, KinputLemma
  <1>5. ASSUME NEW e \in Event, NEW f \in Event,
               kinput_rb' = kinput(kinput(kinput_rb, e), f)
        PROVE  /\ kinput_rb' \in Slots
               /\ RbSeq(kinput_rb') \in Seq(Event)
               /\ ~ rb_empty(kinput_rb) => /\ ~ rb_empty(kinput_rb')
                                           /\ rb_first(kinput_rb') = rb_first(kinput_rb)
               /\ RbSeq(kinput_rb') = Service!Put(Service!Put(RbSeq(kinput_rb), e), f)
    <2> DEFINE rb == kinput(kinput_rb, e)
    <2>1. /\ rb \in Slots
          /\ RbSeq(rb) \in Seq(Event)
          /\ ~ rb_empty(kinput_rb) => ~ rb_empty(rb) /\ rb_first(rb) = rb_first(kinput_rb)
          /\ RbSeq(rb) = Service!Put(RbSeq(kinput_rb), e)
      BY <1>1, KinputLemma
    <2> HIDE DEF rb
    <2>2. kinput_rb' = kinput(rb, f)
      BY <1>5 DEF rb
    <2>3. /\ kinput(rb, f) \in Slots
          /\ RbSeq(kinput(rb, f)) \in Seq(Event)
          /\ ~ rb_empty(rb) => /\ ~ rb_empty(kinput(rb, f))
                               /\ rb_first(kinput(rb, f)) = rb_first(rb)
          /\ RbSeq(kinput(rb, f)) = Service!Put(RbSeq(rb), f)
      BY <2>1, KinputLemma
    <2> QED
      BY <2>1, <2>2, <2>3
  <1>6. CASE serial_irq
    <2>1. PICK c \in Chars : kinput_rb' = kinput(kinput_rb, CharEvent(c))
      BY <1>6 DEF serial_irq
    <2> QED
      BY <1>3, <1>4, <1>6, <2>1 DEF serial_irq
  <1>7. CASE ps2_irq
    <2>1. PICK k \in Keys : \/ kinput_rb' = kinput(kinput_rb, KeyEvent(k))
                            \/ \E c \in Chars : kinput_rb' = kinput(kinput(kinput_rb, KeyEvent(k)), CharEvent(c))
      BY <1>7 DEF ps2_irq
    <2>2. UNCHANGED <<procVars, regVars>>
      BY <1>7 DEF ps2_irq
    <2>3. KeyEvent(k) \in Event
      BY <1>2
    <2>4. CASE kinput_rb' = kinput(kinput_rb, KeyEvent(k))
      BY <1>4, <2>2, <2>3, <2>4
    <2>5. CASE \E c \in Chars : kinput_rb' = kinput(kinput(kinput_rb, KeyEvent(k)), CharEvent(c))
      <3>1. PICK c \in Chars : kinput_rb' = kinput(kinput(kinput_rb, KeyEvent(k)), CharEvent(c))
        BY <2>5
      <3>2. CharEvent(c) \in Event
        BY <1>3
      <3> QED
        BY <1>5, <2>2, <2>3, <3>1, <3>2
    <2> QED
      BY <2>1, <2>4, <2>5
  <1> QED
    BY <1>6, <1>7

\* The oldest waiting event, and what is left when the tail moves past it.
LEMMA OldestLemma ==
    ASSUME IInv, ~ rb_empty(kinput_rb)
    PROVE  /\ RbSeq(kinput_rb) # << >>
           /\ rb_first(kinput_rb) \in Event
           /\ rb_first(kinput_rb) = Head(RbSeq(kinput_rb))
           /\ AdvanceTail(kinput_rb) \in Slots
           /\ RbSeq(AdvanceTail(kinput_rb)) = Tail(RbSeq(kinput_rb))
           /\ RbSeq(AdvanceTail(kinput_rb)) \in Seq(Event)
  <1>1. BufSize \in Nat \ {0} /\ kinput_rb \in Slots /\ RbSeq(kinput_rb) \in Seq(Event)
    BY BufSizeAssumption DEF IInv, TypeOK, QueueOfEvents, Slots
  <1>2. /\ AdvanceTail(kinput_rb) \in Slots
        /\ RbSeq(kinput_rb) # << >>
        /\ RbSeq(AdvanceTail(kinput_rb)) = Tail(RbSeq(kinput_rb))
    BY <1>1, GetLemma DEF Slots
  <1>3. rb_first(kinput_rb) = Head(RbSeq(kinput_rb))
    BY <1>1, SeqLemma DEF Slots
  <1>4. /\ Head(RbSeq(kinput_rb)) \in Event
        /\ Tail(RbSeq(kinput_rb)) \in Seq(Event)
    BY <1>1, <1>2
  <1> QED
    BY <1>2, <1>3, <1>4

-----------------------------------------------------------------------------
LEMMA InitIInv == Init => IInv
  <1> SUFFICES ASSUME Init PROVE IInv
    OBVIOUS
  <1> USE BufSizeAssumption, MaxConsumersAssumption
  <1>1. kinput_rb \in Slots /\ RbCount(kinput_rb) = 0
    BY DEF Init, rb_init, Slots, Ring, RbCount
  <1>2. RbSeq(kinput_rb) = << >>
    BY <1>1 DEF RbSeq
  <1>3. RbSeq(kinput_rb) \in Seq(Event)
    BY <1>2
  <1>4. TypeOK
    BY <1>1 DEF Init, TypeOK, Slots, Consumer, NoConsumer, NoEvent, Types
  <1> QED
    BY <1>3, <1>4 DEF Init, IInv, NoTornEvent, RegisteredConsumersReady, QueueOfEvents, Registering

LEMMA NextIInv == IInv /\ [Next]_vars => IInv'
  <1> SUFFICES ASSUME IInv, [Next]_vars PROVE IInv'
    OBVIOUS
  <1> USE MaxConsumersAssumption
  <1>0. TypeOK /\ NoTornEvent /\ RegisteredConsumersReady /\ QueueOfEvents /\ Registering
    BY DEF IInv
  <1>1. CASE ps2_irq \/ serial_irq
    <2>1. /\ kinput_rb' \in Slots
          /\ RbSeq(kinput_rb') \in Seq(Event)
          /\ ~ rb_empty(kinput_rb) => /\ ~ rb_empty(kinput_rb')
                                      /\ rb_first(kinput_rb') = rb_first(kinput_rb)
          /\ UNCHANGED <<procVars, regVars>>
      BY <1>1, InterruptLemma
    <2>2. TypeOK'
      BY <1>0, <2>1 DEF TypeOK, Slots, procVars, regVars
    <2>3. NoTornEvent'
      BY <1>0, <2>1 DEF NoTornEvent, procVars
    <2> QED
      BY <1>0, <2>1, <2>2, <2>3
      DEF IInv, QueueOfEvents, RegisteredConsumersReady, Registering, procVars, regVars
  <1>2. CASE GetTest
    BY <1>0, <1>2
    DEF GetTest, regVars, IInv, TypeOK, NoTornEvent, RegisteredConsumersReady, QueueOfEvents, Registering
  <1>3. CASE CopyType
    <2>1. rb_first(kinput_rb) \in Event /\ ~ rb_empty(kinput_rb)
      BY <1>0, <1>3, OldestLemma DEF NoTornEvent, CopyType
    <2>2. rb_first(kinput_rb).type \in Types
      BY <2>1 DEF Event, KeyEvent, CharEvent, Types
    <2>3. /\ evt' \in [type : Types \cup {"none"}, val : Keys \cup Chars \cup {None}]
          /\ evt'.type = rb_first(kinput_rb).type
      BY <1>0, <1>3, <2>2 DEF CopyType, TypeOK
    <2> QED
      BY <1>0, <1>3, <2>1, <2>3
      DEF CopyType, regVars, IInv, TypeOK, NoTornEvent, RegisteredConsumersReady, QueueOfEvents, Registering
  <1>4. CASE CopyVal
    <2>1. rb_first(kinput_rb) \in Event /\ ~ rb_empty(kinput_rb)
      BY <1>0, <1>4, OldestLemma DEF NoTornEvent, CopyVal
    <2>2. /\ rb_first(kinput_rb) = [type |-> rb_first(kinput_rb).type, val |-> rb_first(kinput_rb).val]
          /\ rb_first(kinput_rb).type \in Types
          /\ rb_first(kinput_rb).val \in Keys \cup Chars
      BY <2>1 DEF Event, KeyEvent, CharEvent, Types
    <2>3. evt' = [type |-> rb_first(kinput_rb).type, val |-> rb_first(kinput_rb).val]
      BY <1>0, <1>4 DEF CopyVal, TypeOK, NoTornEvent
    <2> QED
      BY <1>0, <1>4, <2>1, <2>2, <2>3
      DEF CopyVal, regVars, IInv, TypeOK, NoTornEvent, RegisteredConsumersReady, QueueOfEvents, Registering
  <1>5. CASE GetDone
    <2>1. /\ rb_first(kinput_rb) \in Event
          /\ AdvanceTail(kinput_rb) \in Slots
          /\ RbSeq(AdvanceTail(kinput_rb)) \in Seq(Event)
          /\ evt = rb_first(kinput_rb)
      BY <1>0, <1>5, OldestLemma DEF NoTornEvent, GetDone
    <2> QED
      BY <1>0, <1>5, <2>1
      DEF GetDone, regVars, IInv, TypeOK, NoTornEvent, RegisteredConsumersReady, QueueOfEvents, Registering, Slots
  <1>6. CASE Dispatch \/ DispatchDone
    BY <1>0, <1>6
    DEF Dispatch, DispatchDone, regVars, IInv, TypeOK, NoTornEvent, RegisteredConsumersReady, QueueOfEvents, Registering
  <1>7. CASE kevent_register
    BY <1>0, <1>7
    DEF kevent_register, RegisterTest, RegisterSlot, RegisterIndex, procVars,
        IInv, TypeOK, NoTornEvent, RegisteredConsumersReady, QueueOfEvents, Registering
  <1>8. CASE UNCHANGED vars
    BY <1>0, <1>8
    DEF vars, IInv, TypeOK, NoTornEvent, RegisteredConsumersReady, QueueOfEvents, Registering
  <1> QED
    BY <1>1, <1>2, <1>3, <1>4, <1>5, <1>6, <1>7, <1>8 DEF Next, kevent_proc

THEOREM IInvariant == Spec => []IInv
  BY InitIInv, NextIInv, PTL DEF Spec

\* No index ever leaves its array, whatever the sizes and the interleaving.
THEOREM TypeCorrect == Spec => []TypeOK
  BY IInvariant, PTL DEF IInv

\* rb_get, interrupted anywhere by kinput, never hands out a torn event.
THEOREM NeverTorn == Spec => []NoTornEvent
  BY IInvariant, PTL DEF IInv

\* The dispatch loop never meets a consumer that was not written yet.
THEOREM ConsumersReady == Spec => []RegisteredConsumersReady
  BY IInvariant, PTL DEF IInv

-----------------------------------------------------------------------------
(* The refinement of EventService.                                         *)

\* Every step of KEvent is a step of the abstract service, or none.
LEMMA NextRefines ==
    IInv /\ [Next]_vars => [Service!Next]_(Service!vars)
  <1> SUFFICES ASSUME IInv, [Next]_vars PROVE [Service!Next]_(Service!vars)
    OBVIOUS
  <1> USE MaxConsumersAssumption
  <1>0. TypeOK /\ NoTornEvent /\ RegisteredConsumersReady /\ QueueOfEvents /\ Registering
    BY DEF IInv
  <1>1. CASE ps2_irq \/ serial_irq
    <2>1. /\ \E e, f \in Event :
                RbSeq(kinput_rb') \in {Service!Put(RbSeq(kinput_rb), e),
                                       Service!Put(Service!Put(RbSeq(kinput_rb), e), f)}
          /\ UNCHANGED <<procVars, regVars>>
      BY <1>1, InterruptLemma
    <2>2. Service!Offer
      BY <2>1 DEF Service!Offer, procVars, regVars
    <2> QED
      BY <2>2 DEF Service!Next
  <1>2. CASE GetTest
    BY <1>2 DEF GetTest, regVars, Service!vars
  <1>3. CASE CopyType
    BY <1>3 DEF CopyType, regVars, Service!vars
  <1>4. CASE CopyVal
    BY <1>4 DEF CopyVal, regVars, Service!vars
  <1>5. CASE GetDone
    <2>1. /\ evt = rb_first(kinput_rb) /\ ~ rb_empty(kinput_rb)
          /\ RbSeq(kinput_rb) # << >>
          /\ rb_first(kinput_rb) = Head(RbSeq(kinput_rb))
          /\ RbSeq(AdvanceTail(kinput_rb)) = Tail(RbSeq(kinput_rb))
      BY <1>0, <1>5, OldestLemma DEF NoTornEvent, GetDone
    <2>2. {consumers[j] : j \in 0 .. 0-1} = {}
      OBVIOUS
    <2>3. Service!Take
      BY <1>5, <2>1, <2>2 DEF GetDone, Service!Take, regVars
    <2> QED
      BY <2>3 DEF Service!Next
  <1>6. CASE Dispatch
    <2>1. i \in Nat /\ i + 1 <= con_idx /\ i < con_idx /\ con_idx \in Nat
      BY <1>0, <1>6 DEF Dispatch, TypeOK
    <2>2. {consumers[j] : j \in 0 .. (i+1)-1} = {consumers[j] : j \in 0 .. i-1} \cup {consumers[i]}
      <3>1. 0 .. (i+1)-1 = (0 .. i-1) \cup {i}
        BY <2>1
      <3> QED
        BY <3>1, Zenon
    <2>3. consumers[i] \in {consumers[j] : j \in 0 .. con_idx-1}
      BY <2>1
    <2>4. evt # NoEvent
      BY <1>0, <1>6 DEF Dispatch, NoTornEvent, Event, NoEvent, KeyEvent, CharEvent
    <2> DEFINE called  == {c \in {consumers[j] : j \in 0 .. i-1} : c.type = evt.type}
               called1 == {c \in {consumers[j] : j \in 0 .. (i+1)-1} : c.type = evt.type}
    <2>5. CASE consumers[i].type = evt.type
      <3>1. called1 = called \cup {consumers[i]}
        BY <2>2, <2>5
      <3>2. PICK c \in {consumers[j] : j \in 0 .. con_idx-1} :
                    c.type = evt.type /\ called1 = called \cup {c}
        BY <2>3, <2>5, <3>1
      <3>3. /\ pc = "dispatch" /\ pc' = "dispatch" /\ i' = i + 1
            /\ UNCHANGED <<kinput_rb, evt, consumers, con_idx>>
        BY <1>6 DEF Dispatch, regVars
      <3> HIDE DEF called, called1
      <3>4. (IF pc' = "dispatch"
             THEN {d \in {consumers'[j] : j \in 0 .. i'-1} : d.type = evt'.type}
             ELSE {}) = called1
        BY <3>3 DEF called1
      <3>5. (IF pc = "dispatch"
             THEN {d \in {consumers[j] : j \in 0 .. i-1} : d.type = evt.type}
             ELSE {}) = called
        BY <3>3 DEF called
      <3>6. Service!Call
        BY <2>4, <3>2, <3>3, <3>4, <3>5 DEF Service!Call
      <3> QED
        BY <3>6 DEF Service!Next
    <2>6. CASE consumers[i].type # evt.type
      <3>1. called1 = called
        BY <2>2, <2>6
      <3>2. /\ pc = "dispatch" /\ pc' = "dispatch" /\ i' = i + 1
            /\ UNCHANGED <<kinput_rb, evt, consumers, con_idx>>
        BY <1>6 DEF Dispatch, regVars
      <3> HIDE DEF called, called1
      <3>3. (IF pc' = "dispatch"
             THEN {d \in {consumers'[j] : j \in 0 .. i'-1} : d.type = evt'.type}
             ELSE {}) = called1
        BY <3>2 DEF called1
      <3>4. (IF pc = "dispatch"
             THEN {d \in {consumers[j] : j \in 0 .. i-1} : d.type = evt.type}
             ELSE {}) = called
        BY <3>2 DEF called
      <3> QED
        BY <3>1, <3>2, <3>3, <3>4 DEF Service!vars
    <2> QED
      BY <2>5, <2>6
  <1>7. CASE DispatchDone
    <2>1. i = con_idx
      BY <1>0, <1>7 DEF DispatchDone, TypeOK, IInv
    <2>2. evt # NoEvent
      BY <1>0, <1>7 DEF DispatchDone, NoTornEvent, Event, NoEvent, KeyEvent, CharEvent
    <2>3. Service!Finish
      BY <1>7, <2>1, <2>2 DEF DispatchDone, Service!Finish, regVars
    <2> QED
      BY <2>3 DEF Service!Next
  <1>8. CASE RegisterTest
    BY <1>8 DEF RegisterTest, procVars, Service!vars
  <1>9. CASE RegisterSlot
    <2>1. \A j \in 0 .. con_idx-1 : consumers'[j] = consumers[j]
      BY <1>0, <1>9 DEF RegisterSlot, TypeOK
    <2>2. {consumers'[j] : j \in 0 .. con_idx-1} = {consumers[j] : j \in 0 .. con_idx-1}
      BY <2>1
    <2>3. pc = "dispatch" => \A j \in 0 .. i-1 : consumers'[j] = consumers[j]
      BY <1>0, <2>1 DEF IInv, TypeOK
    <2>4. pc = "dispatch" => {consumers'[j] : j \in 0 .. i-1} = {consumers[j] : j \in 0 .. i-1}
      BY <2>3
    <2> QED
      BY <1>9, <2>2, <2>4 DEF RegisterSlot, procVars, Service!vars
  <1>10. CASE RegisterIndex
    <2>1. con_idx \in Nat /\ consumers[con_idx] \in Consumer
      BY <1>0, <1>10 DEF RegisterIndex, TypeOK, Registering
    <2>2. {consumers[j] : j \in 0 .. (con_idx+1)-1}
            = {consumers[j] : j \in 0 .. con_idx-1} \cup {consumers[con_idx]}
      <3>1. 0 .. (con_idx+1)-1 = (0 .. con_idx-1) \cup {con_idx}
        BY <2>1
      <3> QED
        BY <3>1, Zenon
    <2>3. Service!Subscribe
      BY <1>10, <2>1, <2>2 DEF RegisterIndex, procVars, Service!Subscribe
    <2> QED
      BY <2>3 DEF Service!Next
  <1>11. CASE UNCHANGED vars
    BY <1>11 DEF vars, Service!vars
  <1> QED
    BY <1>1, <1>2, <1>3, <1>4, <1>5, <1>6, <1>7, <1>8, <1>9, <1>10, <1>11
    DEF Next, kevent_proc, kevent_register

LEMMA InitRefines == Init => Service!Init
  <1> SUFFICES ASSUME Init PROVE Service!Init
    OBVIOUS
  <1>1. RbCount(kinput_rb) = 0
    BY BufSizeAssumption DEF Init, rb_init, RbCount
  <1>2. RbSeq(kinput_rb) = << >>
    BY <1>1 DEF RbSeq
  <1>3. {consumers[j] : j \in 0 .. 0-1} = {}
    OBVIOUS
  <1> QED
    BY <1>2, <1>3 DEF Init, Service!Init

\* The ring, the interruptible copy, the loop and the lock-free table
\* implement the bounded FIFO service for every size of ring and table.
THEOREM Refinement == Spec => RefinesEventService
  BY IInvariant, InitRefines, NextRefines, PTL DEF Spec, RefinesEventService, Service!Spec

-----------------------------------------------------------------------------
(***************************************************************************)
(* The transmitter of module Serial.                                       *)
(*                                                                         *)
(* InOrder alone is not inductive.  It says nothing of the slot that       *)
(* rb_put has written and not yet made part of the ring, nor of the copy   *)
(* that rb_get has made of a byte that is still in it; and a burst only    *)
(* fits in the FIFO because "transmitter empty" is a cause only while the  *)
(* FIFO is empty.                                                          *)
(***************************************************************************)

\* The transmitter is a cause only while its FIFO is empty, so that a burst
\* fits; there is a byte to read when the receiver has timed out; and a byte is
\* put only while the bound allows it.
Waits == /\ thre => uart = <<>>
         /\ timeout => rx > 0
         /\ putpc \in {"put", "head"} => puts < MaxPuts

\* What serial_putc has seen of the ring still holds.
Seen == /\ putpc \in {"copy", "tail"} => ~ rb_empty(rb_tx)
        /\ putpc = "tail" => data = rb_first(rb_tx)
        /\ putpc = "head" => ~ rb_full(rb_tx) /\ rb_tx.data[rb_tx.head] = puts + 1

HeldCount == IF putpc = "outb" THEN 1 ELSE 0

\* Where each byte is: the ring ends with the last byte put, the FIFO begins
\* with the first that has not left, and no byte is missing between them.
Numbered == /\ puts - sent = Len(uart) + HeldCount + RbCount(rb_tx)
            /\ \A m \in 1 .. Len(uart) : uart[m] = sent + m
            /\ putpc = "outb" => data = puts - RbCount(rb_tx)
            /\ \A k \in 1 .. RbCount(rb_tx) : RbSeq(rb_tx)[k] = puts - RbCount(rb_tx) + k

SerialInv == SerialTypeOK /\ Waits /\ (~ raced => Seen /\ Numbered)

Byte == 0 .. MaxPuts

-----------------------------------------------------------------------------
(* The ring.                                                               *)

\* The first half of rb_put changes no element of the ring.
LEMMA FillLemma ==
    ASSUME NEW n \in Nat \ {0}, NEW X, NEW rb \in Ring(n, X), NEW e \in X
    PROVE  /\ Fill(rb, e) \in Ring(n, X)
           /\ RbCount(Fill(rb, e)) = RbCount(rb)
           /\ \A k \in 1 .. RbCount(rb) : RbSeq(Fill(rb, e))[k] = RbSeq(rb)[k]
           /\ rb_full(Fill(rb, e)) = rb_full(rb)
           /\ Fill(rb, e).data[Fill(rb, e).head] = e
<1> DEFINE q == Fill(rb, e)
<1>1. /\ rb.data \in [0 .. n-1 -> X] /\ rb.head \in 0 .. n-1 /\ rb.size = n
      /\ rb = [data |-> rb.data, head |-> rb.head, tail |-> rb.tail, size |-> rb.size]
  BY DEF Ring
<1>2. q = [data |-> [rb.data EXCEPT ![rb.head] = e], head |-> rb.head,
           tail |-> rb.tail, size |-> rb.size]
  <2> DEFINE d == [rb.data EXCEPT ![rb.head] = e]
  <2>1. q = [rb EXCEPT !.data = d]
    BY DEF Fill
  <2> HIDE DEF d, q
  <2>2. q = [data |-> d, head |-> rb.head, tail |-> rb.tail, size |-> rb.size]
    BY <1>1, <2>1
  <2> QED BY <2>2 DEF d
<1>3. q \in Ring(n, X)
  BY <1>1, <1>2 DEF Ring
<1>4. RbCount(q) = RbCount(rb) /\ rb_full(q) = rb_full(rb)
  BY <1>2 DEF RbCount, rb_full
<1>5. ASSUME NEW k \in 1 .. RbCount(rb) PROVE RbSeq(q)[k] = RbSeq(rb)[k]
  <2>1. /\ RbCount(rb) \in 0 .. n-1
        /\ \A j \in 0 .. n-1 : RbSlot(rb, j) \in 0 .. n-1
        /\ \A j \in 0 .. RbCount(rb)-1 : RbSlot(rb, j) # rb.head
    BY CountLemma
  <2>2. k - 1 \in 0 .. n-1 /\ k - 1 \in 0 .. RbCount(rb)-1
    BY <2>1
  <2>3. RbSlot(q, k - 1) = RbSlot(rb, k - 1)
    BY <1>2 DEF RbSlot
  <2>4. RbSlot(rb, k - 1) \in 0 .. n-1 /\ RbSlot(rb, k - 1) # rb.head
    BY <2>1, <2>2
  <2>5. q.data[RbSlot(rb, k - 1)] = rb.data[RbSlot(rb, k - 1)]
    BY <1>1, <1>2, <2>4
  <2> QED BY <1>4, <2>3, <2>5 DEF RbSeq
<1>6. q.data[q.head] = e
  BY <1>1, <1>2
<1> HIDE DEF q
<1> QED BY <1>3, <1>4, <1>5, <1>6 DEF q

\* The second half adds the byte that the first half wrote.
LEMMA HeadLemma ==
    ASSUME NEW n \in Nat \ {0}, NEW X, NEW rb \in Ring(n, X), ~ rb_full(rb)
    PROVE  /\ AdvanceHead(rb) \in Ring(n, X)
           /\ RbCount(AdvanceHead(rb)) = RbCount(rb) + 1
           /\ RbSeq(AdvanceHead(rb)) = Append(RbSeq(rb), rb.data[rb.head])
<1> DEFINE e == rb.data[rb.head]
<1>1. /\ rb.data \in [0 .. n-1 -> X] /\ rb.head \in 0 .. n-1
      /\ rb = [data |-> rb.data, head |-> rb.head, tail |-> rb.tail, size |-> rb.size]
  BY DEF Ring
<1>2. e \in X /\ [rb.data EXCEPT ![rb.head] = e] = rb.data
  BY <1>1
<1>3. Fill(rb, e) = rb
  BY <1>1, <1>2 DEF Fill
<1>4. rb_put(rb, e) = AdvanceHead(rb)
  BY <1>3 DEF rb_put
<1>5. RbCount(rb) \in 0 .. n-1 /\ RbCount(rb) # n-1
  BY CountLemma
<1>6. RbSeq(rb) \in Seq(X) /\ Len(RbSeq(rb)) = RbCount(rb)
  BY SeqLemma
<1> HIDE DEF e
<1>7. AdvanceHead(rb) \in Ring(n, X) /\ RbSeq(AdvanceHead(rb)) = Append(RbSeq(rb), e)
  BY <1>2, <1>4, <1>5, <1>6, PutLemma
<1>8. Len(RbSeq(AdvanceHead(rb))) = RbCount(AdvanceHead(rb))
  BY <1>7, SeqLemma
<1> QED BY <1>2, <1>6, <1>7, <1>8 DEF e

\* What the interrupt takes is the front of the ring, and what it leaves is the
\* rest.
LEMMA BurstLemma ==
    ASSUME NEW n \in Nat \ {0}, NEW X, NEW rb \in Ring(n, X)
    PROVE  /\ Burst(rb) \in Seq(X) /\ Len(Burst(rb)) <= Fifo
           /\ Len(Burst(rb)) \in 0 .. RbCount(rb)
           /\ \A k \in 1 .. Len(Burst(rb)) : Burst(rb)[k] = RbSeq(rb)[k]
           /\ After(rb) \in Ring(n, X)
           /\ After(rb).data = rb.data /\ After(rb).head = rb.head
           /\ RbCount(After(rb)) = RbCount(rb) - Len(Burst(rb))
           /\ \A k \in 1 .. RbCount(After(rb)) :
                  RbSeq(After(rb))[k] = RbSeq(rb)[k + Len(Burst(rb))]
<1> DEFINE m == IF RbCount(rb) < Fifo THEN RbCount(rb) ELSE Fifo
           q == After(rb)
<1>1. /\ RbCount(rb) \in 0 .. n-1
      /\ \A j \in 0 .. n-1 : RbSlot(rb, j) \in 0 .. n-1
  BY CountLemma
<1>2. RbSeq(rb) \in Seq(X) /\ Len(RbSeq(rb)) = RbCount(rb)
  BY SeqLemma
<1>3. m \in 0 .. RbCount(rb) /\ m <= Fifo /\ Fifo \in Nat
  BY <1>1, SizesAssumption
<1>4. Burst(rb) = SubSeq(RbSeq(rb), 1, m)
  BY DEF Burst
<1> HIDE DEF m
<1>5. /\ Burst(rb) \in Seq(X) /\ Len(Burst(rb)) = m
      /\ \A k \in 1 .. m : Burst(rb)[k] = RbSeq(rb)[k]
  BY <1>1, <1>2, <1>3, <1>4
<1>6. /\ rb.head \in 0 .. n-1 /\ rb.tail \in 0 .. n-1 /\ rb.size = n
      /\ rb.data \in [0 .. n-1 -> X]
      /\ rb = [data |-> rb.data, head |-> rb.head, tail |-> rb.tail, size |-> rb.size]
  BY DEF Ring
<1>7. /\ q = [data |-> rb.data, head |-> rb.head, tail |-> RbSlot(rb, m), size |-> n]
      /\ RbSlot(rb, m) \in 0 .. n-1
  BY <1>1, <1>3, <1>5, <1>6 DEF After
<1>8. q \in Ring(n, X)
  BY <1>6, <1>7 DEF Ring
<1>9. RbCount(q) = RbCount(rb) - m
  BY <1>3, <1>6, <1>7 DEF RbCount, RbSlot
<1>10. ASSUME NEW k \in 1 .. RbCount(q) PROVE RbSeq(q)[k] = RbSeq(rb)[k + m]
  <2>1. k + m \in 1 .. RbCount(rb) /\ (k + m) - 1 = (k - 1) + m
    BY <1>1, <1>3, <1>9
  <2>2. RbSlot(q, k - 1) = RbSlot(rb, (k + m) - 1)
    <3> DEFINE t == rb.tail
    <3>1. q.tail = (IF t + m < n THEN t + m ELSE t + m - n) /\ q.size = n /\ rb.size = n
      BY <1>6, <1>7 DEF RbSlot
    <3>2. m \in Nat /\ k \in Nat /\ t \in 0 .. n-1 /\ k - 1 + m < n
      BY <1>1, <1>3, <1>6, <2>1
    <3> HIDE DEF t, q, m
    <3>3. RbSlot(q, k - 1) = IF q.tail + (k - 1) < n THEN q.tail + (k - 1) ELSE q.tail + (k - 1) - n
      BY <3>1 DEF RbSlot
    <3>4. RbSlot(rb, (k + m) - 1) = IF t + ((k + m) - 1) < n THEN t + ((k + m) - 1) ELSE t + ((k + m) - 1) - n
      BY <3>1 DEF RbSlot, t
    <3> QED BY <3>1, <3>2, <3>3, <3>4
  <2> QED BY <1>7, <2>1, <2>2 DEF RbSeq
<1> QED BY <1>3, <1>5, <1>7, <1>8, <1>9, <1>10

-----------------------------------------------------------------------------
(* The steps.                                                              *)

LEMMA InitOK == SerialInit => SerialInv
<1> SUFFICES ASSUME SerialInit PROVE SerialInv
  OBVIOUS
<1> USE SizesAssumption DEF SerialInit
<1>1. /\ rb_tx = [data |-> [m \in 0 .. TxSize-1 |-> 0], head |-> 0, tail |-> 0, size |-> TxSize]
      /\ rb_tx \in Ring(TxSize, Byte)
  BY DEF rb_init, Ring, Byte
<1>2. SerialTypeOK
  <2>1. uart = << >> /\ sent = 0 /\ putpc = "out" /\ puts = 0 /\ data = 0
    OBVIOUS
  <2>2. uart \in Seq(0 .. MaxPuts) /\ Len(uart) = 0
    BY <2>1
  <2>3. /\ thre \in BOOLEAN /\ timeout \in BOOLEAN /\ intr \in BOOLEAN /\ raced \in BOOLEAN
        /\ pic = "unset"
    OBVIOUS
  <2>4. rx \in 0 .. RxFifo
    OBVIOUS
  <2> QED BY <1>1, <2>1, <2>2, <2>3, <2>4 DEF SerialTypeOK, Byte
<1>3. RbCount(rb_tx) = 0
  BY <1>1 DEF RbCount
<1> QED BY <1>2, <1>3 DEF SerialInv, Waits, Seen, Numbered, HeldCount

\* What the receiver, the PIC and the interrupt flag can be.
Lines == /\ timeout \in BOOLEAN /\ intr \in BOOLEAN
         /\ rx \in 0 .. RxFifo /\ (timeout => rx > 0)
         /\ pic \in {"unset", "idle", "request"}

\* serial_irq reads a byte only when one is there.
LEMMA LinesOK == ASSUME SerialInv, [SerialNext]_serial_vars PROVE Lines'
<1>1. /\ Lines /\ rx \in Nat /\ RxFifo \in Nat /\ RxTrigger \in Nat \ {0}
  BY SizesAssumption DEF SerialInv, SerialTypeOK, Waits, Lines
<1>2. CASE serial_irq_rx /\ com1_irq
  <2>1. rx > 0
    BY <1>1, <1>2 DEF Lines, Data, serial_irq_rx
  <2>2. rx' = rx - 1 /\ timeout' = FALSE /\ intr' = intr /\ pic' = "idle"
    BY <1>2 DEF serial_irq_rx, com1_irq
  <2>3. rx' \in 0 .. RxFifo
    <3>1. rx \in 0 .. RxFifo
      BY <1>1 DEF Lines
    <3> QED BY <1>1, <2>1, <2>2, <3>1
  <2>4. timeout' \in BOOLEAN /\ intr' \in BOOLEAN /\ ~ timeout'
    BY <1>1, <2>2, Zenon DEF Lines
  <2> QED BY <2>2, <2>3, <2>4 DEF Lines
<1>3. CASE com1_irq /\ (serial_irq_tx \/ serial_irq_spurious)
  <2>1. rx' = rx /\ timeout' = timeout /\ intr' = intr /\ pic' = "idle"
    BY <1>3 DEF serial_irq_tx, serial_irq_spurious, com1_irq, receiver
  <2> QED BY <1>1, <2>1 DEF Lines
<1>4. CASE Arrive
  BY <1>1, <1>4 DEF Lines, Arrive, Edge
<1>5. CASE RxTimeout
  BY <1>1, <1>5 DEF Lines, RxTimeout, Edge
<1>6. CASE Transmit
  BY <1>1, <1>6 DEF Lines, Transmit, Edge, receiver
<1>7. CASE pic_remap \/ lock \/ unlock \/ Call \/ UNCHANGED serial_vars
  <2>1. /\ rx' = rx /\ timeout' = timeout
        /\ pic' \in {pic, "idle"} /\ intr' \in {intr, TRUE, FALSE}
    BY <1>7 DEF pic_remap, lock, unlock, Call, serial_vars, receiver
  <2> QED BY <1>1, <2>1 DEF Lines
<1>8. CASE serial_putc
  BY <1>1, <1>8 DEF Lines, serial_putc, PutCopy, PutHead, Lsr, TxTest, TxCopy, TxTail, Outb, receiver
<1> QED BY <1>2, <1>3, <1>4, <1>5, <1>6, <1>7, <1>8 DEF SerialNext, com1_irq

\* A step that leaves the bytes and what the caller holds where they are.
LEMMA QuietOK ==
    ASSUME SerialInv, UNCHANGED bytes, UNCHANGED thre, Lines',
           UNCHANGED putpc \/ Call \/ Lsr \/ TxTest
    PROVE  SerialInv'
<1> USE DEF SerialInv, bytes
<1>1. SerialTypeOK' /\ Waits'
  BY DEF SerialTypeOK, Waits, Lines, Call, Lsr, TxTest, At
<1>2. ASSUME ~ raced PROVE Seen'
  BY <1>2 DEF Seen, Call, Lsr, TxTest, At
<1>3. HeldCount' = HeldCount /\ (putpc' = "outb" <=> putpc = "outb")
  BY DEF HeldCount, Call, Lsr, TxTest, At
<1>4. ASSUME ~ raced PROVE Numbered'
  BY <1>3, <1>4 DEF Numbered
<1> QED BY <1>1, <1>2, <1>4

LEMMA PutCopyOK == ASSUME SerialInv, PutCopy PROVE SerialInv'
<1> USE SizesAssumption DEF SerialInv, PutCopy, At, receiver
<1>1. puts + 1 \in Byte /\ rb_tx \in Ring(TxSize, Byte)
  BY DEF SerialTypeOK, Waits, Byte
<1>2. /\ rb_tx' \in Ring(TxSize, Byte)
      /\ RbCount(rb_tx') = RbCount(rb_tx)
      /\ \A k \in 1 .. RbCount(rb_tx) : RbSeq(rb_tx')[k] = RbSeq(rb_tx)[k]
      /\ ~ rb_full(rb_tx') /\ rb_tx'.data[rb_tx'.head] = puts + 1
  BY <1>1, FillLemma
<1>3. SerialTypeOK' /\ Waits'
  BY <1>2 DEF SerialTypeOK, Waits, Byte
<1>4. Seen'
  BY <1>2 DEF Seen
<1>5. ASSUME ~ raced PROVE Numbered'
  BY <1>2, <1>5 DEF Numbered, HeldCount
<1> QED BY <1>3, <1>4, <1>5

LEMMA PutHeadOK == ASSUME SerialInv, PutHead PROVE SerialInv'
<1> USE SizesAssumption
<1>0. /\ putpc = "head" /\ putpc' = "lsr" /\ puts' = puts + 1 /\ rb_tx' = AdvanceHead(rb_tx)
      /\ uart' = uart /\ thre' = thre /\ sent' = sent /\ intr' = intr /\ data' = data
      /\ raced' = raced /\ rx' = rx /\ timeout' = timeout /\ pic' = pic
  BY DEF PutHead, At, receiver
<1>1. /\ rb_tx \in Ring(TxSize, Byte) /\ puts \in Nat /\ sent \in Nat
      /\ uart \in Seq(Byte) /\ Len(uart) \in Nat
  BY DEF SerialInv, SerialTypeOK, Byte
<1>2. rb_tx' \in Ring(TxSize, Byte)
  <2>1. NextSlot(rb_tx, rb_tx.head) \in 0 .. TxSize-1
    <3>1. rb_tx.head \in 0 .. TxSize-1
      BY <1>1 DEF Ring
    <3> QED BY <1>1, <3>1, NextSlotLemma
  <2> QED BY <1>0, <1>1, <2>1 DEF AdvanceHead, Ring
<1>3. SerialTypeOK' /\ Waits'
  BY <1>0, <1>2 DEF SerialInv, SerialTypeOK, Waits, Byte
<1>4. Seen'
  BY <1>0 DEF Seen
<1>5. ASSUME ~ raced PROVE Numbered'
  <2>1. ~ rb_full(rb_tx) /\ rb_tx.data[rb_tx.head] = puts + 1
    BY <1>0, <1>5 DEF SerialInv, Seen
  <2>2. /\ RbCount(rb_tx') = RbCount(rb_tx) + 1
        /\ RbSeq(rb_tx') = Append(RbSeq(rb_tx), puts + 1)
    BY <1>0, <1>1, <2>1, HeadLemma
  <2>3. /\ RbSeq(rb_tx) \in Seq(Byte) /\ Len(RbSeq(rb_tx)) = RbCount(rb_tx)
        /\ RbCount(rb_tx) \in Nat
    BY <1>1, SeqLemma, CountLemma
  <2>4. \A k \in 1 .. RbCount(rb_tx') :
            RbSeq(rb_tx')[k] = IF k = RbCount(rb_tx) + 1 THEN puts + 1 ELSE RbSeq(rb_tx)[k]
    BY <2>2, <2>3
  <2>5. Numbered /\ HeldCount = 0 /\ HeldCount' = 0
    BY <1>0, <1>5 DEF SerialInv, HeldCount
  <2>6. ASSUME NEW k \in 1 .. RbCount(rb_tx')
        PROVE  RbSeq(rb_tx')[k] = puts' - RbCount(rb_tx') + k
    <3>1. CASE k = RbCount(rb_tx) + 1
      <4>1. RbSeq(rb_tx')[k] = puts + 1
        BY <2>4, <3>1
      <4>2. RbCount(rb_tx') = RbCount(rb_tx) + 1 /\ puts' = puts + 1
        BY <1>0, <2>2
      <4> QED BY <1>1, <2>3, <3>1, <4>1, <4>2
    <3>2. CASE k \in 1 .. RbCount(rb_tx)
      <4>1. RbSeq(rb_tx)[k] = puts - RbCount(rb_tx) + k
        BY <2>5, <3>2 DEF Numbered
      <4>2. RbSeq(rb_tx')[k] = RbSeq(rb_tx)[k]
        BY <2>3, <2>4, <3>2
      <4>3. RbCount(rb_tx') = RbCount(rb_tx) + 1 /\ puts' = puts + 1
        BY <1>0, <2>2
      <4> QED BY <1>1, <2>3, <3>2, <4>1, <4>2, <4>3
    <3> QED BY <2>2, <2>3, <3>1, <3>2
  <2>7. puts' - sent' = Len(uart') + HeldCount' + RbCount(rb_tx')
    <3>1. puts - sent = Len(uart) + RbCount(rb_tx)
      BY <1>1, <2>3, <2>5 DEF Numbered
    <3>2. Len(uart') = Len(uart) /\ HeldCount' = 0
      BY <1>0, <2>5
    <3>3. RbCount(rb_tx') = RbCount(rb_tx) + 1 /\ puts' = puts + 1 /\ sent' = sent
      BY <1>0, <2>2
    <3> QED BY <1>1, <2>3, <3>1, <3>2, <3>3
  <2> QED BY <1>0, <2>5, <2>6, <2>7 DEF Numbered
<1> QED BY <1>0, <1>3, <1>4, <1>5 DEF SerialInv

LEMMA TxCopyOK == ASSUME SerialInv, TxCopy PROVE SerialInv'
<1> USE SizesAssumption DEF SerialInv, TxCopy, At, receiver
<1>1. rb_first(rb_tx) \in Byte
  BY DEF SerialTypeOK, Ring, rb_first, Byte
<1>2. SerialTypeOK' /\ Waits'
  BY <1>1 DEF SerialTypeOK, Waits, Byte
<1>3. ASSUME ~ raced PROVE Seen' /\ Numbered'
  BY <1>3 DEF Seen, Numbered, HeldCount
<1> QED BY <1>2, <1>3

LEMMA TxTailOK == ASSUME SerialInv, TxTail PROVE SerialInv'
<1> USE SizesAssumption DEF SerialInv, TxTail, At, receiver
<1>1. rb_tx \in Ring(TxSize, Byte) /\ puts \in Nat /\ sent \in Nat
  BY DEF SerialTypeOK, Byte
<1>2. rb_tx' \in Ring(TxSize, Byte)
  <2>1. NextSlot(rb_tx, rb_tx.tail) \in 0 .. TxSize-1
    <3>1. rb_tx.tail \in 0 .. TxSize-1
      BY <1>1 DEF Ring
    <3> QED BY <1>1, <3>1, NextSlotLemma
  <2> QED BY <1>1, <2>1 DEF AdvanceTail, Ring
<1>3. SerialTypeOK' /\ Waits'
  BY <1>2 DEF SerialTypeOK, Waits, Byte
<1>4. Seen'
  BY DEF Seen
<1>5. ASSUME ~ raced PROVE Numbered'
  <2>1. ~ rb_empty(rb_tx) /\ data = rb_first(rb_tx)
    BY <1>5 DEF Seen
  <2>2. /\ RbSeq(rb_tx') = Tail(RbSeq(rb_tx))
        /\ RbSeq(rb_tx) \in Seq(Byte) /\ Len(RbSeq(rb_tx)) = RbCount(rb_tx)
        /\ Len(RbSeq(rb_tx')) = RbCount(rb_tx')
        /\ RbSeq(rb_tx) # << >> /\ Head(RbSeq(rb_tx)) = data
    BY <1>1, <1>2, <2>1, GetLemma, SeqLemma
  <2>3. /\ RbCount(rb_tx) \in Nat \ {0} /\ RbCount(rb_tx') = RbCount(rb_tx) - 1
        /\ \A k \in 1 .. RbCount(rb_tx') : RbSeq(rb_tx')[k] = RbSeq(rb_tx)[k + 1]
    BY <2>2
  <2>4. data = RbSeq(rb_tx)[1]
    BY <2>2
  <2>5. Numbered /\ Len(uart) \in Nat
    BY <1>5 DEF SerialTypeOK
  <2>6. ASSUME NEW k \in 1 .. RbCount(rb_tx')
        PROVE  RbSeq(rb_tx')[k] = puts' - RbCount(rb_tx') + k
    <3>1. k + 1 \in 1 .. RbCount(rb_tx)
      BY <2>3
    <3>2. RbSeq(rb_tx)[k + 1] = puts - RbCount(rb_tx) + (k + 1)
      BY <2>5, <3>1 DEF Numbered
    <3> QED BY <1>1, <2>3, <3>1, <3>2
  <2>7. data' = puts' - RbCount(rb_tx')
    BY <1>1, <2>3, <2>4, <2>5 DEF Numbered
  <2>8. puts' - sent' = Len(uart') + HeldCount' + RbCount(rb_tx')
    BY <1>1, <2>3, <2>5 DEF Numbered, HeldCount
  <2> QED BY <2>5, <2>6, <2>7, <2>8 DEF Numbered
<1> QED BY <1>3, <1>4, <1>5

LEMMA OutbOK == ASSUME SerialInv, Outb PROVE SerialInv'
<1> USE SizesAssumption DEF SerialInv, Outb, At, receiver
<1>1. /\ uart \in Seq(Byte) /\ data \in Byte /\ Len(uart) <= Fifo /\ Len(uart) \in Nat
      /\ rb_tx \in Ring(TxSize, Byte) /\ puts \in Nat /\ sent \in Nat
  BY DEF SerialTypeOK, Byte
<1>2. uart' \in Seq(Byte) /\ Len(uart') <= Fifo
  BY <1>1
<1>3. SerialTypeOK' /\ Waits'
  <2>1. raced' \in BOOLEAN /\ 0 \in Byte
    BY <1>1, SizesAssumption DEF SerialTypeOK, Byte
  <2> QED BY <1>2, <2>1 DEF SerialTypeOK, Waits, Byte
<1>4. ASSUME ~ raced' PROVE Seen' /\ Numbered'
  <2>1. ~ raced /\ Len(uart) < Fifo /\ uart' = Append(uart, data)
    <3>1. ~ raced /\ Len(uart) # Fifo
      BY <1>4, Zenon
    <3> QED BY <1>1, <3>1, SizesAssumption
  <2>2. /\ Len(uart') = Len(uart) + 1 /\ uart'[Len(uart) + 1] = data
        /\ \A m \in 1 .. Len(uart) : uart'[m] = uart[m]
    BY <1>1, <2>1
  <2>3. RbCount(rb_tx) \in Nat
    BY <1>1, CountLemma
  <2>4. Numbered /\ putpc = "outb" /\ putpc' = "out"
    BY <2>1
  <2>5. puts' - sent' = Len(uart') + HeldCount' + RbCount(rb_tx)'
    <3>1. puts - sent = Len(uart) + 1 + RbCount(rb_tx)
      BY <2>4 DEF Numbered, HeldCount
    <3>2. HeldCount' = 0 /\ RbCount(rb_tx)' = RbCount(rb_tx)
      BY <2>4 DEF HeldCount
    <3> QED BY <1>1, <2>2, <2>3, <3>1, <3>2
  <2>6. ASSUME NEW m \in 1 .. Len(uart') PROVE uart'[m] = sent' + m
    <3>1. data = sent + (Len(uart) + 1)
      <4>1. data = puts - RbCount(rb_tx) /\ puts - sent = Len(uart) + 1 + RbCount(rb_tx)
        BY <2>4 DEF Numbered, HeldCount
      <4> DEFINE r == RbCount(rb_tx)
      <4>2. data = puts - r /\ puts - sent = Len(uart) + 1 + r /\ r \in Nat
        BY <2>3, <4>1
      <4> HIDE DEF SerialInv, Outb, r
      <4> QED BY <1>1, <4>2
    <3>2. CASE m = Len(uart) + 1
      BY <2>2, <3>1, <3>2
    <3>3. CASE m \in 1 .. Len(uart)
      BY <2>2, <2>4, <3>3 DEF Numbered
    <3> QED BY <1>1, <2>2, <3>2, <3>3
  <2>7. \A k \in 1 .. RbCount(rb_tx)' : RbSeq(rb_tx)'[k] = puts' - RbCount(rb_tx)' + k
    BY <2>4 DEF Numbered
  <2>8. Seen'
    BY <2>4 DEF Seen
  <2> QED BY <2>4, <2>5, <2>6, <2>7, <2>8 DEF Numbered
<1> QED BY <1>3, <1>4

LEMMA TransmitOK == ASSUME SerialInv, Transmit, Lines' PROVE SerialInv'
<1> USE SizesAssumption DEF SerialInv, Transmit
<1>1. uart \in Seq(Byte) /\ Len(uart) \in Nat /\ sent \in Nat /\ rb_tx \in Ring(TxSize, Byte)
  BY DEF SerialTypeOK, Byte
<1>2. /\ uart' \in Seq(Byte) /\ Len(uart') = Len(uart) - 1 /\ Len(uart) >= 1
      /\ \A m \in 1 .. Len(uart') : uart'[m] = uart[m + 1]
  BY <1>1
<1>3. SerialTypeOK' /\ Waits'
  BY <1>1, <1>2 DEF SerialTypeOK, Waits, Lines, Byte
<1>4. ASSUME ~ raced PROVE Seen' /\ Numbered'
  <2>1. Seen /\ Numbered /\ RbCount(rb_tx) \in Nat /\ puts \in Nat
    BY <1>1, <1>4, CountLemma DEF SerialTypeOK
  <2>2. HeldCount' = HeldCount /\ HeldCount \in {0, 1}
    BY DEF HeldCount
  <2>3. puts' - sent' = Len(uart') + HeldCount' + RbCount(rb_tx)'
    <3>1. puts - sent = Len(uart) + HeldCount + RbCount(rb_tx)
      BY <2>1 DEF Numbered
    <3>2. puts' = puts /\ sent' = sent + 1 /\ RbCount(rb_tx)' = RbCount(rb_tx)
      OBVIOUS
    <3> QED BY <1>1, <1>2, <2>1, <2>2, <3>1, <3>2
  <2>4. ASSUME NEW m \in 1 .. Len(uart') PROVE uart'[m] = sent' + m
    <3>1. m + 1 \in 1 .. Len(uart) /\ uart'[m] = uart[m + 1]
      BY <1>1, <1>2
    <3> QED BY <1>1, <2>1, <3>1 DEF Numbered
  <2>5. Seen'
    BY <2>1 DEF Seen
  <2> QED BY <2>1, <2>3, <2>4, <2>5 DEF Numbered
<1> QED BY <1>3, <1>4

\* The interrupt moves the front of the ring to an empty FIFO.
LEMMA IrqOK == ASSUME SerialInv, serial_irq_tx, UNCHANGED putpc, Lines' PROVE SerialInv'
<1> USE SizesAssumption DEF SerialInv, serial_irq_tx
<1> DEFINE b == Burst(rb_tx)
<1>1. rb_tx \in Ring(TxSize, Byte) /\ uart = << >> /\ puts \in Nat /\ sent \in Nat
  BY DEF SerialTypeOK, Waits, Byte
<1>2. /\ b \in Seq(Byte) /\ Len(b) <= Fifo /\ Len(b) \in 0 .. RbCount(rb_tx)
      /\ \A k \in 1 .. Len(b) : b[k] = RbSeq(rb_tx)[k]
      /\ rb_tx' \in Ring(TxSize, Byte)
      /\ rb_tx'.data = rb_tx.data /\ rb_tx'.head = rb_tx.head
      /\ RbCount(rb_tx') = RbCount(rb_tx) - Len(b)
      /\ \A k \in 1 .. RbCount(rb_tx') : RbSeq(rb_tx')[k] = RbSeq(rb_tx)[k + Len(b)]
  BY <1>1, BurstLemma
<1> HIDE DEF b
<1>3. uart' = b
  BY <1>1, <1>2 DEF b
<1>4. SerialTypeOK' /\ Waits'
  BY <1>2, <1>3 DEF SerialTypeOK, Waits, Lines, Byte
<1>5. ASSUME ~ raced' PROVE Seen' /\ Numbered'
  <2>1. ~ raced /\ (putpc \in {"copy", "tail", "outb"} => rb_empty(rb_tx))
    BY <1>5
  <2>2. /\ RbCount(rb_tx) \in 0 .. TxSize-1 /\ (rb_empty(rb_tx) <=> RbCount(rb_tx) = 0)
        /\ (rb_full(rb_tx) <=> RbCount(rb_tx) = TxSize-1)
        /\ (rb_full(rb_tx') <=> RbCount(rb_tx') = TxSize-1)
    <3>1. TxSize \in Nat \ {0} /\ rb_tx \in Ring(TxSize, Byte) /\ rb_tx' \in Ring(TxSize, Byte)
      BY <1>1, <1>2
    <3> HIDE DEF SerialInv, serial_irq_tx
    <3>2. /\ RbCount(rb_tx) \in 0 .. TxSize-1 /\ (rb_empty(rb_tx) <=> RbCount(rb_tx) = 0)
          /\ (rb_full(rb_tx) <=> RbCount(rb_tx) = TxSize-1)
      BY <3>1, CountLemma
    <3>3. rb_full(rb_tx') <=> RbCount(rb_tx') = TxSize-1
      BY <3>1, CountLemma
    <3> QED BY <3>2, <3>3
  <2>3. Seen /\ Numbered /\ putpc \notin {"copy", "tail"}
    BY <2>1 DEF Seen
  <2>4. Seen'
    BY <1>2, <2>2, <2>3 DEF Seen
  <2>5. putpc = "outb" => RbCount(rb_tx') = RbCount(rb_tx) /\ Len(b) = 0
    BY <1>2, <2>1, <2>2
  <2>6. Len(uart) = 0 /\ Len(b) \in Nat /\ RbCount(rb_tx) \in Nat
    BY <1>1, <1>2, <2>2
  <2>7. puts' - sent' = Len(uart') + HeldCount' + RbCount(rb_tx')
    BY <1>1, <1>2, <1>3, <2>3, <2>5, <2>6 DEF Numbered, HeldCount
  <2>8. ASSUME NEW m \in 1 .. Len(uart') PROVE uart'[m] = sent' + m
    <3>0. m \in 1 .. Len(b)
      BY <1>3
    <3>1. m \in 1 .. RbCount(rb_tx) /\ putpc # "outb"
      BY <1>2, <2>5, <2>6, <3>0
    <3>2. uart'[m] = puts - RbCount(rb_tx) + m
      BY <1>2, <1>3, <2>3, <3>0, <3>1 DEF Numbered
    <3>3. puts - sent = RbCount(rb_tx)
      BY <1>1, <2>3, <2>6, <3>1 DEF Numbered, HeldCount
    <3> QED BY <1>1, <2>6, <3>2, <3>3
  <2>9. ASSUME NEW k \in 1 .. RbCount(rb_tx')
        PROVE  RbSeq(rb_tx')[k] = puts' - RbCount(rb_tx') + k
    <3>1. k + Len(b) \in 1 .. RbCount(rb_tx)
      BY <1>2, <2>6
    <3>2. RbSeq(rb_tx')[k] = puts - RbCount(rb_tx) + (k + Len(b))
      BY <1>2, <2>3, <3>1 DEF Numbered
    <3> QED BY <1>1, <1>2, <2>6, <3>2
  <2>10. putpc' = "outb" => data' = puts' - RbCount(rb_tx')
    BY <2>3, <2>5 DEF Numbered
  <2> QED BY <2>4, <2>7, <2>8, <2>9, <2>10 DEF Numbered
<1> QED BY <1>4, <1>5

LEMMA StepOK == SerialInv /\ [SerialNext]_serial_vars => SerialInv'
<1> SUFFICES ASSUME SerialInv, [SerialNext]_serial_vars PROVE SerialInv'
  OBVIOUS
<1>0. Lines'
  BY LinesOK
<1>1. CASE \/ pic_remap \/ lock \/ unlock \/ Call \/ Lsr \/ TxTest \/ Arrive \/ RxTimeout
           \/ UNCHANGED serial_vars
  <2>1. UNCHANGED bytes /\ UNCHANGED thre
    BY <1>1 DEF pic_remap, lock, unlock, Call, Lsr, TxTest, Arrive, RxTimeout, serial_vars
  <2>2. UNCHANGED putpc \/ Call \/ Lsr \/ TxTest
    BY <1>1 DEF pic_remap, lock, unlock, Arrive, RxTimeout, serial_vars
  <2> QED BY <1>0, <2>1, <2>2, QuietOK
<1>2. CASE PutCopy
  BY <1>2, PutCopyOK
<1>3. CASE PutHead
  BY <1>3, PutHeadOK
<1>4. CASE TxCopy
  BY <1>4, TxCopyOK
<1>5. CASE TxTail
  BY <1>5, TxTailOK
<1>6. CASE Outb
  BY <1>6, OutbOK
<1>7. CASE Transmit
  BY <1>0, <1>7, TransmitOK
<1>8. CASE com1_irq
  <2>1. UNCHANGED putpc
    BY <1>8 DEF com1_irq
  <2>2. CASE serial_irq_rx \/ serial_irq_spurious
    <3>1. UNCHANGED bytes /\ UNCHANGED thre
      BY <2>2 DEF serial_irq_rx, serial_irq_spurious
    <3> QED BY <1>0, <2>1, <3>1, QuietOK
  <2>3. CASE serial_irq_tx
    BY <1>0, <2>1, <2>3, IrqOK
  <2> QED BY <1>8, <2>2, <2>3 DEF com1_irq
<1> QED BY <1>1, <1>2, <1>3, <1>4, <1>5, <1>6, <1>7, <1>8 DEF SerialNext, serial_putc

-----------------------------------------------------------------------------
(* The theorems.                                                           *)

\* The inductive invariant.
THEOREM SerialInvariant == SerialSpec => []SerialInv
  BY InitOK, StepOK, PTL DEF SerialSpec

\* No index of the ring leaves its storage and the FIFO never holds more than
\* it can, not even after the race, when tail may have passed head.
THEOREM SerialTypeCorrect == SerialSpec => []SerialTypeOK
<1>1. SerialInv => SerialTypeOK
  BY DEF SerialInv
<1> QED BY <1>1, SerialInvariant, PTL

\* Three sequences put end to end.
LEMMA Appended ==
    ASSUME NEW X, NEW a \in Seq(X), NEW b \in Seq(X), NEW c \in Seq(X)
    PROVE  /\ a \o b \o c \in Seq(X) /\ Len(a \o b \o c) = Len(a) + Len(b) + Len(c)
           /\ \A m \in 1 .. Len(a) : (a \o b \o c)[m] = a[m]
           /\ \A m \in 1 .. Len(b) : (a \o b \o c)[Len(a) + m] = b[m]
           /\ \A m \in 1 .. Len(c) : (a \o b \o c)[Len(a) + Len(b) + m] = c[m]
<1> DEFINE d == a \o b
<1>1. /\ d \in Seq(X) /\ Len(d) = Len(a) + Len(b)
      /\ \A m \in 1 .. Len(a) : d[m] = a[m]
      /\ \A m \in 1 .. Len(b) : d[Len(a) + m] = b[m]
  OBVIOUS
<1> HIDE DEF d
<1>2. /\ d \o c \in Seq(X) /\ Len(d \o c) = Len(d) + Len(c)
      /\ \A m \in 1 .. Len(d) : (d \o c)[m] = d[m]
      /\ \A m \in 1 .. Len(c) : (d \o c)[Len(d) + m] = c[m]
  <2>1. d \in Seq(X)
    BY <1>1
  <2> QED BY <2>1
<1>3. Len(a) \in Nat /\ Len(b) \in Nat /\ Len(c) \in Nat
  OBVIOUS
<1>4. \A m \in 1 .. Len(a) : m \in 1 .. Len(d)
  BY <1>1, <1>3
<1>5. \A m \in 1 .. Len(b) : Len(a) + m \in 1 .. Len(d)
  BY <1>1, <1>3
<1> QED BY <1>1, <1>2, <1>4, <1>5 DEF d

\* The numbers of Numbered, put end to end, are those of InOrder.
LEMMA NumberedInOrder == ASSUME SerialInv PROVE InOrder
<1> SUFFICES ASSUME ~ raced
             PROVE  uart \o Held \o RbSeq(rb_tx) = [m \in 1 .. puts - sent |-> sent + m]
  BY DEF InOrder
<1> USE SizesAssumption
<1>1. /\ uart \in Seq(Byte) /\ data \in Byte /\ rb_tx \in Ring(TxSize, Byte)
      /\ puts \in Nat /\ sent \in Nat /\ Numbered
  BY DEF SerialInv, SerialTypeOK, Byte
<1>2. /\ Held \in Seq(Byte) /\ Len(Held) = HeldCount
      /\ \A m \in 1 .. Len(Held) : Held[m] = data /\ putpc = "outb" /\ m = 1
      /\ HeldCount \in {0, 1}
  BY <1>1 DEF Held, HeldCount
<1>3. RbSeq(rb_tx) \in Seq(Byte) /\ Len(RbSeq(rb_tx)) = RbCount(rb_tx)
  BY <1>1, SeqLemma
<1> DEFINE q == uart \o Held \o RbSeq(rb_tx)
           u == Len(uart)
           r == RbCount(rb_tx)
<1>4. /\ q \in Seq(Byte) /\ Len(q) = u + HeldCount + r
      /\ \A m \in 1 .. u : q[m] = uart[m]
      /\ \A m \in 1 .. HeldCount : q[u + m] = Held[m]
      /\ \A m \in 1 .. r : q[u + HeldCount + m] = RbSeq(rb_tx)[m]
  <2> DEFINE c == RbSeq(rb_tx)
  <2>1. uart \in Seq(Byte) /\ Held \in Seq(Byte) /\ c \in Seq(Byte)
    BY <1>1, <1>2, <1>3
  <2>2. Len(Held) = HeldCount /\ Len(c) = r
    BY <1>2, <1>3
  <2> HIDE DEF c, r
  <2>3. /\ uart \o Held \o c \in Seq(Byte)
        /\ Len(uart \o Held \o c) = u + Len(Held) + Len(c)
        /\ \A m \in 1 .. u : (uart \o Held \o c)[m] = uart[m]
        /\ \A m \in 1 .. Len(Held) : (uart \o Held \o c)[u + m] = Held[m]
        /\ \A m \in 1 .. Len(c) : (uart \o Held \o c)[u + Len(Held) + m] = c[m]
    BY <2>1, Appended, SMTT(30)
  <2> QED BY <2>2, <2>3 DEF c
<1>5. /\ u \in Nat /\ r \in Nat
      /\ puts - sent = u + HeldCount + r
      /\ \A m \in 1 .. u : uart[m] = sent + m
      /\ \A m \in 1 .. HeldCount : Held[m] = puts - r /\ m = 1
      /\ \A m \in 1 .. r : RbSeq(rb_tx)[m] = puts - r + m
  <2>1. u \in Nat /\ r \in Nat
    BY <1>1, CountLemma
  <2>2. \A m \in 1 .. HeldCount : Held[m] = puts - r /\ m = 1
    <3>1. putpc = "outb" => data = puts - r
      BY <1>1 DEF Numbered
    <3> QED BY <1>2, <3>1
  <2> QED BY <1>1, <2>1, <2>2 DEF Numbered
<1> HIDE DEF q, u, r
<1>6. ASSUME NEW m \in 1 .. u + HeldCount + r PROVE q[m] = sent + m
  <2>1. CASE m \in 1 .. u
    BY <1>4, <1>5, <2>1
  <2>2. CASE m \in u+1 .. u + HeldCount
    <3>1. m - u \in 1 .. HeldCount /\ u + (m - u) = m
      BY <1>2, <1>5, <2>2
    <3>2. q[m] = puts - r /\ m - u = 1 /\ HeldCount = 1
      BY <1>2, <1>4, <1>5, <3>1
    <3> QED BY <1>1, <1>5, <2>2, <3>2
  <2>3. CASE m \in u + HeldCount + 1 .. u + HeldCount + r
    <3> DEFINE k == m - (u + HeldCount)
    <3>1. k \in 1 .. r /\ u + HeldCount + k = m
      BY <1>2, <1>5, <2>3
    <3>2. q[m] = puts - r + k
      BY <1>4, <1>5, <3>1
    <3> QED BY <1>1, <1>2, <1>5, <2>3, <3>2
  <2> QED BY <1>2, <1>5, <2>1, <2>2, <2>3
<1>7. q = [m \in 1 .. puts - sent |-> sent + m]
  BY <1>4, <1>5, <1>6
<1> QED BY <1>7 DEF q

\* serial_putc and serial_irq share the ring without a lock and without
\* mixing up the bytes, in every interleaving but the one that `raced' names.
THEOREM OrderKept == SerialSpec => []InOrder
<1>1. SerialInv => InOrder
  BY NumberedInOrder
<1> QED BY <1>1, SerialInvariant, PTL
=============================================================================
