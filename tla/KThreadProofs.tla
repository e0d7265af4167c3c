---------------------------- MODULE KThreadProofs ---------------------------
(***************************************************************************)
(* Theorems about the threads of KThread, for every number of slots and    *)
(* every set of stacks.                                                    *)
(***************************************************************************)
EXTENDS KThread, TLAPS

\* Thread 0 is kernel code and stays; the current thread holds a slot.
SlotsInUse == /\ state[0] = "RUNNING" /\ priv[0] = "kernel"
              /\ state[c_thread] # "UNUSED"

\* Numbers are handed out in order, so a slot's number tells its users apart.
Numbers == \A t \in Threads : gen[t] <= creates /\ joining[t].of <= creates

\* A created thread that does not run any more has left its result, and it is
\* still there while its slot is not given away; a joiner past its wait loop
\* has seen that the thread it means does not run, or the slot was given away.
Results ==
    /\ \A t \in Threads : gen[t] # 0 /\ state[t] # "RUNNING" => res[t] = gen[t]
    /\ \A t \in Threads : /\ joining[t].at # "no" => joining[t].of # 0
                          /\ joining[t].at = "read" /\ gen[joining[t].fd] = joining[t].of
                                => state[joining[t].fd] # "RUNNING"

IInv == /\ TypeOK
        /\ SlotsInUse
        /\ StacksExclusive
        /\ NobodyOnFreedStack
        /\ EntryStackIsOwn
        /\ Numbers
        /\ Results

LEMMA ThreadsLemma == 0 \in Threads /\ \A t \in Threads : t \in Int /\ 0 <= t /\ t < MaxThreads
  BY MaxThreadsAssumption DEF Threads

LEMMA DistLemma ==
    ASSUME NEW a \in Threads, NEW b \in Threads, NEW t \in Threads,
           t # a, b # a, Dist(a, b) <= Dist(a, t)
    PROVE  Dist(b, t) < Dist(a, t)
  BY MaxThreadsAssumption DEF Dist, Threads

LEMMA InitIInv == Init => IInv
  <1> SUFFICES ASSUME Init PROVE IInv
    OBVIOUS
  <1> USE ThreadsLemma, BoundAssumption, StackAssumption
  <1>1. TypeOK
    <2>1. joining \in [Threads -> [at : {"no", "wait", "read"}, fd : Threads, of : 0 .. MaxCreates]]
      BY DEF Init, NotJoining
    <2>2. /\ state \in [Threads -> States] /\ priv \in [Threads -> {"kernel", "user"}]
          /\ stack \in [Threads -> Stack \cup {Boot, NoStack}]
      BY DEF Init, States
    <2>3. /\ kstack \in [Threads -> Stack \cup {NoStack}]
          /\ sp \in [Threads -> Stack \cup {Boot, NoStack}]
          /\ res \in [Threads -> 0 .. MaxCreates] /\ gen \in [Threads -> 0 .. MaxCreates]
      BY DEF Init
    <2>4. /\ creates \in 0 .. MaxCreates /\ c_thread \in Threads /\ live \subseteq Stack
          /\ esp0 \in Stack \cup {Boot, NoStack}
      BY DEF Init
    <2>5. intr \in BOOLEAN /\ halted \in BOOLEAN
      BY DEF Init
    <2> QED
      BY <2>1, <2>2, <2>3, <2>4, <2>5 DEF TypeOK
  <1>2. Owners = {}
    BY DEF Init, Owners
  <1> QED
    BY <1>1, <1>2 DEF Init, IInv, SlotsInUse, StacksExclusive, NobodyOnFreedStack,
                      EntryStackIsOwn, Numbers, Results, NotJoining

-----------------------------------------------------------------------------
\* kthread_create in slot t: the new thread gets two fresh stacks.
LEMMA CreateIInv ==
    ASSUME IInv, NEW t \in Threads, NEW p \in {"kernel", "user"}, Create(t, p)
    PROVE  IInv'
  <1> USE ThreadsLemma, BoundAssumption, StackAssumption
  <1>0. TypeOK /\ SlotsInUse /\ StacksExclusive /\ NobodyOnFreedStack /\ EntryStackIsOwn /\ Numbers /\ Results
    BY DEF IInv
  <1>1. PICK base \in Stack \ live, kbase \in Stack \ live :
          /\ base # kbase
          /\ live'   = live \cup {base, kbase}
          /\ stack'  = [stack EXCEPT ![t] = base]
          /\ kstack' = [kstack EXCEPT ![t] = kbase]
          /\ sp'     = [sp EXCEPT ![t] = base]
    BY DEF Create
  <1>2. state[t] = "UNUSED" /\ t # 0 /\ t # c_thread /\ t \notin Owners
    BY <1>0 DEF Create, FreeSlot, SlotsInUse, Owners
  <1>3. Owners' = Owners \cup {t}
    BY <1>0, <1>2 DEF Create, Owners, TypeOK
  <1>4. /\ StacksOf(t)' = {base, kbase}
        /\ \A u \in Threads \ {t} : StacksOf(u)' = StacksOf(u)
    BY <1>0, <1>1 DEF StacksOf, TypeOK
  <1>5. \A u \in Owners : StacksOf(u) \subseteq live
    BY <1>0 DEF StacksExclusive
  <1>6. TypeOK'
    BY <1>0, <1>1 DEF Create, TypeOK, States, NotJoining
  <1>7. SlotsInUse'
    BY <1>0, <1>2 DEF Create, SlotsInUse, TypeOK
  <1>8. StacksExclusive'
    <2>1. \A u \in Owners' : stack'[u] # kstack'[u]
      BY <1>0, <1>1, <1>2, <1>3 DEF StacksExclusive, TypeOK, Owners
    <2>2. \A u, v \in Owners' : u # v => StacksOf(u)' \cap StacksOf(v)' = {}
      BY <1>0, <1>1, <1>2, <1>3, <1>4, <1>5 DEF StacksExclusive, Owners
    <2>3. live' = UNION {StacksOf(u)' : u \in Owners'}
      <3>1. \A u \in Owners : StacksOf(u)' = StacksOf(u)
        BY <1>2, <1>4 DEF Owners
      <3>2. live = UNION {StacksOf(u) : u \in Owners}
        BY <1>0 DEF StacksExclusive
      <3> QED
        BY <1>1, <1>3, <1>4, <3>1, <3>2
    <2> QED
      BY <2>1, <2>2, <2>3 DEF StacksExclusive
  <1>9. NobodyOnFreedStack'
    BY <1>0, <1>1, <1>2, <1>3, <1>4 DEF Create, NobodyOnFreedStack, TypeOK, Owners
  <1>10. EntryStackIsOwn'
    BY <1>0, <1>1, <1>2 DEF Create, EntryStackIsOwn, TypeOK
  <1>11. Numbers'
    BY <1>0 DEF Create, Numbers, TypeOK, NotJoining
  <1>12. Results'
    <2>1. \A u \in Threads : gen'[u] # 0 /\ state'[u] # "RUNNING" => res'[u] = gen'[u]
      BY <1>0 DEF Create, Results, TypeOK
    <2>2. ASSUME NEW u \in Threads
          PROVE  /\ joining'[u].at # "no" => joining'[u].of # 0
                 /\ joining'[u].at = "read" /\ gen'[joining'[u].fd] = joining'[u].of
                      => state'[joining'[u].fd] # "RUNNING"
      <3>1. CASE u = t
        BY <1>0, <3>1 DEF Create, TypeOK, NotJoining
      <3>2. CASE u # t
        <4>1. joining'[u] = joining[u] /\ joining[u].fd \in Threads /\ joining[u].of <= creates
          BY <1>0, <3>2 DEF Create, TypeOK, Numbers
        <4>2. CASE joining[u].fd = t
          <5>1. gen'[t] = creates + 1 /\ joining[u].of \in Nat /\ creates \in Nat
            BY <1>0 DEF Create, TypeOK
          <5> QED
            BY <1>0, <4>1, <4>2, <5>1 DEF Results
        <4>3. CASE joining[u].fd # t
          BY <1>0, <4>1, <4>3 DEF Create, TypeOK, Results
        <4> QED
          BY <4>2, <4>3
      <3> QED
        BY <3>1, <3>2
    <2> QED
      BY <2>1, <2>2 DEF Results
  <1> QED
    BY <1>6, <1>7, <1>8, <1>9, <1>10, <1>11, <1>12 DEF IInv

\* The scheduler passes a set of slots without the current one: exactly the
\* stacks of the finished threads among them are freed.
LEMMA ReapLemma ==
    ASSUME IInv, NEW passed \in SUBSET (Threads \ {c_thread}), Reap(passed),
           UNCHANGED <<stack, kstack>>
    PROVE  /\ state' \in [Threads -> States]
           /\ live' \subseteq live
           /\ \A t \in Threads : state[t] = "RUNNING" <=> state'[t] = "RUNNING"
           /\ \A t \in Threads : t \notin passed => state'[t] = state[t]
           /\ \A t \in Threads : state[t] = "UNUSED" => state'[t] = "UNUSED"
           /\ Owners' \subseteq Owners
           /\ \A t \in Owners' : StacksOf(t) \subseteq live'
           /\ StacksExclusive'
  <1> USE ThreadsLemma
  <1>0. TypeOK /\ SlotsInUse /\ StacksExclusive
    BY DEF IInv
  <1> DEFINE done == {t \in passed : state[t] = "DONE"}
  <1>1. /\ live' = live \ UNION {StacksOf(t) : t \in done \ {0}}
        /\ state' = [t \in Threads |-> IF t \in done THEN "UNUSED" ELSE state[t]]
    BY DEF Reap, StacksOf
  <1>2. 0 \notin done
    BY <1>0 DEF SlotsInUse
  <1>3. Owners' = Owners \ done
    BY <1>0, <1>1, <1>2 DEF Owners, TypeOK
  <1>4. done \subseteq Owners
    BY <1>2 DEF Owners
  <1>5. \A t \in Threads : StacksOf(t)' = StacksOf(t)
    BY DEF StacksOf
  <1>6. live = UNION {StacksOf(t) : t \in Owners}
    BY <1>0 DEF StacksExclusive
  <1>7. \A t, u \in Owners : t # u => StacksOf(t) \cap StacksOf(u) = {}
    BY <1>0 DEF StacksExclusive
  <1>8. live' = UNION {StacksOf(t) : t \in Owners \ done}
    BY <1>1, <1>2, <1>4, <1>6, <1>7
  <1>9. StacksExclusive'
    <2>1. {StacksOf(t)' : t \in Owners'} = {StacksOf(t) : t \in Owners \ done}
      BY <1>3, <1>5 DEF Owners
    <2>2. \A t, u \in Owners' : t # u => StacksOf(t)' \cap StacksOf(u)' = {}
      BY <1>3, <1>5, <1>7 DEF Owners
    <2>3. \A t \in Owners' : stack'[t] # kstack'[t]
      BY <1>0, <1>3 DEF StacksExclusive
    <2> QED
      BY <1>8, <2>1, <2>2, <2>3 DEF StacksExclusive
  <1>10. \A t \in Owners' : StacksOf(t) \subseteq live'
    BY <1>3, <1>8
  <1>11. /\ state' \in [Threads -> States]
         /\ \A t \in Threads : state[t] = "RUNNING" <=> state'[t] = "RUNNING"
         /\ \A t \in Threads : t \notin passed => state'[t] = state[t]
         /\ \A t \in Threads : state[t] = "UNUSED" => state'[t] = "UNUSED"
    BY <1>0, <1>1 DEF TypeOK, States
  <1> QED
    BY <1>1, <1>3, <1>9, <1>10, <1>11

\* The timer: what is saved lies on a stack of the thread that leaves, and the
\* TSS follows the thread that comes.
LEMMA TimerIInv == ASSUME IInv, timer PROVE IInv'
  <1> USE ThreadsLemma, BoundAssumption, StackAssumption
  <1>0. TypeOK /\ SlotsInUse /\ StacksExclusive /\ NobodyOnFreedStack /\ EntryStackIsOwn /\ Numbers /\ Results
    BY DEF IInv
  <1>1. UNCHANGED <<priv, stack, kstack, res, intr, creates, gen, joining, halted>>
    BY DEF timer
  <1>2. \A t \in Threads : StacksOf(t)' = StacksOf(t)
    BY <1>1 DEF StacksOf
  <1>3. CASE NoSwitch
    <2>1. Reap(Threads \ {c_thread}) /\ UNCHANGED <<esp0, sp, c_thread>> /\ Candidates = {}
      BY <1>3 DEF NoSwitch
    <2>2. /\ state' \in [Threads -> States]
          /\ live' \subseteq live
          /\ \A t \in Threads : state[t] = "RUNNING" <=> state'[t] = "RUNNING"
          /\ state'[c_thread] = state[c_thread]
          /\ \A t \in Owners' : StacksOf(t) \subseteq live'
          /\ StacksExclusive'
      BY <1>0, <1>1, <2>1, ReapLemma DEF TypeOK
    <2>3. TypeOK'
      BY <1>0, <1>1, <2>1, <2>2 DEF TypeOK
    <2>4. SlotsInUse'
      BY <1>0, <1>1, <2>1, <2>2 DEF SlotsInUse
    <2>5. c_thread # 0 => c_thread \in Owners'
      BY <1>0, <2>1, <2>2 DEF SlotsInUse, Owners, TypeOK
    <2>6. NobodyOnFreedStack'
      BY <1>0, <2>1, <2>2, <2>5 DEF NobodyOnFreedStack, Candidates, Owners
    <2>7. EntryStackIsOwn'
      BY <1>0, <1>1, <2>1, <2>2, <2>5 DEF EntryStackIsOwn, SlotsInUse, StacksOf
    <2>8. Numbers' /\ Results'
      BY <1>0, <1>1, <2>2 DEF Numbers, Results, TypeOK
    <2> QED
      BY <2>2, <2>3, <2>4, <2>6, <2>7, <2>8 DEF IInv
  <1>4. ASSUME NEW tn \in Threads, SwitchTo(tn) PROVE IInv'
    <2>1. /\ tn \in Threads \ {c_thread} /\ state[tn] = "RUNNING"
          /\ Reap(Before(tn))
          /\ esp0' = kstack[tn]
          /\ sp' = [sp EXCEPT ![c_thread] = FrameStack]
          /\ c_thread' = tn
      BY <1>4 DEF SwitchTo, Candidates
    <2>2. Before(tn) \in SUBSET (Threads \ {c_thread})
      BY DEF Before
    <2>3. /\ state' \in [Threads -> States]
          /\ live' \subseteq live
          /\ \A t \in Threads : state[t] = "RUNNING" <=> state'[t] = "RUNNING"
          /\ state'[c_thread] = state[c_thread]
          /\ Owners' \subseteq Owners
          /\ \A t \in Owners' : StacksOf(t) \subseteq live'
          /\ StacksExclusive'
      BY <1>0, <1>1, <2>1, <2>2, ReapLemma DEF TypeOK
    <2>4. c_thread # 0 => FrameStack \in StacksOf(c_thread)
      BY <1>0 DEF FrameStack, StacksOf, EntryStackIsOwn, TypeOK
    <2>5. FrameStack \in Stack \cup {Boot, NoStack}
      BY <1>0 DEF FrameStack, TypeOK
    <2>6. TypeOK'
      BY <1>0, <1>1, <2>1, <2>3, <2>5 DEF TypeOK
    <2>7. SlotsInUse'
      BY <1>0, <1>1, <2>1, <2>3 DEF SlotsInUse
    <2>8. tn # 0 => tn \in Owners'
      BY <2>1, <2>3 DEF Owners
    <2>9. NobodyOnFreedStack'
      <3>1. ASSUME NEW t \in Owners', t # tn, state'[t] = "RUNNING"
            PROVE  sp'[t] \in StacksOf(t) \cap live'
        <4>1. t \in Owners /\ StacksOf(t) \subseteq live' /\ t # 0 /\ t \in Threads
          BY <2>3, <3>1 DEF Owners
        <4>2. CASE t = c_thread
          BY <1>0, <2>1, <2>4, <4>1, <4>2 DEF TypeOK
        <4>3. CASE t # c_thread
          BY <1>0, <2>1, <2>3, <3>1, <4>1, <4>3 DEF NobodyOnFreedStack, TypeOK
        <4> QED
          BY <4>2, <4>3
      <3> QED
        BY <1>2, <2>1, <2>8, <3>1 DEF NobodyOnFreedStack, Owners
    <2>10. EntryStackIsOwn'
      BY <1>0, <1>1, <2>1, <2>3, <2>8 DEF EntryStackIsOwn, SlotsInUse, StacksOf
    <2>11. Numbers' /\ Results'
      BY <1>0, <1>1, <2>3 DEF Numbers, Results, TypeOK
    <2> QED
      BY <2>3, <2>6, <2>7, <2>9, <2>10, <2>11 DEF IInv
  <1> QED
    BY <1>3, <1>4 DEF timer

\* The interrupt flag and a halt are nothing the tables depend on.
LEMMA FlagsIInv ==
    ASSUME IInv, intr' \in BOOLEAN, halted' \in BOOLEAN,
           UNCHANGED <<state, priv, stack, kstack, res, gen, sp, c_thread, esp0, live, creates, joining>>
    PROVE  IInv'
  <1>1. TypeOK /\ SlotsInUse /\ StacksExclusive /\ NobodyOnFreedStack /\ EntryStackIsOwn /\ Numbers /\ Results
    BY DEF IInv
  <1>2. TypeOK'
    BY <1>1 DEF TypeOK
  <1>3. SlotsInUse' /\ StacksExclusive' /\ NobodyOnFreedStack' /\ EntryStackIsOwn'
    BY <1>1 DEF SlotsInUse, StacksExclusive, Owners, StacksOf, NobodyOnFreedStack, EntryStackIsOwn
  <1>4. Numbers' /\ Results'
    BY <1>1 DEF Numbers, Results
  <1> QED
    BY <1>2, <1>3, <1>4 DEF IInv

LEMMA NextIInv == IInv /\ [Next]_vars => IInv'
  <1> SUFFICES ASSUME IInv, [Next]_vars PROVE IInv'
    OBVIOUS
  <1> USE ThreadsLemma
  <1>0. TypeOK /\ SlotsInUse /\ StacksExclusive /\ NobodyOnFreedStack /\ EntryStackIsOwn /\ Numbers /\ Results
    BY DEF IInv
  <1>1. CASE kthread_create
    <2>1. CASE CreateFails
      <3>1. halted' \in BOOLEAN /\ intr' \in BOOLEAN
        BY <1>0, <2>1 DEF CreateFails, TypeOK
      <3> QED
        BY <2>1, <3>1, FlagsIInv DEF CreateFails, table
    <2> QED
      BY <1>1, <2>1, CreateIInv DEF kthread_create
  <1>2. CASE kthread_ret
    <2>1. /\ priv[c_thread] = "user" /\ c_thread # 0 /\ c_thread \in Threads
          /\ state' = [state EXCEPT ![c_thread] = "DONE"]
          /\ res'   = [res EXCEPT ![c_thread] = gen[c_thread]]
          /\ UNCHANGED <<priv, stack, kstack, sp, c_thread, esp0, intr, live, creates, gen, joining, halted>>
      BY <1>0, <1>2 DEF kthread_ret, Executes, SlotsInUse, TypeOK
    <2>2. TypeOK'
      BY <1>0, <2>1 DEF TypeOK, States
    <2>3. Owners' = Owners /\ \A t \in Threads : StacksOf(t)' = StacksOf(t)
      BY <1>0, <2>1 DEF Owners, StacksOf, TypeOK, SlotsInUse
    <2>4. StacksExclusive'
      BY <1>0, <2>1, <2>3 DEF StacksExclusive, StacksOf
    <2>5. SlotsInUse' /\ NobodyOnFreedStack' /\ EntryStackIsOwn'
      BY <1>0, <2>1, <2>3 DEF SlotsInUse, NobodyOnFreedStack, EntryStackIsOwn, TypeOK, StacksOf, Owners
    <2>6. Numbers' /\ Results'
      BY <1>0, <2>1 DEF Numbers, Results, TypeOK
    <2> QED
      BY <2>2, <2>4, <2>5, <2>6 DEF IInv
  <1>3. CASE ThreadReturns
    BY <1>3, FlagsIInv DEF ThreadReturns, table
  <1>4. CASE kthread_join
    <2>1. UNCHANGED <<table, sp, c_thread, esp0, intr, live, creates, halted>>
      BY <1>4 DEF kthread_join, JoinCall, JoinLeave, JoinRead
    <2>2. /\ TypeOK'
          /\ \A t \in Threads : joining'[t].of <= creates
          /\ \A t \in Threads : joining'[t].at # "no" => joining'[t].of # 0
          /\ \A t \in Threads : joining'[t].at = "read" /\ gen[joining'[t].fd] = joining'[t].of
                                    => state[joining'[t].fd] # "RUNNING"
      <3>1. CASE JoinCall
        BY <1>0, <2>1, <3>1 DEF JoinCall, table, TypeOK, Numbers, Results
      <3>2. CASE JoinLeave
        <4> DEFINE fd == joining[c_thread].fd
                   of == joining[c_thread].of
                   now == [at |-> "read", fd |-> fd, of |-> of]
        <4>1. joining[c_thread].at = "wait" /\ state[fd] # "RUNNING"
          BY <3>2 DEF JoinLeave
        <4>2. /\ c_thread \in Threads
              /\ joining[c_thread] \in [at : {"no", "wait", "read"}, fd : Threads, of : 0 .. MaxCreates]
          BY <1>0 DEF TypeOK
        <4>3. joining' = [joining EXCEPT ![c_thread] = now]
          <5>1. joining' = [joining EXCEPT ![c_thread].at = "read"]
            BY <3>2 DEF JoinLeave
          <5>2. [joining[c_thread] EXCEPT !.at = "read"] = now
            BY <4>2
          <5>3. [joining EXCEPT ![c_thread].at = "read"]
                  = [joining EXCEPT ![c_thread] = [joining[c_thread] EXCEPT !.at = "read"]]
            BY <1>0, <4>2 DEF TypeOK
          <5> QED
            BY <5>1, <5>2, <5>3
        <4>4. now \in [at : {"no", "wait", "read"}, fd : Threads, of : 0 .. MaxCreates]
          BY <4>2
        <4>5. of <= creates /\ of # 0
          BY <1>0, <4>1, <4>2 DEF Numbers, Results
        <4> HIDE DEF now
        <4>6. \A t \in Threads : joining'[t] = IF t = c_thread THEN now ELSE joining[t]
          BY <4>3, <1>0 DEF TypeOK
        <4>7. TypeOK'
          BY <1>0, <2>1, <4>3, <4>4 DEF table, TypeOK
        <4> QED
          BY <1>0, <4>1, <4>5, <4>6, <4>7 DEF now, Numbers, Results
      <3>3. CASE JoinRead
        <4>1. joining' = [joining EXCEPT ![c_thread] = NotJoining]
          BY <3>3 DEF JoinRead
        <4>2. NotJoining \in [at : {"no", "wait", "read"}, fd : Threads, of : 0 .. MaxCreates]
          BY BoundAssumption, MaxThreadsAssumption DEF NotJoining, Threads
        <4>3. \A t \in Threads : joining'[t] = IF t = c_thread THEN NotJoining ELSE joining[t]
          BY <4>1, <1>0 DEF TypeOK
        <4>4. TypeOK'
          BY <1>0, <2>1, <4>1, <4>2 DEF table, TypeOK
        <4>5. creates \in Nat
          BY <1>0, BoundAssumption DEF TypeOK
        <4> QED
          BY <1>0, <4>3, <4>4, <4>5 DEF NotJoining, Numbers, Results
      <3> QED
        BY <1>4, <3>1, <3>2, <3>3 DEF kthread_join
    <2> QED
      BY <1>0, <2>1, <2>2 DEF table, IInv, SlotsInUse, StacksExclusive, Owners, StacksOf,
                              NobodyOnFreedStack, EntryStackIsOwn, Numbers, Results
  <1>5. CASE timer
    BY <1>5, TimerIInv
  <1>6. CASE UNCHANGED vars
    BY <1>0, <1>6 DEF vars, IInv, TypeOK, SlotsInUse, StacksExclusive, Owners, StacksOf,
                      NobodyOnFreedStack, EntryStackIsOwn, Numbers, Results
  <1> QED
    BY <1>1, <1>2, <1>3, <1>4, <1>5, <1>6 DEF Next

THEOREM IInvariant == Spec => []IInv
  BY InitIInv, NextIInv, PTL DEF Spec

\* The table keeps its shape for every number of slots.
THEOREM TypeCorrect == Spec => []TypeOK
  BY IInvariant, PTL DEF IInv

\* kthread_create and the reaping in kthread_schedule never share, lose or
\* doubly free a stack.
THEOREM StacksStayExclusive == Spec => []StacksExclusive
  BY IInvariant, PTL DEF IInv

\* No thread, current or waiting, depends on a freed stack.
THEOREM NeverOnFreedStack == Spec => []NobodyOnFreedStack
  BY IInvariant, PTL DEF IInv

\* The TSS always names the kernel stack of the user thread that executes.
THEOREM EntryStack == Spec => []EntryStackIsOwn
  BY IInvariant, PTL DEF IInv

\* kthread_join returns the result of the thread it was called for, unless
\* its slot was given away.
THEOREM JoinIsFaithful == Spec => []JoinFaithful
  <1>1. IInv => JoinFaithful
    <2> SUFFICES ASSUME IInv, NEW t \in Threads, joining[t].at = "read",
                        gen[joining[t].fd] = joining[t].of
                 PROVE  res[joining[t].fd] = joining[t].of
      BY DEF JoinFaithful
    <2> QED
      BY DEF IInv, TypeOK, Results
  <1> QED
    BY <1>1, IInvariant, PTL

\* Every switch brings every waiting thread nearer to its turn.
THEOREM SwitchesAreFair == Spec => RoundRobin
  <1>1. IInv /\ [Next]_vars =>
            [\A t \in Threads : /\ c_thread' # c_thread
                                /\ state[t] = "RUNNING" /\ t # c_thread
              => Dist(c_thread', t) < Dist(c_thread, t)]_vars
    <2> SUFFICES ASSUME IInv, Next, NEW t \in Threads, c_thread' # c_thread,
                        state[t] = "RUNNING", t # c_thread
                 PROVE  Dist(c_thread', t) < Dist(c_thread, t)
      OBVIOUS
    <2>1. timer
      BY DEF Next, kthread_create, Create, CreateFails, kthread_ret, ThreadReturns,
             kthread_join, JoinCall, JoinLeave, JoinRead
    <2>2. PICK tn \in Threads : SwitchTo(tn)
      BY <2>1 DEF timer, NoSwitch
    <2>3. t \in Candidates /\ c_thread \in Threads
      BY DEF Candidates, IInv, TypeOK
    <2>4. Dist(c_thread, tn) <= Dist(c_thread, t) /\ tn # c_thread /\ c_thread' = tn
      BY <2>2, <2>3 DEF SwitchTo, Candidates
    <2> QED
      BY <2>3, <2>4, DistLemma
  <1> QED
    BY <1>1, IInvariant, PTL DEF Spec, RoundRobin
=============================================================================
