------------------------------ MODULE KThread -------------------------------
(***************************************************************************)
(* kernel/kthread.c with arch/x86/kthread.S and arch/x86/kt_ctx.c: the     *)
(* thread table, the timer interrupt that switches threads, and the stacks.*)
(*                                                                         *)
(* One processor: at any time thread c_thread executes, and every action   *)
(* but the timer is a step of that thread.  The timer fires only while     *)
(* interrupts are enabled; what runs with them disabled (the locked part   *)
(* of kthread_create, system calls, the timer itself) is one step.         *)
(*                                                                         *)
(* Stacks are names.  `live' holds the stacks kmalloc has handed out and   *)
(* kfree has not taken back; Boot is the stack thread 0 was started on,    *)
(* which no allocator knows.  kmalloc never fails for a stack (see KHeap), *)
(* so the second error return of kthread_create cannot be reached.         *)
(***************************************************************************)
EXTENDS Integers, FiniteSets

CONSTANTS MaxThreads,     \* MAX_THREADS, 16 in the code
          Stack,          \* the blocks kmalloc may return for a stack
          Boot, NoStack,  \* thread 0's stack; no stack at all
          MaxCreates,     \* bound: calls of kthread_create that find a slot
          MayReturn       \* whether a thread function may return to its caller

ASSUME MaxThreadsAssumption == MaxThreads \in Nat \ {0}
ASSUME StackAssumption == Boot \notin Stack /\ NoStack \notin Stack /\ Boot # NoStack
ASSUME BoundAssumption == MaxCreates \in Nat /\ MayReturn \in BOOLEAN

Threads == 0 .. MaxThreads-1
States  == {"UNUSED", "RUNNING", "DONE"}

VARIABLES state, priv,    \* ctx_buf[t].state; the level the thread was started at
          stack, kstack,  \* ctx_buf[t].stack_base, kstack_base (and ksp, its top)
          sp,             \* the stack that holds thread t's saved frame
          res,            \* ctx_buf[t].res
          c_thread,       \* the thread that executes
          esp0,           \* the stack the TSS names for entries from user mode
          intr,           \* the interrupt flag
          live,           \* the allocated stacks
          creates,        \* the number of threads created so far; also ...
          gen,            \* ... the number of the thread that slot t holds or held
          joining,        \* where thread t is in kthread_join, its fd and whom it means
          halted          \* the processor stopped in exception_handler

table == <<state, priv, stack, kstack, res, gen>>
vars  == <<state, priv, stack, kstack, sp, res, c_thread, esp0, intr, live,
           creates, gen, joining, halted>>

NotJoining == [at |-> "no", fd |-> 0, of |-> 0]

\* _kthread_init: the kernel is thread 0, the other slots are zero.
Init == /\ state  = [t \in Threads |-> IF t = 0 THEN "RUNNING" ELSE "UNUSED"]
        /\ priv   = [t \in Threads |-> "kernel"]
        /\ stack  = [t \in Threads |-> IF t = 0 THEN Boot ELSE NoStack]
        /\ kstack = [t \in Threads |-> NoStack]
        /\ sp     = [t \in Threads |-> NoStack]
        /\ res    = [t \in Threads |-> 0]
        /\ c_thread = 0
        /\ esp0 = Boot
        /\ intr = TRUE
        /\ live = {}
        /\ creates = 0
        /\ gen = [t \in Threads |-> 0]
        /\ joining = [t \in Threads |-> NotJoining]
        /\ halted = FALSE

\* Thread c_thread executes code of its own, at privilege level p.
Executes(p) == ~ halted /\ priv[c_thread] = p /\ joining[c_thread] = NotJoining

-----------------------------------------------------------------------------
(* kthread_create, called by kernel code.                                  *)

FreeSlot(t) == state[t] = "UNUSED" /\ \A u \in Threads : u < t => state[u] # "UNUSED"

\* kt_init_context fakes the first frame on the thread's own stack.
Create(t, p) ==
    /\ creates < MaxCreates
    /\ FreeSlot(t)
    /\ \E base, kbase \in Stack \ live :
          /\ base # kbase
          /\ live'   = live \cup {base, kbase}
          /\ stack'  = [stack EXCEPT ![t] = base]
          /\ kstack' = [kstack EXCEPT ![t] = kbase]
          /\ sp'     = [sp EXCEPT ![t] = base]
    /\ state' = [state EXCEPT ![t] = "RUNNING"]
    /\ priv'  = [priv EXCEPT ![t] = p]
    /\ creates' = creates + 1
    /\ gen'   = [gen EXCEPT ![t] = creates + 1]
    /\ joining' = [joining EXCEPT ![t] = NotJoining]
    /\ intr' = TRUE
    /\ UNCHANGED <<res, c_thread, esp0, halted>>

\* "Thread limit reached": the function returns without unlock().
CreateFails ==
    /\ \A t \in Threads : state[t] # "UNUSED"
    /\ intr' = FALSE
    /\ UNCHANGED <<table, sp, c_thread, esp0, live, creates, joining, halted>>

kthread_create ==
    /\ Executes("kernel")
    /\ \/ \E t \in Threads, p \in {"kernel", "user"} : Create(t, p)
       \/ CreateFails

-----------------------------------------------------------------------------
(* kthread_ret, reached from user mode through KCALL_EXIT.  The thread goes*)
(* on executing until the timer takes the processor away, so it can come   *)
(* here twice.  Its result is represented by its number.                   *)

\* Mutant: the thread that ends frees the stacks it is still on.
kthread_ret_frees ==
    /\ Executes("user")
    /\ state' = [state EXCEPT ![c_thread] = "UNUSED"]
    /\ res'   = [res EXCEPT ![c_thread] = gen[c_thread]]
    /\ live'  = live \ {stack[c_thread], kstack[c_thread]}
    /\ UNCHANGED <<priv, stack, kstack, sp, c_thread, esp0, intr, creates, gen, joining, halted>>

kthread_ret ==
    /\ Executes("user")
    /\ state' = [state EXCEPT ![c_thread] = "DONE"]
    /\ res'   = [res EXCEPT ![c_thread] = gen[c_thread]]
    /\ UNCHANGED <<priv, stack, kstack, sp, c_thread, esp0, intr, live, creates,
                   gen, joining, halted>>

\* The return address kt_init_context leaves for a thread function is 0; the
\* page fault there is not resolved, and exception_handler halts.
ThreadReturns ==
    /\ MayReturn
    /\ ~ halted /\ c_thread # 0 /\ joining[c_thread] = NotJoining
    /\ halted' = TRUE
    /\ intr' = FALSE
    /\ UNCHANGED <<table, sp, c_thread, esp0, live, creates, joining>>

-----------------------------------------------------------------------------
(* kthread_join, called by kernel code with an fd some create returned: a  *)
(* busy wait, then a read of the result.                                   *)

JoinCall ==
    /\ Executes("kernel")
    /\ \E fd \in Threads \ {0, c_thread} :
          /\ gen[fd] # 0
          /\ joining' = [joining EXCEPT ![c_thread] = [at |-> "wait", fd |-> fd, of |-> gen[fd]]]
    /\ UNCHANGED <<table, sp, c_thread, esp0, intr, live, creates, halted>>

\* Mutant: the wait ends without looking at the state.
JoinLeave_early ==
    /\ ~ halted /\ joining[c_thread].at = "wait"
    /\ joining' = [joining EXCEPT ![c_thread].at = "read"]
    /\ UNCHANGED <<table, sp, c_thread, esp0, intr, live, creates, halted>>

\* The loop ends; the timer may come between that and the read of the result.
JoinLeave ==
    /\ ~ halted /\ joining[c_thread].at = "wait"
    /\ state[joining[c_thread].fd] # "RUNNING"
    /\ joining' = [joining EXCEPT ![c_thread].at = "read"]
    /\ UNCHANGED <<table, sp, c_thread, esp0, intr, live, creates, halted>>

\* The caller gets res[joining[c_thread].fd].
JoinRead ==
    /\ ~ halted /\ joining[c_thread].at = "read"
    /\ joining' = [joining EXCEPT ![c_thread] = NotJoining]
    /\ UNCHANGED <<table, sp, c_thread, esp0, intr, live, creates, halted>>

kthread_join == JoinCall \/ JoinLeave \/ JoinRead

-----------------------------------------------------------------------------
(* _isr32 and kthread_schedule.                                            *)

\* How many turns of `tn = (tn + 1) % max_t' lead from slot a to slot b.
Dist(a, b) == IF b >= a THEN b - a ELSE b - a + MaxThreads

Candidates == {t \in Threads \ {c_thread} : state[t] = "RUNNING"}

\* The slots the loop passes before it stops at tn.
Before(tn) == {t \in Threads \ {c_thread} : Dist(c_thread, t) < Dist(c_thread, tn)}

\* Mutant: the kernel stack is forgotten.
Reap_leak(passed) ==
    LET done == {t \in passed : state[t] = "DONE"}
    IN  /\ live' = live \ {stack[t] : t \in done \ {0}}
        /\ state' = [t \in Threads |-> IF t \in done THEN "UNUSED" ELSE state[t]]

\* Mutant: only slot 0 is looked at for a thread that is done.
Reap_never(passed) ==
    LET done == {t \in passed \cap {0} : state[t] = "DONE"}
    IN  /\ live' = live
        /\ state' = [t \in Threads |-> IF t \in done THEN "UNUSED" ELSE state[t]]

\* A thread that is done loses its stacks when the scheduler passes it.
Reap(passed) ==
    LET done == {t \in passed : state[t] = "DONE"}
    IN  /\ live' = live \ UNION {{stack[t], kstack[t]} : t \in done \ {0}}
        /\ state' = [t \in Threads |-> IF t \in done THEN "UNUSED" ELSE state[t]]

\* The stack the interrupt frame is pushed on: a user thread enters through
\* the TSS, kernel code stays on the stack it runs on.
FrameStack == IF priv[c_thread] = "user" THEN esp0 ELSE stack[c_thread]

\* Mutant: the TSS is given the kernel stack of the thread that leaves.
SwitchTo_stale(tn) ==
    /\ tn \in Candidates
    /\ \A t \in Candidates : Dist(c_thread, tn) <= Dist(c_thread, t)
    /\ Reap(Before(tn))
    /\ esp0' = kstack[c_thread]
    /\ sp' = [sp EXCEPT ![c_thread] = FrameStack]
    /\ c_thread' = tn

\* Mutant: any running thread may be next.
SwitchTo_any(tn) ==
    /\ tn \in Candidates
    /\ Reap(Before(tn))
    /\ esp0' = kstack[tn]
    /\ sp' = [sp EXCEPT ![c_thread] = FrameStack]
    /\ c_thread' = tn

SwitchTo(tn) ==
    /\ tn \in Candidates
    /\ \A t \in Candidates : Dist(c_thread, tn) <= Dist(c_thread, t)
    /\ Reap(Before(tn))
    /\ esp0' = kstack[tn]
    /\ sp' = [sp EXCEPT ![c_thread] = FrameStack]
    /\ c_thread' = tn

\* No other thread runs: all slots are passed, and the interrupt returns.
NoSwitch ==
    /\ Candidates = {}
    /\ Reap(Threads \ {c_thread})
    /\ UNCHANGED <<esp0, sp, c_thread>>

timer ==
    /\ intr /\ ~ halted
    /\ NoSwitch \/ \E tn \in Threads : SwitchTo(tn)
    /\ UNCHANGED <<priv, stack, kstack, res, intr, creates, gen, joining, halted>>

-----------------------------------------------------------------------------
Next == kthread_create \/ kthread_ret \/ ThreadReturns \/ kthread_join \/ timer

Spec == Init /\ [][Next]_vars

(* The PIT keeps interrupting; nothing is assumed of what threads do.      *)
FairSpec == Spec /\ WF_vars(timer)

-----------------------------------------------------------------------------
(* Properties.                                                             *)

TypeOK ==
    /\ state \in [Threads -> States]
    /\ priv \in [Threads -> {"kernel", "user"}]
    /\ stack \in [Threads -> Stack \cup {Boot, NoStack}]
    /\ kstack \in [Threads -> Stack \cup {NoStack}]
    /\ sp \in [Threads -> Stack \cup {Boot, NoStack}]
    /\ res \in [Threads -> 0 .. MaxCreates]
    /\ gen \in [Threads -> 0 .. MaxCreates]
    /\ creates \in 0 .. MaxCreates
    /\ c_thread \in Threads
    /\ esp0 \in Stack \cup {Boot, NoStack}
    /\ intr \in BOOLEAN /\ halted \in BOOLEAN
    /\ live \subseteq Stack
    /\ joining \in [Threads -> [at : {"no", "wait", "read"}, fd : Threads, of : 0 .. MaxCreates]]

\* The slots that own allocated stacks: a thread that called kthread_ret owns
\* its stacks until the scheduler has passed it.
Owners == {t \in Threads \ {0} : state[t] # "UNUSED"}
StacksOf(t) == {stack[t], kstack[t]}

\* kthread_create and the reaping in kthread_schedule agree on ownership: two
\* threads never share a stack, a stack is freed once and with its owner, and
\* no stack is lost.
StacksExclusive ==
    /\ \A t \in Owners : stack[t] # kstack[t]
    /\ \A t, u \in Owners : t # u => StacksOf(t) \cap StacksOf(u) = {}
    /\ live = UNION {StacksOf(t) : t \in Owners}

\* The processor never executes on a freed stack: the current thread is not
\* reaped under its own feet although it stays current after kthread_ret, and
\* what a waiting thread will resume from is on a stack of its own.
NobodyOnFreedStack ==
    /\ c_thread # 0 => c_thread \in Owners
    /\ \A t \in Owners \ {c_thread} : state[t] = "RUNNING" => sp[t] \in StacksOf(t) \cap live

\* Entries from user mode land on the kernel stack of the thread that is
\* interrupted, whatever switches there were (kstack_update in the scheduler).
EntryStackIsOwn == priv[c_thread] = "user" => esp0 = kstack[c_thread] /\ esp0 \in live

\* kthread_join hands out the result of the thread it was called for, unless
\* the slot was given to another thread in the meantime; the test of the state
\* and the read of the result are apart, and reaping lies between them.
JoinFaithful ==
    \A t \in Threads :
        LET j == joining[t]
        IN  j.at = "read" /\ gen[j.fd] = j.of => res[j.fd] = j.of

\* Round robin: a timer that switches brings every thread that keeps running
\* nearer to its turn, so nobody waits for more than MaxThreads - 1 switches.
RoundRobin ==
    [][\A t \in Threads : /\ c_thread' # c_thread
                          /\ state[t] = "RUNNING" /\ t # c_thread
          => Dist(c_thread', t) < Dist(c_thread, t)]_vars

\* A running thread gets the processor again, and a finished one loses its
\* stacks, as long as nobody has left interrupts disabled: kthread_create on
\* a full table does so for good unless the same thread creates again.
RunningIsScheduled ==
    \A t \in Threads : state[t] = "RUNNING" ~> (c_thread = t \/ ~ intr)

DoneIsReaped ==
    \A t \in Threads : state[t] = "DONE" ~> (state[t] = "UNUSED" \/ ~ intr)

\* What the comment in kthread_schedule says: "If a thread has just returned,
\* free its stack and mark it as unused".
ReturnedIsReaped == halted ~> (state[c_thread] = "UNUSED")
=============================================================================
