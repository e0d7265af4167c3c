-------------------------------- MODULE Boot --------------------------------
(***************************************************************************)
(* kernel/kernel.c, the initcalls in the order in which the linker puts    *)
(* them, and what happens meanwhile: interrupts are enabled by the first   *)
(* initcall, so the timer and the keyboard interrupt all the others, and   *)
(* from kthread_create on thread 1, kevent_proc, runs next to kmain.       *)
(*                                                                         *)
(* A call of kmain is two steps, Begin and End, that anything enabled may  *)
(* come between; it uses the heap, if it does, for all of that time.  What *)
(* the calls do is the matter of the other modules: here it counts what    *)
(* they need, what they make ready, and who is inside kmalloc and kfree,   *)
(* which take no lock.                                                     *)
(***************************************************************************)
EXTENDS Integers, Sequences, FiniteSets

CONSTANT QueueLimit    \* BUF_SIZE-1 in kernel/kevent.c: the events the queue holds

ASSUME QueueAssumption == QueueLimit \in Nat \ {0}

Does(name, heap, locked, needs, makes) ==
    [name |-> name, heap |-> heap, locked |-> locked, needs |-> needs, makes |-> makes]

\* Levels 0 to 3 of the initcalls; within a level the order of OBJS.
Initcalls ==
  << Does("arch_init",     FALSE, TRUE,  {},                  {}),
     Does("kheap_init",    FALSE, FALSE, {},                  {"heap"}),
     Does("usermode_init", TRUE,  FALSE, {"heap"},            {"tss"}),
     Does("kevent_init",   TRUE,  FALSE, {"heap"},            {"queue"}),
     Does("kthread_init",  TRUE,  TRUE,  {"heap"},            {"table"}),
     Does("driver_init",   FALSE, FALSE, {},                  {"drivers"}),
     Does("blkdev_init",   TRUE,  FALSE, {"heap"},            {"devices"}),
     Does("ata_init",      TRUE,  FALSE, {"heap", "drivers"}, {}) >>

\* Mutant: the consumers are registered before the buffers are allocated.
kshell_init_register_first ==
  << Does("register",      FALSE, FALSE, {"queue"},           {"CHAR"}),
     Does("register",      FALSE, FALSE, {"queue"},           {"KEY"}),
     Does("kshell_init",   TRUE,  FALSE, {"heap"},            {}) >>

\* kevent_register makes the dispatcher call back for events of that type.
kshell_init ==
  << Does("kshell_init",   TRUE,  FALSE, {"heap"},            {}),
     Does("register",      FALSE, FALSE, {"queue"},           {"CHAR"}),
     Does("register",      FALSE, FALSE, {"queue"},           {"KEY"}),
     Does("prompt",        FALSE, FALSE, {},                  {}) >>

\* Mutant: the buses are scanned before the initcalls have run.
kmain_probe_first ==
  << Does("pci_enumerate", TRUE, FALSE, {"heap", "drivers", "devices"}, {}) >> \o Initcalls

kmain ==
  Initcalls
  \o << Does("pci_enumerate",  TRUE, FALSE, {"heap", "drivers", "devices"}, {}),
        Does("kthread_create", TRUE, TRUE,  {"heap", "table"}, {"thread1"}),
        Does("ext2_init",      TRUE, FALSE, {"heap", "devices"}, {}) >>
  \o kshell_init

-----------------------------------------------------------------------------
VARIABLES at, inside,   \* the call of kmain that is next, or that thread 0 is in
          intr,         \* the interrupt flag
          ready,        \* what has been made ready
          early,        \* what has been used before it was ready
          c_thread,     \* the thread that executes
          proc,         \* thread 1: "polls", or the type of the event it calls back for
          queue,        \* the types of the events in the queue, oldest first
          halted        \* an exception has stopped the processor

boot_vars == <<at, inside, intr, ready, early, c_thread, proc, queue, halted>>

BootInit == /\ at = 1 /\ inside = FALSE
        /\ intr = FALSE
        /\ ready = {} /\ early = {}
        /\ c_thread = 0 /\ proc = "polls"
        /\ queue = <<>>
        /\ halted = FALSE

AtEnd == at > Len(kmain)

\* Thread t executes.
Runs(t) == ~ halted /\ c_thread = t

Begin == /\ Runs(0) /\ ~ inside /\ ~ AtEnd
         /\ inside' = TRUE
         /\ intr'  = (intr /\ ~ kmain[at].locked)
         /\ early' = early \cup (kmain[at].needs \ ready)
         /\ UNCHANGED <<at, ready, c_thread, proc, queue, halted>>

End == /\ Runs(0) /\ inside
       /\ inside' = FALSE /\ at' = at + 1
       /\ intr'  = (intr \/ kmain[at].locked)
       /\ ready' = ready \cup kmain[at].makes
       /\ UNCHANGED <<early, c_thread, proc, queue, halted>>

\* kevent_proc: an event nobody is registered for is thrown away.
Dispatch == /\ Runs(1) /\ proc = "polls" /\ queue # <<>>
            /\ queue' = Tail(queue)
            /\ proc' = IF Head(queue) \in ready THEN Head(queue) ELSE "polls"
            /\ UNCHANGED <<at, inside, intr, ready, early, c_thread, halted>>

CallbackDone == /\ Runs(1) /\ proc # "polls"
                /\ proc' = "polls"
                /\ UNCHANGED <<at, inside, intr, ready, early, c_thread, queue, halted>>

\* Mutant: the scan always ends at the last slot.
Timer_last == /\ ~ halted /\ intr
              /\ {"table", "thread1"} \subseteq ready
              /\ c_thread' = 1
              /\ early' = early \cup ({"tss"} \ ready)
              /\ UNCHANGED <<at, inside, intr, ready, proc, queue, halted>>

\* kthread_schedule: before kthread_init has run there is nothing to do.
Timer == /\ ~ halted /\ intr
         /\ {"table", "thread1"} \subseteq ready
         /\ c_thread' = 1 - c_thread
         /\ early' = early \cup ({"tss"} \ ready)
         /\ UNCHANGED <<at, inside, intr, ready, proc, queue, halted>>

\* kinput: the event is dropped when the queue is full.
Put(q, e) == IF Len(q) < QueueLimit THEN Append(q, e) ELSE q

\* ps2_irq.  The ring kevent_init has not set up yet has size 0, and the
\* index is taken modulo the size: division by zero, and the handler halts.
Key == /\ ~ halted /\ intr
       /\ IF "queue" \in ready
          THEN /\ \E q \in {Put(queue, "KEY"), Put(Put(queue, "KEY"), "CHAR")} : queue' = q
               /\ UNCHANGED <<early, halted, intr>>
          ELSE /\ halted' = TRUE /\ intr' = FALSE
               /\ early' = early \cup {"queue"}
               /\ UNCHANGED queue
       /\ UNCHANGED <<at, inside, ready, c_thread, proc>>

BootNext == Begin \/ End \/ Dispatch \/ CallbackDone \/ Timer \/ Key

BootSpec == BootInit /\ [][BootNext]_boot_vars

\* The calls that print nothing.  The others do, and a call of kprintf may never
\* return: serial_putc waits for room in its ring, with interrupts disabled in
\* kthread_init and kthread_create, and nothing need ever make room (module
\* Serial says when).
Quiet == {"driver_init", "register"}

Printing == inside /\ kmain[at].name \notin Quiet

\* The timer goes on ticking, and thread 0, given the processor again and again,
\* gets on: a time slice is much longer than a step.  Nothing is assumed of a
\* call that prints, nor of thread 1.
BootFairSpec == /\ BootSpec
                /\ SF_boot_vars(Begin)
                /\ SF_boot_vars(End /\ ~ Printing)
                /\ SF_boot_vars(Timer)

-----------------------------------------------------------------------------
(* Properties.                                                             *)

\* The threads inside the heap: kshell_proc and hist_newline are called back
\* for characters.
HeapUsers == (IF inside /\ kmain[at].heap THEN {0} ELSE {})
             \cup (IF proc = "CHAR" THEN {1} ELSE {})

\* kmalloc and kfree take no lock, and a thread can be preempted inside them.
\* Still no two calls overlap: thread 0 is done with the heap before it
\* registers the shell, and thread 1 does not use it before.
HeapExclusive == Cardinality(HeapUsers) <= 1

\* The initcalls and the calls of kmain come in an order in which everything
\* is ready when it is used, also by the interrupts that are enabled from the
\* first one on, but for one thing: the queue, if a key is pressed in the
\* time between arch_init and kevent_init.  That halts the machine.
NothingUsedEarly == early = {} \/ (early = {"queue"} /\ halted)

\* kmain gets to its end, whatever keys are pressed after kevent_init and
\* although thread 1 never sleeps, unless it stays in a call that prints; and
\* then it is not for want of the processor.
BootFinishes == <>(AtEnd \/ halted) \/ (<>[]Printing /\ []<>Runs(0))
=============================================================================
