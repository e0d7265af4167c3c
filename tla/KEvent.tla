------------------------------- MODULE KEvent -------------------------------
(***************************************************************************)
(* kernel/kevent.c: the path of an input event from the keyboard and       *)
(* serial interrupts, through the ring kinput_rb, to the consumers.        *)
(*                                                                         *)
(* Three actors share the ring and the consumer table without a lock:      *)
(*   - the interrupt handlers, which run with interrupts disabled and so   *)
(*     are single steps: ps2_irq offers a KEY event and perhaps a CHAR     *)
(*     event, serial_irq a CHAR event;                                     *)
(*   - thread 1, kevent_proc, which can be interrupted anywhere: its       *)
(*     rb_get is four steps (test, copy of the type, copy of the payload,  *)
(*     advance of the tail);                                               *)
(*   - thread 0, which registers consumers in three steps (test, slot,     *)
(*     index).                                                             *)
(***************************************************************************)
EXTENDS RingBuffer

CONSTANTS BufSize,        \* BUF_SIZE, 16 in the code
          MaxConsumers,   \* MAX_CONSUMERS, 8 in the code
          Keys, Chars,    \* the payloads of KEY and of CHAR events
          Callbacks,      \* the callback functions
          None            \* what memory holds before anybody wrote it

ASSUME BufSizeAssumption == BufSize \in Nat \ {0}
ASSUME MaxConsumersAssumption == MaxConsumers \in Nat
ASSUME PayloadAssumption == Keys \cap Chars = {} /\ None \notin Keys \cup Chars \cup Callbacks

Types    == {"KEY", "CHAR"}
KeyEvent(k)  == [type |-> "KEY",  val |-> k]
CharEvent(c) == [type |-> "CHAR", val |-> c]
Event    == {KeyEvent(k) : k \in Keys} \cup {CharEvent(c) : c \in Chars}
NoEvent  == [type |-> "none", val |-> None]
Consumer   == [type : Types, callback : Callbacks]
NoConsumer == [type |-> "none", callback |-> None]

VARIABLES kinput_rb,      \* the ring of events
          consumers,      \* the table of consumers
          con_idx,        \* how many slots of it are in use
          pc, evt, i,     \* kevent_proc: its position, its event, its loop counter
          regpc, reg      \* thread 0 inside kevent_register: position, argument

procVars == <<pc, evt, i>>
regVars  == <<consumers, con_idx, regpc, reg>>
vars     == <<kinput_rb, consumers, con_idx, pc, evt, i, regpc, reg>>

\* _kevent_init; kmain then creates the thread and reaches kshell_init.
Init == /\ kinput_rb = rb_init([s \in 0 .. BufSize-1 |-> NoEvent], BufSize)
        /\ consumers = [s \in 0 .. MaxConsumers-1 |-> NoConsumer]
        /\ con_idx = 0
        /\ pc = "get" /\ evt = NoEvent /\ i = 0
        /\ regpc = "idle" /\ reg = NoConsumer

-----------------------------------------------------------------------------
(* The interrupt handlers.  kinput drops the event when the ring is full,  *)
(* and no caller looks at its result.                                      *)

\* Mutant: the newest event replaces the oldest one when the ring is full.
kinput_overwrite(rb, e) == AdvanceHead(Fill(rb, e))

kinput(rb, e) == rb_put(rb, e)

ps2_irq == /\ \E k \in Keys :
                LET rb == kinput(kinput_rb, KeyEvent(k))
                IN  \/ kinput_rb' = rb
                    \/ \E c \in Chars : kinput_rb' = kinput(rb, CharEvent(c))
           /\ UNCHANGED <<procVars, regVars>>

serial_irq == /\ \E c \in Chars : kinput_rb' = kinput(kinput_rb, CharEvent(c))
              /\ UNCHANGED <<procVars, regVars>>

-----------------------------------------------------------------------------
(* kevent_proc.                                                            *)

GetTest == /\ pc = "get"
           /\ ~ rb_empty(kinput_rb)
           /\ pc' = "type"
           /\ UNCHANGED <<kinput_rb, evt, i, regVars>>

\* Mutant: the slot is given back before its payload was copied.
CopyType_early == /\ pc = "type"
                  /\ evt' = [evt EXCEPT !.type = rb_first(kinput_rb).type]
                  /\ kinput_rb' = AdvanceTail(kinput_rb)
                  /\ pc' = "val"
                  /\ UNCHANGED <<i, regVars>>

CopyType == /\ pc = "type"
            /\ evt' = [evt EXCEPT !.type = rb_first(kinput_rb).type]
            /\ pc' = "val"
            /\ UNCHANGED <<kinput_rb, i, regVars>>

CopyVal == /\ pc = "val"
           /\ evt' = [evt EXCEPT !.val = rb_first(kinput_rb).val]
           /\ pc' = "advance"
           /\ UNCHANGED <<kinput_rb, i, regVars>>

GetDone == /\ pc = "advance"
           /\ kinput_rb' = AdvanceTail(kinput_rb)
           /\ pc' = "dispatch"
           /\ i' = 0
           /\ UNCHANGED <<evt, regVars>>

\* One turn of the for loop: a matching consumer is called.
Dispatch == /\ pc = "dispatch"
            /\ i < con_idx
            /\ i' = i + 1
            /\ UNCHANGED <<kinput_rb, pc, evt, regVars>>

\* Mutant: the loop ends one consumer early.
DispatchDone_early == /\ pc = "dispatch"
                      /\ i >= con_idx - 1
                      /\ pc' = "get"
                      /\ UNCHANGED <<kinput_rb, evt, i, regVars>>

DispatchDone == /\ pc = "dispatch"
                /\ i >= con_idx
                /\ pc' = "get"
                /\ UNCHANGED <<kinput_rb, evt, i, regVars>>

kevent_proc == GetTest \/ CopyType \/ CopyVal \/ GetDone \/ Dispatch \/ DispatchDone

-----------------------------------------------------------------------------
(* kevent_register, called by thread 0.                                    *)

RegisterTest == /\ regpc = "idle"
                /\ con_idx < MaxConsumers
                /\ reg' \in Consumer
                /\ regpc' = "slot"
                /\ UNCHANGED <<kinput_rb, procVars, consumers, con_idx>>

RegisterSlot == /\ regpc = "slot"
                /\ consumers' = [consumers EXCEPT ![con_idx] = reg]
                /\ regpc' = "index"
                /\ UNCHANGED <<kinput_rb, procVars, con_idx, reg>>

RegisterIndex == /\ regpc = "index"
                 /\ con_idx' = con_idx + 1
                 /\ regpc' = "idle"
                 /\ UNCHANGED <<kinput_rb, procVars, consumers, reg>>

kevent_register == RegisterTest \/ RegisterSlot \/ RegisterIndex

-----------------------------------------------------------------------------
Next == ps2_irq \/ serial_irq \/ kevent_proc \/ kevent_register

Spec == Init /\ [][Next]_vars

(* The timer gives every running thread its turns while interrupts are     *)
(* enabled, so kevent_proc keeps moving.  Nothing is assumed of the        *)
(* interrupts or of the thread that registers.                             *)
FairSpec == Spec /\ WF_vars(kevent_proc)
-----------------------------------------------------------------------------
(* Properties.                                                             *)

\* Shape of the state; in particular every index stays inside its array.
TypeOK == /\ kinput_rb \in Ring(BufSize, Event \cup {NoEvent})
          /\ consumers \in [0 .. MaxConsumers-1 -> Consumer \cup {NoConsumer}]
          /\ con_idx \in 0 .. MaxConsumers
          /\ pc \in {"get", "type", "val", "advance", "dispatch"}
          /\ evt \in [type : Types \cup {"none"}, val : Keys \cup Chars \cup {None}]
          /\ i \in 0 .. MaxConsumers
          /\ regpc \in {"idle", "slot", "index"}
          /\ reg \in Consumer \cup {NoConsumer}

\* No torn event: while kevent_proc copies the oldest slot, in pieces and
\* without disabling interrupts, no interrupt changes what it has copied or
\* is still to copy (rb_get in kevent_proc against kinput in the handlers).
\* So a consumer is only ever shown an event that was really offered.
NoTornEvent ==
    /\ pc \in {"type", "val", "advance"} => ~ rb_empty(kinput_rb)
    /\ pc = "val"      => evt.type = rb_first(kinput_rb).type
    /\ pc = "advance"  => evt = rb_first(kinput_rb)
    /\ pc = "dispatch" => evt \in Event

\* The dispatch loop, which reads con_idx and the table while thread 0 is in
\* the middle of kevent_register, never reads a slot that was not written.
RegisteredConsumersReady ==
    \A j \in 0 .. MaxConsumers-1 : j < con_idx => consumers[j] \in Consumer

\* Ring, copy, loop and table together implement the bounded FIFO service:
\* order is kept, an event is lost only by a full ring, and kevent_proc lets
\* go of an event only when every registered consumer of its type was called.
Service == INSTANCE EventService WITH
    Capacity <- BufSize - 1,
    queue    <- RbSeq(kinput_rb),
    cur      <- IF pc = "dispatch" THEN evt ELSE NoEvent,
    subs     <- {consumers[j] : j \in 0 .. con_idx-1},
    seen     <- IF pc = "dispatch"
                THEN {c \in {consumers[j] : j \in 0 .. i-1} : c.type = evt.type}
                ELSE {}

RefinesEventService == Service!Spec

\* Whatever the interrupts do, an event the ring accepted is dispatched: the
\* busy loop of kevent_proc cannot be kept from the oldest event for ever.
AcceptedIsDispatched ==
    \A e \in Event :
        (\E k \in 1 .. RbCount(kinput_rb) : RbSeq(kinput_rb)[k] = e)
            ~> (pc = "dispatch" /\ evt = e)
=============================================================================
