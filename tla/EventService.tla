---------------------------- MODULE EventService ----------------------------
(***************************************************************************)
(* What the kernel's input path promises, without rings, indices or loops: *)
(* a bounded FIFO queue in front of one dispatcher.                        *)
(*                                                                         *)
(*   queue   the accepted events nobody has taken yet, oldest first        *)
(*   cur     the event the dispatcher is working on, or NoEvent            *)
(*   subs    the registered consumers                                      *)
(*   seen    the consumers that were called for cur                        *)
(***************************************************************************)
EXTENDS Naturals, Sequences

CONSTANTS Capacity, Event, NoEvent, Consumer

VARIABLES queue, cur, subs, seen

vars == <<queue, cur, subs, seen>>

\* An event is refused only by a full queue, and a refused event leaves no trace.
Put(q, e) == IF Len(q) < Capacity THEN Append(q, e) ELSE q

Init == /\ queue = << >>
        /\ cur = NoEvent
        /\ subs = {}
        /\ seen = {}

\* One interrupt offers one event, or two back to back.
Offer == /\ \E e, f \in Event : queue' \in {Put(queue, e), Put(Put(queue, e), f)}
         /\ UNCHANGED <<cur, subs, seen>>

Subscribe == /\ \E c \in Consumer : subs' = subs \cup {c}
             /\ UNCHANGED <<queue, cur, seen>>

Take == /\ cur = NoEvent
        /\ queue # << >>
        /\ cur' = Head(queue)
        /\ queue' = Tail(queue)
        /\ seen' = {}
        /\ UNCHANGED subs

\* A consumer is called only for an event of its type.
Call == /\ cur # NoEvent
        /\ \E c \in subs : c.type = cur.type /\ seen' = seen \cup {c}
        /\ UNCHANGED <<queue, cur, subs>>

\* The dispatcher lets go of an event only after every consumer of its type
\* that is registered by then was called.
Finish == /\ cur # NoEvent
          /\ seen = {c \in subs : c.type = cur.type}
          /\ cur' = NoEvent
          /\ seen' = {}
          /\ UNCHANGED <<queue, subs>>

Next == Offer \/ Subscribe \/ Take \/ Call \/ Finish

Spec == Init /\ [][Next]_vars
=============================================================================
