-------------------------------- MODULE Ps2 ---------------------------------
(***************************************************************************)
(* drivers/ps2.c: scan codes become key and character events.              *)
(*                                                                         *)
(* The keyboard is external: it queues the codes of keys struck, repeated  *)
(* and released while the handler is held up.  A character is the code of  *)
(* its key and whether its other form was chosen: which glyph the tables   *)
(* name for it is left out.  What kinput does with the events is module    *)
(* KEvent.                                                                 *)
(***************************************************************************)
EXTENDS Integers, Sequences

CONSTANTS Key,      \* the keys, by their code in set 1
          Arrow,    \* those of the extended keys
          Queue     \* how many codes the keyboard keeps

LSHIFT == 42
RSHIFT == 54
CAPSLK == 58
EXT    == 224
Shift == {LSHIFT, RSHIFT} \cap Key

\* The codes for which ps2_sc1 has a character, those of letters first.
Letter    == (16 .. 25) \cup (30 .. 38) \cup (44 .. 50)
Printable == Letter \cup (2 .. 15) \cup (26 .. 28) \cup (39 .. 41) \cup {43}
             \cup (51 .. 53) \cup {55, 57} \cup (71 .. 83)

ASSUME KeyAssumption == Key \subseteq 1 .. 127 /\ Arrow \subseteq 1 .. 127 /\ Queue \in Nat \ {0}

VARIABLES ext, shift, caps,
          events,  \* what the last interrupt gave to kinput
          down,    \* the plain keys that are held down
          wire     \* codes not read yet, with the shift keys held at that time

ps2_vars == <<ext, shift, caps, events, down, wire>>

Ps2Init == /\ ext = FALSE /\ shift = FALSE /\ caps = FALSE
           /\ events = <<>>
           /\ down = {} /\ wire = <<>>

-----------------------------------------------------------------------------
(* The keyboard.                                                           *)

Code(sc) == [sc |-> sc, held |-> down \cap Shift]

Send(codes) == /\ Len(wire) + Len(codes) <= Queue
               /\ wire' = wire \o codes
               /\ UNCHANGED <<ext, shift, caps, events>>

\* A key is struck, or repeats.
Press(k) == Send(<<Code(k)>>) /\ down' = down \cup {k}

Release(k) == k \in down /\ Send(<<Code(k + 128)>>) /\ down' = down \ {k}

\* An extended key is struck or released.
Extended(k) == Send(<<Code(EXT), Code(k)>>) /\ UNCHANGED down

Keyboard == \/ \E k \in Key : Press(k) \/ Release(k)
            \/ \E k \in Arrow : Extended(k) \/ Extended(k + 128)

-----------------------------------------------------------------------------
(* ps2_irq, with the code that it reads.                                   *)

KeyEvent(c)  == [type |-> "KEY", keycode |-> c.sc, pressed |-> c.sc < 128]
CharEvent(c) == [type |-> "CHAR", key |-> c.sc, held |-> c.held,
                 other |-> IF c.sc \in Letter THEN shift # caps ELSE shift]

\* Mutant: a shift key toggles, as caps lock does.
Modifiers_toggle(sc) ==
    /\ ext'   = (sc = EXT)
    /\ shift' = (shift # (sc \in Shift \cup {s + 128 : s \in Shift}))
    /\ caps'  = (caps # (sc = CAPSLK))

\* What the code does to the state of the keyboard.
Modifiers(sc) ==
    /\ ext'   = (sc = EXT)
    /\ shift' = (sc \in Shift \/ (shift /\ sc \notin {s + 128 : s \in Shift}))
    /\ caps'  = (caps # (sc = CAPSLK))

HasChar(sc) == sc \in Printable

\* Once ext is set every code is dropped: extended codes are to be done.
ps2_irq ==
    /\ wire # <<>>
    /\ wire' = Tail(wire)
    /\ UNCHANGED down
    /\ LET c == Head(wire)
       IN  IF ext
           THEN events' = <<>> /\ UNCHANGED <<ext, shift, caps>>
           ELSE /\ events' = <<KeyEvent(c)>> \o (IF HasChar(c.sc) THEN <<CharEvent(c)>> ELSE <<>>)
                /\ Modifiers(c.sc)

Ps2Next == Keyboard \/ ps2_irq

Ps2Spec == Ps2Init /\ [][Ps2Next]_ps2_vars

-----------------------------------------------------------------------------
(* Properties.                                                             *)

\* A character that is not a letter has its other form when it was struck with
\* all shift keys held, and not when it was struck with none, however late the
\* interrupt comes.
CharOfKeysHeld == \A i \in 1 .. Len(events) :
    (events[i].type = "CHAR" /\ events[i].key \notin Letter) =>
        /\ events[i].held = {}    => ~ events[i].other
        /\ events[i].held = Shift => (events[i].other \/ Shift = {})
=============================================================================
