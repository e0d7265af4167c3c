------------------------------- MODULE KShell -------------------------------
(***************************************************************************)
(* kernel/kshell.c: the line editor and the history of the kernel shell,   *)
(* as the consumer of character events that kevent_proc calls.             *)
(*                                                                         *)
(* The buffers are arrays of characters that end at the first NUL, as in   *)
(* the code.  A history entry is a pointer to a block that strdup took and *)
(* kfree gives back; strdup succeeds, for kmalloc never returns NULL for a *)
(* size that is not 0.  What a command does is in module Ext2 (kshell_proc *)
(* works on a copy of the line), and what is printed is left out.          *)
(* kconsumer_arrows makes the moves that the escape sequences make, for    *)
(* keycodes that ps2_irq never sends; its moves are part of Next all the   *)
(* same.                                                                   *)
(*                                                                         *)
(* A serial line may send a NUL, and serial_irq passes it on: it is stored *)
(* like any other character, and ends the string in the buffer while the   *)
(* cursor goes on behind it.                                               *)
(*                                                                         *)
(* The last four variables are not the code's: they keep what was typed in *)
(* the line, what the user sees as the live input, and whether histptr     *)
(* still speaks of it.                                                     *)
(***************************************************************************)
EXTENDS Integers, Sequences, FiniteSets

CONSTANTS len,        \* 256 in kmain
          hist_len,   \* 16 in kmain
          Typed,      \* the characters that are typed, but for those below; NUL may be one
          Block       \* the blocks that history entries may occupy

NUL == "NUL"

ASSUME SizeAssumption == len \in Nat \ {0} /\ hist_len \in Nat \ {0}
ASSUME TypedAssumption == Typed \cap {"ESC", "ENTER", "BS"} = {}
ASSUME BlockAssumption == IsFiniteSet(Block) /\ Cardinality(Block) > hist_len

VARIABLES state,                \* of the escape sequence: "NONE", "ESC", "CSI"
          shellbuf, shellptr,   \* the line and the place of the cursor, its end
          savebuf, histptr,     \* the input saved, the entry shown or -1
          shellhist, hist_count, \* the entries, newest first
          text,                 \* what the blocks in use hold
          typed,                \* the characters typed in the line, or recalled
          recalled,             \* the line was taken from the history since Enter
          live,                 \* the line as it was before that
          stale                 \* histptr was left over by Enter on an empty line

vars == <<state, shellbuf, shellptr, savebuf, histptr, shellhist, hist_count, text, typed, recalled, live, stale>>

Char   == Typed \cup {NUL}
Buffer == [0 .. len -> Char]
NoBlock == "NULL"

\* The string that starts at the beginning of a buffer.
strlen(b) == CHOOSE n \in 0 .. len : b[n] = NUL /\ \A k \in 0 .. n-1 : b[k] # NUL
Str(b)    == [k \in 1 .. strlen(b) |-> b[k-1]]

\* strncpy(.., s, len) pads with NUL; the last character is set apart.
Copied(s) == [k \in 0 .. len |-> IF k < Len(s) THEN s[k+1] ELSE NUL]

Blank == [k \in 0 .. len |-> NUL]

\* kshell_init
Init == /\ state = "NONE"
        /\ shellbuf = Blank /\ shellptr = 0
        /\ savebuf = Blank /\ histptr = -1
        /\ shellhist = [i \in 0 .. hist_len-1 |-> NoBlock] /\ hist_count = 0
        /\ text = [b \in {} |-> <<>>]
        /\ typed = <<>> /\ recalled = FALSE /\ live = <<>> /\ stale = FALSE

\* The user's view of a step that leaves the line as buf.
Sees(r, buf) == /\ recalled' = r
                /\ live' = IF r THEN live ELSE Str(buf)
                /\ stale' = (histptr' # -1 /\ (stale \/ ~ r))

-----------------------------------------------------------------------------
(* hist_newline.                                                           *)

Evicts == hist_count = hist_len

\* The blocks that are in use after the oldest entry is freed if need be.
Kept == IF Evicts THEN DOMAIN text \ {shellhist[hist_len - 1]} ELSE DOMAIN text

Shifted(n) == [i \in 0 .. hist_len-1 |-> IF i \in 1 .. n THEN shellhist[i - 1] ELSE shellhist[i]]

\* Mutant: the oldest entry is overwritten without being freed.
Store_leak ==
    LET b == CHOOSE b \in Block : b \notin DOMAIN text
        n == IF Evicts THEN hist_count - 1 ELSE hist_count
    IN  /\ text' = [c \in DOMAIN text \cup {b} |-> IF c = b THEN Str(shellbuf) ELSE text[c]]
        /\ shellhist' = [Shifted(n) EXCEPT ![0] = b]
        /\ hist_count' = n + 1

\* Mutant: the entries are not moved down.
Store_noshift ==
    LET b == CHOOSE b \in Block : b \notin Kept
        n == IF Evicts THEN hist_count - 1 ELSE hist_count
    IN  /\ text' = [c \in Kept \cup {b} |-> IF c = b THEN Str(shellbuf) ELSE text[c]]
        /\ shellhist' = [shellhist EXCEPT ![n] = b]
        /\ hist_count' = n + 1

Store ==
    LET b == CHOOSE b \in Block : b \notin Kept
        n == IF Evicts THEN hist_count - 1 ELSE hist_count
    IN  /\ text' = [c \in Kept \cup {b} |-> IF c = b THEN Str(shellbuf) ELSE text[c]]
        /\ shellhist' = [Shifted(n) EXCEPT ![0] = b]
        /\ hist_count' = n + 1

Empty     == shellptr = 0
Duplicate == hist_count > 0 /\ text[shellhist[0]] = Str(shellbuf)

ClearLine == /\ shellptr' = 0
             /\ shellbuf' = [shellbuf EXCEPT ![0] = NUL]
             /\ histptr' = -1

hist_newline ==
    /\ \/ /\ Empty
          /\ UNCHANGED <<shellbuf, shellptr, savebuf, histptr, shellhist, hist_count, text>>
       \/ /\ ~ Empty /\ Duplicate
          /\ ClearLine
          /\ UNCHANGED <<savebuf, shellhist, hist_count, text>>
       \/ /\ ~ Empty /\ ~ Duplicate
          /\ Store
          /\ ClearLine
          /\ savebuf' = [savebuf EXCEPT ![0] = NUL]
    /\ typed' = <<>>
    /\ Sees(FALSE, shellbuf')

-----------------------------------------------------------------------------
(* hist_move.                                                              *)

Entry(i) == text[shellhist[i]]

\* The line becomes s.
Show(s) == shellbuf' = Copied(s) /\ shellptr' = Len(s) /\ typed' = s

\* Mutant: the input is saved on every move.
hist_up_saves ==
    /\ savebuf' = Copied(Str(shellbuf))
    /\ IF histptr + 1 >= hist_count
       THEN UNCHANGED <<histptr, shellbuf, shellptr, typed, recalled, live, stale>>
       ELSE /\ histptr' = histptr + 1
            /\ Show(Entry(histptr + 1))
            /\ Sees(TRUE, shellbuf')
    /\ UNCHANGED <<shellhist, hist_count, text>>

\* Up: the input is saved on the first move.
hist_up ==
    /\ savebuf' = IF histptr = -1 THEN Copied(Str(shellbuf)) ELSE savebuf
    /\ IF histptr + 1 >= hist_count
       THEN UNCHANGED <<histptr, shellbuf, shellptr, typed, recalled, live, stale>>
       ELSE /\ histptr' = histptr + 1
            /\ Show(Entry(histptr + 1))
            /\ Sees(TRUE, shellbuf')
    /\ UNCHANGED <<shellhist, hist_count, text>>

\* Mutant: the length of the line is not computed again.
hist_down_keeps_length ==
    /\ IF histptr = -1
       THEN UNCHANGED <<histptr, shellbuf, shellptr, typed, recalled, live, stale>>
       ELSE /\ histptr' = histptr - 1
            /\ shellbuf' = IF histptr = 0 THEN savebuf ELSE Copied(Entry(histptr - 1))
            /\ UNCHANGED shellptr
            /\ typed' = IF histptr = 0 THEN Str(savebuf) ELSE Entry(histptr - 1)
            /\ Sees(histptr # 0, shellbuf')
    /\ UNCHANGED <<savebuf, shellhist, hist_count, text>>

\* Down: after the newest entry comes the input that was saved.
hist_down ==
    /\ IF histptr = -1
       THEN UNCHANGED <<histptr, shellbuf, shellptr, typed, recalled, live, stale>>
       ELSE /\ histptr' = histptr - 1
            /\ Show(IF histptr = 0 THEN Str(savebuf) ELSE Entry(histptr - 1))
            /\ Sees(histptr # 0, shellbuf')
    /\ UNCHANGED <<savebuf, shellhist, hist_count, text>>

kconsumer_arrows == (hist_up \/ hist_down) /\ UNCHANGED state

-----------------------------------------------------------------------------
(* kconsumer_shell, for a character c.                                     *)

Backspace ==
    /\ IF shellptr = 0
       THEN UNCHANGED <<shellbuf, shellptr, typed>>
       ELSE /\ shellptr' = shellptr - 1
            /\ typed' = SubSeq(typed, 1, Len(typed) - 1)
            /\ shellbuf' = [shellbuf EXCEPT ![shellptr - 1] = NUL]
    /\ UNCHANGED <<savebuf, histptr, shellhist, hist_count, text>>
    /\ Sees(recalled, shellbuf')

Insert(c) ==
    /\ IF shellptr >= len - 1
       THEN UNCHANGED <<shellbuf, shellptr, typed>>
       ELSE /\ shellptr' = shellptr + 1
            /\ typed' = Append(typed, c)
            /\ shellbuf' = [shellbuf EXCEPT ![shellptr] = c, ![shellptr + 1] = NUL]
    /\ UNCHANGED <<savebuf, histptr, shellhist, hist_count, text>>
    /\ Sees(recalled, shellbuf')

line == <<shellbuf, shellptr, savebuf, histptr, shellhist, hist_count, text, typed, recalled, live, stale>>

Plain == /\ state = "NONE"
         /\ \/ state' = "ESC" /\ UNCHANGED line
            \/ state' = "NONE" /\ (hist_newline \/ Backspace \/ \E c \in Typed : Insert(c))

\* After the escape character: "[", or anything else.
Escape == state = "ESC" /\ state' \in {"CSI", "NONE"} /\ UNCHANGED line

\* After "ESC [": "A", "B", or anything else.
Sequence == state = "CSI" /\ state' = "NONE" /\ (hist_up \/ hist_down \/ UNCHANGED line)

kconsumer_shell == Plain \/ Escape \/ Sequence

Next == kconsumer_shell \/ kconsumer_arrows

Spec == Init /\ [][Next]_vars

-----------------------------------------------------------------------------
(* Properties.                                                             *)

\* The cursor stays in the line, the index in the history, and the last
\* character of both buffers is always NUL.
TypeOK == /\ state \in {"NONE", "ESC", "CSI"}
          /\ shellbuf \in Buffer /\ savebuf \in Buffer
          /\ shellbuf[len] = NUL /\ savebuf[len] = NUL
          /\ shellptr \in 0 .. len-1
          /\ hist_count \in 0 .. hist_len
          /\ histptr \in -1 .. hist_count-1
          /\ shellhist \in [0 .. hist_len-1 -> Block \cup {NoBlock}]
          /\ DOMAIN text \subseteq Block

\* What a string in the code keeps of s.
UpToNul(s) == SubSeq(s, 1, CHOOSE n \in 0 .. Len(s) : /\ n < Len(s) => s[n+1] = NUL
                                                      /\ \A k \in 1 .. n : s[k] # NUL)

\* The cursor is behind the last character typed and the line is what was typed,
\* whatever was in the buffer before; but a NUL that was typed ends the line for
\* everyone who reads it, so that what follows is neither shown nor executed
\* while the cursor counts it.
CursorAtEnd == shellptr = Len(typed) /\ Str(shellbuf) = UpToNul(typed)

\* Every entry has a block of its own, which is in use, and no other is: the
\* history neither leaks its strings nor shows freed ones.
EntriesOwned == /\ \A i, j \in 0 .. hist_count-1 : shellhist[i] = shellhist[j] => i = j
                /\ {shellhist[i] : i \in 0 .. hist_count-1} = DOMAIN text

\* The history as a sequence, newest first.
History == [i \in 1 .. hist_count |-> Entry(i - 1)]

\* What Enter does to the history h: nothing if no character was typed or the
\* line is the newest entry, and otherwise the line becomes the newest of at most
\* hist_len.  "Don't store empty or duplicate commands" (kshell.c:136) looks at
\* the cursor: a line that begins with a NUL is stored, as an empty entry.
Stored(h) == LET s == UpToNul(typed)
             IN  IF typed = <<>> \/ (h # <<>> /\ Head(h) = s) THEN h
                 ELSE SubSeq(<<s>> \o h, 1, IF Len(h) < hist_len THEN Len(h) + 1 ELSE hist_len)

\* The history changes only in this way: moving about in it and editing lines
\* that came from it never does.
HistoryOfLines == [][History' \in {History, Stored(History)}]_vars

\* "Going up: save current input on first move" (kshell.c:170), and no move
\* after that loses it.  But Enter on a recalled line that was deleted leaves
\* histptr at the entry (hist_newline returns before it resets it): until it is
\* -1 again the next input counts as saved, and is not.
InputSaved == (recalled /\ ~ stale) => Str(savebuf) = live
=============================================================================
