------------------------------- MODULE Serial -------------------------------
(***************************************************************************)
(* drivers/serial.c: COM1.  serial_putc puts a byte in the ring rb_tx and, *)
(* when the UART is idle, starts it; the interrupt "transmitter empty"     *)
(* then keeps it going from the ring.                                      *)
(*                                                                         *)
(* The UART has one interrupt line for all its causes, and the PIC takes   *)
(* notice of its rising edge only (ICW1 in drivers/pic.c).  serial_irq     *)
(* reads one cause and serves it, a byte received before an empty          *)
(* transmitter.  A cause that is left keeps the line high: no edge, and no *)
(* interrupt, follows (Deaf).                                              *)
(*                                                                         *)
(* serial_putc is one step per access to what it shares with serial_irq;   *)
(* serial_irq runs with interrupts disabled and is one step.  An interrupt *)
(* that is requested may be taken any number of steps later.  Callers do   *)
(* not overlap here, one calls after the other; some of them, those inside *)
(* lock() or an interrupt, run with interrupts disabled.                   *)
(*                                                                         *)
(* Both sides take bytes out of the ring and give them to the UART.  When  *)
(* the interrupt does so while serial_putc is between its test of the ring *)
(* and its outb, a byte is sent twice or out of order, tail may pass head, *)
(* and a FIFO that the interrupt has just filled loses the byte.  `raced'  *)
(* records that this has happened; the model goes on with what is left.    *)
(***************************************************************************)
EXTENDS RingBuffer

CONSTANTS TxSize,     \* sizeof(buf), 128 in the code
          Fifo,       \* the transmit FIFO, and the bytes serial_irq sends at most: 16
          RxFifo,     \* the receive FIFO, 16; 0 when nothing is received
          RxTrigger,  \* the bytes in it that raise "data ready", 14 in serial_init
          MaxPuts     \* bound: bytes that are put

ASSUME SizesAssumption == /\ TxSize \in Nat \ {0} /\ Fifo \in Nat \ {0}
                          /\ RxFifo \in Nat /\ RxTrigger \in Nat \ {0}
                          /\ MaxPuts \in Nat

VARIABLES rb_tx,
          uart,    \* the bytes in the transmit FIFO
          thre,    \* the cause "transmitter empty"
          rx,      \* how many bytes the receive FIFO holds
          timeout, \* the cause "bytes received, and none for a while"
          pic,     \* "unset" before pic_remap, then "idle" or an interrupt "request"
          sent,    \* how many bytes have left
          intr,    \* the interrupt flag
          putpc,   \* where the caller is in serial_putc, "out" of it between calls
          puts,    \* bytes put so far: they are numbered 1, 2, ...
          data,    \* the local variable of serial_putc
          raced

bytes == <<rb_tx, uart, sent, puts, data, raced>>

receiver == <<rx, timeout>>

serial_vars == <<bytes, receiver, thre, pic, intr, putpc>>

\* serial_init, called by _arch_init with interrupts disabled.  Enabling the
\* interrupt of an empty transmitter may raise its cause.
SerialInit == /\ rb_tx = rb_init([m \in 0 .. TxSize-1 |-> 0], TxSize)
              /\ uart = <<>> /\ thre \in BOOLEAN /\ sent = 0
              /\ rx = 0 /\ timeout = FALSE
              /\ pic = "unset" /\ intr = FALSE
              /\ putpc = "out" /\ puts = 0 /\ data = 0
              /\ raced = FALSE

\* A byte received can be read with an interrupt: causes 2 and 6.
Data == rx >= RxTrigger \/ timeout

\* The interrupt line of the UART.
Line == Data \/ thre

\* The PIC latches the edge, not the level.
Edge == pic' = IF pic = "idle" /\ ~ Line /\ Line' THEN "request" ELSE pic

\* The line is high and the PIC has seen its edge already.
Deaf == pic = "idle" /\ Line

At(p, q) == putpc = p /\ putpc' = q

-----------------------------------------------------------------------------
(* The caller, and serial_putc.                                            *)

\* _arch_init: ICW1 resets the edge detection, so a line that is high already
\* is not noticed.
pic_remap == /\ pic = "unset" /\ putpc = "out"
             /\ pic' = "idle"
             /\ UNCHANGED <<bytes, receiver, thre, intr, putpc>>

lock == putpc = "out" /\ intr' = FALSE /\ UNCHANGED <<bytes, receiver, thre, pic, putpc>>

\* The first one is the sti at the end of _arch_init.
unlock == putpc = "out" /\ pic # "unset" /\ intr' = TRUE /\ UNCHANGED <<bytes, receiver, thre, pic, putpc>>

\* What is printed before pic_remap, one line of isr_init, fits in the ring.
Call == /\ At("out", "put")
        /\ puts < MaxPuts
        /\ pic = "unset" => puts < TxSize - 1
        /\ UNCHANGED <<bytes, receiver, thre, pic, intr>>

\* rb_put.  While the ring is full the caller spins, which changes nothing.
PutCopy == /\ At("put", "head")
           /\ ~ rb_full(rb_tx)
           /\ rb_tx' = Fill(rb_tx, puts + 1)
           /\ UNCHANGED <<uart, sent, puts, data, raced, receiver, thre, pic, intr>>

PutHead == /\ At("head", "lsr")
           /\ rb_tx' = AdvanceHead(rb_tx)
           /\ puts' = puts + 1
           /\ UNCHANGED <<uart, sent, data, raced, receiver, thre, pic, intr>>

\* Mutant: the line status is not looked at, the interrupt is to do it all.
Lsr_never == At("lsr", "out") /\ UNCHANGED <<bytes, receiver, thre, pic, intr>>

\* Is the transmitter empty?
Lsr == /\ putpc = "lsr"
       /\ putpc' = IF uart = <<>> THEN "get" ELSE "out"
       /\ UNCHANGED <<bytes, receiver, thre, pic, intr>>

\* rb_get
TxTest == /\ putpc = "get"
          /\ putpc' = IF rb_empty(rb_tx) THEN "out" ELSE "copy"
          /\ UNCHANGED <<bytes, receiver, thre, pic, intr>>

TxCopy == /\ At("copy", "tail")
          /\ data' = rb_first(rb_tx)
          /\ UNCHANGED <<rb_tx, uart, sent, puts, raced, receiver, thre, pic, intr>>

TxTail == /\ At("tail", "outb")
          /\ rb_tx' = AdvanceTail(rb_tx)
          /\ UNCHANGED <<uart, sent, puts, data, raced, receiver, thre, pic, intr>>

\* Writing to the transmitter withdraws its cause.  A full FIFO drops the byte.
Outb == /\ At("outb", "out")
        /\ uart' = IF Len(uart) < Fifo THEN Append(uart, data) ELSE uart
        /\ raced' = (raced \/ Len(uart) = Fifo)
        /\ thre' = FALSE
        /\ data' = 0
        /\ UNCHANGED <<rb_tx, sent, puts, receiver, pic, intr>>

serial_putc == PutCopy \/ PutHead \/ Lsr \/ TxTest \/ TxCopy \/ TxTail \/ Outb

-----------------------------------------------------------------------------
(* The UART and the line.                                                  *)

Transmit == /\ uart # <<>>
            /\ sent' = sent + 1
            /\ uart' = Tail(uart)
            /\ thre' = (uart' = <<>>)
            /\ UNCHANGED <<rb_tx, puts, data, raced, receiver, intr, putpc>>
            /\ Edge

\* A byte that finds the FIFO full is lost.
Arrive == /\ rx < RxFifo
          /\ rx' = rx + 1
          /\ UNCHANGED <<bytes, timeout, thre, intr, putpc>>
          /\ Edge

\* The line has been quiet for four characters.
RxTimeout == /\ rx > 0 /\ ~ timeout
             /\ timeout' = TRUE
             /\ UNCHANGED <<bytes, rx, thre, intr, putpc>>
             /\ Edge

-----------------------------------------------------------------------------
(* serial_irq.  The other causes are not enabled (IER = 3).                *)

\* What Fifo calls of rb_get take, and leave.
Burst(rb) == SubSeq(RbSeq(rb), 1, IF RbCount(rb) < Fifo THEN RbCount(rb) ELSE Fifo)

\* Mutant: one more than the loop sends is taken out of the ring.
After_more(rb) == [rb EXCEPT !.tail = RbSlot(rb, IF RbCount(rb) > Fifo THEN Fifo + 1 ELSE RbCount(rb))]

After(rb) == [rb EXCEPT !.tail = RbSlot(rb, Len(Burst(rb)))]

\* Mutant: only the cause is read.
serial_irq_tx_idle == /\ ~ Data /\ thre
                      /\ thre' = FALSE
                      /\ UNCHANGED <<bytes, receiver>>

\* Cause 1.  Reading it clears it.
serial_irq_tx == /\ ~ Data /\ thre
                 /\ thre' = FALSE
                 /\ uart' = uart \o Burst(rb_tx)
                 /\ rb_tx' = After(rb_tx)
                 /\ raced' = (raced \/ (putpc \in {"copy", "tail", "outb"} /\ ~ rb_empty(rb_tx)))
                 /\ UNCHANGED <<sent, puts, data, receiver>>

\* Causes 2 and 6: one byte is read, however many there are.  kinput then
\* queues it (module KEvent).
serial_irq_rx == /\ Data
                 /\ rx' = rx - 1
                 /\ timeout' = FALSE
                 /\ UNCHANGED <<bytes, thre>>

\* The cause has been withdrawn since.
serial_irq_spurious == ~ Line /\ UNCHANGED <<bytes, receiver, thre>>

\* (Named apart from the one of KEvent.)
com1_irq == /\ intr /\ pic = "request"
            /\ pic' = "idle"
            /\ serial_irq_rx \/ serial_irq_tx \/ serial_irq_spurious
            /\ UNCHANGED <<intr, putpc>>

SerialNext == \/ pic_remap \/ lock \/ unlock \/ Call \/ serial_putc
              \/ Transmit \/ Arrive \/ RxTimeout
              \/ com1_irq

SerialSpec == SerialInit /\ [][SerialNext]_serial_vars

\* The thread that calls goes on, the UART sends, and a request that is there
\* whenever interrupts are enabled is served.  Nothing says that there is a
\* request: that is up to the edges.
SerialFairSpec == /\ SerialSpec
                  /\ WF_serial_vars(serial_putc)
                  /\ WF_serial_vars(Transmit)
                  /\ SF_serial_vars(com1_irq)

-----------------------------------------------------------------------------
(* Properties.                                                             *)

\* Also after the race no index leaves the storage, and the FIFO never holds
\* more than it can.
SerialTypeOK ==
    /\ rb_tx \in Ring(TxSize, 0 .. MaxPuts)
    /\ uart \in Seq(0 .. MaxPuts) /\ Len(uart) <= Fifo
    /\ sent \in Nat
    /\ {thre, timeout, intr, raced} \subseteq BOOLEAN
    /\ rx \in 0 .. RxFifo /\ pic \in {"unset", "idle", "request"}
    /\ putpc \in {"out", "put", "head", "lsr", "get", "copy", "tail", "outb"}
    /\ puts \in 0 .. MaxPuts /\ data \in 0 .. MaxPuts

\* The byte that serial_putc holds between rb_get and outb.
Held == IF putpc = "outb" THEN <<data>> ELSE <<>>

\* The bytes leave in the order in which they were put: those that have not
\* left are the last ones put, each in exactly one place, oldest in front.
\* So the only race between the two sides is the one `raced' names: an
\* interrupt at any other point, before, during or after rb_put or the look at
\* the line status, does no harm.
InOrder == ~ raced => uart \o Held \o RbSeq(rb_tx) = [m \in 1 .. puts - sent |-> sent + m]

\* With interrupts enabled serial_putc returns, after the race too, unless the
\* line stays high behind an edge that has been used up: then the caller spins
\* on a full ring although interrupts are enabled.
PutcReturnsUnlocked == []<>~ Deaf => (putpc = "put" /\ intr) ~> putpc # "put"

\* Every byte that was put leaves: there is no state in which the ring holds
\* bytes while neither the caller nor an interrupt will start the transmitter,
\* but those where interrupts stay disabled or the line stays high, and those
\* after the race.
AllLeave == ([]<>intr /\ []<>~ Deaf) =>
                \A n \in 1 .. MaxPuts : puts >= n ~> (sent >= n \/ raced)

\* "Putc will block until the ringbuffer is not full" (serial.c:27): the wait
\* ends.  It does not for a caller with interrupts disabled.
PutcReturns == putpc = "put" ~> putpc # "put"
=============================================================================
