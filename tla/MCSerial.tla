------------------------------ MODULE MCSerial ------------------------------
(* Model-checking instance of Serial: a ring that holds three bytes, a FIFO *)
(* of two, and enough bytes for the ring to wrap around and to fill.  Two   *)
(* received bytes reach the trigger, three fill the receive FIFO.           *)
EXTENDS Serial
=============================================================================
