------------------------------ MODULE AtaDisk -------------------------------
(***************************************************************************)
(* The disks behind an ATA channel, as drivers/ata.c uses them.  This is   *)
(* hardware, not code of the repository: what it does is what the driver   *)
(* counts on, and what it may do beyond that is left open.                 *)
(*                                                                         *)
(* A channel, named by its port, has room for two drives, of which one is  *)
(* selected.  A drive is busy, has data to exchange (DRQ), has an error to *)
(* report or is ready; it may stay busy for any time and fail whenever it  *)
(* is.  It ignores a command that comes while it is busy or exchanges data,*)
(* and an exchange in the wrong direction.                                 *)
(***************************************************************************)
EXTENDS Integers

CONSTANTS Port,      \* the channels
          Sectors,   \* the sectors of a disk
          SecsMax,   \* 256: the sector count register holds this many values
          LbaMax,    \* 2^28: so many sectors can be addressed
          Data,      \* what a sector can hold
          Junk       \* what is read when nothing was to be read

Slot == Port \X {0, 1}

ASSUME DiskAssumption == /\ Sectors \in Nat \ {0} /\ SecsMax \in Nat \ {0} /\ LbaMax \in Nat \ {0}
                         /\ Junk \notin Data

VARIABLES disks,    \* the slots that hold a disk
          sel,      \* the drive selected on each channel
          drive,    \* what each disk is at
          medium    \* and what its sectors hold

disk_vars == <<disks, sel, drive, medium>>

Idle == [phase |-> "ready", cmd |-> "none", lba |-> 0, left |-> 0, data |-> Junk]

DriveState == [phase : {"ready", "busy", "drq", "err"},
               cmd   : {"none", "read", "write", "flush", "identify"},
               lba   : Nat, left : Nat, data : Data \cup {Junk}]

\* The status register of a channel; 0 where the drive selected is missing.
Selected(p) == <<p, sel[p]>>
Status(p)   == IF Selected(p) \in disks THEN drive[Selected(p)].phase ELSE "none"
Busy(p)     == Status(p) = "busy"

\* A command that drive d takes; a count of 0 stands for SecsMax sectors.
Started(cmd, lba, secs) ==
    [phase |-> "busy", cmd |-> cmd, lba |-> lba,
     left |-> IF secs = 0 THEN SecsMax ELSE secs, data |-> Junk]

Listens(d) == d \in disks /\ drive[d].phase \in {"ready", "err"}

Command(d, cmd, lba, secs) ==
    drive' = IF Listens(d) THEN [drive EXCEPT ![d] = Started(cmd, lba, secs)] ELSE drive

\* One sector read from the data port of drive d, and one written to it.
ValueIn(d) == IF drive[d].cmd = "read" THEN medium[d][drive[d].lba] ELSE Junk

DataIn(d) ==
    drive' = IF drive[d].cmd \notin {"read", "identify"} THEN drive
             ELSE [drive EXCEPT ![d].lba = @ + 1, ![d].left = @ - 1,
                                ![d].phase = IF drive[d].left > 1 THEN "busy" ELSE "ready"]

DataOut(d, v) ==
    drive' = IF drive[d].cmd # "write" THEN drive
             ELSE [drive EXCEPT ![d].data = v, ![d].phase = "busy"]

-----------------------------------------------------------------------------
(* What a busy drive does next.                                            *)

Working(d) == d \in disks /\ drive[d].phase = "busy"

Fails(d) == /\ Working(d)
            /\ drive' = [drive EXCEPT ![d].phase = "err", ![d].data = Junk]
            /\ UNCHANGED <<disks, sel, medium>>

\* The next sector can be exchanged.
GetsReady(d) == /\ Working(d)
                /\ drive[d].data = Junk
                /\ \/ drive[d].cmd = "identify"
                   \/ drive[d].cmd \in {"read", "write"} /\ drive[d].lba < Sectors
                /\ drive' = [drive EXCEPT ![d].phase = "drq"]
                /\ UNCHANGED <<disks, sel, medium>>

\* A sector that was exchanged reaches the medium.
Stores(d) == /\ Working(d)
             /\ drive[d].cmd = "write" /\ drive[d].data # Junk
             /\ medium' = [medium EXCEPT ![d][drive[d].lba] = drive[d].data]
             /\ drive' = [drive EXCEPT ![d].lba = @ + 1, ![d].left = @ - 1, ![d].data = Junk,
                                       ![d].phase = IF drive[d].left > 1 THEN "busy" ELSE "ready"]
             /\ UNCHANGED <<disks, sel>>

Flushed(d) == /\ Working(d)
              /\ drive[d].cmd = "flush"
              /\ drive' = [drive EXCEPT ![d].phase = "ready"]
              /\ UNCHANGED <<disks, sel, medium>>

Works == \E d \in disks : Fails(d) \/ GetsReady(d) \/ Stores(d) \/ Flushed(d)
=============================================================================
