-------------------------------- MODULE Ata ---------------------------------
(***************************************************************************)
(* drivers/ata.c: ata_read and ata_write, by programmed I/O, on the disks  *)
(* of module AtaDisk.                                                      *)
(*                                                                         *)
(* The loops that poll the status end when they see what they wait for or  *)
(* after ATA_TIMEOUT turns: how long a disk takes is open, so either may   *)
(* come first.  Registers are written in one step, for nobody else writes  *)
(* them; between two looks at the status a disk may do anything.  Calls do *)
(* not overlap: all of them come from kmain and then from thread 1.        *)
(*                                                                         *)
(* A command that timed out goes on in the disk.  If the disk is not done  *)
(* with it when the next one is issued, that one is lost, and what is      *)
(* exchanged belongs to the first.  And an error that comes after the last *)
(* sector was sent is lost: the flush covers it, or nobody looks at it.    *)
(* `lost' records that one of these happened to the call.                  *)
(***************************************************************************)
EXTENDS AtaDisk, Sequences

CONSTANT Calls   \* what callers ask for

ASSUME CallsAssumption ==
    /\ Calls \subseteq [op : {"read", "write"}, lba : Nat, count : Nat, buf : Seq(Data)]
    /\ \A c \in Calls : c.op = "write" => Len(c.buf) = c.count

VARIABLES pc,         \* where the driver is, "idle" between calls
          slot, io,   \* the call: its disk and arguments
          buf,        \* what has been read
          s,          \* the loop variable: sectors exchanged
          res,        \* what the call returns
          lost        \* what the call lost: its command, an error or nothing

io_vars  == <<pc, slot, io, buf, s, res, lost>>

NoCall == [op |-> "none", lba |-> 0, count |-> 0, buf |-> <<>>]

AtaInit == /\ pc = "idle" /\ slot = <<0, 0>> /\ io = NoCall
           /\ buf = <<>> /\ s = 0 /\ res = 0 /\ lost = "nothing"

Return(r) == pc' = "done" /\ res' = r

At(p) == pc = p

\* The calls that are refused before the disk is asked.  base is 0 for a
\* channel that is not there; ata_write looks at it before the count.
Refused(d, c) == c.count = 0 \/ c.count > Sectors \/ d[1] = 0
Refusal(d, c) == IF c.count = 0 /\ (c.op = "read" \/ d[1] # 0) THEN 0 ELSE 1

\* The call of ata_read or ata_write; disk d was looked up from the device
\* (module Devices).
Begin(d, c) ==
    /\ At("idle")
    /\ slot' = d /\ io' = c
    /\ IF Refused(d, c) THEN Return(Refusal(d, c)) ELSE pc' = "wait" /\ UNCHANGED res
    /\ UNCHANGED <<buf, s, lost>>

base == slot[1]

\* ata_wait_not_busy, which looks at the drive that was selected before.
WaitReady == /\ At("wait")
             /\ ~ Busy(base)
             /\ pc' = "command"
             /\ UNCHANGED <<slot, io, buf, s, res, lost>>

WaitTimeout == /\ At("wait")
               /\ Busy(base)
               /\ Return(1)
               /\ UNCHANGED <<slot, io, buf, s, lost>>

\* Mutant: the call for the slave goes to the drive that was selected before.
Issue_unselected ==
    /\ At("command")
    /\ Command(Selected(base), io.op, io.lba % LbaMax, io.count % SecsMax)
    /\ lost' = IF Listens(Selected(base)) THEN lost ELSE "command"
    /\ pc' = "poll"
    /\ UNCHANGED <<disks, sel, medium, slot, io, buf, s, res>>

\* The drive is selected, the registers are written and then the command.
Issue == /\ At("command")
         /\ sel' = [sel EXCEPT ![base] = slot[2]]
         /\ Command(slot, io.op, io.lba % LbaMax, io.count % SecsMax)
         /\ lost' = IF Listens(slot) THEN lost ELSE "command"
         /\ pc' = "poll"
         /\ UNCHANGED <<disks, medium, slot, io, buf, s, res>>

\* ata_poll in ata_read and ata_write, and how it may end.
PollFails == /\ At("poll")
             /\ Status(base) # "drq"
             /\ Return(1)
             /\ UNCHANGED <<slot, io, buf, s, lost>>

Last == s + 1 = io.count

\* Mutant: the loop sends the first sector again and again.
SectorOut_same == /\ At("poll") /\ io.op = "write"
                  /\ Status(base) = "drq"
                  /\ DataOut(Selected(base), io.buf[1])
                  /\ s' = s + 1
                  /\ pc' = IF Last THEN "flush" ELSE "poll"
                  /\ UNCHANGED <<disks, sel, medium, slot, io, buf, res, lost>>

SectorOut == /\ At("poll") /\ io.op = "write"
             /\ Status(base) = "drq"
             /\ DataOut(Selected(base), io.buf[s + 1])
             /\ s' = s + 1
             /\ pc' = IF Last THEN "flush" ELSE "poll"
             /\ UNCHANGED <<disks, sel, medium, slot, io, buf, res, lost>>

SectorIn == /\ At("poll") /\ io.op = "read"
            /\ Status(base) = "drq"
            /\ DataIn(Selected(base))
            /\ buf' = Append(buf, ValueIn(Selected(base)))
            /\ s' = s + 1
            /\ IF Last THEN Return(0) ELSE UNCHANGED <<pc, res>>
            /\ UNCHANGED <<disks, sel, medium, slot, io, lost>>

\* The flush is issued at once, whatever the disk is at, and waited for
\* without a look at its errors.
Overlooks == lost' = IF Status(base) = "err" /\ lost = "nothing" THEN "error" ELSE lost

Flush == /\ At("flush")
         /\ Command(Selected(base), "flush", 0, 1)
         /\ pc' = "drain"
         /\ Overlooks
         /\ UNCHANGED <<disks, sel, medium, slot, io, buf, s, res>>

Drain == /\ At("drain")
         /\ Return(IF Busy(base) THEN 1 ELSE 0)
         /\ Overlooks
         /\ UNCHANGED <<slot, io, buf, s>>

\* The caller goes on.
Finish == /\ At("done")
          /\ pc' = "idle" /\ slot' = <<0, 0>> /\ io' = NoCall
          /\ buf' = <<>> /\ s' = 0 /\ res' = 0 /\ lost' = "nothing"

\* Mutant: waiting goes on for as long as the disk is busy.
Driver_patient ==
    \/ (WaitReady \/ (PollFails /\ ~ Busy(base)) \/ (Drain /\ ~ Busy(base)) \/ Finish) /\ UNCHANGED disk_vars
    \/ Issue \/ SectorIn \/ SectorOut \/ Flush

Driver == \/ (WaitReady \/ WaitTimeout \/ PollFails \/ Drain \/ Finish) /\ UNCHANGED disk_vars
          \/ Issue \/ SectorIn \/ SectorOut \/ Flush

-----------------------------------------------------------------------------
(* The driver by itself: calls for any disk, at any time it is idle.       *)

ata_vars == <<disk_vars, io_vars>>

\* After the scan (module Devices) a disk may still be at its IDENTIFY.
Probed0 == {x \in [phase : {"ready", "busy", "drq", "err"}, cmd : {"none", "identify"},
                   lba : {0, 1}, left : {0, 1}, data : {Junk}] :
                x.phase \in {"busy", "drq"} => x.left = 1}

Disks0 == /\ disks \subseteq Slot
          /\ sel \in [Port -> {0, 1}]
          /\ drive \in [disks -> Probed0]
          /\ medium \in [disks -> [0 .. Sectors-1 -> Data]]

AtaNext == \/ \E d \in disks, c \in Calls : Begin(d, c) /\ UNCHANGED disk_vars
           \/ Driver
           \/ Works /\ UNCHANGED io_vars

AtaSpec == AtaInit /\ Disks0 /\ [][AtaNext]_ata_vars

-----------------------------------------------------------------------------
(* Properties.                                                             *)

\* The disks are there or not, the drive selected is one of two, and no loop
\* goes past the count.
TypeOK == /\ disks \subseteq Slot
          /\ sel \in [Port -> {0, 1}]
          /\ drive \in [disks -> DriveState]
          /\ medium \in [disks -> [0 .. Sectors-1 -> Data]]
          /\ pc \in {"idle", "wait", "command", "poll", "flush", "drain", "done"}
          /\ io \in Calls \cup {NoCall}
          /\ s \in 0 .. io.count
          /\ buf \in Seq(Data \cup {Junk})
          /\ res \in {0, 1}
          /\ lost \in {"nothing", "command", "error"}

Succeeded(op) == At("done") /\ res = 0 /\ io.op = op

\* The sectors that 28 bits can address; beyond them the address wraps around.
InReach == io.lba + io.count <= LbaMax

\* A read that succeeds has read the sectors asked for, in their order, from
\* the disk asked for: also when the count does not fit its register, when
\* commands failed or timed out before, and when the other drive of the
\* channel is at work.  Not so if its command was lost.
ReadIsOfRequest == (Succeeded("read") /\ InReach /\ lost = "nothing") =>
    buf = [k \in 1 .. io.count |-> medium[slot][io.lba + k - 1]]

\* After a write that succeeds the disk asked for holds what was to be written,
\* in the sectors asked for, unless the command or an error was lost.
WriteIsStored == (Succeeded("write") /\ InReach /\ lost = "nothing") =>
    \A k \in 1 .. io.count : medium[slot][io.lba + k - 1] = io.buf[k]

\* Every call returns, whatever the disks do.
CallsReturn == ~ At("idle") ~> At("idle")
=============================================================================
