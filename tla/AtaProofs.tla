----------------------------- MODULE AtaProofs ------------------------------
(***************************************************************************)
(* Proofs about Ata and Devices, for every number of disks and channels,   *)
(* every size of the disks, of the count register and of the address, all  *)
(* calls and all machines.                                                 *)
(*                                                                         *)
(* The inductive invariant of the driver, IInv, follows the exchange from  *)
(* both ends: how many sectors the driver has seen and where the disk is,  *)
(* of which one sector may still be on its way to the medium.              *)
(*                                                                         *)
(* That of the scan, ScanInv, says which disks have been asked at each     *)
(* position, that those and no others are in the list of devices but for   *)
(* the ones that missed, and that the number of each leads to it.  The     *)
(* lists are chains through the elements.  What a recursive function over  *)
(* them computes is proved by the least counterexample: WFMin of           *)
(* WellFoundedInduction needs no induction rule.                           *)
(***************************************************************************)
EXTENDS Devices, TLAPS, WellFoundedInduction, SequenceTheorems, FiniteSetTheorems

\* What a disk never is: ready to exchange with a sector on its way, or beyond
\* its last sector.
DisksOK ==
    \A d \in disks :
        /\ drive[d].phase \in {"busy", "drq"} => drive[d].left >= 1
        /\ drive[d].data # Junk => /\ drive[d].phase = "busy" /\ drive[d].cmd = "write"
                                   /\ drive[d].lba < Sectors
        /\ (drive[d].phase = "drq" /\ drive[d].cmd \in {"read", "write"}) => drive[d].lba < Sectors

\* The call: its disk is there, and selected once its command was issued.
CallOK ==
    /\ ~ At("idle") => slot \in disks /\ io \in Calls
    /\ (At("idle") \/ At("wait") \/ At("command")) => s = 0 /\ buf = <<>> /\ lost = "nothing"
    /\ (At("wait") \/ At("command") \/ At("poll")) => s < io.count
    /\ (At("poll") \/ At("flush") \/ At("drain")) => sel[slot[1]] = slot[2]
    /\ (At("flush") \/ At("drain")) => s = io.count /\ io.op = "write"

\* The first sector as the disk knows it, and that the first n are stored.
First     == io.lba % LbaMax
Stored(n) == \A k \in 1 .. n : medium[slot][First + k - 1] = io.buf[k]

Pending == drive[slot].data # Junk

\* A read: the disk is as far as the driver, which has what was on the medium.
ReadOK ==
    (io.op = "read" /\ lost = "nothing" /\ (At("poll") \/ At("done"))) =>
        /\ Len(buf) = s
        /\ \A k \in 1 .. s : buf[k] = medium[slot][First + k - 1]
        /\ (At("poll") \/ s > 0) => drive[slot].cmd = "read"
        /\ (At("poll") /\ drive[slot].phase \in {"busy", "drq"}) => drive[slot].lba = First + s
        /\ (At("done") /\ res = 0) => s = io.count

\* A write: likewise, but for the sector that is on its way.
WriteOK ==
    (io.op = "write" /\ lost = "nothing" /\ (At("poll") \/ At("flush") \/ At("drain"))) =>
        /\ At("poll") => drive[slot].cmd = "write"
        /\ Pending => /\ s >= 1 /\ Stored(s - 1)
                      /\ drive[slot].lba = First + s - 1 /\ drive[slot].data = io.buf[s]
        /\ (~ Pending /\ drive[slot].phase # "err") => Stored(s)
        /\ (~ Pending /\ drive[slot].cmd = "write" /\ drive[slot].phase \in {"busy", "drq"}) =>
                drive[slot].lba = First + s

DoneOK ==
    (io.op = "write" /\ lost = "nothing" /\ At("done") /\ res = 0 /\ io.count > 0) =>
        Stored(io.count) /\ drive[slot].phase # "busy"

IInv == TypeOK /\ DisksOK /\ CallOK /\ ReadOK /\ WriteOK /\ DoneOK

-----------------------------------------------------------------------------
\* Once the command was issued the drive selected is the one of the call.
LEMMA OnSlot ==
    ASSUME TypeOK, CallOK, At("poll") \/ At("flush") \/ At("drain")
    PROVE  /\ Selected(base) = slot /\ slot \in disks
           /\ Status(base) = drive[slot].phase
<1>1. slot \in disks /\ sel[slot[1]] = slot[2]
  BY DEF CallOK, At
<1>2. slot \in Slot
  BY <1>1 DEF TypeOK
<1>3. Selected(base) = slot
  BY <1>1, <1>2 DEF Selected, base, Slot
<1> QED
  BY <1>1, <1>3 DEF Status

\* What a call is.
LEMMA IoType ==
    ASSUME TypeOK
    PROVE  /\ io.count \in Nat /\ io.lba \in Nat /\ io.buf \in Seq(Data)
           /\ io.op \in {"none", "read", "write"}
           /\ io.op = "write" => Len(io.buf) = io.count
           /\ First \in Nat
<1>1. CASE io = NoCall
  <2>1. io.count = 0 /\ io.lba = 0 /\ io.buf = <<>> /\ io.op = "none"
    BY <1>1 DEF NoCall
  <2> QED BY <2>1, DiskAssumption DEF First
<1>2. CASE io \in Calls
  <2>1. io \in [op : {"read", "write"}, lba : Nat, count : Nat, buf : Seq(Data)]
    BY <1>2, CallsAssumption
  <2>2. io.op = "write" => Len(io.buf) = io.count
    BY <1>2, CallsAssumption
  <2> QED BY <2>1, <2>2, DiskAssumption DEF First
<1> QED BY <1>1, <1>2 DEF TypeOK

LEMMA InitOK == AtaInit /\ Disks0 => IInv
<1> SUFFICES ASSUME AtaInit, Disks0 PROVE IInv
  OBVIOUS
<1>1. \A d \in disks : drive[d] \in Probed0
  BY DEF Disks0
<1>2. Probed0 \subseteq DriveState
  BY DEF Probed0, DriveState
<1>3. TypeOK
  <2>1. sel \in [Port -> {0, 1}]
    BY DEF Disks0
  <2>2. drive \in [disks -> DriveState]
    BY <1>2 DEF Disks0
  <2>3. io = NoCall /\ s = 0 /\ NoCall.count = 0
    BY DEF AtaInit, NoCall
  <2>4. buf \in Seq(Data \cup {Junk})
    BY DEF AtaInit
  <2> QED BY <2>1, <2>2, <2>3, <2>4 DEF TypeOK, AtaInit, Disks0
<1>4. DisksOK
  BY <1>1 DEF DisksOK, Probed0
<1>5. CallOK
  BY DEF CallOK, AtaInit, At
<1>6. ReadOK /\ WriteOK /\ DoneOK
  BY DEF ReadOK, WriteOK, DoneOK, AtaInit, At, NoCall
<1> QED BY <1>3, <1>4, <1>5, <1>6 DEF IInv

-----------------------------------------------------------------------------
(* The steps of the driver that leave the disks alone.                     *)

LEMMA BeginOK ==
    ASSUME IInv, NEW d \in disks, NEW c \in Calls, Begin(d, c), UNCHANGED disk_vars
    PROVE  IInv'
<1> USE DEF IInv, Begin, disk_vars
<1>0. c.count \in Nat /\ c.count \in Nat
  BY CallsAssumption
<1>1. TypeOK'
  BY <1>0 DEF TypeOK, CallOK, At, Return, Refusal
<1>2. DisksOK'
  BY DEF DisksOK
<1>3. CallOK'
  BY <1>0 DEF CallOK, At, Return, Refused
<1>4. ReadOK' /\ WriteOK' /\ DoneOK'
  BY <1>0 DEF ReadOK, WriteOK, DoneOK, CallOK, At, Return, Refused, Refusal
<1> QED BY <1>1, <1>2, <1>3, <1>4

LEMMA WaitReadyOK ==
    ASSUME IInv, WaitReady, UNCHANGED disk_vars PROVE IInv'
<1> USE DEF IInv, WaitReady, disk_vars
<1>1. TypeOK'
  BY DEF TypeOK, At
<1>2. DisksOK'
  BY DEF DisksOK
<1>3. CallOK'
  BY DEF CallOK, At
<1>4. ReadOK' /\ WriteOK' /\ DoneOK'
  BY DEF ReadOK, WriteOK, DoneOK, At
<1> QED BY <1>1, <1>2, <1>3, <1>4

LEMMA WaitTimeoutOK ==
    ASSUME IInv, WaitTimeout, UNCHANGED disk_vars PROVE IInv'
<1> USE DEF IInv, WaitTimeout, Return, disk_vars
<1>1. TypeOK'
  BY DEF TypeOK, At
<1>2. DisksOK'
  BY DEF DisksOK
<1>3. CallOK'
  BY DEF CallOK, At
<1>4. ReadOK' /\ WriteOK' /\ DoneOK'
  BY DEF ReadOK, WriteOK, DoneOK, CallOK, At
<1> QED BY <1>1, <1>2, <1>3, <1>4

LEMMA PollFailsOK ==
    ASSUME IInv, PollFails, UNCHANGED disk_vars PROVE IInv'
<1> USE DEF IInv, PollFails, Return, disk_vars
<1>1. TypeOK'
  BY DEF TypeOK, At
<1>2. DisksOK'
  BY DEF DisksOK
<1>3. CallOK'
  BY DEF CallOK, At
<1>4. ReadOK'
  BY DEF ReadOK, At, First
<1>5. WriteOK' /\ DoneOK'
  BY DEF WriteOK, DoneOK, At
<1> QED BY <1>1, <1>2, <1>3, <1>4, <1>5

LEMMA FinishOK ==
    ASSUME IInv, Finish, UNCHANGED disk_vars PROVE IInv'
<1> USE DEF IInv, Finish, disk_vars
<1>0. NoCall.count = 0 /\ NoCall.op = "none"
  BY DEF NoCall
<1>1. TypeOK'
  BY <1>0 DEF TypeOK, At
<1>2. DisksOK'
  BY DEF DisksOK
<1>3. CallOK'
  BY DEF CallOK, At
<1>4. ReadOK' /\ WriteOK' /\ DoneOK'
  BY <1>0 DEF ReadOK, WriteOK, DoneOK, At
<1> QED BY <1>1, <1>2, <1>3, <1>4

\* A disk that is neither busy nor failed has stored all it was sent.
LEMMA DrainOK ==
    ASSUME IInv, Drain, UNCHANGED disk_vars PROVE IInv'
<1> USE DEF IInv, Drain, Return, Overlooks, disk_vars
<1>0. slot \in disks /\ Status(base) = drive[slot].phase
  BY OnSlot
<1>1. TypeOK'
  BY DEF TypeOK, At
<1>2. DisksOK'
  BY DEF DisksOK
<1>3. CallOK'
  BY DEF CallOK, At
<1>4. ReadOK' /\ WriteOK'
  BY DEF ReadOK, WriteOK, CallOK, At
<1>5. DoneOK'
  <2> SUFFICES ASSUME io.op = "write", lost' = "nothing", res' = 0
               PROVE  Stored(io.count)' /\ drive[slot].phase # "busy"
    BY DEF DoneOK, At
  <2>1. drive[slot].phase \notin {"busy", "err"} /\ lost = "nothing"
    BY <1>0 DEF Busy
  <2>2. ~ Pending
    BY <1>0, <2>1 DEF DisksOK, Pending
  <2>3. Stored(s)
    BY <2>1, <2>2 DEF WriteOK, At
  <2>4. s = io.count
    BY DEF CallOK, At
  <2> QED BY <2>1, <2>3, <2>4 DEF Stored, First
<1> QED BY <1>1, <1>2, <1>3, <1>4, <1>5

-----------------------------------------------------------------------------
(* The steps of the driver that the disks take part in.                    *)

\* A command makes a disk busy, or does nothing.
LEMMA CommandKeeps ==
    ASSUME TypeOK, DisksOK, NEW d \in disks, NEW cmd \in {"read", "write", "flush", "identify"},
           NEW lba \in Nat, NEW secs \in Nat, Command(d, cmd, lba, secs), disks' = disks
    PROVE  /\ drive' \in [disks -> DriveState] /\ DisksOK'
           /\ \A e \in disks : e # d => drive'[e] = drive[e]
           /\ Listens(d) => drive'[d] = Started(cmd, lba, secs)
           /\ ~ Listens(d) => drive'[d] = drive[d]
<1>1. /\ Started(cmd, lba, secs) \in DriveState
      /\ Started(cmd, lba, secs).left >= 1 /\ Started(cmd, lba, secs).phase = "busy"
      /\ Started(cmd, lba, secs).data = Junk
  BY DiskAssumption DEF Started, DriveState
<1>2. drive \in [disks -> DriveState]
  BY DEF TypeOK
<1>3. CASE Listens(d)
  <2>1. drive' = [drive EXCEPT ![d] = Started(cmd, lba, secs)]
    BY <1>3 DEF Command
  <2>2. drive'[d] = Started(cmd, lba, secs) /\ \A e \in disks : e # d => drive'[e] = drive[e]
    BY <2>1, <1>2
  <2>3. DisksOK'
    BY <2>2, <1>1 DEF DisksOK
  <2> QED BY <2>1, <2>2, <2>3, <1>1, <1>2, <1>3
<1>4. CASE ~ Listens(d)
  BY <1>4, <1>2 DEF Command, DisksOK
<1> QED BY <1>3, <1>4

LEMMA IssueOK ==
    ASSUME IInv, Issue PROVE IInv'
<1> USE DEF IInv, Issue
<1> DEFINE lba == io.lba % LbaMax
           secs == io.count % SecsMax
<1>0. /\ slot \in disks /\ slot \in Slot /\ lba \in Nat /\ secs \in Nat /\ lba = First
      /\ io.op \in {"read", "write"} /\ s = 0 /\ buf = <<>> /\ io \in Calls
  <2>1. slot \in disks /\ io \in Calls /\ s = 0 /\ buf = <<>>
    BY DEF CallOK, At
  <2>2. io.op \in {"read", "write"}
    BY <2>1, CallsAssumption
  <2>3. lba \in Nat /\ secs \in Nat
    BY IoType, DiskAssumption
  <2> QED BY <2>1, <2>2, <2>3 DEF TypeOK, First
<1>1. /\ drive' \in [disks -> DriveState] /\ DisksOK'
      /\ Listens(slot) => drive'[slot] = Started(io.op, lba, secs)
  <2> HIDE DEF lba, secs
  <2>1. Command(slot, io.op, lba, secs) /\ disks' = disks
    BY DEF lba, secs
  <2> QED BY <2>1, <1>0, CommandKeeps
<1>2. TypeOK'
  <2>1. sel' \in [Port -> {0, 1}]
    BY <1>0 DEF TypeOK, Slot, base
  <2> QED BY <2>1, <1>1 DEF TypeOK
<1>3. CallOK'
  <2>1. sel'[slot[1]] = slot[2]
    BY <1>0 DEF TypeOK, Slot, base
  <2> QED BY <2>1, <1>0 DEF CallOK, At
<1>4. ReadOK' /\ WriteOK' /\ DoneOK'
  <2> SUFFICES ASSUME lost' = "nothing" PROVE ReadOK' /\ WriteOK' /\ DoneOK'
    BY DEF ReadOK, WriteOK, DoneOK
  <2>1. Listens(slot)
    BY DEF CallOK, At
  <2>2. drive'[slot].cmd = io.op /\ drive'[slot].lba = First /\ drive'[slot].data = Junk
    BY <2>1, <1>1, <1>0 DEF Started
  <2>3. First' = First /\ First \in Nat
    BY IoType DEF First
  <2>4. ReadOK'
    BY <2>2, <2>3, <1>0 DEF ReadOK, At
  <2>5. WriteOK'
    BY <2>2, <2>3, <1>0 DEF WriteOK, At, Pending, Stored
  <2> QED BY <2>4, <2>5 DEF DoneOK, At
<1> QED BY <1>1, <1>2, <1>3, <1>4

\* The sector read is the one the driver has come to.
LEMMA SectorInOK ==
    ASSUME IInv, SectorIn PROVE IInv'
<1> USE DEF IInv, SectorIn
<1>0. /\ Selected(base) = slot /\ slot \in disks /\ drive[slot].phase = "drq"
      /\ drive[slot] \in DriveState /\ drive[slot].left >= 1 /\ drive[slot].data = Junk
      /\ io \in Calls /\ s \in Nat /\ s < io.count /\ io.count \in Nat /\ First \in Nat
      /\ buf \in Seq(Data \cup {Junk})
  BY OnSlot, IoType DEF TypeOK, CallOK, DisksOK, At
<1> DEFINE v == ValueIn(Selected(base))
<1>1. v \in Data \cup {Junk}
  <2>1. CASE drive[slot].cmd = "read"
    <3>1. drive[slot].lba \in 0 .. Sectors-1
      BY <2>1, <1>0, DiskAssumption DEF DisksOK, DriveState
    <3> QED BY <3>1, <2>1, <1>0 DEF TypeOK, ValueIn
  <2> QED BY <2>1, <1>0 DEF ValueIn
<1>2. /\ drive' \in [disks -> DriveState] /\ DisksOK'
      /\ drive[slot].cmd = "read" =>
             drive'[slot].lba = drive[slot].lba + 1 /\ drive'[slot].cmd = "read"
  <2>1. CASE drive[slot].cmd \in {"read", "identify"}
    <3> DEFINE new == [drive[slot] EXCEPT !.lba = @ + 1, !.left = @ - 1,
                          !.phase = IF drive[slot].left > 1 THEN "busy" ELSE "ready"]
    <3>1. drive' = [drive EXCEPT ![slot] = new]
      BY <2>1, <1>0 DEF DataIn, TypeOK
    <3>2. /\ new \in DriveState /\ new.lba = drive[slot].lba + 1 /\ new.cmd = drive[slot].cmd
          /\ new.data = Junk /\ new.phase \in {"busy", "ready"}
          /\ new.phase = "busy" => new.left >= 1
      <4>1. /\ drive[slot] \in DriveState /\ drive[slot].left >= 1 /\ drive[slot].data = Junk
        BY <1>0
      <4>2. /\ new.lba = drive[slot].lba + 1 /\ new.left = drive[slot].left - 1
            /\ new.phase = IF drive[slot].left > 1 THEN "busy" ELSE "ready"
            /\ new.cmd = drive[slot].cmd /\ new.data = drive[slot].data
            /\ new \in [phase : {"busy", "ready"}, cmd : {drive[slot].cmd},
                         lba : {drive[slot].lba + 1}, left : {drive[slot].left - 1},
                         data : {drive[slot].data}]
        BY <4>1 DEF DriveState
      <4>3. drive[slot].lba \in Nat /\ drive[slot].left \in Nat
        BY <4>1 DEF DriveState
      <4> QED BY <4>1, <4>2, <4>3 DEF DriveState
    <3> HIDE DEF new
    <3>3. drive'[slot] = new /\ \A e \in disks : e # slot => drive'[e] = drive[e]
      BY <3>1, <1>0 DEF TypeOK
    <3>4. DisksOK'
      BY <3>3, <3>2 DEF DisksOK
    <3>5. drive' \in [disks -> DriveState]
      BY <3>1, <3>2 DEF TypeOK
    <3> QED BY <3>2, <3>3, <3>4, <3>5
  <2>2. CASE drive[slot].cmd \notin {"read", "identify"}
    <3>1. drive' = drive
      BY <2>2, <1>0 DEF DataIn
    <3> QED BY <3>1, <2>2 DEF TypeOK, DisksOK
  <2> QED BY <2>1, <2>2
<1> HIDE DEF v
<1>3. buf' = Append(buf, v) /\ Len(buf') = Len(buf) + 1 /\ buf' \in Seq(Data \cup {Junk})
      /\ buf'[Len(buf) + 1] = v /\ \A k \in 1 .. Len(buf) : buf'[k] = buf[k]
  BY <1>0, <1>1 DEF v
<1>4. TypeOK'
  BY <1>0, <1>2, <1>3 DEF TypeOK, Last, Return, At
<1>5. CallOK'
  BY <1>0 DEF CallOK, At, Last, Return
<1>6. ReadOK'
  <2> SUFFICES ASSUME lost = "nothing" PROVE ReadOK'
    BY DEF ReadOK
  <2>1. /\ Len(buf) = s /\ drive[slot].cmd = "read" /\ drive[slot].lba = First + s
        /\ \A k \in 1 .. s : buf[k] = medium[slot][First + k - 1]
    BY <1>0 DEF ReadOK, At
  <2>2. v = medium[slot][First + s]
    BY <2>1, <1>0 DEF v, ValueIn
  <2>3. \A k \in 1 .. s + 1 : buf'[k] = medium[slot][First + k - 1]
    <3> SUFFICES ASSUME NEW k \in 1 .. s + 1 PROVE buf'[k] = medium[slot][First + k - 1]
      OBVIOUS
    <3>1. CASE k = s + 1
      <4>1. First + k - 1 = First + s
        BY <3>1, <1>0
      <4>2. buf'[k] = v
        BY <3>1, <2>1, <1>3
      <4> QED BY <4>1, <4>2, <2>2
    <3>2. CASE k \in 1 .. s
      BY <3>2, <2>1, <1>3
    <3>3. k = s + 1 \/ k \in 1 .. s
      BY <1>0
    <3> QED BY <3>1, <3>2, <3>3
  <2>4. First' = First /\ s' = s + 1 /\ Len(buf') = s' /\ drive'[slot].lba = First + s'
    BY <2>1, <1>2, <1>3, <1>0 DEF First
  <2> QED BY <2>1, <2>3, <2>4, <1>2, <1>0 DEF ReadOK, At, Last, Return
<1>7. WriteOK' /\ DoneOK'
  BY DEF WriteOK, DoneOK
<1> QED BY <1>2, <1>4, <1>5, <1>6, <1>7

\* One disk changes, to a state a disk can be in.
LEMMA DriveStep ==
    ASSUME TypeOK, DisksOK, NEW d \in disks, NEW x \in DriveState,
           drive' = [drive EXCEPT ![d] = x], disks' = disks,
           x.phase \in {"busy", "drq"} => x.left >= 1,
           x.data # Junk => x.phase = "busy" /\ x.cmd = "write" /\ x.lba < Sectors,
           (x.phase = "drq" /\ x.cmd \in {"read", "write"}) => x.lba < Sectors
    PROVE  /\ drive' \in [disks -> DriveState] /\ DisksOK' /\ drive'[d] = x
           /\ \A e \in disks : e # d => drive'[e] = drive[e]
<1>1. drive \in [disks -> DriveState]
  BY DEF TypeOK
<1>2. drive'[d] = x /\ \A e \in disks : e # d => drive'[e] = drive[e]
  BY <1>1
<1>3. DisksOK'
  BY <1>2 DEF DisksOK
<1> QED BY <1>1, <1>2, <1>3

\* The sector sent is on its way; those before are stored.
LEMMA SectorOutOK ==
    ASSUME IInv, SectorOut PROVE IInv'
<1> USE DEF IInv, SectorOut
<1>0. /\ Selected(base) = slot /\ slot \in disks /\ drive[slot].phase = "drq"
      /\ drive[slot] \in DriveState /\ drive[slot].left >= 1 /\ drive[slot].data = Junk
      /\ io \in Calls /\ s \in Nat /\ s < io.count /\ io.count \in Nat /\ First \in Nat
      /\ io.buf \in Seq(Data) /\ Len(io.buf) = io.count
  BY OnSlot, IoType DEF TypeOK, CallOK, DisksOK, At
<1> DEFINE v == io.buf[s + 1]
<1>1. v \in Data /\ v # Junk
  <2>1. s + 1 \in 1 .. Len(io.buf)
    BY <1>0
  <2> QED BY <2>1, <1>0, DiskAssumption
<1>2. DataOut(slot, v)
  BY <1>0
<1> HIDE DEF v
<1>3. /\ drive' \in [disks -> DriveState] /\ DisksOK'
      /\ drive[slot].cmd = "write" =>
             /\ drive'[slot].lba = drive[slot].lba /\ drive'[slot].cmd = "write"
             /\ drive'[slot].data = v
  <2>1. CASE drive[slot].cmd = "write"
    <3> DEFINE new == [drive[slot] EXCEPT !.data = v, !.phase = "busy"]
    <3>1. drive' = [drive EXCEPT ![slot] = new]
      BY <2>1, <1>0, <1>2 DEF DataOut, TypeOK
    <3>2. /\ new \in DriveState /\ new.lba = drive[slot].lba /\ new.cmd = "write"
          /\ new.data = v /\ new.phase = "busy" /\ new.left = drive[slot].left
      <4>1. drive[slot] \in DriveState
        BY <1>0
      <4> QED BY <4>1, <2>1, <1>1 DEF DriveState
    <3>3. new.lba < Sectors
      BY <3>2, <2>1, <1>0 DEF DisksOK
    <3> HIDE DEF new
    <3>4. drive' \in [disks -> DriveState] /\ DisksOK' /\ drive'[slot] = new
      BY <3>1, <3>2, <3>3, <1>0, DriveStep
    <3> QED BY <3>2, <3>4
  <2>2. CASE drive[slot].cmd # "write"
    <3>1. drive' = drive
      BY <2>2, <1>2 DEF DataOut
    <3> QED BY <3>1, <2>2 DEF TypeOK, DisksOK
  <2> QED BY <2>1, <2>2
<1>4. TypeOK'
  BY <1>0, <1>3 DEF TypeOK, Last, At
<1>5. CallOK'
  BY <1>0 DEF CallOK, At, Last
<1>6. WriteOK'
  <2> SUFFICES ASSUME lost = "nothing" PROVE WriteOK'
    BY DEF WriteOK
  <2>1. ~ Pending
    BY <1>0 DEF Pending
  <2>2. drive[slot].cmd = "write" /\ Stored(s) /\ drive[slot].lba = First + s
    BY <2>1, <1>0 DEF WriteOK, At
  <2>3. First' = First /\ s' = s + 1 /\ s' - 1 = s
    BY <1>0 DEF First
  <2>4. \A k \in 1 .. s' - 1 : medium[slot][First + k - 1] = io.buf[k]
    BY <2>2, <2>3 DEF Stored
  <2>5. /\ drive'[slot].data = io.buf[s'] /\ drive'[slot].data # Junk
        /\ drive'[slot].lba = First + s' - 1 /\ drive'[slot].cmd = "write"
    BY <2>2, <2>3, <1>0, <1>1, <1>3 DEF v
  <2>6. Pending' /\ s' >= 1
    BY <2>3, <2>5, <1>0 DEF Pending
  <2> QED BY <2>3, <2>4, <2>5, <2>6 DEF WriteOK, Stored
<1>7. ReadOK' /\ DoneOK'
  BY <1>0 DEF ReadOK, DoneOK, At, Last
<1> QED BY <1>3, <1>4, <1>5, <1>6, <1>7

\* The flush is taken by a disk that has stored everything, or has failed.
LEMMA FlushOK ==
    ASSUME IInv, Flush PROVE IInv'
<1> USE DEF IInv, Flush
<1>0. Selected(base) = slot /\ slot \in disks /\ Status(base) = drive[slot].phase
  BY OnSlot
<1>1. /\ drive' \in [disks -> DriveState] /\ DisksOK'
      /\ Listens(slot) => drive'[slot] = Started("flush", 0, 1)
      /\ ~ Listens(slot) => drive'[slot] = drive[slot]
  BY <1>0, CommandKeeps
<1>2. TypeOK'
  BY <1>1 DEF TypeOK, Overlooks, At
<1>3. CallOK'
  BY DEF CallOK, At
<1>4. WriteOK'
  <2> SUFFICES ASSUME lost' = "nothing", io.op = "write" PROVE WriteOK'
    BY DEF WriteOK
  <2>1. drive[slot].phase # "err" /\ lost = "nothing"
    BY <1>0 DEF Overlooks
  <2>2. First' = First
    BY DEF First
  <2>3. CASE Listens(slot)
    <3>1. drive[slot].phase = "ready" /\ drive[slot].data = Junk
      BY <2>1, <2>3, <1>0 DEF Listens, DisksOK
    <3>2. Stored(s)
      BY <3>1, <2>1 DEF WriteOK, At, Pending
    <3>3. Stored(s)' /\ drive'[slot].data = Junk /\ drive'[slot].cmd = "flush"
      BY <3>2, <2>2, <2>3, <1>1 DEF Stored, Started
    <3> QED BY <3>3 DEF WriteOK, At, Pending
  <2>4. CASE ~ Listens(slot)
    <3>1. drive'[slot] = drive[slot]
      BY <2>4, <1>1
    <3> QED BY <3>1, <2>1, <2>2 DEF WriteOK, At, Pending, Stored
  <2> QED BY <2>3, <2>4
<1>5. ReadOK' /\ DoneOK'
  BY DEF ReadOK, DoneOK, At
<1> QED BY <1>1, <1>2, <1>3, <1>4, <1>5

-----------------------------------------------------------------------------
(* The steps of the disks.                                                 *)

LEMMA FailsOK ==
    ASSUME IInv, NEW d \in disks, Fails(d), UNCHANGED io_vars PROVE IInv'
<1> USE DEF IInv, Fails, io_vars
<1> DEFINE new == [drive[d] EXCEPT !.phase = "err", !.data = Junk]
<1>0. drive[d] \in DriveState /\ drive[d].phase = "busy" /\ drive' = [drive EXCEPT ![d] = new]
  BY DEF TypeOK, Working
<1>1. /\ new \in DriveState /\ new.phase = "err" /\ new.data = Junk
      /\ new.cmd = drive[d].cmd
  BY <1>0 DEF DriveState
<1> HIDE DEF new
<1>2. /\ drive' \in [disks -> DriveState] /\ DisksOK' /\ drive'[d] = new
      /\ \A e \in disks : e # d => drive'[e] = drive[e]
  BY <1>0, <1>1, DriveStep
<1>3. TypeOK' /\ CallOK'
  BY <1>2 DEF TypeOK, CallOK, At
<1>4. ~ At("idle") => slot \in disks /\ (slot # d => drive'[slot] = drive[slot])
  BY <1>2 DEF CallOK
<1>5. ReadOK'
  BY <1>0, <1>1, <1>2, <1>4 DEF ReadOK, At, First
<1>6. WriteOK'
  BY <1>0, <1>1, <1>2, <1>4 DEF WriteOK, At, First, Pending, Stored
<1>7. DoneOK'
  BY <1>0, <1>1, <1>2, <1>4 DEF DoneOK, At, First, Stored
<1> QED BY <1>2, <1>3, <1>5, <1>6, <1>7

LEMMA GetsReadyOK ==
    ASSUME IInv, NEW d \in disks, GetsReady(d), UNCHANGED io_vars PROVE IInv'
<1> USE DEF IInv, GetsReady, io_vars
<1> DEFINE new == [drive[d] EXCEPT !.phase = "drq"]
<1>0. /\ drive[d] \in DriveState /\ drive[d].phase = "busy" /\ drive[d].data = Junk
      /\ drive[d].left >= 1 /\ drive' = [drive EXCEPT ![d] = new]
  BY DEF TypeOK, Working, DisksOK
<1>1. /\ new \in DriveState /\ new.phase = "drq" /\ new.data = Junk
      /\ new.cmd = drive[d].cmd /\ new.left = drive[d].left /\ new.lba = drive[d].lba
  BY <1>0 DEF DriveState
<1> HIDE DEF new
<1>2. new.cmd \in {"read", "write"} => new.lba < Sectors
  BY <1>1
<1>3. /\ drive' \in [disks -> DriveState] /\ DisksOK' /\ drive'[d] = new
      /\ \A e \in disks : e # d => drive'[e] = drive[e]
  BY <1>0, <1>1, <1>2, DriveStep
<1>4. TypeOK' /\ CallOK'
  BY <1>3 DEF TypeOK, CallOK, At
<1>5. ~ At("idle") => slot \in disks /\ (slot # d => drive'[slot] = drive[slot])
  BY <1>3 DEF CallOK
<1>6. ReadOK'
  BY <1>0, <1>1, <1>3, <1>5 DEF ReadOK, At, First
<1>7. WriteOK'
  BY <1>0, <1>1, <1>3, <1>5 DEF WriteOK, At, First, Pending, Stored
<1>8. DoneOK'
  BY <1>0, <1>1, <1>3, <1>5 DEF DoneOK, At, First, Stored
<1> QED BY <1>3, <1>4, <1>6, <1>7, <1>8

LEMMA FlushedOK ==
    ASSUME IInv, NEW d \in disks, Flushed(d), UNCHANGED io_vars PROVE IInv'
<1> USE DEF IInv, Flushed, io_vars
<1> DEFINE new == [drive[d] EXCEPT !.phase = "ready"]
<1>0. /\ drive[d] \in DriveState /\ drive[d].phase = "busy" /\ drive[d].data = Junk
      /\ drive[d].cmd = "flush" /\ drive' = [drive EXCEPT ![d] = new]
  BY DEF TypeOK, Working, DisksOK
<1>1. /\ new \in DriveState /\ new.phase = "ready" /\ new.data = Junk /\ new.cmd = "flush"
  BY <1>0 DEF DriveState
<1> HIDE DEF new
<1>2. /\ drive' \in [disks -> DriveState] /\ DisksOK' /\ drive'[d] = new
      /\ \A e \in disks : e # d => drive'[e] = drive[e]
  BY <1>0, <1>1, DriveStep
<1>3. TypeOK' /\ CallOK'
  BY <1>2 DEF TypeOK, CallOK, At
<1>4. ~ At("idle") => slot \in disks /\ (slot # d => drive'[slot] = drive[slot])
  BY <1>2 DEF CallOK
<1>5. ReadOK'
  BY <1>0, <1>1, <1>2, <1>4 DEF ReadOK, At, First
<1>6. WriteOK'
  BY <1>0, <1>1, <1>2, <1>4 DEF WriteOK, At, First, Pending, Stored
<1>7. DoneOK'
  BY <1>0, <1>1, <1>2, <1>4 DEF DoneOK, At, First, Stored
<1> QED BY <1>2, <1>3, <1>5, <1>6, <1>7

\* The sector on its way to the disk of a write is the last one sent.
LEMMA StoresOK ==
    ASSUME IInv, NEW d \in disks, Stores(d), UNCHANGED io_vars PROVE IInv'
<1> USE DEF IInv, Stores, io_vars
<1> DEFINE new == [drive[d] EXCEPT !.lba = @ + 1, !.left = @ - 1, !.data = Junk,
                      !.phase = IF drive[d].left > 1 THEN "busy" ELSE "ready"]
           l == drive[d].lba
           v == drive[d].data
<1>0. /\ drive[d] \in DriveState /\ drive[d].phase = "busy" /\ drive[d].cmd = "write"
      /\ drive[d].left >= 1 /\ drive' = [drive EXCEPT ![d] = new]
      /\ l \in 0 .. Sectors-1 /\ v \in Data /\ v # Junk
  <2>1. drive \in [disks -> DriveState] /\ drive[d].phase = "busy" /\ v # Junk
        /\ drive[d].cmd = "write" /\ drive' = [drive EXCEPT ![d] = new]
    BY DEF TypeOK, Working
  <2>2. l \in Nat /\ v \in Data
    BY <2>1 DEF DriveState
  <2>3. drive[d].left >= 1 /\ l < Sectors
    BY <2>1 DEF DisksOK
  <2>4. drive[d] \in DriveState
    BY <2>1
  <2>5. l \in 0 .. Sectors-1
    BY <2>2, <2>3, DiskAssumption
  <2> HIDE DEF new, l, v
  <2> QED BY <2>1, <2>2, <2>3, <2>4, <2>5
<1>1. /\ new \in DriveState /\ new.phase \in {"busy", "ready"} /\ new.data = Junk
      /\ new.cmd = "write" /\ new.lba = l + 1
      /\ new.phase = "busy" => new.left >= 1
  <2>1. drive[d] \in DriveState /\ drive[d].cmd = "write"
    BY <1>0
  <2>2. /\ new.lba = l + 1 /\ new.left = drive[d].left - 1 /\ new.data = Junk
        /\ new.phase = IF drive[d].left > 1 THEN "busy" ELSE "ready"
        /\ new.cmd = "write"
        /\ new \in [phase : {"busy", "ready"}, cmd : {"write"}, lba : {l + 1},
                    left : {drive[d].left - 1}, data : {Junk}]
    BY <2>1 DEF DriveState
  <2>3. l \in Nat /\ drive[d].left \in Nat /\ drive[d].left >= 1
    BY <1>0 DEF DriveState
  <2> QED BY <2>2, <2>3 DEF DriveState
<1> HIDE DEF new
<1>2. /\ drive' \in [disks -> DriveState] /\ DisksOK' /\ drive'[d] = new
      /\ \A e \in disks : e # d => drive'[e] = drive[e]
  BY <1>0, <1>1, DriveStep
<1>3. /\ medium' \in [disks -> [0 .. Sectors-1 -> Data]]
      /\ medium'[d][l] = v /\ \A k : k # l /\ k \in 0 .. Sectors-1 => medium'[d][k] = medium[d][k]
      /\ \A e \in disks : e # d => medium'[e] = medium[e]
  <2>1. medium \in [disks -> [0 .. Sectors-1 -> Data]] /\ medium' = [medium EXCEPT ![d][l] = v]
    BY DEF TypeOK
  <2>2. [medium[d] EXCEPT ![l] = v] \in [0 .. Sectors-1 -> Data]
    BY <2>1, <1>0
  <2> QED BY <2>1, <2>2, <1>0
<1>4. TypeOK' /\ CallOK'
  BY <1>2, <1>3 DEF TypeOK, CallOK, At
<1>5. CASE slot # d \/ At("idle")
  <2>1. ~ At("idle") => /\ slot \in disks
                        /\ drive'[slot] = drive[slot] /\ medium'[slot] = medium[slot]
    BY <1>2, <1>3, <1>5 DEF CallOK
  <2>2. ReadOK'
    BY <2>1 DEF ReadOK, At, First
  <2>3. WriteOK'
    BY <2>1 DEF WriteOK, At, First, Pending, Stored
  <2>4. DoneOK'
    BY <2>1 DEF DoneOK, At, First, Stored
  <2> QED BY <2>2, <2>3, <2>4, <1>2, <1>4
<1>6. CASE slot = d /\ ~ At("idle")
  <2>0. First \in Nat /\ First' = First /\ s \in Nat
    BY IoType DEF First, TypeOK
  <2>1. ReadOK'
    <3> SUFFICES ASSUME io.op = "read", lost = "nothing", At("poll") \/ At("done")
                 PROVE  ReadOK'
      BY DEF ReadOK, At
    <3>1. At("done") /\ s = 0
      BY <1>0, <1>6, <2>0 DEF ReadOK
    <3> QED BY <3>1 DEF ReadOK, At
  <2>2. WriteOK'
    <3> SUFFICES ASSUME io.op = "write", lost = "nothing", At("poll") \/ At("flush") \/ At("drain")
                 PROVE  WriteOK'
      BY DEF WriteOK, At
    <3>1. s >= 1 /\ Stored(s - 1) /\ l = First + s - 1 /\ v = io.buf[s]
      BY <1>0, <1>6 DEF WriteOK, Pending
    <3>2. \A k \in 1 .. s : medium'[slot][First + k - 1] = io.buf[k]
      <4> SUFFICES ASSUME NEW k \in 1 .. s PROVE medium'[slot][First + k - 1] = io.buf[k]
        OBVIOUS
      <4>1. CASE k = s
        BY <4>1, <3>1, <1>3, <1>6
      <4>2. CASE k # s
        <5>1. k \in 1 .. s - 1 /\ First + k - 1 # l /\ First + k - 1 \in 0 .. l
          BY <4>2, <3>1, <2>0
        <5>2. First + k - 1 \in 0 .. Sectors-1
          BY <5>1, <1>0, DiskAssumption
        <5> QED BY <5>1, <5>2, <3>1, <1>3, <1>6 DEF Stored
      <4> QED BY <4>1, <4>2
    <3>3. Stored(s)'
      BY <3>2, <2>0 DEF Stored
    <3>4. drive'[slot].lba = First + s /\ drive'[slot].data = Junk /\ drive'[slot].cmd = "write"
      BY <3>1, <2>0, <1>1, <1>2, <1>6
    <3> QED BY <3>3, <3>4, <2>0 DEF WriteOK, Pending, At
  <2>3. DoneOK'
    BY <1>0, <1>6 DEF DoneOK, At
  <2> QED BY <2>1, <2>2, <2>3, <1>2, <1>4
<1> QED BY <1>5, <1>6

-----------------------------------------------------------------------------
(* The theorems.                                                           *)

LEMMA StepOK ==
    ASSUME IInv, [AtaNext]_ata_vars PROVE IInv'
<1>1. CASE \E d \in disks, c \in Calls : Begin(d, c) /\ UNCHANGED disk_vars
  BY <1>1, BeginOK
<1>2. CASE Driver
  BY <1>2, WaitReadyOK, WaitTimeoutOK, PollFailsOK, DrainOK, FinishOK,
     IssueOK, SectorInOK, SectorOutOK, FlushOK DEF Driver
<1>3. CASE Works /\ UNCHANGED io_vars
  BY <1>3, FailsOK, GetsReadyOK, StoresOK, FlushedOK DEF Works
<1>4. CASE UNCHANGED ata_vars
  <2> USE <1>4 DEF ata_vars, disk_vars, io_vars
  <2>1. TypeOK' /\ DisksOK' /\ CallOK'
    BY DEF IInv, TypeOK, DisksOK, CallOK, At
  <2>2. ReadOK'
    BY DEF IInv, ReadOK, At, First
  <2>3. WriteOK'
    BY DEF IInv, WriteOK, At, First, Pending, Stored
  <2>4. DoneOK'
    BY DEF IInv, DoneOK, At, First, Stored
  <2> QED BY <2>1, <2>2, <2>3, <2>4 DEF IInv
<1> QED BY <1>1, <1>2, <1>3, <1>4 DEF AtaNext

\* The invariant holds in every state.
THEOREM Invariant == AtaSpec => []IInv
<1>1. AtaInit /\ Disks0 => IInv
  BY InitOK
<1>2. IInv /\ [AtaNext]_ata_vars => IInv'
  BY StepOK
<1> QED BY <1>1, <1>2, PTL DEF AtaSpec

\* Whatever the disks do, the variables keep their types: ata_read and
\* ata_write leave their loops at the count, and no sector is exchanged beyond
\* the end of a disk.
THEOREM TypeCorrect == AtaSpec => []TypeOK
<1>1. IInv => TypeOK
  BY DEF IInv
<1> QED BY <1>1, Invariant, PTL

\* The address of a request within reach is the one the disk is given.
LEMMA NoWrap ==
    ASSUME TypeOK, InReach, io.count > 0 PROVE First = io.lba
<1>1. io.lba \in Nat /\ io.count \in Nat /\ LbaMax \in Nat \ {0}
  BY IoType, DiskAssumption
<1>2. io.lba < LbaMax
  BY <1>1 DEF InReach
<1> HIDE DEF First
<1>3. io.lba % LbaMax = io.lba
  BY <1>1, <1>2
<1> QED BY <1>3 DEF First

LEMMA ReadFollows == IInv => ReadIsOfRequest
<1> SUFFICES ASSUME IInv, Succeeded("read"), InReach, lost = "nothing"
             PROVE  buf = [k \in 1 .. io.count |-> medium[slot][io.lba + k - 1]]
  BY DEF ReadIsOfRequest
<1>1. /\ Len(buf) = s /\ s = io.count
      /\ \A k \in 1 .. s : buf[k] = medium[slot][First + k - 1]
  BY DEF IInv, ReadOK, Succeeded
<1>2. buf \in Seq(Data \cup {Junk}) /\ io.count \in Nat /\ TypeOK
  BY IoType DEF IInv, TypeOK
<1>3. \A k \in 1 .. io.count : First + k - 1 = io.lba + k - 1
  BY <1>2, NoWrap
<1>4. buf = [k \in 1 .. Len(buf) |-> buf[k]]
  BY <1>2
<1> QED BY <1>1, <1>3, <1>4

LEMMA WriteFollows == IInv => WriteIsStored
<1> SUFFICES ASSUME IInv, Succeeded("write"), InReach, lost = "nothing",
                    NEW k \in 1 .. io.count
             PROVE  medium[slot][io.lba + k - 1] = io.buf[k]
  BY DEF WriteIsStored
<1>1. io.count \in Nat /\ io.count > 0 /\ TypeOK
  BY IoType DEF IInv
<1>2. Stored(io.count)
  BY <1>1 DEF IInv, DoneOK, Succeeded
<1>3. First = io.lba
  BY <1>1, NoWrap
<1> QED BY <1>2, <1>3 DEF Stored

\* A read that succeeds returns the sectors asked for: ata_read's loop and the
\* disk behind it never get out of step, if its command was taken.
THEOREM ReadsAreOfRequest == AtaSpec => []ReadIsOfRequest
<1> QED BY Invariant, ReadFollows, PTL

\* After a write that succeeds the disk holds the data: a disk that is no
\* longer busy after the flush has stored every sector it was sent.
THEOREM WritesAreStored == AtaSpec => []WriteIsStored
<1> QED BY Invariant, WriteFollows, PTL

-----------------------------------------------------------------------------
(* The lists of dllist.c: a heap of elements that holds two chains.        *)

\* The recursive functions of LastOf and dllist_get, as equations.
IsEnd(heap, f) == f = [p \in DOMAIN heap |-> IF heap[p].next = 0 THEN p ELSE f[heap[p].next]]
IsWalk(heap, list, idx, f) ==
    f = [cur \in 0 .. idx + 1 |->
            IF cur = 0 THEN list ELSE IF f[cur-1] = 0 THEN 0 ELSE heap[f[cur-1]].next]
LEMMA LastOfLemma ==
    ASSUME NEW heap, NEW list, \E f : IsEnd(heap, f)
    PROVE  \E g : IsEnd(heap, g) /\ LastOf(heap, list) = g[list]
<1> DEFINE G == CHOOSE f : IsEnd(heap, f)
<1>1. IsEnd(heap, G)
  OBVIOUS
<1>2. LastOf(heap, list) = G[list]
  BY DEF LastOf, IsEnd
<1> QED BY <1>1, <1>2

LEMMA GetLemma ==
    ASSUME NEW heap, NEW list, NEW idx, \E f : IsWalk(heap, list, idx, f)
    PROVE  \E g : IsWalk(heap, list, idx, g) /\ dllist_get(heap, list, idx) = g[idx + 1]
<1> DEFINE G == CHOOSE f : IsWalk(heap, list, idx, f)
<1>1. IsWalk(heap, list, idx, G)
  OBVIOUS
<1>2. dllist_get(heap, list, idx) = G[idx + 1]
  BY DEF dllist_get, IsWalk
<1> QED BY <1>1, <1>2

\* A set of numbers that is not empty has a least one.
Less == {x \in Nat \X Nat : x[1] < x[2]}

LEMMA Least == ASSUME NEW T, T \subseteq Nat, T # {}
               PROVE  \E n \in T : \A m \in T : n <= m
<1>1. IsWellFoundedOn(Less, Nat)
  BY NatLessThanWellFounded DEF OpToRel, Less
<1>2. PICK x \in T : \A y \in T : ~ (<<y, x>> \in Less)
  BY <1>1, WFMin
<1>3. ASSUME NEW y \in T PROVE x <= y
  <2>1. <<y, x>> \notin Less
    BY <1>2
  <2>2. <<y, x>> \in Nat \X Nat
    OBVIOUS
  <2>3. ~ (y < x)
    BY <2>1, <2>2 DEF Less
  <2> QED BY <2>3
<1> QED BY <1>3

\* What the elements of the lists hold.
Datum == [root : {1, 2}] \cup [id : Nat, truth : Slot]
         \cup [base : [{1, 2} -> Port \cup {0}]]
Node  == [data : Datum, next : Nat, prev : Nat]

LEMMA Relinked == ASSUME NEW x \in Node, NEW v \in Nat
                  PROVE  /\ [x EXCEPT !.next = v] \in Node
                         /\ [x EXCEPT !.next = v].data = x.data /\ [x EXCEPT !.next = v].next = v
  BY DEF Node

\* The list at root: n elements after it, of which q[i] is the i-th.
Chain(heap, root, n, q) ==
    /\ n \in Nat /\ q \in [0 .. n -> DOMAIN heap] /\ q[0] = root
    /\ \A i \in 0 .. n : i < n => heap[q[i]].next = q[i + 1]
    /\ heap[q[n]].next = 0
    /\ \A i \in 0 .. n : i # 0 => q[i] > 2

LEMMA EndOfChain ==
    ASSUME NEW heap \in Seq(Node), NEW root, NEW n, NEW q, Chain(heap, root, n, q),
           NEW g, IsEnd(heap, g)
    PROVE  g[root] = q[n]
<1> DEFINE T == {i \in 0 .. n : g[q[i]] # g[root]}
<1>1. n \in Nat /\ \A i \in 0 .. n : q[i] \in DOMAIN heap /\ q[i] # 0
  BY DEF Chain
<1>2. T = {}
  <2> SUFFICES ASSUME T # {} PROVE FALSE
    OBVIOUS
  <2>1. T \subseteq Nat
    BY <1>1
  <2>2. PICK i \in T : \A m \in T : i <= m
    <3> HIDE DEF T
    <3> QED BY <2>1, Least
  <2>3. i \in 0 .. n /\ g[q[i]] # g[root]
    OBVIOUS
  <2>4. i # 0
    BY <2>3 DEF Chain
  <2>5. i - 1 \in 0 .. n /\ i - 1 < n /\ (i - 1) + 1 = i /\ ~ (i <= i - 1)
    BY <1>1, <2>3, <2>4
  <2>6. g[q[i-1]] = g[root]
    BY <2>2, <2>5
  <2>7. heap[q[i-1]].next = q[i]
    BY <2>5 DEF Chain
  <2>8. g[q[i-1]] = g[q[i]]
    BY <1>1, <2>3, <2>5, <2>7 DEF IsEnd
  <2> QED BY <2>3, <2>6, <2>8
<1>3. n \in 0 .. n /\ g[q[n]] = g[root]
  BY <1>1, <1>2
<1>4. g[q[n]] = q[n]
  BY <1>1, <1>3 DEF IsEnd, Chain
<1> QED BY <1>3, <1>4

\* dllist_get returns the element at idx.
LEMMA GetOfChain ==
    ASSUME NEW heap \in Seq(Node), NEW root, NEW n, NEW q, Chain(heap, root, n, q),
           NEW idx \in Nat
    PROVE  dllist_get(heap, root, idx) = IF idx < n THEN q[idx + 1] ELSE 0
<1> DEFINE f == [cur \in 0 .. idx + 1 |-> IF cur <= n THEN q[cur] ELSE 0]
<1>1. n \in Nat /\ \A i \in 0 .. n : q[i] \in DOMAIN heap /\ q[i] # 0
  BY DEF Chain
<1>2. IsWalk(heap, root, idx, f)
  <2> SUFFICES ASSUME NEW cur \in 0 .. idx + 1
               PROVE  f[cur] = IF cur = 0 THEN root ELSE IF f[cur-1] = 0 THEN 0 ELSE heap[f[cur-1]].next
    BY Zenon DEF IsWalk
  <2>1. CASE cur = 0
    BY <1>1, <2>1 DEF Chain
  <2>2. CASE cur # 0
    <3>1. cur - 1 \in 0 .. idx + 1 /\ (cur - 1) + 1 = cur /\ cur \in Nat
      BY <2>2
    <3>2. CASE cur <= n
      <4>1. cur - 1 \in 0 .. n /\ cur - 1 < n
        BY <1>1, <3>1, <3>2, <2>2
      <4>2. heap[q[cur - 1]].next = q[cur]
        BY <3>1, <4>1 DEF Chain
      <4>3. f[cur - 1] = q[cur - 1] /\ f[cur] = q[cur] /\ q[cur - 1] # 0
        BY <1>1, <3>1, <3>2, <4>1
      <4> QED BY <2>2, <4>2, <4>3
    <3>3. CASE cur = n + 1
      <4>1. n \in 0 .. n /\ f[n] = q[n] /\ q[n] # 0 /\ heap[q[n]].next = 0 /\ f[cur] = 0 /\ cur - 1 = n
        BY <1>1, <3>1, <3>3 DEF Chain
      <4> QED BY <2>2, <4>1
    <3>4. CASE cur > n + 1
      <4>1. f[cur] = 0 /\ f[cur - 1] = 0
        BY <1>1, <3>1, <3>4
      <4> QED BY <2>2, <4>1
    <3> QED BY <1>1, <3>1, <3>2, <3>3, <3>4
  <2> QED BY <2>1, <2>2
<1>3. PICK g : IsWalk(heap, root, idx, g) /\ dllist_get(heap, root, idx) = g[idx + 1]
  <2> HIDE DEF f
  <2> QED BY <1>2, GetLemma
<1> DEFINE T == {cur \in 0 .. idx + 1 : g[cur] # f[cur]}
<1>4. T = {}
  <2> SUFFICES ASSUME T # {} PROVE FALSE
    OBVIOUS
  <2>1. T \subseteq Nat
    OBVIOUS
  <2>2. PICK i \in T : \A m \in T : i <= m
    <3> HIDE DEF T
    <3> QED BY <2>1, Least
  <2> HIDE DEF f
  <2>3. i \in 0 .. idx + 1 /\ g[i] # f[i]
    OBVIOUS
  <2>4. g[0] = root /\ f[0] = root
    <3>1. 0 \in 0 .. idx + 1
      OBVIOUS
    <3> QED BY <1>2, <1>3, <3>1 DEF IsWalk
  <2>5. i - 1 \in 0 .. idx + 1 /\ ~ (i <= i - 1)
    BY <2>3, <2>4
  <2>6. g[i-1] = f[i-1]
    BY <2>2, <2>5
  <2>7. /\ g[i] = IF i = 0 THEN root ELSE IF g[i-1] = 0 THEN 0 ELSE heap[g[i-1]].next
        /\ f[i] = IF i = 0 THEN root ELSE IF f[i-1] = 0 THEN 0 ELSE heap[f[i-1]].next
    BY <1>2, <1>3, <2>3 DEF IsWalk
  <2> QED BY <2>3, <2>6, <2>7
<1>5. g[idx + 1] = f[idx + 1]
  <2> HIDE DEF f
  <2>1. idx + 1 \in 0 .. idx + 1
    OBVIOUS
  <2> QED BY <1>4, <2>1
<1>6. f[idx + 1] = IF idx < n THEN q[idx + 1] ELSE 0
  BY <1>1
<1> QED BY <1>3, <1>5, <1>6

\* The elements of the list of devices; all others are of the controllers'.
IsDev(heap, p) == p = devices \/ (p > 2 /\ "id" \in DOMAIN heap[p].data)

\* The heap holds the two lists and nothing else.
Lists(heap, nd, qd, nc, qc) ==
    /\ heap \in Seq(Node) /\ Len(heap) >= 2
    /\ Chain(heap, devices, nd, qd) /\ Chain(heap, controllers, nc, qc)
    /\ \A p \in DOMAIN heap : IF IsDev(heap, p) THEN \E i \in 0 .. nd : p = qd[i]
                                                ELSE \E i \in 0 .. nc : p = qc[i]
    /\ \A i \in 0 .. nd : IsDev(heap, qd[i])
    /\ \A i \in 0 .. nc : ~ IsDev(heap, qc[i])

LEMMA EndsOfLists ==
    ASSUME NEW heap, NEW nd, NEW qd, NEW nc, NEW qc, Lists(heap, nd, qd, nc, qc)
    PROVE  LastOf(heap, devices) = qd[nd] /\ LastOf(heap, controllers) = qc[nc]
<1>1. heap \in Seq(Node) /\ Chain(heap, devices, nd, qd) /\ Chain(heap, controllers, nc, qc)
  BY DEF Lists
<1> DEFINE f == [p \in DOMAIN heap |-> IF IsDev(heap, p) THEN qd[nd] ELSE qc[nc]]
<1>2. ASSUME NEW p \in DOMAIN heap
      PROVE  f[p] = IF heap[p].next = 0 THEN p ELSE f[heap[p].next]
  <2>1. CASE IsDev(heap, p)
    <3>1. PICK i \in 0 .. nd : p = qd[i]
      BY <2>1 DEF Lists
    <3>2. f[p] = qd[nd]
      BY <2>1
    <3>3. CASE i = nd
      BY <1>1, <3>1, <3>2, <3>3 DEF Chain
    <3>4. CASE i # nd
      <4>0. nd \in Nat
        BY <1>1 DEF Chain
      <4>1. i < nd /\ i + 1 \in 0 .. nd
        BY <4>0, <3>4
      <4>2. heap[p].next = qd[i + 1] /\ qd[i + 1] \in DOMAIN heap /\ qd[i + 1] # 0
        BY <1>1, <3>1, <4>1 DEF Chain
      <4>3. IsDev(heap, qd[i + 1])
        BY <4>1 DEF Lists
      <4> QED BY <3>2, <4>2, <4>3
    <3> QED BY <3>3, <3>4
  <2>2. CASE ~ IsDev(heap, p)
    <3>1. PICK i \in 0 .. nc : p = qc[i]
      BY <2>2 DEF Lists
    <3>2. f[p] = qc[nc]
      BY <2>2
    <3>3. CASE i = nc
      BY <1>1, <3>1, <3>2, <3>3 DEF Chain
    <3>4. CASE i # nc
      <4>0. nc \in Nat
        BY <1>1 DEF Chain
      <4>1. i < nc /\ i + 1 \in 0 .. nc
        BY <4>0, <3>4
      <4>2. heap[p].next = qc[i + 1] /\ qc[i + 1] \in DOMAIN heap /\ qc[i + 1] # 0
        BY <1>1, <3>1, <4>1 DEF Chain
      <4>3. ~ IsDev(heap, qc[i + 1])
        BY <4>1 DEF Lists
      <4> QED BY <3>2, <4>2, <4>3
    <3> QED BY <3>3, <3>4
  <2> QED BY <2>1, <2>2
<1>3. IsEnd(heap, f)
  BY <1>2, Zenon DEF IsEnd
<1> HIDE DEF f
<1>4. ASSUME NEW list, NEW n, NEW q, Chain(heap, list, n, q) PROVE LastOf(heap, list) = q[n]
  <2>1. PICK g : IsEnd(heap, g) /\ LastOf(heap, list) = g[list]
    BY <1>3, LastOfLemma
  <2> QED BY <1>1, <1>4, <2>1, EndOfChain
<1> QED BY <1>1, <1>4

\* The positions of a chain of one more element.
Longer(q, n, x) == [i \in 0 .. n + 1 |-> IF i <= n THEN q[i] ELSE x]

\* An element is appended to one list, the other stays as it is.
LEMMA AppendToChain ==
    ASSUME NEW heap \in Seq(Node), Len(heap) >= 2, NEW data \in Datum,
           NEW root, NEW n, NEW q, Chain(heap, root, n, q),
           NEW other, NEW m, NEW r, Chain(heap, other, m, r),
           \A i \in 0 .. m : r[i] # q[n],
           LastOf(heap, root) = q[n],
           NEW new, new = dllist_append(heap, root, data)
    PROVE  /\ new \in Seq(Node) /\ Len(new) = Len(heap) + 1
           /\ \A p \in 1 .. Len(heap) : new[p].data = heap[p].data
           /\ new[Len(heap) + 1].data = data
           /\ Chain(new, root, n + 1, Longer(q, n, Len(heap) + 1))
           /\ Chain(new, other, m, r)
<1> DEFINE l == Len(heap)
           e == q[n]
           old == [heap EXCEPT ![e].next = l + 1]
           elt == NewElement(data, e)
<1>1. /\ l \in Nat /\ DOMAIN heap = 1 .. l /\ heap \in [1 .. l -> Node]
      /\ n \in Nat /\ n \in 0 .. n /\ e \in 1 .. l
      /\ \A i \in 0 .. n : q[i] \in 1 .. l
      /\ m \in Nat /\ \A i \in 0 .. m : r[i] \in 1 .. l
      /\ l = Len(heap)
  <2>1. l = Len(heap) /\ l \in Nat /\ DOMAIN heap = 1 .. l /\ heap \in [1 .. l -> Node]
    OBVIOUS
  <2>2. n \in Nat /\ q \in [0 .. n -> DOMAIN heap] /\ m \in Nat /\ r \in [0 .. m -> DOMAIN heap]
    BY Zenon DEF Chain
  <2> HIDE DEF l
  <2>3. n \in 0 .. n /\ (\A i \in 0 .. n : q[i] \in 1 .. l) /\ \A i \in 0 .. m : r[i] \in 1 .. l
    BY <2>1, <2>2
  <2> QED BY <2>1, <2>2, <2>3
<1>2. new = Append(old, elt)
  BY DEF dllist_append
<1> HIDE DEF l
<1>3. /\ old \in [1 .. l -> Node]
      /\ \A p \in 1 .. l : old[p].data = heap[p].data
      /\ \A p \in 1 .. l : p # e => old[p] = heap[p]
      /\ old[e].next = l + 1
  <2>1. heap[e] \in Node
    BY <1>1
  <2>2. [heap[e] EXCEPT !.next = l + 1] \in Node
    <3>1. l + 1 \in Nat
      BY <1>1
    <3> QED BY <2>1, <3>1, Relinked
  <2>3. /\ [heap[e] EXCEPT !.next = l + 1].data = heap[e].data
        /\ [heap[e] EXCEPT !.next = l + 1].next = l + 1
    BY <1>1, <2>1, Relinked
  <2>4. old = [heap EXCEPT ![e] = [heap[e] EXCEPT !.next = l + 1]]
    OBVIOUS
  <2> HIDE DEF old, e
  <2>5. old[e] = [heap[e] EXCEPT !.next = l + 1] /\ \A p \in 1 .. l : p # e => old[p] = heap[p]
    BY <1>1, <2>4
  <2>6. old \in [1 .. l -> Node]
    BY <1>1, <2>2, <2>4
  <2> QED BY <2>3, <2>5, <2>6
<1>4. elt \in Node /\ elt.data = data /\ elt.next = 0
  BY <1>1 DEF Node, NewElement
<1> HIDE DEF old, elt
<1>5. old \in Seq(Node) /\ Len(old) = l
  <2>1. l \in Nat /\ old \in [1 .. l -> Node]
    BY <1>1, <1>3
  <2> QED BY <2>1
<1>6. /\ new \in Seq(Node) /\ Len(new) = l + 1
      /\ \A p \in 1 .. l : new[p] = old[p]
      /\ new[l + 1] = elt
  BY <1>2, <1>4, <1>5, AppendProperties
<1>7. DOMAIN new = 1 .. l + 1 /\ 1 .. l \subseteq 1 .. l + 1 /\ l + 1 \in 1 .. l + 1
  BY <1>1, <1>6
<1> HIDE DEF e
<1>8. Chain(new, other, m, r)
  <2>1. r \in [0 .. m -> DOMAIN new] /\ r[0] = other
    BY <1>1, <1>7 DEF Chain
  <2>2. ASSUME NEW i \in 0 .. m PROVE new[r[i]] = heap[r[i]]
    <3>1. r[i] \in 1 .. l /\ r[i] # e
      BY <1>1 DEF e
    <3> QED BY <1>3, <1>6, <3>1
  <2>3. m \in 0 .. m
    BY <1>1
  <2>4. \A i \in 0 .. m : i # 0 => r[i] > 2
    BY DEF Chain
  <2> QED BY <1>1, <2>1, <2>2, <2>3, <2>4 DEF Chain
<1> DEFINE k == Longer(q, n, l + 1)
<1>9. Chain(new, root, n + 1, k)
  <2>0. k = [i \in 0 .. n + 1 |-> IF i <= n THEN q[i] ELSE l + 1]
    BY DEF Longer
  <2> HIDE DEF k
  <2>1. k \in [0 .. n + 1 -> 1 .. l + 1] /\ k[0] = root /\ n + 1 \in Nat
    BY <1>1, <1>7, <2>0 DEF Chain
  <2>2. ASSUME NEW i \in 0 .. n + 1, i < n + 1 PROVE new[k[i]].next = k[i + 1]
    <3>1. i \in 0 .. n /\ k[i] = q[i] /\ i + 1 \in 0 .. n + 1
      BY <1>1, <2>0, <2>2
    <3>2. CASE i < n
      <4>1. k[i + 1] = q[i + 1] /\ heap[q[i]].next = q[i + 1]
        BY <1>1, <2>0, <3>1, <3>2 DEF Chain
      <4>2. q[i] # e
        <5>1. i + 1 \in 0 .. n
          BY <1>1, <3>1, <3>2
        <5>2. heap[q[i]].next # 0
          BY <1>1, <4>1, <5>1
        <5>3. heap[e].next = 0
          BY DEF Chain, e
        <5> QED BY <5>2, <5>3
      <4> QED BY <1>1, <1>3, <1>6, <3>1, <4>1, <4>2
    <3>3. CASE i = n
      <4>1. k[i] = e /\ k[i + 1] = l + 1
        BY <1>1, <2>0, <3>1, <3>3 DEF e
      <4> QED BY <1>1, <1>3, <1>6, <4>1
    <3> QED BY <1>1, <3>1, <3>2, <3>3
  <2>3. k[n + 1] = l + 1 /\ new[l + 1].next = 0
    BY <1>1, <1>4, <1>6, <2>0
  <2>4. ASSUME NEW i \in 0 .. n + 1, i # 0 PROVE k[i] > 2
    <3>1. \A j \in 0 .. n : j # 0 => q[j] > 2
      BY DEF Chain
    <3>2. l >= 2
      BY <1>1
    <3> QED BY <1>1, <2>0, <2>4, <3>1, <3>2
  <2> QED BY <1>7, <2>1, <2>2, <2>3, <2>4 DEF Chain
<1> QED BY <1>1, <1>3, <1>4, <1>6, <1>8, <1>9

LEMMA AppendDevice ==
    ASSUME NEW heap, NEW nd, NEW qd, NEW nc, NEW qc, Lists(heap, nd, qd, nc, qc),
           NEW data \in Datum, "id" \in DOMAIN data,
           NEW new, new = dllist_append(heap, devices, data)
    PROVE  /\ Lists(new, nd + 1, Longer(qd, nd, Len(heap) + 1), nc, qc)
           /\ Len(new) = Len(heap) + 1
           /\ \A p \in 1 .. Len(heap) : new[p].data = heap[p].data
           /\ new[Len(heap) + 1].data = data
<1> DEFINE q == Longer(qd, nd, Len(heap) + 1)
<1>1. /\ heap \in Seq(Node) /\ Len(heap) >= 2 /\ DOMAIN heap = 1 .. Len(heap) /\ Len(heap) \in Nat
      /\ Chain(heap, devices, nd, qd) /\ Chain(heap, controllers, nc, qc)
      /\ nd \in Nat /\ nc \in Nat
      /\ \A i \in 0 .. nd : IsDev(heap, qd[i]) /\ qd[i] \in 1 .. Len(heap)
      /\ \A i \in 0 .. nc : ~ IsDev(heap, qc[i]) /\ qc[i] \in 1 .. Len(heap)
  BY DEF Lists, Chain
<1>2. \A i \in 0 .. nc : qc[i] # qd[nd]
  BY <1>1
<1>3. /\ new \in Seq(Node) /\ Len(new) = Len(heap) + 1
      /\ \A p \in 1 .. Len(heap) : new[p].data = heap[p].data
      /\ new[Len(heap) + 1].data = data
      /\ Chain(new, devices, nd + 1, q)
      /\ Chain(new, controllers, nc, qc)
  <2>1. LastOf(heap, devices) = qd[nd]
    BY EndsOfLists
  <2> QED BY <1>1, <1>2, <2>1, AppendToChain
<1>4. /\ q[nd + 1] = Len(heap) + 1 /\ \A i \in 0 .. nd : q[i] = qd[i]
      /\ \A i \in 0 .. nd + 1 : i \in 0 .. nd \/ i = nd + 1
      /\ \A i \in 0 .. nd : i \in 0 .. nd + 1
      /\ DOMAIN new = 1 .. Len(heap) + 1 /\ nd + 1 \in 0 .. nd + 1
  BY <1>1, <1>3 DEF Longer
<1>5. /\ \A p \in 1 .. Len(heap) : IsDev(new, p) <=> IsDev(heap, p)
      /\ IsDev(new, Len(heap) + 1)
  BY <1>1, <1>3 DEF IsDev
<1> HIDE DEF q
<1>6. ASSUME NEW p \in DOMAIN new
      PROVE  IF IsDev(new, p) THEN \E i \in 0 .. nd + 1 : p = q[i] ELSE \E i \in 0 .. nc : p = qc[i]
  <2>1. CASE p \in 1 .. Len(heap)
    <3>1. IF IsDev(heap, p) THEN \E i \in 0 .. nd : p = qd[i] ELSE \E i \in 0 .. nc : p = qc[i]
      BY <1>1, <2>1 DEF Lists
    <3>2. CASE IsDev(heap, p)
      BY <1>4, <1>5, <2>1, <3>1, <3>2
    <3>3. CASE ~ IsDev(heap, p)
      BY <1>4, <1>5, <2>1, <3>1, <3>3
    <3> QED BY <3>2, <3>3
  <2>2. CASE p = Len(heap) + 1
    BY <1>4, <1>5, <2>2
  <2> QED BY <1>1, <1>4, <2>1, <2>2
<1>7. ASSUME NEW i \in 0 .. nd + 1 PROVE IsDev(new, q[i])
  <2>1. CASE i \in 0 .. nd
    BY <1>1, <1>4, <1>5, <2>1
  <2>2. CASE i = nd + 1
    BY <1>4, <1>5, <2>2
  <2> QED BY <1>4, <2>1, <2>2
<1>8. \A i \in 0 .. nc : ~ IsDev(new, qc[i])
  BY <1>1, <1>5
<1>9. Len(new) >= 2
  BY <1>1, <1>3
<1>10. Lists(new, nd + 1, q, nc, qc)
  BY <1>3, <1>6, <1>7, <1>8, <1>9 DEF Lists
<1> QED BY <1>3, <1>10 DEF q

LEMMA AppendController ==
    ASSUME NEW heap, NEW nd, NEW qd, NEW nc, NEW qc, Lists(heap, nd, qd, nc, qc),
           NEW data \in Datum, ~ ("id" \in DOMAIN data),
           NEW new, new = dllist_append(heap, controllers, data)
    PROVE  /\ Lists(new, nd, qd, nc + 1, Longer(qc, nc, Len(heap) + 1))
           /\ Len(new) = Len(heap) + 1
           /\ \A p \in 1 .. Len(heap) : new[p].data = heap[p].data
           /\ new[Len(heap) + 1].data = data
<1> DEFINE q == Longer(qc, nc, Len(heap) + 1)
<1>1. /\ heap \in Seq(Node) /\ Len(heap) >= 2 /\ DOMAIN heap = 1 .. Len(heap) /\ Len(heap) \in Nat
      /\ Chain(heap, devices, nd, qd) /\ Chain(heap, controllers, nc, qc)
      /\ nd \in Nat /\ nc \in Nat
      /\ \A i \in 0 .. nd : IsDev(heap, qd[i]) /\ qd[i] \in 1 .. Len(heap)
      /\ \A i \in 0 .. nc : ~ IsDev(heap, qc[i]) /\ qc[i] \in 1 .. Len(heap)
  BY DEF Lists, Chain
<1>2. \A i \in 0 .. nd : qd[i] # qc[nc]
  BY <1>1
<1>3. /\ new \in Seq(Node) /\ Len(new) = Len(heap) + 1
      /\ \A p \in 1 .. Len(heap) : new[p].data = heap[p].data
      /\ new[Len(heap) + 1].data = data
      /\ Chain(new, controllers, nc + 1, q)
      /\ Chain(new, devices, nd, qd)
  <2>1. LastOf(heap, controllers) = qc[nc]
    BY EndsOfLists
  <2> QED BY <1>1, <1>2, <2>1, AppendToChain
<1>4. /\ q[nc + 1] = Len(heap) + 1 /\ \A i \in 0 .. nc : q[i] = qc[i]
      /\ \A i \in 0 .. nc + 1 : i \in 0 .. nc \/ i = nc + 1
      /\ \A i \in 0 .. nc : i \in 0 .. nc + 1
      /\ DOMAIN new = 1 .. Len(heap) + 1 /\ nc + 1 \in 0 .. nc + 1
  BY <1>1, <1>3 DEF Longer
<1>5. /\ \A p \in 1 .. Len(heap) : IsDev(new, p) <=> IsDev(heap, p)
      /\ ~ IsDev(new, Len(heap) + 1)
  BY <1>1, <1>3 DEF IsDev, devices
<1> HIDE DEF q
<1>6. ASSUME NEW p \in DOMAIN new
      PROVE  IF IsDev(new, p) THEN \E i \in 0 .. nd : p = qd[i] ELSE \E i \in 0 .. nc + 1 : p = q[i]
  <2>1. CASE p \in 1 .. Len(heap)
    <3>1. IF IsDev(heap, p) THEN \E i \in 0 .. nd : p = qd[i] ELSE \E i \in 0 .. nc : p = qc[i]
      BY <1>1, <2>1 DEF Lists
    <3>2. CASE IsDev(heap, p)
      BY <1>4, <1>5, <2>1, <3>1, <3>2
    <3>3. CASE ~ IsDev(heap, p)
      BY <1>4, <1>5, <2>1, <3>1, <3>3
    <3> QED BY <3>2, <3>3
  <2>2. CASE p = Len(heap) + 1
    BY <1>4, <1>5, <2>2
  <2> QED BY <1>1, <1>4, <2>1, <2>2
<1>7. ASSUME NEW i \in 0 .. nc + 1 PROVE ~ IsDev(new, q[i])
  <2>1. CASE i \in 0 .. nc
    BY <1>1, <1>4, <1>5, <2>1
  <2>2. CASE i = nc + 1
    BY <1>4, <1>5, <2>2
  <2> QED BY <1>4, <2>1, <2>2
<1>8. \A i \in 0 .. nd : IsDev(new, qd[i])
  BY <1>1, <1>5
<1>9. Len(new) >= 2
  BY <1>1, <1>3
<1>10. Lists(new, nd, qd, nc + 1, q)
  BY <1>3, <1>6, <1>7, <1>8, <1>9 DEF Lists
<1> QED BY <1>3, <1>10 DEF q

-----------------------------------------------------------------------------
(* The invariant of the scan.                                              *)

\* The order in which positions are asked.
Before(p, q) == \/ p[1] < q[1]
                \/ p[1] = q[1] /\ (p[2] < q[2] \/ (p[2] = q[2] /\ p[3] < q[3]))

\* Disk d has been asked when the probe of function pos is at drive dr of channel ch.
SeenAt(m, d, pos, ch, dr) ==
    \E c \in Channels(m) : /\ PortOf(m, c) = d[1]
                           /\ \/ Before(c[1], pos)
                              \/ c[1] = pos /\ (c[2] < ch \/ (c[2] = ch /\ d[2] < dr))

\* The block devices, and the disks that answered.
DevNodes(heap) == {k \in DOMAIN heap : k > 2 /\ "id" \in DOMAIN heap[k].data}
Truths(heap)   == {heap[k].data.truth : k \in DevNodes(heap)}

Counted(heap, n) == /\ IsFiniteSet(DevNodes(heap)) /\ Cardinality(DevNodes(heap)) = n
                    /\ IsFiniteSet(Truths(heap)) /\ Cardinality(Truths(heap)) = n

\* The number of a device leads to its disk: by the list, or by the controller
\* that is being probed, which will be appended to it.
Leads(heap, nc, qc, prb, dev) ==
    LET ctrl == dev.id \div 4
        ch   == (dev.id \div 2) % 2
    IN  /\ dev.id % 2 = dev.truth[2]
        /\ \/ ctrl < nc /\ heap[qc[ctrl + 1]].data.base[ch + 1] = dev.truth[1]
           \/ /\ ctrl = nc /\ prb.stage # "none" /\ prb.base[ch + 1] = dev.truth[1]
              /\ ch < prb.ch \/ (ch = prb.ch /\ prb.stage # "channel")

ListsInv == \E nd, qd, nc, qc :
    /\ Lists(nodes, nd, qd, nc, qc)
    /\ num_controllers = IF In("none") THEN nc ELSE nc + 1
    /\ Counted(nodes, nd)
    /\ \A k \in DevNodes(nodes) : Leads(nodes, nc, qc, probe, nodes[k].data)

PosInv == /\ machine \in Machines /\ disks = machine.disks
          /\ at \in (0 .. Buses) \X (0 .. Devs-1) \X (0 .. Funcs-1)
          /\ at[3] # 0 => Present /\ Card.multi
          /\ ~ ScanOver => pc = "idle"
          /\ DOMAIN sel = Port

Probe == [stage : {"none", "channel", "identify", "poll"}, base : [{1, 2} -> Port \cup {0}],
          ch : 0 .. 2, dr : 0 .. 2]

ProbeInv ==
    /\ probe \in Probe
    /\ In("none") => probe.ch = 0 /\ probe.dr = 0
    /\ In("channel") => probe.dr = 0
    /\ ~ In("none") => /\ ~ ScanOver /\ at \in Functions(machine)
                       /\ Hdr = HdrOf(machine, at) /\ Hdr.htype = 0
                       /\ Hdr.class_code = 1 /\ Hdr.subclass = 1
    /\ In("identify") \/ In("poll") =>
           /\ probe.ch < 2 /\ <<at, probe.ch>> \in Channels(machine)
           /\ PortOf(machine, <<at, probe.ch>>) \in Port
           /\ probe.base[probe.ch + 1] = PortOf(machine, <<at, probe.ch>>)
    /\ In("poll") => probe.dr < 2 /\ Behind \in disks /\ sel[Behind[1]] = Behind[2]

Seen(d) == SeenAt(machine, d, at, probe.ch, probe.dr)

FoundInv == /\ missed \subseteq disks /\ \A d \in missed : Seen(d)
            /\ Truths(nodes) = {d \in disks : Seen(d)} \ missed

ScanInv == PosInv /\ ProbeInv /\ ListsInv /\ FoundInv

LEMMA MatchLemma == ASSUME NEW hdr
                    PROVE  device_publish(hdr) <=> hdr.class_code = 1 /\ hdr.subclass = 1
<1>1. /\ DOMAIN drivers = {1} /\ DOMAIN drivers[1].id_table = {1}
      /\ drivers[1].id_table[1] = [vid |-> Wild, did |-> Wild, class_code |-> 1, subclass |-> 1]
  BY DEF drivers, ata_driver
<1>2. device_publish(hdr) <=> Matches(drivers[1].id_table[1], hdr)
  BY <1>1 DEF device_publish
<1> QED BY <1>1, <1>2 DEF Matches, Wild

\* The function at the position, as the code and as the bus sees it.
LEMMA FunctionAt ==
    ASSUME PosInv, ~ ScanOver
    PROVE  /\ Answers <=> at \in Functions(machine)
           /\ Answers => Hdr = HdrOf(machine, at)
<1>1. /\ at[1] \in 0 .. Buses-1 /\ at[2] \in 0 .. Devs-1 /\ at[3] \in 0 .. Funcs-1
      /\ at = <<at[1], at[2], at[3]>>
  BY MachineAssumption DEF PosInv, ScanOver
<1>2. Present => 0 \in DOMAIN Card.head /\ (~ Card.multi => DOMAIN Card.head = {0} /\ at[3] = 0)
  BY MachineAssumption DEF PosInv, Present, Card
<1>3. at \in Functions(machine) <=> Present /\ at[3] \in DOMAIN Card.head
  BY <1>1 DEF Functions, Present, Card
<1> QED BY <1>2, <1>3 DEF Answers, Hdr, HdrOf, Card

\* The scan goes on to the next function there is.
LEMMA NextPosition ==
    ASSUME PosInv, ~ ScanOver
    PROVE  /\ After(at) \in (0 .. Buses) \X (0 .. Devs-1) \X (0 .. Funcs-1)
           /\ \A f \in Functions(machine) : Before(f, After(at)) <=> Before(f, at) \/ f = at
           /\ After(at)[3] # 0 => /\ After(at)[1] = at[1] /\ After(at)[2] = at[2]
                                  /\ Present /\ Card.multi
<1>1. /\ at[1] \in 0 .. Buses-1 /\ at[2] \in 0 .. Devs-1 /\ at[3] \in 0 .. Funcs-1
      /\ at = <<at[1], at[2], at[3]>>
      /\ Buses \in Nat /\ Devs \in Nat \ {0} /\ Funcs \in Nat \ {0}
  BY MachineAssumption DEF PosInv, ScanOver
<1>2. ASSUME NEW f \in Functions(machine)
      PROVE  /\ f[1] \in 0 .. Buses-1 /\ f[2] \in 0 .. Devs-1 /\ f[3] \in 0 .. Funcs-1
             /\ f = at <=> f[1] = at[1] /\ f[2] = at[2] /\ f[3] = at[3]
             /\ (f[1] = at[1] /\ f[2] = at[2]) => Present /\ (~ Card.multi => f[3] = 0)
  <2>1. /\ f \in (0 .. Buses-1) \X (0 .. Devs-1) \X (0 .. Funcs-1)
        /\ <<f[1], f[2]>> \in DOMAIN machine.fn /\ f[3] \in DOMAIN machine.fn[<<f[1], f[2]>>].head
    BY DEF Functions
  <2>2. ASSUME f[1] = at[1], f[2] = at[2] PROVE Present /\ (~ Card.multi => f[3] = 0)
    BY <2>1, <2>2, MachineAssumption DEF Present, Card, PosInv
  <2> QED BY <1>1, <2>1, <2>2
<1>3. CASE at[3] + 1 < Funcs /\ Present /\ Card.multi
  <2>1. After(at) = <<at[1], at[2], at[3] + 1>>
    BY <1>3 DEF After
  <2>2. ASSUME NEW f \in Functions(machine) PROVE Before(f, After(at)) <=> Before(f, at) \/ f = at
    BY <1>1, <1>2, <2>1 DEF Before
  <2> QED BY <1>1, <1>3, <2>1, <2>2
<1>4. CASE ~ (at[3] + 1 < Funcs /\ Present /\ Card.multi)
  <2>1. ASSUME NEW f \in Functions(machine), f[1] = at[1], f[2] = at[2] PROVE f[3] <= at[3]
    BY <1>1, <1>2, <1>4, <2>1
  <2>2. CASE at[2] + 1 < Devs
    <3>1. After(at) = <<at[1], at[2] + 1, 0>>
      BY <1>4, <2>2 DEF After
    <3>2. ASSUME NEW f \in Functions(machine) PROVE Before(f, After(at)) <=> Before(f, at) \/ f = at
      BY <1>1, <1>2, <2>1, <3>1 DEF Before
    <3> QED BY <1>1, <2>2, <3>1, <3>2
  <2>3. CASE ~ (at[2] + 1 < Devs)
    <3>1. After(at) = <<at[1] + 1, 0, 0>>
      BY <1>4, <2>3 DEF After
    <3>2. ASSUME NEW f \in Functions(machine) PROVE Before(f, After(at)) <=> Before(f, at) \/ f = at
      BY <1>1, <1>2, <2>1, <2>3, <3>1 DEF Before
    <3> QED BY <1>1, <3>1, <3>2
  <2> QED BY <2>2, <2>3
<1> QED BY <1>3, <1>4

-----------------------------------------------------------------------------
(* Which disks have been asked.                                            *)

LEMMA ChannelFacts ==
    ASSUME NEW c \in Channels(machine)
    PROVE  /\ c[1] \in Functions(machine) /\ c[2] \in {0, 1} /\ c = <<c[1], c[2]>>
           /\ HdrOf(machine, c[1]).htype = 0 /\ HdrOf(machine, c[1]).class_code = 1
           /\ HdrOf(machine, c[1]).subclass = 1
           /\ ~ (HdrOf(machine, c[1]).native /\ Bar(HdrOf(machine, c[1]), c[2]) = 0)
           /\ ~ Before(c[1], c[1])
           /\ c[1] \in (0 .. Buses-1) \X (0 .. Devs-1) \X (0 .. Funcs-1)
<1>1. c \in Functions(machine) \X {0, 1}
  BY DEF Channels
<1>2. c[1] \in (0 .. Buses-1) \X (0 .. Devs-1) \X (0 .. Funcs-1)
  BY <1>1 DEF Functions
<1>3. ~ Before(c[1], c[1])
  BY <1>2 DEF Before
<1> QED BY <1>1, <1>2, <1>3 DEF Channels

\* Every disk has a channel of its own.
LEMMA HomeOfDisk ==
    ASSUME PosInv, NEW d \in disks
    PROVE  /\ \E c \in Channels(machine) : PortOf(machine, c) = d[1]
           /\ \A c, e \in Channels(machine) :
                  PortOf(machine, c) = d[1] /\ PortOf(machine, e) = d[1] => c = e
           /\ d[1] \in Port /\ d[2] \in {0, 1} /\ d = <<d[1], d[2]>>
<1>1. /\ machine.disks \subseteq Slot
      /\ \E c \in Channels(machine) : \A e \in Channels(machine) : PortOf(machine, e) = d[1] <=> e = c
  BY MachineAssumption DEF PosInv
<1>2. d \in Slot
  BY <1>1 DEF PosInv
<1> QED BY <1>1, <1>2 DEF Slot

\* What each step of the scan adds to the disks that were asked.
LEMMA SeenSkipped ==
    ASSUME PosInv, ~ ScanOver, NEW d \in disks,
           \A c \in Channels(machine) : c[1] # at
    PROVE  SeenAt(machine, d, After(at), 0, 0) <=> SeenAt(machine, d, at, 0, 0)
<1>1. ASSUME NEW c \in Channels(machine)
      PROVE  /\ Before(c[1], After(at)) <=> Before(c[1], at)
             /\ ~ (c[2] < 0) /\ ~ (d[2] < 0) /\ c[1] # at
  <2>1. c[1] \in Functions(machine) /\ c[2] \in {0, 1} /\ d[2] \in {0, 1} /\ c[1] # at
    BY ChannelFacts, HomeOfDisk
  <2>2. Before(c[1], After(at)) <=> Before(c[1], at)
    BY <2>1, NextPosition
  <2> QED BY <2>1, <2>2
<1> QED BY <1>1 DEF SeenAt

LEMMA SeenProbed ==
    ASSUME PosInv, ~ ScanOver, NEW d \in disks
    PROVE  SeenAt(machine, d, After(at), 0, 0) <=> SeenAt(machine, d, at, 2, 0)
<1>1. ASSUME NEW c \in Channels(machine)
      PROVE  /\ Before(c[1], After(at)) <=> (Before(c[1], at) \/ c[1] = at)
             /\ ~ (c[2] < 0) /\ ~ (d[2] < 0) /\ c[2] < 2
  <2>1. c[1] \in Functions(machine) /\ c[2] \in {0, 1} /\ d[2] \in {0, 1}
    BY ChannelFacts, HomeOfDisk
  <2>2. Before(c[1], After(at)) <=> (Before(c[1], at) \/ c[1] = at)
    BY <2>1, NextPosition
  <2> QED BY <2>1, <2>2
<1> QED BY <1>1 DEF SeenAt

LEMMA SeenNoChannel ==
    ASSUME PosInv, NEW d \in disks, NEW ch \in 0 .. 1,
           <<at, ch>> \in Channels(machine) => PortOf(machine, <<at, ch>>) \notin Port
    PROVE  SeenAt(machine, d, at, ch + 1, 0) <=> SeenAt(machine, d, at, ch, 0)
<1>1. ASSUME NEW c \in Channels(machine), PortOf(machine, c) = d[1], c[1] = at
      PROVE  /\ c[2] < ch + 1 <=> c[2] < ch
             /\ ~ (d[2] < 0)
  <2>1. c[2] \in {0, 1} /\ c = <<at, c[2]>> /\ d[1] \in Port /\ d[2] \in {0, 1}
    BY <1>1, ChannelFacts, HomeOfDisk
  <2>2. c[2] # ch
    BY <1>1, <2>1
  <2> QED BY <2>1, <2>2
<1> QED BY <1>1 DEF SeenAt

LEMMA SeenChannel ==
    ASSUME PosInv, NEW d \in disks, NEW ch \in 0 .. 1
    PROVE  SeenAt(machine, d, at, ch + 1, 0) <=> SeenAt(machine, d, at, ch, 2)
<1>1. ASSUME NEW c \in Channels(machine)
      PROVE  /\ c[2] < ch + 1 <=> c[2] < ch \/ c[2] = ch
             /\ ~ (d[2] < 0) /\ d[2] < 2
  <2>1. c[2] \in {0, 1} /\ d[2] \in {0, 1}
    BY ChannelFacts, HomeOfDisk
  <2> QED BY <2>1
<1> QED BY <1>1 DEF SeenAt

LEMMA SeenDrive ==
    ASSUME PosInv, NEW d \in disks, NEW ch \in 0 .. 1, NEW dr \in 0 .. 1,
           <<at, ch>> \in Channels(machine)
    PROVE  /\ SeenAt(machine, d, at, ch, dr + 1) <=>
                  SeenAt(machine, d, at, ch, dr) \/ d = <<PortOf(machine, <<at, ch>>), dr>>
           /\ d = <<PortOf(machine, <<at, ch>>), dr>> => ~ SeenAt(machine, d, at, ch, dr)
<1> DEFINE h == <<at, ch>>
<1>1. h[1] = at /\ h[2] = ch /\ h \in Channels(machine) /\ ~ Before(at, at)
  BY ChannelFacts
<1>2. d[2] \in {0, 1} /\ d = <<d[1], d[2]>>
  BY HomeOfDisk
<1> HIDE DEF h
<1>3. d = <<PortOf(machine, h), dr>> <=> PortOf(machine, h) = d[1] /\ d[2] = dr
  BY <1>2
<1>4. d[2] < dr + 1 <=> d[2] < dr \/ d[2] = dr
  BY <1>2
<1>5. \A c \in Channels(machine) : c[1] = at /\ c[2] = ch => c = h
  BY ChannelFacts DEF h
<1>6. ASSUME PortOf(machine, h) = d[1], d[2] = dr
      PROVE  ~ SeenAt(machine, d, at, ch, dr) /\ SeenAt(machine, d, at, ch, dr + 1)
  <2>1. \A c \in Channels(machine) : PortOf(machine, c) = d[1] => c = h
    BY <1>1, <1>6, HomeOfDisk
  <2>2. ~ (ch < ch) /\ ~ (dr < dr)
    OBVIOUS
  <2>3. ~ SeenAt(machine, d, at, ch, dr)
    BY <1>1, <1>6, <2>1, <2>2 DEF SeenAt
  <2>4. SeenAt(machine, d, at, ch, dr + 1)
    BY <1>1, <1>4, <1>6 DEF SeenAt
  <2> QED BY <2>3, <2>4
<1>7. ASSUME ~ (PortOf(machine, h) = d[1] /\ d[2] = dr)
      PROVE  SeenAt(machine, d, at, ch, dr) <=> SeenAt(machine, d, at, ch, dr + 1)
  <2>1. ASSUME NEW c \in Channels(machine), PortOf(machine, c) = d[1], c[1] = at, c[2] = ch
        PROVE  d[2] < dr + 1 <=> d[2] < dr
    <3>1. PortOf(machine, h) = d[1]
      BY <1>5, <2>1
    <3> QED BY <1>4, <1>7, <3>1
  <2> QED BY <2>1 DEF SeenAt
<1> QED BY <1>3, <1>6, <1>7 DEF h

LEMMA SeenAtFirst ==
    ASSUME PosInv, NEW d \in disks, at = <<0, 0, 0>>
    PROVE  ~ SeenAt(machine, d, at, 0, 0)
<1>1. ASSUME NEW c \in Channels(machine)
      PROVE  ~ Before(c[1], at) /\ ~ (c[2] < 0) /\ ~ (d[2] < 0)
  <2>1. /\ c[2] \in {0, 1} /\ d[2] \in {0, 1}
        /\ c[1] \in (0 .. Buses-1) \X (0 .. Devs-1) \X (0 .. Funcs-1)
        /\ at[1] = 0 /\ at[2] = 0 /\ at[3] = 0
    BY ChannelFacts, HomeOfDisk
  <2> QED BY <2>1 DEF Before
<1> QED BY <1>1 DEF SeenAt

LEMMA SeenAtLast ==
    ASSUME PosInv, NEW d \in disks, ScanOver, NEW ch, NEW dr
    PROVE  SeenAt(machine, d, at, ch, dr)
<1>1. PICK c \in Channels(machine) : PortOf(machine, c) = d[1]
  BY HomeOfDisk
<1>2. Before(c[1], at)
  <2>1. c[1] \in (0 .. Buses-1) \X (0 .. Devs-1) \X (0 .. Funcs-1)
    BY ChannelFacts
  <2>2. c[1][1] < Buses /\ at[1] = Buses
    BY <2>1, MachineAssumption DEF ScanOver
  <2> QED BY <2>2 DEF Before
<1> QED BY <1>1, <1>2 DEF SeenAt

-----------------------------------------------------------------------------
(* The devices and their numbers.                                          *)

LEMMA DeviceData ==
    ASSUME NEW heap \in Seq(Node), NEW k \in DevNodes(heap)
    PROVE  heap[k].data \in [id : Nat, truth : Slot]
<1>1. heap[k].data \in Datum /\ "id" \in DOMAIN heap[k].data
  <2>1. k \in 1 .. Len(heap)
    BY DEF DevNodes
  <2>2. heap[k] \in Node
    BY <2>1
  <2> QED BY <2>2 DEF DevNodes, Node
<1>2. heap[k].data \notin [root : {1, 2}]
  BY <1>1
<1>3. heap[k].data \notin [base : [{1, 2} -> Port \cup {0}]]
  BY <1>1
<1> QED BY <1>1, <1>2, <1>3 DEF Datum

LEMMA DriveBits == ASSUME NEW x \in Nat PROVE (x \div 2) % 2 \in {0, 1} /\ x \div 4 \in Nat
  OBVIOUS

LEMMA NumberOfDrive ==
    ASSUME NEW c \in Nat, NEW ch \in 0 .. 1, NEW dr \in 0 .. 1
    PROVE  /\ Id(c, ch, dr) \in Nat /\ Id(c, ch, dr) \div 4 = c
           /\ (Id(c, ch, dr) \div 2) % 2 = ch /\ Id(c, ch, dr) % 2 = dr
<1>1. ch = 0 \/ ch = 1
  OBVIOUS
<1>2. dr = 0 \/ dr = 1
  OBVIOUS
<1> QED BY <1>1, <1>2 DEF Id

LEMMA CountDevice ==
    ASSUME NEW heap, NEW nd, NEW qd, NEW nc, NEW qc, Lists(heap, nd, qd, nc, qc),
           Counted(heap, nd), NEW new,
           DOMAIN new = 1 .. Len(heap) + 1,
           \A p \in 1 .. Len(heap) : new[p].data = heap[p].data,
           "id" \in DOMAIN new[Len(heap) + 1].data,
           new[Len(heap) + 1].data.truth \notin Truths(heap)
    PROVE  /\ Counted(new, nd + 1)
           /\ DevNodes(new) = DevNodes(heap) \cup {Len(heap) + 1}
           /\ Truths(new) = Truths(heap) \cup {new[Len(heap) + 1].data.truth}
<1> DEFINE l == Len(heap) + 1
<1>1. DOMAIN heap = 1 .. Len(heap) /\ Len(heap) \in Nat /\ Len(heap) >= 2
  BY DEF Lists
<1>2. l \in DOMAIN new /\ l > 2 /\ l \notin DOMAIN heap /\ DOMAIN new = DOMAIN heap \cup {l}
  BY <1>1
<1>3. DevNodes(new) = DevNodes(heap) \cup {l} /\ l \notin DevNodes(heap)
  BY <1>1, <1>2 DEF DevNodes
<1>4. \A k \in DevNodes(heap) : new[k].data = heap[k].data
  BY <1>1 DEF DevNodes
<1> HIDE DEF l
<1>5. Truths(new) = Truths(heap) \cup {new[l].data.truth}
  BY <1>3, <1>4 DEF Truths
<1>6. IsFiniteSet(DevNodes(new)) /\ Cardinality(DevNodes(new)) = nd + 1
  BY <1>3, FS_AddElement DEF Counted
<1>7. IsFiniteSet(Truths(new)) /\ Cardinality(Truths(new)) = nd + 1
  <2>1. new[l].data.truth \notin Truths(heap)
    BY DEF l
  <2>2. IsFiniteSet(Truths(heap)) /\ Cardinality(Truths(heap)) = nd
    BY DEF Counted
  <2> DEFINE t == new[l].data.truth
  <2> HIDE DEF t
  <2>3. t \notin Truths(heap) /\ Truths(new) = Truths(heap) \cup {t}
    BY <1>5, <2>1 DEF t
  <2> QED BY <2>2, <2>3, FS_AddElement
<1> QED BY <1>3, <1>5, <1>6, <1>7 DEF Counted, l

LEMMA CountController ==
    ASSUME NEW heap, NEW nd, NEW qd, NEW nc, NEW qc, Lists(heap, nd, qd, nc, qc), NEW new,
           DOMAIN new = 1 .. Len(heap) + 1,
           \A p \in 1 .. Len(heap) : new[p].data = heap[p].data,
           ~ ("id" \in DOMAIN new[Len(heap) + 1].data)
    PROVE  DevNodes(new) = DevNodes(heap) /\ Truths(new) = Truths(heap)
<1> DEFINE l == Len(heap) + 1
<1>1. DOMAIN heap = 1 .. Len(heap) /\ Len(heap) \in Nat /\ Len(heap) >= 2
  BY DEF Lists
<1>2. l \notin DOMAIN heap /\ DOMAIN new = DOMAIN heap \cup {l}
  BY <1>1
<1>3. DevNodes(new) = DevNodes(heap)
  BY <1>1, <1>2 DEF DevNodes
<1>4. \A k \in DevNodes(heap) : new[k].data = heap[k].data
  BY <1>1 DEF DevNodes
<1> QED BY <1>3, <1>4 DEF Truths

\* The lists stay, and no channel that has been looked at changes its port.
LEMMA ListsKept ==
    ASSUME ListsInv, nodes' = nodes, num_controllers' = num_controllers,
           ~ In("none"), ~ In("none")',
           \A x \in {0, 1} : (x < probe.ch \/ (x = probe.ch /\ probe.stage # "channel")) =>
               /\ x < probe'.ch \/ (x = probe'.ch /\ probe'.stage # "channel")
               /\ probe'.base[x + 1] = probe.base[x + 1]
    PROVE  ListsInv'
<1>1. PICK nd, qd, nc, qc :
          /\ Lists(nodes, nd, qd, nc, qc)
          /\ num_controllers = nc + 1
          /\ Counted(nodes, nd)
          /\ \A k \in DevNodes(nodes) : Leads(nodes, nc, qc, probe, nodes[k].data)
  BY DEF ListsInv
<1>2. ASSUME NEW k \in DevNodes(nodes) PROVE Leads(nodes, nc, qc, probe', nodes[k].data)
  <2>1. nodes[k].data.id \in Nat
    BY <1>1, DeviceData DEF Lists
  <2>2. (nodes[k].data.id \div 2) % 2 \in {0, 1}
    BY <2>1, DriveBits
  <2>3. Leads(nodes, nc, qc, probe, nodes[k].data)
    BY <1>1
  <2> QED BY <2>2, <2>3 DEF Leads, In
<1> QED BY <1>1, <1>2 DEF ListsInv

-----------------------------------------------------------------------------
(* The steps of the probe up to the disks.                                 *)

LEMMA ProbeMoves ==
    ASSUME NEW prb \in Probe, NEW st \in {"channel", "identify"}, NEW c \in 0 .. 2, NEW r \in 0 .. 2,
           NEW new, new = [prb EXCEPT !.stage = st, !.ch = c, !.dr = r]
    PROVE  new \in Probe /\ new.stage = st /\ new.ch = c /\ new.dr = r /\ new.base = prb.base
  BY DEF Probe

LEMMA CheckFound == ASSUME ScanInv, Check, UNCHANGED io_vars PROVE ScanInv'
<1>1. /\ In("none") /\ ~ ScanOver /\ probe.ch = 0 /\ probe.dr = 0 /\ PosInv /\ ListsInv /\ FoundInv
      /\ UNCHANGED <<machine, nodes, missed, disks, sel, pc>>
  BY DEF Check, ScanInv, ProbeInv, disk_vars, io_vars
<1>2. CASE Publishes /\ device_publish(Hdr)
  <2>1. probe' = Probing /\ num_controllers' = num_controllers + 1 /\ at' = at
    BY <1>2 DEF Check
  <2>2. /\ probe' = [stage |-> "channel", base |-> <<0, 0>>, ch |-> 0, dr |-> 0]
    BY <2>1 DEF Probing, NoProbe
  <2>3. PosInv'
    BY <1>1, <2>1 DEF PosInv, ScanOver, Present, Card
  <2>4. /\ at \in Functions(machine) /\ Hdr = HdrOf(machine, at) /\ Hdr.htype = 0
        /\ Hdr.class_code = 1 /\ Hdr.subclass = 1
    BY <1>1, <1>2, FunctionAt, MatchLemma DEF Publishes
  <2>5. ProbeInv'
    <3>1. /\ probe' \in Probe
          /\ probe'.stage = "channel" /\ probe'.ch = 0 /\ probe'.dr = 0
      BY <2>2 DEF Probe
    <3>2. Hdr' = Hdr /\ (ScanOver' <=> ScanOver)
      BY <1>1, <2>1 DEF Hdr, Card, ScanOver
    <3> QED BY <1>1, <2>1, <2>4, <3>1, <3>2 DEF ProbeInv, In
  <2>6. ListsInv'
    <3>1. PICK nd, qd, nc, qc :
              /\ Lists(nodes, nd, qd, nc, qc)
              /\ num_controllers = nc
              /\ Counted(nodes, nd)
              /\ \A k \in DevNodes(nodes) : Leads(nodes, nc, qc, probe, nodes[k].data)
      BY <1>1 DEF ListsInv
    <3>2. \A k \in DevNodes(nodes) : Leads(nodes, nc, qc, probe', nodes[k].data)
      BY <1>1, <3>1 DEF Leads, In
    <3> QED BY <1>1, <2>1, <2>2, <3>1, <3>2 DEF ListsInv, In
  <2>7. FoundInv'
    BY <1>1, <2>1, <2>2 DEF FoundInv, Seen
  <2> QED BY <2>3, <2>5, <2>6, <2>7 DEF ScanInv
<1>3. CASE ~ (Publishes /\ device_publish(Hdr))
  <2>1. at' = After(at) /\ UNCHANGED <<probe, num_controllers>>
    BY <1>3 DEF Check
  <2>2. PosInv'
    BY <1>1, <2>1, NextPosition DEF PosInv, ScanOver, Present, Card
  <2>3. ProbeInv'
    BY <1>1, <2>1 DEF ProbeInv, In, ScanInv
  <2>4. ListsInv'
    BY <1>1, <2>1 DEF ListsInv, In
  <2>5. \A c \in Channels(machine) : c[1] # at
    BY <1>1, <1>3, FunctionAt, MatchLemma, ChannelFacts DEF Publishes
  <2>6. \A d \in disks : Seen(d)' <=> Seen(d)
    BY <1>1, <2>1, <2>5, SeenSkipped DEF Seen
  <2>7. FoundInv'
    BY <1>1, <2>6 DEF FoundInv
  <2> QED BY <2>2, <2>3, <2>4, <2>7 DEF ScanInv
<1> QED BY <1>2, <1>3

LEMMA ChannelFound == ASSUME ScanInv, LookAtChannel, UNCHANGED io_vars PROVE ScanInv'
<1> DEFINE ch == probe.ch
<1>1. /\ In("channel") /\ ~ ScanOver /\ ch \in 0 .. 1 /\ probe.dr = 0 /\ PosInv /\ ListsInv /\ FoundInv
      /\ UNCHANGED <<machine, at, num_controllers, nodes, missed, disks, sel, pc>>
      /\ at \in Functions(machine) /\ Hdr = HdrOf(machine, at) /\ Hdr.htype = 0
      /\ Hdr.class_code = 1 /\ Hdr.subclass = 1
  BY DEF LookAtChannel, ScanInv, ProbeInv, disk_vars, io_vars, In, Probe
<1>2. probe \in Probe
      /\ probe.stage = "channel"
  BY <1>1 DEF ScanInv, ProbeInv, In
<1>3. PosInv'
  BY <1>1 DEF PosInv, ScanOver, Present, Card
<1>4. Hdr' = Hdr /\ (ScanOver' <=> ScanOver)
  BY <1>1 DEF Hdr, Card, ScanOver
<1>5. /\ <<at, ch>> \in Channels(machine) <=> ~ (Hdr.native /\ Bar(Hdr, ch) = 0)
      /\ PortOf(machine, <<at, ch>>) = Port0(Hdr, ch)
  <2>1. ch \in {0, 1}
    BY <1>1
  <2> HIDE DEF ch
  <2> QED BY <1>1, <2>1 DEF Channels, PortOf
<1>6. CASE (Hdr.native /\ Bar(Hdr, ch) = 0) \/ Port0(Hdr, ch) \notin Port
  <2>1. probe' = [probe EXCEPT !.stage = "channel", !.ch = ch + 1, !.dr = 0]
    BY <1>6 DEF LookAtChannel, Channel
  <2>2. /\ probe' \in Probe
        /\ probe'.stage = "channel" /\ probe'.ch = ch + 1 /\ probe'.dr = 0 /\ probe'.base = probe.base
    <3>1. ch + 1 \in 0 .. 2 /\ 0 \in 0 .. 2
      BY <1>1
    <3> QED BY <1>2, <2>1, <3>1, ProbeMoves DEF Probe
  <2>3. ProbeInv'
    BY <1>1, <1>4, <2>2 DEF ProbeInv, In
  <2>4. ListsInv'
    <3>1. \A x \in {0, 1} : (x < probe.ch \/ (x = probe.ch /\ probe.stage # "channel")) =>
               /\ x < probe'.ch \/ (x = probe'.ch /\ probe'.stage # "channel")
               /\ probe'.base[x + 1] = probe.base[x + 1]
      BY <1>1, <1>2, <2>2
    <3> QED BY <1>1, <1>2, <2>2, <3>1, ListsKept DEF In
  <2>5. \A d \in disks : Seen(d)' <=> Seen(d)
    <3>1. <<at, ch>> \in Channels(machine) => PortOf(machine, <<at, ch>>) \notin Port
      BY <1>5, <1>6
    <3> QED BY <1>1, <2>2, <3>1, SeenNoChannel DEF Seen
  <2>6. FoundInv'
    BY <1>1, <2>5 DEF FoundInv
  <2> QED BY <1>3, <2>3, <2>4, <2>6 DEF ScanInv
<1>7. CASE ~ ((Hdr.native /\ Bar(Hdr, ch) = 0) \/ Port0(Hdr, ch) \notin Port)
  <2> DEFINE p == Port0(Hdr, ch)
  <2>0. p \in Port
    BY <1>7
  <2>1. probe' = [[probe EXCEPT !.stage = "identify", !.dr = 0] EXCEPT !.base[ch + 1] = p]
    BY <1>7 DEF LookAtChannel, Drive
  <2> HIDE DEF p
  <2>2. /\ probe' \in Probe
        /\ probe'.stage = "identify" /\ probe'.ch = ch /\ probe'.dr = 0
        /\ probe'.base = [probe.base EXCEPT ![ch + 1] = p]
    BY <1>1, <1>2, <2>0, <2>1 DEF Probe
  <2>3. ProbeInv'
    <3>1. ch + 1 \in {1, 2}
      BY <1>1
    <3>2. probe'.base[ch + 1] = p
      BY <1>2, <2>2, <3>1 DEF Probe
    <3>3. <<at, ch>> \in Channels(machine) /\ PortOf(machine, <<at, ch>>) = p
      BY <1>5, <1>7 DEF p
    <3> QED BY <1>1, <1>4, <2>0, <2>2, <3>2, <3>3 DEF ProbeInv, In
  <2>4. ListsInv'
    <3>1. \A x \in {0, 1} : (x < probe.ch \/ (x = probe.ch /\ probe.stage # "channel")) =>
               /\ x < probe'.ch \/ (x = probe'.ch /\ probe'.stage # "channel")
               /\ probe'.base[x + 1] = probe.base[x + 1]
      BY <1>1, <1>2, <2>2
    <3> QED BY <1>1, <1>2, <2>2, <3>1, ListsKept DEF In
  <2>5. \A d : Seen(d)' <=> Seen(d)
    BY <1>1, <2>2 DEF Seen
  <2>6. FoundInv'
    BY <1>1, <2>5 DEF FoundInv
  <2> QED BY <1>3, <2>3, <2>4, <2>6 DEF ScanInv
<1> QED BY <1>6, <1>7

LEMMA IdentifyFound == ASSUME ScanInv, Identify, UNCHANGED io_vars PROVE ScanInv'
<1> DEFINE ch == probe.ch
           dr == probe.dr
<1>1. /\ In("identify") /\ ~ ScanOver /\ ch \in 0 .. 1 /\ dr \in 0 .. 1 /\ PosInv /\ ListsInv /\ FoundInv
      /\ UNCHANGED <<machine, at, num_controllers, nodes, missed, disks, pc>>
      /\ sel' = [sel EXCEPT ![Behind[1]] = Behind[2]]
      /\ at \in Functions(machine) /\ Hdr = HdrOf(machine, at) /\ Hdr.htype = 0
      /\ Hdr.class_code = 1 /\ Hdr.subclass = 1
      /\ <<at, ch>> \in Channels(machine) /\ PortOf(machine, <<at, ch>>) \in Port
      /\ probe.base[ch + 1] = PortOf(machine, <<at, ch>>)
  BY DEF Identify, ScanInv, ProbeInv, disk_vars, io_vars, In, Probe
<1>2. probe \in Probe
      /\ probe.stage = "identify"
  BY <1>1 DEF ScanInv, ProbeInv, In
<1>3. PosInv'
  <2>1. DOMAIN sel' = Port
    BY <1>1 DEF PosInv
  <2> QED BY <1>1, <2>1 DEF PosInv, ScanOver, Present, Card
<1>4. Hdr' = Hdr /\ (ScanOver' <=> ScanOver)
  BY <1>1 DEF Hdr, Card, ScanOver
<1>5. Behind = <<PortOf(machine, <<at, ch>>), dr>>
  BY <1>1 DEF Behind
<1>6. CASE Behind \in disks
  <2>1. probe' = [probe EXCEPT !.stage = "poll"]
    BY <1>6 DEF Identify
  <2>2. /\ probe' \in Probe
        /\ probe'.stage = "poll" /\ probe'.ch = ch /\ probe'.dr = dr /\ probe'.base = probe.base
    BY <1>1, <1>2, <2>1 DEF Probe
  <2>3. ProbeInv'
    <3>1. Behind' = Behind
      BY <1>1, <2>2 DEF Behind
    <3>2. sel'[Behind[1]] = Behind[2]
      BY <1>1, <1>5 DEF PosInv
    <3> QED BY <1>1, <1>4, <1>6, <2>2, <3>1, <3>2 DEF ProbeInv, In
  <2>4. ListsInv'
    BY <1>1, <1>2, <2>2, ListsKept DEF In
  <2>5. \A d : Seen(d)' <=> Seen(d)
    BY <1>1, <2>2 DEF Seen
  <2>6. FoundInv'
    BY <1>1, <2>5 DEF FoundInv
  <2> QED BY <1>3, <2>3, <2>4, <2>6 DEF ScanInv
<1>7. CASE Behind \notin disks
  <2>1. probe' = [probe EXCEPT !.stage = "identify", !.dr = dr + 1]
    BY <1>7 DEF Identify, Drive
  <2>2. /\ probe' \in Probe
        /\ probe'.stage = "identify" /\ probe'.ch = ch /\ probe'.dr = dr + 1 /\ probe'.base = probe.base
    <3>1. dr + 1 \in 0 .. 2
      BY <1>1
    <3> QED BY <1>2, <2>1, <3>1 DEF Probe
  <2>3. ProbeInv'
    BY <1>1, <1>4, <2>2 DEF ProbeInv, In
  <2>4. ListsInv'
    BY <1>1, <1>2, <2>2, ListsKept DEF In
  <2>5. \A d \in disks : Seen(d)' <=> Seen(d)
    BY <1>1, <1>5, <1>7, <2>2, SeenDrive DEF Seen
  <2>6. FoundInv'
    BY <1>1, <2>5 DEF FoundInv
  <2> QED BY <1>3, <2>3, <2>4, <2>6 DEF ScanInv
<1> QED BY <1>6, <1>7

LEMMA NextChannelFound == ASSUME ScanInv, NextChannel, UNCHANGED io_vars PROVE ScanInv'
<1> DEFINE ch == probe.ch
<1>1. /\ In("identify") /\ ~ ScanOver /\ ch \in 0 .. 1 /\ probe.dr = 2 /\ PosInv /\ ListsInv /\ FoundInv
      /\ UNCHANGED <<machine, at, num_controllers, nodes, missed, disks, sel, pc>>
      /\ at \in Functions(machine) /\ Hdr = HdrOf(machine, at) /\ Hdr.htype = 0
      /\ Hdr.class_code = 1 /\ Hdr.subclass = 1
  BY DEF NextChannel, ScanInv, ProbeInv, disk_vars, io_vars, In, Probe
<1>2. probe \in Probe
      /\ probe.stage = "identify"
  BY <1>1 DEF ScanInv, ProbeInv, In
<1>3. PosInv'
  BY <1>1 DEF PosInv, ScanOver, Present, Card
<1>4. Hdr' = Hdr /\ (ScanOver' <=> ScanOver)
  BY <1>1 DEF Hdr, Card, ScanOver
<1>5. probe' = [probe EXCEPT !.stage = "channel", !.ch = ch + 1, !.dr = 0]
  BY DEF NextChannel, Channel
<1>6. /\ probe' \in Probe
      /\ probe'.stage = "channel" /\ probe'.ch = ch + 1 /\ probe'.dr = 0 /\ probe'.base = probe.base
  <2>1. ch + 1 \in 0 .. 2 /\ 0 \in 0 .. 2
    BY <1>1
  <2> QED BY <1>2, <1>5, <2>1, ProbeMoves DEF Probe
<1>7. ProbeInv'
  BY <1>1, <1>4, <1>6 DEF ProbeInv, In
<1>8. ListsInv'
  <2>1. \A x \in {0, 1} : (x < probe.ch \/ (x = probe.ch /\ probe.stage # "channel")) =>
             /\ x < probe'.ch \/ (x = probe'.ch /\ probe'.stage # "channel")
             /\ probe'.base[x + 1] = probe.base[x + 1]
    BY <1>1, <1>2, <1>6
  <2> QED BY <1>1, <1>2, <1>6, <2>1, ListsKept DEF In
<1>9. \A d \in disks : Seen(d)' <=> Seen(d)
  BY <1>1, <1>6, SeenChannel DEF Seen
<1>10. FoundInv'
  BY <1>1, <1>9 DEF FoundInv
<1> QED BY <1>3, <1>7, <1>8, <1>10 DEF ScanInv

-----------------------------------------------------------------------------
(* A disk is waited for; the controller is done with.                      *)

\* Where a disk is being waited for.
LEMMA Polling ==
    ASSUME ScanInv, In("poll")
    PROVE  /\ ~ ScanOver /\ probe.ch \in 0 .. 1 /\ probe.dr \in 0 .. 1
           /\ probe \in Probe /\ probe.stage = "poll"
           /\ at \in Functions(machine) /\ Hdr = HdrOf(machine, at) /\ Hdr.htype = 0
           /\ Hdr.class_code = 1 /\ Hdr.subclass = 1
           /\ <<at, probe.ch>> \in Channels(machine) /\ PortOf(machine, <<at, probe.ch>>) \in Port
           /\ probe.base[probe.ch + 1] = PortOf(machine, <<at, probe.ch>>)
           /\ Behind = <<PortOf(machine, <<at, probe.ch>>), probe.dr>>
           /\ Behind \in disks /\ sel[Behind[1]] = Behind[2] /\ Selected(Behind[1]) = Behind
           /\ ~ Seen(Behind)
           /\ \A d \in disks : SeenAt(machine, d, at, probe.ch, probe.dr + 1) <=> Seen(d) \/ d = Behind
<1>1. /\ ~ ScanOver /\ probe.ch \in 0 .. 1 /\ probe.dr \in 0 .. 1
      /\ probe \in Probe /\ probe.stage = "poll"
      /\ at \in Functions(machine) /\ Hdr = HdrOf(machine, at) /\ Hdr.htype = 0
      /\ Hdr.class_code = 1 /\ Hdr.subclass = 1
      /\ <<at, probe.ch>> \in Channels(machine) /\ PortOf(machine, <<at, probe.ch>>) \in Port
      /\ probe.base[probe.ch + 1] = PortOf(machine, <<at, probe.ch>>)
      /\ Behind \in disks /\ sel[Behind[1]] = Behind[2]
  BY DEF ScanInv, ProbeInv, In, Probe
<1>2. Behind = <<PortOf(machine, <<at, probe.ch>>), probe.dr>>
  BY <1>1 DEF Behind
<1>3. Selected(Behind[1]) = Behind
  BY <1>1, <1>2 DEF Selected
<1>4. /\ ~ Seen(Behind)
      /\ \A d \in disks : SeenAt(machine, d, at, probe.ch, probe.dr + 1) <=> Seen(d) \/ d = Behind
  BY <1>1, <1>2, SeenDrive DEF Seen, ScanInv
<1> QED BY <1>1, <1>2, <1>3, <1>4

\* The drive is done with, whatever it said.
LEMMA DriveDone ==
    ASSUME ScanInv, In("poll"), probe' = Drive(probe.dr + 1),
           UNCHANGED <<machine, at, disks, sel, pc>>
    PROVE  /\ PosInv' /\ ProbeInv'
           /\ probe' \in Probe /\ probe'.stage = "identify" /\ probe'.ch = probe.ch
           /\ probe'.base = probe.base
           /\ \A d \in disks : Seen(d)' <=> Seen(d) \/ d = Behind
<1>1. PosInv'
  BY DEF ScanInv, PosInv, ScanOver, Present, Card
<1>2. Hdr' = Hdr /\ (ScanOver' <=> ScanOver)
  BY DEF Hdr, Card, ScanOver
<1>3. /\ probe' \in Probe /\ probe'.stage = "identify" /\ probe'.ch = probe.ch
      /\ probe'.dr = probe.dr + 1 /\ probe'.base = probe.base
  <2>1. probe.dr + 1 \in 0 .. 2 /\ probe \in Probe
    BY Polling
  <2> QED BY <2>1 DEF Drive, Probe
<1>4. ProbeInv'
  BY <1>2, <1>3, Polling DEF ProbeInv, In, Probe
<1>5. \A d \in disks : Seen(d)' <=> Seen(d) \/ d = Behind
  BY <1>3, Polling DEF Seen
<1> QED BY <1>1, <1>3, <1>4, <1>5

LEMMA FailureFound == ASSUME ScanInv, IdentifyFails, UNCHANGED io_vars PROVE ScanInv'
<1>1. /\ In("poll") /\ probe' = Drive(probe.dr + 1) /\ missed' = missed \cup {Behind}
      /\ UNCHANGED <<machine, at, num_controllers, nodes, disks, sel, pc>>
  BY DEF IdentifyFails, disk_vars, io_vars
<1>2. /\ PosInv' /\ ProbeInv'
      /\ probe' \in Probe /\ probe'.stage = "identify" /\ probe'.ch = probe.ch
      /\ probe'.base = probe.base
      /\ \A d \in disks : Seen(d)' <=> Seen(d) \/ d = Behind
  BY <1>1, DriveDone
<1>3. ListsInv'
  <2>1. probe.stage = "poll" /\ ListsInv
    BY Polling, <1>1 DEF ScanInv
  <2> QED BY <1>1, <1>2, <2>1, ListsKept DEF In
<1>4. FoundInv'
  <2>1. Behind \in disks /\ ~ Seen(Behind) /\ FoundInv
    BY Polling, <1>1 DEF ScanInv
  <2> QED BY <1>1, <1>2, <2>1 DEF FoundInv
<1> QED BY <1>2, <1>3, <1>4 DEF ScanInv

LEMMA IdentifiedFound == ASSUME ScanInv, Identified, UNCHANGED io_vars PROVE ScanInv'
<1> DEFINE dev == [id |-> Id(num_controllers - 1, probe.ch, probe.dr), truth |-> Behind]
<1>1. /\ In("poll") /\ probe' = Drive(probe.dr + 1)
      /\ UNCHANGED <<machine, at, num_controllers, missed, disks, sel, pc>>
      /\ nodes' = dllist_append(nodes, devices, dev)
  BY Polling DEF Identified, disk_vars, io_vars
<1>2. /\ PosInv' /\ ProbeInv'
      /\ probe' \in Probe /\ probe'.stage = "identify" /\ probe'.ch = probe.ch
      /\ probe'.base = probe.base
      /\ \A d \in disks : Seen(d)' <=> Seen(d) \/ d = Behind
  BY <1>1, DriveDone
<1>3. /\ FoundInv /\ ListsInv /\ probe.ch \in 0 .. 1 /\ probe.dr \in 0 .. 1
      /\ Behind \in disks /\ ~ Seen(Behind) /\ Behind \in Slot
      /\ probe.stage = "poll" /\ Behind = <<probe.base[probe.ch + 1], probe.dr>>
  <2>1. Behind \in Slot
    BY <1>1, Polling, HomeOfDisk DEF Slot, ScanInv
  <2> QED BY <1>1, <2>1, Polling DEF ScanInv
<1>4. PICK nd, qd, nc, qc :
          /\ Lists(nodes, nd, qd, nc, qc)
          /\ num_controllers = nc + 1
          /\ Counted(nodes, nd)
          /\ \A k \in DevNodes(nodes) : Leads(nodes, nc, qc, probe, nodes[k].data)
  BY <1>1, <1>3 DEF ListsInv, In
<1>5. /\ nc \in Nat /\ Len(nodes) \in Nat /\ DOMAIN nodes = 1 .. Len(nodes) /\ nodes \in Seq(Node)
      /\ \A i \in 0 .. nc : qc[i] \in 1 .. Len(nodes)
  BY <1>4 DEF Lists, Chain
<1>6. /\ dev \in [id : Nat, truth : Slot] /\ "id" \in DOMAIN dev /\ dev \in Datum
      /\ dev.truth = Behind /\ dev.id \div 4 = nc /\ (dev.id \div 2) % 2 = probe.ch
      /\ dev.id % 2 = probe.dr
  <2>1. num_controllers - 1 = nc
    BY <1>4, <1>5
  <2>2. /\ Id(nc, probe.ch, probe.dr) \in Nat /\ Id(nc, probe.ch, probe.dr) \div 4 = nc
        /\ (Id(nc, probe.ch, probe.dr) \div 2) % 2 = probe.ch
        /\ Id(nc, probe.ch, probe.dr) % 2 = probe.dr
    <3>1. nc \in Nat /\ probe.ch \in 0 .. 1 /\ probe.dr \in 0 .. 1
      BY <1>3, <1>5
    <3> QED BY <3>1, NumberOfDrive
  <2>3. dev = [id |-> Id(nc, probe.ch, probe.dr), truth |-> Behind]
    BY <2>1
  <2> HIDE DEF dev
  <2> QED BY <1>3, <2>2, <2>3 DEF Datum
<1> HIDE DEF dev
<1>7. /\ Lists(nodes', nd + 1, Longer(qd, nd, Len(nodes) + 1), nc, qc)
      /\ Len(nodes') = Len(nodes) + 1
      /\ \A p \in 1 .. Len(nodes) : nodes'[p].data = nodes[p].data
      /\ nodes'[Len(nodes) + 1].data = dev
  <2>1. Lists(nodes, nd, qd, nc, qc) /\ dev \in Datum /\ "id" \in DOMAIN dev
    BY <1>4, <1>6
  <2>2. nodes' = dllist_append(nodes, devices, dev)
    BY <1>1
  <2> QED BY <2>1, <2>2, AppendDevice
<1>8. /\ Counted(nodes', nd + 1)
      /\ DevNodes(nodes') = DevNodes(nodes) \cup {Len(nodes) + 1}
      /\ Truths(nodes') = Truths(nodes) \cup {Behind}
  <2>1. Behind \notin Truths(nodes)
    BY <1>3 DEF FoundInv
  <2>2. DOMAIN nodes' = 1 .. Len(nodes) + 1
    <3>1. nodes' \in Seq(Node)
      BY <1>7 DEF Lists
    <3> QED BY <1>7, <3>1
  <2> QED BY <1>4, <1>6, <1>7, <2>1, <2>2, CountDevice
<1>9. FoundInv'
  <2>1. Behind \notin missed
    BY <1>3 DEF FoundInv
  <2> QED BY <1>1, <1>2, <1>3, <1>8, <2>1 DEF FoundInv
<1>10. ASSUME NEW k \in DevNodes(nodes') PROVE Leads(nodes', nc, qc, probe', nodes'[k].data)
  <2>1. CASE k \in DevNodes(nodes)
    <3>1. nodes'[k].data = nodes[k].data
      BY <1>5, <1>7, <2>1 DEF DevNodes
    <3>2. nodes[k].data.id \in Nat
      BY <1>5, <2>1, DeviceData
    <3>3. (nodes[k].data.id \div 4) \in Nat
      BY <3>2, DriveBits
    <3>4. Leads(nodes, nc, qc, probe, nodes[k].data)
      BY <1>4, <2>1
    <3>5. (nodes[k].data.id \div 4) < nc =>
              nodes'[qc[(nodes[k].data.id \div 4) + 1]].data = nodes[qc[(nodes[k].data.id \div 4) + 1]].data
      <4>1. (nodes[k].data.id \div 4) < nc => (nodes[k].data.id \div 4) + 1 \in 0 .. nc
        BY <1>5, <3>3
      <4> QED BY <1>5, <1>7, <4>1
    <3> QED BY <1>2, <1>3, <3>1, <3>4, <3>5 DEF Leads
  <2>2. CASE k = Len(nodes) + 1
    <3>1. nodes'[k].data = dev
      BY <1>7, <2>2
    <3>2. dev.truth[1] = probe.base[probe.ch + 1] /\ dev.truth[2] = probe.dr
      BY <1>3, <1>6
    <3>3. probe'.stage = "identify" /\ probe'.base = probe.base /\ probe'.ch = probe.ch
      BY <1>2
    <3>4. Leads(nodes', nc, qc, probe', dev)
      BY <1>6, <3>2, <3>3 DEF Leads
    <3> QED BY <3>1, <3>4
  <2> QED BY <1>8, <2>1, <2>2
<1>11. ListsInv'
  BY <1>1, <1>2, <1>4, <1>7, <1>8, <1>10 DEF ListsInv, In
<1> QED BY <1>2, <1>9, <1>11 DEF ScanInv

LEMMA ProbedFound == ASSUME ScanInv, Probed, UNCHANGED io_vars PROVE ScanInv'
<1> DEFINE ctl == [base |-> probe.base]
<1>1. /\ In("channel") /\ probe.ch = 2 /\ probe.dr = 0 /\ ~ ScanOver
      /\ probe' = NoProbe /\ at' = After(at)
      /\ UNCHANGED <<machine, num_controllers, missed, disks, sel, pc>>
      /\ nodes' = dllist_append(nodes, controllers, ctl)
      /\ PosInv /\ ListsInv /\ FoundInv /\ probe \in Probe
  BY DEF Probed, ScanInv, ProbeInv, disk_vars, io_vars, In, Probe
<1>2. PosInv'
  BY <1>1, NextPosition DEF PosInv, ScanOver, Present, Card
<1>3. probe' = [stage |-> "none", base |-> <<0, 0>>, ch |-> 0, dr |-> 0]
  BY <1>1 DEF NoProbe
<1>4. ProbeInv'
  BY <1>3 DEF ProbeInv, In, Probe
<1>5. PICK nd, qd, nc, qc :
          /\ Lists(nodes, nd, qd, nc, qc)
          /\ num_controllers = nc + 1
          /\ Counted(nodes, nd)
          /\ \A k \in DevNodes(nodes) : Leads(nodes, nc, qc, probe, nodes[k].data)
  BY <1>1 DEF ListsInv, In
<1>6. /\ nc \in Nat /\ Len(nodes) \in Nat /\ DOMAIN nodes = 1 .. Len(nodes) /\ nodes \in Seq(Node)
      /\ \A i \in 0 .. nc : qc[i] \in 1 .. Len(nodes)
  BY <1>5 DEF Lists, Chain
<1>7. ctl \in Datum /\ ~ ("id" \in DOMAIN ctl) /\ ctl.base = probe.base
  BY <1>1 DEF Datum, Probe
<1> HIDE DEF ctl
<1> DEFINE q == Longer(qc, nc, Len(nodes) + 1)
<1>8. /\ Lists(nodes', nd, qd, nc + 1, q)
      /\ Len(nodes') = Len(nodes) + 1
      /\ \A p \in 1 .. Len(nodes) : nodes'[p].data = nodes[p].data
      /\ nodes'[Len(nodes) + 1].data = ctl
  BY <1>1, <1>5, <1>7, AppendController
<1>9. q[nc + 1] = Len(nodes) + 1 /\ \A i \in 0 .. nc : q[i] = qc[i]
  BY <1>6 DEF Longer
<1> HIDE DEF q
<1>10. DevNodes(nodes') = DevNodes(nodes) /\ Truths(nodes') = Truths(nodes)
  <2>1. DOMAIN nodes' = 1 .. Len(nodes) + 1
    <3>1. nodes' \in Seq(Node)
      BY <1>8 DEF Lists
    <3> QED BY <1>8, <3>1
  <2> QED BY <1>5, <1>7, <1>8, <2>1, CountController
<1>11. FoundInv'
  <2>1. \A d \in disks : Seen(d)' <=> Seen(d)
    BY <1>1, <1>3, SeenProbed DEF Seen
  <2> QED BY <1>1, <1>10, <2>1 DEF FoundInv
<1>12. ASSUME NEW k \in DevNodes(nodes') PROVE Leads(nodes', nc + 1, q, probe', nodes'[k].data)
  <2> DEFINE dev == nodes[k].data
             c == dev.id \div 4
  <2>1. k \in DevNodes(nodes) /\ nodes'[k].data = dev
    BY <1>6, <1>8, <1>10 DEF DevNodes
  <2>2. dev.id \in Nat
    BY <1>6, <2>1, DeviceData
  <2>3. c \in Nat
    BY <2>2, DriveBits
  <2>4. Leads(nodes, nc, qc, probe, dev)
    BY <1>5, <2>1
  <2>5. c < nc => c < nc + 1 /\ nodes'[q[c + 1]].data = nodes[qc[c + 1]].data
    <3>1. c < nc => c + 1 \in 0 .. nc
      BY <1>6, <2>3
    <3> QED BY <1>6, <1>8, <1>9, <2>3, <3>1
  <2>6. c = nc => c < nc + 1 /\ nodes'[q[c + 1]].data.base = probe.base
    BY <1>6, <1>7, <1>8, <1>9
  <2> HIDE DEF dev
  <2> QED BY <2>1, <2>4, <2>5, <2>6 DEF Leads
<1>13. ListsInv'
  <2>1. Counted(nodes', nd)
    BY <1>5, <1>10 DEF Counted
  <2> QED BY <1>1, <1>3, <1>5, <1>8, <1>12, <2>1 DEF ListsInv, In
<1> QED BY <1>2, <1>4, <1>11, <1>13 DEF ScanInv

-----------------------------------------------------------------------------
(* The invariant of the scan holds.                                        *)

\* The driver and the disks leave alone what the scan found.
LEMMA CallsKeepFound ==
    ASSUME ScanInv, UNCHANGED scan_vars, disks' = disks, DOMAIN sel' = DOMAIN sel,
           sel' = sel \/ ScanOver, pc = "idle" /\ ~ ScanOver => pc' = "idle"
    PROVE  ScanInv'
<1>1. /\ UNCHANGED <<machine, at, probe, num_controllers, nodes, missed>>
      /\ PosInv /\ ProbeInv /\ ListsInv /\ FoundInv
  BY DEF scan_vars, ScanInv
<1>2. (ScanOver' <=> ScanOver) /\ Hdr' = Hdr /\ (Present' <=> Present) /\ Card' = Card /\ Behind' = Behind
  BY <1>1 DEF ScanOver, Hdr, Present, Card, Behind
<1>3. PosInv'
  BY <1>1, <1>2 DEF PosInv
<1>4. ProbeInv'
  <2>1. In("poll") => sel' = sel
    BY <1>1 DEF ProbeInv, In
  <2> QED BY <1>1, <1>2, <2>1 DEF ProbeInv, In
<1>5. ListsInv'
  BY <1>1 DEF ListsInv, In
<1>6. FoundInv'
  BY <1>1 DEF FoundInv, Seen
<1> QED BY <1>3, <1>4, <1>5, <1>6 DEF ScanInv

LEMMA DriverKeeps ==
    ASSUME Driver PROVE pc # "idle" /\ disks' = disks /\ DOMAIN sel' = DOMAIN sel
  BY DEF Driver, WaitReady, WaitTimeout, PollFails, Drain, Finish, Issue, SectorIn, SectorOut, Flush,
         disk_vars, At

LEMMA WorksKeeps == ASSUME Works PROVE disks' = disks /\ sel' = sel
  BY DEF Works, Fails, GetsReady, Stores, Flushed

LEMMA ScanStep == ScanInv /\ [Next]_dev_vars => ScanInv'
<1> SUFFICES ASSUME ScanInv, [Next]_dev_vars PROVE ScanInv'
  OBVIOUS
<1>1. ASSUME Scan, UNCHANGED io_vars PROVE ScanInv'
  BY <1>1, CheckFound, ChannelFound, IdentifyFound, FailureFound, IdentifiedFound, NextChannelFound,
     ProbedFound DEF Scan
<1>2. ASSUME Driver, UNCHANGED scan_vars PROVE ScanInv'
  <2>1. pc # "idle" /\ disks' = disks /\ DOMAIN sel' = DOMAIN sel
    BY <1>2, DriverKeeps
  <2>2. ScanOver
    BY <2>1 DEF ScanInv, PosInv
  <2> QED BY <1>2, <2>1, <2>2, CallsKeepFound
<1>3. ASSUME NEW i \in 0 .. dev_count - 1, NEW c \in Calls, Call(i, c) PROVE ScanInv'
  BY <1>3, CallsKeepFound DEF Call, disk_vars
<1>4. ASSUME Works, UNCHANGED <<io_vars, scan_vars, calls>> PROVE ScanInv'
  BY <1>4, WorksKeeps, CallsKeepFound DEF io_vars
<1>5. ASSUME UNCHANGED dev_vars PROVE ScanInv'
  BY <1>5, CallsKeepFound DEF dev_vars, disk_vars, io_vars
<1> QED BY <1>1, <1>2, <1>3, <1>4, <1>5 DEF Next, Step

LEMMA ScanInit == Init => ScanInv
<1> SUFFICES ASSUME Init PROVE ScanInv
  OBVIOUS
<1>1. /\ machine \in Machines /\ disks = machine.disks /\ sel = [p \in Port |-> 0]
      /\ at = <<0, 0, 0>> /\ probe = NoProbe /\ num_controllers = 0 /\ pc = "idle"
      /\ nodes = <<NewElement([root |-> 1], 0), NewElement([root |-> 2], 0)>>
      /\ missed = {}
  BY DEF Init, AtaInit
<1>2. PosInv
  BY <1>1, MachineAssumption DEF PosInv
<1>3. probe.stage = "none" /\ probe.ch = 0 /\ probe.dr = 0
      /\ probe \in Probe
  BY <1>1 DEF NoProbe, Probe
<1>4. ProbeInv
  BY <1>3 DEF ProbeInv, In
<1> DEFINE x == [data |-> [root |-> 1], next |-> 0, prev |-> 0]
           y == [data |-> [root |-> 2], next |-> 0, prev |-> 0]
<1>5. nodes = <<x, y>> /\ x \in Node /\ y \in Node
  BY <1>1 DEF NewElement, Node, Datum
<1>6. /\ nodes \in Seq(Node) /\ Len(nodes) = 2 /\ DOMAIN nodes = {1, 2}
      /\ nodes[1].next = 0 /\ nodes[2].next = 0
      /\ \A p \in DOMAIN nodes : ~ (p > 2)
  BY <1>5
<1>7. DevNodes(nodes) = {} /\ Truths(nodes) = {}
  BY <1>6 DEF DevNodes, Truths
<1> DEFINE qd == [i \in 0 .. 0 |-> 1]
           qc == [i \in 0 .. 0 |-> 2]
<1>8. Lists(nodes, 0, qd, 0, qc)
  <2>1. Chain(nodes, devices, 0, qd) /\ Chain(nodes, controllers, 0, qc)
    BY <1>6 DEF Chain, devices, controllers
  <2>2. \A p \in DOMAIN nodes : IsDev(nodes, p) <=> p = 1
    BY <1>6 DEF IsDev, devices
  <2>3. qd[0] = 1 /\ qc[0] = 2 /\ \A i \in 0 .. 0 : i = 0
    OBVIOUS
  <2> HIDE DEF qd, qc
  <2> QED BY <1>6, <2>1, <2>2, <2>3 DEF Lists
<1>9. Counted(nodes, 0)
  BY <1>7, FS_EmptySet DEF Counted
<1>10. ListsInv
  BY <1>1, <1>3, <1>7, <1>8, <1>9 DEF ListsInv, In
<1>11. FoundInv
  BY <1>1, <1>2, <1>3, <1>7, SeenAtFirst DEF FoundInv, Seen
<1> QED BY <1>2, <1>4, <1>10, <1>11 DEF ScanInv

\* What the scan has found so far.
THEOREM ScanInvariant == Spec => []ScanInv
<1> QED BY ScanInit, ScanStep, PTL DEF Spec

\* The devices are the elements of their list, in order.
LEMMA KnownDevices ==
    ASSUME ScanInv
    PROVE  Known = {nodes[k].data : k \in DevNodes(nodes)}
<1>1. PICK nd, qd, nc, qc : Lists(nodes, nd, qd, nc, qc) /\ Counted(nodes, nd)
  BY DEF ScanInv, ListsInv
<1>2. dev_count = nd /\ nd \in Nat /\ nodes \in Seq(Node) /\ Chain(nodes, devices, nd, qd)
  BY <1>1 DEF dev_count, Counted, DevNodes, Lists, Chain
<1>3. \A i \in 0 .. nd - 1 : blkdev(i) = nodes[qd[i + 1]].data
  <2> SUFFICES ASSUME NEW i \in 0 .. nd - 1 PROVE blkdev(i) = nodes[qd[i + 1]].data
    OBVIOUS
  <2>1. dllist_get(nodes, devices, i) = qd[i + 1]
    BY <1>2, GetOfChain
  <2> QED BY <2>1 DEF blkdev
<1>4. ASSUME NEW i \in 0 .. nd - 1 PROVE qd[i + 1] \in DevNodes(nodes)
  <2>1. i + 1 \in 0 .. nd /\ qd[i + 1] \in DOMAIN nodes /\ IsDev(nodes, qd[i + 1])
    BY <1>1, <1>2 DEF Lists, Chain
  <2>2. qd[i + 1] > 2
    BY <1>2, <2>1 DEF Chain
  <2> QED BY <2>1, <2>2 DEF IsDev, DevNodes, devices
<1>5. ASSUME NEW k \in DevNodes(nodes) PROVE \E i \in 0 .. nd - 1 : k = qd[i + 1]
  <2>1. PICK j \in 0 .. nd : k = qd[j]
    BY <1>1 DEF DevNodes, Lists, IsDev
  <2>2. j # 0
    BY <1>2, <2>1 DEF Chain, DevNodes, devices
  <2>3. j - 1 \in 0 .. nd - 1 /\ (j - 1) + 1 = j
    BY <1>2, <2>2
  <2> QED BY <2>1, <2>3
<1>6. Known = {nodes[qd[i + 1]].data : i \in 0 .. nd - 1}
  BY <1>2, <1>3 DEF Known
<1> QED BY <1>4, <1>5, <1>6

-----------------------------------------------------------------------------
(* What the calls find.                                                    *)

\* The number of a device of the list is the way to its disk.
LEMMA NumberLeads ==
    ASSUME ScanInv, ScanOver, NEW k \in DevNodes(nodes)
    PROVE  DiskOf(nodes[k].data) = nodes[k].data.truth
<1> DEFINE dev == nodes[k].data
           ctrl == dev.id \div 4
           ch == (dev.id \div 2) % 2
<1>1. In("none") /\ ListsInv
  BY DEF ScanInv, ProbeInv
<1>2. PICK nd, qd, nc, qc :
          /\ Lists(nodes, nd, qd, nc, qc)
          /\ \A j \in DevNodes(nodes) : Leads(nodes, nc, qc, probe, nodes[j].data)
  BY <1>1 DEF ListsInv
<1>3. Leads(nodes, nc, qc, probe, dev)
  BY <1>2
<1>4. /\ nodes \in Seq(Node) /\ Chain(nodes, controllers, nc, qc)
      /\ nc \in Nat /\ \A i \in 0 .. nc : qc[i] # 0
  <2>1. nodes \in Seq(Node) /\ Chain(nodes, controllers, nc, qc)
    BY <1>2 DEF Lists
  <2> QED BY <2>1 DEF Chain
<1>5. dev \in [id : Nat, truth : Slot]
  BY <1>4, DeviceData
<1>6. dev.id \in Nat /\ ctrl \in Nat /\ dev.truth = <<dev.truth[1], dev.truth[2]>>
  BY <1>5, DriveBits DEF Slot
<1>7. ctrl < nc /\ nodes[qc[ctrl + 1]].data.base[ch + 1] = dev.truth[1] /\ dev.id % 2 = dev.truth[2]
  BY <1>1, <1>3 DEF Leads, In
<1> HIDE DEF dev
<1> DEFINE ptr == dllist_get(nodes, controllers, ctrl)
<1>8. ptr = qc[ctrl + 1]
  <2>1. dllist_get(nodes, controllers, ctrl) = IF ctrl < nc THEN qc[ctrl + 1] ELSE 0
    BY <1>4, <1>6, GetOfChain
  <2> QED BY <1>7, <2>1
<1>9. ptr # 0
  <2>1. ctrl + 1 \in 0 .. nc
    BY <1>4, <1>6, <1>7
  <2> QED BY <1>4, <1>8, <2>1
<1>10. DiskOf(dev) = <<IF ptr = 0 THEN 0 ELSE nodes[ptr].data.base[ch + 1], dev.id % 2>>
  BY DEF DiskOf
<1> HIDE DEF ptr, ctrl, ch
<1>11. DiskOf(dev) = <<dev.truth[1], dev.truth[2]>>
  BY <1>7, <1>8, <1>9, <1>10
<1> QED BY <1>6, <1>11 DEF dev

LEMMA DisksKnown == ScanInv => DisksFound
<1> SUFFICES ASSUME ScanInv, ScanOver
             PROVE  /\ {dev.truth : dev \in Known} = disks \ missed
                    /\ dev_count = Cardinality(disks \ missed)
                    /\ \A dev \in Known : DiskOf(dev) = dev.truth
  BY DEF DisksFound
<1>1. Known = {nodes[k].data : k \in DevNodes(nodes)}
  BY KnownDevices
<1>2. Truths(nodes) = disks \ missed
  <2>1. \A d \in disks : Seen(d)
    BY SeenAtLast DEF ScanInv, Seen
  <2> QED BY <2>1 DEF ScanInv, FoundInv
<1>3. {dev.truth : dev \in Known} = Truths(nodes)
  BY <1>1 DEF Truths
<1>4. dev_count = Cardinality(Truths(nodes))
  <2>1. PICK nd : Counted(nodes, nd)
    BY DEF ScanInv, ListsInv
  <2> QED BY <2>1 DEF Counted, dev_count, DevNodes
<1>5. \A dev \in Known : DiskOf(dev) = dev.truth
  BY <1>1, NumberLeads
<1> QED BY <1>2, <1>3, <1>4, <1>5

\* When the scan is over every disk of the machine has been registered, once,
\* unless it did not answer, and the number of a block device leads to it.
THEOREM DisksAreFound == Spec => []DisksFound
<1> QED BY ScanInvariant, DisksKnown, PTL

-----------------------------------------------------------------------------
(* The scan and the driver together.                                       *)

LEMMA DevicesInit == Init => IInv
<1> SUFFICES ASSUME Init PROVE IInv
  OBVIOUS
<1>1. /\ AtaInit /\ machine \in Machines /\ disks = machine.disks /\ sel = [p \in Port |-> 0]
      /\ drive = [d \in disks |-> Idle]
      /\ medium = [d \in disks |-> [k \in 0 .. Sectors-1 |-> k]]
  BY DEF Init
<1>2. disks \subseteq Slot
  BY <1>1, MachineAssumption
<1>3. Idle \in Probed0
  BY DEF Idle, Probed0
<1>4. [k \in 0 .. Sectors-1 |-> k] \in [0 .. Sectors-1 -> Data]
  BY MachineAssumption
<1>5. Disks0
  BY <1>1, <1>2, <1>3, <1>4 DEF Disks0
<1> QED BY <1>1, <1>5, InitOK

\* While no call is under way the disks may be at anything they can be at.
LEMMA IdleKeeps ==
    ASSUME IInv, pc = "idle", UNCHANGED io_vars, disks' = disks, medium' = medium,
           sel' \in [Port -> {0, 1}], drive' \in [disks -> DriveState], DisksOK'
    PROVE  IInv'
<1>1. UNCHANGED <<pc, slot, io, buf, s, res, lost>> /\ TypeOK /\ CallOK
  BY DEF io_vars, IInv
<1>2. TypeOK'
  BY <1>1 DEF TypeOK
<1>3. CallOK'
  BY <1>1 DEF CallOK, At
<1>4. ReadOK' /\ WriteOK' /\ DoneOK'
  BY <1>1 DEF ReadOK, WriteOK, DoneOK, At
<1> QED BY <1>2, <1>3, <1>4 DEF IInv

\* IDENTIFY is a command among others, and is done before the calls.
LEMMA ScanKeeps ==
    ASSUME IInv, ScanInv, Scan, UNCHANGED io_vars PROVE IInv'
<1>1. TypeOK /\ DisksOK /\ PosInv /\ ProbeInv
  BY DEF IInv, ScanInv
<1>2. sel \in [Port -> {0, 1}] /\ drive \in [disks -> DriveState]
  BY <1>1 DEF TypeOK
<1>3. ASSUME UNCHANGED disk_vars, ~ ScanOver PROVE IInv'
  <2>1. pc = "idle" /\ DisksOK'
    BY <1>1, <1>3 DEF PosInv, DisksOK, disk_vars
  <2> QED BY <1>2, <1>3, <2>1, IdleKeeps DEF disk_vars
<1>4. ~ ScanOver /\ pc = "idle"
  <2>1. ~ ScanOver
    BY <1>1 DEF Scan, Check, LookAtChannel, Identify, IdentifyFails, Identified, NextChannel, Probed,
                ProbeInv, In
  <2> QED BY <1>1, <2>1 DEF PosInv
<1>5. CASE Check \/ LookAtChannel \/ IdentifyFails \/ NextChannel \/ Probed
  BY <1>3, <1>4, <1>5 DEF Check, LookAtChannel, IdentifyFails, NextChannel, Probed
<1>6. CASE Identify
  <2>1. /\ sel' = [sel EXCEPT ![Behind[1]] = Behind[2]] /\ Command(Behind, "identify", 0, 1)
        /\ disks' = disks /\ medium' = medium /\ probe.dr < 2
    BY <1>6 DEF Identify
  <2>2. Behind[2] \in {0, 1}
    BY <1>1, <2>1 DEF Behind, ProbeInv, Probe
  <2>3. sel' \in [Port -> {0, 1}]
    BY <1>2, <2>1, <2>2
  <2>4. drive' \in [disks -> DriveState] /\ DisksOK'
    <3>1. CASE Behind \in disks
      BY <1>1, <2>1, <3>1, CommandKeeps
    <3>2. CASE Behind \notin disks
      BY <1>1, <1>2, <2>1, <3>2 DEF Command, Listens, DisksOK
    <3> QED BY <3>1, <3>2
  <2> QED BY <1>4, <2>1, <2>3, <2>4, IdleKeeps
<1>7. CASE Identified
  <2> DEFINE d == Behind
  <2>1. /\ In("poll") /\ Status(Behind[1]) = "drq" /\ DataIn(Selected(Behind[1]))
        /\ UNCHANGED <<disks, sel, medium>>
    BY <1>7 DEF Identified
  <2>2. d \in disks /\ Selected(Behind[1]) = d
    BY <2>1, Polling
  <2>3. drive[d].phase = "drq" /\ drive[d] \in DriveState
    BY <1>2, <2>1, <2>2 DEF Status
  <2>4. drive[d].data = Junk /\ drive[d].left >= 1 /\ drive[d].left \in Nat
    BY <1>1, <2>2, <2>3 DEF DisksOK, DriveState
  <2> HIDE DEF d
  <2> DEFINE x == [drive[d] EXCEPT !.lba = @ + 1, !.left = @ - 1,
                                   !.phase = IF drive[d].left > 1 THEN "busy" ELSE "ready"]
  <2>5. drive' = drive \/ drive' = [drive EXCEPT ![d] = x]
    BY <2>1, <2>2 DEF DataIn
  <2>6. /\ x \in DriveState /\ x.data = Junk /\ x.phase # "drq"
        /\ x.phase = "busy" => x.left >= 1
    <3> DEFINE y == drive[d]
               ph == IF drive[d].left > 1 THEN "busy" ELSE "ready"
    <3>1. /\ y \in DriveState /\ y.lba + 1 \in Nat /\ y.left - 1 \in Nat /\ ph \in {"busy", "ready"}
          /\ ph = "busy" => y.left - 1 >= 1
      BY <2>3, <2>4 DEF DriveState
    <3>2. x = [y EXCEPT !.lba = y.lba + 1, !.left = y.left - 1, !.phase = ph]
      OBVIOUS
    <3> HIDE DEF x, y, ph
    <3>3. /\ x \in DriveState /\ x.data = y.data /\ x.phase = ph /\ x.left = y.left - 1
      BY <3>1, <3>2 DEF DriveState
    <3> QED BY <2>4, <3>1, <3>3 DEF y
  <2> HIDE DEF x
  <2>7. drive' \in [disks -> DriveState] /\ DisksOK'
    <3>1. CASE drive' = drive
      BY <1>1, <1>2, <2>1, <3>1 DEF DisksOK
    <3>2. CASE drive' = [drive EXCEPT ![d] = x]
      BY <1>1, <2>1, <2>2, <2>6, <3>2, DriveStep
    <3> QED BY <2>5, <3>1, <3>2
  <2>8. sel' \in [Port -> {0, 1}]
    BY <1>2, <2>1
  <2> QED BY <1>4, <2>1, <2>7, <2>8, IdleKeeps
<1> QED BY <1>5, <1>6, <1>7 DEF Scan

LEMMA DevicesStep == ASSUME IInv, ScanInv, [Next]_dev_vars PROVE IInv'
<1>1. ASSUME Scan, UNCHANGED io_vars PROVE IInv'
  BY <1>1, ScanKeeps
<1>2. ASSUME Driver PROVE IInv'
  BY <1>2, StepOK DEF AtaNext
<1>3. ASSUME NEW i \in 0 .. dev_count - 1, NEW c \in Calls, Call(i, c) PROVE IInv'
  <2>1. ScanOver /\ Begin(DiskOf(blkdev(i)), c) /\ UNCHANGED disk_vars
    BY <1>3 DEF Call
  <2>2. DisksFound
    BY DisksKnown
  <2>3. blkdev(i) \in Known
    BY DEF Known
  <2>4. DiskOf(blkdev(i)) \in disks
    BY <2>1, <2>2, <2>3 DEF DisksFound
  <2> QED BY <2>1, <2>4, BeginOK
<1>4. ASSUME Works, UNCHANGED io_vars PROVE IInv'
  BY <1>4, StepOK DEF AtaNext
<1>5. ASSUME UNCHANGED dev_vars PROVE IInv'
  BY <1>5, StepOK DEF dev_vars, ata_vars
<1> QED BY <1>1, <1>2, <1>3, <1>4, <1>5 DEF Next, Step

\* Reads and writes of block devices do what ata_read and ata_write promise, on
\* the disk the device stands for: the scan leaves no disk in a state in which
\* they would not, and no number of a device leads anywhere else.
THEOREM DevicesReadAndWrite == Spec => [](ReadIsOfRequest /\ WriteIsStored)
<1>1. Init => IInv
  BY DevicesInit
<1>2. IInv /\ ScanInv /\ [Next]_dev_vars => IInv'
  BY DevicesStep
<1>3. IInv => ReadIsOfRequest /\ WriteIsStored
  BY ReadFollows, WriteFollows
<1> QED BY <1>1, <1>2, <1>3, ScanInvariant, PTL DEF Spec
=============================================================================
