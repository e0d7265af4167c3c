------------------------------ MODULE Devices -------------------------------
(***************************************************************************)
(* From the PCI bus to the sectors of a disk: pci_enumerate (drivers/pci.c)*)
(* publishes the functions it finds, device_publish (drivers/drivers.c)    *)
(* hands them to the driver whose table matches, ata_probe (drivers/ata.c) *)
(* looks for disks behind the channels and registers each as a block device*)
(* (block/block.c) in a list (lib/list/dllist.c).  Later a call for a block*)
(* device finds its way back to the disk by the number the probe gave it.  *)
(*                                                                         *)
(* All this is thread 0 in kmain, and later thread 1: one thing at a time. *)
(* The disks work on at every point, under ata_identify as under the calls.*)
(* Allocations succeed (module KHeap).                                     *)
(***************************************************************************)
EXTENDS Ata, FiniteSets

CONSTANTS Machines,           \* what may be on the bus, and which disks there are
          Buses, Devs, Funcs, \* 256, 32 and 8
          MaxCalls            \* bound: calls for block devices

VARIABLES machine,
          at,               \* the position of the scan: bus, device, function
          probe,            \* where ata_probe is
          num_controllers,
          nodes,            \* the elements of the lists; 0 is the null pointer
          missed,           \* the disks that did not answer IDENTIFY in time
          calls

scan_vars == <<machine, at, probe, num_controllers, nodes, missed>>
dev_vars  == <<disk_vars, io_vars, scan_vars, calls>>

-----------------------------------------------------------------------------
(* lib/list/dllist.c.  The root of a list is an element without data.      *)

devices     == 1
controllers == 2

NewElement(data, ptr) == [data |-> data, next |-> 0, prev |-> ptr]

LastOf(heap, list) ==
    LET end[p \in DOMAIN heap] == IF heap[p].next = 0 THEN p ELSE end[heap[p].next]
    IN  end[list]

dllist_append(heap, list, data) ==
    LET ptr == LastOf(heap, list)
    IN  Append([heap EXCEPT ![ptr].next = Len(heap) + 1], NewElement(data, ptr))

\* The element at idx, or 0: the walk starts at the root, so it is one longer.
dllist_get(heap, list, idx) ==
    LET ptr[cur \in 0 .. idx + 1] ==
            IF cur = 0 THEN list ELSE IF ptr[cur-1] = 0 THEN 0 ELSE heap[ptr[cur-1]].next
    IN  ptr[idx + 1]

-----------------------------------------------------------------------------
(* drivers/pci.c: the configuration space and the scan.                    *)

\* A device with one function may answer for all of them alike.
Card == machine.fn[<<at[1], at[2]>>]
Hdr == IF Card.multi THEN Card.head[at[3]] ELSE Card.head[0]
Present == <<at[1], at[2]>> \in DOMAIN machine.fn
Answers == Present /\ (Card.multi => at[3] \in DOMAIN Card.head)

\* Mutant: every device is asked for all of its functions.
After_all(pos) ==
    IF pos[3] + 1 < Funcs THEN <<pos[1], pos[2], pos[3] + 1>>
    ELSE IF pos[2] + 1 < Devs THEN <<pos[1], pos[2] + 1, 0>> ELSE <<pos[1] + 1, 0, 0>>

\* Functions other than 0 are looked at only where function 0 says so.
After(pos) ==
    IF pos[3] + 1 < Funcs /\ Present /\ Card.multi THEN <<pos[1], pos[2], pos[3] + 1>>
    ELSE IF pos[2] + 1 < Devs THEN <<pos[1], pos[2] + 1, 0>> ELSE <<pos[1] + 1, 0, 0>>

ScanOver == at[1] = Buses

\* The address in a base address register.  Bit 0 is set for ports.  Of the
\* memory types only 0 is decoded: bar & 6 is never 1, and 2 is not in use.
Decoded(bar) == IF bar % 2 = 1 THEN bar - (bar % 4)
                ELSE IF (bar \div 2) % 4 = 0 THEN bar - (bar % 16) ELSE bar

\* Bridges (type 1) are not published, nor are others: pci_get_data returns null
\* for them, and what is then read in its place leads nowhere.
Publishes == Answers /\ Hdr.htype = 0

-----------------------------------------------------------------------------
(* drivers/drivers.c.  The driver of ata.c is the only one that registers. *)

Wild == 65535

ata_driver == [name |-> "ata",
               id_table |-> <<[vid |-> Wild, did |-> Wild, class_code |-> 1, subclass |-> 1]>>]
drivers == <<ata_driver>>

Matches(id, dev) == \A field \in {"vid", "did", "class_code", "subclass"} :
                        id[field] \in {Wild, dev[field]}

device_publish(dev) == \E i \in DOMAIN drivers :
                          \E j \in DOMAIN drivers[i].id_table : Matches(drivers[i].id_table[j], dev)

-----------------------------------------------------------------------------
(* ata_probe, cut where it waits for a disk.                               *)

NoProbe  == [stage |-> "none", base |-> <<0, 0>>, ch |-> 0, dr |-> 0]
Probing  == [NoProbe EXCEPT !.stage = "channel"]
In(st)   == probe.stage = st
Channel(ch) == [probe EXCEPT !.stage = "channel", !.ch = ch, !.dr = 0]
Drive(dr)   == [probe EXCEPT !.stage = "identify", !.dr = dr]

\* pci_check_function at the next position, up to the loop of ata_probe.
Check == /\ In("none") /\ ~ ScanOver
         /\ IF Publishes /\ device_publish(Hdr)
            THEN /\ probe' = Probing
                 /\ num_controllers' = num_controllers + 1
                 /\ UNCHANGED at
            ELSE /\ at' = After(at)
                 /\ UNCHANGED <<probe, num_controllers>>
         /\ UNCHANGED <<machine, nodes, missed, disk_vars>>

Bar(hdr, ch)   == Decoded(hdr.bar[ch * 2])
Port0(hdr, ch) == IF hdr.native THEN Bar(hdr, ch) % 65536 ELSE IF ch = 0 THEN 496 ELSE 368

\* A channel without a port is left out, and one whose status reads 0xFF.
LookAtChannel ==
    /\ In("channel") /\ probe.ch < 2
    /\ probe' = IF (Hdr.native /\ Bar(Hdr, probe.ch) = 0) \/ Port0(Hdr, probe.ch) \notin Port
                THEN Channel(probe.ch + 1)
                ELSE [Drive(0) EXCEPT !.base[probe.ch + 1] = Port0(Hdr, probe.ch)]
    /\ UNCHANGED <<machine, at, num_controllers, nodes, missed, disk_vars>>

Behind == <<probe.base[probe.ch + 1], probe.dr>>

\* ata_identify: the command is given to whatever is there.
Identify == /\ In("identify") /\ probe.dr < 2
            /\ sel' = [sel EXCEPT ![Behind[1]] = Behind[2]]
            /\ Command(Behind, "identify", 0, 1)
            /\ probe' = IF Behind \in disks THEN [probe EXCEPT !.stage = "poll"]
                        ELSE Drive(probe.dr + 1)
            /\ UNCHANGED <<machine, at, num_controllers, nodes, missed, disks, medium>>

\* An error, or the timeout of ata_poll: the drive is passed over.
IdentifyFails == /\ In("poll") /\ Status(Behind[1]) # "drq"
                 /\ probe' = Drive(probe.dr + 1)
                 /\ missed' = missed \cup {Behind}
                 /\ UNCHANGED <<machine, at, num_controllers, nodes, disk_vars>>

\* The number of a disk: its controller, its channel, master or slave.
Id(ctrl, ch, dr) == ctrl * 4 + ch * 2 + dr

\* The identity is read and the disk registered (add_blkdev).  `truth' is the
\* disk that answered; the code does not know it.
Identified ==
    /\ In("poll") /\ Status(Behind[1]) = "drq"
    /\ DataIn(Selected(Behind[1]))
    /\ nodes' = dllist_append(nodes, devices,
                    [id |-> Id(num_controllers - 1, probe.ch, probe.dr), truth |-> Selected(Behind[1])])
    /\ probe' = Drive(probe.dr + 1)
    /\ UNCHANGED <<machine, at, num_controllers, missed, disks, sel, medium>>

NextChannel == /\ In("identify") /\ probe.dr = 2
               /\ probe' = Channel(probe.ch + 1)
               /\ UNCHANGED <<machine, at, num_controllers, nodes, missed, disk_vars>>

\* Mutant: a controller without disks is not kept.
Probed_dropped ==
    /\ In("channel") /\ probe.ch = 2
    /\ nodes' = IF \E d \in disks : d[1] \in {probe.base[1], probe.base[2]}
                THEN dllist_append(nodes, controllers, [base |-> probe.base]) ELSE nodes
    /\ probe' = NoProbe
    /\ at' = After(at)
    /\ UNCHANGED <<machine, num_controllers, missed, disk_vars>>

\* The end of ata_probe; the scan goes on.
Probed == /\ In("channel") /\ probe.ch = 2
          /\ nodes' = dllist_append(nodes, controllers, [base |-> probe.base])
          /\ probe' = NoProbe
          /\ at' = After(at)
          /\ UNCHANGED <<machine, num_controllers, missed, disk_vars>>

Scan == Check \/ LookAtChannel \/ Identify \/ IdentifyFails \/ Identified \/ NextChannel \/ Probed

-----------------------------------------------------------------------------
(* Calls for the i-th block device, and the whole.                         *)

dev_count == Cardinality({k \in DOMAIN nodes : k > 2 /\ "id" \in DOMAIN nodes[k].data})
blkdev(i) == nodes[dllist_get(nodes, devices, i)].data

\* How ata_read and ata_write find the disk.
\* (Without a controller they read through a null pointer, which leads nowhere.)
DiskOf(dev) ==
    LET ptr == dllist_get(nodes, controllers, dev.id \div 4)
    IN  <<IF ptr = 0 THEN 0 ELSE nodes[ptr].data.base[((dev.id \div 2) % 2) + 1], dev.id % 2>>

Call(i, c) == /\ ScanOver /\ calls < MaxCalls
              /\ Begin(DiskOf(blkdev(i)), c)
              /\ calls' = calls + 1
              /\ UNCHANGED <<scan_vars, disk_vars>>

Init == /\ AtaInit
        /\ machine \in Machines
        /\ disks = machine.disks
        /\ sel = [p \in Port |-> 0]
        /\ drive = [d \in disks |-> Idle]
        /\ medium = [d \in disks |-> [k \in 0 .. Sectors-1 |-> k]]
        /\ at = <<0, 0, 0>> /\ probe = NoProbe /\ num_controllers = 0
        /\ nodes = <<NewElement([root |-> 1], 0), NewElement([root |-> 2], 0)>>
        /\ missed = {} /\ calls = 0

Step == \/ Scan /\ UNCHANGED <<io_vars, calls>>
        \/ Driver /\ UNCHANGED <<scan_vars, calls>>

Next == \/ Step
        \/ \E i \in 0 .. dev_count - 1, c \in Calls : Call(i, c)
        \/ Works /\ UNCHANGED <<io_vars, scan_vars, calls>>

\* The hardware: which functions there are, and the channels of IDE controllers
\* among them.  A card has function 0, and says when it has others.  A disk is
\* behind one channel.
Functions(m) == {f \in (0 .. Buses-1) \X (0 .. Devs-1) \X (0 .. Funcs-1) :
                    <<f[1], f[2]>> \in DOMAIN m.fn /\ f[3] \in DOMAIN m.fn[<<f[1], f[2]>>].head}
HdrOf(m, f)  == m.fn[<<f[1], f[2]>>].head[f[3]]
Channels(m)  == {c \in Functions(m) \X {0, 1} :
                    LET hdr == HdrOf(m, c[1])
                    IN  /\ hdr.htype = 0 /\ hdr.class_code = 1 /\ hdr.subclass = 1
                        /\ ~ (hdr.native /\ Bar(hdr, c[2]) = 0)}
PortOf(m, c) == Port0(HdrOf(m, c[1]), c[2])

ASSUME MachineAssumption ==
    /\ Buses \in Nat \ {0} /\ Devs \in Nat \ {0} /\ Funcs \in Nat \ {0}
    /\ 0 .. Sectors-1 \subseteq Data
    /\ \A m \in Machines :
           /\ \A k \in DOMAIN m.fn : /\ 0 \in DOMAIN m.fn[k].head
                                     /\ ~ m.fn[k].multi => DOMAIN m.fn[k].head = {0}
           /\ m.disks \subseteq Slot
           /\ \A d \in m.disks : \E c \in Channels(m) :
                 \A e \in Channels(m) : PortOf(m, e) = d[1] <=> e = c

Spec     == Init /\ [][Next]_dev_vars
\* The scan and the driver are code that runs; a disk may never be done.
FairSpec == Spec /\ WF_dev_vars(Step)

-----------------------------------------------------------------------------
(* Properties.                                                             *)

Known == {blkdev(i) : i \in 0 .. dev_count - 1}

\* When the scan is over every disk of the machine has been registered, once,
\* unless it did not answer, whichever cards, bridges and functions there are.
\* And the number of a block device leads to the disk that answered when it was
\* registered, whichever controllers, channels and drives are missing.
DisksFound == ScanOver => /\ {dev.truth : dev \in Known} = disks \ missed
                          /\ dev_count = Cardinality(disks \ missed)
                          /\ \A dev \in Known : DiskOf(dev) = dev.truth

\* The scan comes to its end and every call returns, whatever the disks do and
\* though a disk may be busy for ever.
NothingHangs == <> ScanOver /\ CallsReturn
=============================================================================
