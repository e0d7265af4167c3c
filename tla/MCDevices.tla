----------------------------- MODULE MCDevices ------------------------------
(* Model-checking instance of Devices: two buses of two slots, cards of up  *)
(* to three functions, disks of five sectors.  The sector count register    *)
(* holds two values and an address four, so both overflow.                  *)
EXTENDS Devices, TLC

MCPort == {496, 368, 49152}

NoBars == [i \in 0 .. 5 |-> 0]
Header(class, sub, type, nat, bars) ==
    [vid |-> 32902, did |-> 1, class_code |-> class, subclass |-> sub, htype |-> type,
     native |-> nat, bar |-> bars]

Host   == Header(6, 0, 0, FALSE, NoBars)
Isa    == Header(6, 1, 0, FALSE, NoBars)
Bridge == Header(6, 4, 1, FALSE, NoBars)
Socket == Header(6, 7, 2, FALSE, NoBars)
Piix   == Header(1, 1, 0, FALSE, NoBars)
\* A card in native mode: a port, and a second channel without one.
Native == Header(1, 1, 0, TRUE, [NoBars EXCEPT ![0] = 49153])
\* Memory in the place of ports, and ports nobody answers at.
Odd    == Header(1, 1, 0, TRUE, [NoBars EXCEPT ![0] = 8192, ![2] = 50177])

Single(h)   == [multi |-> FALSE, head |-> (0 :> h)]
Multi(h, n, g) == [multi |-> TRUE, head |-> (0 :> h @@ n :> g)]

\* The usual one, one with two controllers more, one without a disk.
Pc == [fn |-> (<<0, 0>> :> Single(Host) @@ <<0, 1>> :> Multi(Isa, 2, Piix)),
       disks |-> {<<496, 0>>, <<368, 1>>}]
Server == [fn |-> (<<0, 0>> :> Multi(Host, 1, Odd) @@ <<0, 1>> :> Single(Native) @@
                   <<1, 0>> :> Multi(Bridge, 2, Socket) @@ <<1, 1>> :> Single(Piix)),
           disks |-> {<<49152, 1>>, <<496, 0>>, <<496, 1>>}]
Bare == [fn |-> (<<0, 0>> :> Single(Host) @@ <<0, 1>> :> Single(Native)), disks |-> {}]

MCMachines == {Pc, Server, Bare}

MCData == 0 .. 13
Read(l, n)  == [op |-> "read", lba |-> l, count |-> n, buf |-> <<>>]
Write(l, n) == [op |-> "write", lba |-> l, count |-> n, buf |-> [k \in 1 .. n |-> 10 + k]]

\* Up to the limits of the count register, the address and the disk.
MCCalls == {Read(0, 2), Read(1, 3), Read(3, 1), Read(3, 2), Read(0, 0), Read(0, 6),
            Write(0, 2), Write(2, 1), Write(1, 3)}
=============================================================================
