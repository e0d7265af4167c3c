# A verification development for osdev3

osdev3 is a small kernel for the i386. This directory holds TLA+ modules
translated from its source, the TLC configurations that check them on small
instances, and proofs, checked by TLAPS, of the properties that should hold for
every size of the tables and buffers involved.

## 1. Inventory of the system

The kernel runs on one processor. Three kinds of code interleave:

* **threads**, entered by `kthread_schedule` from the timer interrupt and
  preempted by it at any instruction while interrupts are enabled;
* **interrupt handlers** (`isr_stub` does `cli`, `exception_handler` dispatches
  to `ps2_irq`, `serial_irq`), which run to completion with interrupts disabled;
* **system calls** (`int 0x80`), which share the path of the interrupts.

`lock()` and `unlock()` are `cli` and `sti`; they do not nest.

| component | state it keeps | operations | what makes it hard | what makes it correct |
|---|---|---|---|---|
| ring buffer, `lib/ringbuffer` | `head`, `tail`, storage | `rb_put`, `rb_get` | wrap-around; full against empty | it is a bounded FIFO |
| event queue, `kernel/kevent.c` | ring `kinput_rb`, consumer table, `con_idx` | `kinput` (handlers), `kevent_proc` (thread 1), `kevent_register` (thread 0) | the handlers interrupt `rb_get`; registration races with dispatch | no torn event, FIFO order, every accepted event reaches every registered consumer |
| threads, `kernel/kthread.c`, `arch/x86/kthread.S`, `kt_ctx.c` | thread table, `c_thread`, stacks, interrupt flag, TSS `esp0` | `kthread_create`, `kthread_schedule`, `kthread_join`, `kthread_ret` | preemption, a finished thread still on its stack, slot reuse, error returns under `lock()` | stacks are exclusive and reaped once, nobody runs on a freed stack, every running thread is scheduled |
| heap, `kernel/kmalloc.c` | two chains of boundary-tagged blocks | `kmalloc`, `kfree` | splitting, merging on both sides, no lock | blocks tile the heap, live allocations are disjoint, user and kernel memory stay apart |
| serial port, `drivers/serial.c` | transmit ring, UART | `serial_putc` (threads, handlers), `serial_irq` | both sides of the ring are used by thread and handler; busy waiting; one cause served per interrupt, the receiver first, on an edge-triggered line | bytes leave in order, nobody waits for ever |
| keyboard, `drivers/ps2.c` | `ext`, `shift`, `caps` | `ps2_irq` | state machine over scan codes | modifiers follow the keys, the keyboard stays usable |
| paging, `arch/x86/mm.c` | page directory and tables, page bitmap | `_mm_init`, `alloc_page`, `map_page`, `page_fault` | demand mapping, exhaustion | no frame is mapped twice |
| shell, `kernel/kshell.c` | line, cursor, history | `kconsumer_shell`, `kconsumer_arrows`, `hist_newline`, `hist_move` | escape sequences across events, history while editing | the line stays terminated inside its buffer, Enter alone changes the history, its strings are freed once |
| interrupts, `arch/x86/interrupts.c`, `drivers/pic.c`, `drivers/pit.c` | IDT, PIC masks | `exception_handler`, `isr_init` | they come at any instruction | modelled inside the components whose handlers it calls |
| system calls, `kernel/kcall.c` | | `kcall_proc` | runs with interrupts disabled | a call touches user memory only |
| disk, `drivers/ata.c` | registers of the channels, the two drives of each, what they are at | `ata_read`, `ata_write`, `ata_probe`, `ata_identify` | busy waiting, time-outs, a command that goes on after its time-out, an 8-bit count and a 28-bit address, errors after the last sector | what is read or written is the sectors asked for, or an error is returned; every call returns |
| block layer, `block/block.c`, `lib/list/dllist.c` | lists of controllers and devices | register, look up | the number of a disk and the list it is looked up in are kept by different code | the number of a block device leads to the disk that answered |
| file system, `fs/ext2.c` | super block, descriptors, open files | `ext2_init`, look up, read, open, stat, close; the shell's commands | tables of three levels, holes, deleted entries, sectors that fail at any point, many ways out with blocks to free | the file found is the one named, what is read is what it holds, what is taken is freed |
| driver registry and PCI, `drivers/drivers.c`, `drivers/pci.c` | driver table, position of the scan | register, publish, enumerate | bridges, gaps, cards that answer for all functions alike, missing channels and drives | every disk that answers is registered once |
| screen, `drivers/vga.c`, `kernel/klog.c`, `lib/stdio` | cursor, colours | `vga_putc`, `kprintf` | shared static state | output only |
| boot, `boot/`, `kernel/kernel.c`, `include/kernel/initcall.h` | | initcall levels, `kmain` | order of initialisation, interrupts from the first call on | nothing is used before it is ready |

How they interact: `ps2_irq` and `serial_irq` call `kinput`, which fills the
ring of the event queue; `kevent_proc`, thread 1, empties it and calls the
consumers that `kshell_init`, on thread 0, registers; the shell prints through
`serial_putc`, whose ring `serial_irq` empties, and takes and frees memory.
The timer interrupt calls `kthread_schedule`, which may free memory too. Every
first access to a page of a heap goes through `page_fault`. `kmain` scans the
bus; `pci_check_function` publishes a function, the driver of `ata.c` probes it
and registers its disks as block devices. The shell's commands look files up
with `ext2.c`, which reads sectors through `block.c` from `ata_read`.

## 2. Modules

| module | models | state | actions |
|---|---|---|---|
| `RingBuffer` | `lib/ringbuffer/ringbuffer.c` | a record `head`, `tail`, `size`, `data` | operators only: each assignment of `rb_put` and `rb_get` has its own, so that users can run them in pieces |
| `EventService` | what the input path promises | bounded queue, event in work, subscribers, those called | `Offer`, `Take`, `Call`, `Finish`, `Subscribe` |
| `KEvent` | `kernel/kevent.c` and the handlers that feed it | ring, consumer table, positions of `kevent_proc` and `kevent_register` | handlers are one step; `rb_get` is four (test, two halves of the copy, advance); a turn of the dispatch loop is one; registration is three |
| `KThread` | `kernel/kthread.c`, `arch/x86/kthread.S`, `kt_ctx.c`, exit of `kcall.c` | thread table, current thread, saved frames, TSS entry stack, interrupt flag, allocated stacks | `kthread_create` with its error return, `kthread_ret`, `kthread_join` in three steps, `ThreadReturns`, `timer` |
| `Allocator` | what the heap promises | set of allocations | `Alloc`, `Free` |
| `KHeap` | `kernel/kmalloc.c` | the tags in memory, `heap_ptr`, the call that walks | `Malloc`, one `Walk` per turn of the loop, `Take` (with the split), `Grow`, `kfree` (with both merges) |
| `Serial` | `drivers/serial.c` with its UART and the latch of the PIC | ring, both FIFOs of the UART and its causes (`thre`, received bytes, time-out), the edge the PIC has seen (`pic`), interrupt flag, position of `serial_putc` | one step per access of `serial_putc` to shared state; `com1_irq`, which serves one cause: a received byte, else an empty transmitter, else none; the UART (`Transmit`, `Arrive`, `RxTimeout`), `pic_remap`, `lock`, `unlock` |
| `Paging` | `arch/x86/mm.c`, `__kmem_is_user` | bitmap of frames, directory, tables, flags | `page_fault` with every return of `map_page` and `alloc_page` |
| `Boot` | `kernel/kernel.c`, order of the initcalls | the call of `kmain` in progress, what is ready, current thread, queue | `Begin`, `End` of a call, `Dispatch`, `CallbackDone`, `Timer`, `Key` |
| `KShell` | line editor and history of `kernel/kshell.c` | line, cursor, saved input, entries and the blocks they own, escape state; what the user typed last (`live`, `typed`, `recalled`, `stale`) | `Plain` (Enter, Backspace, Insert), `Escape`, `Sequence`, `kconsumer_arrows` |
| `Ps2` | `drivers/ps2.c` | `ext`, `shift`, `caps`, the keyboard's queue and keys | `Press`, `Release`, `Extended`, `ps2_irq` |
| `AtaDisk` | the disks of a channel (hardware, external) | what each drive is at, its medium, the drive selected | operators for the registers; `Fails`, `GetsReady`, `Stores`, `Flushed` |
| `Ata` | `ata_read` and `ata_write` | the call, its loop variable, buffer and result | `Begin`, one step for each wait, sector and command, each with its time-out or error |
| `Devices` | `drivers/pci.c`, `drivers/drivers.c`, `ata_probe`, `block/block.c`, `lib/list/dllist.c`, over `Ata` | position of the scan, the probe, the elements of the lists | `Check`, the steps of `ata_probe` and `ata_identify`, `Call` |
| `Ext2Volume` | what an ext2 volume is (a format, external): where its structures lie, and when it is sound | | operators for inodes, tables, directories; `VolumeOK` |
| `Ext2` | `fs/ext2.c`, `lib/string/strtok.c`, the commands of `kshell_proc` | the mount, the walk, the open files, the blocks taken | `ext2_init`, a step per component of a path, open, read, stat, close, the rest of a command |

The proofs are in eight modules: `RingBufferProofs` (`RingBuffer`, `KEvent`,
`Serial`), `KThreadProofs`, `KHeapProofs` (`KHeap`, `Boot`), `PagingProofs`,
`KShellProofs` (`KShell`, `Ps2`), `AtaProofs` (`Ata`, `Devices`), `Ext2Reading`
(lemmas) and `Ext2Proofs`. A module that proves about two components extends
both, so the names of the smaller one carry its name (`SerialInit`, `BootNext`,
`Ps2Spec`).

Five modules join components: `KEvent` has the handlers, the ring, the
dispatcher and registration; `Paging` has the fault path of `interrupts.c`,
`mm.c` and the memory map of `kmalloc.c`; `Boot` runs `kmain` against timer,
keyboard and thread 1, and is where the assumption of `KHeap`, that calls of
the heap do not overlap, is discharged (`HeapExclusive`); `Devices` runs the
scan, the registry, the lists and the driver against disks that work on under
all of them; `Ext2` has the file system and its only user, the shell's
commands.

What the models leave out within these components: wording and colours of
output, payloads of events beyond a name, contents of memory beyond tags and
page tables, addresses of code. In `Ata` a sector is a value and the sectors
are of 512 bytes. In `Ext2` a volume is an array of cells of one size: a
structure of the file system, a pointer, a directory entry or a piece of a file
is one cell, and sizes count cells; names are strings that are compared and not
taken apart; which sectors fail is chosen anew in each step from `Faults`. Permissions,
times and the formatting of a mode are left out; so are `lookup_inode` and `get_fp`, which nothing calls, and the error returns of
allocations, for `kmalloc` never returns null. An operator whose comment begins with
"Mutant" is a broken variant of the definition that follows it; the properties
of the runs are tested against them.

## 3. Runs

| run | instance and bounds | what it shows |
|---|---|---|
| `kevent` | ring of three slots, two consumers, one key and one character | `NoTornEvent`: the copy that `rb_get` makes with interrupts enabled is never overwritten; `RefinesEventService`; `AcceptedIsDispatched` |
| `kthread` | three slots, four stacks, four creations, returns allowed | stacks are exclusive, nobody runs on a freed stack, the TSS names the live kernel stack, join is faithful, round robin; running threads are scheduled and finished ones reaped, unless interrupts were left disabled |
| `kthread_return` | the same, three creations | finding 1 |
| `kheap` | two heaps of 20 and 10 words, requests of 5, 8 and 20 bytes, blocks of more than 7 words left unmerged | the blocks tile the heaps, free blocks come to meet at a new place only when one of them is too large (`FreeMemoryMerges`), the heap grows only if no free block fits, `ImplementsAllocator` |
| `serial` | ring for three bytes, transmit FIFO of two, receive FIFO of three that asks for service at two, six bytes put, any number received | order up to the one race (`raced`); a caller with interrupts enabled gets room, and every byte leaves, unless interrupts stay disabled or the line stays high behind an edge that has been used up (`Deaf`) |
| `serial_locked` | the same, nothing received | finding 2 |
| `boot` | queue of three events | nothing is used early but the queue by an early key, the heap is entered by one thread at a time, `kmain` ends unless a call of it stays in `kprintf` (`Printing`) |
| `paging` | tables of two entries, six directory entries, eight frames | no aliasing, tables out of reach, users confined to their heap, their pages usable, no frame lost, mappings stay |
| `kshell` | lines of two characters of three kinds, NUL one of them, history of two | the cursor is behind all that was typed, and the line is that up to a NUL; entries own their blocks; Enter alone changes the history and stores an empty line only if it began with a NUL; going up saves the input unless `histptr` was left over (`stale`) |
| `ps2` | a letter, a digit, both shift keys, caps lock, an arrow; four codes waiting | a character that is no letter has its other form if all shift keys were held when its code was sent, its own if none was; nothing is said of one shift key held, or after an extended key |
| `disk` | three machines, two buses of two slots, cards of up to three functions, disks of five sectors; a count register of two values, addresses of four; two calls | every disk that answers is registered once and found again, calls that succeed did what was asked unless a command or an error was lost (`lost`), the scan ends and every call returns |
| `ext2` | five volumes, two direct blocks, blocks of two or four cells, offsets that wrap around at 70, three calls, one sector that fails in each step | the file found is the one named, what is read or shown is what it holds, a call frees what it takes, null pointers are followed only without a mount, to create a file, when an inode cannot be read, or after a file in the middle of a path (`ThroughFile`) or a byte offset that wrapped around (`Within`), which also except `FoundIsFile` and `ShownIsFile` |

Why these bounds are enough: a ring of three slots wraps around, fills and is
emptied; with four creations for two free slots, slots and stacks are used
again while a thread that finished waits to be reaped and another joins it; the heap
holds up to four of the smallest blocks, so that a block can be freed between
two that are in use, two that are free, or one of each, and requests of 20 bytes
take whole and split blocks, and two blocks that were merged are too large to be
merged with a third; three bytes fill the serial ring and six wrap it, and
received bytes can come before, with and after each interrupt of the transmitter;
in `paging` the frames run out with and without a table to be made; a history
of two evicts. In `disk` a machine has two controllers of which the first has
no disk, a channel with a master, a slave or none, a card in native mode with
a channel left out, bridges of both kinds, slots and functions left empty; five
sectors are more than the count register and the address can say, and with two
calls the second meets what the first left in the disk. In `ext2` one file
uses every direct block and the tables of all three levels to their last entry,
with holes behind tables, and another has a direct block that is a hole; the root directory has three blocks, a deleted entry
and a gap; the volumes have one group and three, blocks of both sizes, another
magic number, more blocks than offsets can say, or do not exist. The theorems of section 5 remove the bounds for the properties
they name.

`CHECK_DEADLOCK FALSE` is set where the system may stop: a halted processor
(`KThread`, `Boot`, `Paging`), a full heap (`KHeap`, where the bound stops the
model), all bytes sent or a caller that is stuck (`Serial`), all calls made
(`Devices`, `Ext2`, where a null pointer that is followed ends the run too).

## 4. Fairness

* `KEvent`: weak fairness of `kevent_proc`, a thread that never blocks and that
  round robin gives the processor again and again. Nothing is assumed of the
  interrupts or of registration.
* `KThread`: weak fairness of the timer, which the PIT drives. Nothing is
  assumed of what threads do: `DoneIsReaped` holds although threads may spin.
* `Serial`: weak fairness of the steps of `serial_putc` and of the UART that sends;
  strong fairness of `com1_irq`: the processor takes an interrupt that the PIC
  has latched once interrupts are enabled, and a caller may enable and disable
  them in turn. It is enabled by an edge and nothing else: a cause behind which
  the line never falls is not latched, and the two liveness properties except
  the runs in which it stays so (`[]<>~ Deaf`). That anything is received, that a
  caller unlocks or calls again is not assumed.
* `Boot`: strong fairness of the timer and of the steps of both threads. Each is
  enabled only while it has the processor and interrupts allow; a time slice
  is much longer than a step. Of the end of a call that prints, once there is a
  driver to print with, nothing is assumed: `serial_putc` may not return
  (finding 2, and the deaf line of section 6), and `BootFinishes` names the case.
* `Devices`: weak fairness of `Step`, the scan and the driver, which are code
  that runs. Nothing is assumed of the disks: `NothingHangs` holds although one
  may be busy for ever, for every wait ends with a time-out.
* `KHeap`, `Paging`, `KShell`, `Ps2`, `Ext2`: safety only.

`KEvent`, `KThread` and `Devices` take for granted that what they print leaves;
`Serial` says when it does not.

## 5. Proofs

All theorems hold for every value of the constants that satisfies the ASSUMEs
of the module: sizes are natural numbers, at least 1 where the code needs it;
the layout of memory has the user heap below the kernel; the names of stacks
differ from `Boot` and `NoStack`; scan codes of keys are below 128
(`KeyAssumption`); a machine has a function 0 in every slot that is in use, and
each of its disks is behind one channel (`MachineAssumption`); a volume whose
magic number is that of ext2 is sound (`VolumesAssumption`), and a path or a line
is called by the names that stand in it (`CallsAssumption`).

* `RingBufferProofs`: lemmas about the ring as a sequence. `PutLemma`: `rb_put`
  on a ring that is not full appends; `GetLemma`: advancing the tail removes the
  head. Everything about the queue and the serial port rests on them.
  * `KEvent`: `TypeCorrect`, `NeverTorn`, `ConsumersReady`, and `Refinement`:
    `KEvent` implements `EventService`. The invariant adds to these that the
    slots in use hold events and that a registration in progress has room;
    without the first, what is copied need not be an event.
  * `Serial`: `SerialTypeCorrect` and `OrderKept`. The invariant numbers the bytes
    from both ends (the ring ends with the last byte put, the FIFO begins with
    the first that has not left) and says what `serial_putc` has seen of the
    ring and still holds; that a burst fits in the FIFO rests on the cause
    "transmitter empty" being there only while the FIFO is empty, whatever is
    received. `raced` is the exception the property names; the types hold also
    after the race.
* `KThreadProofs`: `TypeCorrect`, `StacksStayExclusive`, `NeverOnFreedStack`,
  `EntryStack`, `JoinIsFaithful`, `SwitchesAreFair`. The invariant adds who owns
  a slot in use, that thread 0 is never done, and that a finished thread's result
  stays while its number is that of the slot; `JoinFaithful` alone is not
  inductive, because the read comes after the test of the state.
* `KHeapProofs`:
  * `KHeap`: `TypeCorrect`, `ChainIsWhole`, `FlagsNameTheHeap`, `RoomForOwners`,
    `GrowthIsNeeded`, and `RefinesAllocator`: `KHeap` implements `Allocator`.
    The three ways in which the chain changes (a new block, a split, a merge)
    are lemmas about memory; `kmalloc` and `kfree` compose them. The invariant
    adds that the walk stands on a block and that no block behind it fits.
  * `FreeBlocksComeTogether` (`FreeMemoryMerges`), for every `MAX_COALESCE` and
    heaps of every size: a call makes two free blocks meet at a new place only
    if one of them is larger than `MAX_COALESCE`. That no two neighbours are
    free would be false: `kfree` leaves them apart if one is larger, and a later
    split can make it small. The proof follows `kfree` through its two halves
    with the set of places where free blocks met before.
  * `Boot`: `HeapHasOneUser` and `ReadyWhenUsed`. `BootInv` says that what is ready is
    what the calls before this one make, and that what thread 1 calls back is
    registered; that the order of the fifteen calls is right is then a lemma
    about the table `kmain` (`OrderOfCalls`). The first of the two discharges,
    for the boot, what `KHeap` assumes of its callers.
* `PagingProofs`: seven theorems, one for each property of the run. The
  invariant says where frames come from: an entry of a table names a frame
  that is taken, no two entries of distinct tables or places name the same one,
  none names a table, and every frame taken is low memory, mapped or a table.
* `KShellProofs`:
  * `KShell`: `TypeCorrect`, `CursorFollowsLine`, `HistoryOwnsItsBlocks`,
    `InputIsSaved` and `EnterAloneChangesHistory`. The lemmas say what `strlen`,
    `strdup` and `strncpy` do to a string that fits in a line, and what a line is
    up to its first NUL when one was typed (`LineLemma`); the invariant adds
    that the blocks and both buffers hold such strings and how `recalled` and
    `stale` follow from `histptr`. They assume that there are more blocks than
    entries, and nothing of the characters that are typed.
  * `Ps2`: `CharactersFitShift`. `Ps2Inv` says that the shift keys held after a code
    are those held before the next, along the queue, and that `shift` agrees
    with those held before the first code in it; a code `EXT` ends what can be
    said, because the handler ignores what comes later.
* `AtaProofs`:
  * `Ata`: `TypeCorrect`, `ReadsAreOfRequest`, `WritesAreStored`, for the driver by
    itself (`AtaSpec`), whose disks may still be at an IDENTIFY that the scan
    gave up, with calls for any disk at any time. The invariant follows an
    exchange from both ends, the driver's loop and the disk's position, with at
    most one sector on its way. The properties except calls that `lost` names
    and addresses out of reach of 28 bits (`InReach`).
  * `Devices`: `DisksAreFound`. `ScanInv` says that at each position of the scan
    and the probe the list of devices holds the disks asked so far but for those
    that missed, each once, and that its number leads to it, by the list of
    controllers or by the controller being probed, which is appended last.
    `DevicesReadAndWrite` puts both together: calls made through the numbers
    found keep what the driver promises by itself, because a scan leaves every
    disk in a state `IInv` allows.
* `Ext2Reading` and `Ext2Proofs`: `PathsLeadToFiles`, `ReadsAreOfFile`,
  `CommandShowsFile`, `BlocksGivenBack`, `NoOtherWildPointer`, one for each
  property of the run. `Ext2Reading` says what the functions that read return
  on a sound volume, whichever sectors fail: an inode or nothing, the block of
  a file through each level of tables or a hole in the place of a table, the
  entry of a directory of that name. `Ext2Inv` adds to the five properties what
  the call has taken from the heap (`MemOK`), what it was called with
  (`CallOK`), that the mount and the open files hold what the volume says
  (`DiskOK`), and that the walk has come to the inode of the first names of the
  path while `strtok_r` still has the others (`WalkOK`). The last is what makes
  it inductive: that the inode found in the end is the right one cannot be told
  from it alone. Paths through a file and volumes beyond the offsets are the
  exceptions that the properties name.

Nothing here uses an induction rule, which the installed provers cannot
instantiate. Where a lemma is about every position of a list, a string, a
directory or a chain of blocks, it takes the least position at which it would
be false (`MinLemma`, from `WFMin` of `WellFoundedInduction`); a recursive function
is unfolded once some function is shown to satisfy its equation, and a least
difference shows that there is no other.

Only model-checked: liveness (`AcceptedIsDispatched`, `RunningIsScheduled`,
`DoneIsReaped`, `PutcReturnsUnlocked`, `AllLeave`, `BootFinishes`,
`NothingHangs`), which is out of the prover's reach. Every other property of a
run that must pass is stated by a theorem.

## 6. Findings

1. `kthread_return`: a comment in `kthread_schedule` says that a thread that has
   just returned is reaped. `kt_init_context` leaves 0 as its return address, so
   it faults and the machine halts.
2. `serial_locked`: "Putc will block until the ringbuffer is not full". A caller
   with interrupts disabled blocks for ever, for only the interrupt makes room.
   `kthread_init` and `kthread_create` print under `lock()`.

Also seen, without a run of its own: an error return of `kthread_create` leaves
interrupts disabled (the liveness properties of `KThread` name the case); a key
pressed before `kevent_init` divides by zero (`NothingUsedEarly` names it); a
byte may be sent out of order if the interrupt comes between `rb_get` and `outb`
of `serial_putc` (`raced`); `serial_irq` serves one cause, the receiver's first,
and the PIC is edge-triggered, so that a cause left behind a received byte brings
no further interrupt (`Deaf`): bytes stay in the ring until a caller writes to the
transmitter, a caller that finds the ring full spins for ever though interrupts
are enabled, and if the cause left is the receiver's no more input is read; a NUL
from the serial line ends the line while the cursor moves on, so that what is
executed is not what was typed, and an empty line is stored although
`kshell.c:136` says that it is not (`CursorAtEnd` and `HistoryOfLines` name both);
a key event of a key released carries the code with
bit 7 set, although `ps2.c:36` says that the codes line up with the keycodes;
the code of an extended key silences the keyboard for good, which `ps2.c:34`
marks as to be done; the first page is left out "to catch null pointer errors"
(`mm.c:43-45`), but `page_fault` maps it at the first access that is not to
address 0 itself; Enter on a recalled line that was deleted leaves `histptr`
behind, and the next input is not saved (`kshell.c:137` and `:170`; `stale`).

In the disk and the file system: an error that comes after the last sector of
a write is not looked at, and a command issued while the disk is at the one
that timed out is lost, so that the data of the first are taken for those of
the second (`lost`); addresses of 28 bits and byte offsets of 32 wrap around
without an error (`InReach`, `Within`); `kmain` goes on without a disk or a
mount, and the shell then follows null pointers, as `ext2_stat` does when the
inode cannot be read (`WildOnlyIf`); a file in the middle of a path is read as a
directory (`ThroughFile`); a table that cannot be read counts as holes; the
read command keeps what it opened, and a line of spaces its copy (`Left`).
Not modelled, but seen on the way: `lookup_inode_num` reads an inode number from
a block that it has just freed; `ata_probe` takes the block size of IDENTIFY,
which counts words, for bytes (`ata.c:165`); `mode_to_string` tests masks of
more than one bit, so that block devices print as directories;
`driver_unregister`, which nothing calls, moves the wrong memory; two threads
may print at the same time, and neither the screen nor `rb_put` has a lock.

## 7. Not modelled, and the plan

Not modelled: the boot sector and the assembly that enters protected mode
(straight-line code on registers), `printf` and the string functions beyond
those the shell and the paths need (loops over memory that unit tests reach),
the screen and the log (output, from shared cursors without a lock), the
tables and masks of the interrupt controllers, the copies of user memory in
`kcall.c`, `kthread.tmp` (not compiled), the user's test program. In `pci.c` the
names of the classes are only printed.

What remains, in this order:

1. `Serial` with two callers, thread 0 and the echo of thread 1: `rb_put` is
   not atomic, and the hazard has no property yet.
2. A composition of `Ext2` over `Ata`, in which a sector that fails is a call
   that returned an error, to show that a lost command is the only way in which
   an error of the disk becomes data of a file.
3. `Vga`: the cursor and the scroll under two threads that print.
4. Theorems: what `Ext2` promises when the volume is not sound (`VolumesAssumption`
   is all that the proofs know of it): that `ext2_init` and the walk still end
   and give back what they took.
