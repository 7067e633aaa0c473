# A verification project for TOS

TOS is a teaching operating system for the PC: one CPU, no memory protection,
priority scheduling with preemption, message passing between processes, and
drivers that are processes.  This directory holds TLA+ models of its kernel, its
drivers, its network code, some of its applications and the FAT tools of its host,
the TLC configurations that check them on small instances, and proofs that TLAPS
checks of the dispatcher, the creation of processes, the interprocess communication, the timer service,
the serial line and the event manager, with any number of processes, ports and priorities, of the driver of
the network card, of the checksums of packets, of the scan codes of the keyboard, of the names of
files, and of two tables.

Paths below are relative to the repository (`kernel/` is `src/kernel/`).

## 1. Inventory

Everything runs on one CPU.  A "step" of the models is what no interrupt can
split: a function body between `DISABLE_INTR` and `ENABLE_INTR`, or an interrupt
service routine (its gate clears the interrupt flag).  `resign()` in the middle of
such a body ends a step, because other processes run until the caller is
dispatched again.

| Component | State | Operations | Interacts with |
|---|---|---|---|
| Dispatcher, `dispatch.c` | `ready_queue[8]`, `ready_procs`, `active_proc`, per PCB `next`, `prev`, `state` | `add_ready_queue`, `remove_ready_queue`, `dispatcher`, `resign`, `init_dispatcher` | called by everything that blocks or wakes a process |
| Dispatch table, `disptable.c`, `gentable.cc` | `table[256]` | index of the highest set bit | `dispatcher` |
| Processes, `process.c` | `pcb[20]`, free list | `create_process`, `init_process`; `fork` is a stub; `print_*` is output | dispatcher, ports |
| IPC, `ipc.c` | `port[40]`, free list, per port `open`, `owner`, `blocked_list_head/tail`; per PCB `first_port`, `param_proc`, `param_data`, `next_blocked`, `state` | `create_port`, `open_port`, `close_port`, `send`, `message`, `receive`, `reply`, `init_ipc` | dispatcher; every service |
| Interrupts, `intr.c` | `interrupt_table`, `interrupts_initialized` | four ISRs, `wait_for_interrupt`, IDT and controller set-up | dispatcher; drivers |
| Timer, `timer.c` | `ticks_left[20]` | `timer_notifier`, `timer_process`, `sleep` | IPC, timer interrupt |
| Serial line, `com.c` | the request in progress | `com_process`, `com_reader_process` | IPC, COM1 interrupt |
| Keyboard, `keyb.c` | shift state, one-key buffer, one waiting client | scan-code automaton, notifier, keyboard process | IPC, keyboard interrupt, event manager |
| Event manager, `em.c` | listener table, focus | `em_register_*`, `em_process`, `em_new_udp_packet` | keyboard, network, shell and games as listeners |
| Shell, `shell.c` | line buffer, command table | commands | event manager, windows |
| Network card, `ne2k_driver.c` | card registers, ring pointers | send, receive, notifier, UDP transmission with ARP retry | timer, ARP, event manager |
| Protocols, `arp.c`, `ip.c`, `udp.c`, `eth.c` | ARP cache | build and take packets apart | network card |
| Windows, `window.c`, `basicio.c` | cursor per window, video memory | output, scrolling | everybody |
| Boot, `main.c`, `null.c` | - | order of initialisation; the boot and null processes loop for ever | all |
| Failure, `assert.c` | - | `panic`, `assert`: print, disable interrupts and loop | all |
| Applications: train, pacman, pong, fireworks, chat | their own | - | timer, serial line, windows, event manager |
| FAT tools, `tools/fat` | volume: boot sector, tables, root directory, clusters; `fcb[]` | `fs_open`, `fs_create_file`, `fs_read`, `fs_write`, `TOS_fs_seek`, `fs_close`, `fs_mkdir`, `fs_delete`; the programs `fatls` ... around them | programs of the host on an image file |
| Train simulator, `tools/train/train.pyw` | train, wagon, switches, contacts | the commands of the serial line | the other end of the line for `train.c` |
| Library, graphics | a bump allocator, video memory | strings, memory, port I/O, drawing | - |
| Tests, other tools, boot loader | - | `test/` drives the kernel; `tools/` runs on the host | - |

### What is hard, and what makes each component correct

*Dispatcher.*  Interrupts preempt at every instruction outside the `cli` sections.
The same emptiness is stored in `ready_queue` and `ready_procs`; the pointer
surgery must survive any order of insertions at the tail and removals anywhere;
`dispatcher` follows `active_proc->next` even when the active process has just
left its list.  Correct: the pointers always are one circular list per level with
exactly the ready processes (`QueuesIntact`), a dispatch always takes a queued
process of the highest queued priority (`ElectsTop`, `DispatchesTop`), and the
order is the queue order of module Scheduler (`ImplementsScheduler`).

*IPC.*  The state of an exchange is spread over the state fields of two PCBs, the
parameter fields of the receiver and the list of the port; `receive` has a part
before and a part after its `resign`.  Correct: no lost wakeup
(`ReceiverNotMissed`), a process on at most one list (`BlockedOnOnePort`), every
request owed by exactly one process (`OwedByOne`), and, to the outside, the plain
rendezvous of module Rendezvous (`ImplementsRendezvous`).

*Interrupts.*  An ISR may find its notifier waiting, already woken, or busy; what it
does then differs from ISR to ISR.  Correct: nobody is queued twice
(`ReadyIffQueued`), the table and the waiters agree (`SlotsMatchWaiters`).

*Processes.*  `create_process` has interrupts enabled between taking a PCB and
queueing it; pools of 20 PCBs and 40 ports that are never refilled.  Correct: no PCB and
no port is lost or given out twice (`PoolsIntact`), nothing runs before it is filled in
(`RunsOnlyComplete`).

*Timer.*  `sleep(0)`; replies in the middle of a pass over `ticks_left`; a tick
before `timer_port` is assigned; ticks merged while the notifier is busy.  Correct: an alarm
clock (`ImplementsAlarm`), never early (`NeverEarly`), and every sleep ends (`SleepEnds`).

*Serial line.*  `com_process` takes whatever comes next for the reader's message.  Correct,
with one client: each gets the whole answer to its own command (`AnswerComplete`,
`EachCommandAnswered`).

*Keyboard, event manager.*  Make and break codes of several keys interleave, with prefixes;
one event variable whose address is passed on; a listener that does not receive blocks
everybody; unprotected registration; TAB with no listener.  Correct: each press sends the character of
its key, and a modifier is on until the key that ends it is lifted (`KeysDecoded`), listeners and event manager agree on the focus (`FocusIsOne`), every
key gets through (`EachKeyTaken`), and only a stuck listener can stop the system (`PanicsOnlyIfStuck`).

*Network.*  Registers of one card programmed by several processes, of which one may have selected page 1 or
the loopback mode when the other comes in; a ring that is read while it
is filled; a single ARP retry after a fixed sleep; a full ARP table.  Correct: frames are handed
on once and in order (`FramesInOrder`) and answers leave as they were made (`OwnAnswersIntact`), both outside of
the windows in which the code cannot do it; the notifier comes back (`DpcEnds`), addresses are the latest
(`LatestAddress`), damage is noticed (`PacketsChecked`).

*Windows, shell, chat.*  Two processes write to one screen; the line lives in a buffer and on
the screen.  Correct: the line shown is the line run (`LineShown`), nobody writes into the
window of another (`WindowsApart`).

*Train.*  Contacts are found by polling, with delays of up to two tiles' way, and the command to stop is as late; a
switch must be set before the train is there.  Correct: no contact that the program waits for is run over unseen
(`NoContactMissed`), the train is not turned while it moves, and it comes back with its wagon (`BackWithWagon`, with
the one exception that the code has).

*FAT tools.*  Entries of 12 bits across sectors; cached sectors and table; a volume that gets
full in the middle of an operation; tools that end without closing.  Correct: `EntriesKept`,
`NamesFound`, `FilesIntact`, `VolumeInOrder`.

`PROJECT.json` lists each hazard with its line and the properties aimed at it.

## 2. Modules

| Module | Models | Role |
|---|---|---|
| `ReadyQueue` | `dispatch.c` as operators on sequences | library of the others; pure |
| `Scheduler` | what `dispatch.c` promises | abstract specification |
| `Dispatch` | `dispatch.c` on its pointers | implements Scheduler |
| `ReadyQueue_proofs` | - | lemmas about the operators of ReadyQueue, used by the others |
| `Dispatch_proofs` | - | theorems about Dispatch, and that it implements Scheduler |
| `Process` | `process.c`, the port pool of `ipc.c` | `create_process` in its atomic pieces |
| `Process_proofs` | - | theorems about Process |
| `Kernel` | `ipc.c`, the ISRs and `wait_for_interrupt` of `intr.c`, on `ReadyQueue` | state, actions and invariants of the kernel |
| `Programs` | processes that call anything at any time | the kernel under arbitrary programs |
| `Kernel_proofs` | - | the inductive invariant of Kernel, one lemma for each of its actions, theorems about Programs, and that it implements Rendezvous |
| `Rendezvous` | what `ipc.c` promises | abstract specification, implemented by Programs |
| `Timer` | `timer.c`, on the actions of Kernel | the timer service with its clients |
| `Alarm` | what `timer.c` promises | abstract specification, implemented by Timer |
| `Timer_proofs` | - | theorems about Timer, from the action lemmas of Kernel_proofs, and that it implements Alarm |
| `Com` | `com.c`, on Kernel | the serial line with its clients |
| `Com_proofs` | - | theorems about Com with one client, from the action lemmas of Kernel_proofs |
| `ScanCodes` | the automaton of `keyb_notifier` | with the keyboard that sends the codes |
| `EventManager` | `em.c`, the waiting and sending of `keyb.c`, on Kernel | with its listeners |
| `EventManager_proofs` | - | theorems about EventManager, from the action lemmas of Kernel_proofs |
| `Arp` | `arp.c` | the table |
| `Ne2k` | `ne2k_driver.c`, extends Arp | notifier, user of the driver, card |
| `Protocol` | `ip.c`, `udp.c` | headers and checksums |
| `Window` | `window.c` | operators on one screen; used by Shell |
| `Shell` | `shell.c`, `chat.c` | line editor, commands, chat windows |
| `Railway` | `tools/train/train.pyw`, layout 1, in steps of 50 ms | the train and the thread that executes commands, used by Train |
| `Train` | `train.c` | the program that fetches the wagon |
| `FatTable`, `FatNames`, `Fat` | `tools/fat` | table, names, directories and files |
| `Devices_proofs` | - | theorems about Arp, Ne2k, Protocol, FatTable, FatNames and ScanCodes |
| `MCDispatch`, `MCKernel`, `MCTimer`, `MCDrivers`, `MCNetwork`, `MCDevices`, `MCApplications`, `MCCom`, `MCEventManager`, `MCFat` | - | instances for TLC |

Timer, Com and EventManager compose Kernel with the programs of their processes: each statement
that calls the kernel is an action of Kernel conjoined with a step of a program counter.  Process,
ScanCodes, Ne2k, Protocol, Shell, Train and the FAT modules stand alone: what they depend on of
the kernel is only who can interrupt whom, which each states as guards.

The systems that MCDrivers, MCNetwork, MCDevices and MCApplications instantiate do not
interact.  A variable `part` says which of them a behaviour is about; the variables of the others
are `NULL` in it, or keep their initial values where the module EXTENDS the system rather than
naming an instance of it.  MCKernel does the same with `cast`.

### Dispatch

`mem` is a record with the variables and PCB fields that `dispatch.c` writes:
`ready_queue`, `ready_procs` (as the set of bits that are set), `next`, `prev`,
`state` (only READY or not, since `dispatch.c` knows no more).  Operators
`add_ready_queue`, `remove_ready_queue` and `dispatcher` are the functions of
the same name, from a memory to a memory or to a process.  `table[ready_procs]` is
the highest member of the set.

The actions are the sequences in which the rest of the kernel calls those functions
within one `cli` section:

| Action | Code |
|---|---|
| `Wake` | `create_process`; `receive` of a message: made ready, no resign |
| `WakeAndResign` | `reply`; `message` to a waiting receiver; an ISR with a waiting notifier |
| `HandOver` | `send` to a waiting receiver |
| `Block` | `send`, `message`, `receive`, `wait_for_interrupt` that have to wait |
| `Resign` | `resign`; an ISR that wakes nobody |
| `Exit` | the last two statements of `train_process`: `remove_ready_queue(active_proc)` with interrupts enabled, then `resign()` |

Assumptions on the environment, each justified by the code: the boot process never
blocks (it ends in `while (1);`); a process that exits is not a notifier, and
notifiers have a higher priority than the others (they are created with priority
7, everything else with at most 6), so that between the two calls of an exit only
an interrupt can happen and it can wake only a process of higher priority.

### Kernel and Programs

State: the ready queues as sequences, the PCB fields `state`, `param_proc`,
`param_data`, the port fields `open` and the blocked list (as a sequence),
`interrupt_table`, and where each process continues (`resume`): in its own code, in
the second half of `receive`, in the second half of `wait_for_interrupt`, or not
created yet.  `got` and `owed` are what a process knows locally: the result of its
last `receive`, and the senders it has received from and not answered.  `fault` is
the panic that stopped the system.

One action per kernel call, named like it; `receive` is `receive_pending` (an item is
there, no resign), `receive_wait` and `receive_resume`; `wait_for_interrupt` is
`wait_for_interrupt` and `wait_resume`.  `interrupt(x)` is the ISR of
interrupt x, with the four behaviours of `intr.c`: the timer ISR ignores an interrupt
nobody waits for, the network ISR one with an empty slot, all others panic.  After a
panic only `halt` is enabled.

`Programs!Next` composes the calls with the most general programs that follow the conventions
every program of the repository follows: a port is used once its owner has been created,
only the owner opens or closes it, and a process answers only what it has
received.  `reply` itself checks less than that, as the code does.

What is abstracted: payloads are of two kinds, `Request` (sent) and `Note`
(messages), because the properties tell only these apart; `create_process` is its
`add_ready_queue`; ports are given, not created; registers and stacks.

### Timer

A program counter for the boot process, the timer process and the notifier says which
statement each executes next; each statement that calls the kernel is an action of Kernel
conjoined with the step of the counter, every other statement is a step under `Running`, so
that an interrupt can come between any two.  The loop over `ticks_left` is one step per
iteration, because `reply` gives the CPU away in its middle.  A pointer to a
`Timer_Message` is the sequence of its one field, the null pointer that the notifier sends
is the empty sequence.  `elapsed` is a history variable: the timer interrupts since a process
called `sleep`, up to the largest argument of `sleep`.  Sleepers sleep whenever they run;
`Busy` processes never call anything.  `TimerAssumption` says what the constants of this module
have to be: the timer process and its notifier are different processes, `pcb` is an array
without repetitions, and a sleeper has a lower priority than the notifier (7).  The last one has an
exception in the code: the notifier of the network card has priority 7 too, and sleeps one tick
when it transmits an ARP answer (`ne2k_driver.c:546`); that sleeper could run between the
interrupt and the notifier's message, so that a tick before its request would count for it.

### Process

Free lists are linked through `next` as in the code, `call` is where in `create_process` a process
is (it may be interrupted and overtaken after it took the PCB, after it took the port, and before it
is queued), `ready` is what `add_ready_queue` was given.  Which ready process runs is left open: it is
the subject of Dispatch.  Pools that run dry end in the assertion of the code (`fault`).

### Com

`com_process`, `com_reader_process`, the UART and the device behind it, which answers each command
with as many bytes as its sender expects.  A COM1 interrupt comes when the device sends a byte and the reader has
come to rest, wherever it waits: between two bytes at this speed there are thousands of instructions.  With two clients `SecondIsReader` fails; with one, answers are complete
and in order.

### ScanCodes and EventManager

ScanCodes has the flags of `keyb_notifier` and a keyboard on which up to `Fingers` keys are down at a time; codes of
one key come together.  Print Screen is only tapped.  There are two history variables: `lifted`, whether a shift key was
lifted while the other is down, which the one flag of the code cannot tell, and `alted`, whether Alt was pressed and the
quote key not lifted since.  The comment in `keyb.c:222-225` says that Alt ends with its key, as shift and control
do; the code tests for 40, which is the quote key, so that after Alt letters, quotes and the keypad give nothing until a
quote key is lifted.  `KeysDecoded` demands of every press the character that `Expected` names for the key, by shift, Caps
Lock and `alted` (nothing, where the tables of the code have nothing), and that no other code sends one.

EventManager has the two notifiers, `em_process`, the shell and the programs it starts.  An event is
the name of the variable it points to; the receiver reads that variable when it runs.  `init_em`, the
registrations and the boot sequence are in it, therefore also the interval before a port is
assigned.  `FocusIsOne` relates four places where the focus is kept.  A key in the interval before the
event manager has a listener divides by zero or sends to NULL; the model has both as faults and
the properties speak about what follows them.

### Arp, Ne2k, Protocol

A step of Ne2k is the code between two accesses to the card, or to a variable that two processes share, wherever
another process or the card could tell the difference.  So `ne_setup` is twelve steps: the reset, the probe, reading the PROM (which
starts the card), TPSR and the loopback mode, the bounds of the ring, page 1, CURR, the station address, page 0, acknowledging, the mask,
and leaving the loopback mode.  The notifier has priority 7, so that it interrupts the user (the boot process in `init_ne_driver`, later the
shell) but never the other way round.  It is created as soon as the boot process is interrupted or sleeps, which may be
before, in, or after the first set-up; frames that are made while `NE_INTIALIZED` is 0 are dropped.

Of the card the model has the page that is selected, whether it runs, interrupt status and mask, remote DMA, CURR, BNRY, whether
PSTART and PSTOP are set, TPSR (the transmit buffer or something else), the loopback mode, and the memory of the ring and of
the transmit buffer; the interrupt controller sees edges.  What is written to the registers of page 0 while page 1
is selected goes to the station address, and the other way round (`Written`, `page_step`).  The station address itself is
not modelled, so any frame may arrive.  Cards differ in what a reset clears and in whether a frame
that arrives in loopback mode is dropped: both are possible.  While the bounds are not set the ring may go on anywhere in the memory of the card, the transmit
buffer included.  A frame takes one page of the ring.  Of frames only the kind, the
number and the addresses are kept.  Reading memory that was never written gives `garbage`.

`cut` is a history variable: `"setup"` is in it once the notifier has gone on (woken by an interrupt, or back from the
tick it sleeps in `ne_transmit`) while the user was in `ne_setup`, `"page"` if the user had even selected page 1.  The second window, of
a few instructions (`ne2k_driver.c:656-667`), is where the notifier's TPSR goes to the station address and the card transmits
other memory than the answer.  In the first window, between lines 645 and 710, the card is in loopback mode and the answer never
leaves it, and frames may be read twice or not at all.  The code excludes neither.  `FramesInOrder` and `OwnAnswersIntact` say
what holds outside: the order of frames as long as `cut` is empty; the contents of answers as long as `"page"` is not in
it, and that those are lost which are transmitted in loopback mode, and no others.

In Protocol a header is its 16-bit words, sums have 32 bits and carries are folded as in the code, and one bit of a packet
may change.  Bits of the header length and of the UDP length are excepted: the code reads beyond the packet then.

### Shell and Window

Window is `window.c` as operators from a console (screen and cursors) to a console.  Shell has the two
processes; what each writes is a sequence of single writes (`calls`), so that output of the two mixes
at every character.  `own` is, for each of the two programs, the screen as it would be if that program were alone.
`spoilt` records that the line of the shell has a cursor key in it, which is the character 0 and does not show, or more keys than
the buffer takes; `LineShown` says nothing of such a line until Return, so that of the cases of `shell.c:269` it is mainly about the backspace at
the prompt.  `over` records that a line of the shell ran over the divider; `WindowsApart` says nothing of the screen from then on.
That two windows of chat share a row needs no exception, since both belong to one program.

### Railway and Train

Railway is the simulator that the repository gives for the other end of the line: tiles, segments, switches and contacts of
layout 1.  Time passes in its steps of 50 ms (`railway_passes`), of which a vehicle needs 16 for a tile at speed 5; `place` is how far it has
come.  The other thread of the simulator takes one command after the other, each with the delays that `train.pyw` gives: it looks for
one every 0.3 s, executes it after 0.1 s and a delay in proportion to the time between this command and the one before, stops the
train after another 0.2 s and answers after 0.1 s.  The factor of that delay is what the simulator
measured at the start (`detected_time_interval`), between the dummy commands of the boot loader: 5 of them in 4 intervals of 4 ticks,
hence 214 ms.

Train is `train_process` on the other side.  `sleep(9)` ends 8 to 9 ticks of 55 ms later, that is, with the ninth or
the tenth step, and everything else takes no time.  So two commands are executed 0.9 to 1.65 s apart, in which a vehicle crosses one or two
tiles, and the program asks for a contact every 1.7 s or so, while the answer is as old as the way back.

What TLC finds with these times: a contact of three tiles lasts 2.4 s, and none that the program waits for is run over unseen
(`NoContactMissed`).  But from the contact 8 or 5, where the program wants to stop, there are four tiles to the end of the
track, 3.2 s, and one period of polling with the time until the stop takes effect can be 3.3 s.  So the train may run off behind its last contact,
at (6,5) or (7,7), also after the program has printed `I am back safely!`, since it prints that when `S0` is sent.
`BackWithWagon` says that this is the only thing that can go wrong (`Overshot`), and that the wagon is with it then.

### FatTable, FatNames, Fat

FatTable has the bytes of the table, in memory and on the device.  FatNames compares the four functions that make
the eleven characters of a name.  Fat has the volume with a table that is a function, sectors of cells (a cell is
a directory entry or one unit of data that says where it belongs), the descriptors with their buffered sector, and the
tools as actions; a tool may end without `fs_close`.

### The abstract specifications

*Scheduler* is Dispatch without pointers: a sequence per level.  Its refinement mapping
reads the sequence off the circular list (`OrderOf`).  A subtlety worth stating: removing
a process turns its queue so that the successor is the head, wherever the process stood;
Scheduler says so (`TurnOut`).

*Alarm* is the timer: a request is taken, every tick counts for all requests taken before it,
and whoever becomes due is woken before the next tick.  The mapping lets the whole walk over
`ticks_left` happen at its beginning: an entry that the walk has still to come to is read as
already counted down.  A process that asked for 0 ticks stays asleep for good, which is what
the code does.

*Rendezvous* is IPC without scheduler: per port a queue of posted items; a receiver takes
the oldest item of its first open port that has one; an item posted to a listening
receiver reaches it at once.  The mapping counts an item as received when it is put into
`param_proc` and `param_data` of the receiver, although the receiver reads it only when it
is dispatched: a second sender that overwrote those fields would break the refinement.

## 3. Runs

| Run | Specification | Instance | Checks |
|---|---|---|---|
| `dispatch` | `Dispatch!Spec` | boot and one process on level 0, three on level 1, a notifier on level 2 | `TypeOK`, `QueuesIntact`, `ActiveIsReady`, `ElectsTop`, `DispatchesTop`, `ImplementsScheduler` |
| `kernel` | `Programs!Ticking` | two casts. One: two clients, a server with two ports it opens and closes, an interrupt handler that also sends. Other: two processes that are servers and clients of each other and of themselves, and wait for two interrupts | all invariants of Kernel, `ImplementsRendezvous`, `UrgentRuns` |
| `timer` | `Timer!FairTimer` | two sleepers, one of the priority of the timer process and last in `pcb`, one below; a computing process beside the latter; 0 to 2 ticks | `TimerTypeOK`, `NeverEarly`, `ImplementsAlarm`, `SleepEnds` |
| `drivers` | `MCDrivers!MCSpec` | `packets`: EventManager with packets at any time and TAB pressed twice; `keys`: without packets, two keys pressed three times | `FocusIsOne`, `PanicsOnlyIfStuck`, `EachKeyTaken` |
| `network` | `MCNetwork!MCSpec` | `arp`: four hosts, one of them 0.0.0.0, four addresses, two entries; `packets`: 324 packets; `alone`: the set-up at boot and the notifier with three frames; `commands`: two frames and one `sendudp` or `ne ip`; `reset`: two ARP requests and `ne init` | `LatestAddress`, `PacketsChecked`, `FramesInOrder`, `OwnAnswersIntact`, `DpcEnds` |
| `devices` | `MCDevices!MCSpec` | `serial`: Com with one client, answers of 0, 1 and 3 bytes; `table`: both types, entries in three sectors; `names`: up to 10 letters before and 5 after the dot; `files`: two files, two descriptors, 4 clusters; `dirs`: a file in the root and one in a subdirectory, 4 clusters | `AnswerComplete`, `EachCommandAnswered`, `EntriesKept`, `NamesFound`, `FilesIntact`, `VolumeInOrder` |
| `applications` | `MCApplications!MCSpec` | `creation`: 4 PCBs, 5 ports, 2 levels; `keys`: 15 keys, 3 at a time; `shell`: a screen of 8 by 5, 5 keys, 1 packet; `train`: configurations 1 and 3, every setting of the switches | `PoolsIntact`, `RunsOnlyComplete`, `KeysDecoded`, `LineShown`, `WindowsApart`, `BackWithWagon`, `NoContactMissed` |
| `round_robin` | `Timer!FairTimer` | two computing processes of equal priority | `RoundRobin`, violated |
| `timer_port` | `Timer!TimerSpec` | as `timer` | `PortIsValid`, violated |
| `com_shared` | `Com!ComSpec` | two clients | `SecondIsReader`, violated |
| `udp_event` | `EventManager!EmSpec` | one listener, packets | `EventIsSane`, violated |
| `fat_clusters` | `Fat!FatSpec` | two files, one descriptor, two sectors in a cluster | `ReadBack`, violated |

The violated properties are statements of the source that the code does not meet:

* `dispatch.c:90` says that round robin is used within a priority level.  A tick that wakes the
  notifier moves the CPU to level 7, and the dispatcher comes back to a level through
  `ready_queue[i]`, which only a removal moves.  Of two processes that compute at the same level,
  one runs after every tick and the other never (`round_robin`).  Without the notifier, as in
  `test/test_isr_2.c`, they do alternate.
* `ipc.c:118` asserts that `message` is given a port.  `init_timer` stores `timer_port` after
  `create_process` has made the timer process ready, with interrupts enabled; a tick before the
  store starts the timer and its notifier, and a second one before the boot process gets to the store
  makes the notifier send to NULL (`timer_port`).  It takes two ticks within a few
  instructions of the boot process; the code has nothing that excludes it.
* `com.c:84`, commented out, says that the second `receive` returns the reader's message.  It
  returns what comes first.  The train process and the shell (`go`, `stop`, `rev`) are two clients
  (`com_shared`).
* `em.c:80`, commented out, says that what was received is an event.  `em_new_udp_packet` passes the address of
  a local variable to a process of lower priority and returns (`udp_event`).
* `fat.c:229` accepts a volume with 2 and more sectors in a cluster.  `fs_write` writes a full sector
  after it has advanced `pos`, from which it computes the place (`fat_clusters`).

Other disagreements, which the models contain and the properties make room for: Alt is never
released (`keyb.c:225` clears it on the code of the quote key); a key pressed before the event manager has a
listener stops the system (`em.c:151`); a second key replaces the first one while a listener is busy
(`keyb.c:264`); `ne ip` is undone by the next frame, because `ne_receive` configures the card again
(`ne2k_driver.c:605`); the notifier aborts a transmission that it interrupts (`ne2k_driver.c:546`); a pending interrupt
is wiped by the set-up (`ne2k_driver.c:479`); `ne init` at the wrong moment makes `ne_receive` use a pointer that was never
set (`ne2k_driver.c:433`), sends other memory than the answer (`ne2k_driver.c:656`), or finds the card started by the notifier and so
no card at all (`ne_probe`), after which nothing is transmitted until the next `ne init`; the shell's limit for a line does not count the prompt (`shell.c:269`) and cursor
keys put the character 0 into the line; the windows of chat share a row (`chat.c:11`); `window.c:46`
compares a height with the width of the screen; a run in simulator configuration 4, with the wagon at (15,7), never comes to the wagon, and
a run in the others may go off the track behind its last contact; FAT names of 8 characters without an extension are refused by one function (`fat.c:1776`) while
9 characters and extensions of 4 are taken by another (`fat.c:592`), directories typed in
lower case are not found (`fat.c:1146`), the table of a volume with more than one reserved sector is read from the wrong place
(`fat.c:318`), the end mark of a full root sector goes to the wrong sector (`fat.c:978`), in a directory
without a free entry every name is found (`fat.c:705`), and `fs_open` returns 0 instead of a failure when the
volume is full (`fat.c:1852`).

### Bounds

*Kernel.*  The state space of each instance is finite without further bounds: queues hold
each process at most once.  Three processes on a level are the least for which head,
middle and tail of a circular list differ; the other levels provide the emptied level,
the level that is never empty (boot) and preemption from above.  Two ports of one
server, two clients and a handler that preempts them give queues of length up to three
on a port, a choice between two ports, closed ports with senders on them, and a second
sender that runs between hand-over and receipt.  Cyclic waits and sending to one's own
port happen in the second cast.  No symmetry is used: processes differ by priority and the
order of queues matters.

*Timer.*  Two sleepers on different levels and on different sides of the timer in `pcb` make
replies in the middle of a walk preempt or not preempt it, and 2 is the least number of ticks that
needs a second walk.

*Drivers.*  Two listeners are the least for which the focus moves; three keys are one in the notifier, one in
`em_process` and one in a listener.  Answers of 0, 1 and 3 bytes are the loop that is not
entered, entered once, and repeated.

*Network.*  Two entries for three hosts with an address fill the table; the fourth host has the address that an empty
entry holds.  Three frames in a ring of four pages wrap around it; a fourth frame would only repeat the first
one's place.  The two ARP requests of `reset` are the frame in the hands of the notifier and the
one that comes during the set-up.  Frames carry one address, except in `reset`, where they
carry two; the user has both.  The packets have even and odd lengths, none, a UDP checksum of zero, sums with a carry and addresses
that differ in one word.

*FAT.*  Sectors of four cells are the least that hold a directory with ".", ".." and an entry, and its end; writes of two
cells end before and behind the end of a sector; four clusters run out with two files; deletion and
creation reuse them.  The `table` instance has entries that lie in two sectors.

*Applications.*  Four PCBs and five ports let either pool run dry first, and two creators overlap.  A line of the shell is
four characters wide, so that five keys reach its end.  The train needs no bound: it polls until it has come back.  Configuration 2
of the simulator is the same as 1 for a program without Zamboni.  `Tries` is 1 instead of 25: the
train stands while the program looks for the Zamboni.

`CHECK_DEADLOCK` is left on for the kernel and the drivers: the boot process is always
ready (`Boot` stands for `pcb[0]` and, after `init_null_process`, for the null process, which loops) and a panic is a
loop.  That clients can wait for each other for ever is a property of programs, and `OwedByOne`
describes precisely what remains true then.  It is off where a part comes to its end or to a bound (packets, names, a
train that is back, keys and frames used up, a full volume) and in `com_shared`, where only the invariant matters.

### Fairness

`UrgentRuns` needs weak fairness of the timer interrupt, for a CPU whose
interrupts are enabled (`Ticking`).  The code justifies it: the timer is programmed once and
fires periodically, and no process of the kernel runs with interrupts disabled for ever
except after a panic, which the property allows for.  No fairness is assumed of programs:
a process may compute for ever or never call the kernel.  `FairTimer` adds weak fairness of the
notifier, which nothing preempts, and strong fairness of the timer process, which the
notifier preempts: the few instructions of a walk are much shorter than the time between two
ticks, so that the walk gets on although it may be interrupted.

`drivers`: between two keys the keyboard notifier, the event manager and the listeners have the time of the few
instructions they need, and a listener comes back to `receive` (strong fairness, since notifiers preempt them).
That a listener comes back is true of the shell and chat; what happens when one does not is in `PanicsOnlyIfStuck`, which needs no
fairness.  Nobody preempts the two processes of `com.c` but one another (weak fairness), and the UART keeps sending and
interrupting.

`network`: the processor goes on, interrupts are taken, `sleep` ends (`SleepEnds` of Timer).  Frames
need not arrive.

`applications`: none; time passes in Train only when nobody has anything to do before, which is what the times of the code mean.

## 4. Proofs

TLAPS proves the following for any set of processes, any number of priority levels and any
assignment of priorities; for Programs also for any set of ports, payloads, interrupts and casts;
for Timer for any numbers of sleepers and of ticks; for Com for any lengths of commands and answers; for EventManager for
any numbers of listeners, keys and packets; for Process for pools of any size; for Ne2k for any size of the ring and of the table and
any numbers of frames and commands; for Protocol for any addresses, ports and data; for ScanCodes for any of the
known keys and any number of them down at a time; for FatNames for words of any length.  The assumptions on the constants
(`PriorityAssumption`, `DispatchAssumption`, `ProcessAssumption`, `KernelAssumption`, `ProgramAssumption`,
`TimerAssumption`, `EventAssumption`, `ArpAssumption`, `Ne2kAssumption`, `ProtocolAssumption`, `KeyAssumption` and
`NamesAssumption`) stand in the modules that declare the constants, and TLC evaluates them in every run of these
modules.  Com and FatTable are instances in the runs; what the theorems need of their constants is an operator there
(`ComAssumption`, `TableFits`), which the runs assume of the instance and the theorems have as a hypothesis.

| Module | Theorem | States |
|---|---|---|
| `Dispatch_proofs` | `TypeCorrect`, `QueuesStayIntact`, `ActiveStaysReady`, `AlwaysElectsTop`, `AlwaysDispatchesTop` | the invariants of Dispatch, and `DispatchesTop` |
| | `SchedulerImplemented` | `Spec => ImplementsScheduler` |
| `Process_proofs` | `PoolsStayIntact`, `RunsComplete` | `PoolsIntact`, `RunsOnlyComplete` |
| `Kernel_proofs` | `TypeCorrect`, `ReadyStaysQueued`, `BlockedStaysListed`, `NoReceiverMissed`, `SlotsStayMatched`, `EveryDebtIsOnes`, `RepliesAccepted` | the seven invariants of Kernel |
| | `RendezvousImplemented` | `Spec => ImplementsRendezvous` |
| `Timer_proofs` | `TimerTypeCorrect`, `SleepsLongEnough` | `TimerTypeOK`, `NeverEarly` |
| | `TimerKeepsKernel` | all invariants of Kernel, of the timer service |
| | `NothingElsePanics` | the assertion of `message` is the only panic the timer service can meet |
| | `AlarmImplemented` | `TimerSpec => ImplementsAlarm` |
| `Com_proofs` | `AnswersComplete`, `ReaderAnswersSecond` | `AnswerComplete`, `SecondIsReader`, for one client |
| | `SerialNeverPanics` | none of the panics of the kernel, for one client |
| | `SerialInvariant` | the invariant behind the three |
| `EventManager_proofs` | `FocusStaysOne`, `OnlyStuckPanics` | `FocusIsOne`, `PanicsOnlyIfStuck` |
| `Devices_proofs` | `AddressesAreLatest`, `DriverAddressesAreLatest` | `LatestAddress`, of the table alone and under the driver |
| | `FramesStayInOrder`, `AnswersStayIntact` | `FramesInOrder`, `OwnAnswersIntact` |
| | `PacketsAreChecked` | `PacketsChecked` |
| | `EntriesAreKept` | `EntriesKept`, if only the boot sector is reserved |
| | `KeysAreDecoded` | `KeysDecoded` |
| | `NamesAreFound` | `NamesFound` |

### Dispatch

`Holds(m, rq, Q)` says that the memory m represents the family of queues rq and
that the processes on them are Q.  `AddHolds` and `RemoveHolds` show that
`add_ready_queue` and `remove_ready_queue` turn a memory that holds rq into one that holds
`Enqueue(rq, p)` and `Dequeue(rq, p)`; `DispatcherElects` shows that `dispatcher` returns the
process that `Elect` names, and that it is at the top.  These are the only places where pointers
are reasoned about.  The inductive invariant `IInv` is needed because `QueuesIntact` alone does not
survive a step: it adds that the boot process is queued (so that a dispatch finds somebody),
that notifiers never exit, that a process that has left keeps the state READY and is therefore never
made ready again, and that the `next` pointer of a process that has left its queue still names the
head of its level as long as it holds the CPU.  The last conjunct is what makes the stale pointer of
`dispatcher` harmless; `RemoveHolds` establishes it and `Steady` is the form in which
`DispatcherElects` uses it.  There is one lemma per action (`WakeStep` ... `ExitStep`), put together
in `IInvStep`.

That Scheduler is implemented rests on one more fact: the sequence that the refinement mapping reads
off a circular list is the only one the memory can hold, because its first element is
`ready_queue[i]` and each other one is the `next` of the one before it.

### Process

The properties speak of lists that a walk along a field finds (`ListOf`), and the walk is a recursive function.  `ListFound`
says what it finds: if c[1], ..., c[n] are linked one to the next, the first of them is where the list starts and the last
points to NULL (`Chain`), the walk finds exactly them, provided that its bound allows n steps.  It is not proved by induction, which
is out of the prover's reach, but from the well-foundedness of the numbers: the walk and its closed form satisfy
the same equations, and there is no least place where they differ.

The inductive invariant `ProcessInv` names the chains.  `FreeInOrder`: the free lists are the upper ends of the two arrays,
because they are never refilled.  `PortsListed`: the ports of each process are a chain, whose k-th element has a number of at least n - k + 1,
so that the walk ends within its bound when a port is added in front (`PortTaken`).  `InHands`: who has left the free list
is ready, or one call has it.  `OwnersExist`: nobody owns a port before `create_new_port` gave it one; without it
`first_port = NULL` in `create_process`, which comes after other processes may have run, would cut off a list.  `StepsDone`
says what a call that has come to a place has completed.

`ProcessAssumption` limits `MAX_PROCS` to 40: the stacks of 16 KB lie one below the other from 640 KB down, and esp
of the forty-first process would not be above 0.  The code has 20.

### Kernel and Programs

The seven invariants are proved together, as one inductive invariant `KInv`, because none of them is
inductive alone: `ReadyIffQueued` needs the state fields of blocked senders (`BlockedOnOnePort`) and
of waiters (`SlotsMatchWaiters`), and `ReplyAccepted` needs `OwedByOne`.  Three conjuncts are
added to them.  `SomebodyRuns`: the boot process is queued, and the active process is; without it
`Elect` may have nobody to choose.  `PlacesMatch`: the state field tells in which call a process is
(a process that is `RECEIVE_BLOCKED` is in `receive`, a blocked sender is not);
without it, waking a process would not tell where it continues.  `ParametersMatch`: `param_data` is a request for
a `SEND_BLOCKED` process, a note for a `MESSAGE_BLOCKED` one, and an item for a woken receiver; without it
`OwedByOne` is lost when the receiver returns.

`Kernel_proofs` has one lemma for each call and interrupt that says that the call keeps `KInv`, whatever the caller does
otherwise.  The only hypothesis beyond those of the code is that of `reply`: who answers, answers somebody it
owes an answer.  So the lemmas serve every module that composes Kernel with programs: at the end of Kernel_proofs they are applied to
`Programs!Next`, in Timer_proofs, Com_proofs and EventManager_proofs to the statements of the services.

`RendezvousImplemented` maps each call to one step of Rendezvous or to none: `SendPosts`, `MessagePosts`,
`ReceiveTakes`, `ReceiveListens`, `ReplyAnswers` and `OwnerSets` show it for the calls, `ReturnShows` and
`UnseenSteps` for the second half of `receive`, interrupts and creation, which Rendezvous does not see.
`ReceiverNotMissed` is what makes a `send` to a waiting receiver reach it at once, and `OwedByOne` is what makes the debts
of Rendezvous well defined while an item is in the parameters of a woken receiver.

### Timer and Alarm

The inductive invariant `TInv` contains `KInv` and says how the processes use the kernel: which statement each is at
(`Places`), which states only sleepers, only the notifier or only the timer can be in (`Roles`), that a request keeps
its value on its way from the sleeper through the parameters of the timer to `got` (`Requests`), that an entry of
`ticks_left` that is not 0 belongs to a process that is owed a reply (`Entries`).

`NeverEarly` compares `elapsed`, which interrupts increase, with the number of ticks asked for, of which the walk
counts down a copy later.  What relates them is `Pace`: a sleeper that asked for n ticks has seen at least

    n - Left + Coming

interrupts, where `Left` is what its entry still holds (n until the request is taken) and `Coming` counts the ticks under way that
will still be counted for it: at most one at the notifier (signalled, or queued at the port behind which
no request of this sleeper stands) and at most one at the timer (received, or being walked with the entry still ahead).  An interrupt that finds the
notifier busy increases only `elapsed`; one that finds it waiting increases both sides.  A request that is queued behind
the notifier's message is the case that a test would hardly reach: the tick that is already in the queue must not count for it, and it does not because
lists are served in order (`BlockedOnOnePort` and the position in the list).  `Undelayed`
says that no sleeper runs between an interrupt and the notifier's message; it is what the assumption about the
priorities is needed for.

`AlarmImplemented` uses the same invariant.  The mapping shows a request as asked until it is taken, and an entry that
the walk has still to come to as already counted down (and as due, if it was 1).  So the whole tick of Alarm is the
receipt of the notifier's message (`WalkTicks`), taking a request is `RequestTakes`, a reply in the walk is `WalkRings`,
`sleep` is `SleepAsks`, and everything else is a stutter, which `SameView` reduces to four facts about each sleeper.

`NothingElsePanics` complements the run `timer_port`: the panic found there is the only one that exists.

### Com

With one client (`OneClient`) com.c keeps its word whatever the priorities of the client, of `com_process` and of the
reader are; that the reader's is higher in the code matters for speed only.  The inductive invariant `CInv` contains `KInv` and says:

* `Roles`: which process is in which call, and who can stand in which list;
* `Items`: what `receive` hands out is the order of the client, the job made of it, or the report, by where `com_process` and the
  reader are, also while an item waits in the parameters of a process that has been woken but has not run;
* `Turns`: while a command is answered the job is in exactly one place: posted and not yet taken, with the
  reader, or reported; so the second `receive` of `com_process` cannot meet anything else;
* `Progress`: the buffer holds the first j bytes of the answer, and the line has the rest: either the command is
  not written yet, or its last character is being sent, or `answer` holds the bytes from j + 1 on.

`Turns` is what two clients break, in the run `com_shared`: the second receipt can be the other client's order, and then
`AnswerComplete` fails as well.  `ByteAwaited`
is the step in which all parts are needed: a byte that arrives finds the reader in `wait_for_interrupt`, because bytes
are left exactly as long as the reader collects (`Progress`), and the reader that collects and is not ready
waits for COM1 (`Roles`).  From it follows that the interrupt never panics.

### EventManager

`FocusIsOne` speaks of the moment when `em_process` and all listeners are idle, and says nothing of the others; in between,
a FOCUS_OUT may be handled, a FOCUS_IN be on its way, and further keys wait in two queues.  What survives every step
is `FocusInTransit`.  It speaks of what a listener *will* think of the focus once it has handled what was sent to it, in the
order in which it will handle it: the event it has received (`Handled`), the one that it will find in its
parameters (`Returned`), and the one with which `em_process` stands in the list of its port (`Will`).  Only the listener at
`kboard_focus` may think in the end that it has the focus, and between a FOCUS_OUT and its FOCUS_IN (`next`, `in`) nobody
does.  There can be no fourth event because `em_process` is blocked by the third; that is where `BlockedOnOnePort` is
used.  `Registers` says that `em_process` never looks at a slot that is counted but not yet filled, although registration
is not protected, and that `kboard_focus` stays below the number of listeners or is 0.

`PanicsOnlyIfStuck` follows at the step of the interrupt: `Roles` says at which port the notifier can be blocked, and
`ReceiverNotMissed` that `em_process` then is not waiting in `receive`; it is ready, or blocked at the port of a listener.

After a panic nothing changes, so that the invariant is `fault = "none" => EmSound`, with the two properties beside it.
`EventAssumption` demands what `main.c` does: the two notifiers, `em_process` and the listeners are different
processes, and the boot process is none of them.

### Ne2k

The invariant `NeInv` has four parts, which are proved with one lemma for each kind of step; `SetupEffect`, `TransmitEffect` and so on say
what a step of that kind may change, so that the many accesses are looked at only once.

*The registers*.  `Registers`, always: page 1 and the loopback mode are somebody's doing.  `PageKept` and `BoundsSet`, as long as
the notifier does not come in while the user has page 1: then page 1 stays until the user leaves it, CURR and the station
address go where they belong, and the bounds of the ring are not overwritten.

*The frames* (`InOrderInv`, as long as `cut` is empty).  `ReceivedIsThere`: a PRX that can still
be acted on, in the status register, in the notifier's copy of it or behind it, means that there is a frame; the
set-up empties the ring and the status in different steps, and between them PRX may be
wrong, which is why it excepts the steps of the set-up.  `FrameInHand`: while the notifier sets the card up,
the frame it has just read is newer than all that were handed on and older than what arrives meanwhile.
`HeadIsNewer` is the same of the frame at the head of the ring, when nobody has set the card up half (`Settled`).  `Undisturbed`: the user is in its set-up only
while the notifier rests, so that there is no frame in hand then.  `SetupFirst`: at boot nothing arrives before the ring has its bounds.

*The answers* (`AnswerInHand`, as long as the user sends no datagram and `"page"` is not in `cut`).  From the moment the notifier has begun remote DMA until
it starts the transmitter nobody else takes the DMA or the transmit buffer, although the user may set the card up in the tick that the
notifier sleeps; `PageKept` makes TPSR reach the card after that tick, and `BoundsSet` keeps arriving frames out of the buffer.

*The table*: the invariant of Arp, since nobody but `ne_dpc` writes it.

### Protocol

What the receiver computes is a sum of 16-bit words, folded twice (`Carried`) and complemented.  `CarriedFacts`: for a sum of
at most 32 bits the result is congruent to the sum modulo 65535, and is 0 only if the sum is (so 0 and 65535, which
are congruent, are not confused).  Hence (`ChecksumChange`) two sums that differ by a number that is not a multiple of
65535 have different checksums.  `OwnAccepted`: the receiver's sum differs from the sender's by the field itself, which is
0 at the one and counts as 65535 at the other, that is by a multiple (`ReceiverSum`).  `ChangeNoticed`: a bit that
changes in word k changes the sum by a power of 2, at most 32768 (`FlippedWord`, `TotalChange`), which is no
multiple.  A byte of the data is one half of a word (`DataChange`); an odd last byte is a word of its own.

`Total` is a recursive function, of which `PartialExists` proves (by the least number at which it could fail) that it is
the sequence of partial sums; from there `TotalChange` and `TotalBound` follow.  `ProtocolAssumption` limits data to
65507 bytes, which is what an IP packet holds; with it no sum exceeds 32 bits, so that the test of the highest bit in
`udp.c:53` and `ip.c:46` never matters.

### Arp and FatTable

The invariant of Arp adds to the two parts of `LatestAddress` that a slot is in use exactly when its address is not 0.0.0.0, and that no address is
in two slots in use; without it the first match of a search would not be the only one.

`EntriesAreKept` is about bytes.  `Packed12` shows that setting an entry of a FAT12 table keeps the half byte of the neighbour on
either side (`EvenEntry`, `OddEntry`, `SharedByte`); `EntryInSectors` that the sectors which are
written contain both bytes of the entry, also at the end of a sector (for FAT16 this needs sectors of an even size);
`WrittenThrough` that the device therefore has the same table as the memory, so that loading it changes nothing.

### ScanCodes

A key sends up to six codes, and parts of them are what other keys send: Pause has the codes of Ctrl and Num in it, Print
that of Shift.  So the invariant `ScanInv` has to say, for each rest of a sequence that may still be to come, what the codes
before it left in `special` and `ignore` (`Codes`), and who is behind the modifiers (`Modifiers`): `control` and `shift` are
set only if a key that sets them is down or has just been lifted, `shift` exactly if a shift key is down and
`lifted` does not say that another one was lifted meanwhile, and `alt` exactly if `alted` says so.  `CodeFacts` and `IgnoredFacts` say what one pass of the loop does to
the flags; `FinalMade`, `FinalLifted`, `PrefixStep`, `PauseStep`, `PrintMade` and `PrintLifted` go through the sequences.
`KeyAssumption` demands that the keys are some of those whose codes the module knows.

### FatNames

`NamesAssumption` demands that a word contains no space, since a command line ends it there.  `Eleven` gives the eleven
characters of a name whose parts are short enough, which is what all four functions make of it: `UpperSpelled` says that it does not
matter whether the name is changed to upper case before it is laid out or after.  `FieldRead` is the converse: the eleven
characters have one name only, because a shorter word is followed by a space and a longer one has none there
(`PaddedWords`).

### Only model-checked

* Liveness (`UrgentRuns`, `SleepEnds`, `EachKeyTaken`, `EachCommandAnswered`, `DpcEnds`): the prover handles
  neither `ENABLED` nor fairness.
* `FilesIntact` and `VolumeInOrder`: the chains of clusters and the walks along directories are recursive, and an invariant
  would have to say by induction over their length what they contain.
* `LineShown`, `WindowsApart`: what is on a screen after any sequence of writes that scroll and wrap, again by
  induction over sequences.
* `BackWithWagon`, `NoContactMissed`: they are about one layout and one program, for which the finite instance is the whole
  subject.

## 5. Not modelled, and the plan

`PROJECT.json` gives the status of every component.  Left out for good:

* graphics, the pixel part of windows, and the games pacman, pong and fireworks: output; to the kernel they are
  listeners and sleepers as in EventManager and Timer;
* the library, `vsprintf`, the registers and stacks of processes: helpers without interaction;
* `keyb_process`, `em_test_process`, `ne2k_driver_process`, `ne_get_packet`, `eth.c` and the code of `fat.c` for
  a device in the running system: nothing calls them;
* the exception handlers, the set-up of IDT, interrupt controller, UART and timer chip: port I/O;
* tests, boot loader and the host tools `serial`, `ttc`, `udp`, `pong`, `UDPChat`;
* the train configurations with a Zamboni: a third vehicle that never stops, and a program that measures time by counting
  probes; that a train comes back at all (the program waits for ever for a train that ran off the track before it was seen);
* in the shell, `ps`, the games and the commands of the network and the train, whose effect is in Ne2k and Com; the
  window of the train program;
* in the FAT tools, `fatsys`, the geometry of `fs_init`, faulty arguments, names with two dots, and `fatdel` of a directory.

What the modules assume and the code does not enforce: a keyboard or serial interrupt finds its notifier at rest unless
the notifier is stuck; a network card is present; a tool of the host is not interrupted between two of its
file operations other than by its end; a volume starts as zeros; only the owner opens or closes a port.

Worth modelling still: the blocked lists of `ipc.c` as pointers that implement the sequences of Kernel.
