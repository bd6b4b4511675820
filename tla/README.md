# CocosOS in TLA+

TLA+ models of the kernel core of CocosOS, TLC configurations that check them on
small instances, and proofs of the main properties for every value of the constants.
Paths are relative to the repository. Checking a module: `tlc -config MCHeap.cfg MCHeap`;
checking the proofs: `tlapm HeapProofs.tla`.

## 1. Inventory

| component | code | state it keeps | operations | used by |
|---|---|---|---|---|
| kernel heap | kernel/memory/memory.c | list of block headers in one arena | Memory_init, Memory_alloc, Memory_free (coalesce) | everything that allocates |
| RAM file system | filesystem/vfs.c, ramfs.c | chain of nodes from `root`; contents on the heap | vfs_create, vfs_write, vfs_read, ramfs_init | boot, fs API |
| event ring | kernel/events/event.c | 64 slots, head, tail | event_push (spelt `event_pust` in its definition), event_poll | interrupt handlers push, the main loop polls |
| input ring | kernel/input/input.c | the same, second ring | input_push_event | handlers push, nobody polls |
| main loop | kernel/kernel.c:64-99 | its local event | poll, dispatch, keyboard_read, hlt | runs for ever after boot |
| process scheduler | process_manager/process.c | list of processes, current_process, saved contexts | create, kill, sleep, yield, scheduler_tick, scheduler_switch | timer, processes |
| paging | kernel/memory/paging.c | frame bitmap, used_frames, directories and tables | allocate/free a frame, create a directory, map, unmap | process_init, process_create |
| message queue | IPC/ipc.c | 20 slots, head, tail, count | ipc_send, ipc_receive | nobody yet |
| round-robin scheduler | scheduler/scheduler.c, switch.asm | ring of tasks, current | scheduler_add, scheduler_tick | IRQ 0 (interrupts/irq.c includes its header) |
| process table | process_manager/process_manager.c | 10 slots, a count | create_process, kill_process, scheduler_tick | nobody yet |
| boot, IDT, PIC, PIT, disk | boot, kernel/entry.asm, kernel/kernel.c, IDT, PIC, timer/pit.c, drivers/disk | chip registers, gates, the drive's status | once, in order | the machine |
| file table | filesystem/fs.c | 32 slots, a count | fs_init, fs_create, fs_write, fs_read | kernel_stage2 |
| network, WiFi | kernel/drivers/net, wifi | device lists, connection state | register, poll, send; scan, connect, disconnect | drivers |
| mouse, keyboard | kernel/drivers/mouse, keyboard | packet under assembly, position | handlers | interrupts |
| logical kernel | kernel/kernel.lua, runtime/runtime.c | services, applications, listeners, booted | register, run, on, emit, boot, tick | Lua applications |
| terminal, shell, cpm | terminal, shell, cpm | line buffer | terminal_input, shell_execute, cpm_main | nobody yet: the main loop calls terminal_handle_key, which is not defined |
| applications | apps/*.lua | lists shown on the screen | clicks, keys, commands | user |
| installer | installer/installer_gui.c | language, list of systems, the disk | two menus, detection, nine shell commands | user |
| Shellby, panic, GUI, blade | IA, kernel/panic.c, GUI, blade | files, screens | sequences of steps | user |

Three files define `scheduler_tick`: scheduler/scheduler.c, process_manager/process.c and
process_manager/process_manager.c. irq.c includes the header of the first. Each is modelled
on its own, with the timer as the caller. `switch_context`, `timer_get_ticks` and `fs_mkdir`
are used and defined nowhere; they are modelled by what their callers expect of them.
process_manager.c says RUNNING where its header says RUNNIG, and installer_gui.c uses
`idioma_seleccionado` above its definition: both are read as if they compiled.

What is hard here: interrupts between any two instructions of code that has no locks (event
ring, message queue, process switch); loops over linked structures that must end; a heap that
runs full in the middle of a file operation; unsigned arithmetic at its edges (rounding in the
allocator, `used_frames` below zero); stale choices (a process picked, then interrupted); and
code that is followed by other code which undoes it (process_sleep). PROJECT.json lists every
hazard with its line and the properties that look at it.

What makes each component correct:

* heap: the blocks tile the arena; a block is in use exactly when somebody holds it; freed
  neighbours are merged; failure means that nothing fits; every call returns;
* file system: it is a map from names to contents, whatever the heap does; every block has one
  owner;
* event ring and loop: what is polled is the newest events in order; nothing is lost before an
  overrun; everything is polled in the end;
* processes: the CPU and the contexts agree on who runs; no two are RUNNING; what sleeping
  and priorities really do;
* paging: a frame has one owner; the bitmap is exact; what the free count is worth;
* message queue: a bounded first-in first-out queue under preemption;
* round robin: the ring holds every task; every task has its turn; a turn is the CPU;
* boot: interrupts find a gate, and the main loop lasts;
* drivers: a frame fits and leaves through a device that works, a poll ends, the WiFi state
  agrees with the link, the mouse's position is the sum of its movements;
* process table: who is killed stays dead, who is not has a turn in every tick;
* file table: what is written is read back;
* terminal: a command is what was typed, and nothing an earlier line left behind;
* installer: a completed installation is a whole one;
* logical kernel: every application is initialised, and once.

## 2. Plan

Order: the heap first, since everything stands on it; the file system on top of it; then the
parts where interrupts and preemption bite (event ring, processes, message queue); then paging,
the second scheduler and the desktop's list applications; then the boot sequence, the drivers
(network, WiFi, mouse) and the programs that stand alone (process table, file table, terminal
with shell and cpm, installer, the logical kernel's applications). All of these are done.
Every safety and action property of the runs, and both refinements, are proved as well (section 5).
Still to come:

1. Proofs: bounds on the calls of `Vfs`, as `HeapCallsShrink` gives them for the heap.
2. `KernelLua`: services, events other than "boot", ticks, listeners added inside emit.
3. The application store and the Shellby exchange, both of which fail in the middle.
4. The disk's write path, once something calls it, and scancode translation.

## 3. Modules

| module | models | state ↔ code |
|---|---|---|
| `Heap` | memory.c | `size`, `used`, `next` are the header fields by header address; `pc`, `cur`, `want` the running call; `grant` (history) what callers hold |
| `HeapProofs` | | proofs about `Heap` |
| `FileStore` | abstract | a map from names to contents, with what a failed call may do |
| `Vfs` | vfs.c, ramfs.c, boot's use of the heap | EXTENDS `Heap`; `chain` is the list from `root`, `node` the node fields, `mem` the bytes behind data pointers, `vpc`/`call` the running vfs function |
| `VfsProofs` | | proofs about `Vfs`, on top of `HeapProofs` |
| `EventLoop` | event.c, the producers, kernel_run_userspace | `head`, `tail`, `no`/`kind` (slots), `lc` the loop's place, `e` its local event; `n`, `last`, `overrun` history |
| `EventLoopProofs` | | proofs about `EventLoop` |
| `Process` | process.c | process fields by pid, `current`, `context` (which thread is saved where), `running` (who really has the CPU), `at`/`picked` each thread's place in scheduler_switch |
| `ProcessProofs` | | proofs about `Process` |
| `Paging` | paging.c | `bitmap`, `used_frames`, `tables`, `entries`; `held` history |
| `PagingProofs` | | proofs about `Paging` |
| `BoundedFifo` | abstract | a queue with a capacity |
| `Ipc` | ipc.c | `msg`, `head`, `tail`, `count`; `sc`, `rc` the places of sender and receiver |
| `RoundRobin` | scheduler.c, switch.asm | `current`, `next`, `saved` (esp), `running` |
| `QueueProofs` | | proofs about `Ipc` and `RoundRobin` |
| `DeskApps` | apps/notificaciones.lua, portapapeles.lua, gestor-tareas.lua, buscador.lua | the scripts' local variables by their own names; `seleccionado` is 0 for nil; `app` which script runs; `atendidaCon` history: how many notifications there had been when one was read or closed |
| `Boot` | boot, kernel.c, disk.c, IDT, PIC, timer/pit.c, interrupts | `at` what is executed next, `busy` the drive, `pic` the first 8259, `gates`, `enabled`; `served` history |
| `Nic` | drivers/net/nic.c | the list by its fields, `current` of net_poll; `linked`, `up`, `twice`, `visited` history |
| `Wifi` | drivers/wifi/wifi.c | `global_state`, `default_dev`, the call under way, whether there really is a link |
| `Mouse` | drivers/mouse/mouse.c, keyboard_read | the handler's variables by name, `port` the byte at 0x60, `device` what is still to be sent; `moved`, `disturbed` history |
| `DeviceProofs` | | proofs about `Boot`, `Nic`, `Wifi` and `Mouse` |
| `ProcessTable` | process_manager/process_manager.c | `state` and `func` of each slot, `i` and `place` of the tick; `killed`, `suicides`, `ran` history |
| `FsTable` | filesystem/fs.c | `files`, `file_count`; `lastWritten`, `leftover` history |
| `Terminal` | terminal.c, shell.c, cpm.c | `input_buffer` and `input_index`, `argv`, `dirs`; `typed` history |
| `Installer` | installer/installer_gui.c | `phase`, the menus' variables, `done` of the commands, what is on the disk and beside it; `failed` history |
| `KernelLua` | kernel/kernel.lua | `apps` names to objects, `calls` the stack of nested calls, `walk` and `unvisited` boot's loop; `once`, `twice`, `reentered`, `due` history |
| `ProgramProofs` | | proofs about `ProcessTable`, `FsTable`, `Terminal`, `Installer`, `KernelLua` and `DeskApps` |
| `MC*` | | constants for TLC; `MCDevices` and `MCPrograms` put components without common state side by side |

Conventions: an action has the name of the function or handler it models; a function that can
be interrupted or contains a loop is several actions. A definition followed by a variant such
as `Fits_Strict` before `Fits` is a plausible mistake in that line of C; the variant is used by
no specification, and serves to show that a property notices it.

### Choices that matter

* **DeskApps.** One click is one step, from leerclick to the end of detectarClicks. The walk over
  the rows is modelled as it stands: each row's tests (`EnX`, `EnLeer`, `Copiar`, `FilaProceso`, `Abrir`
  and so on) have the row's own local `y`, which hides the click's, and the walk returns at the first
  row that passes (`Primera`). That only the top row can pass is what comes out of it
  (`BelowOutOfReach`, and the lemma `RowTests`). The task manager's list is rebuilt from the same
  objects in the same order and is therefore a constant. Any term may match nothing. `MaxId`
  bounds how many notifications are made.
* **Heap.** One step is one iteration of the C loop. Callers free what they hold, once; NULL and
  foreign addresses are passed too. `Word` is 2^32; rounding wraps as in the code (the
  exception `GrantsHold` names). Memory_get_free has no caller and changes nothing.
* **Vfs.** Allocator calls run their loops inside the vfs function. Sizes stay below the wrap of
  the rounding (`VfsAssumption`), where vfs_write would write outside its block. `Stored` maps a
  name to its first MAX_NAME - 1 characters. A read without a buffer is to the store a read of
  nothing.
* **EventLoop.** A handler is one step (its gate disables interrupts) and may come between any
  two steps of the loop. Only vector 32 has a gate (IDT/idt.c:43) and timer_tick has no
  caller, so in the build as it stands the ring stays empty; the handlers are modelled as the
  interrupts their names say they serve. The event is copied in two loads. The input ring is
  represented by its tail only, as nobody reads it.
* **Process.** Creation succeeds (the code does not look at the allocator's answer) and is two
  steps, the pid taken and the process linked in; a thread whose creation was overtaken by another's in
  between, or by one inside `next_pid++`, sets `raced` too. Its reads of the list's head and of the
  next pid are at the first step, so that an overtaken creation counts as torn even where only the
  order of the list would differ. Pids do not wrap. The tick is one step, on the stack of the interrupted thread. A
  tick between two writes of a switch sets `raced`; what follows a torn switch is not followed
  further, and the properties say "unless `raced`": they name the windows that would have to be
  protected. `ticks` advances although nothing in the repository calls timer_tick.
* **Paging.** Callers free frames they got from paging_allocate_frame and still hold; the heap
  has room for directories and tables. Page flags, translation and the TLB are left out.
  Frames are given out in order from 1 MiB up, so kernel page i maps to frame StartFrame + i
  and not to itself.
* **Ipc.** One sender, one receiver, preempted between statements; `count++` is one instruction
  at -O2 and cannot be torn by an interrupt on one CPU. Two senders would overwrite each other
  (see the hazards).
* **RoundRobin.** scheduler_add is one step: nothing calls it yet, and a tick inside it is a
  listed hazard of the message-queue kind. Every task is added once.

* **Boot.** The 8259 is modelled by what it does with the words it is sent: pic_init's four
  (0x11, 4, 1, 0xFC) are taken as command, vector base, wiring and mode, and none of them as a mask.
  Of the processor: without a gate it takes no interrupt, and there are no gates for the faults
  that follow either. The drive may be busy for ever. `DriverAnswers` contains the 1 the driver
  really answers and a 0; only with the 0 does boot pass kernel.c:18.
* **Nic.** Calls do not overlap, except that each step of a poll's loop is a step of its own.
  A device may be registered again after its init failed: nothing forbids it.
* **Wifi.** Each call of a driver (scan, connect, disconnect) is two steps, before and after the
  driver has worked, so that the state in between can be seen; a driver that refuses to connect may or may not have dropped the old link.
* **Mouse.** The time-out of 100000 looks is a wait that may end with nothing. The controller's
  configuration byte (mouse.c:74-84) is left out.
* **ProcessTable.** Functions run to their end and may create and kill meanwhile. A call through
  NULL is not followed. The slots of killed processes are never used again, as process_count
  never goes down.
* **FsTable.** fs_init may be called again on a table in use, though kernel_stage2 calls it once.
* **Terminal.** One letter stands for all characters that are neither space nor newline, and
  the words cpm knows are words of that letter. Names are short enough for cpm_install's `ruta`.
* **Installer.** Every command can fail at any time, and must when it is impossible (mkfs on a
  mounted device, a file in a directory that is not there). A format, a copy, the boot loader or a
  file may fail half-way and leave a part (`HalfDone`).
* **KernelLua.** A registration replaces the object of its name. What pairs() delivers after a
  new name was added during its walk is left open, as Lua leaves it. An error that an init or a
  listener raises is caught nowhere in kernel.lua: it unwinds everything to the program's runner
  (runtime.c:18), which closes the Lua state (`InitRaises`). An application that guards its own
  calls of the kernel with pcall, of which the repository has none, would see the difference
  between runApp, which has marked the object already, and boot, which has not; this is left out.

## 4. Runs

| run | instance | what it shows |
|---|---|---|
| `heap` | 72 bytes, 12-byte headers, sizes 0, 1, 14, 28 and two that wrap | four blocks: enough for a split on both sides of every free, exact fits, rests too small to split, failures. Sizes beyond that repeat the same cases |
| `vfs` | 148 bytes: boot's blocks and two or three files | creation and both kinds of write fail for want of memory; a name longer than the limit, the same name twice, size 0; `Vfs` implements `FileStore` |
| `events` | ring of 3, 7 pushes | producers lap the loop twice at every point of event_poll |
| `process` | 3 processes, priorities 1 and 255, one delay | every preemption point of every call; a process of priority 255 is never among the ready ones and runs only as the head of the list, when nobody is ready |
| `paging` | 5 frames, 2 below 1 MiB, 2 directories of 2 tables of 2 pages | more pages than frames, so the panic is reached |
| `ipc` | 3 slots, texts that fit, fill and overfill a slot | `Ipc` implements `BoundedFifo` |
| `round_robin` | 4 tasks | tasks added in every order between ticks |
| `desk_apps` | 14 x 6 coordinates, one inside and outside of every button and column; 3 notifications, 4 history entries | every click from every state; the lists run full and are emptied; a filter matches nothing |
| `boot` | lines 0, 1 and 6, a driver that answers 0 or 1 | an interrupt at any moment from the first sti on; the machine restarts as often as it likes |
| `devices` | 3 network devices of which 2 can send, lengths at both sides of the limit; 2 WiFi drivers, one without disconnect; 3 packets of the mouse | every order of registrations, refusals, polls and frames; calls and lost links; bytes late, stolen and out of range |
| `programs` | 4 slots of processes, 3 files and 3 names, a buffer of 8 with 3 arguments, 3 languages and the 9 commands, 4 registrations of 3 applications | every slot count and every way to kill; the table full, names twice, too long; lines that are longer than the buffer, shorter than the last one, of more words than arguments; every set of failing commands; every nesting of calls |
| `round_robin_runs` | 2 tasks | violated: an added task never runs (section 6) |

Deadlock is checked in every run; states in which the system has stopped (a panic, a torn
switch, a halt, a finished installation) stutter by an action of their own.

Bounds: `MaxPush` (events pushed), `MaxProcs` and `MaxTicks`, `KernelPages`, `MaxId`,
`MaxPackets`, `MaxObjects`, the sizes of tables and buffers, and of the sets of requests, names
and texts. All are constants of the modules and none appears in a
proof as more than a natural number.

Refinement: `FileStore` under the mapping "the content of a name is that of the first node with
that name" (`ContentOf`), and `BoundedFifo` under "a message is in the queue from count++ to
count--" (`Queued`).

Fairness: `HeapStep` and `VfsStep` (a running call goes on), `LoopStep` (the main loop runs when
nothing interrupts it) and `irq0_handler` (the PIT is programmed at 1000 Hz and its interrupt
ends hlt), `scheduler_tick` in both schedulers (the same timer) and `SwitchStep` (a thread that
has the CPU executes). In `Boot`: `BootStep` (the processor executes), `Rise(0)` (the BIOS leaves the
timer running), `Interrupt` of each line (a line that may be delivered is); nothing is assumed of
the drive. In `Nic`: `PollNext` (a poll's loop goes on). No caller is assumed to call. `Drains` relies on the producers stopping
after `MaxPush` events: with producers faster than the loop the ring need never be empty.

## 5. Proofs

For every value of the constants that satisfies the modules' assumptions:

* **Heap** (`HeapInvariance`): the safety properties are not inductive by themselves. The
  strengthening adds what the loops know: while scanning, every block before `cur` does not
  fit; while coalescing, no two neighbours before
  `cur` are both free (`FirstFit`, `Coalesced`). From it follow `TypeOK`, `Tiled`, `GrantsHold`, `NoAdjacentFree`,
  `FailsOnlyWhenFull`, `Recovers` and the action property `GrantsStable`. `HeapCallsShrink` gives the
  loops a measure (`ToDo`) that every iteration lowers: a call ends within twice the arena's size.
* **Vfs** (`VfsInvariance`): stands on the heap's invariant. `Ownership` speaks of the moments between calls;
  the invariant says who owns what at every iteration of the allocator inside one: a block just
  handed out that nothing points to yet (`Fresh`), a node whose content has been freed and that
  still points to it (`Settled` leaves it out). `Contents` ties node, heap and bytes together, and
  `RoomLeft` says that after the free of the old content as much fits again, which is why a write
  that is no longer than the old content never fails. `VfsImplementsFileStore` maps every step to an operation of
  `FileStore` or a stutter; its lemmas say what an iteration of the allocator looks like to the
  caller (`HeapStepIs`) and what a new first node hides (`FindAfterPush`).
* **EventLoop** (`EventInvariance`): until the tail wraps it is the number of pushes
  (`FirstLap`); every slot holds the newest push that is congruent to it
  (`Stamped`), the event in hand is older than all that can still be read (`Newer`), and before an
  overrun the event in hand is whole (`Whole`). From it `SeesNewest`, `NothingLost`, `InOrder`, and
  `EventWorkShrinks`: with an event in the ring every step but a push lowers `Work`.
* **Process** (`ProcInvariance`): who has the CPU and what its switch remembers (`PCpu`), that
  everyone else is saved in its own context and outside the window (`PSaved`), where pending
  switches go (`PPicked`), and which states are possible (`PStates`). From it `ThreadsKept`,
  `OneRuns`, `NobodySleeps`; with the further invariant that the idle process is ready or on its way to
  the CPU (`PIdleInv`), `IdleInBetween` and `ProcTickToIdle`.
* **Paging** (`PagingInvariance`): exclusive frames, the exact bitmap, every frame given out is above
  the first megabyte, and `used_frames` as a function of the number of clear bits. From it
  `FramesExclusive`, `BitmapExact`, `FreeCountOff`. The modular arithmetic of size_t is in
  lemmas of its own.
* **Ipc** (`QueueInvariance`): `SlotsApart` needs that tail is head plus count, off by one while one
  side stands between its two assignments (`Placed`), and that what a call read of
  `count` still permits what it does later, since the other side can only have made it safer
  (`Room`). `QueueImplementsFifo` maps count++ to the abstract send and count-- to the abstract receive; `InTransit` keeps the message
  itself through the preempted copy.
* **RoundRobin**: `RingWhole` is inductive as it stands, because it says "one circle" without
  recursion: no smaller set of tasks is closed under `next`. The way from one task to another is
  the least set that holds the one and the successors of its members up to the other (`Way`); it
  does not come back to where it began (`NoReturn`), so every tick brings each turn nearer
  (`RingTurnsComeNearer`).
* **Boot** (`BootInv`): the first 8259 takes pic_init's words as base, wiring and mode in this order,
  so its vectors stay at 8 or go to 0, and no line has a gate. From it `NoneServed`, for any set of lines.
  `BootNeverPassesDisk`: with the driver's answer 1 nothing beyond kernel.c:18 is reached.
  `BootTickRestarts`: none of the words is taken as a mask (`LinesOpen`), so a tick always gets through to the main loop,
  and restarts the machine.
* **Nic** (`NicInv`, `ListInv`): the default device is up or was registered twice. As long as none was, every set that holds
  what a walk of the list passes holds all linked devices, and during a poll all that were not yet asked;
  from it `SendsSafely` and `PollAsksEveryDevice`.
* **Wifi** (`WifiInv`): a link that is up during a scan has survived an attempt to replace it. From it `LinkKnown`.
* **Mouse** (`MouseInv`): the bytes still under way, with the ones already in `mouse_byte`, form whole
  packets behind the acknowledgement, and there are positions after each of them that lead from
  the pointer's to the true one (`Underway`). It says this with quantified positions, where a sum
  over packets would need induction. From it `Tracks`.
* **ProcessTable** (`TableInv`): which slots are WAITING or RUNNING and have a function (`SlotsOK`) and that a tick has
  called, or found killed, all it has passed (`Passed`). From it `DeadStayDead` and `EveryoneRuns`.
* **FsTable** (`FsInv`), **Terminal** (`LineInv`: the front of the buffer is the line), **Installer**
  (`ScriptInv`: what each command leaves to the next ones, if it failed too), **KernelLua** (`Nested`,
  `Marked`: boot occurs once on the stack of calls, and what is initialised is marked or about to be) : from them
  `ReadsBack`, `WhatYouType`, `WholeUnlessFailed`, `InitOnce`.
* **DeskApps** (`DeskInv`): the notifications' ids fall from the top of the list and what was read or closed had no
  newer unread one beside it; the task manager has selected nothing or row 1; the search shows
  what its term matches and has selected nothing before a term. A lemma evaluates every row's tests
  for every row (`RowTests`), another the walk (`FirstRow`), and a third which notification an id finds (`OneOfEachId`). From it
  `BelowOutOfReach` and `SelectionBacked`.

Each is proved by one step per action, and closed with PTL from `Init => Inv`,
`Inv /\ [Next]_vars => Inv'` and `Inv => property`; an action property from `Inv /\ [Next]_vars => [A]_vars`,
and a refinement from initial states that map to initial states and steps that map to steps or
stutters. The assumptions are those named in the modules, no more, and the runs evaluate them.

The type invariants (`TypeOK`, `EventTypeOK`, `ProcTypeOK`, `PagingTypeOK`, `VfsTypeOK`, `IpcTypeOK`,
`RingTypeOK` and those of the drivers and programs) are parts of these
inductive invariants and are proved with them; no run names one, and `Ownership`, `SlotsApart` and
`RingWhole` contain theirs.

Only model-checked: liveness (`CallsReturn`, `Drains`, `IdleReturns`, `EveryTurnComes`,
`LoopEnds`, `PollEnds`), which rests on fairness and ENABLED and is beyond the prover. The steps
it is made of are proved where they can be said of one step: `HeapCallsShrink`,
`EventWorkShrinks`, `ProcTickToIdle`, `RingTurnsComeNearer`, `BootTickRestarts`, `PollAsksEveryDevice`;
what TLC adds is that the scheduling lets these steps happen. Also beyond the prover: what a
recursive definition computes for every
input, which is why no theorem is about sums or lengths of lists.

## 6. What the checks showed

* `TasksRun` is violated: context_switch (scheduler/switch.asm:6) stores the old stack pointer
  and returns without loading the new one. The ring turns, the CPU stays with the boot thread.
  CONTRIBUTING.md:114 calls this directory the multitasking scheduler.
* Properties that hold and that a reader may not expect: `NobodySleeps` (process_sleep never
  makes anyone wait, since the switch it calls overwrites SLEEPING with WAITING),
  `IdleInBetween` (the idle process has the best priority and runs between any two others), and
  `FreeCountOff` (the free-frame count exceeds the truth by the whole memory).
* Outside two windows no preemption the model has harms the scheduler's bookkeeping: between the
  writes of scheduler_switch, and between a creation's taking of its pid and its entry in the list when
  another process creates one meanwhile. Inside them one does, as `raced` marks.
* Several properties name the bad case of a hazard as their only exception. They show that nothing else
  goes wrong, and do not detect that case: `GrantsHold` (the size that wraps), `NothingLost` (an
  overrun), `ThreadsKept` and `OneRuns` (a torn switch), `PollEnds` (a device linked in twice), `LinkKnown` (a
  failed attempt to connect that left the link), `Tracks` (a stolen or late byte), `DeadStayDead` (a
  self-kill), `InitOnce` (run again from within its init). `BitmapExact` does not see the table entry that
  a panicking paging_map_page leaves. The notes in PROJECT.json say so at each of them.
* A ring overrun loses whole laps and never reorders, but an event in the middle of being copied
  may be torn; `NothingLost` says exactly when it is not.

* The boot stops at kernel.c:18, since disk_read_sector answers 1 for success. With a driver that
  answers 0 the system does not stay up either (`NoneServed`, `LoopEnds`): pic_init leaves out the
  base vector, the timer's interrupts arrive at a vector without a gate, and the machine starts
  again, at the latest from the main loop.
* A network device that is registered again after its init failed closes the list into a circle:
  `PollEnds` holds with that exception only. A device whose init failed is polled like the others.
* The WiFi state errs in two ways: CONNECTED after the link was lost, DISCONNECTED with the old
  link still up after a failed attempt to replace it (`LinkKnown`).
* The mouse's handler never finds the first byte of a packet again once a byte was lost to
  keyboard_read or an acknowledgement came late (`Tracks`).
* A process that kills itself is made WAITING again and the next tick calls NULL; nothing else
  has this effect (`DeadStayDead`). Killed slots are never reused: after ten creations
  create_process fails for good.
* fs_create gives a file the data its slot held before (`ReadsBack`); this shows only when fs_init
  is called on a table in use.
* "Installation complete!" is said whatever failed. `WholeUnlessFailed` says what is then where:
  without a mount the files go to the running system's directory, and a disk that could not be
  unmounted keeps its old system under the new one. The backup directory stays empty; cpm remove
  removes nothing.
* boot in kernel.lua marks an application after its init, runApp before it; the difference is one
  double initialisation (`InitOnce`).
* The rows of the desktop's lists compare their own `y` with itself: only the top of a list can
  be clicked. The task manager can select only kernel.lua, which it refuses to end, so it never
  ends anything; a notification under an unread one cannot be read or closed (`BelowOutOfReach`). A search
  that matches nothing keeps the row selected before (`SelectionBacked`).

## 7. Not modelled

The components PROJECT.json lists as not modelled: output and drawing (GUI, console, logs, the
Blade bridge, `panic`, which only halts), wrappers of calls that are not defined here (API layer,
runtime), and, for later, the application store, the core services in Lua and Shellby. Of the
modelled ones: Memory_get_free, disk_write_sector, page flags, translation and the TLB (a frame is
given back at paging.c:114 while the TLB may still know it), scancode tables, text output, the
second interrupt controller (masked), and what a NULL from the allocator does in process.c and
paging.c (a write through address zero, whose effect depends on what is mapped there). Functions
that kernel_main calls and nobody defines (lua_run, gdt_init, mm_init, device_init, gui_init and
others) are not modelled at all.
