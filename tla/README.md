# Muffin OS: a TLA+ model of the kernel

Muffin OS is a preemptive, multi-CPU kernel for x86-64 written in Rust, with a
small user space. This directory holds TLA+ models of its core, the TLC
configurations that check them on small instances, and TLAPS proofs of their
main invariants for every instance. Paths below are relative to the repository
(`src/` in `PROJECT.json`); `boot/` abbreviates `kernel/boot/src/`.

`PROJECT.json` lists the components, the runs, which source lines each
definition models (`map`), a mutant of the code for every checked property, the
findings, the hazards and the theorems.

## 1. The system

| part | state | operations that change it | what makes it hard | what must hold |
|---|---|---|---|---|
| parking lot (`kernel/park`) | chain of segments of slots; a state byte and an unsynchronised value cell per slot; tickets, ticket cells, wakers | reserve, try_reserve, split, release, park, unpark, wake | lock-free, called from interrupt handlers; park races unpark; slots are reused at once | no value lost or duplicated, no data race on a cell, no slot leaked |
| scheduler (`boot/mcore`) | per CPU: current, idle and zombie task; global run queue; corpses; sleepers | boot of each CPU, tick, reschedule, block, exit, sleep, cleanup | ticks between any two steps, several CPUs, a stack still in use after the task left the CPU | a task is in one place, a stack is used by one CPU, wakes arrive, corpses are dropped |
| signals (`kernel/syscall/src/signal.rs`, `boot/arch/signal.rs`) | actions, pending set, mask, stopped flag, outcome | kill, sigaction, sigprocmask, sigreturn, exec, fault, delivery at a tick | sender, tick and process act on one state in any order | Kill and Stop uncatchable, stop and Continue exclude each other, Kill ends the process |
| process (`boot/mcore/mtask/process`, `boot/syscall/exec.rs`) | interruptible wakers, stop-park tickets, task accounting, reap state | interruptible wait, stop park, resume, exec reap, retire | check-then-park races, stop racing Continue, tear-down racing siblings | no wakeup lost, nobody stays parked, exec tears down alone |
| address allocator (`kernel/virtual_memory`) | set of segments | reserve, mark_as_reserved, release | holes after many frees, inclusive ends | segments disjoint, first fit, refusal only when full |
| frame allocator (`kernel/physical_memory`, `boot/mem/phys.rs`) | counter of stage 1; frame table and `first_free` of stage 2; owners | allocate, free, switch of stages | cached hint, three page sizes, unaligned regions | one owner per frame, hint exact, failure only when full |
| memory regions, demand paging, address spaces (`boot/mem`, `.../process/mem.rs`) | regions of a process, page tables | mmap, page_in, page fault, clear | partial failure of a mapping, faults under locks | planned |
| VFS, paths, descriptors, devfs | mounts, nodes, open files | mount, open, read, write, seek, close | nodes that outlive a mount | planned |
| ext2, block devices | superblock, bitmaps, inodes, caches | allocate, create, read, write | several writes per operation, holes, stale caches | planned |
| ELF loader, initial stack | none (pure) | validation, layout | bounds | planned |
| process tree | processes, children | insert, remove, reparent | removal depends on the last reference | planned |
| drivers, interrupts, boot, logging, user space | hardware, or none | set-up, I/O | | left out, see section 7 |

The parts meet as follows. Every wait is a pair of tickets of the parking lot:
the scheduler parks a task in `reschedule` with the park ticket, and some wake
source (the sleepers list, a process's wakers, a stop, the cleanup task, a
reaper) holds the unpark ticket or a waker. Signals decide when an interruptible
wait ends and when a tick stops or terminates a task. The cleanup task drops
terminated tasks and so completes the reap that an `execve` waits for. The
allocators serve kernel stacks, mappings and page faults.

## 2. Modules

| module | models | how state and actions correspond to the code |
|---|---|---|
| `ParkingLot` | `kernel/park/src/lib.rs` | one variable per shared word, one action per atomic access; each thread has a program counter (`pc`), the slot it works on (`at`) and a local value; tickets are linear, so the sets of existing tickets are state; segments have identities: `heap` is the allocated ones, `next` the links, `fresh` the segment an appending thread holds until its exchange succeeds |
| `Handoff` | what the lot promises | a slot is idle, open, parked or fired; `ParkingLot` implements it under the mapping `Phase`, `Occupant` |
| `Scheduler` | `boot/mcore/mod.rs`, `mtask/scheduler`, `mtask/wait.rs`, `Task::exit_current`, the timer handler with its stop park | the fields of each CPU's `Scheduler`, the queues, the sleepers; `mode` is where a CPU is inside the tick or `reschedule`, `pc` where a task is in its own code; the lot is used through `Handoff`'s phases |
| `SignalState` | `kernel/syscall/src/signal.rs`, `boot/arch/signal.rs`, `boot/syscall/access/signal.rs` | one variable per field; one action per entry point; signals keep their numbers because the delivery order depends on them |
| `Process` | `boot/mcore/mtask/process/mod.rs`, `boot/syscall/exec.rs`, the tick's stop park | composes `SignalState` (by INSTANCE) with waits and reaping; one step per lock section or shared access; `image` is whether the address space holds a program, from the tear-down of `execve` to the end of the load |
| `VirtualMemory` | `kernel/virtual_memory/src/lib.rs` | the set of segments; `reserve` is one step per iteration of its loop |
| `PhysicalMemory` | `kernel/physical_memory`, `boot/mem/phys.rs` | the frame table, the hint, the counter of stage 1; `owned` is the set of live `OwnedPhysicalMemory` |

`MC*` modules give constants their values for TLC. `*Proofs` modules hold the
theorems. Definitions whose comment begins with "Mutant" are altered copies of
the definition below them, each a plausible bug that one property must detect.

Abstractions that matter when reading the results:

- Memory accesses are sequentially consistent. The orderings the lot passes to
  its atomics are not modelled.
- The run queue, the corpse queue and the wakers list are atomic FIFO queues or
  sets. Steps that touch only a task's own or its CPU's private state with
  interrupts off are merged into the shared access next to them.
- Two pairs of shared accesses are one step each. `UnparkAndEnqueue` unparks a slot
  and enqueues the task it held; in between the task is in the hands of the one
  caller and nobody else can find it. `FaultTerminates` makes the signal pending in
  one lock section and records the outcome in another. The faulting task does not
  return to user mode in between. A sender that records its outcome there is
  first, as it is when it sends before the fault.
- `block_current` and `exit_current` load the context, then put the ticket or mark
  the task as terminating, then disable interrupts. These are separate steps. The
  `current_task` they act on is read at the load or, after a tick that moved the
  caller, from the scheduler of the CPU it left.
- In `Process` a task that is ready is running: `Scheduler` answers for the gap.
- `Process` has one Ring 3 task. Its siblings are kernel tasks attached before it
  first runs, as in `tests/kernel/src/main.rs`; all other code attaches tasks
  to the root process or makes the one Ring 3 task of a new one. So
  `register_task` precedes `Init`, the number of live tasks only falls, and the
  branch of `reap_sibling_tasks` for a caller that is itself a reap target cannot
  be reached.
- `FrameMasks` bounds the masks that `sigreturn` may find in a signal frame in
  `Process`. `SignalState` allows every mask.
- Addresses are page numbers in `VirtualMemory` and frame numbers in
  `PhysicalMemory`. The byte arithmetic at the top of the address space is not
  covered.
- `Scheduler` has two switches. `TickInWindow` allows a tick anywhere
  between `ExecutionContext::load` and `cli` in `block_current` and `exit_current`.
  `TickInBoot` allows a tick on the bootstrap CPU between enabling interrupts and
  `install_idle_task`. The code allows both; section 6 says what follows. The
  passing runs on two CPUs have both off, so they show what holds apart from
  these two defects.

## 3. Runs

| run | instance | states | what it shows |
|---|---|---|---|
| `parking_lot` | 2 threads, 2 values, a chain of 1 slot that grows to 2 out of 3 segments, one waker and one cell of each kind | 185,592 | rights are unique and match the state byte (`RightsAreUnique`, `TicketsMatchState`), no slot leaks (`NoSlotLeak`), a segment is linked once or held by one appending thread (`SegmentsOwnedOnce`), no cell race (`CellRaceFree`), no value lost (`ExactlyOneOwner`), and the lot implements `Handoff` (`ImplementsHandoff`) |
| `scheduler` | 2 CPUs, 2 workers, booted, 3 slots | 118,241 | a task is in one place (`OnePlace`), a stack on one CPU (`StackExclusive`), every ticket, of a sleep, a stop or the cleanup task, keeps one wake to come (`WakeSourceLive`) |
| `scheduler_boot` | 2 CPUs from power-on, 1 worker, 1 slot | 756,584 | idle tasks do not migrate (`IdleStaysHome`); a task that must leave the CPU finds a successor (`MustSwitchFindsTarget`) |
| `scheduler_live` | 1 CPU from power-on, 1 worker, 2 slots, ticks in the windows too | 39,813 | terminated tasks are dropped (`TerminatedRetired`), sleepers run again (`SleeperRuns`) |
| `signals` | Continue, Kill, Segfault, Stop, TerminalStop; two custom actions | 86,304 | `Uncatchable`, `StopContinueExclusive`, `StoppedAwaitsResume`; Kill ends the process (`KillTerminates`) |
| `process` | Ring 3 task, 2 siblings, 4 signals, frames with an empty mask or one that asks for Continue, Kill and Stop | about 1.8 million | exec tears down alone (`SoleAtTeardown`) and returns only into an image (`ImageToReturnTo`), a stop park does not outlive the stop (`StopParkedWhileStopped`), no wait loses its wakeup (`InterruptNotLost`) |
| `process_live` | the same with 1 sibling, frames that ask for Kill and Stop | about 126,000 | Kill ends the process wherever its task is (`KillEnds`), execve gets past its sibling and ends in an image or with the process (`ExecFinishes`), an expired sleep returns (`SleepEnds`) |
| `virtual_memory` | 6 pages, sizes 0 to 3, fixed segments below, across and inside the range | 8,778 | `Disjoint`, `FirstFit`, `RefusedOnlyWhenFull`, and the search ends (`ReserveReturns`) |
| `physical_memory` | 8 frames in two adjacent regions, page sizes 1, 2 and 4 frames | 30,071 | one owner per frame across the switch of stages (`OwnedOnce`), aligned runs inside one region (`RangesPlaced`), `HintExact`, `FailsOnlyWhenFull` |
| `scheduler_window`, `scheduler_boot_tick`, `signals_outcome` | as above | violations | the findings of section 6 |

Why the bounds are enough for the cases of interest:

- Two threads are all that race for a slot: a claim, a park, an unpark and a
  wake each contend with one other party. One slot that is reused and one that is
  appended give reuse under a slow reader and the append race. `MaxChain`
  bounds the chain at 2; a thread that would append beyond it does not start.
  `MaxSegments` is 3, so that both threads can hold a new segment for the same
  link, one of them loses, and the loser frees its own.
- In `scheduler` `LotSize` 3 is one slot for each task that can park, so nobody
  waits for the bound. In `scheduler_boot` the worker and the cleanup task share
  one slot, which only delays them.
- `IdleStaysHome` and `MustSwitchFindsTarget` are checked from power-on, where the
  idle tasks are installed one by one; every CPU other than the bootstrap CPU
  boots with interrupts off.
- The liveness run of the scheduler has one CPU and one worker, on which a tick may come between
  any two steps of any task. That is enough for the races of a wake against a
  park. Two CPUs with fairness are beyond TLC's reach here; on two CPUs
  `WakeSourceLive` says in each state that a wake is still to come.
- Page sizes 1, 2 and 4 stand for 4 KiB, 2 MiB and 1 GiB. Regions that start at
  frames 1 and 3 make alignment by address and by index differ.

Deadlock is checked in the scheduler, parking lot and memory runs. It is not
checked in the signal and process runs, where the process may end.

## 4. Fairness

- `Scheduler`: CPUs go on with the tick handler and `reschedule`, ticks keep
  coming and deadlines pass (weak fairness). The steps of a task get strong
  fairness: a tick can come between any two of them, but the timer period leaves
  the task time to run between ticks. Workers need not sleep or exit.
- `SignalState`: weak fairness of delivery. The tick uses `try_lock` and skips a
  delivery when the lock is taken, but holders release it.
- `Process`: weak fairness for the steps of running tasks, the sender, the sweep
  and the cleanup task. Strong fairness for the tick in Ring 3: a task may leave
  Ring 3 between ticks, but the timer is not synchronised with it. This also
  means that the lot is not full for ever, since a stop that finds no slot is
  retried at the next tick. No fairness makes a deadline pass.
- The liveness properties of signals and processes hold once senders stop
  (`Quiet`): a handled signal with a number below Kill's, sent before every tick,
  would keep Kill waiting.
- `VirtualMemory`: the loop of `reserve` runs on.

## 5. Proofs

All are checked by TLAPS. They hold for every value of the constants that
satisfies the named assumption of the module. `LotAssumption`: a segment has
a slot, there is a segment, the bound on the chain is a natural number, and the
null value is no value. `SignalAssumption`: signal numbers are
1 to 27 and include the four signals with a role of their own, outcomes that are
no signals are distinct, and custom actions have the fields of `SigAction`.
`VirtualMemoryAssumption`: the range is not empty, sizes are naturals and fixed
segments are not empty.

- The parking lot has four modules. The invariants of the run are not inductive by
  themselves. `ParkingLotRights` adds `ExchangeOutcome` (a thread past a
  failed exchange knows the state of its slot) and shows, one lemma for each
  invariant, what each step preserves. Scanning steps change no slot (`ScanOnly`), so the lemmas
  treat them once. `ParkingLotProofs` adds `ValuesInv` (which thread or cell holds
  which value, in a form without cardinalities), joins all in `IInv` and proves
  `Spec => []IInv` (`Inductive`). From it follow `TypeCorrect`, `TicketsCorrect`
  and `CellAccess`.
- `ParkingLotHandoffProofs` derives `ValuesConserved`, and `Refinement`: every step
  of the lot is a step of `Handoff` or changes nothing there.
- `ParkingLotChainProofs` proves `ChainCorrect`: `SegmentsOwnedOnce` holds for any
  number of threads that append at once. The invariant it needs says that links
  lead from allocated to allocated segments, that no two links and no two threads
  share a segment, and that a thread stands only at slots of linked segments.
- `SignalStateProofs`. `SignalInv` is the conjunction of the type invariant and
  the three safety invariants. `StoppedAwaitsResume` needs the other two: a stop
  is taken only when no Kill, which has a lower number and cannot be blocked, is
  pending, and when no Continue is pending, blocked or not.
- `VirtualMemoryProofs`. `FirstFit` is the loop invariant of the search and gives
  `RefusedOnlyWhenFull` when the loop gives up. A candidate between the cursor and
  the end of the segment it hit would hit that segment too, so a skip passes no
  place that fits.

Only model-checked: all liveness properties (the prover does not handle fairness),
and everything about `Scheduler`, `Process` and `PhysicalMemory` (planned).

## 6. Findings

- `scheduler_window`. `block_current` and `exit_current` load the CPU's context
  while interrupts are on and use it after `cli`. A tick in between, before or after
  the ticket is put or the task marked, can move the task to another CPU. It then runs `reschedule` on the scheduler of the CPU it
  left, which that CPU may be using too.
- `scheduler_boot_tick`. The bootstrap CPU enables interrupts immediately before
  it calls `install_idle_task`. A tick there can put the cleanup task on a CPU that has nothing to
  switch to when it blocks.
- `signals_outcome`. The exit outcome is recorded when a fatal signal is sent. A
  process that blocks, catches or ignores the signal before it is delivered goes
  on with an outcome recorded, and its real one is dropped.

Three further observations come from the same models and have no run of their
own. A process can end by a signal without any outcome: the signal is sent while
it is caught, and made default before the tick. A process can survive the tick that
finds Kill pending, because a handled signal with a lower number goes first.
Stage 1 of the frame allocator iterates over `base..length` of a region instead
of its end, so it can give up with usable frames left; `PhysicalMemory` keeps this
range, and `OwnedOnce` shows that the switch to stage 2 is consistent with it.

## 7. Not modelled

Planned, in section 8: memory regions, address spaces and the memory API, VFS,
paths, descriptors, devfs, ext2, block devices, ELF loading, the initial stack,
the process tree, the log filter.

Left out: the kernel heap (a crate outside the tree), the assembly of the context
switch (`Scheduler` models what it hands over), FPU and TLS state, PCI and virtio
(port and device I/O), descriptor tables and clocks (set-up of hardware), boot
and backtraces (straight-line), the graphics library (computation on pixels), the
host-side runner.

## 8. Plan

1. `MemoryRegions`: mmap, the kinds of region, `page_in` against a concurrent
   fault, `clear` on exec, `map_range` that fails in the middle, over the promises
   of the two allocators. Properties: no frame mapped and free, no frame leaked.
2. The locks of the interrupt handlers: which locks a tick or a fault may wait
   for, and that no holder on the same CPU is preempted (deadlock freedom).
3. `Ext2` with its block and inode allocation, `write_to_file` and `create`, and
   `BlockDevice` against a reference on bytes, with failing sectors.
4. `Vfs`: mounts, nodes after an unmount, descriptors and their positions; paths
   as operators against reference definitions.
5. Pure algorithms: ELF header validation, the layout of the initial stack, the
   log filter. The process tree.
6. Proofs: `PhysicalMemory` (`OwnedOnce`, `HintExact`), `StackExclusive` and
   `OnePlace` of `Scheduler`, `SoleAtTeardown` of `Process`, and that the slots
   `Scheduler` and `Process` use are those of `Handoff`.
