------------------------------ MODULE Scheduler ------------------------------
(***************************************************************************)
(* The multi-CPU scheduler of kernel/boot/src/mcore: the boot of each CPU, *)
(* the timer tick, Scheduler::reschedule and route, the global run queue,  *)
(* block_current with the sleepers list, and the cleanup task.             *)
(*                                                                         *)
(* A CPU runs either a step of its task or, with interrupts off, the tick  *)
(* handler and reschedule; the latter advance one shared access at a time, *)
(* so CPUs interleave inside them.  The parking lot is used through what   *)
(* module Handoff promises, the queues as FIFO queues.                     *)
(***************************************************************************)
EXTENDS Integers, Sequences, FiniteSets, FiniteSetsExt, SequencesExt

CONSTANTS
    Cpus, Bsp,      \* the CPUs, and the bootstrap CPU among them
    Workers,        \* ordinary tasks, started by the bootstrap task
    NoTask, NoCpu,
    LotSize,        \* bound on the slots of the parking lot in use
    TickInBoot,     \* may a tick hit the BSP before it has an idle task?
    TickInWindow    \* may a tick hit between ExecutionContext::load and cli?

ASSUME SchedulerAssumption ==
    /\ Bsp \in Cpus
    /\ LotSize \in Nat
    /\ {TickInBoot, TickInWindow} \subseteq BOOLEAN

Boot(c) == <<"boot", c>>
Idle(c) == <<"idle", c>>
Cleanup == <<"cleanup", 0>>
Worker(w) == <<"worker", w>>
WorkerTasks == {Worker(w) : w \in Workers}
Tasks == {Boot(c) : c \in Cpus} \cup {Idle(c) : c \in Cpus} \cup {Cleanup} \cup WorkerTasks

Slots == 1 .. LotSize
NoSlot == 0
NoZombie == [task |-> NoTask, disposal |-> "None", slot |-> NoSlot]

VARIABLES
    \* per CPU
    running,        \* the task whose stack the CPU executes on
    mode,           \* "task", or the step of the tick handler or reschedule
    on,             \* the CPU whose Scheduler the running reschedule works on
    taken,          \* unpark ticket in the hands of TaskCleanup::enqueue
    \* per CPU: struct Scheduler
    current, idle, idleTid, zombie,
    \* shared
    runQueue, corpses, cleanupUnpark, phase, occupant, sleepers, due, sleepLock,
    stopUnpark,     \* Signals::stop_unpark of the workers' processes
    \* per task
    pc, ctx, slot, ticket, terminating, retired

cpuVars == <<running, mode, on, taken>>
schedVars == <<current, idle, idleTid, zombie>>
lotVars == <<phase, occupant>>
sleepVars == <<sleepers, due, sleepLock>>
taskVars == <<pc, ctx, slot, ticket, terminating, retired>>
vars == <<cpuVars, schedVars, runQueue, corpses, cleanupUnpark, lotVars, sleepVars, stopUnpark,
          taskVars>>

Init ==
    /\ running = [c \in Cpus |-> Boot(c)]
    /\ mode = [c \in Cpus |-> "task"]
    /\ on = [c \in Cpus |-> c]
    /\ taken = [c \in Cpus |-> NoSlot]
    /\ current = [c \in Cpus |-> Boot(c)]
    /\ idle = [c \in Cpus |-> NoTask]
    /\ idleTid = [c \in Cpus |-> NoTask]
    /\ zombie = [c \in Cpus |-> NoZombie]
    /\ runQueue = <<Cleanup>>
    /\ corpses = <<>>
    /\ cleanupUnpark = NoSlot
    /\ phase = [s \in Slots |-> "idle"]
    /\ occupant = [s \in Slots |-> NoTask]
    /\ sleepers = {} /\ due = {} /\ sleepLock = FALSE /\ stopUnpark = {}
    /\ pc = [t \in Tasks |-> IF t[1] = "boot" THEN "boot"
                             ELSE IF t[1] = "cleanup" THEN "drain"
                             ELSE IF t[1] = "idle" THEN "none" ELSE "unborn"]
    /\ ctx = [t \in Tasks |-> NoCpu]
    /\ slot = [t \in Tasks |-> NoSlot]
    /\ ticket = [t \in Tasks |-> NoSlot]
    /\ terminating = {}
    /\ retired = {}

-------------------------------------------------------------------------------
(* The parking lot and the run queue, as the scheduler uses them *)

FreeSlots == {s \in Slots : phase[s] = "idle"}

\* wait::reserve; which free slot the scan finds makes no difference.
ReserveSlot(t) ==
    /\ FreeSlots # {}
    /\ slot' = [slot EXCEPT ![t] = Min(FreeSlots)]
    /\ phase' = [phase EXCEPT ![Min(FreeSlots)] = "open"]

\* Mutant: a wake that finds the task not parked yet is dropped.
UnparkAndEnqueueDrops(s) ==
    IF phase[s] = "open"
    THEN UNCHANGED <<phase, occupant, runQueue>>
    ELSE /\ phase' = [phase EXCEPT ![s] = "idle"]
         /\ occupant' = [occupant EXCEPT ![s] = NoTask]
         /\ runQueue' = Append(runQueue, occupant[s])

\* Mutant: the slot is emptied whether or not a task is parked in it.
UnparkUnconditionally(s) ==
    /\ phase' = [phase EXCEPT ![s] = "idle"]
    /\ occupant' = [occupant EXCEPT ![s] = NoTask]
    /\ runQueue' = Append(runQueue, occupant[s])

\* Mutant: the woken task stays in its slot as well.
UnparkKeepsOccupant(s) ==
    IF phase[s] = "open"
    THEN phase' = [phase EXCEPT ![s] = "fired"] /\ UNCHANGED <<occupant, runQueue>>
    ELSE /\ phase' = [phase EXCEPT ![s] = "idle"]
         /\ runQueue' = Append(runQueue, occupant[s])
         /\ UNCHANGED occupant

\* wait::unpark_and_enqueue and wait::wake for the clone that holds the right.
UnparkAndEnqueue(s) ==
    IF phase[s] = "open"
    THEN phase' = [phase EXCEPT ![s] = "fired"] /\ UNCHANGED <<occupant, runQueue>>
    ELSE /\ phase' = [phase EXCEPT ![s] = "idle"]
         /\ occupant' = [occupant EXCEPT ![s] = NoTask]
         /\ runQueue' = Append(runQueue, occupant[s])

-------------------------------------------------------------------------------
(* The timer tick *)

InWindow(t) == pc[t] \in {"blockPut", "blockCli", "exitMark", "exitCli"}

InterruptsOn(c) ==
    LET t == running[c] IN
    /\ mode[c] = "task"
    /\ pc[t] = "boot" => t = Boot(Bsp) /\ TickInBoot
    /\ InWindow(t) => TickInWindow

\* reschedule starts by taking the zombie, which only this scheduler touches.
EnterReschedule(c, k) ==
    /\ mode' = [mode EXCEPT ![c] = IF zombie[k] = NoZombie THEN "pick" ELSE "route"]
    /\ on' = [on EXCEPT ![c] = k]

\* request_stop_park: try_reserve, the park ticket into the task's cell and the
\* unpark ticket into the signal state.  Without a free slot, or with a ticket
\* pending already, nothing changes.
RequestStopPark(t) ==
    IF FreeSlots # {} /\ ticket[t] = NoSlot
    THEN /\ phase' = [phase EXCEPT ![Min(FreeSlots)] = "open"]
         /\ ticket' = [ticket EXCEPT ![t] = Min(FreeSlots)]
         /\ stopUnpark' = stopUnpark \cup {Min(FreeSlots)}
    ELSE UNCHANGED <<phase, ticket, stopUnpark>>

\* A tick that interrupts Ring 3 may terminate the task (a fatal signal or an
\* exec reap) or park it (a stop), which module Process decides; then the
\* handler reschedules its own CPU.
TickReschedule(c) ==
    LET t == running[c]
        ring3 == t \in WorkerTasks /\ pc[t] = "run" IN
    /\ EnterReschedule(c, c)
    /\ \/ UNCHANGED <<terminating, phase, ticket, stopUnpark>>
       \/ /\ ring3
          /\ terminating' = terminating \cup {t}
          /\ UNCHANGED <<phase, ticket, stopUnpark>>
       \/ ring3 /\ RequestStopPark(t) /\ UNCHANGED terminating

\* timer_interrupt_handler_impl, wake_expired_sleepers: try_lock.  A sweep that
\* finds no sleeper due leaves no trace; one that does holds the lock.
Tick(c) ==
    /\ InterruptsOn(c)
    /\ IF ~sleepLock /\ due # {}
       THEN /\ sleepLock' = TRUE
            /\ mode' = [mode EXCEPT ![c] = "sweep"]
            /\ UNCHANGED <<on, terminating, phase, ticket, stopUnpark>>
       ELSE TickReschedule(c) /\ UNCHANGED sleepLock
    /\ UNCHANGED <<running, taken, schedVars, runQueue, corpses, cleanupUnpark, occupant,
                   sleepers, due, pc, ctx, slot, retired>>

\* Each sleeper whose deadline passed is removed and woken.
SweepWake(c, s) ==
    /\ mode[c] = "sweep" /\ s \in due
    /\ sleepers' = sleepers \ {s}
    /\ due' = due \ {s}
    /\ UnparkAndEnqueue(s)
    /\ UNCHANGED <<cpuVars, schedVars, corpses, cleanupUnpark, sleepLock, stopUnpark, taskVars>>

SweepDone(c) ==
    /\ mode[c] = "sweep" /\ due = {}
    /\ sleepLock' = FALSE
    /\ TickReschedule(c)
    /\ UNCHANGED <<running, taken, schedVars, runQueue, corpses, cleanupUnpark, occupant,
                   sleepers, due, pc, ctx, slot, retired>>

\* Time passes: a sleeper's deadline is reached.  A sweep compares with the time
\* it read at its start, so a deadline reached meanwhile counts from its end on.
Expire(s) ==
    /\ s \in sleepers \ due
    /\ \A c \in Cpus : mode[c] # "sweep"
    /\ due' = due \cup {s}
    /\ UNCHANGED <<cpuVars, schedVars, runQueue, corpses, cleanupUnpark, lotVars, sleepers,
                   sleepLock, stopUnpark, taskVars>>

-------------------------------------------------------------------------------
(* Scheduler::reschedule, on scheduler k == on[c] *)

\* Mutant: every Enqueue goes to the global queue, the idle task's too.
NeverIdle(k, t) == FALSE

\* idle_tid tells this CPU's idle task from all others.
IsIdle(k, t) == idleTid[k] = t

\* route: the zombie goes where the disposal chosen at its switch sends it.
Route(c) ==
    LET k == on[c]
        z == zombie[k] IN
    /\ mode[c] = "route"
    /\ zombie' = [zombie EXCEPT ![k] = NoZombie]
    /\ \/ /\ z.disposal = "Enqueue" /\ IsIdle(k, z.task)
          /\ idle' = [idle EXCEPT ![k] = z.task]
          /\ UNCHANGED <<runQueue, corpses, lotVars>>
       \/ /\ z.disposal = "Enqueue" /\ ~IsIdle(k, z.task)
          /\ runQueue' = Append(runQueue, z.task)
          /\ UNCHANGED <<idle, corpses, lotVars>>
       \/ /\ z.disposal = "Park" /\ phase[z.slot] = "open"
          /\ phase' = [phase EXCEPT ![z.slot] = "parked"]
          /\ occupant' = [occupant EXCEPT ![z.slot] = z.task]
          /\ UNCHANGED <<idle, runQueue, corpses>>
       \/ /\ z.disposal = "Park" /\ phase[z.slot] = "fired"
          /\ phase' = [phase EXCEPT ![z.slot] = "idle"]
          /\ runQueue' = Append(runQueue, z.task)
          /\ UNCHANGED <<idle, corpses, occupant>>
       \/ /\ z.disposal = "Terminate"
          /\ corpses' = Append(corpses, z.task)
          /\ UNCHANGED <<idle, runQueue, lotVars>>
    /\ mode' = [mode EXCEPT ![c] = IF z.disposal = "Terminate" THEN "take" ELSE "pick"]
    /\ UNCHANGED <<running, on, taken, current, idleTid, cleanupUnpark, sleepVars, stopUnpark,
                   taskVars>>

\* TaskCleanup::enqueue, after the push: CLEANUP_UNPARK.take() ...
CorpseTake(c) ==
    /\ mode[c] = "take"
    /\ taken' = [taken EXCEPT ![c] = cleanupUnpark]
    /\ cleanupUnpark' = NoSlot
    /\ mode' = [mode EXCEPT ![c] = IF cleanupUnpark = NoSlot THEN "pick" ELSE "unpark"]
    /\ UNCHANGED <<running, on, schedVars, runQueue, corpses, lotVars, sleepVars, stopUnpark,
                   taskVars>>

\* ... and the cleanup task is unparked.
CorpseUnpark(c) ==
    /\ mode[c] = "unpark"
    /\ UnparkAndEnqueue(taken[c])
    /\ taken' = [taken EXCEPT ![c] = NoSlot]
    /\ mode' = [mode EXCEPT ![c] = "pick"]
    /\ UNCHANGED <<running, on, schedVars, corpses, cleanupUnpark, sleepVars, stopUnpark,
                   taskVars>>

MustSwitch(k) == ticket[current[k]] # NoSlot \/ current[k] \in terminating

\* next_task: the run queue first, the own idle task only when it must switch.
NextTask(k) ==
    IF runQueue # <<>> THEN Head(runQueue)
    ELSE IF MustSwitch(k) THEN idle[k] ELSE NoTask

\* A pending park ticket wins over termination.
DisposalOf(t) ==
    [task |-> t, slot |-> ticket[t],
     disposal |-> IF ticket[t] # NoSlot THEN "Park"
                  ELSE IF t \in terminating THEN "Terminate" ELSE "Enqueue"]

\* reschedule returns without switching: the ticket stays with the task.
Keep(c) ==
    /\ mode[c] = "pick" /\ NextTask(on[c]) = NoTask
    /\ mode' = [mode EXCEPT ![c] = "task"]
    /\ UNCHANGED <<running, on, taken, schedVars, runQueue, corpses, cleanupUnpark, lotVars,
                   sleepVars, stopUnpark, taskVars>>

\* Mutant: an old task that can go on is queued at once, not left as a zombie.
SwapEnqueues(c) ==
    LET k == on[c]
        next == NextTask(k)
        old == current[k] IN
    /\ mode[c] = "pick" /\ next # NoTask
    /\ IF runQueue # <<>>
       THEN runQueue' = Append(Tail(runQueue), old) /\ UNCHANGED idle
       ELSE idle' = [idle EXCEPT ![k] = NoTask] /\ runQueue' = <<old>>
    /\ current' = [current EXCEPT ![k] = next]
    /\ ticket' = [ticket EXCEPT ![old] = NoSlot]
    /\ mode' = [mode EXCEPT ![c] = "switch"]
    /\ UNCHANGED <<running, on, taken, zombie, idleTid, corpses, cleanupUnpark, lotVars,
                   sleepVars, stopUnpark, pc, ctx, slot, terminating, retired>>

\* swap_current_task and the choice of the old task's disposal.  The old task
\* becomes the zombie: its stack is still in use.
Swap(c) ==
    LET k == on[c]
        next == NextTask(k)
        old == current[k] IN
    /\ mode[c] = "pick" /\ next # NoTask
    /\ IF runQueue # <<>>
       THEN runQueue' = Tail(runQueue) /\ UNCHANGED idle
       ELSE idle' = [idle EXCEPT ![k] = NoTask] /\ UNCHANGED runQueue
    /\ current' = [current EXCEPT ![k] = next]
    /\ zombie' = [zombie EXCEPT ![k] = DisposalOf(old)]
    /\ ticket' = [ticket EXCEPT ![old] = NoSlot]
    /\ mode' = [mode EXCEPT ![c] = "switch"]
    /\ UNCHANGED <<running, on, taken, idleTid, corpses, cleanupUnpark, lotVars, sleepVars,
                   stopUnpark, pc, ctx, slot, terminating, retired>>

\* switch_impl: the CPU continues on the new task's stack.
Switch(c) ==
    /\ mode[c] = "switch"
    /\ running' = [running EXCEPT ![c] = current[on[c]]]
    /\ mode' = [mode EXCEPT ![c] = "task"]
    /\ UNCHANGED <<on, taken, schedVars, runQueue, corpses, cleanupUnpark, lotVars, sleepVars,
                   stopUnpark, taskVars>>

-------------------------------------------------------------------------------
(* What tasks do.  Runs(c, t, p): task t executes on CPU c and stands at p. *)

Runs(c, t, p) == mode[c] = "task" /\ running[c] = t /\ pc[t] = p

Step(t, p) == pc' = [pc EXCEPT ![t] = p]

\* install_idle_task: cli; set_idle_task on this CPU; sti.  A previous idle
\* task that is off the CPU is dropped.
InstallIdle(b, c) ==
    LET new == Idle(b) IN
    /\ Runs(c, Boot(b), "boot")
    /\ idleTid' = [idleTid EXCEPT ![c] = new]
    /\ idle' = [idle EXCEPT ![c] = new]
    /\ retired' = retired \cup ({idle[c]} \ {NoTask})
    /\ pc' = [pc EXCEPT ![Boot(b)] = IF b = Bsp THEN "main" ELSE "exit", ![new] = "idle"]
    /\ UNCHANGED <<cpuVars, current, zombie, runQueue, corpses, cleanupUnpark, lotVars,
                   sleepVars, stopUnpark, ctx, slot, ticket, terminating>>

\* The bootstrap task starts the workers, then exits.
StartWorker(c, w) ==
    /\ Runs(c, Boot(Bsp), "main") /\ pc[Worker(w)] = "unborn"
    /\ Step(Worker(w), "run")
    /\ runQueue' = Append(runQueue, Worker(w))
    /\ UNCHANGED <<cpuVars, schedVars, corpses, cleanupUnpark, lotVars, sleepVars, stopUnpark,
                   ctx, slot, ticket, terminating, retired>>

\* exit_current, of the bootstrap tasks once they are done and of a worker at any
\* time (SYS_EXIT): ctx is loaded ...
MayExit(t) ==
    \/ pc[t] = "exit"
    \/ pc[t] = "main" /\ \A w \in Workers : pc[Worker(w)] # "unborn"
    \/ pc[t] = "run"

LoadContext(c, t, p) ==
    /\ ctx' = [ctx EXCEPT ![t] = c]
    /\ Step(t, p)
    /\ UNCHANGED <<cpuVars, schedVars, runQueue, corpses, cleanupUnpark, lotVars, sleepVars,
                   stopUnpark, slot, ticket, terminating, retired>>

ExitCurrent(c, t) == Runs(c, t, pc[t]) /\ MayExit(t) /\ LoadContext(c, t, "exitMark")

\* ctx.current_task(), read at the load, or at its use after ticks that moved
\* the caller.
CurrentTasks(t) == {t, current[ctx[t]]}

\* ... its current task is marked, then reschedule loops.
ExitMark(c, t) ==
    /\ Runs(c, t, "exitMark")
    /\ \E self \in CurrentTasks(t) : terminating' = terminating \cup {self}
    /\ Step(t, "exitCli")
    /\ UNCHANGED <<cpuVars, schedVars, runQueue, corpses, cleanupUnpark, lotVars, sleepVars,
                   stopUnpark, ctx, slot, ticket, retired>>

\* If reschedule ever returns, the task halts with interrupts on and retries.
ExitReschedule(c, t) ==
    /\ \E p \in {"exitCli", "exitHlt"} : Runs(c, t, p)
    /\ EnterReschedule(c, ctx[t])
    /\ Step(t, "exitHlt")
    /\ UNCHANGED <<running, taken, schedVars, runQueue, corpses, cleanupUnpark, lotVars,
                   sleepVars, stopUnpark, ctx, slot, ticket, terminating, retired>>

\* resume_stopped_tasks, called by a task that sends Continue or Kill, or that
\* reaps its siblings.
ResumeStopped(c, t, s) ==
    /\ Runs(c, t, "run") /\ s \in stopUnpark
    /\ UnparkAndEnqueue(s)
    /\ stopUnpark' = stopUnpark \ {s}
    /\ UNCHANGED <<cpuVars, schedVars, corpses, cleanupUnpark, sleepVars, taskVars>>

\* A worker sleeps: reserve, split, into_waker, sleep_until, block_current.
SleepReserve(c, t) ==
    /\ Runs(c, t, "run")
    /\ ReserveSlot(t)
    /\ Step(t, "sleepLock")
    /\ UNCHANGED <<cpuVars, schedVars, runQueue, corpses, cleanupUnpark, occupant, sleepVars,
                   stopUnpark, ctx, ticket, terminating, retired>>

SleepLock(c, t) ==
    /\ Runs(c, t, "sleepLock") /\ ~sleepLock
    /\ sleepLock' = TRUE
    /\ Step(t, "sleepPush")
    /\ UNCHANGED <<cpuVars, schedVars, runQueue, corpses, cleanupUnpark, lotVars, sleepers, due,
                   stopUnpark, ctx, slot, ticket, terminating, retired>>

SleepPush(c, t) ==
    /\ Runs(c, t, "sleepPush")
    /\ sleepers' = sleepers \cup {slot[t]}
    /\ sleepLock' = FALSE
    /\ Step(t, "block")
    /\ UNCHANGED <<cpuVars, schedVars, runQueue, corpses, cleanupUnpark, lotVars, due,
                   stopUnpark, ctx, slot, ticket, terminating, retired>>

\* block_current: ctx is loaded, the ticket put in the cell of its current task,
\* which is asserted to be empty ...
BlockLoad(c, t) == Runs(c, t, "block") /\ LoadContext(c, t, "blockPut")

BlockPut(c, t) ==
    /\ Runs(c, t, "blockPut")
    /\ \E self \in CurrentTasks(t) :
          /\ ticket[self] = NoSlot
          /\ ticket' = [ticket EXCEPT ![self] = slot[t]]
    /\ Step(t, "blockCli")
    /\ UNCHANGED <<cpuVars, schedVars, runQueue, corpses, cleanupUnpark, lotVars, sleepVars,
                   stopUnpark, ctx, slot, terminating, retired>>

\* ... then cli and reschedule, through the loaded ctx.
BlockReschedule(c, t) ==
    /\ Runs(c, t, "blockCli")
    /\ EnterReschedule(c, ctx[t])
    /\ pc' = [pc EXCEPT ![t] = IF t = Cleanup THEN "drain" ELSE "run"]
    /\ slot' = [slot EXCEPT ![t] = NoSlot]
    /\ ctx' = [ctx EXCEPT ![t] = NoCpu]
    /\ UNCHANGED <<running, taken, schedVars, runQueue, corpses, cleanupUnpark, lotVars,
                   sleepVars, stopUnpark, ticket, terminating, retired>>

-------------------------------------------------------------------------------
(* TaskCleanup::cleanup_tasks *)

Drop == retired' = retired \cup {Head(corpses)} /\ corpses' = Tail(corpses)

CleanupDrain(c) ==
    /\ Runs(c, Cleanup, "drain")
    /\ IF corpses # <<>>
       THEN Drop /\ UNCHANGED pc
       ELSE Step(Cleanup, "reserve") /\ UNCHANGED <<corpses, retired>>
    /\ UNCHANGED <<cpuVars, schedVars, runQueue, cleanupUnpark, lotVars, sleepVars, stopUnpark,
                   ctx, slot, ticket, terminating>>

\* CLEANUP_UNPARK.put_reservation(wait::reserve())
CleanupReserve(c) ==
    /\ Runs(c, Cleanup, "reserve") /\ FreeSlots # {}
    /\ IF cleanupUnpark = NoSlot
       THEN /\ ReserveSlot(Cleanup)
            /\ cleanupUnpark' = Min(FreeSlots)
            /\ Step(Cleanup, "recheck")
       ELSE Step(Cleanup, "drain") /\ UNCHANGED <<slot, phase, cleanupUnpark>>
    /\ UNCHANGED <<cpuVars, schedVars, runQueue, corpses, occupant, sleepVars, stopUnpark, ctx,
                   ticket, terminating, retired>>

\* Mutant: the cleanup task parks without looking at the queue again.
CleanupNoRecheck(c) ==
    /\ Runs(c, Cleanup, "recheck")
    /\ Step(Cleanup, "block") /\ UNCHANGED <<corpses, retired>>
    /\ UNCHANGED <<cpuVars, schedVars, runQueue, cleanupUnpark, lotVars, sleepVars, stopUnpark,
                   ctx, slot, ticket, terminating>>

CleanupRecheck(c) ==
    /\ Runs(c, Cleanup, "recheck")
    /\ IF corpses # <<>>
       THEN Drop /\ Step(Cleanup, "selfTake")
       ELSE Step(Cleanup, "block") /\ UNCHANGED <<corpses, retired>>
    /\ UNCHANGED <<cpuVars, schedVars, runQueue, cleanupUnpark, lotVars, sleepVars, stopUnpark,
                   ctx, slot, ticket, terminating>>

\* Mutant: the ticket is taken and thrown away.
CleanupForgetsTicket(c) ==
    /\ Runs(c, Cleanup, "selfTake")
    /\ cleanupUnpark' = NoSlot
    /\ Step(Cleanup, "block")
    /\ UNCHANGED <<cpuVars, schedVars, runQueue, corpses, lotVars, sleepVars, stopUnpark, ctx,
                   slot, ticket, terminating, retired>>

\* Consuming its own ticket makes the park bounce.
CleanupSelfUnpark(c) ==
    /\ Runs(c, Cleanup, "selfTake")
    /\ IF cleanupUnpark # NoSlot
       THEN UnparkAndEnqueue(cleanupUnpark) /\ cleanupUnpark' = NoSlot
       ELSE UNCHANGED <<lotVars, runQueue, cleanupUnpark>>
    /\ Step(Cleanup, "block")
    /\ UNCHANGED <<cpuVars, schedVars, corpses, sleepVars, stopUnpark, ctx, slot, ticket,
                   terminating, retired>>

-------------------------------------------------------------------------------

Reschedule(c) ==
    Route(c) \/ CorpseTake(c) \/ CorpseUnpark(c) \/ Keep(c) \/ Swap(c) \/ Switch(c)

TickHandler(c) == SweepDone(c) \/ \E s \in Slots : SweepWake(c, s)

CleanupStep(c) ==
    CleanupDrain(c) \/ CleanupReserve(c) \/ CleanupRecheck(c) \/ CleanupSelfUnpark(c)

BootStep(c) ==
    \/ \E b \in Cpus : InstallIdle(b, c)
    \/ \E w \in Workers : StartWorker(c, w)
    \/ \E b \in Cpus : ExitCurrent(c, Boot(b))

\* The steps a task takes without a choice of its own.
CodeStep(c, t) ==
    \/ ExitMark(c, t) \/ ExitReschedule(c, t)
    \/ SleepLock(c, t) \/ SleepPush(c, t)
    \/ BlockLoad(c, t) \/ BlockPut(c, t) \/ BlockReschedule(c, t)

WorkerChoice(c, t) ==
    /\ t \in WorkerTasks
    /\ ExitCurrent(c, t) \/ SleepReserve(c, t) \/ \E s \in Slots : ResumeStopped(c, t, s)

Next ==
    \/ \E c \in Cpus :
        \/ Tick(c) \/ TickHandler(c) \/ Reschedule(c) \/ CleanupStep(c) \/ BootStep(c)
        \/ \E t \in Tasks : CodeStep(c, t) \/ WorkerChoice(c, t)
    \/ \E s \in Slots : Expire(s)

Spec == Init /\ [][Next]_vars

\* A state the system reaches once it has booted: the boot tasks are gone, the
\* cleanup task is parked and the workers run, each on a CPU of its own.
BootedInit ==
    \E home \in Injection(Workers, Cpus) :
        LET busy == Range(home)
            task == [c \in Cpus |-> IF c \in busy THEN Worker(Inverse(home, Workers, busy)[c])
                                    ELSE Idle(c)]
        IN  /\ running = task /\ current = task
            /\ idle = [c \in Cpus |-> IF c \in busy THEN Idle(c) ELSE NoTask]
            /\ idleTid = [c \in Cpus |-> Idle(c)]
            /\ mode = [c \in Cpus |-> "task"] /\ on = [c \in Cpus |-> c]
            /\ taken = [c \in Cpus |-> NoSlot] /\ zombie = [c \in Cpus |-> NoZombie]
            /\ runQueue = <<>> /\ corpses = <<>>
            /\ cleanupUnpark = 1
            /\ phase = [s \in Slots |-> IF s = 1 THEN "parked" ELSE "idle"]
            /\ occupant = [s \in Slots |-> IF s = 1 THEN Cleanup ELSE NoTask]
            /\ sleepers = {} /\ due = {} /\ sleepLock = FALSE /\ stopUnpark = {}
            /\ pc = [t \in Tasks |-> CASE t[1] = "boot" -> "exitHlt" [] t[1] = "idle" -> "idle"
                                        [] t = Cleanup -> "drain" [] OTHER -> "run"]
            /\ ctx = [t \in Tasks |-> IF t[1] = "boot" THEN t[2] ELSE NoCpu]
            /\ slot = [t \in Tasks |-> NoSlot] /\ ticket = [t \in Tasks |-> NoSlot]
            /\ terminating = {Boot(c) : c \in Cpus} /\ retired = {Boot(c) : c \in Cpus}

BootedSpec == BootedInit /\ [][Next]_vars

(***************************************************************************)
(* Every CPU goes on with what it does, the LAPIC timer keeps ticking and  *)
(* time passes.  A task's own steps get strong fairness: a tick comes once *)
(* per period, so between two ticks the interrupted task does execute, but *)
(* a tick may come between any two of its steps.  Nothing forces a worker  *)
(* to sleep or to exit.                                                    *)
(***************************************************************************)
Fairness ==
    /\ \A c \in Cpus : WF_vars(TickHandler(c) \/ Reschedule(c)) /\ WF_vars(Tick(c))
    /\ \A t \in Tasks \ {Cleanup} : SF_vars(\E c \in Cpus : CodeStep(c, t))
    /\ SF_vars(\E c \in Cpus : CleanupStep(c) \/ CodeStep(c, Cleanup))
    /\ SF_vars(\E c \in Cpus : BootStep(c))
    /\ \A s \in Slots : WF_vars(Expire(s))

FairSpec == Spec /\ Fairness

-------------------------------------------------------------------------------
(* Properties *)

TypeOK ==
    /\ running \in [Cpus -> Tasks] /\ current \in [Cpus -> Tasks]
    /\ mode \in [Cpus -> {"task", "sweep", "route", "take", "unpark", "pick", "switch"}]
    /\ on \in [Cpus -> Cpus]
    /\ taken \in [Cpus -> Slots \cup {NoSlot}]
    /\ idle \in [Cpus -> Tasks \cup {NoTask}] /\ idleTid \in [Cpus -> Tasks \cup {NoTask}]
    /\ zombie \in [Cpus -> [task : Tasks \cup {NoTask}, slot : Slots \cup {NoSlot},
                            disposal : {"None", "Enqueue", "Park", "Terminate"}]]
    /\ Range(runQueue) \subseteq Tasks /\ Range(corpses) \subseteq Tasks
    /\ cleanupUnpark \in Slots \cup {NoSlot}
    /\ phase \in [Slots -> {"idle", "open", "parked", "fired"}]
    /\ occupant \in [Slots -> Tasks \cup {NoTask}]
    /\ due \subseteq sleepers /\ sleepers \subseteq Slots /\ sleepLock \in BOOLEAN
    /\ stopUnpark \subseteq Slots
    /\ ctx \in [Tasks -> Cpus \cup {NoCpu}]
    /\ slot \in [Tasks -> Slots \cup {NoSlot}] /\ ticket \in [Tasks -> Slots \cup {NoSlot}]
    /\ terminating \subseteq Tasks /\ retired \subseteq Tasks

Places(t) ==
    {<<"cpu", c>> : c \in {c \in Cpus : current[c] = t}}
    \cup {<<"idle", c>> : c \in {c \in Cpus : idle[c] = t}}
    \cup {<<"zombie", c>> : c \in {c \in Cpus : zombie[c].task = t}}
    \cup {<<"queue", i>> : i \in {i \in DOMAIN runQueue : runQueue[i] = t}}
    \cup {<<"corpse", i>> : i \in {i \in DOMAIN corpses : corpses[i] = t}}
    \cup {<<"slot", s>> : s \in {s \in Slots : occupant[s] = t}}

Exists(t) == pc[t] \notin {"none", "unborn"} /\ t \notin retired

\* Through ticks, parking, bounced parks, wakes and termination on any CPU, a
\* task is never duplicated or lost: the Box is in exactly one current_task,
\* idle_task, zombie_task, queue or parking slot.
OnePlace == \A t \in Tasks : Cardinality(Places(t)) = IF Exists(t) THEN 1 ELSE 0

\* A task another CPU could pick up, wake or drop is on no CPU's stack, no two
\* CPUs share a stack, and a CPU that runs task code runs its current_task:
\* this is what zombie_task is for, from the swap until the next reschedule.
StackExclusive ==
    \A c \in Cpus :
        /\ running[c] \notin Range(runQueue) \cup Range(corpses) \cup retired
        /\ \A s \in Slots : occupant[s] # running[c]
        /\ \A d \in Cpus \ {c} : running[c] # running[d]
        /\ mode[c] # "switch" => running[c] = current[c]

\* The idle task of a CPU stays in that CPU's Scheduler.
IdleStaysHome ==
    \A c \in Cpus : idleTid[c] # NoTask =>
        idleTid[c] = Idle(c) /\ Idle(c) \in {current[c], idle[c], zombie[c].task}

\* "a reschedule that must switch always finds a target" (scheduler/mod.rs):
\* a task that parks or terminates does leave the CPU.
MustSwitchFindsTarget ==
    \A c \in Cpus : mode[c] = "pick" /\ MustSwitch(on[c]) => NextTask(on[c]) # NoTask

WakeSources(s) ==
    Cardinality({t \in Tasks : slot[t] = s /\ pc[t] \in {"sleepLock", "sleepPush"}})
    + Cardinality({c \in Cpus : taken[c] = s})
    + (IF s \in sleepers THEN 1 ELSE 0) + (IF s = cleanupUnpark THEN 1 ELSE 0)
    + (IF s \in stopUnpark THEN 1 ELSE 0)

ParkSides(s) ==
    Cardinality({t \in Tasks : slot[t] = s /\ pc[t] # "blockCli"})
    + Cardinality({t \in Tasks : ticket[t] = s})
    + Cardinality({c \in Cpus : zombie[c].slot = s})

\* "Every ticket has a live wake source" (reschedule): a slot somebody parks or
\* will park in has exactly one wake still to come, one already woken has none,
\* and the park side is held once until the park happens.
WakeSourceLive ==
    \A s \in Slots :
        /\ WakeSources(s) = IF phase[s] \in {"open", "parked"} THEN 1 ELSE 0
        /\ ParkSides(s) = IF phase[s] \in {"open", "fired"} THEN 1 ELSE 0

\* The Scheduler that a reschedule works on is that of the CPU it runs on: "only
\* one mutable reference to the scheduler exists at any time" (context.rs).
SchedulerCpuLocal == \A c \in Cpus : mode[c] # "task" => on[c] = c

\* Every terminated task is eventually dropped by the cleanup task: no corpse
\* is left behind by a cleanup task that parked without seeing it.
TerminatedRetired == \A t \in Tasks : t \in terminating ~> t \in retired

\* A task that goes to sleep runs again after its deadline, whether the tick
\* fires before, while or after it parks.
SleeperRuns ==
    \A t \in WorkerTasks :
        pc[t] = "sleepLock" ~> \E c \in Cpus : Runs(c, t, "run") /\ current[c] = t
===============================================================================
