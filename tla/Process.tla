------------------------------- MODULE Process -------------------------------
(***************************************************************************)
(* One process: its Ring 3 task, its kernel sibling tasks, the senders of  *)
(* signals and the cleanup task, around the waits of                       *)
(* mcore/mtask/process/mod.rs.  It composes the policy of SignalState with *)
(* the interruptible wait (park_current_task), the stop park of the tick,  *)
(* and the reap of the sibling tasks by execve.                            *)
(*                                                                         *)
(* The parking lot appears through what module Handoff promises: a ticket  *)
(* is open, parked or fired, and a waker works once.  Wakers left in a     *)
(* list after their ticket was used do nothing and are taken out by Wake.  *)
(* A task that is ready is running: other tasks run beside it (SMP).       *)
(***************************************************************************)
EXTENDS Integers, FiniteSets

CONSTANTS
    Main,       \* the task that runs in Ring 3
    Siblings,   \* kernel tasks attached to the same process
    Sender,     \* whoever calls kill; the signals lock serialises them
    NoTask,     \* no keeper, no lock holder
    FrameMasks, \* bound: the masks a signal frame may hold
    Sigs, Customs, NoOutcome, Exited    \* see SignalState

VARIABLES
    actions, pending, blocked, stopped, outcome, ended,     \* see SignalState
    lock,        \* who holds the signals lock for writing
    sending,     \* where KernelAccess::deliver is
    pc,          \* where each task is
    slot,        \* the ticket of each task: none, open, parked or fired
    sleepers,    \* tasks with a waker in SLEEPERS
    expired,     \* whether the deadline of the current sleep has passed
    wakers,      \* interruptible_wakers
    batch,       \* wakers taken by a wake_interruptible that is under way
    stopUnpark,  \* Signals::stop_unpark
    live,        \* TaskAccounting::live
    reap,        \* the keeper of TaskAccounting::reap
    waiter,      \* whether ReapState::waiter is set
    reapActive,  \* Process::reap_active
    image        \* whether the process has a user image to run in

Sig == INSTANCE SignalState

Tasks == {Main} \cup Siblings

sigVars == <<actions, pending, blocked, stopped, outcome, ended>>
waitVars == <<slot, sleepers, batch, stopUnpark, waiter>>
reapVars == <<live, reap, reapActive, image>>
vars == <<sigVars, lock, sending, pc, waitVars, expired, wakers, reapVars>>

ASSUME ProcessAssumption ==
    /\ IsFiniteSet(Siblings)
    /\ Main \notin Siblings /\ Sender \notin Tasks
    /\ NoTask \notin Tasks \cup {Sender}
    /\ FrameMasks \subseteq SUBSET Sigs

------------------------------------------------------------------------------
Init ==
    /\ actions \in {[s \in Sigs |-> IF s = Sig!Segfault THEN a ELSE Sig!DefaultAction] :
                      a \in {Sig!DefaultAction} \cup Customs}
    /\ pending = {} /\ blocked = {} /\ stopped = FALSE
    /\ outcome = NoOutcome /\ ended = NoOutcome
    /\ lock = NoTask
    /\ sending = "idle"
    /\ pc = [t \in Tasks |-> IF t = Main THEN "user" ELSE "run"]
    /\ slot = [t \in Tasks |-> "none"]
    /\ sleepers = {} /\ expired = FALSE
    /\ wakers = {} /\ batch = [a \in {Main, Sender} |-> {}]
    /\ stopUnpark = {}
    /\ live = Cardinality(Tasks)
    /\ reap = NoTask /\ waiter = FALSE /\ reapActive = FALSE
    /\ image = TRUE

(* The tasks of S are woken: an open ticket fires, a parked task is        *)
(* enqueued, and no other waker of theirs works any more.                  *)
Wake(S) ==
    /\ slot' = [t \in Tasks |-> IF t \in S /\ slot[t] = "open" THEN "fired"
                                ELSE IF t \in S /\ slot[t] = "parked" THEN "none"
                                ELSE slot[t]]
    /\ sleepers' = sleepers \ S
    /\ batch' = [a \in {Main, Sender} |-> batch[a] \ S]
    /\ stopUnpark' = stopUnpark \ S
    /\ waiter' = (waiter /\ Main \notin S)

(* block_current: an open ticket parks the task, a fired one lets it pass. *)
Block(t, from, parked, to) ==
    /\ pc[t] = from
    /\ \/ /\ slot[t] = "open"
          /\ slot' = [slot EXCEPT ![t] = "parked"]
          /\ pc' = [pc EXCEPT ![t] = parked]
       \/ /\ slot[t] = "fired"
          /\ slot' = [slot EXCEPT ![t] = "none"]
          /\ pc' = [pc EXCEPT ![t] = to]
    /\ UNCHANGED <<sigVars, lock, sending, sleepers, expired, wakers, batch,
                   stopUnpark, waiter, reapVars>>

(* A woken task runs again behind its block_current.                       *)
Resume(t, parked, to) ==
    /\ pc[t] = parked /\ slot[t] = "none"
    /\ pc' = [pc EXCEPT ![t] = to]
    /\ UNCHANGED <<sigVars, lock, sending, waitVars, expired, wakers, reapVars>>

Goto(t, to) == pc' = [pc EXCEPT ![t] = to]

------------------------------------------------------------------------------
(* The interruptible wait.                                                 *)

ReapRequestedFor(t) == reapActive /\ reap \notin {NoTask, t}

(* The closure of nanosleep; the siblings wait for nothing but the reap.   *)
ShouldWake(t) == t = Main /\ (expired \/ Sig!HasInterruptingDeliverable)

(* Only the closure of nanosleep reads the signals lock.                   *)
CanRead(t) == t # Main \/ lock = NoTask

AfterWait(t) == IF t = Main THEN "user" ELSE "exit"

ParkReturns(t) ==
    /\ pc[t] = "check" /\ CanRead(t)
    /\ ReapRequestedFor(t) \/ ShouldWake(t)
    /\ Goto(t, AfterWait(t))
    /\ UNCHANGED <<sigVars, lock, sending, waitVars, expired, wakers, reapVars>>

(* Mutant: the deadline is not handed to the sleepers.                     *)
ParkReserveNoDeadline(t) ==
    /\ pc[t] = "check" /\ CanRead(t)
    /\ ~ReapRequestedFor(t) /\ ~ShouldWake(t)
    /\ slot' = [slot EXCEPT ![t] = "open"]
    /\ Goto(t, "register")
    /\ UNCHANGED <<sigVars, lock, sending, sleepers, expired, wakers, batch,
                   stopUnpark, waiter, reapVars>>

ParkReserve(t) ==
    /\ pc[t] = "check" /\ CanRead(t)
    /\ ~ReapRequestedFor(t) /\ ~ShouldWake(t)
    /\ slot' = [slot EXCEPT ![t] = "open"]
    /\ sleepers' = IF t = Main THEN sleepers \cup {t} ELSE sleepers
    /\ Goto(t, "register")
    /\ UNCHANGED <<sigVars, lock, sending, expired, wakers, batch,
                   stopUnpark, waiter, reapVars>>

ParkRegister(t) ==
    /\ pc[t] = "register"
    /\ wakers' = wakers \cup {t}
    /\ Goto(t, "recheck")
    /\ UNCHANGED <<sigVars, lock, sending, waitVars, expired, reapVars>>

(* Mutant: the condition is not looked at again after registering.         *)
ParkNoRecheck(t) ==
    /\ pc[t] = "recheck" /\ CanRead(t)
    /\ Goto(t, "recheckReap")
    /\ UNCHANGED <<sigVars, lock, sending, waitVars, expired, wakers, reapVars>>

ParkRecheck(t) ==
    /\ pc[t] = "recheck" /\ CanRead(t)
    /\ \/ ShouldWake(t) /\ Wake({t}) /\ Goto(t, "block")
       \/ ~ShouldWake(t) /\ UNCHANGED waitVars /\ Goto(t, "recheckReap")
    /\ UNCHANGED <<sigVars, lock, sending, expired, wakers, reapVars>>

ParkRecheckReap(t) ==
    /\ pc[t] = "recheckReap"
    /\ IF ReapRequestedFor(t) THEN Wake({t}) ELSE UNCHANGED waitVars
    /\ Goto(t, "block")
    /\ UNCHANGED <<sigVars, lock, sending, expired, wakers, reapVars>>

ParkClear(t) ==
    /\ pc[t] = "clear"
    /\ wakers' = wakers \ {t}
    /\ Goto(t, "check")
    /\ UNCHANGED <<sigVars, lock, sending, waitVars, expired, reapVars>>

ParkStep(t) ==
    \/ ParkReturns(t) \/ ParkReserve(t) \/ ParkRegister(t) \/ ParkRecheck(t)
    \/ ParkRecheckReap(t) \/ ParkClear(t)
    \/ Block(t, "block", "parked", "clear") \/ Resume(t, "parked", "clear")

(* The deadline passes, and a tick's sweep wakes the sleeper.              *)
Expire ==
    /\ ~expired /\ pc[Main] \in {"check", "register", "recheck", "recheckReap",
                                 "block", "parked", "clear"}
    /\ expired' = TRUE
    /\ UNCHANGED <<sigVars, lock, sending, pc, waitVars, wakers, reapVars>>

Sweep ==
    /\ expired /\ Main \in sleepers
    /\ Wake({Main})
    /\ UNCHANGED <<sigVars, lock, sending, pc, expired, wakers, reapVars>>

(* wake_interruptible takes the whole list under its lock, then wakes one  *)
(* waker after the other; a waker whose ticket was used does nothing.      *)
TakeWakers(a) ==
    /\ batch' = [batch EXCEPT ![a] = {t \in wakers : slot[t] \in {"open", "parked"}}]
    /\ wakers' = {}

WakeOne(a) == \E t \in batch[a] : Wake({t})

------------------------------------------------------------------------------
(* kill: KernelAccess::deliver, all of it under the signals lock.          *)

(* Mutant: the tickets of the stopped tasks are not released.              *)
ResumeStoppedForgets == UNCHANGED waitVars

(* resume_stopped_tasks                                                    *)
ResumeStopped == Wake(stopUnpark)

SendDeliver(s) ==
    /\ sending = "idle" /\ lock = NoTask /\ pc[Main] # "gone"
    /\ lock' = Sender
    /\ Sig!Deliver(s)
    /\ IF stopped /\ Sig!Resumes(s) THEN ResumeStopped ELSE UNCHANGED waitVars
    /\ sending' = "delivered"
    /\ UNCHANGED <<pc, expired, wakers, reapVars>>

SendTake ==
    /\ sending = "delivered"
    /\ TakeWakers(Sender)
    /\ sending' = "waking"
    /\ UNCHANGED <<sigVars, lock, pc, slot, sleepers, stopUnpark, waiter, expired, reapVars>>

SendWake ==
    /\ sending = "waking" /\ WakeOne(Sender)
    /\ UNCHANGED <<sigVars, lock, sending, pc, expired, wakers, reapVars>>

SendUnlock ==
    /\ sending = "waking" /\ batch[Sender] = {}
    /\ lock' = NoTask
    /\ sending' = "idle"
    /\ UNCHANGED <<sigVars, pc, waitVars, expired, wakers, reapVars>>

SenderStep == SendTake \/ SendWake \/ SendUnlock

------------------------------------------------------------------------------
(* The timer tick in Ring 3.                                               *)

(* request_stop_park: a free slot parks the task; without one it runs on   *)
(* and the next tick tries again.                                          *)
RequestStopPark ==
    \/ /\ slot' = [slot EXCEPT ![Main] = "open"]
       /\ stopUnpark' = stopUnpark \cup {Main}
       /\ Goto(Main, "stopBlock")
       /\ UNCHANGED <<sleepers, batch, waiter>>
    \/ UNCHANGED <<pc, waitVars>>

TickStopped ==
    /\ stopped
    /\ RequestStopPark
    /\ UNCHANGED sigVars

TickDelivers ==
    /\ Sig!DeliverPending
    /\ CASE stopped' -> RequestStopPark
         [] ended' # NoOutcome -> Goto(Main, "exit") /\ UNCHANGED waitVars
         [] OTHER -> UNCHANGED <<pc, waitVars>>

Tick ==
    /\ pc[Main] = "user" /\ lock = NoTask
    /\ TickStopped \/ TickDelivers
    /\ UNCHANGED <<lock, sending, expired, wakers, reapVars>>

StopPark ==
    \/ Block(Main, "stopBlock", "stopParked", "user")
    \/ Resume(Main, "stopParked", "user")

------------------------------------------------------------------------------
(* What the Ring 3 task does: sleep, return from a handler, exit.          *)

Nanosleep ==
    /\ pc[Main] = "user"
    /\ Goto(Main, "check")
    /\ expired' = FALSE
    /\ UNCHANGED <<sigVars, lock, sending, waitVars, wakers, reapVars>>

(* The frame lies in user memory: it holds any mask, or is no frame at all. *)
SigReturn ==
    /\ pc[Main] = "user"
    /\ \/ /\ lock = NoTask
          /\ \E set \in FrameMasks : Sig!SigReturn(set)
          /\ UNCHANGED pc
       \/ Sig!TerminateCurrent(Sig!Segfault) /\ Goto(Main, "exit")
    /\ UNCHANGED <<lock, sending, waitVars, expired, wakers, reapVars>>

Exit ==
    /\ pc[Main] = "user"
    /\ Sig!SysExit
    /\ Goto(Main, "exit")
    /\ UNCHANGED <<lock, sending, waitVars, expired, wakers, reapVars>>

(* A sibling waits until a reap interrupts it, then returns and so ends.   *)
SiblingRuns(t) ==
    /\ pc[t] = "run"
    /\ Goto(t, "check")
    /\ UNCHANGED <<sigVars, lock, sending, waitVars, expired, wakers, reapVars>>

(* Mutant: the retiring task wakes the waiter only when it was the last.   *)
RetireWakesLate(t) ==
    /\ pc[t] = "exit"
    /\ Goto(t, "gone")
    /\ live' = live - 1
    /\ IF live' = 0 /\ waiter THEN Wake({Main}) ELSE UNCHANGED waitVars
    /\ UNCHANGED <<sigVars, lock, sending, expired, wakers, reap, reapActive, image>>

(* Mutant: the task is accounted for when it exits and when it is dropped. *)
RetireCountsTwice(t) ==
    /\ pc[t] = "exit"
    /\ Goto(t, "gone")
    /\ live' = live - 2
    /\ IF live' = 1 /\ waiter THEN Wake({Main}) ELSE UNCHANGED waitVars
    /\ UNCHANGED <<sigVars, lock, sending, expired, wakers, reap, reapActive, image>>

(* The cleanup task drops an ended task: retire_task.                      *)
Retire(t) ==
    /\ pc[t] = "exit"
    /\ Goto(t, "gone")
    /\ live' = live - 1
    /\ IF live' = 1 /\ waiter THEN Wake({Main}) ELSE UNCHANGED waitVars
    /\ UNCHANGED <<sigVars, lock, sending, expired, wakers, reap, reapActive, image>>

------------------------------------------------------------------------------
(* execve: reap_sibling_tasks, the new image, finish_reap, exec_reset.     *)

ExecStart ==
    /\ pc[Main] = "user"
    /\ reap' = Main
    /\ reapActive' = TRUE
    /\ Goto(Main, "reapResume")
    /\ UNCHANGED <<sigVars, lock, sending, waitVars, expired, wakers, live, image>>

ReapResume ==
    /\ pc[Main] = "reapResume" /\ lock = NoTask
    /\ ResumeStopped
    /\ Goto(Main, "reapTake")
    /\ UNCHANGED <<sigVars, lock, sending, expired, wakers, reapVars>>

ReapTake ==
    /\ pc[Main] = "reapTake"
    /\ TakeWakers(Main)
    /\ Goto(Main, "reapWake")
    /\ UNCHANGED <<sigVars, lock, sending, slot, sleepers, stopUnpark, waiter,
                   expired, reapVars>>

ReapWake ==
    /\ pc[Main] = "reapWake"
    /\ \/ WakeOne(Main) /\ UNCHANGED pc
       \/ batch[Main] = {} /\ Goto(Main, "reapCheck") /\ UNCHANGED waitVars
    /\ UNCHANGED <<sigVars, lock, sending, expired, wakers, reapVars>>

(* Mutant: an off-by-one in the count of the tasks that are left.          *)
SoleLiveEarly == live <= 2

SoleLive == live = 1

ReapCheck ==
    /\ pc[Main] = "reapCheck"
    /\ \/ SoleLive /\ Goto(Main, "teardown") /\ UNCHANGED slot
       \/ ~SoleLive /\ Goto(Main, "reapWait") /\ slot' = [slot EXCEPT ![Main] = "open"]
    /\ UNCHANGED <<sigVars, lock, sending, sleepers, batch, stopUnpark, waiter,
                   expired, wakers, reapVars>>

ReapWait ==
    /\ pc[Main] = "reapWait"
    /\ \/ SoleLive /\ Wake({Main})
       \/ ~SoleLive /\ waiter' = TRUE /\ UNCHANGED <<slot, sleepers, batch, stopUnpark>>
    /\ Goto(Main, "reapBlock")
    /\ UNCHANGED <<sigVars, lock, sending, expired, wakers, reapVars>>

(* The old image is freed ...                                              *)
Teardown ==
    /\ pc[Main] = "teardown"
    /\ image' = FALSE
    /\ Goto(Main, "load")
    /\ UNCHANGED <<sigVars, lock, sending, waitVars, expired, wakers, live, reap, reapActive>>

(* Mutant: an image that fails to load is reported to the caller.          *)
LoadReturnsError ==
    /\ pc[Main] = "load"
    /\ \/ image' = TRUE /\ Goto(Main, "finishReap")
       \/ UNCHANGED image /\ Goto(Main, "user")
    /\ UNCHANGED <<sigVars, lock, sending, waitVars, expired, wakers, live, reap, reapActive>>

(* ... and the new one loaded; when that fails the process ends.           *)
LoadImage ==
    /\ pc[Main] = "load"
    /\ \/ image' = TRUE /\ Goto(Main, "finishReap") /\ UNCHANGED sigVars
       \/ Sig!TerminateCurrent(Sig!Kill) /\ Goto(Main, "exit") /\ UNCHANGED image
    /\ UNCHANGED <<lock, sending, waitVars, expired, wakers, live, reap, reapActive>>

FinishReap ==
    /\ pc[Main] = "finishReap"
    /\ IF reapActive THEN reapActive' = FALSE /\ UNCHANGED <<reap, pc>>
       ELSE reap' = NoTask /\ Goto(Main, "execReset") /\ UNCHANGED reapActive
    /\ UNCHANGED <<sigVars, lock, sending, waitVars, expired, wakers, live, image>>

ExecReset ==
    /\ pc[Main] = "execReset" /\ lock = NoTask
    /\ Sig!ExecReset
    /\ Goto(Main, "user")
    /\ UNCHANGED <<lock, sending, waitVars, expired, wakers, reapVars>>

ExecStep ==
    \/ ReapResume \/ ReapTake \/ ReapWake \/ ReapCheck \/ ReapWait
    \/ Block(Main, "reapBlock", "reapParked", "reapCheck")
    \/ Resume(Main, "reapParked", "reapCheck")
    \/ Teardown \/ LoadImage \/ FinishReap \/ ExecReset

------------------------------------------------------------------------------
Send == \E s \in Sigs : SendDeliver(s)

TaskStep(t) == ParkStep(t) \/ Retire(t)

Next ==
    \/ Send \/ SenderStep
    \/ Tick \/ StopPark \/ Nanosleep \/ SigReturn \/ Exit \/ ExecStart \/ ExecStep
    \/ Expire \/ Sweep
    \/ \E t \in Siblings : SiblingRuns(t)
    \/ \E t \in Tasks : TaskStep(t)

Spec == Init /\ [][Next]_vars

(* Running tasks and the sender go on, the cleanup task drops corpses and  *)
(* the sweep runs at every tick.  A task that is in Ring 3 again and again *)
(* is ticked there again and again, since the timer is not synchronised    *)
(* with it.  Nobody has to sleep, exec, exit or send, and a deadline may   *)
(* lie as far away as one likes.                                           *)
Fairness ==
    /\ WF_vars(SenderStep) /\ WF_vars(StopPark) /\ WF_vars(ExecStep) /\ WF_vars(Sweep)
    /\ SF_vars(Tick)
    /\ \A t \in Siblings : WF_vars(SiblingRuns(t))
    /\ \A t \in Tasks : WF_vars(TaskStep(t))

FairSpec == Spec /\ Fairness

------------------------------------------------------------------------------
Waiting == {"check", "register", "recheck", "recheckReap", "block", "parked", "clear"}
Execing == {"reapResume", "reapTake", "reapWake", "reapCheck", "reapWait", "reapBlock",
            "reapParked", "teardown", "load", "finishReap", "execReset"}

TypeOK ==
    /\ Sig!TypeOK
    /\ lock \in {NoTask, Sender}
    /\ sending \in {"idle", "delivered", "waking"}
    /\ pc \in [Tasks -> {"user", "run", "stopBlock", "stopParked", "exit", "gone"}
                          \cup Waiting \cup Execing]
    /\ slot \in [Tasks -> {"none", "open", "parked", "fired"}]
    /\ sleepers \subseteq {Main} /\ stopUnpark \subseteq {Main}
    /\ wakers \subseteq Tasks
    /\ batch \in [{Main, Sender} -> SUBSET Tasks]
    /\ live \in 0..Cardinality(Tasks)
    /\ reap \in {NoTask, Main}
    /\ {expired, waiter, reapActive, image} \subseteq BOOLEAN

(* execve tears the old image down only when every sibling is gone: what   *)
(* the type SoleLiveTask stands for.  Siblings are attached before the     *)
(* Ring 3 task first runs, so the count of live tasks only falls.          *)
SoleAtTeardown ==
    pc[Main] \in {"teardown", "load", "finishReap", "execReset"} =>
        \A t \in Siblings : pc[t] = "gone"

(* A task parked by a stop signal belongs to a stopped process: Continue   *)
(* and Kill release every such task when they clear the flag, also when    *)
(* they come between the tick's reservation and the park.                  *)
StopParkedWhileStopped ==
    pc[Main] = "stopParked" /\ slot[Main] = "parked" => stopped /\ Main \in stopUnpark

(* park_current_task loses no wakeup: while a task is parked although its  *)
(* condition or a reap calls it, a wake that will reach it is under way.   *)
InterruptNotLost ==
    \A t \in Tasks :
      pc[t] = "parked" /\ slot[t] = "parked" /\ (ShouldWake(t) \/ ReapRequestedFor(t)) =>
        \/ t \in batch[Sender] \cup batch[Main]
        \/ t \in wakers /\ (sending = "delivered" \/ pc[Main] \in {"reapResume", "reapTake"})
        \/ t \in sleepers /\ expired

(* "Once teardown starts, a failure kills the process, because there is no *)
(* image left to return into" (dispatch_sys_execve): wherever the Ring 3   *)
(* task runs, sleeps or is stopped, it has an image to return into.        *)
ImageToReturnTo ==
    pc[Main] \in {"user", "stopBlock", "stopParked"} \cup Waiting => image

Quiet == <>[][~Send]_vars

(* Kill ends the process wherever its task is: running, stopped, asleep or *)
(* in the middle of an execve.                                             *)
KillEnds == Quiet => (Sig!Kill \in pending ~> ended # NoOutcome)

(* An execve gets past its siblings and never waits for ever: it returns   *)
(* to Ring 3 in an image, or the process has ended.                        *)
ExecFinishes ==
    Quiet => (pc[Main] \in Execing ~> (pc[Main] = "user" /\ image) \/ ended # NoOutcome)

(* nanosleep returns after its deadline.                                   *)
SleepEnds == Quiet => ((pc[Main] \in Waiting /\ expired) ~> pc[Main] \notin Waiting)
==============================================================================
