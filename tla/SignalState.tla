----------------------------- MODULE SignalState -----------------------------
(***************************************************************************)
(* The signal state of one process (kernel/syscall/src/signal.rs) and the  *)
(* kernel entry points that read or change it: kill, sigaction,            *)
(* sigprocmask, sigreturn, exec, faults, exit and the timer tick that      *)
(* delivers.  Every method runs under the process's signals lock, so each  *)
(* is one step.  A SigSet is the set of the signals whose bit is set.      *)
(***************************************************************************)
EXTENDS Integers

CONSTANTS
    Sigs,       \* the signals in use, by number
    Customs,    \* the custom actions a process may install
    NoOutcome,  \* exit_outcome is not initialised
    Exited      \* ExitOutcome::Exited; ExitOutcome::Signaled(s) is s itself

VARIABLES
    actions,    \* SignalState::actions
    pending,    \* SignalState::pending
    blocked,    \* SignalState::blocked
    stopped,    \* SignalState::stopped
    outcome,    \* Process::exit_outcome
    ended       \* what really ended the process, in the form of an outcome

sigVars == <<actions, pending, blocked, stopped, outcome, ended>>

Continue == 5
Kill == 10
Segfault == 13
Stop == 14

KillStop == {Kill, Stop}

StopSignals == {14, 16, 17, 18}

IgnoredByDefault == {4, 5, 21, 24}

(* A SigAction: what the handler field is, the mask and the two flags that *)
(* the kernel honours.  The restorer and SIGINFO only decide whether       *)
(* sigaction accepts the action, see SigAction.                            *)
DefaultAction ==
    [handler |-> "default", mask |-> {}, nodefer |-> FALSE, resethand |-> FALSE]

IgnoreAction == [DefaultAction EXCEPT !.handler = "ignore"]

Actions == {DefaultAction, IgnoreAction} \cup Customs

ASSUME SignalAssumption ==
    /\ Sigs \subseteq 1..27
    /\ {Continue, Kill, Segfault, Stop} \subseteq Sigs
    /\ NoOutcome \notin Sigs /\ Exited \notin Sigs /\ NoOutcome # Exited
    /\ \A a \in Customs :
         /\ a \in [handler : {"custom"}, mask : SUBSET Sigs,
                   nodefer : BOOLEAN, resethand : BOOLEAN]

------------------------------------------------------------------------------
(* The policy: what the methods of SignalState compute.                    *)

Disposition(s) ==
    CASE s = Kill -> "terminate"
      [] s # Kill /\ actions[s].handler = "ignore" -> "ignore"
      [] s # Kill /\ actions[s].handler = "custom" -> "handler"
      [] OTHER -> IF s \in IgnoredByDefault THEN "ignore"
                  ELSE IF s \in StopSignals THEN "stop" ELSE "terminate"

Deliverable == pending \ blocked

HasInterruptingDeliverable ==
    \E s \in Deliverable : Disposition(s) \in {"handler", "terminate"}

(* Mutant: a stop signal does not discard a pending Continue.              *)
WithPendingKeepsContinue(s) ==
    (pending \cup {s}) \ (IF s = Continue THEN StopSignals ELSE {})

(* set_pending: stop signals and Continue discard each other.              *)
WithPending(s) ==
    (pending \cup {s}) \ (IF s \in StopSignals THEN {Continue}
                          ELSE IF s = Continue THEN StopSignals ELSE {})

(* Mutant: entering a handler blocks the whole mask of its action.         *)
EntryMaskUnfiltered(s) ==
    blocked \cup actions[s].mask \cup (IF actions[s].nodefer THEN {} ELSE {s})

(* Mutant: the bit of the signal after the delivered one is blocked.       *)
EntryMaskOffByOne(s) ==
    (blocked \cup actions[s].mask \cup (IF actions[s].nodefer THEN {} ELSE {s + 1}))
        \ KillStop

(* apply_handler_entry: the blocked set and the actions a handler runs with *)
EntryMask(s) ==
    (blocked \cup actions[s].mask \cup (IF actions[s].nodefer THEN {} ELSE {s}))
        \ KillStop

ApplyHandlerEntry(s) ==
    /\ blocked' = EntryMask(s)
    /\ actions' = IF actions[s].resethand
                  THEN [actions EXCEPT ![s] = DefaultAction] ELSE actions

FirstOutcome(o) == IF outcome = NoOutcome THEN o ELSE outcome

(* write_sigframe: the frame goes on the user stack, or the process ends   *)
(* because the stack is no writable user range.                            *)
WriteSigframe ==
    \/ UNCHANGED <<outcome, ended>>
    \/ outcome' = FirstOutcome(Segfault) /\ ended' = Segfault

------------------------------------------------------------------------------
Init ==
    /\ actions = [s \in Sigs |-> DefaultAction]
    /\ pending = {}
    /\ blocked = {}
    /\ stopped = FALSE
    /\ outcome = NoOutcome
    /\ ended = NoOutcome

Alive == ended = NoOutcome

(* Mutant: only Continue clears the stopped flag.                          *)
ResumesOnlyContinue(s) == s = Continue

(* Which signals resume a stopped process (deliver).                       *)
Resumes(s) == s \in {Continue, Kill}

(* kill: the signal becomes pending, Continue and Kill clear the stopped   *)
(* flag, and a default-terminate disposition is recorded as the outcome at *)
(* once, whether or not the signal is blocked.                             *)
Deliver(s) ==
    /\ pending' = WithPending(s)
    /\ stopped' = (stopped /\ ~Resumes(s))
    /\ outcome' = IF Disposition(s) = "terminate" THEN FirstOutcome(s) ELSE outcome
    /\ UNCHANGED <<actions, blocked, ended>>

(* The signals the delivery loop does not simply drop.                     *)
Acting == {s \in Deliverable : Disposition(s) # "ignore"}

(* The tick's delivery loop takes deliverable signals lowest first, drops  *)
(* the ignored ones, and ends with the first that is not.                  *)
TickIgnoresAll ==
    /\ Acting = {}
    /\ pending' = pending \ Deliverable
    /\ UNCHANGED <<actions, blocked, stopped, outcome, ended>>

(* Mutant: the signal that is taken stays pending.                         *)
TakenStaysPending(s) ==
    /\ \A r \in Acting : s <= r
    /\ pending' = pending \ {r \in Deliverable : r < s}

Taken(s) ==
    /\ \A r \in Acting : s <= r
    /\ pending' = pending \ {r \in Deliverable : r <= s}

TickStops(s) ==
    /\ Taken(s)
    /\ Disposition(s) = "stop"
    /\ stopped' = TRUE
    /\ UNCHANGED <<actions, blocked, outcome, ended>>

TickTerminates(s) ==
    /\ Taken(s)
    /\ Disposition(s) = "terminate"
    /\ ended' = s
    /\ UNCHANGED <<actions, blocked, stopped, outcome>>

TickEntersHandler(s) ==
    /\ Taken(s)
    /\ Disposition(s) = "handler"
    /\ ApplyHandlerEntry(s)
    /\ WriteSigframe
    /\ UNCHANGED stopped

(* deliver_pending at a tick in Ring 3; a stopped process takes nothing.   *)
DeliverPending ==
    /\ Alive /\ ~stopped
    /\ \/ TickIgnoresAll
       \/ \E s \in Acting : TickStops(s) \/ TickTerminates(s) \/ TickEntersHandler(s)

(* A synchronous fault: an installed, unblocked handler runs, anything     *)
(* else ends the process.                                                  *)
FaultEntersHandler(s) ==
    /\ Disposition(s) = "handler" /\ s \notin blocked
    /\ ApplyHandlerEntry(s)
    /\ WriteSigframe
    /\ UNCHANGED <<pending, stopped>>

FaultTerminates(s) ==
    /\ Disposition(s) # "handler" \/ s \in blocked
    /\ pending' = WithPending(s)
    /\ outcome' = FirstOutcome(s)
    /\ ended' = s
    /\ UNCHANGED <<actions, blocked, stopped>>

Fault(s) == FaultEntersHandler(s) \/ FaultTerminates(s)

(* sigaction: Kill and Stop are refused; so are a custom action without a  *)
(* restorer and one with SIGINFO, which are calls without effect.          *)
SigAction(s, a) ==
    /\ s \notin KillStop
    /\ actions' = [actions EXCEPT ![s] = a]
    /\ UNCHANGED <<pending, blocked, stopped, outcome, ended>>

(* sigprocmask: the Kill and Stop bits are cleared after every change.     *)
SigProcMask(how, set) ==
    /\ blocked' = (CASE how = "block" -> blocked \cup set
                     [] how = "unblock" -> blocked \ set
                     [] how = "setmask" -> set) \ KillStop
    /\ UNCHANGED <<actions, pending, stopped, outcome, ended>>

(* sigreturn restores the mask of a frame that lies in user memory, so any *)
(* mask may be found there; a frame that cannot be read ends the process.  *)
SigReturn(set) ==
    /\ blocked' = set \ KillStop
    /\ UNCHANGED <<actions, pending, stopped, outcome, ended>>

TerminateCurrent(s) ==
    /\ outcome' = FirstOutcome(s)
    /\ ended' = s
    /\ UNCHANGED <<actions, pending, blocked, stopped>>

(* exec_reset: ignored signals stay ignored, all others become default.    *)
ExecReset ==
    /\ actions' = [s \in Sigs |-> IF actions[s].handler = "ignore"
                                  THEN actions[s] ELSE DefaultAction]
    /\ UNCHANGED <<pending, blocked, stopped, outcome, ended>>

SysExit ==
    /\ outcome' = FirstOutcome(Exited)
    /\ ended' = Exited
    /\ UNCHANGED <<actions, pending, blocked, stopped>>

(* What the process itself does.  A stopped process runs on when the lot   *)
(* had no slot to park it in, so stopped guards none of these.             *)
UserStep ==
    /\ Alive
    /\ \/ Fault(Segfault) \/ TerminateCurrent(Segfault)
       \/ \E s \in Sigs, a \in Actions : SigAction(s, a)
       \/ \E how \in {"block", "unblock", "setmask"}, set \in SUBSET Sigs :
            SigProcMask(how, set)
       \/ \E set \in SUBSET Sigs : SigReturn(set)
       \/ ExecReset
       \/ SysExit

Send == Alive /\ \E s \in Sigs : Deliver(s)

Next == Send \/ DeliverPending \/ UserStep

Spec == Init /\ [][Next]_sigVars

(* The timer tick keeps coming and finds the signals lock free again and   *)
(* again, because every holder releases it after finitely many steps.      *)
FairSpec == Spec /\ WF_sigVars(DeliverPending)

------------------------------------------------------------------------------
TypeOK ==
    /\ actions \in [Sigs -> Actions]
    /\ pending \subseteq Sigs
    /\ blocked \subseteq Sigs
    /\ stopped \in BOOLEAN
    /\ outcome \in Sigs \cup {NoOutcome, Exited}
    /\ ended \in Sigs \cup {NoOutcome, Exited}

(* Kill and Stop can never be blocked, caught or ignored, whatever masks   *)
(* handlers, sigprocmask and signal frames bring in.                       *)
Uncatchable ==
    /\ blocked \cap KillStop = {}
    /\ \A s \in KillStop : actions[s] = DefaultAction

(* Continue and a stop signal are never pending together (set_pending).    *)
StopContinueExclusive == Continue \in pending => pending \cap StopSignals = {}

(* While a process is stopped neither Continue nor Kill is pending: a      *)
(* process with either of them pending is on its way.  This rests on the   *)
(* order of the numbers, Kill lies below every stop signal, and on the     *)
(* mutual discard, since Continue may be pending and blocked when the      *)
(* process is stopped.                                                     *)
StoppedAwaitsResume == stopped => pending \cap {Continue, Kill} = {}

(* A pending Kill ends the process, whatever handlers it installs, masks   *)
(* it sets or stop signals it has pending, once the others stop sending.   *)
KillTerminates ==
    (<>[][~Send]_sigVars) => (Kill \in pending ~> ~Alive)

(* "How a process ended" (ExitOutcome): the outcome is not recorded for a  *)
(* process that goes on without the recorded signal even pending.          *)
OutcomeIsAnEnd == (Alive /\ outcome \in Sigs) => outcome \in pending
==============================================================================
