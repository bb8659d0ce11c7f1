-------------------------- MODULE SignalStateProofs --------------------------
(***************************************************************************)
(* The safety invariants of SignalState, proved for every set of signals   *)
(* and every set of custom actions.                                        *)
(***************************************************************************)
EXTENDS SignalState, TLAPS

(* The inductive invariant: StoppedAwaitsResume needs both others, because *)
(* a stop is taken only when no lower-numbered Kill is deliverable and no  *)
(* Continue is pending.                                                    *)
SignalInv ==
    /\ TypeOK
    /\ Uncatchable
    /\ StopContinueExclusive
    /\ StoppedAwaitsResume

(* The mask of every action a process may install is a set of signals.     *)
LEMMA ActionMask ==
    ASSUME NEW a \in Actions
    PROVE  a.mask \in SUBSET Sigs
  <1>1. CASE a = DefaultAction
    BY <1>1 DEF DefaultAction
  <1>2. CASE a = IgnoreAction
    BY <1>2 DEF DefaultAction, IgnoreAction
  <1>3. CASE a \in Customs
    BY <1>3, SignalAssumption
  <1>. QED  BY <1>1, <1>2, <1>3 DEF Actions

(* An uncatchable signal keeps its default disposition.                    *)
LEMMA UncatchableDisposition ==
    ASSUME Uncatchable
    PROVE  Disposition(Kill) = "terminate" /\ Disposition(Stop) = "stop"
  BY DEF Uncatchable, Disposition, KillStop, Kill, Stop, DefaultAction,
         StopSignals, IgnoredByDefault

(* A handler entry keeps the types and leaves Kill and Stop uncatchable.   *)
LEMMA HandlerEntryKeeps ==
    ASSUME TypeOK, Uncatchable, NEW s \in Sigs, ApplyHandlerEntry(s)
    PROVE  /\ blocked' \subseteq Sigs
           /\ actions' \in [Sigs -> Actions]
           /\ Uncatchable'
  <1>1. actions[s] \in Actions /\ actions[s].mask \in SUBSET Sigs
    BY ActionMask DEF TypeOK
  <1>2. blocked' \subseteq Sigs /\ blocked' \cap KillStop = {}
    BY <1>1 DEF ApplyHandlerEntry, EntryMask, TypeOK
  <1>3. actions' \in [Sigs -> Actions]
    BY DEF ApplyHandlerEntry, TypeOK, Actions
  <1>4. \A k \in KillStop : actions'[k] = DefaultAction
    BY SignalAssumption DEF ApplyHandlerEntry, Uncatchable, TypeOK, KillStop
  <1>. QED  BY <1>2, <1>3, <1>4 DEF Uncatchable

(* Delivering a signal keeps the mutual discard of stops and Continue.     *)
LEMMA PendingKeeps ==
    ASSUME TypeOK, StopContinueExclusive, NEW s \in Sigs, pending' = WithPending(s)
    PROVE  /\ pending' \subseteq Sigs
           /\ StopContinueExclusive'
           /\ pending' \cap {Continue, Kill} \subseteq pending \cup {s}
           /\ s \in StopSignals => Continue \notin pending'
  BY SignalAssumption DEF TypeOK, StopContinueExclusive, WithPending, Continue, StopSignals

(* What a tick takes away it takes from the pending set.                   *)
LEMMA TakenKeeps ==
    ASSUME TypeOK, StopContinueExclusive, NEW s \in Acting, Taken(s)
    PROVE  pending' \subseteq pending /\ StopContinueExclusive' /\ s \in Sigs
  BY DEF TypeOK, StopContinueExclusive, Taken, Acting, Deliverable

(* The tick stops a process only when neither Continue nor Kill is pending *)
LEMMA StopNeedsNoResume ==
    ASSUME SignalInv, NEW s \in Acting, Taken(s), Disposition(s) = "stop"
    PROVE  pending \cap {Continue, Kill} = {}
  <1>1. s \in pending /\ s \in StopSignals
    <2>1. s \in pending
      BY DEF Acting, Deliverable
    <2>2. s \in StopSignals
      BY DEF Disposition
    <2>. QED  BY <2>1, <2>2
  <1>2. Continue \notin pending
    BY <1>1 DEF SignalInv, StopContinueExclusive
  <1>3. Kill \notin pending
    <2>1. SUFFICES ASSUME Kill \in pending PROVE FALSE
      OBVIOUS
    <2>2. Kill \in Deliverable
      BY <2>1 DEF SignalInv, Uncatchable, Deliverable, KillStop
    <2>3. Kill \in Acting
      BY <2>2, UncatchableDisposition DEF Acting, SignalInv
    <2>4. s <= Kill
      BY <2>3 DEF Taken
    <2>. QED  BY <1>1, <2>4 DEF Kill, StopSignals
  <1>. QED  BY <1>2, <1>3

LEMMA InitSignalInv == Init => SignalInv
  <1>. SUFFICES ASSUME Init PROVE SignalInv
    OBVIOUS
  <1>1. TypeOK
    BY DEF Init, TypeOK, Actions
  <1>2. Uncatchable /\ StopContinueExclusive /\ StoppedAwaitsResume
    BY SignalAssumption
    DEF Init, Uncatchable, StopContinueExclusive, StoppedAwaitsResume, KillStop
  <1>. QED  BY <1>1, <1>2 DEF SignalInv

(* A sent signal.                                                          *)
LEMMA SendKeeps == SignalInv /\ Send => SignalInv'
  <1>. SUFFICES ASSUME SignalInv, NEW s \in Sigs, Deliver(s) PROVE SignalInv'
    BY DEF Send
  <1>1. /\ pending' \subseteq Sigs /\ StopContinueExclusive'
        /\ pending' \cap {Continue, Kill} \subseteq pending \cup {s}
    BY PendingKeeps DEF SignalInv, Deliver
  <1>2. TypeOK'
    BY <1>1 DEF SignalInv, TypeOK, Deliver, FirstOutcome
  <1>3. Uncatchable'
    BY DEF SignalInv, Uncatchable, Deliver
  <1>4. StoppedAwaitsResume'
    BY <1>1 DEF SignalInv, StoppedAwaitsResume, Deliver, Resumes
  <1>. QED  BY <1>1, <1>2, <1>3, <1>4 DEF SignalInv

(* A tick that delivers.                                                   *)
LEMMA TickKeeps == SignalInv /\ DeliverPending => SignalInv'
  <1>. SUFFICES ASSUME SignalInv, DeliverPending PROVE SignalInv'
    OBVIOUS
  <1>. USE DEF SignalInv
  <1>1. CASE TickIgnoresAll
    <2>1. pending' \subseteq pending
      BY <1>1 DEF TickIgnoresAll
    <2>2. TypeOK'
      BY <1>1, <2>1 DEF TickIgnoresAll, TypeOK
    <2>3. Uncatchable' /\ StopContinueExclusive' /\ StoppedAwaitsResume'
      BY <1>1, <2>1
      DEF TickIgnoresAll, Uncatchable, StopContinueExclusive, StoppedAwaitsResume
    <2>. QED  BY <2>2, <2>3
  <1>2. ASSUME NEW s \in Acting, TickStops(s) PROVE SignalInv'
    <2>1. Taken(s) /\ pending' \subseteq pending /\ StopContinueExclusive'
      BY <1>2, TakenKeeps DEF TickStops
    <2>2. TypeOK' /\ Uncatchable'
      BY <1>2, <2>1 DEF TickStops, TypeOK, Uncatchable
    <2>3. pending \cap {Continue, Kill} = {}
      BY <1>2, <2>1, StopNeedsNoResume DEF TickStops
    <2>4. StoppedAwaitsResume'
      BY <2>1, <2>3 DEF StoppedAwaitsResume
    <2>. QED  BY <2>1, <2>2, <2>4
  <1>3. ASSUME NEW s \in Acting, TickTerminates(s) PROVE SignalInv'
    <2>1. s \in Sigs /\ pending' \subseteq pending /\ StopContinueExclusive'
      BY <1>3, TakenKeeps DEF TickTerminates
    <2>2. TypeOK' /\ Uncatchable' /\ StoppedAwaitsResume'
      BY <1>3, <2>1
      DEF TickTerminates, TypeOK, Uncatchable, StoppedAwaitsResume
    <2>. QED  BY <2>1, <2>2
  <1>4. ASSUME NEW s \in Acting, TickEntersHandler(s) PROVE SignalInv'
    <2>1. s \in Sigs /\ pending' \subseteq pending /\ StopContinueExclusive'
      BY <1>4, TakenKeeps DEF TickEntersHandler
    <2>2. /\ blocked' \subseteq Sigs /\ actions' \in [Sigs -> Actions]
          /\ Uncatchable'
      BY <1>4, <2>1, HandlerEntryKeeps DEF TickEntersHandler
    <2>3. TypeOK' /\ StoppedAwaitsResume'
      BY <1>4, <2>1, <2>2, SignalAssumption
      DEF TickEntersHandler, WriteSigframe, FirstOutcome, TypeOK, StoppedAwaitsResume
    <2>. QED  BY <2>1, <2>2, <2>3
  <1>. QED  BY <1>1, <1>2, <1>3, <1>4 DEF DeliverPending

(* The process's own calls and faults.                                     *)
LEMMA UserKeeps == SignalInv /\ UserStep => SignalInv'
  <1>. SUFFICES ASSUME SignalInv, UserStep PROVE SignalInv'
    OBVIOUS
  <1>. USE DEF SignalInv
  <1>1. ASSUME NEW s \in Sigs, FaultEntersHandler(s) PROVE SignalInv'
    <2>1. /\ blocked' \subseteq Sigs /\ actions' \in [Sigs -> Actions]
          /\ Uncatchable'
      BY <1>1, HandlerEntryKeeps DEF FaultEntersHandler
    <2>2. TypeOK' /\ StopContinueExclusive' /\ StoppedAwaitsResume'
      BY <1>1, <2>1, SignalAssumption
      DEF FaultEntersHandler, WriteSigframe, FirstOutcome, TypeOK,
          StopContinueExclusive, StoppedAwaitsResume
    <2>. QED  BY <2>1, <2>2
  <1>2. ASSUME NEW s \in Sigs, s = Segfault, FaultTerminates(s) PROVE SignalInv'
    <2>1. /\ pending' \subseteq Sigs /\ StopContinueExclusive'
          /\ pending' \cap {Continue, Kill} \subseteq pending \cup {s}
      BY <1>2, PendingKeeps DEF FaultTerminates
    <2>2. TypeOK' /\ Uncatchable'
      BY <1>2, <2>1 DEF FaultTerminates, TypeOK, Uncatchable, FirstOutcome
    <2>3. StoppedAwaitsResume'
      BY <1>2, <2>1
      DEF FaultTerminates, StoppedAwaitsResume, Segfault, Continue, Kill
    <2>. QED  BY <2>1, <2>2, <2>3
  <1>3. ASSUME NEW s \in Sigs, TerminateCurrent(s) PROVE SignalInv'
    <2>1. TypeOK' /\ Uncatchable'
      BY <1>3 DEF TerminateCurrent, TypeOK, Uncatchable, FirstOutcome
    <2>2. StopContinueExclusive' /\ StoppedAwaitsResume'
      BY <1>3 DEF TerminateCurrent, StopContinueExclusive, StoppedAwaitsResume
    <2>. QED  BY <2>1, <2>2
  <1>4. ASSUME NEW s \in Sigs, NEW a \in Actions, SigAction(s, a) PROVE SignalInv'
    <2>1. TypeOK'
      BY <1>4 DEF SigAction, TypeOK
    <2>2. Uncatchable'
      BY <1>4 DEF SigAction, TypeOK, Uncatchable
    <2>3. StopContinueExclusive' /\ StoppedAwaitsResume'
      BY <1>4 DEF SigAction, StopContinueExclusive, StoppedAwaitsResume
    <2>. QED  BY <2>1, <2>2, <2>3
  <1>5. ASSUME NEW how \in {"block", "unblock", "setmask"}, NEW set \in SUBSET Sigs,
               SigProcMask(how, set)
        PROVE  SignalInv'
    <2>1. blocked' \subseteq Sigs /\ blocked' \cap KillStop = {}
      BY <1>5 DEF SigProcMask, TypeOK
    <2>2. TypeOK' /\ Uncatchable'
      BY <1>5, <2>1 DEF SigProcMask, TypeOK, Uncatchable
    <2>3. StopContinueExclusive' /\ StoppedAwaitsResume'
      BY <1>5 DEF SigProcMask, StopContinueExclusive, StoppedAwaitsResume
    <2>. QED  BY <2>2, <2>3
  <1>6. ASSUME NEW set \in SUBSET Sigs, SigReturn(set) PROVE SignalInv'
    <2>1. TypeOK' /\ Uncatchable'
      BY <1>6 DEF SigReturn, TypeOK, Uncatchable
    <2>2. StopContinueExclusive' /\ StoppedAwaitsResume'
      BY <1>6 DEF SigReturn, StopContinueExclusive, StoppedAwaitsResume
    <2>. QED  BY <2>1, <2>2
  <1>7. CASE ExecReset
    <2>1. TypeOK'
      BY <1>7 DEF ExecReset, TypeOK, Actions
    <2>2. Uncatchable'
      BY <1>7, SignalAssumption DEF ExecReset, Uncatchable, KillStop
    <2>3. StopContinueExclusive' /\ StoppedAwaitsResume'
      BY <1>7 DEF ExecReset, StopContinueExclusive, StoppedAwaitsResume
    <2>. QED  BY <2>1, <2>2, <2>3
  <1>8. CASE SysExit
    <2>1. TypeOK' /\ Uncatchable'
      BY <1>8 DEF SysExit, TypeOK, Uncatchable, FirstOutcome
    <2>2. StopContinueExclusive' /\ StoppedAwaitsResume'
      BY <1>8 DEF SysExit, StopContinueExclusive, StoppedAwaitsResume
    <2>. QED  BY <2>1, <2>2
  <1>9. Segfault \in Sigs
    BY SignalAssumption
  <1>. QED
    BY <1>1, <1>2, <1>3, <1>4, <1>5, <1>6, <1>7, <1>8, <1>9 DEF UserStep, Fault

LEMMA SignalInvInductive == SignalInv /\ [Next]_sigVars => SignalInv'
  <1>1. SignalInv /\ UNCHANGED sigVars => SignalInv'
    BY DEF SignalInv, sigVars, TypeOK, Uncatchable, StopContinueExclusive,
           StoppedAwaitsResume
  <1>. QED  BY <1>1, SendKeeps, TickKeeps, UserKeeps DEF Next

(* SignalInv holds throughout: no interleaving of kills, ticks and the     *)
(* process's own calls leaves it.                                          *)
THEOREM SignalsInductive == Spec => []SignalInv
  BY InitSignalInv, SignalInvInductive, PTL DEF Spec

(* Kill and Stop can never be blocked, caught or ignored.                  *)
THEOREM KillStopUncatchable == Spec => []Uncatchable
  BY SignalsInductive, PTL DEF SignalInv

(* set_pending's mutual discard: Continue never waits beside a stop.       *)
THEOREM StopAndContinueExclude == Spec => []StopContinueExclusive
  BY SignalsInductive, PTL DEF SignalInv

(* A stopped process never has a Continue or a Kill waiting.               *)
THEOREM StoppedHasNoResume == Spec => []StoppedAwaitsResume
  BY SignalsInductive, PTL DEF SignalInv
==============================================================================
