------------------------------- MODULE Handoff -------------------------------
(***************************************************************************)
(* What a parking lot (kernel/park) promises, with no mechanism: a slot is *)
(* a rendezvous between one parking side and one unparking side.  Either   *)
(* the value is deposited and then collected exactly once, or the          *)
(* unparking side fires first and the parking side's deposit bounces.      *)
(***************************************************************************)
CONSTANTS
    Slots,      \* the rendezvous points
    Values,     \* what is handed off (tasks, in the kernel)
    NoValue     \* an empty rendezvous point

VARIABLES
    phase,      \* per slot: "idle", "open", "parked" or "fired"
    occupant    \* per slot: the deposited value, NoValue when there is none

vars == <<phase, occupant>>

Init ==
    /\ phase = [s \in Slots |-> "idle"]
    /\ occupant = [s \in Slots |-> NoValue]

Move(s, from, to) ==
    /\ phase[s] = from
    /\ phase' = [phase EXCEPT ![s] = to]

Open(s) == Move(s, "idle", "open") /\ UNCHANGED occupant

Cancel(s) == Move(s, "open", "idle") /\ UNCHANGED occupant

\* A value can be deposited in one slot only.
Deposit(s, v) ==
    /\ Move(s, "open", "parked")
    /\ \A r \in Slots : occupant[r] # v
    /\ occupant' = [occupant EXCEPT ![s] = v]

Collect(s) ==
    /\ Move(s, "parked", "idle")
    /\ occupant' = [occupant EXCEPT ![s] = NoValue]

Fire(s) == Move(s, "open", "fired") /\ UNCHANGED occupant

Bounce(s) == Move(s, "fired", "idle") /\ UNCHANGED occupant

Next ==
    \E s \in Slots :
        \/ Open(s) \/ Cancel(s) \/ Collect(s) \/ Fire(s) \/ Bounce(s)
        \/ \E v \in Values : Deposit(s, v)

Spec == Init /\ [][Next]_vars
==============================================================================
