----------------------- MODULE ParkingLotHandoffProofs -----------------------
(***************************************************************************)
(* What follows from the inductive invariant of ParkingLotProofs about the *)
(* values parked: they are conserved, and the lot implements Handoff.      *)
(***************************************************************************)
EXTENDS ParkingLotProofs, FiniteSetTheorems

\* park and unpark neither lose nor duplicate a value: every value has exactly
\* one owner in every reachable state.
THEOREM ValuesConserved == Spec => []ExactlyOneOwner
<1>1. ASSUME IInv, NEW v \in Values
      PROVE  Cardinality(Owners(v)) = 1
  <2>1. PICK o : Owners(v) = {o}
    <3>1. CASE v \in outside
      <4>1. Owners(v) = {<<"outside", 0>>}
        BY <1>1, <3>1 DEF Owners, IInv, ValuesInv
      <4> QED
        BY ZenonT(30), <4>1
    <3>2. CASE \E t \in Threads : value[t] = v
      <4>1. PICK t \in Threads : value[t] = v
        BY <3>2
      <4>2. v # NoValue
        BY LotAssumption
      <4>3. Owners(v) = {<<"thread", t>>}
        BY <1>1, <4>1, <4>2 DEF Owners, IInv, ValuesInv
      <4> QED
        BY ZenonT(30), <4>3
    <3>3. CASE \E s \in Slots : CellOwned(s) /\ cell[s] = v
      <4>1. PICK s \in Slots : CellOwned(s) /\ cell[s] = v
        BY <3>3
      <4>2. Owners(v) = {<<"slot", s>>}
        BY <1>1, <4>1 DEF Owners, IInv, ValuesInv
      <4> QED
        BY ZenonT(30), <4>2
    <3> QED
      BY ZenonT(30), <1>1, <3>1, <3>2, <3>3 DEF IInv, ValuesInv
  <2> QED
    BY ZenonT(30), <2>1, FS_Singleton
<1>2. IInv => ExactlyOneOwner
  BY <1>1 DEF ExactlyOneOwner
<1> QED
  BY <1>2, Inductive, PTL

-------------------------------------------------------------------------------
(* Refinement: the lot implements Handoff. *)

\* A step that changes neither a slot's state nor the cell of an occupied slot
\* is a stutter of the rendezvous.
LEMMA QuietStep ==
    ASSUME UNCHANGED state,
           \A s \in Slots : state[s] = "Occupied" => cell'[s] = cell[s]
    PROVE  UNCHANGED <<Phase, Occupant>>
  BY DEF Phase, Occupant

\* A step that moves one slot between two states moves its rendezvous between
\* the corresponding phases.
LEMMA PhaseStep ==
    ASSUME TypeOK, NEW s \in Slots, NEW new \in State, SetState(s, new), UNCHANGED cell
    PROVE  /\ Phase' = [Phase EXCEPT ![s] = PhaseOf(new)]
           /\ Phase[s] = PhaseOf(state[s])
           /\ Occupant' = [Occupant EXCEPT ![s] = IF new = "Occupied" THEN cell[s] ELSE NoValue]
           /\ state[s] # "Occupied" /\ new # "Occupied" => UNCHANGED Occupant
<1>1. \A r \in Slots : state'[r] = IF r = s THEN new ELSE state[r]
  BY DEF TypeOK, SetState
<1>2. state[s] # "Occupied" /\ new # "Occupied" => UNCHANGED Occupant
  BY <1>1 DEF Occupant
<1> QED
  BY ZenonT(30), <1>1, <1>2 DEF Phase, Occupant

\* park, unpark, reserve and release implement the hand-off between one parking
\* and one unparking side, for every interleaving of their atomic accesses.
THEOREM Refinement == Spec => ImplementsHandoff
<1> USE DEF Promise!vars
<1>1. Init => Promise!Init
  BY DEF Init, Promise!Init, Phase, PhaseOf, Occupant
<1>2. ASSUME IInv, [Next]_vars
      PROVE  [Promise!Next]_(Promise!vars)
  <2>1. ASSUME NEW t \in Threads, Reserve(t)
         PROVE  [Promise!Next]_(Promise!vars)
    BY <2>1, QuietStep DEF Reserve, lotVars
  <2>2. ASSUME NEW t \in Threads, TryReserve(t)
         PROVE  [Promise!Next]_(Promise!vars)
    BY <2>2, QuietStep DEF TryReserve, lotVars
  <2>3. ASSUME NEW t \in Threads, ClaimLoad(t)
         PROVE  [Promise!Next]_(Promise!vars)
    BY <2>3, QuietStep DEF ClaimLoad, lotVars
  <2>4. ASSUME NEW t \in Threads, ClaimCas(t)
         PROVE  [Promise!Next]_(Promise!vars)
    <3>1. CASE state[at[t]] = "Empty"
      <4>1. at[t] \in Slots /\ SetState(at[t], "Reserved") /\ UNCHANGED cell
        BY <2>4, <3>1, <1>2 DEF ClaimCas, IInv, TypeOK
      <4>2. Promise!Open(at[t])
        BY SMTT(30), <4>1, <3>1, <1>2, PhaseStep DEF IInv, State, PhaseOf, Promise!Open, Promise!Move
      <4> QED
        BY <4>1, <4>2 DEF Promise!Next
    <3>2. CASE state[at[t]] # "Empty"
      BY <2>4, <3>2, QuietStep DEF ClaimCas
    <3> QED
      BY <3>1, <3>2
  <2>5. ASSUME NEW t \in Threads, NextSegment(t)
         PROVE  [Promise!Next]_(Promise!vars)
    BY <2>5, QuietStep DEF NextSegment, lotVars
  <2>6. ASSUME NEW t \in Threads, Append(t)
         PROVE  [Promise!Next]_(Promise!vars)
    BY <2>6, QuietStep DEF Append, lotVars
  <2>7. ASSUME NEW t \in Threads, ParkWrite(t)
         PROVE  [Promise!Next]_(Promise!vars)
    <3>1. state[at[t]] # "Occupied"
      BY <2>7, <1>2 DEF ParkWrite, IInv, RightsInv, TicketsMatchState, ParkRight, Parking, ParkPcs,
         TypeOK
    <3> QED
      BY SMTT(30), <2>7, <3>1, <1>2, QuietStep DEF ParkWrite, IInv, TypeOK
  <2>8. ASSUME NEW t \in Threads, ParkCas(t)
         PROVE  [Promise!Next]_(Promise!vars)
    <3>1. CASE state[at[t]] = "Reserved"
      <4>1. at[t] \in Slots /\ SetState(at[t], "Occupied") /\ UNCHANGED cell
        BY SMTT(30), <2>8, <3>1, <1>2 DEF ParkCas, IInv, TypeOK
      <4>2. CellOwned(at[t]) /\ cell[at[t]] \in Values
        BY <2>8, <4>1, <1>2 DEF ParkCas, CellOwned, IInv, ValuesInv
      <4>3. ASSUME NEW r \in Slots, state[r] = "Occupied"
            PROVE  cell[r] # cell[at[t]]
        <5>1. CASE CellOwned(r)
          BY SMTT(30), <5>1, <4>3, <4>1, <4>2, <3>1, <1>2 DEF IInv, ValuesInv
        <5>2. CASE ~CellOwned(r)
          BY SMTT(30), <5>2, <4>3, <4>1, <4>2, <1>2 DEF CellOwned, IInv, ValuesInv
        <5> QED
          BY SMTT(30), <5>1, <5>2
      <4>4. Promise!Deposit(at[t], cell[at[t]])
        BY ZenonT(30), <4>1, <4>2, <4>3, <3>1, <1>2, PhaseStep, LotAssumption DEF IInv, State, PhaseOf,
           Promise!Deposit, Promise!Move, Occupant, Phase, TypeOK
      <4> QED
        BY SMTT(30), <4>1, <4>2, <4>4 DEF Promise!Next
    <3>2. CASE state[at[t]] # "Reserved"
      BY SMTT(30), <2>8, <3>2, QuietStep DEF ParkCas
    <3> QED
      BY SMTT(30), <3>1, <3>2
  <2>9. ASSUME NEW t \in Threads, ParkReadBack(t)
         PROVE  [Promise!Next]_(Promise!vars)
    BY <2>9, QuietStep DEF ParkReadBack, lotVars
  <2>10. ASSUME NEW t \in Threads, ParkFree(t)
         PROVE  [Promise!Next]_(Promise!vars)
    <3>1. at[t] \in Slots /\ state[at[t]] = "Unparked" /\ SetState(at[t], "Empty") /\ UNCHANGED cell
      BY <2>10, <1>2 DEF ParkFree, IInv, TypeOK, RightsInv, ExchangeOutcome
    <3>2. Promise!Bounce(at[t])
      BY <3>1, <1>2, PhaseStep DEF IInv, State, PhaseOf, Promise!Bounce, Promise!Move
    <3> QED
      BY <3>1, <3>2 DEF Promise!Next
  <2>11. ASSUME NEW t \in Threads, UnparkCas(t)
         PROVE  [Promise!Next]_(Promise!vars)
    <3>1. CASE state[at[t]] = "Reserved"
      <4>1. at[t] \in Slots /\ SetState(at[t], "Unparked") /\ UNCHANGED cell
        BY <2>11, <3>1, <1>2 DEF UnparkCas, IInv, TypeOK
      <4>2. Promise!Fire(at[t])
        BY SMTT(30), <4>1, <3>1, <1>2, PhaseStep DEF IInv, State, PhaseOf, Promise!Fire, Promise!Move
      <4> QED
        BY <4>1, <4>2 DEF Promise!Next
    <3>2. CASE state[at[t]] # "Reserved"
      BY SMTT(30), <2>11, <3>2, QuietStep DEF UnparkCas
    <3> QED
      BY <3>1, <3>2
  <2>12. ASSUME NEW t \in Threads, UnparkRead(t)
         PROVE  [Promise!Next]_(Promise!vars)
    BY <2>12, QuietStep DEF UnparkRead, lotVars
  <2>13. ASSUME NEW t \in Threads, UnparkFree(t)
         PROVE  [Promise!Next]_(Promise!vars)
    <3>1. at[t] \in Slots /\ state[at[t]] = "Occupied" /\ SetState(at[t], "Empty") /\ UNCHANGED cell
      BY <2>13, <1>2 DEF UnparkFree, IInv, TypeOK, RightsInv, ExchangeOutcome
    <3>2. Promise!Collect(at[t])
      BY SMTT(30), <3>1, <1>2, PhaseStep DEF IInv, State, PhaseOf, Promise!Collect, Promise!Move
    <3> QED
      BY <3>1, <3>2 DEF Promise!Next
  <2>14. ASSUME NEW t \in Threads, NEW w \in Wakers, Wake(t, w)
         PROVE  [Promise!Next]_(Promise!vars)
    BY <2>14, QuietStep DEF Wake, lotVars
  <2>15. ASSUME NEW s \in Slots, Split(s)
         PROVE  [Promise!Next]_(Promise!vars)
    BY <2>15, QuietStep DEF Split, lotVars
  <2>16. ASSUME NEW s \in Slots, Release(s)
         PROVE  [Promise!Next]_(Promise!vars)
    <3>1. state[s] = "Reserved" /\ SetState(s, "Empty") /\ UNCHANGED cell
      BY <2>16, <1>2 DEF Release, IInv, RightsInv, TicketsMatchState
    <3>2. Promise!Cancel(s)
      BY <3>1, <1>2, PhaseStep DEF IInv, State, PhaseOf, Promise!Cancel, Promise!Move
    <3> QED
      BY <3>2 DEF Promise!Next
  <2>17. ASSUME NEW s \in Slots, NEW w \in Wakers, IntoWaker(s, w)
         PROVE  [Promise!Next]_(Promise!vars)
    BY <2>17, QuietStep DEF IntoWaker, lotVars
  <2>18. ASSUME NEW c \in ParkCells, NEW s \in Slots, ParkCellPut(c, s)
         PROVE  [Promise!Next]_(Promise!vars)
    BY <2>18, QuietStep DEF ParkCellPut, lotVars
  <2>19. ASSUME NEW c \in ParkCells, NEW s \in Slots, ParkCellPutReservation(c, s)
         PROVE  [Promise!Next]_(Promise!vars)
    BY <2>19, QuietStep DEF ParkCellPutReservation, lotVars
  <2>20. ASSUME NEW d \in UnparkCells, NEW s \in Slots, UnparkCellPutReservation(d, s)
         PROVE  [Promise!Next]_(Promise!vars)
    BY <2>20, QuietStep DEF UnparkCellPutReservation, lotVars
  <2>21. ASSUME NEW t \in Threads, NEW s \in Slots, Unpark(t, s)
         PROVE  [Promise!Next]_(Promise!vars)
    BY <2>21, QuietStep DEF Unpark, lotVars
  <2>22. ASSUME NEW t \in Threads, NEW s \in Slots, NEW v \in Values, Park(t, s, v)
         PROVE  [Promise!Next]_(Promise!vars)
    BY <2>22, QuietStep DEF Park, lotVars
  <2>23. ASSUME NEW c \in ParkCells, ParkCellTake(c)
         PROVE  [Promise!Next]_(Promise!vars)
    BY <2>23, QuietStep DEF ParkCellTake, lotVars
  <2>24. ASSUME NEW d \in UnparkCells, UnparkCellTake(d)
         PROVE  [Promise!Next]_(Promise!vars)
    BY <2>24, QuietStep DEF UnparkCellTake, lotVars
  <2>25. CASE UNCHANGED vars
    BY <2>25, QuietStep DEF vars, lotVars
  <2> QED
    BY SMTT(30), <1>2, <2>1, <2>2, <2>3, <2>4, <2>5, <2>6, <2>7, <2>8, <2>9, <2>10, <2>11, <2>12,
       <2>13, <2>14, <2>15, <2>16, <2>17, <2>18, <2>19, <2>20, <2>21, <2>22, <2>23,
       <2>24, <2>25 DEF Next, ThreadStep, TicketStep
<1> QED
  BY <1>1, <1>2, Inductive, PTL DEF Spec, ImplementsHandoff, Promise!Spec
===============================================================================
