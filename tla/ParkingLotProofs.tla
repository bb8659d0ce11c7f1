--------------------------- MODULE ParkingLotProofs ---------------------------
(***************************************************************************)
(* The inductive invariant of ParkingLot and the invariants that follow    *)
(* from it.  ParkingLotRights proves that types and rights are kept; here  *)
(* every value keeps one owner.                                            *)
(***************************************************************************)
EXTENDS ParkingLotRights

IInv == TypeOK /\ RightsInv /\ ValuesInv

\* A step that moves no value and changes no cell's ownership preserves ValuesInv.
LEMMA SameOwners ==
    ASSUME ValuesInv, UNCHANGED <<cell, outside, value>>,
           \A s \in Slots : CellOwned(s)' <=> CellOwned(s),
           \A u \in Threads :
               /\ pc'[u] \in {"write", "parkFree", "unparkFree"}
                    <=> pc[u] \in {"write", "parkFree", "unparkFree"}
               /\ pc'[u] = "unparkFree" => pc[u] = "unparkFree" /\ at'[u] = at[u]
    PROVE  ValuesInv'
  BY SMTT(30) DEF ValuesInv

\* The scan of the chain moves no value.
LEMMA ScanKeepsValues ==
    ASSUME ValuesInv, ScanOnly
    PROVE  ValuesInv'
<1>1. \A u \in Threads : pc'[u] \in ParkPcs \cup UnparkPcs => pc'[u] = pc[u] /\ at'[u] = at[u]
  BY DEF ScanOnly
<1>2. \A u \in Threads : pc[u] \in ParkPcs \cup UnparkPcs => pc'[u] = pc[u] /\ at'[u] = at[u]
  BY DEF ScanOnly
<1>3. \A s \in Slots : CellOwned(s)' <=> CellOwned(s)
  BY <1>1, <1>2 DEF CellOwned, ScanOnly, ParkPcs, UnparkPcs
<1> QED
  BY <1>1, <1>2, <1>3, SameOwners DEF ScanOnly, ParkPcs, UnparkPcs

\* Every step moves a value from one owner to one other owner.
LEMMA ValuesStep ==
    ASSUME TypeOK, RightsInv, ValuesInv, [Next]_vars
    PROVE  ValuesInv'
<1>0. LotType
  BY TypeParts
<1>1. ASSUME ScanOnly
       PROVE  ValuesInv'
  BY <1>0, <1>1, ScanKeepsValues
<1>4. ASSUME NEW t \in Threads, ClaimCas(t)
       PROVE  ValuesInv'
  <2>1. \A s \in Slots : CellOwned(s)' <=> CellOwned(s)
    BY SMTT(30), <1>0, <1>4, NoSlotFact DEF ClaimCas, Goto, Return, SetState, Skip,
        lotVars, ticketVars, threadVars, CellOwned, LotType
  <2> QED
    BY <1>0, <1>4, <2>1, SameOwners DEF ClaimCas, Goto, Return, SetState, Skip, lotVars,
        ticketVars, threadVars, LotType
<1>7. ASSUME NEW t \in Threads, ParkWrite(t)
       PROVE  ValuesInv'
  <2>1. at[t] \in Slots /\ ~CellOwned(at[t])
    BY SMTT(30), <1>0, <1>7, NoSlotFact DEF ParkWrite, CellOwned, LotType,
       RightsInv, RightsAreUnique, TicketsMatchState, ExchangeOutcome, ParkRight,
       UnparkRight,
       Parking, Unparking, ParkPcs, UnparkPcs, ScanPcs
  <2>2. \A s \in Slots : CellOwned(s)' <=> (CellOwned(s) \/ s = at[t])
    BY SMTT(30), <1>0, <1>7, <2>1, NoSlotFact DEF ParkWrite, Goto, lotVars, ticketVars,
        threadVars, CellOwned, LotType,
       RightsInv, RightsAreUnique, TicketsMatchState, ExchangeOutcome, ParkRight,
       UnparkRight,
       Parking, Unparking, ParkPcs, UnparkPcs
  <2>3. \A u \in Threads : u # t /\ pc[u] = "unparkFree" => at[u] # at[t]
    BY <1>0, <1>7, NoSlotFact DEF ParkWrite, CellOwned, LotType,
       RightsInv, RightsAreUnique, TicketsMatchState, ExchangeOutcome, ParkRight,
       UnparkRight,
       Parking, Unparking, ParkPcs, UnparkPcs
  <2> QED
    BY SMTT(30), <1>0, <1>7, <2>1, <2>2, <2>3, NoSlotFact, LotAssumption DEF ParkWrite,
        Goto, ValuesInv,
       lotVars, ticketVars, threadVars, LotType
<1>8. ASSUME NEW t \in Threads, ParkCas(t)
       PROVE  ValuesInv'
  <2>1. \A s \in Slots : CellOwned(s)' <=> CellOwned(s)
    BY <1>0, <1>8, NoSlotFact DEF ParkCas, Goto, Return, SetState, lotVars, ticketVars,
        threadVars, CellOwned, LotType, RightsInv,
       RightsAreUnique, TicketsMatchState, ExchangeOutcome, ParkRight, UnparkRight,
       Parking, Unparking, ParkPcs, UnparkPcs
  <2> QED
    BY SMTT(30), <1>0, <1>8, <2>1, SameOwners DEF ParkCas, Goto, Return, SetState,
        lotVars, ticketVars, threadVars, LotType
<1>9. ASSUME NEW t \in Threads, ParkReadBack(t)
       PROVE  ValuesInv'
  <2>1. at[t] \in Slots /\ CellOwned(at[t])
    BY SMTT(30), <1>0, <1>9, NoSlotFact DEF ParkReadBack, CellOwned, LotType,
       RightsInv, RightsAreUnique, TicketsMatchState, ExchangeOutcome, ParkRight,
       UnparkRight,
       Parking, Unparking, ParkPcs, UnparkPcs, ScanPcs
  <2>2. \A s \in Slots : CellOwned(s)' <=> (CellOwned(s) /\ s # at[t])
    BY SMTT(30), <1>0, <1>9, <2>1, NoSlotFact DEF ParkReadBack, Goto, lotVars, ticketVars,
        threadVars, CellOwned, LotType,
       RightsInv, RightsAreUnique, TicketsMatchState, ExchangeOutcome, ParkRight,
       UnparkRight,
       Parking, Unparking, ParkPcs, UnparkPcs
  <2>3. \A u \in Threads : u # t /\ pc[u] = "unparkFree" => at[u] # at[t]
    BY SMTT(30), <1>0, <1>9, NoSlotFact DEF ParkReadBack, CellOwned, LotType,
       RightsInv, RightsAreUnique, TicketsMatchState, ExchangeOutcome, ParkRight,
       UnparkRight,
       Parking, Unparking, ParkPcs, UnparkPcs
  <2> QED
    BY SMTT(30), <1>0, <1>9, <2>1, <2>2, <2>3, NoSlotFact, LotAssumption DEF ParkReadBack,
        Goto, ValuesInv,
       lotVars, ticketVars, threadVars, LotType
<1>10. ASSUME NEW t \in Threads, ParkFree(t)
       PROVE  ValuesInv'
  <2>1. at[t] \in Slots /\ ~CellOwned(at[t])
    BY <1>0, <1>10, NoSlotFact DEF ParkFree, CellOwned, LotType,
       RightsInv, RightsAreUnique, TicketsMatchState, ExchangeOutcome, ParkRight,
       UnparkRight,
       Parking, Unparking, ParkPcs, UnparkPcs, ScanPcs
  <2>2. \A s \in Slots : CellOwned(s)' <=> CellOwned(s)
    BY <1>0, <1>10, <2>1, NoSlotFact DEF ParkFree, Goto, Return, SetState, lotVars,
        ticketVars, threadVars, CellOwned, LotType,
       RightsInv, RightsAreUnique, TicketsMatchState, ExchangeOutcome, ParkRight,
       UnparkRight,
       Parking, Unparking, ParkPcs, UnparkPcs
  <2>3. \A u \in Threads : u # t /\ pc[u] = "unparkFree" => at[u] # at[t]
    BY <1>0, <1>10, NoSlotFact DEF ParkFree, CellOwned, LotType,
       RightsInv, RightsAreUnique, TicketsMatchState, ExchangeOutcome, ParkRight,
       UnparkRight,
       Parking, Unparking, ParkPcs, UnparkPcs
  <2> QED
    BY SMTT(30), <1>0, <1>10, <2>1, <2>2, <2>3, NoSlotFact, LotAssumption DEF ParkFree,
        Goto, Return, SetState, ValuesInv,
       lotVars, ticketVars, threadVars, LotType
<1>11. ASSUME NEW t \in Threads, UnparkCas(t)
       PROVE  ValuesInv'
  <2>1. \A s \in Slots : CellOwned(s)' <=> CellOwned(s)
    BY SMTT(30), <1>0, <1>11, NoSlotFact DEF UnparkCas, Goto, Return, SetState, lotVars,
        ticketVars, threadVars, CellOwned, LotType, RightsInv,
       RightsAreUnique, TicketsMatchState, ExchangeOutcome, ParkRight, UnparkRight,
       Parking, Unparking, ParkPcs, UnparkPcs
  <2> QED
    BY SMTT(30), <1>0, <1>11, <2>1, SameOwners DEF UnparkCas, Goto, Return, SetState,
        lotVars, ticketVars, threadVars, LotType
<1>12. ASSUME NEW t \in Threads, UnparkRead(t)
       PROVE  ValuesInv'
  <2>1. at[t] \in Slots /\ CellOwned(at[t])
    BY SMTT(30), <1>0, <1>12, NoSlotFact DEF UnparkRead, CellOwned, LotType,
       RightsInv, RightsAreUnique, TicketsMatchState, ExchangeOutcome, ParkRight,
       UnparkRight,
       Parking, Unparking, ParkPcs, UnparkPcs, ScanPcs
  <2>2. \A s \in Slots : CellOwned(s)' <=> (CellOwned(s) /\ s # at[t])
    BY <1>0, <1>12, <2>1, NoSlotFact DEF UnparkRead, Goto, lotVars, ticketVars,
        threadVars, CellOwned, LotType,
       RightsInv, RightsAreUnique, TicketsMatchState, ExchangeOutcome, ParkRight,
       UnparkRight,
       Parking, Unparking, ParkPcs, UnparkPcs
  <2>3. \A u \in Threads : u # t /\ pc[u] = "unparkFree" => at[u] # at[t]
    BY <1>0, <1>12, NoSlotFact DEF UnparkRead, CellOwned, LotType,
       RightsInv, RightsAreUnique, TicketsMatchState, ExchangeOutcome, ParkRight,
       UnparkRight,
       Parking, Unparking, ParkPcs, UnparkPcs
  <2> QED
    BY SMTT(30), <1>0, <1>12, <2>1, <2>2, <2>3, NoSlotFact, LotAssumption DEF UnparkRead,
        Goto, ValuesInv,
       lotVars, ticketVars, threadVars, LotType
<1>13. ASSUME NEW t \in Threads, UnparkFree(t)
       PROVE  ValuesInv'
  <2>1. at[t] \in Slots /\ ~CellOwned(at[t])
    BY <1>0, <1>13, NoSlotFact DEF UnparkFree, CellOwned, LotType,
       RightsInv, RightsAreUnique, TicketsMatchState, ExchangeOutcome, ParkRight,
       UnparkRight,
       Parking, Unparking, ParkPcs, UnparkPcs, ScanPcs
  <2>2. \A s \in Slots : CellOwned(s)' <=> CellOwned(s)
    BY <1>0, <1>13, <2>1, NoSlotFact DEF UnparkFree, Goto, Return, SetState, lotVars,
        ticketVars, threadVars, CellOwned, LotType,
       RightsInv, RightsAreUnique, TicketsMatchState, ExchangeOutcome, ParkRight,
       UnparkRight,
       Parking, Unparking, ParkPcs, UnparkPcs
  <2>3. \A u \in Threads : u # t /\ pc[u] = "unparkFree" => at[u] # at[t]
    BY <1>0, <1>13, NoSlotFact DEF UnparkFree, CellOwned, LotType,
       RightsInv, RightsAreUnique, TicketsMatchState, ExchangeOutcome, ParkRight,
       UnparkRight,
       Parking, Unparking, ParkPcs, UnparkPcs
  <2> QED
    BY SMTT(30), <1>0, <1>13, <2>1, <2>2, <2>3, NoSlotFact, LotAssumption DEF UnparkFree,
        Goto, Return, SetState, ValuesInv,
       lotVars, ticketVars, threadVars, LotType
<1>14. ASSUME NEW t \in Threads, NEW w \in Wakers, Wake(t, w)
       PROVE  ValuesInv'
  <2>1. \A r \in Slots : CellOwned(r)' <=> CellOwned(r)
    BY <1>0, <1>14 DEF Wake, Goto, lotVars, threadVars, CellOwned, LotType
  <2> QED
    BY <1>0, <1>14, <2>1, SameOwners DEF Wake, Goto, lotVars, ticketVars, threadVars,
        LotType
<1>15. ASSUME NEW s \in Slots, Split(s)
       PROVE  ValuesInv'
  <2>1. \A r \in Slots : CellOwned(r)' <=> CellOwned(r)
    BY SMTT(30), <1>0, <1>15 DEF Split, lotVars, threadVars, CellOwned, LotType
  <2> QED
    BY <1>0, <1>15, <2>1, SameOwners DEF Split, lotVars, ticketVars, threadVars, LotType
<1>16. ASSUME NEW s \in Slots, Release(s)
       PROVE  ValuesInv'
  BY <1>0, <1>16, NoSlotFact, LotAssumption DEF Release, RightsInv, RightsAreUnique,
      TicketsMatchState, ExchangeOutcome, ParkRight, UnparkRight, ValuesInv, CellOwned,
      SetState, lotVars, ticketVars, threadVars, LotType, Parking, Unparking, ParkPcs,
      UnparkPcs, ScanPcs, State
<1>17. ASSUME NEW s \in Slots, NEW w \in Wakers, IntoWaker(s, w)
       PROVE  ValuesInv'
  <2>1. \A r \in Slots : CellOwned(r)' <=> CellOwned(r)
    BY <1>0, <1>17 DEF IntoWaker, lotVars, threadVars, CellOwned, LotType
  <2> QED
    BY <1>0, <1>17, <2>1, SameOwners DEF IntoWaker, lotVars, ticketVars, threadVars, LotType
<1>18. ASSUME NEW c \in ParkCells, NEW s \in Slots, ParkCellPut(c, s)
       PROVE  ValuesInv'
  <2>1. \A r \in Slots : CellOwned(r)' <=> CellOwned(r)
    BY <1>0, <1>18 DEF ParkCellPut, lotVars, threadVars, CellOwned, LotType
  <2> QED
    BY <1>0, <1>18, <2>1, SameOwners DEF ParkCellPut, lotVars, ticketVars, threadVars,
        LotType
<1>19. ASSUME NEW c \in ParkCells, NEW s \in Slots, ParkCellPutReservation(c, s)
       PROVE  ValuesInv'
  <2>1. \A r \in Slots : CellOwned(r)' <=> CellOwned(r)
    BY <1>0, <1>19 DEF ParkCellPutReservation, lotVars, threadVars, CellOwned, LotType
  <2> QED
    BY <1>0, <1>19, <2>1, SameOwners DEF ParkCellPutReservation, lotVars, ticketVars,
        threadVars, LotType
<1>20. ASSUME NEW d \in UnparkCells, NEW s \in Slots, UnparkCellPutReservation(d, s)
       PROVE  ValuesInv'
  <2>1. \A r \in Slots : CellOwned(r)' <=> CellOwned(r)
    BY <1>0, <1>20 DEF UnparkCellPutReservation, lotVars, threadVars, CellOwned, LotType
  <2> QED
    BY <1>0, <1>20, <2>1, SameOwners DEF UnparkCellPutReservation, lotVars, ticketVars,
        threadVars, LotType
<1>21. ASSUME NEW t \in Threads, NEW s \in Slots, Unpark(t, s)
       PROVE  ValuesInv'
  <2>1. \A r \in Slots : CellOwned(r)' <=> CellOwned(r)
    BY SMTT(30), <1>0, <1>21 DEF Unpark, Goto, lotVars, threadVars, CellOwned, LotType
  <2> QED
    BY <1>0, <1>21, <2>1, SameOwners DEF Unpark, Goto, lotVars, ticketVars, threadVars,
        LotType
<1>22. ASSUME NEW t \in Threads, NEW s \in Slots, NEW v \in Values, Park(t, s, v)
       PROVE  ValuesInv'
  BY SMTT(30), <1>0, <1>22, NoSlotFact, LotAssumption DEF Park, RightsInv, RightsAreUnique,
      TicketsMatchState, ExchangeOutcome, ParkRight, UnparkRight, ValuesInv, CellOwned,
      Goto, lotVars, ticketVars, threadVars, LotType, Parking, Unparking, ParkPcs,
      UnparkPcs, ScanPcs, State
<1>23. ASSUME NEW c \in ParkCells, ParkCellTake(c)
       PROVE  ValuesInv'
  <2>1. \A r \in Slots : CellOwned(r)' <=> CellOwned(r)
    BY <1>0, <1>23 DEF ParkCellTake, lotVars, threadVars, CellOwned, LotType
  <2> QED
    BY <1>0, <1>23, <2>1, SameOwners DEF ParkCellTake, lotVars, ticketVars, threadVars,
        LotType
<1>24. ASSUME NEW d \in UnparkCells, UnparkCellTake(d)
       PROVE  ValuesInv'
  <2>1. \A r \in Slots : CellOwned(r)' <=> CellOwned(r)
    BY SMTT(30), <1>0, <1>24 DEF UnparkCellTake, lotVars, threadVars, CellOwned, LotType
  <2> QED
    BY <1>0, <1>24, <2>1, SameOwners DEF UnparkCellTake, lotVars, ticketVars, threadVars,
        LotType
<1> QED
  BY ScanSteps, <1>1, <1>4, <1>7, <1>8, <1>9, <1>10, <1>11, <1>12, <1>13, <1>14, <1>15,
      <1>16, <1>17, <1>18, <1>19, <1>20, <1>21, <1>22, <1>23, <1>24
      DEF Next, ThreadStep, TicketStep, ScanStep

\* The fresh lot satisfies the inductive invariant.
LEMMA InitIInv == Init => IInv
<1> SUFFICES ASSUME Init PROVE IInv
  OBVIOUS
<1>1. TypeOK
  BY LotAssumption DEF Init, TypeOK, State, Segments, Head
<1>2. RightsInv
  BY SlotFacts DEF Init, RightsInv, RightsAreUnique, TicketsMatchState, NoSlotLeak,
     ExchangeOutcome, ParkRight, UnparkRight, Parking, Unparking, ParkPcs, UnparkPcs
<1>3. ValuesInv
  BY LotAssumption DEF Init, ValuesInv, CellOwned
<1> QED
  BY <1>1, <1>2, <1>3 DEF IInv

\* The inductive invariant holds in every reachable state: the ticket rules and
\* the ownership of values are preserved by every atomic access of the lot.
THEOREM Inductive == Spec => []IInv
<1>1. IInv /\ [Next]_vars => IInv'
  BY TypeStep, UniqueStep, MatchStep, LeakStep, OutcomeStep, ValuesStep DEF IInv, RightsInv
<1> QED
  BY InitIInv, <1>1, PTL DEF Spec

\* Type correctness of the lot.
THEOREM TypeCorrect == Spec => []TypeOK
  BY Inductive, PTL DEF IInv

\* Every park and unpark right has one holder, agrees with the slot's state (so
\* the single exchange of park and of unpark decides the race), and a slot in
\* use always has a holder left that can free it.
THEOREM TicketsCorrect == Spec => [](RightsAreUnique /\ TicketsMatchState /\ NoSlotLeak)
  BY Inductive, PTL DEF IInv, RightsInv

\* The unsynchronised value cell of a slot is never written by one thread while
\* another reads or writes it.
THEOREM CellAccess == Spec => []CellRaceFree
<1>1. IInv => CellRaceFree
  <2> SUFFICES ASSUME IInv, NEW t \in Threads, NEW u \in Threads, t # u,
                      pc[t] = "write", pc[u] \in {"write", "readBack", "read"},
                      at[t] = at[u]
               PROVE  FALSE
    BY DEF CellRaceFree
  <2>1. at[t] \in Slots /\ Parking(t, at[t])
    BY DEF IInv, TypeOK, Parking, ParkPcs
  <2>2. CASE pc[u] \in {"write", "readBack"}
    BY <2>1, <2>2 DEF IInv, RightsInv, RightsAreUnique, Parking, ParkPcs
  <2>3. CASE pc[u] = "read"
    BY <2>1, <2>3 DEF IInv, RightsInv, TicketsMatchState, ExchangeOutcome, ParkRight
  <2> QED
    BY <2>2, <2>3
<1> QED
  BY <1>1, Inductive, PTL
===============================================================================
