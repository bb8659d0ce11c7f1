---------------------------- MODULE ParkingLotRights ----------------------------
(***************************************************************************)
(* The steps of ParkingLot keep the types and the rights, for any number   *)
(* of threads, values, tickets, cells, wakers, slots per segment and       *)
(* segments.                                                               *)
(***************************************************************************)
EXTENDS ParkingLot, TLAPS

\* A thread past a failed exchange knows the state of its slot.
ExchangeOutcome ==
    \A t \in Threads :
        /\ pc[t] \in {"readBack", "parkFree"} => state[at[t]] = "Unparked"
        /\ pc[t] \in {"read", "unparkFree"} => state[at[t]] = "Occupied"

RightsInv == RightsAreUnique /\ TicketsMatchState /\ NoSlotLeak /\ ExchangeOutcome

\* The owners of a value are pairwise exclusive, and every value has one.
ValuesInv ==
    /\ \A t \in Threads : value[t] # NoValue <=> pc[t] \in {"write", "parkFree", "unparkFree"}
    /\ \A t \in Threads : value[t] \notin outside
    /\ \A t, u \in Threads : value[t] = value[u] /\ t # u => value[t] = NoValue
    /\ \A s \in Slots : CellOwned(s) => cell[s] \in Values \ outside
    /\ \A s \in Slots, t \in Threads : CellOwned(s) => cell[s] # value[t]
    /\ \A r, s \in Slots : CellOwned(r) /\ CellOwned(s) /\ r # s => cell[r] # cell[s]
    /\ \A t \in Threads : pc[t] = "unparkFree" => value[t] = cell[at[t]]
    /\ \A v \in Values :
          \/ v \in outside
          \/ \E t \in Threads : value[t] = v
          \/ \E s \in Slots : CellOwned(s) /\ cell[s] = v

\* The part of TypeOK that is not about the chain of segments.
LotType ==
    /\ state \in [Slots -> State]
    /\ cell \in [Slots -> Values \cup {NoValue}]
    /\ reservations \subseteq Slots
    /\ parkTickets \subseteq Slots
    /\ unparkTickets \subseteq Slots
    /\ parkCell \in [ParkCells -> Slots \cup {NoSlot}]
    /\ unparkCell \in [UnparkCells -> Slots \cup {NoSlot}]
    /\ waker \in [Wakers -> Slots \cup {NoSlot}]
    /\ outside \subseteq Values
    /\ pc \in [Threads -> {"idle"} \cup ScanPcs \cup ParkPcs \cup UnparkPcs]
    /\ at \in [Threads -> Slots \cup {NoSlot}]
    /\ value \in [Threads -> Values \cup {NoValue}]
    /\ \A t \in Threads : at[t] = NoSlot <=> pc[t] = "idle"

\* The scan stays inside the chain.
LEMMA SlotFacts ==
    /\ NoSlot \notin Slots
    /\ <<1, 1>> \in Slots
    /\ \A s \in Slots : s[2] < SegmentSlots => <<s[1], s[2] + 1>> \in Slots
    /\ \A g \in Segments : <<g, 1>> \in Slots
    /\ \A s \in Slots : s[1] \in Segments
  BY LotAssumption DEF Slots, NoSlot, Segments

\* The null pointer is no segment.
LEMMA NoSegmentFact == NoSegment \notin Segments
  BY LotAssumption DEF NoSegment, Segments

\* A thread that scans stays inside the chain.
LEMMA SkipStays ==
    ASSUME TypeOK, NEW t \in Threads, pc[t] # "idle", Skip(t)
    PROVE  \E step \in {"load", "next"}, s \in Slots : Goto(t, step, s)
<1>1. at[t] \in Slots
  BY DEF TypeOK
<1> QED
  BY <1>1, SlotFacts DEF Skip

\* Every step preserves the types.
LEMMA TypeStep ==
    ASSUME TypeOK, ValuesInv, [Next]_vars
    PROVE  TypeOK'
<1>1. ASSUME NEW t \in Threads, Reserve(t)
       PROVE  TypeOK'
  BY <1>1, SlotFacts, LotAssumption DEF Reserve, TypeOK, Goto, lotVars, chainVars,
      ticketVars, threadVars, State, ParkPcs, UnparkPcs, ScanPcs
<1>2. ASSUME NEW t \in Threads, TryReserve(t)
       PROVE  TypeOK'
  BY <1>2, SlotFacts, LotAssumption DEF TryReserve, TypeOK, Goto, lotVars, chainVars,
      ticketVars, threadVars, State, ParkPcs, UnparkPcs, ScanPcs
<1>3. ASSUME NEW t \in Threads, ClaimLoad(t)
       PROVE  TypeOK'
  <2>1. \E step \in {"load", "next", "claimCas"}, s \in Slots : Goto(t, step, s)
    BY <1>3, SkipStays DEF ClaimLoad, TypeOK
  <2> QED
    BY <1>3, <2>1, SlotFacts DEF ClaimLoad, TypeOK, Goto, lotVars, chainVars, ticketVars, ScanPcs
<1>4. ASSUME NEW t \in Threads, ClaimCas(t)
       PROVE  TypeOK'
  <2>1. CASE state[at[t]] = "Empty"
    BY <1>4, <2>1 DEF ClaimCas, TypeOK, Return, Goto, SetState, chainVars, State
  <2>2. CASE state[at[t]] # "Empty"
    <3>1. \E step \in {"load", "next"}, s \in Slots : Goto(t, step, s)
      BY <1>4, <2>2, SkipStays DEF ClaimCas
    <3> QED
      BY <1>4, <2>2, <3>1, SlotFacts DEF ClaimCas, TypeOK, Goto, chainVars, ScanPcs
  <2> QED
    BY <2>1, <2>2
<1>5. ASSUME NEW t \in Threads, NextSegment(t)
       PROVE  TypeOK'
  <2>1. at[t] \in Slots /\ at[t][1] \in Segments
    BY <1>5, SlotFacts DEF NextSegment, TypeOK
  <2>2. next[at[t][1]] \in Segments \cup {NoSegment}
    BY <2>1 DEF TypeOK
  <2>3. next[at[t][1]] # NoSegment => <<next[at[t][1]], 1>> \in Slots
    BY <2>2, SlotFacts
  <2> QED
    BY SMTT(30), <1>5, <2>1, <2>2, <2>3, SlotFacts, NoSegmentFact
    DEF NextSegment, TypeOK, Goto, Return, lotVars, ticketVars, threadVars, State, ParkPcs, UnparkPcs, ScanPcs
<1>6. ASSUME NEW t \in Threads, Append(t)
       PROVE  TypeOK'
  <2>1. at[t] \in Slots /\ at[t][1] \in Segments
    BY <1>6, SlotFacts DEF Append, TypeOK
  <2>2. next[at[t][1]] \in Segments \cup {NoSegment} /\ fresh[t] \in Segments
    BY <1>6, <2>1 DEF Append, TypeOK
  <2>3. /\ next[at[t][1]] # NoSegment => <<next[at[t][1]], 1>> \in Slots
        /\ <<fresh[t], 1>> \in Slots
    BY <2>2, SlotFacts
  <2> QED
    BY SMTT(30), <1>6, <2>1, <2>2, <2>3, SlotFacts, NoSegmentFact
    DEF Append, TypeOK, Goto, lotVars, ticketVars, threadVars, State, ParkPcs, UnparkPcs, ScanPcs
<1>7. ASSUME NEW t \in Threads, ParkWrite(t)
       PROVE  TypeOK'
  BY <1>7, SlotFacts, LotAssumption DEF ParkWrite, TypeOK, Goto, lotVars, chainVars,
      ticketVars, threadVars, State, ParkPcs, UnparkPcs, ScanPcs
<1>8. ASSUME NEW t \in Threads, ParkCas(t)
       PROVE  TypeOK'
  BY SMTT(30), <1>8, SlotFacts, LotAssumption DEF ParkCas, TypeOK, Goto, Return, SetState,
      lotVars, chainVars, ticketVars, threadVars, State, ParkPcs, UnparkPcs, ScanPcs
<1>9. ASSUME NEW t \in Threads, ParkReadBack(t)
       PROVE  TypeOK'
  BY <1>9, SlotFacts, LotAssumption DEF ParkReadBack, TypeOK, Goto, lotVars, chainVars,
      ticketVars, threadVars, State, ParkPcs, UnparkPcs, ScanPcs
<1>10. ASSUME NEW t \in Threads, ParkFree(t)
       PROVE  TypeOK'
  BY <1>10, SlotFacts, LotAssumption DEF ParkFree, ValuesInv, TypeOK, Goto,
      Return, SetState, lotVars, chainVars, ticketVars, threadVars, State, ParkPcs, UnparkPcs,
      ScanPcs
<1>11. ASSUME NEW t \in Threads, UnparkCas(t)
       PROVE  TypeOK'
  BY SMTT(30), <1>11, SlotFacts, LotAssumption DEF UnparkCas, TypeOK, Goto, Return,
      SetState, lotVars, chainVars, ticketVars, threadVars, State, ParkPcs, UnparkPcs, ScanPcs
<1>12. ASSUME NEW t \in Threads, UnparkRead(t)
       PROVE  TypeOK'
  BY <1>12, SlotFacts, LotAssumption DEF UnparkRead, TypeOK, Goto, lotVars, chainVars,
      ticketVars, threadVars, State, ParkPcs, UnparkPcs, ScanPcs
<1>13. ASSUME NEW t \in Threads, UnparkFree(t)
       PROVE  TypeOK'
  BY <1>13, SlotFacts, LotAssumption DEF UnparkFree, ValuesInv, TypeOK, Goto,
      Return, SetState, lotVars, chainVars, ticketVars, threadVars, State, ParkPcs, UnparkPcs,
      ScanPcs
<1>14. ASSUME NEW t \in Threads, NEW w \in Wakers, Wake(t, w)
       PROVE  TypeOK'
  BY <1>14, SlotFacts, LotAssumption DEF Wake, TypeOK, Goto, lotVars, chainVars, ticketVars,
      threadVars, State, ParkPcs, UnparkPcs, ScanPcs
<1>15. ASSUME NEW s \in Slots, Split(s)
       PROVE  TypeOK'
  BY <1>15, SlotFacts, LotAssumption DEF Split, TypeOK, lotVars, chainVars, ticketVars,
      threadVars, State, ParkPcs, UnparkPcs, ScanPcs
<1>16. ASSUME NEW s \in Slots, Release(s)
       PROVE  TypeOK'
  BY <1>16, SlotFacts, LotAssumption DEF Release, TypeOK, SetState, lotVars, chainVars,
      ticketVars, threadVars, State, ParkPcs, UnparkPcs, ScanPcs
<1>17. ASSUME NEW s \in Slots, NEW w \in Wakers, IntoWaker(s, w)
       PROVE  TypeOK'
  BY <1>17, SlotFacts, LotAssumption DEF IntoWaker, TypeOK, lotVars, chainVars, ticketVars,
      threadVars, State, ParkPcs, UnparkPcs, ScanPcs
<1>18. ASSUME NEW c \in ParkCells, NEW s \in Slots, ParkCellPut(c, s)
       PROVE  TypeOK'
  BY <1>18, SlotFacts, LotAssumption DEF ParkCellPut, TypeOK, lotVars, chainVars, ticketVars,
      threadVars, State, ParkPcs, UnparkPcs, ScanPcs
<1>19. ASSUME NEW c \in ParkCells, NEW s \in Slots, ParkCellPutReservation(c, s)
       PROVE  TypeOK'
  BY <1>19, SlotFacts, LotAssumption DEF ParkCellPutReservation, TypeOK, lotVars, chainVars,
      ticketVars, threadVars, State, ParkPcs, UnparkPcs, ScanPcs
<1>20. ASSUME NEW d \in UnparkCells, NEW s \in Slots, UnparkCellPutReservation(d, s)
       PROVE  TypeOK'
  BY <1>20, SlotFacts, LotAssumption DEF UnparkCellPutReservation, TypeOK,
      lotVars, chainVars, ticketVars, threadVars, State, ParkPcs, UnparkPcs, ScanPcs
<1>21. ASSUME NEW t \in Threads, NEW s \in Slots, Unpark(t, s)
       PROVE  TypeOK'
  BY <1>21, SlotFacts, LotAssumption DEF Unpark, TypeOK, Goto, lotVars, chainVars,
      ticketVars, threadVars, State, ParkPcs, UnparkPcs, ScanPcs
<1>22. ASSUME NEW t \in Threads, NEW s \in Slots, NEW v \in Values, Park(t, s, v)
       PROVE  TypeOK'
  BY <1>22, SlotFacts, LotAssumption DEF Park, TypeOK, Goto, lotVars, chainVars, ticketVars,
      threadVars, State, ParkPcs, UnparkPcs, ScanPcs
<1>23. ASSUME NEW c \in ParkCells, ParkCellTake(c)
       PROVE  TypeOK'
  BY <1>23, SlotFacts, LotAssumption DEF ParkCellTake, TypeOK, lotVars, chainVars,
      ticketVars, threadVars, State, ParkPcs, UnparkPcs, ScanPcs
<1>24. ASSUME NEW d \in UnparkCells, UnparkCellTake(d)
       PROVE  TypeOK'
  BY <1>24, SlotFacts, LotAssumption DEF UnparkCellTake, TypeOK, lotVars, chainVars,
      ticketVars, threadVars, State, ParkPcs, UnparkPcs, ScanPcs
<1>25. CASE UNCHANGED vars
  BY SMTT(30), <1>25, SlotFacts, LotAssumption DEF vars, TypeOK, lotVars, chainVars, ticketVars,
      threadVars, State, ParkPcs, UnparkPcs, ScanPcs
<1> QED
  BY SMTT(30), <1>1, <1>2, <1>3, <1>4, <1>5, <1>6, <1>7, <1>8, <1>9, <1>10, <1>11, <1>12, <1>13,
      <1>14, <1>15, <1>16, <1>17, <1>18, <1>19, <1>20, <1>21, <1>22, <1>23, <1>24, <1>25
      DEF Next, ThreadStep, TicketStep

\* NoSlot names no slot.
LEMMA NoSlotFact == NoSlot \notin Slots
  BY SlotFacts

\* The type of the lot without its chain.
LEMMA TypeParts == TypeOK => LotType
  BY DEF TypeOK, LotType

-------------------------------------------------------------------------------
(* Steps that only scan the chain *)

\* A step that moves no value, no ticket and no thread inside park or unpark.
ScanOnly ==
    /\ UNCHANGED <<state, cell, ticketVars, outside, value>>
    /\ \A u \in Threads :
          \/ pc'[u] = pc[u] /\ at'[u] = at[u]
          \/ {pc[u], pc'[u]} \cap (ParkPcs \cup UnparkPcs) = {}

ScanStep(t) == Reserve(t) \/ TryReserve(t) \/ ClaimLoad(t) \/ NextSegment(t) \/ Append(t)

\* The scan of reserve and try_reserve touches neither slots nor tickets.
LEMMA ScanSteps ==
    ASSUME TypeOK
    PROVE  /\ \A t \in Threads : ScanStep(t) => ScanOnly
           /\ UNCHANGED vars => ScanOnly
<1>1. ASSUME NEW t \in Threads, NEW step \in {"idle"} \cup ScanPcs, NEW s,
             Goto(t, step, s), pc[t] \in {"idle"} \cup ScanPcs,
             UNCHANGED <<state, cell, ticketVars, outside, value>>
      PROVE  ScanOnly
  BY <1>1 DEF ScanOnly, Goto, TypeOK, ScanPcs, ParkPcs, UnparkPcs
<1>2. ASSUME NEW t \in Threads, Reserve(t) PROVE ScanOnly
  BY <1>1, <1>2 DEF Reserve, ScanPcs, lotVars
<1>3. ASSUME NEW t \in Threads, TryReserve(t) PROVE ScanOnly
  BY <1>1, <1>3 DEF TryReserve, ScanPcs, lotVars
<1>4. ASSUME NEW t \in Threads, ClaimLoad(t) PROVE ScanOnly
  BY <1>1, <1>4 DEF ClaimLoad, Skip, ScanPcs, lotVars
<1>5. ASSUME NEW t \in Threads, NextSegment(t) PROVE ScanOnly
  BY <1>1, <1>5 DEF NextSegment, Return, ScanPcs
<1>6. ASSUME NEW t \in Threads, Append(t) PROVE ScanOnly
  BY <1>1, <1>6 DEF Append, ScanPcs
<1>7. UNCHANGED vars => ScanOnly
  BY DEF vars, lotVars, threadVars, ScanOnly
<1> QED
  BY <1>2, <1>3, <1>4, <1>5, <1>6, <1>7 DEF ScanStep

\* ... so it keeps the rights.
LEMMA ScanKeepsRights ==
    ASSUME LotType, RightsInv, ScanOnly
    PROVE  RightsInv'
<1>1. \A u \in Threads : pc'[u] \in ParkPcs \cup UnparkPcs => pc'[u] = pc[u] /\ at'[u] = at[u]
  BY DEF ScanOnly
<1>2. \A u \in Threads : pc[u] \in ParkPcs \cup UnparkPcs => pc'[u] = pc[u] /\ at'[u] = at[u]
  BY DEF ScanOnly
<1>3. \A u \in Threads, s \in Slots : /\ Parking(u, s)' <=> Parking(u, s)
                                      /\ Unparking(u, s)' <=> Unparking(u, s)
  BY <1>1, <1>2 DEF Parking, Unparking
<1>4. \A s \in Slots : (ParkRight(s)' <=> ParkRight(s)) /\ (UnparkRight(s)' <=> UnparkRight(s))
  BY <1>3 DEF ParkRight, UnparkRight, ScanOnly, ticketVars
<1>5. RightsAreUnique'
  BY <1>1, <1>3 DEF RightsInv, RightsAreUnique, ScanOnly, ticketVars, LotType, Parking,
     Unparking
<1>6. TicketsMatchState' /\ NoSlotLeak'
  BY <1>4 DEF RightsInv, TicketsMatchState, NoSlotLeak, ScanOnly, ticketVars
<1>7. ExchangeOutcome'
  BY <1>1 DEF RightsInv, ExchangeOutcome, ScanOnly, ParkPcs, UnparkPcs
<1> QED
  BY <1>5, <1>6, <1>7 DEF RightsInv

-------------------------------------------------------------------------------
(* Every step keeps the rights. *)

\* Every step preserves the uniqueness of the rights.
LEMMA UniqueStep ==
    ASSUME TypeOK, RightsInv, [Next]_vars
    PROVE  RightsAreUnique'
<1>0. LotType
  BY TypeParts
<1>1. ASSUME ScanOnly
       PROVE  RightsAreUnique'
  BY <1>0, <1>1, ScanKeepsRights DEF RightsInv
<1>4. ASSUME NEW t \in Threads, ClaimCas(t)
       PROVE  RightsAreUnique'
  BY SMTT(30), <1>0, <1>4, NoSlotFact DEF ClaimCas, RightsInv, RightsAreUnique,
      TicketsMatchState,
      ParkRight, UnparkRight, Goto, Return, SetState, Skip, lotVars, ticketVars,
      threadVars, LotType, Parking, Unparking, ParkPcs, UnparkPcs, ScanPcs
<1>7. ASSUME NEW t \in Threads, ParkWrite(t)
       PROVE  RightsAreUnique'
  BY <1>0, <1>7, NoSlotFact DEF ParkWrite, RightsInv, RightsAreUnique, TicketsMatchState,
      ParkRight, UnparkRight, Goto, lotVars, ticketVars, threadVars, LotType, Parking,
      Unparking, ParkPcs, UnparkPcs, ScanPcs
<1>8. ASSUME NEW t \in Threads, ParkCas(t)
       PROVE  RightsAreUnique'
  BY <1>0, <1>8, NoSlotFact DEF ParkCas, RightsInv, RightsAreUnique, TicketsMatchState,
      ParkRight, UnparkRight, Goto, Return, SetState, lotVars, ticketVars, threadVars,
      LotType, Parking, Unparking, ParkPcs, UnparkPcs, ScanPcs
<1>9. ASSUME NEW t \in Threads, ParkReadBack(t)
       PROVE  RightsAreUnique'
  BY <1>0, <1>9, NoSlotFact DEF ParkReadBack, RightsInv, RightsAreUnique,
      TicketsMatchState, ParkRight, UnparkRight, Goto, lotVars, ticketVars, threadVars,
      LotType, Parking, Unparking, ParkPcs, UnparkPcs, ScanPcs
<1>10. ASSUME NEW t \in Threads, ParkFree(t)
       PROVE  RightsAreUnique'
  BY <1>0, <1>10, NoSlotFact DEF ParkFree, RightsInv, RightsAreUnique, TicketsMatchState,
      ParkRight, UnparkRight, Goto, Return, SetState, lotVars, ticketVars, threadVars,
      LotType, Parking, Unparking, ParkPcs, UnparkPcs, ScanPcs
<1>11. ASSUME NEW t \in Threads, UnparkCas(t)
       PROVE  RightsAreUnique'
  BY <1>0, <1>11, NoSlotFact DEF UnparkCas, RightsInv, RightsAreUnique,
      TicketsMatchState, ParkRight, UnparkRight, Goto, Return, SetState, lotVars,
      ticketVars, threadVars, LotType, Parking, Unparking, ParkPcs, UnparkPcs, ScanPcs
<1>12. ASSUME NEW t \in Threads, UnparkRead(t)
       PROVE  RightsAreUnique'
  BY SMTT(30), <1>0, <1>12, NoSlotFact DEF UnparkRead, RightsInv, RightsAreUnique,
      TicketsMatchState, ParkRight, UnparkRight, Goto, lotVars, ticketVars, threadVars,
      LotType, Parking, Unparking, ParkPcs, UnparkPcs, ScanPcs
<1>13. ASSUME NEW t \in Threads, UnparkFree(t)
       PROVE  RightsAreUnique'
  BY SMTT(30), <1>0, <1>13, NoSlotFact DEF UnparkFree, RightsInv, RightsAreUnique,
      TicketsMatchState, ParkRight, UnparkRight, Goto, Return, SetState, lotVars,
      ticketVars, threadVars, LotType, Parking, Unparking, ParkPcs, UnparkPcs, ScanPcs
<1>14. ASSUME NEW t \in Threads, NEW w \in Wakers, Wake(t, w)
       PROVE  RightsAreUnique'
  BY SMTT(30), <1>0, <1>14, NoSlotFact DEF Wake, RightsInv, RightsAreUnique,
      TicketsMatchState,
      ParkRight, UnparkRight, Goto, lotVars, ticketVars, threadVars, LotType, Parking,
      Unparking, ParkPcs, UnparkPcs, ScanPcs
<1>15. ASSUME NEW s \in Slots, Split(s)
       PROVE  RightsAreUnique'
  BY SMTT(30), <1>0, <1>15, NoSlotFact DEF Split, RightsInv, RightsAreUnique,
      TicketsMatchState,
      ParkRight, UnparkRight, lotVars, ticketVars, threadVars, LotType, Parking,
      Unparking, ParkPcs, UnparkPcs, ScanPcs
<1>16. ASSUME NEW s \in Slots, Release(s)
       PROVE  RightsAreUnique'
  BY SMTT(30), <1>0, <1>16, NoSlotFact DEF Release, RightsInv, RightsAreUnique,
      TicketsMatchState,
      ParkRight, UnparkRight, SetState, lotVars, ticketVars, threadVars, LotType,
      Parking, Unparking, ParkPcs, UnparkPcs, ScanPcs
<1>17. ASSUME NEW s \in Slots, NEW w \in Wakers, IntoWaker(s, w)
       PROVE  RightsAreUnique'
  BY SMTT(30), <1>0, <1>17, NoSlotFact DEF IntoWaker, RightsInv, RightsAreUnique,
      TicketsMatchState, ParkRight, UnparkRight, lotVars, ticketVars, threadVars,
      LotType, Parking, Unparking, ParkPcs, UnparkPcs, ScanPcs
<1>18. ASSUME NEW c \in ParkCells, NEW s \in Slots, ParkCellPut(c, s)
       PROVE  RightsAreUnique'
  BY SMTT(30), <1>0, <1>18, NoSlotFact DEF ParkCellPut, RightsInv, RightsAreUnique,
      TicketsMatchState, ParkRight, UnparkRight, lotVars, ticketVars, threadVars,
      LotType, Parking, Unparking, ParkPcs, UnparkPcs, ScanPcs
<1>19. ASSUME NEW c \in ParkCells, NEW s \in Slots, ParkCellPutReservation(c, s)
       PROVE  RightsAreUnique'
  BY SMTT(30), <1>0, <1>19, NoSlotFact DEF ParkCellPutReservation, RightsInv,
      RightsAreUnique,
      TicketsMatchState, ParkRight, UnparkRight, lotVars, ticketVars, threadVars,
      LotType, Parking, Unparking, ParkPcs, UnparkPcs, ScanPcs
<1>20. ASSUME NEW d \in UnparkCells, NEW s \in Slots, UnparkCellPutReservation(d, s)
       PROVE  RightsAreUnique'
  BY SMTT(30), <1>0, <1>20, NoSlotFact DEF UnparkCellPutReservation, RightsInv,
      RightsAreUnique,
      TicketsMatchState, ParkRight, UnparkRight, lotVars, ticketVars, threadVars,
      LotType, Parking, Unparking, ParkPcs, UnparkPcs, ScanPcs
<1>21. ASSUME NEW t \in Threads, NEW s \in Slots, Unpark(t, s)
       PROVE  RightsAreUnique'
  BY SMTT(30), <1>0, <1>21, NoSlotFact DEF Unpark, RightsInv, RightsAreUnique,
      TicketsMatchState,
      ParkRight, UnparkRight, Goto, lotVars, ticketVars, threadVars, LotType, Parking,
      Unparking, ParkPcs, UnparkPcs, ScanPcs
<1>22. ASSUME NEW t \in Threads, NEW s \in Slots, NEW v \in Values, Park(t, s, v)
       PROVE  RightsAreUnique'
  BY SMTT(30), <1>0, <1>22, NoSlotFact DEF Park, RightsInv, RightsAreUnique,
      TicketsMatchState,
      ParkRight, UnparkRight, Goto, lotVars, ticketVars, threadVars, LotType, Parking,
      Unparking, ParkPcs, UnparkPcs, ScanPcs
<1>23. ASSUME NEW c \in ParkCells, ParkCellTake(c)
       PROVE  RightsAreUnique'
  BY SMTT(30), <1>0, <1>23, NoSlotFact DEF ParkCellTake, RightsInv, RightsAreUnique,
      TicketsMatchState, ParkRight, UnparkRight, lotVars, ticketVars, threadVars,
      LotType, Parking, Unparking, ParkPcs, UnparkPcs, ScanPcs
<1>24. ASSUME NEW d \in UnparkCells, UnparkCellTake(d)
       PROVE  RightsAreUnique'
  BY SMTT(30), <1>0, <1>24, NoSlotFact DEF UnparkCellTake, RightsInv, RightsAreUnique,
      TicketsMatchState, ParkRight, UnparkRight, lotVars, ticketVars, threadVars,
      LotType, Parking, Unparking, ParkPcs, UnparkPcs, ScanPcs
<1> QED
  BY ScanSteps, <1>1, <1>4, <1>7, <1>8, <1>9, <1>10, <1>11, <1>12, <1>13, <1>14, <1>15,
      <1>16, <1>17, <1>18, <1>19, <1>20, <1>21, <1>22, <1>23, <1>24
      DEF Next, ThreadStep, TicketStep, ScanStep

\* Every step keeps each slot's state in line with its rights.
LEMMA MatchStep ==
    ASSUME TypeOK, RightsInv, [Next]_vars
    PROVE  TicketsMatchState'
<1>0. LotType
  BY TypeParts
<1>1. ASSUME ScanOnly
       PROVE  TicketsMatchState'
  BY <1>0, <1>1, ScanKeepsRights DEF RightsInv
<1>4. ASSUME NEW t \in Threads, ClaimCas(t)
       PROVE  TicketsMatchState'
  BY SMTT(30), <1>0, <1>4, NoSlotFact DEF ClaimCas, RightsInv, RightsAreUnique,
      TicketsMatchState,
      ExchangeOutcome, ParkRight, UnparkRight, Goto, Return, SetState, Skip, lotVars,
      ticketVars, threadVars, LotType, Parking, Unparking, ParkPcs, UnparkPcs, ScanPcs
<1>7. ASSUME NEW t \in Threads, ParkWrite(t)
       PROVE  TicketsMatchState'
  BY <1>0, <1>7, NoSlotFact DEF ParkWrite, RightsInv, RightsAreUnique, TicketsMatchState,
      ExchangeOutcome, ParkRight, UnparkRight, Goto, lotVars, ticketVars, threadVars,
      LotType, Parking, Unparking, ParkPcs, UnparkPcs, ScanPcs
<1>8. ASSUME NEW t \in Threads, ParkCas(t)
       PROVE  TicketsMatchState'
  BY SMTT(30), <1>0, <1>8, NoSlotFact DEF ParkCas, RightsInv, RightsAreUnique,
      TicketsMatchState,
      ExchangeOutcome, ParkRight, UnparkRight, Goto, Return, SetState, lotVars,
      ticketVars, threadVars, LotType, Parking, Unparking, ParkPcs, UnparkPcs, ScanPcs
<1>9. ASSUME NEW t \in Threads, ParkReadBack(t)
       PROVE  TicketsMatchState'
  BY <1>0, <1>9, NoSlotFact DEF ParkReadBack, RightsInv, RightsAreUnique,
      TicketsMatchState, ExchangeOutcome, ParkRight, UnparkRight, Goto, lotVars,
      ticketVars, threadVars, LotType, Parking, Unparking, ParkPcs, UnparkPcs, ScanPcs
<1>10. ASSUME NEW t \in Threads, ParkFree(t)
       PROVE  TicketsMatchState'
  BY <1>0, <1>10, NoSlotFact DEF ParkFree, RightsInv, RightsAreUnique, TicketsMatchState,
      ExchangeOutcome, ParkRight, UnparkRight, Goto, Return, SetState, lotVars,
      ticketVars, threadVars, LotType, Parking, Unparking, ParkPcs, UnparkPcs, ScanPcs
<1>11. ASSUME NEW t \in Threads, UnparkCas(t)
       PROVE  TicketsMatchState'
  BY <1>0, <1>11, NoSlotFact DEF UnparkCas, RightsInv, RightsAreUnique,
      TicketsMatchState, ExchangeOutcome, ParkRight, UnparkRight, Goto, Return,
      SetState, lotVars, ticketVars, threadVars, LotType, Parking, Unparking, ParkPcs,
      UnparkPcs, ScanPcs
<1>12. ASSUME NEW t \in Threads, UnparkRead(t)
       PROVE  TicketsMatchState'
  BY <1>0, <1>12, NoSlotFact DEF UnparkRead, RightsInv, RightsAreUnique,
      TicketsMatchState, ExchangeOutcome, ParkRight, UnparkRight, Goto, lotVars,
      ticketVars, threadVars, LotType, Parking, Unparking, ParkPcs, UnparkPcs, ScanPcs
<1>13. ASSUME NEW t \in Threads, UnparkFree(t)
       PROVE  TicketsMatchState'
  BY <1>0, <1>13, NoSlotFact DEF UnparkFree, RightsInv, RightsAreUnique,
      TicketsMatchState, ExchangeOutcome, ParkRight, UnparkRight, Goto, Return,
      SetState, lotVars, ticketVars, threadVars, LotType, Parking, Unparking, ParkPcs,
      UnparkPcs, ScanPcs
<1>14. ASSUME NEW t \in Threads, NEW w \in Wakers, Wake(t, w)
       PROVE  TicketsMatchState'
  BY <1>0, <1>14, NoSlotFact DEF Wake, RightsInv, RightsAreUnique, TicketsMatchState,
      ExchangeOutcome, ParkRight, UnparkRight, Goto, lotVars, ticketVars, threadVars,
      LotType, Parking, Unparking, ParkPcs, UnparkPcs, ScanPcs
<1>15. ASSUME NEW s \in Slots, Split(s)
       PROVE  TicketsMatchState'
  BY <1>0, <1>15, NoSlotFact DEF Split, RightsInv, RightsAreUnique, TicketsMatchState,
      ExchangeOutcome, ParkRight, UnparkRight, lotVars, ticketVars, threadVars, LotType,
      Parking, Unparking, ParkPcs, UnparkPcs, ScanPcs
<1>16. ASSUME NEW s \in Slots, Release(s)
       PROVE  TicketsMatchState'
  BY <1>0, <1>16, NoSlotFact DEF Release, RightsInv, RightsAreUnique, TicketsMatchState,
      ExchangeOutcome, ParkRight, UnparkRight, SetState, lotVars, ticketVars,
      threadVars, LotType, Parking, Unparking, ParkPcs, UnparkPcs, ScanPcs
<1>17. ASSUME NEW s \in Slots, NEW w \in Wakers, IntoWaker(s, w)
       PROVE  TicketsMatchState'
  BY <1>0, <1>17, NoSlotFact DEF IntoWaker, RightsInv, RightsAreUnique,
      TicketsMatchState, ExchangeOutcome, ParkRight, UnparkRight, lotVars, ticketVars,
      threadVars, LotType, Parking, Unparking, ParkPcs, UnparkPcs, ScanPcs
<1>18. ASSUME NEW c \in ParkCells, NEW s \in Slots, ParkCellPut(c, s)
       PROVE  TicketsMatchState'
  BY <1>0, <1>18, NoSlotFact DEF ParkCellPut, RightsInv, RightsAreUnique,
      TicketsMatchState, ExchangeOutcome, ParkRight, UnparkRight, lotVars, ticketVars,
      threadVars, LotType, Parking, Unparking, ParkPcs, UnparkPcs, ScanPcs
<1>19. ASSUME NEW c \in ParkCells, NEW s \in Slots, ParkCellPutReservation(c, s)
       PROVE  TicketsMatchState'
  BY <1>0, <1>19, NoSlotFact DEF ParkCellPutReservation, RightsInv, RightsAreUnique,
      TicketsMatchState, ExchangeOutcome, ParkRight, UnparkRight, lotVars, ticketVars,
      threadVars, LotType, Parking, Unparking, ParkPcs, UnparkPcs, ScanPcs
<1>20. ASSUME NEW d \in UnparkCells, NEW s \in Slots, UnparkCellPutReservation(d, s)
       PROVE  TicketsMatchState'
  BY <1>0, <1>20, NoSlotFact DEF UnparkCellPutReservation, RightsInv, RightsAreUnique,
      TicketsMatchState, ExchangeOutcome, ParkRight, UnparkRight, lotVars, ticketVars,
      threadVars, LotType, Parking, Unparking, ParkPcs, UnparkPcs, ScanPcs
<1>21. ASSUME NEW t \in Threads, NEW s \in Slots, Unpark(t, s)
       PROVE  TicketsMatchState'
  BY <1>0, <1>21, NoSlotFact DEF Unpark, RightsInv, RightsAreUnique, TicketsMatchState,
      ExchangeOutcome, ParkRight, UnparkRight, Goto, lotVars, ticketVars, threadVars,
      LotType, Parking, Unparking, ParkPcs, UnparkPcs, ScanPcs
<1>22. ASSUME NEW t \in Threads, NEW s \in Slots, NEW v \in Values, Park(t, s, v)
       PROVE  TicketsMatchState'
  BY <1>0, <1>22, NoSlotFact DEF Park, RightsInv, RightsAreUnique, TicketsMatchState,
      ExchangeOutcome, ParkRight, UnparkRight, Goto, lotVars, ticketVars, threadVars,
      LotType, Parking, Unparking, ParkPcs, UnparkPcs, ScanPcs
<1>23. ASSUME NEW c \in ParkCells, ParkCellTake(c)
       PROVE  TicketsMatchState'
  BY <1>0, <1>23, NoSlotFact DEF ParkCellTake, RightsInv, RightsAreUnique,
      TicketsMatchState, ExchangeOutcome, ParkRight, UnparkRight, lotVars, ticketVars,
      threadVars, LotType, Parking, Unparking, ParkPcs, UnparkPcs, ScanPcs
<1>24. ASSUME NEW d \in UnparkCells, UnparkCellTake(d)
       PROVE  TicketsMatchState'
  BY <1>0, <1>24, NoSlotFact DEF UnparkCellTake, RightsInv, RightsAreUnique,
      TicketsMatchState, ExchangeOutcome, ParkRight, UnparkRight, lotVars, ticketVars,
      threadVars, LotType, Parking, Unparking, ParkPcs, UnparkPcs, ScanPcs
<1> QED
  BY ScanSteps, <1>1, <1>4, <1>7, <1>8, <1>9, <1>10, <1>11, <1>12, <1>13, <1>14, <1>15,
      <1>16, <1>17, <1>18, <1>19, <1>20, <1>21, <1>22, <1>23, <1>24
      DEF Next, ThreadStep, TicketStep, ScanStep

\* No step loses the last right to a slot in use.
LEMMA LeakStep ==
    ASSUME TypeOK, RightsInv, [Next]_vars
    PROVE  NoSlotLeak'
<1>0. LotType
  BY TypeParts
<1>1. ASSUME ScanOnly
       PROVE  NoSlotLeak'
  BY <1>0, <1>1, ScanKeepsRights DEF RightsInv
<1>4. ASSUME NEW t \in Threads, ClaimCas(t)
       PROVE  NoSlotLeak'
  BY <1>0, <1>4, NoSlotFact DEF ClaimCas, RightsInv, TicketsMatchState, NoSlotLeak,
      ExchangeOutcome, ParkRight, UnparkRight, Goto, Return, SetState, Skip, lotVars,
      ticketVars, threadVars, LotType, Parking, Unparking, ParkPcs, UnparkPcs, ScanPcs,
      State
<1>7. ASSUME NEW t \in Threads, ParkWrite(t)
       PROVE  NoSlotLeak'
  BY <1>0, <1>7, NoSlotFact DEF ParkWrite, RightsInv, TicketsMatchState, NoSlotLeak,
      ExchangeOutcome, ParkRight, UnparkRight, Goto, lotVars, ticketVars, threadVars,
      LotType, Parking, Unparking, ParkPcs, UnparkPcs, ScanPcs, State
<1>8. ASSUME NEW t \in Threads, ParkCas(t)
       PROVE  NoSlotLeak'
  BY SMTT(30), <1>0, <1>8, NoSlotFact DEF ParkCas, RightsInv, TicketsMatchState, NoSlotLeak,
      ExchangeOutcome, ParkRight, UnparkRight, Goto, Return, SetState, lotVars,
      ticketVars, threadVars, LotType, Parking, Unparking, ParkPcs, UnparkPcs, ScanPcs,
      State
<1>9. ASSUME NEW t \in Threads, ParkReadBack(t)
       PROVE  NoSlotLeak'
  BY <1>0, <1>9, NoSlotFact DEF ParkReadBack, RightsInv, TicketsMatchState, NoSlotLeak,
      ExchangeOutcome, ParkRight, UnparkRight, Goto, lotVars, ticketVars, threadVars,
      LotType, Parking, Unparking, ParkPcs, UnparkPcs, ScanPcs, State
<1>10. ASSUME NEW t \in Threads, ParkFree(t)
       PROVE  NoSlotLeak'
  BY <1>0, <1>10, NoSlotFact DEF ParkFree, RightsInv, TicketsMatchState, NoSlotLeak,
      ExchangeOutcome, ParkRight, UnparkRight, Goto, Return, SetState, lotVars,
      ticketVars, threadVars, LotType, Parking, Unparking, ParkPcs, UnparkPcs, ScanPcs,
      State
<1>11. ASSUME NEW t \in Threads, UnparkCas(t)
       PROVE  NoSlotLeak'
  BY <1>0, <1>11, NoSlotFact DEF UnparkCas, RightsInv, TicketsMatchState, NoSlotLeak,
      ExchangeOutcome, ParkRight, UnparkRight, Goto, Return, SetState, lotVars,
      ticketVars, threadVars, LotType, Parking, Unparking, ParkPcs, UnparkPcs, ScanPcs,
      State
<1>12. ASSUME NEW t \in Threads, UnparkRead(t)
       PROVE  NoSlotLeak'
  BY <1>0, <1>12, NoSlotFact DEF UnparkRead, RightsInv, TicketsMatchState, NoSlotLeak,
      ExchangeOutcome, ParkRight, UnparkRight, Goto, lotVars, ticketVars, threadVars,
      LotType, Parking, Unparking, ParkPcs, UnparkPcs, ScanPcs, State
<1>13. ASSUME NEW t \in Threads, UnparkFree(t)
       PROVE  NoSlotLeak'
  BY SMTT(30), <1>0, <1>13, NoSlotFact DEF UnparkFree, RightsInv, TicketsMatchState,
      NoSlotLeak,
      ExchangeOutcome, ParkRight, UnparkRight, Goto, Return, SetState, lotVars,
      ticketVars, threadVars, LotType, Parking, Unparking, ParkPcs, UnparkPcs, ScanPcs,
      State
<1>14. ASSUME NEW t \in Threads, NEW w \in Wakers, Wake(t, w)
       PROVE  NoSlotLeak'
  BY <1>0, <1>14, NoSlotFact DEF Wake, RightsInv, TicketsMatchState, NoSlotLeak,
      ExchangeOutcome, ParkRight, UnparkRight, Goto, lotVars, ticketVars, threadVars,
      LotType, Parking, Unparking, ParkPcs, UnparkPcs, ScanPcs, State
<1>15. ASSUME NEW s \in Slots, Split(s)
       PROVE  NoSlotLeak'
  BY <1>0, <1>15, NoSlotFact DEF Split, RightsInv, TicketsMatchState, NoSlotLeak,
      ExchangeOutcome, ParkRight, UnparkRight, lotVars, ticketVars, threadVars, LotType,
      Parking, Unparking, ParkPcs, UnparkPcs, ScanPcs, State
<1>16. ASSUME NEW s \in Slots, Release(s)
       PROVE  NoSlotLeak'
  BY <1>0, <1>16, NoSlotFact DEF Release, RightsInv, TicketsMatchState, NoSlotLeak,
      ExchangeOutcome, ParkRight, UnparkRight, SetState, lotVars, ticketVars,
      threadVars, LotType, Parking, Unparking, ParkPcs, UnparkPcs, ScanPcs, State
<1>17. ASSUME NEW s \in Slots, NEW w \in Wakers, IntoWaker(s, w)
       PROVE  NoSlotLeak'
  BY <1>0, <1>17, NoSlotFact DEF IntoWaker, RightsInv, TicketsMatchState, NoSlotLeak,
      ExchangeOutcome, ParkRight, UnparkRight, lotVars, ticketVars, threadVars, LotType,
      Parking, Unparking, ParkPcs, UnparkPcs, ScanPcs, State
<1>18. ASSUME NEW c \in ParkCells, NEW s \in Slots, ParkCellPut(c, s)
       PROVE  NoSlotLeak'
  BY <1>0, <1>18, NoSlotFact DEF ParkCellPut, RightsInv, TicketsMatchState, NoSlotLeak,
      ExchangeOutcome, ParkRight, UnparkRight, lotVars, ticketVars, threadVars, LotType,
      Parking, Unparking, ParkPcs, UnparkPcs, ScanPcs, State
<1>19. ASSUME NEW c \in ParkCells, NEW s \in Slots, ParkCellPutReservation(c, s)
       PROVE  NoSlotLeak'
  BY <1>0, <1>19, NoSlotFact DEF ParkCellPutReservation, RightsInv, TicketsMatchState,
      NoSlotLeak, ExchangeOutcome, ParkRight, UnparkRight, lotVars, ticketVars,
      threadVars, LotType, Parking, Unparking, ParkPcs, UnparkPcs, ScanPcs, State
<1>20. ASSUME NEW d \in UnparkCells, NEW s \in Slots, UnparkCellPutReservation(d, s)
       PROVE  NoSlotLeak'
  BY <1>0, <1>20, NoSlotFact DEF UnparkCellPutReservation, RightsInv, TicketsMatchState,
      NoSlotLeak, ExchangeOutcome, ParkRight, UnparkRight, lotVars, ticketVars,
      threadVars, LotType, Parking, Unparking, ParkPcs, UnparkPcs, ScanPcs, State
<1>21. ASSUME NEW t \in Threads, NEW s \in Slots, Unpark(t, s)
       PROVE  NoSlotLeak'
  BY SMTT(30), <1>0, <1>21, NoSlotFact DEF Unpark, RightsInv, TicketsMatchState, NoSlotLeak,
      ExchangeOutcome, ParkRight, UnparkRight, Goto, lotVars, ticketVars, threadVars,
      LotType, Parking, Unparking, ParkPcs, UnparkPcs, ScanPcs, State
<1>22. ASSUME NEW t \in Threads, NEW s \in Slots, NEW v \in Values, Park(t, s, v)
       PROVE  NoSlotLeak'
  BY SMTT(30), <1>0, <1>22, NoSlotFact DEF Park, RightsInv, TicketsMatchState, NoSlotLeak,
      ExchangeOutcome, ParkRight, UnparkRight, Goto, lotVars, ticketVars, threadVars,
      LotType, Parking, Unparking, ParkPcs, UnparkPcs, ScanPcs, State
<1>23. ASSUME NEW c \in ParkCells, ParkCellTake(c)
       PROVE  NoSlotLeak'
  BY <1>0, <1>23, NoSlotFact DEF ParkCellTake, RightsInv, TicketsMatchState, NoSlotLeak,
      ExchangeOutcome, ParkRight, UnparkRight, lotVars, ticketVars, threadVars, LotType,
      Parking, Unparking, ParkPcs, UnparkPcs, ScanPcs, State
<1>24. ASSUME NEW d \in UnparkCells, UnparkCellTake(d)
       PROVE  NoSlotLeak'
  BY <1>0, <1>24, NoSlotFact DEF UnparkCellTake, RightsInv, TicketsMatchState,
      NoSlotLeak, ExchangeOutcome, ParkRight, UnparkRight, lotVars, ticketVars,
      threadVars, LotType, Parking, Unparking, ParkPcs, UnparkPcs, ScanPcs, State
<1> QED
  BY ScanSteps, <1>1, <1>4, <1>7, <1>8, <1>9, <1>10, <1>11, <1>12, <1>13, <1>14, <1>15,
      <1>16, <1>17, <1>18, <1>19, <1>20, <1>21, <1>22, <1>23, <1>24
      DEF Next, ThreadStep, TicketStep, ScanStep

\* What a failed exchange saw stays true until the slot is freed.
LEMMA OutcomeStep ==
    ASSUME TypeOK, RightsInv, [Next]_vars
    PROVE  ExchangeOutcome'
<1>0. LotType
  BY TypeParts
<1>1. ASSUME ScanOnly
       PROVE  ExchangeOutcome'
  BY <1>0, <1>1, ScanKeepsRights DEF RightsInv
<1>4. ASSUME NEW t \in Threads, ClaimCas(t)
       PROVE  ExchangeOutcome'
  BY <1>0, <1>4, NoSlotFact DEF ClaimCas, RightsInv, RightsAreUnique, TicketsMatchState,
      ExchangeOutcome, ParkRight, UnparkRight, Goto, Return, SetState, Skip, lotVars,
      ticketVars, threadVars, LotType, Parking, Unparking, ParkPcs, UnparkPcs, ScanPcs,
      State
<1>7. ASSUME NEW t \in Threads, ParkWrite(t)
       PROVE  ExchangeOutcome'
  BY <1>0, <1>7, NoSlotFact DEF ParkWrite, RightsInv, RightsAreUnique, TicketsMatchState,
      ExchangeOutcome, ParkRight, UnparkRight, Goto, lotVars, ticketVars, threadVars,
      LotType, Parking, Unparking, ParkPcs, UnparkPcs, ScanPcs, State
<1>8. ASSUME NEW t \in Threads, ParkCas(t)
       PROVE  ExchangeOutcome'
  BY <1>0, <1>8, NoSlotFact DEF ParkCas, RightsInv, RightsAreUnique, TicketsMatchState,
      ExchangeOutcome, ParkRight, UnparkRight, Goto, Return, SetState, lotVars,
      ticketVars, threadVars, LotType, Parking, Unparking, ParkPcs, UnparkPcs, ScanPcs,
      State
<1>9. ASSUME NEW t \in Threads, ParkReadBack(t)
       PROVE  ExchangeOutcome'
  BY <1>0, <1>9, NoSlotFact DEF ParkReadBack, RightsInv, RightsAreUnique,
      TicketsMatchState, ExchangeOutcome, ParkRight, UnparkRight, Goto, lotVars,
      ticketVars, threadVars, LotType, Parking, Unparking, ParkPcs, UnparkPcs, ScanPcs,
      State
<1>10. ASSUME NEW t \in Threads, ParkFree(t)
       PROVE  ExchangeOutcome'
  BY <1>0, <1>10, NoSlotFact DEF ParkFree, RightsInv, RightsAreUnique, TicketsMatchState,
      ExchangeOutcome, ParkRight, UnparkRight, Goto, Return, SetState, lotVars,
      ticketVars, threadVars, LotType, Parking, Unparking, ParkPcs, UnparkPcs, ScanPcs,
      State
<1>11. ASSUME NEW t \in Threads, UnparkCas(t)
       PROVE  ExchangeOutcome'
  BY <1>0, <1>11, NoSlotFact DEF UnparkCas, RightsInv, RightsAreUnique,
      TicketsMatchState, ExchangeOutcome, ParkRight, UnparkRight, Goto, Return,
      SetState, lotVars, ticketVars, threadVars, LotType, Parking, Unparking, ParkPcs,
      UnparkPcs, ScanPcs, State
<1>12. ASSUME NEW t \in Threads, UnparkRead(t)
       PROVE  ExchangeOutcome'
  BY <1>0, <1>12, NoSlotFact DEF UnparkRead, RightsInv, RightsAreUnique,
      TicketsMatchState, ExchangeOutcome, ParkRight, UnparkRight, Goto, lotVars,
      ticketVars, threadVars, LotType, Parking, Unparking, ParkPcs, UnparkPcs, ScanPcs,
      State
<1>13. ASSUME NEW t \in Threads, UnparkFree(t)
       PROVE  ExchangeOutcome'
  BY <1>0, <1>13, NoSlotFact DEF UnparkFree, RightsInv, RightsAreUnique,
      TicketsMatchState, ExchangeOutcome, ParkRight, UnparkRight, Goto, Return,
      SetState, lotVars, ticketVars, threadVars, LotType, Parking, Unparking, ParkPcs,
      UnparkPcs, ScanPcs, State
<1>14. ASSUME NEW t \in Threads, NEW w \in Wakers, Wake(t, w)
       PROVE  ExchangeOutcome'
  BY <1>0, <1>14, NoSlotFact DEF Wake, RightsInv, RightsAreUnique, TicketsMatchState,
      ExchangeOutcome, ParkRight, UnparkRight, Goto, lotVars, ticketVars, threadVars,
      LotType, Parking, Unparking, ParkPcs, UnparkPcs, ScanPcs, State
<1>15. ASSUME NEW s \in Slots, Split(s)
       PROVE  ExchangeOutcome'
  BY <1>0, <1>15, NoSlotFact DEF Split, RightsInv, RightsAreUnique, TicketsMatchState,
      ExchangeOutcome, ParkRight, UnparkRight, lotVars, ticketVars, threadVars, LotType,
      Parking, Unparking, ParkPcs, UnparkPcs, ScanPcs, State
<1>16. ASSUME NEW s \in Slots, Release(s)
       PROVE  ExchangeOutcome'
  BY SMTT(30), <1>0, <1>16, NoSlotFact DEF Release, RightsInv, RightsAreUnique,
      TicketsMatchState,
      ExchangeOutcome, ParkRight, UnparkRight, SetState, lotVars, ticketVars,
      threadVars, LotType, Parking, Unparking, ParkPcs, UnparkPcs, ScanPcs, State
<1>17. ASSUME NEW s \in Slots, NEW w \in Wakers, IntoWaker(s, w)
       PROVE  ExchangeOutcome'
  BY SMTT(30), <1>0, <1>17, NoSlotFact DEF IntoWaker, RightsInv, RightsAreUnique,
      TicketsMatchState, ExchangeOutcome, ParkRight, UnparkRight, lotVars, ticketVars,
      threadVars, LotType, Parking, Unparking, ParkPcs, UnparkPcs, ScanPcs, State
<1>18. ASSUME NEW c \in ParkCells, NEW s \in Slots, ParkCellPut(c, s)
       PROVE  ExchangeOutcome'
  BY SMTT(30), <1>0, <1>18, NoSlotFact DEF ParkCellPut, RightsInv, RightsAreUnique,
      TicketsMatchState, ExchangeOutcome, ParkRight, UnparkRight, lotVars, ticketVars,
      threadVars, LotType, Parking, Unparking, ParkPcs, UnparkPcs, ScanPcs, State
<1>19. ASSUME NEW c \in ParkCells, NEW s \in Slots, ParkCellPutReservation(c, s)
       PROVE  ExchangeOutcome'
  BY SMTT(30), <1>0, <1>19, NoSlotFact DEF ParkCellPutReservation, RightsInv,
      RightsAreUnique,
      TicketsMatchState, ExchangeOutcome, ParkRight, UnparkRight, lotVars, ticketVars,
      threadVars, LotType, Parking, Unparking, ParkPcs, UnparkPcs, ScanPcs, State
<1>20. ASSUME NEW d \in UnparkCells, NEW s \in Slots, UnparkCellPutReservation(d, s)
       PROVE  ExchangeOutcome'
  BY SMTT(30), <1>0, <1>20, NoSlotFact DEF UnparkCellPutReservation, RightsInv,
      RightsAreUnique,
      TicketsMatchState, ExchangeOutcome, ParkRight, UnparkRight, lotVars, ticketVars,
      threadVars, LotType, Parking, Unparking, ParkPcs, UnparkPcs, ScanPcs, State
<1>21. ASSUME NEW t \in Threads, NEW s \in Slots, Unpark(t, s)
       PROVE  ExchangeOutcome'
  BY SMTT(30), <1>0, <1>21, NoSlotFact DEF Unpark, RightsInv, RightsAreUnique,
      TicketsMatchState,
      ExchangeOutcome, ParkRight, UnparkRight, Goto, lotVars, ticketVars, threadVars,
      LotType, Parking, Unparking, ParkPcs, UnparkPcs, ScanPcs, State
<1>22. ASSUME NEW t \in Threads, NEW s \in Slots, NEW v \in Values, Park(t, s, v)
       PROVE  ExchangeOutcome'
  BY SMTT(30), <1>0, <1>22, NoSlotFact DEF Park, RightsInv, RightsAreUnique,
      TicketsMatchState,
      ExchangeOutcome, ParkRight, UnparkRight, Goto, lotVars, ticketVars, threadVars,
      LotType, Parking, Unparking, ParkPcs, UnparkPcs, ScanPcs, State
<1>23. ASSUME NEW c \in ParkCells, ParkCellTake(c)
       PROVE  ExchangeOutcome'
  BY SMTT(30), <1>0, <1>23, NoSlotFact DEF ParkCellTake, RightsInv, RightsAreUnique,
      TicketsMatchState, ExchangeOutcome, ParkRight, UnparkRight, lotVars, ticketVars,
      threadVars, LotType, Parking, Unparking, ParkPcs, UnparkPcs, ScanPcs, State
<1>24. ASSUME NEW d \in UnparkCells, UnparkCellTake(d)
       PROVE  ExchangeOutcome'
  BY SMTT(30), <1>0, <1>24, NoSlotFact DEF UnparkCellTake, RightsInv, RightsAreUnique,
      TicketsMatchState, ExchangeOutcome, ParkRight, UnparkRight, lotVars, ticketVars,
      threadVars, LotType, Parking, Unparking, ParkPcs, UnparkPcs, ScanPcs, State
<1> QED
  BY ScanSteps, <1>1, <1>4, <1>7, <1>8, <1>9, <1>10, <1>11, <1>12, <1>13, <1>14, <1>15,
      <1>16, <1>17, <1>18, <1>19, <1>20, <1>21, <1>22, <1>23, <1>24
      DEF Next, ThreadStep, TicketStep, ScanStep
===============================================================================
