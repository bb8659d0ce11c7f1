------------------------- MODULE VirtualMemoryProofs -------------------------
(***************************************************************************)
(* The allocator of address ranges is correct for every range, every set   *)
(* of request sizes and every set of fixed segments.                       *)
(***************************************************************************)
EXTENDS VirtualMemory, TLAPS

(* The inductive invariant.  FirstFit is the loop invariant of the search; *)
(* it makes RefusedOnlyWhenFull hold at the moment reserve gives up, and   *)
(* refused is 0 while a search runs, so that segments added later do not   *)
(* matter.                                                                 *)
VmmInv ==
    /\ TypeOK
    /\ Disjoint
    /\ FirstFit
    /\ RefusedOnlyWhenFull
    /\ cursor # Idle => refused = 0

LEMMA CandidateIsSegment ==
    ASSUME TypeOK, cursor # Idle
    PROVE  Candidate \in Segment /\ cursor \in Nat /\ want \in Nat \ {0}
  BY DEF TypeOK, Candidate, Segment

(* Adding a segment that overlaps none keeps all segments disjoint.        *)
LEMMA AddKeepsDisjoint ==
    ASSUME segments \subseteq Segment, Disjoint, NEW s \in Segment,
           Overlapping(s) = {}, segments' = segments \cup {s}
    PROVE  segments' \subseteq Segment /\ Disjoint'
  <1>1. segments' \subseteq Segment
    OBVIOUS
  <1>2. ASSUME NEW t \in segments PROVE ~Overlap(s, t) /\ ~Overlap(t, s)
    BY DEF Overlapping, Overlap, End, Segment
  <1>3. Disjoint'
    BY <1>2 DEF Disjoint
  <1>. QED  BY <1>1, <1>3

(* One step of the search passes only places that do not fit: a candidate  *)
(* between the cursor and the end of the segment it hit would hit it too.  *)
LEMMA SkipKeepsFirstFit ==
    ASSUME TypeOK, cursor # Idle, FirstFit, NEW t \in Overlapping(Candidate),
           cursor' = End(t), want' = want, segments' = segments
    PROVE  FirstFit' /\ cursor' \in Nat /\ cursor' >= MemStart
  <1>1. t \in segments /\ t.start \in Nat /\ t.len \in Nat \ {0}
    BY DEF Overlapping, TypeOK, Segment
  <1>2. cursor \in Nat /\ want \in Nat \ {0} /\ MemStart \in Nat /\ cursor >= MemStart
    BY VirtualMemoryAssumption, CandidateIsSegment DEF TypeOK
  <1>3. cursor <= t.start + t.len - 1 /\ t.start <= cursor + want - 1
    BY <1>1, <1>2 DEF Overlapping, Overlap, End, Candidate
  <1>4. ASSUME NEW a \in MemStart..(cursor' - 1) PROVE ~Fits(a, want)'
    <2>1. a \in Int /\ a <= t.start + t.len - 1 /\ a >= MemStart
      BY <1>1, <1>2 DEF End
    <2>2. CASE a < cursor
      <3>1. ~Fits(a, want)
        BY <1>2, <2>1, <2>2 DEF FirstFit
      <3>. QED  BY <3>1 DEF Fits, Overlapping
    <2>3. CASE a >= cursor
      <3>1. Overlap([start |-> a, len |-> want], t)
        BY <1>1, <1>2, <1>3, <2>1, <2>3 DEF Overlap, End
      <3>. QED  BY <1>1, <3>1 DEF Fits, Overlapping
    <2>. QED  BY <1>2, <2>1, <2>2, <2>3
  <1>5. cursor' \in Nat /\ cursor' >= MemStart
    BY <1>1, <1>2, <1>3 DEF End
  <1>. QED  BY <1>4, <1>5 DEF FirstFit

LEMMA VmmInit == Init => VmmInv
  BY VirtualMemoryAssumption
  DEF Init, VmmInv, TypeOK, Disjoint, FirstFit, RefusedOnlyWhenFull

LEMMA VmmInductive == VmmInv /\ [Next]_vars => VmmInv'
  <1>. SUFFICES ASSUME VmmInv, [Next]_vars PROVE VmmInv'
    OBVIOUS
  <1>. USE DEF VmmInv
  <1>1. ASSUME NEW n \in Sizes, ReserveBegin(n) PROVE VmmInv'
    <2>1. TypeOK' /\ Disjoint' /\ (cursor # Idle => refused = 0)'
      BY <1>1, VirtualMemoryAssumption DEF ReserveBegin, TypeOK, Disjoint
    <2>2. FirstFit'
      BY <1>1, VirtualMemoryAssumption DEF ReserveBegin, FirstFit
    <2>3. RefusedOnlyWhenFull'
      BY <1>1 DEF ReserveBegin, RefusedOnlyWhenFull
    <2>. QED  BY <2>1, <2>2, <2>3
  <1>2. CASE ReserveSkip
    <2>1. PICK t \in Overlapping(Candidate) : cursor' = End(t)
      BY <1>2 DEF ReserveSkip
    <2>2. cursor # Idle /\ UNCHANGED <<segments, want, refused>>
      BY <1>2 DEF ReserveSkip
    <2>3. FirstFit' /\ cursor' \in Nat /\ cursor' >= MemStart
      BY <2>1, <2>2, SkipKeepsFirstFit
    <2>4. TypeOK' /\ Disjoint'
      BY <2>2, <2>3 DEF TypeOK, Disjoint
    <2>5. refused' = 0
      BY <2>2
    <2>6. RefusedOnlyWhenFull'
      BY <2>5 DEF RefusedOnlyWhenFull
    <2>. QED  BY <2>3, <2>4, <2>5, <2>6
  <1>3. CASE ReserveTake
    <2>1. cursor # Idle /\ Overlapping(Candidate) = {} /\ segments' = segments \cup {Candidate}
          /\ cursor' = Idle /\ want' = 0 /\ refused' = refused
      BY <1>3 DEF ReserveTake
    <2>2. segments' \subseteq Segment /\ Disjoint'
      BY <2>1, CandidateIsSegment, AddKeepsDisjoint DEF TypeOK
    <2>3. TypeOK'
      BY <2>1, <2>2 DEF TypeOK
    <2>4. FirstFit' /\ RefusedOnlyWhenFull'
      BY <2>1 DEF FirstFit, RefusedOnlyWhenFull
    <2>. QED  BY <2>1, <2>2, <2>3, <2>4
  <1>4. CASE ReserveRefuse
    <2>1. cursor # Idle /\ ~InRange(Candidate) /\ refused' = want /\ cursor' = Idle
          /\ want' = 0 /\ segments' = segments
      BY <1>4 DEF ReserveRefuse
    <2>2. TypeOK' /\ Disjoint' /\ FirstFit'
      BY <2>1 DEF TypeOK, Disjoint, FirstFit
    <2>3. cursor \in Nat /\ want \in Nat \ {0} /\ MemStart \in Nat /\ MemSize \in Nat
      BY <2>1, CandidateIsSegment, VirtualMemoryAssumption
    <2>4. cursor > MemStart + MemSize - want
      BY <2>1, <2>3 DEF InRange, End, Candidate
    <2>5. ASSUME NEW a \in MemStart..(MemStart + MemSize - want) PROVE ~Fits(a, want)
      BY <2>1, <2>3, <2>4 DEF FirstFit
    <2>6. RefusedOnlyWhenFull'
      BY <2>1, <2>5 DEF RefusedOnlyWhenFull, Fits, Overlapping
    <2>. QED  BY <2>1, <2>2, <2>6
  <1>5. ASSUME NEW s \in Fixed, MarkAsReserved(s) PROVE VmmInv'
    <2>1. cursor = Idle /\ Overlapping(s) = {} /\ segments' = segments \cup {s}
          /\ refused' = 0 /\ cursor' = cursor /\ want' = want
      BY <1>5 DEF MarkAsReserved
    <2>2. s \in Segment
      BY VirtualMemoryAssumption
    <2>3. segments' \subseteq Segment /\ Disjoint'
      BY <2>1, <2>2, AddKeepsDisjoint DEF TypeOK
    <2>4. TypeOK' /\ FirstFit' /\ RefusedOnlyWhenFull'
      BY <2>1, <2>3 DEF TypeOK, FirstFit, RefusedOnlyWhenFull
    <2>. QED  BY <2>1, <2>3, <2>4
  <1>6. ASSUME NEW s \in segments, Release(s) PROVE VmmInv'
    <2>1. cursor = Idle /\ segments' = segments \ {s}
          /\ refused' = 0 /\ cursor' = cursor /\ want' = want
      BY <1>6 DEF Release
    <2>2. TypeOK' /\ Disjoint' /\ FirstFit' /\ RefusedOnlyWhenFull'
      BY <2>1 DEF TypeOK, Disjoint, FirstFit, RefusedOnlyWhenFull
    <2>. QED  BY <2>1, <2>2
  <1>7. CASE UNCHANGED vars
    BY <1>7 DEF vars, TypeOK, Disjoint, FirstFit, RefusedOnlyWhenFull, Fits, Overlapping
  <1>. QED  BY <1>1, <1>2, <1>3, <1>4, <1>5, <1>6, <1>7 DEF Next

(* VmmInv holds throughout.                                                *)
THEOREM VmmInvariant == Spec => []VmmInv
  BY VmmInit, VmmInductive, PTL DEF Spec

(* No address is ever part of two reservations.                            *)
THEOREM SegmentsDisjoint == Spec => []Disjoint
  BY VmmInvariant, PTL DEF VmmInv

(* The search of reserve passes only places that do not fit.               *)
THEOREM SearchIsFirstFit == Spec => []FirstFit
  BY VmmInvariant, PTL DEF VmmInv

(* reserve returns None only when the request fits nowhere in the range.   *)
THEOREM RefusalIsJustified == Spec => []RefusedOnlyWhenFull
  BY VmmInvariant, PTL DEF VmmInv
==============================================================================
