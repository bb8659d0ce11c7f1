---------------------------- MODULE VirtualMemory ----------------------------
(***************************************************************************)
(* The first-fit allocator of address ranges (kernel/virtual_memory), one  *)
(* of which serves the kernel's half and one each process.  Callers hold   *)
(* the allocator's write lock for a whole call; the search of reserve is   *)
(* modelled step by step all the same, so that its loop invariant can be   *)
(* stated.  Addresses are counted in pages.                                *)
(***************************************************************************)
EXTENDS Integers

CONSTANTS
    MemStart,   \* mem_start, where reserve begins to search
    MemSize,    \* mem_size
    Sizes,      \* the lengths callers ask for
    Fixed,      \* the segments callers ask for at a fixed address
    Idle        \* no reserve is searching

Segment == [start : Nat, len : Nat \ {0}]

ASSUME VirtualMemoryAssumption ==
    /\ MemStart \in Nat /\ MemSize \in Nat \ {0}
    /\ Sizes \subseteq Nat
    /\ Fixed \subseteq Segment
    /\ Idle \notin Nat

VARIABLES
    segments,   \* the reserved segments
    cursor,     \* where the candidate of the running reserve starts
    want,       \* its length
    refused     \* the length of a reserve that has just returned None, or 0

vars == <<segments, cursor, want, refused>>

End(s) == s.start + s.len

Overlap(s, t) == s.start <= End(t) - 1 /\ t.start <= End(s) - 1

Overlapping(s) == {t \in segments : Overlap(s, t)}

Candidate == [start |-> cursor, len |-> want]

(* Mutant: the check against the end of the range is off by one.           *)
InRangeStrict(s) == End(s) - 1 < MemStart + (MemSize - 1)

(* The candidate ends inside the managed range.                            *)
InRange(s) == End(s) - 1 <= MemStart + (MemSize - 1)

Init ==
    /\ segments = {}
    /\ cursor = Idle
    /\ want = 0
    /\ refused = 0

(* Mutant: a request for nothing is searched for.                          *)
ReserveBeginZero(n) ==
    /\ cursor = Idle
    /\ cursor' = MemStart
    /\ want' = n
    /\ refused' = 0
    /\ UNCHANGED segments

(* reserve(n) begins at the start of the range; nothing is reserved for 0. *)
ReserveBegin(n) ==
    /\ cursor = Idle /\ n # 0
    /\ cursor' = MemStart
    /\ want' = n
    /\ refused' = 0
    /\ UNCHANGED segments

(* Mutant: the search moves on by the candidate's length.                  *)
ReserveSkipWant ==
    /\ cursor # Idle
    /\ Overlapping(Candidate) # {}
    /\ cursor' = cursor + want
    /\ UNCHANGED <<segments, want, refused>>

(* Mutant: the overlapping segment is found but the candidate not moved.   *)
ReserveSkipStuck ==
    /\ cursor # Idle
    /\ Overlapping(Candidate) # {}
    /\ UNCHANGED vars

(* The first overlapping segment in the order of the tree is the one with  *)
(* the lowest start; the candidate moves behind it.                        *)
ReserveSkip ==
    /\ cursor # Idle
    /\ \E t \in Overlapping(Candidate) :
         /\ \A u \in Overlapping(Candidate) : t.start <= u.start
         /\ cursor' = End(t)
    /\ UNCHANGED <<segments, want, refused>>

ReserveTake ==
    /\ cursor # Idle
    /\ Overlapping(Candidate) = {}
    /\ InRange(Candidate)
    /\ segments' = segments \cup {Candidate}
    /\ cursor' = Idle /\ want' = 0
    /\ UNCHANGED refused

ReserveRefuse ==
    /\ cursor # Idle
    /\ Overlapping(Candidate) = {}
    /\ ~InRange(Candidate)
    /\ refused' = want
    /\ cursor' = Idle /\ want' = 0
    /\ UNCHANGED segments

(* Mutant: a fixed reservation looks only for a segment at its start.      *)
MarkAsReservedByStart(s) ==
    /\ cursor = Idle
    /\ \A t \in segments : ~(t.start <= s.start /\ s.start <= End(t) - 1)
    /\ segments' = segments \cup {s}
    /\ refused' = 0
    /\ UNCHANGED <<cursor, want>>

(* mark_as_reserved; a segment that overlaps is refused without effect.    *)
(* The segment need not lie in the managed range: fixed images lie below.  *)
MarkAsReserved(s) ==
    /\ cursor = Idle
    /\ Overlapping(s) = {}
    /\ segments' = segments \cup {s}
    /\ refused' = 0
    /\ UNCHANGED <<cursor, want>>

(* release, when the owner of a segment drops it.                          *)
Release(s) ==
    /\ cursor = Idle
    /\ segments' = segments \ {s}
    /\ refused' = 0
    /\ UNCHANGED <<cursor, want>>

Next ==
    \/ \E n \in Sizes : ReserveBegin(n)
    \/ ReserveSkip \/ ReserveTake \/ ReserveRefuse
    \/ \E s \in Fixed : MarkAsReserved(s)
    \/ \E s \in segments : Release(s)

Spec == Init /\ [][Next]_vars

(* A call of reserve goes on until it returns.                             *)
FairSpec == Spec /\ WF_vars(ReserveSkip \/ ReserveTake \/ ReserveRefuse)

------------------------------------------------------------------------------
TypeOK ==
    /\ segments \subseteq Segment
    /\ cursor \in Nat \cup {Idle}
    /\ want \in Nat
    /\ cursor # Idle => cursor >= MemStart /\ want > 0
    /\ refused \in Nat

(* No address belongs to two reservations, whether they were placed by     *)
(* reserve or fixed by mark_as_reserved.                                   *)
Disjoint == \A s, t \in segments : s # t => ~Overlap(s, t)

Fits(a, n) == Overlapping([start |-> a, len |-> n]) = {}

(* The search of reserve skips no place where the candidate would fit: it  *)
(* returns the lowest one.                                                 *)
FirstFit == cursor # Idle => \A a \in MemStart..(cursor - 1) : ~Fits(a, want)

(* reserve returns None only when the segment fits nowhere in the range.   *)
RefusedOnlyWhenFull ==
    refused # 0 =>
        \A a \in MemStart..(MemStart + MemSize - refused) : ~Fits(a, refused)

(* reserve returns: every skip moves the candidate behind another segment. *)
ReserveReturns == (cursor # Idle) ~> (cursor = Idle)
==============================================================================
