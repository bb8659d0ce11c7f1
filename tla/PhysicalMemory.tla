---------------------------- MODULE PhysicalMemory ---------------------------
(***************************************************************************)
(* The physical frame allocator: the bump allocator of early boot          *)
(* (mem/phys.rs), the switch to stage 2, and the sparse frame table with   *)
(* its first_free hint (kernel/physical_memory).  Every call runs under    *)
(* the allocator's lock and is one step.  Frames are numbered by their     *)
(* physical address in units of 4 KiB.  The regions are sorted and do not  *)
(* overlap, so the order of (region, index) is the order of the numbers.   *)
(***************************************************************************)
EXTENDS Integers, FiniteSets

CONSTANTS
    Regions,    \* the usable regions of the memory map: <<[base, len], ...>>
    PageSizes,  \* the page sizes, in 4 KiB frames
    Counts,     \* the numbers of pages callers ask for
    NoFrame     \* first_free is None

VARIABLES
    stage,      \* which allocator is active
    nextFrame,  \* PhysicalBumpAllocator::next_frame
    frames,     \* the FrameState of every frame
    firstFree,  \* the hint of the frame table
    owned,      \* the ranges callers hold: [start, count, size], in 4 KiB frames
    failed      \* [n, size] of an allocation that has just returned None

vars == <<stage, nextFrame, frames, firstFree, owned, failed>>

RegionIdx == DOMAIN Regions
RegionFrames(r) == Regions[r].base..(Regions[r].base + Regions[r].len - 1)
Frames == UNION {RegionFrames(r) : r \in RegionIdx}
RegionOf(f) == CHOOSE r \in RegionIdx : f \in RegionFrames(r)

ASSUME PhysicalMemoryAssumption ==
    /\ \A r \in RegionIdx : Regions[r].base \in Nat /\ Regions[r].len \in Nat \ {0}
    /\ \A r \in RegionIdx \ {1} : Regions[r - 1].base + Regions[r - 1].len <= Regions[r].base
    /\ PageSizes \subseteq Nat \ {0} /\ Counts \subseteq Nat \ {0}
    /\ NoFrame \notin Nat

NoFailure == [n |-> 0, size |-> 0]

RangeOf(o) == o.start..(o.start + o.count - 1)

FreeIn(fs) == {f \in Frames : fs[f] = "free"}

Least(S) == IF S = {} THEN NoFrame ELSE CHOOSE f \in S : \A g \in S : f <= g

------------------------------------------------------------------------------
(* Stage 1.                                                                *)

(* usable_frames: the range of a region runs from its base to its LENGTH,  *)
(* not to its end.                                                         *)
UsableFrames == UNION {Regions[r].base..(Regions[r].len - 1) : r \in RegionIdx}

(* How many items the iterator yields before f.                            *)
UsableBefore(f) == Cardinality({g \in UsableFrames : g < f})

Init ==
    /\ stage = 1
    /\ nextFrame = 0
    /\ frames = [f \in Frames |-> "free"]
    /\ firstFree = NoFrame
    /\ owned = {}
    /\ failed = NoFailure

(* Mutant: next_frame advances although no frame is left.                  *)
BumpAllocateCounts ==
    /\ stage = 1
    /\ \/ \E f \in UsableFrames :
            /\ UsableBefore(f) = nextFrame
            /\ owned' = owned \cup {[start |-> f, count |-> 1, size |-> 1]}
            /\ nextFrame' = nextFrame + 1
            /\ failed' = NoFailure
       \/ /\ \A f \in UsableFrames : UsableBefore(f) # nextFrame
          /\ failed' = [n |-> 1, size |-> 1]
          /\ nextFrame' = nextFrame + 1
          /\ UNCHANGED owned
    /\ UNCHANGED <<stage, frames, firstFree>>

BumpAllocate ==
    /\ stage = 1
    /\ \/ \E f \in UsableFrames :
            /\ UsableBefore(f) = nextFrame
            /\ owned' = owned \cup {[start |-> f, count |-> 1, size |-> 1]}
            /\ nextFrame' = nextFrame + 1
            /\ failed' = NoFailure
       \/ /\ \A f \in UsableFrames : UsableBefore(f) # nextFrame
          /\ failed' = [n |-> 1, size |-> 1]
          /\ UNCHANGED <<owned, nextFrame>>
    /\ UNCHANGED <<stage, frames, firstFree>>

(* Mutant: stage 2 starts with every frame free.                           *)
InitStage2Fresh ==
    /\ stage = 1
    /\ stage' = 2
    /\ frames' = [f \in Frames |-> "free"]
    /\ firstFree' = Least(FreeIn(frames'))
    /\ failed' = NoFailure
    /\ UNCHANGED <<nextFrame, owned>>

(* init_stage2 marks what stage 1 handed out and computes the hint.        *)
InitStage2 ==
    /\ stage = 1
    /\ stage' = 2
    /\ frames' = [f \in Frames |->
                    IF f \in UsableFrames /\ UsableBefore(f) < nextFrame
                    THEN "allocated" ELSE "free"]
    /\ firstFree' = Least(FreeIn(frames'))
    /\ failed' = NoFailure
    /\ UNCHANGED <<nextFrame, owned>>

------------------------------------------------------------------------------
(* Stage 2.                                                                *)

(* Where the search begins in region r: at the hint in the hint's region,  *)
(* at 0 in the later ones.                                                 *)
SearchStart(r) ==
    IF r = RegionOf(firstFree) THEN firstFree - Regions[r].base ELSE 0

(* Mutant: the index is aligned, not the address.                          *)
AlignedStartByIndex(r, size) ==
    LET i == SearchStart(r) IN i + ((size - (i % size)) % size)

(* search_start moved up to the next index whose address is aligned.       *)
AlignedStart(r, size) ==
    LET misalignment == (Regions[r].base + SearchStart(r)) % size IN
    IF misalignment = 0 THEN SearchStart(r) ELSE SearchStart(r) + (size - misalignment)

(* Mutant: the last run of a region is not tried.                          *)
FitsStrict(r, i, count) == i + count < Regions[r].len

Fits(r, i, count) == i + count <= Regions[r].len

(* The first frames of the free runs that the loops of                     *)
(* allocate_frames_impl would accept.                                      *)
Starts(n, size) ==
    IF firstFree = NoFrame THEN {} ELSE
    UNION {{Regions[r].base + i : i \in
              {i \in AlignedStart(r, size)..(Regions[r].len - 1) :
                 /\ (i - AlignedStart(r, size)) % size = 0
                 /\ Fits(r, i, n * size)
                 /\ \A k \in i..(i + n * size - 1) : frames[Regions[r].base + k] = "free"}} :
           r \in {r \in RegionIdx : r >= RegionOf(firstFree)}}

(* update_first_free is called only when the allocation took the hint.     *)
HintAfter(a, count, fs) ==
    IF RegionOf(a) = RegionOf(firstFree) /\ a <= firstFree
    THEN Least({f \in FreeIn(fs) : f >= a + count}) ELSE firstFree

Allocate(n, size) ==
    /\ stage = 2
    /\ Starts(n, size) # {}
    /\ LET a == Least(Starts(n, size)) IN
       /\ frames' = [f \in Frames |-> IF f \in a..(a + n * size - 1)
                                      THEN "allocated" ELSE frames[f]]
       /\ firstFree' = HintAfter(a, n * size, frames')
       /\ owned' = owned \cup {[start |-> a, count |-> n * size, size |-> size]}
    /\ failed' = NoFailure
    /\ UNCHANGED <<stage, nextFrame>>

AllocateFails(n, size) ==
    /\ stage = 2
    /\ Starts(n, size) = {}
    /\ failed' = [n |-> n, size |-> size]
    /\ UNCHANGED <<stage, nextFrame, frames, firstFree, owned>>

(* Mutant: freeing below the hint does not move it.                        *)
HintBackKeeps(f) == IF firstFree = NoFrame THEN f ELSE firstFree

(* deallocate_frame moves the hint back to a frame below it.               *)
HintBack(f) == IF firstFree = NoFrame \/ f < firstFree THEN f ELSE firstFree

(* The owner of a range drops it: frame by frame from the start, up to the *)
(* first that is not allocated.                                            *)
Deallocate(o) ==
    /\ stage = 2 /\ o \in owned
    /\ LET freed == {f \in RangeOf(o) :
                       \A g \in o.start..f : g \in Frames /\ frames[g] = "allocated"} IN
       /\ frames' = [f \in Frames |-> IF f \in freed THEN "free" ELSE frames[f]]
       /\ firstFree' = IF freed = {} THEN firstFree ELSE HintBack(Least(freed))
    /\ owned' = owned \ {o}
    /\ failed' = NoFailure
    /\ UNCHANGED <<stage, nextFrame>>

Next ==
    \/ BumpAllocate \/ InitStage2
    \/ \E n \in Counts, size \in PageSizes : Allocate(n, size) \/ AllocateFails(n, size)
    \/ \E o \in owned : Deallocate(o)

Spec == Init /\ [][Next]_vars

------------------------------------------------------------------------------
TypeOK ==
    /\ stage \in {1, 2}
    /\ nextFrame \in 0..Cardinality(UsableFrames)
    /\ frames \in [Frames -> {"free", "allocated"}]
    /\ firstFree \in Frames \cup {NoFrame}
    /\ \A o \in owned : RangeOf(o) \subseteq Frames
    /\ failed.n \in Nat /\ failed.size \in Nat

(* No frame has two owners, and the frame table knows exactly the owned    *)
(* frames as allocated: none is handed out twice, none is lost, across the *)
(* switch from stage 1 to stage 2 too.                                     *)
OwnedOnce ==
    /\ \A o, p \in owned : o # p => RangeOf(o) \cap RangeOf(p) = {}
    /\ stage = 2 => {f \in Frames : frames[f] = "allocated"} = UNION {RangeOf(o) : o \in owned}

(* A range lies in one region and is aligned to its page size by physical  *)
(* address, although the search counts frames from the region's base.      *)
RangesPlaced ==
    \A o \in owned :
        /\ o.start % o.size = 0
        /\ \E r \in RegionIdx : RangeOf(o) \subseteq RegionFrames(r)

(* The hint is the lowest free frame, after any history of allocations of  *)
(* all page sizes and of frees in any order.                               *)
HintExact == stage = 2 => firstFree = Least(FreeIn(frames))

(* In stage 2 an allocation fails only when no region has an aligned free  *)
(* run of that length, wherever the hint points.  Stage 1 gives up early.  *)
FailsOnlyWhenFull ==
    stage = 2 /\ failed # NoFailure =>
        ~\E r \in RegionIdx : \E a \in RegionFrames(r) :
            /\ a % failed.size = 0
            /\ a..(a + failed.n * failed.size - 1)
                 \subseteq {f \in RegionFrames(r) : frames[f] = "free"}
==============================================================================
