------------------------------ MODULE ParkingLot ------------------------------
(***************************************************************************)
(* The lock-free parking lot of kernel/park/src/lib.rs at the granularity  *)
(* of its atomic accesses.  A thread that runs reserve, try_reserve, park, *)
(* unpark or wake takes one step per load, store, exchange or access to    *)
(* the unsynchronised value cell.  Tickets are linear: the sets below hold *)
(* the tickets that exist and are not being consumed, wherever their       *)
(* owners keep them.  Accesses are sequentially consistent here.           *)
(***************************************************************************)
EXTENDS Integers, FiniteSets

CONSTANTS
    Threads,        \* execution contexts that call into the lot
    Values,         \* the values parked (tasks)
    NoValue,        \* content of a never-written cell, and "no local value"
    Wakers,         \* shared waker pointers (one per Arc<AtomicPtr>)
    ParkCells,      \* ParkTicketCells
    UnparkCells,    \* UnparkTicketCells
    SegmentSlots,   \* slots per segment (64 in the code)
    MaxSegments,    \* bound on the segments allocated at a time
    MaxChain        \* bound on the length of the chain of segments

ASSUME LotAssumption ==
    /\ SegmentSlots \in Nat \ {0}
    /\ MaxSegments \in Nat \ {0}
    /\ MaxChain \in Nat
    /\ NoValue \notin Values

Segments == 1 .. MaxSegments
Head == 1           \* the segment inline in the lot
NoSegment == 0      \* a null pointer

\* A slot is named by its segment and its index there.
Slots == Segments \X (1 .. SegmentSlots)
NoSlot == <<0, 0>>

VARIABLES
    heap,           \* segments that are allocated, the inline head included
    next,           \* Segment::next: the successor of each segment in the chain
    fresh,          \* per thread: the segment it allocated and has not published
    state,          \* state of each slot
    cell,           \* raw content of each slot's value cell
    reservations,   \* slots with an unsplit Reservation
    parkTickets,    \* slots with a ParkTicket outside any cell
    unparkTickets,  \* slots with an UnparkTicket outside any cell or waker
    parkCell,       \* slot held by each ParkTicketCell, or NoSlot
    unparkCell,     \* slot held by each UnparkTicketCell, or NoSlot
    waker,          \* slot held by each shared waker pointer, or NoSlot
    outside,        \* values owned by code outside the lot
    pc, at, value,  \* per thread: the next step, its slot, its local value
    grow            \* per thread: TRUE in reserve, FALSE in try_reserve

chainVars == <<heap, next, fresh>>
lotVars == <<heap, next, fresh, state, cell>>
ticketVars == <<reservations, parkTickets, unparkTickets, parkCell, unparkCell, waker>>
threadVars == <<pc, at, value, grow>>
vars == <<lotVars, ticketVars, outside, threadVars>>

State == {"Empty", "Reserved", "Occupied", "Unparked"}
ParkPcs == {"write", "parkCas", "readBack", "parkFree"}
UnparkPcs == {"unparkCas", "read", "unparkFree"}
ScanPcs == {"load", "claimCas", "next", "append"}

Init ==
    /\ heap = {Head}
    /\ next = [g \in Segments |-> NoSegment]
    /\ fresh = [t \in Threads |-> NoSegment]
    /\ state = [s \in Slots |-> "Empty"]
    /\ cell = [s \in Slots |-> NoValue]
    /\ reservations = {} /\ parkTickets = {} /\ unparkTickets = {}
    /\ parkCell = [c \in ParkCells |-> NoSlot]
    /\ unparkCell = [c \in UnparkCells |-> NoSlot]
    /\ waker = [w \in Wakers |-> NoSlot]
    /\ outside = Values
    /\ pc = [t \in Threads |-> "idle"]
    /\ at = [t \in Threads |-> NoSlot]
    /\ value = [t \in Threads |-> NoValue]
    /\ grow = [t \in Threads |-> FALSE]

Goto(t, step, s) ==
    /\ pc' = [pc EXCEPT ![t] = step]
    /\ at' = [at EXCEPT ![t] = s]

Return(t) == Goto(t, "idle", NoSlot)

SetState(s, new) == state' = [state EXCEPT ![s] = new]

-------------------------------------------------------------------------------
(* reserve and try_reserve *)

\* Bound: a chain of MaxChain segments does not grow, and one reserve at a time
\* may scan it, so that a reserve blocked by the bound never blocks them all.
ChainFull == Cardinality({g \in Segments : next[g] # NoSegment}) + 1 >= MaxChain

ChainBound(t) == ChainFull => \A u \in Threads \ {t} : pc[u] \in ScanPcs => ~grow[u]

Reserve(t) ==
    /\ pc[t] = "idle" /\ ChainBound(t)
    /\ Goto(t, "load", <<1, 1>>)
    /\ grow' = [grow EXCEPT ![t] = TRUE]
    /\ UNCHANGED <<lotVars, ticketVars, outside, value>>

TryReserve(t) ==
    /\ pc[t] = "idle"
    /\ Goto(t, "load", <<1, 1>>)
    /\ grow' = [grow EXCEPT ![t] = FALSE]
    /\ UNCHANGED <<lotVars, ticketVars, outside, value>>

\* The scan of claim goes to the next slot of the segment, then to its successor.
Skip(t) ==
    IF at[t][2] < SegmentSlots
    THEN Goto(t, "load", <<at[t][1], at[t][2] + 1>>)
    ELSE Goto(t, "next", at[t])

ClaimLoad(t) ==
    /\ pc[t] = "load"
    /\ IF state[at[t]] # "Empty" THEN Skip(t) ELSE Goto(t, "claimCas", at[t])
    /\ UNCHANGED <<lotVars, ticketVars, outside, value, grow>>

\* Mutant: the claim stores Reserved without comparing.
ClaimStore(t) ==
    /\ pc[t] = "claimCas"
    /\ SetState(at[t], "Reserved")
    /\ reservations' = reservations \cup {at[t]}
    /\ Return(t)
    /\ UNCHANGED <<chainVars, cell, parkTickets, unparkTickets, parkCell, unparkCell,
                   waker, outside, value, grow>>

ClaimCas(t) ==
    /\ pc[t] = "claimCas"
    /\ IF state[at[t]] = "Empty"
       THEN /\ SetState(at[t], "Reserved")
            /\ reservations' = reservations \cup {at[t]}
            /\ Return(t)
       ELSE /\ Skip(t)
            /\ UNCHANGED <<state, reservations>>
    /\ UNCHANGED <<chainVars, cell, parkTickets, unparkTickets, parkCell, unparkCell,
                   waker, outside, value, grow>>

\* The successor is loaded.  Where there is none try_reserve gives up, and
\* reserve allocates a segment; which address it gets makes no difference.
NextSegment(t) ==
    LET successor == next[at[t][1]] IN
    /\ pc[t] = "next"
    /\ \/ /\ successor # NoSegment
          /\ Goto(t, "load", <<successor, 1>>)
          /\ UNCHANGED <<heap, fresh>>
       \/ /\ successor = NoSegment /\ ~grow[t]
          /\ Return(t)
          /\ UNCHANGED <<heap, fresh>>
       \/ /\ successor = NoSegment /\ grow[t] /\ ~ChainFull
          /\ \E g \in Segments \ heap :
                /\ heap' = heap \cup {g}
                /\ fresh' = [fresh EXCEPT ![t] = g]
          /\ Goto(t, "append", at[t])
    /\ UNCHANGED <<next, state, cell, ticketVars, outside, value, grow>>

\* Mutant: the new segment is stored without comparing.
AppendStores(t) ==
    /\ pc[t] = "append"
    /\ next' = [next EXCEPT ![at[t][1]] = fresh[t]]
    /\ Goto(t, "load", <<fresh[t], 1>>)
    /\ fresh' = [fresh EXCEPT ![t] = NoSegment]
    /\ UNCHANGED <<heap, state, cell, ticketVars, outside, value, grow>>

\* The exchange publishes the new segment, or its loser frees it and follows
\* the winner's.
Append(t) ==
    LET successor == next[at[t][1]] IN
    /\ pc[t] = "append"
    /\ \/ /\ successor = NoSegment
          /\ next' = [next EXCEPT ![at[t][1]] = fresh[t]]
          /\ Goto(t, "load", <<fresh[t], 1>>)
          /\ UNCHANGED heap
       \/ /\ successor # NoSegment
          /\ heap' = heap \ {fresh[t]}
          /\ Goto(t, "load", <<successor, 1>>)
          /\ UNCHANGED next
    /\ fresh' = [fresh EXCEPT ![t] = NoSegment]
    /\ UNCHANGED <<state, cell, ticketVars, outside, value, grow>>

-------------------------------------------------------------------------------
(* Reservations, tickets, cells and wakers: one atomic access each *)

Split(s) ==
    /\ s \in reservations
    /\ reservations' = reservations \ {s}
    /\ parkTickets' = parkTickets \cup {s}
    /\ unparkTickets' = unparkTickets \cup {s}
    /\ UNCHANGED <<lotVars, parkCell, unparkCell, waker, outside, threadVars>>

\* Mutant: release forgets to return the slot to Empty.
ReleaseLeaks(s) ==
    /\ s \in reservations
    /\ reservations' = reservations \ {s}
    /\ UNCHANGED <<lotVars, parkTickets, unparkTickets, parkCell, unparkCell, waker,
                   outside, threadVars>>

Release(s) ==
    /\ s \in reservations
    /\ reservations' = reservations \ {s}
    /\ SetState(s, "Empty")
    /\ UNCHANGED <<chainVars, cell, parkTickets, unparkTickets, parkCell, unparkCell,
                   waker, outside, threadVars>>

IntoWaker(s, w) ==
    /\ s \in unparkTickets /\ waker[w] = NoSlot
    /\ unparkTickets' = unparkTickets \ {s}
    /\ waker' = [waker EXCEPT ![w] = s]
    /\ UNCHANGED <<lotVars, reservations, parkTickets, parkCell, unparkCell, outside,
                   threadVars>>

\* An occupied cell hands the ticket back, which changes nothing.
ParkCellPut(c, s) ==
    /\ s \in parkTickets /\ parkCell[c] = NoSlot
    /\ parkTickets' = parkTickets \ {s}
    /\ parkCell' = [parkCell EXCEPT ![c] = s]
    /\ UNCHANGED <<lotVars, reservations, unparkTickets, unparkCell, waker, outside,
                   threadVars>>

ParkCellPutReservation(c, s) ==
    /\ s \in reservations /\ parkCell[c] = NoSlot
    /\ reservations' = reservations \ {s}
    /\ parkCell' = [parkCell EXCEPT ![c] = s]
    /\ unparkTickets' = unparkTickets \cup {s}
    /\ UNCHANGED <<lotVars, parkTickets, unparkCell, waker, outside, threadVars>>

ParkCellTake(c) ==
    /\ parkCell[c] # NoSlot
    /\ parkTickets' = parkTickets \cup {parkCell[c]}
    /\ parkCell' = [parkCell EXCEPT ![c] = NoSlot]
    /\ UNCHANGED <<lotVars, reservations, unparkTickets, unparkCell, waker, outside,
                   threadVars>>

UnparkCellPutReservation(c, s) ==
    /\ s \in reservations /\ unparkCell[c] = NoSlot
    /\ reservations' = reservations \ {s}
    /\ unparkCell' = [unparkCell EXCEPT ![c] = s]
    /\ parkTickets' = parkTickets \cup {s}
    /\ UNCHANGED <<lotVars, unparkTickets, parkCell, waker, outside, threadVars>>

UnparkCellTake(c) ==
    /\ unparkCell[c] # NoSlot
    /\ unparkTickets' = unparkTickets \cup {unparkCell[c]}
    /\ unparkCell' = [unparkCell EXCEPT ![c] = NoSlot]
    /\ UNCHANGED <<lotVars, reservations, parkTickets, parkCell, waker, outside,
                   threadVars>>

-------------------------------------------------------------------------------
(* ParkTicket::park *)

Park(t, s, v) ==
    /\ pc[t] = "idle" /\ s \in parkTickets /\ v \in outside
    /\ parkTickets' = parkTickets \ {s}
    /\ outside' = outside \ {v}
    /\ value' = [value EXCEPT ![t] = v]
    /\ Goto(t, "write", s)
    /\ UNCHANGED <<lotVars, reservations, unparkTickets, parkCell, unparkCell, waker, grow>>

ParkWrite(t) ==
    /\ pc[t] = "write"
    /\ cell' = [cell EXCEPT ![at[t]] = value[t]]
    /\ value' = [value EXCEPT ![t] = NoValue]
    /\ Goto(t, "parkCas", at[t])
    /\ UNCHANGED <<chainVars, state, ticketVars, outside, grow>>

ParkCas(t) ==
    /\ pc[t] = "parkCas"
    /\ IF state[at[t]] = "Reserved"
       THEN SetState(at[t], "Occupied") /\ Return(t)
       ELSE Goto(t, "readBack", at[t]) /\ UNCHANGED state
    /\ UNCHANGED <<chainVars, cell, ticketVars, outside, value, grow>>

\* The unpark side ran first: park takes its own write back ...
ParkReadBack(t) ==
    /\ pc[t] = "readBack"
    /\ value' = [value EXCEPT ![t] = cell[at[t]]]
    /\ Goto(t, "parkFree", at[t])
    /\ UNCHANGED <<lotVars, ticketVars, outside, grow>>

\* ... and returns the value in ParkError::Unparked, the slot Empty.
ParkFree(t) ==
    /\ pc[t] = "parkFree"
    /\ SetState(at[t], "Empty")
    /\ outside' = outside \cup {value[t]}
    /\ value' = [value EXCEPT ![t] = NoValue]
    /\ Return(t)
    /\ UNCHANGED <<chainVars, cell, ticketVars, grow>>

-------------------------------------------------------------------------------
(* UnparkTicket::unpark and Waker::wake *)

Unpark(t, s) ==
    /\ pc[t] = "idle" /\ s \in unparkTickets
    /\ unparkTickets' = unparkTickets \ {s}
    /\ Goto(t, "unparkCas", s)
    /\ UNCHANGED <<lotVars, reservations, parkTickets, parkCell, unparkCell, waker,
                   outside, value, grow>>

\* Mutant: wake loads the shared pointer where the code swaps it for null.
WakeLoads(t, w) ==
    /\ pc[t] = "idle" /\ waker[w] # NoSlot
    /\ Goto(t, "unparkCas", waker[w])
    /\ UNCHANGED <<lotVars, ticketVars, outside, value, grow>>

\* A clone that finds the pointer null returns None and changes nothing.
Wake(t, w) ==
    /\ pc[t] = "idle" /\ waker[w] # NoSlot
    /\ waker' = [waker EXCEPT ![w] = NoSlot]
    /\ Goto(t, "unparkCas", waker[w])
    /\ UNCHANGED <<lotVars, reservations, parkTickets, unparkTickets, parkCell, unparkCell,
                   outside, value, grow>>

\* Mutant: unpark frees the slot where the code marks it Unparked.
UnparkCasFrees(t) ==
    /\ pc[t] = "unparkCas"
    /\ IF state[at[t]] = "Reserved"
       THEN SetState(at[t], "Empty") /\ Return(t)
       ELSE Goto(t, "read", at[t]) /\ UNCHANGED state
    /\ UNCHANGED <<chainVars, cell, ticketVars, outside, value, grow>>

UnparkCas(t) ==
    /\ pc[t] = "unparkCas"
    /\ IF state[at[t]] = "Reserved"
       THEN SetState(at[t], "Unparked") /\ Return(t)
       ELSE Goto(t, "read", at[t]) /\ UNCHANGED state
    /\ UNCHANGED <<chainVars, cell, ticketVars, outside, value, grow>>

\* Mutant: the slot is freed before the value is read out of it.
UnparkReadFreesFirst(t) ==
    /\ pc[t] = "read"
    /\ SetState(at[t], "Empty")
    /\ value' = [value EXCEPT ![t] = cell[at[t]]]
    /\ Goto(t, "unparkFree", at[t])
    /\ UNCHANGED <<chainVars, cell, ticketVars, outside, grow>>

UnparkRead(t) ==
    /\ pc[t] = "read"
    /\ value' = [value EXCEPT ![t] = cell[at[t]]]
    /\ Goto(t, "unparkFree", at[t])
    /\ UNCHANGED <<lotVars, ticketVars, outside, grow>>

UnparkFree(t) ==
    /\ pc[t] = "unparkFree"
    /\ SetState(at[t], "Empty")
    /\ outside' = outside \cup {value[t]}
    /\ value' = [value EXCEPT ![t] = NoValue]
    /\ Return(t)
    /\ UNCHANGED <<chainVars, cell, ticketVars, grow>>

-------------------------------------------------------------------------------

ThreadStep(t) ==
    \/ Reserve(t) \/ TryReserve(t) \/ ClaimLoad(t) \/ ClaimCas(t)
    \/ NextSegment(t) \/ Append(t)
    \/ ParkWrite(t) \/ ParkCas(t) \/ ParkReadBack(t) \/ ParkFree(t)
    \/ UnparkCas(t) \/ UnparkRead(t) \/ UnparkFree(t)

TicketStep(s) ==
    \/ Split(s) \/ Release(s)
    \/ \E w \in Wakers : IntoWaker(s, w)
    \/ \E c \in ParkCells : ParkCellPut(c, s) \/ ParkCellPutReservation(c, s)
    \/ \E c \in UnparkCells : UnparkCellPutReservation(c, s)
    \/ \E t \in Threads : Unpark(t, s) \/ \E v \in Values : Park(t, s, v)

Next ==
    \/ \E t \in Threads : ThreadStep(t) \/ \E w \in Wakers : Wake(t, w)
    \/ \E s \in Slots : TicketStep(s)
    \/ \E c \in ParkCells : ParkCellTake(c)
    \/ \E c \in UnparkCells : UnparkCellTake(c)

Spec == Init /\ [][Next]_vars

-------------------------------------------------------------------------------
(* Properties *)

\* Every variable has its type; a thread inside the lot stands at a slot, and
\* holds a segment of its own while it appends.
TypeOK ==
    /\ heap \subseteq Segments
    /\ next \in [Segments -> Segments \cup {NoSegment}]
    /\ fresh \in [Threads -> Segments \cup {NoSegment}]
    /\ state \in [Slots -> State]
    /\ cell \in [Slots -> Values \cup {NoValue}]
    /\ reservations \subseteq Slots
    /\ parkTickets \subseteq Slots
    /\ unparkTickets \subseteq Slots
    /\ parkCell \in [ParkCells -> Slots \cup {NoSlot}]
    /\ unparkCell \in [UnparkCells -> Slots \cup {NoSlot}]
    /\ waker \in [Wakers -> Slots \cup {NoSlot}]
    /\ outside \subseteq Values
    /\ pc \in [Threads -> {"idle"} \cup ScanPcs \cup ParkPcs \cup UnparkPcs]
    /\ at \in [Threads -> Slots \cup {NoSlot}]
    /\ value \in [Threads -> Values \cup {NoValue}]
    /\ grow \in [Threads -> BOOLEAN]
    /\ \A t \in Threads : at[t] = NoSlot <=> pc[t] = "idle"
    /\ \A t \in Threads : fresh[t] # NoSegment <=> pc[t] = "append"

Parking(t, s) == pc[t] \in ParkPcs /\ at[t] = s
Unparking(t, s) == pc[t] \in UnparkPcs /\ at[t] = s

ParkRight(s) ==
    \/ s \in reservations \cup parkTickets
    \/ \E c \in ParkCells : parkCell[c] = s
    \/ \E t \in Threads : Parking(t, s)

UnparkRight(s) ==
    \/ s \in reservations \cup unparkTickets
    \/ \E c \in UnparkCells : unparkCell[c] = s
    \/ \E w \in Wakers : waker[w] = s
    \/ \E t \in Threads : Unparking(t, s)

\* The comments on Reservation, ParkTicket and Waker: every right to park in or
\* to unpark a slot has one holder ("a second park is unrepresentable",
\* "exactly one clone gets to unpark the slot").
RightsAreUnique ==
    /\ reservations \cap (parkTickets \cup unparkTickets) = {}
    /\ \A c \in ParkCells : parkCell[c] \notin reservations \cup parkTickets
    /\ \A c, d \in ParkCells : parkCell[c] = parkCell[d] /\ c # d => parkCell[c] = NoSlot
    /\ \A t \in Threads : pc[t] \in ParkPcs =>
          /\ at[t] \notin reservations \cup parkTickets
          /\ \A c \in ParkCells : parkCell[c] # at[t]
          /\ \A u \in Threads \ {t} : ~Parking(u, at[t])
    /\ \A c \in UnparkCells : unparkCell[c] \notin reservations \cup unparkTickets
    /\ \A w \in Wakers : waker[w] \notin reservations \cup unparkTickets
    /\ \A c, d \in UnparkCells : unparkCell[c] = unparkCell[d] /\ c # d => unparkCell[c] = NoSlot
    /\ \A w, x \in Wakers : waker[w] = waker[x] /\ w # x => waker[w] = NoSlot
    /\ \A c \in UnparkCells, w \in Wakers : unparkCell[c] = waker[w] => waker[w] = NoSlot
    /\ \A t \in Threads : pc[t] \in UnparkPcs =>
          /\ at[t] \notin reservations \cup unparkTickets
          /\ \A c \in UnparkCells : unparkCell[c] # at[t]
          /\ \A w \in Wakers : waker[w] # at[t]
          /\ \A u \in Threads \ {t} : ~Unparking(u, at[t])

\* The safety comments of park and unpark: "the slot is Reserved or Unparked"
\* while a park right exists, "the state can only be Reserved or Occupied"
\* while an unpark right exists, so one exchange with no retry decides the race.
TicketsMatchState ==
    \A s \in Slots :
        /\ ParkRight(s) => state[s] \in {"Reserved", "Unparked"}
        /\ UnparkRight(s) => state[s] \in {"Reserved", "Occupied"}
        /\ s \in reservations => state[s] = "Reserved"

\* No slot leaks: while a slot is in use, whoever can still free it exists.
NoSlotLeak ==
    \A s \in Slots :
        /\ state[s] = "Reserved" => ParkRight(s) /\ UnparkRight(s)
        /\ state[s] = "Occupied" => UnparkRight(s)
        /\ state[s] = "Unparked" => ParkRight(s)

Published(g) == g = Head \/ \E p \in heap : next[p] = g

\* The safety comments of next_or_append: "`fresh` was never published, so this
\* is the only pointer to that allocation", and nothing frees a published
\* segment.  When two threads append at once, an allocated segment is linked
\* behind one predecessor or in the hands of one thread, never both or neither;
\* slots in use and slots a thread stands at lie in linked, allocated segments.
SegmentsOwnedOnce ==
    /\ Head \in heap
    /\ \A g \in heap : Published(g) <=> \A t \in Threads : fresh[t] # g
    /\ \A g \in Segments : next[g] # NoSegment => {g, next[g]} \subseteq heap /\ next[g] # Head
    /\ \A g, h \in Segments : next[g] = next[h] /\ g # h => next[g] = NoSegment
    /\ \A t \in Threads : fresh[t] # NoSegment => fresh[t] \in heap /\ next[fresh[t]] = NoSegment
    /\ \A t, u \in Threads : fresh[t] = fresh[u] /\ t # u => fresh[t] = NoSegment
    /\ \A t \in Threads : at[t] # NoSlot => at[t][1] \in heap /\ Published(at[t][1])
    /\ \A s \in Slots : state[s] # "Empty" => s[1] \in heap /\ Published(s[1])

\* The comment on `unsafe impl Sync for Slot`: the unsynchronised cell is
\* never accessed by two threads at a time when one of them writes it.
CellRaceFree ==
    \A t, u \in Threads :
        (t # u /\ pc[t] = "write" /\ pc[u] \in {"write", "readBack", "read"})
            => at[t] # at[u]

\* The content of a slot's cell is owned by the lot, or by a park under way.
CellOwned(s) ==
    \/ state[s] = "Occupied" /\ \A t \in Threads : ~(pc[t] = "unparkFree" /\ at[t] = s)
    \/ \E t \in Threads : pc[t] \in {"parkCas", "readBack"} /\ at[t] = s

Owners(v) ==
    {<<"outside", 0>> : x \in outside \cap {v}}
    \cup {<<"thread", t>> : t \in {u \in Threads : value[u] = v}}
    \cup {<<"slot", s>> : s \in {r \in Slots : CellOwned(r) /\ cell[r] = v}}

\* A parked value is neither lost nor duplicated: at every moment exactly one
\* of the caller, a thread inside park or unpark, and a slot owns it.
ExactlyOneOwner == \A v \in Values : Cardinality(Owners(v)) = 1

\* The rendezvous a slot's state stands for.
PhaseOf(st) ==
    CASE st = "Empty" -> "idle" [] st = "Reserved" -> "open"
      [] st = "Occupied" -> "parked" [] st = "Unparked" -> "fired"

Phase == [s \in Slots |-> PhaseOf(state[s])]
Occupant == [s \in Slots |-> IF state[s] = "Occupied" THEN cell[s] ELSE NoValue]
Promise == INSTANCE Handoff WITH phase <- Phase, occupant <- Occupant

\* The lot implements the hand-off: a slot's state only ever follows the
\* rendezvous, with a value deposited in at most one slot and collected once.
ImplementsHandoff == Promise!Spec
===============================================================================
