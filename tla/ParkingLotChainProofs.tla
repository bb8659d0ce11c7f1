------------------------ MODULE ParkingLotChainProofs ------------------------
(***************************************************************************)
(* The chain of segments of ParkingLot: appends by any number of threads   *)
(* at once neither leak a segment nor publish or free one twice.  The      *)
(* argument uses the invariant of ParkingLotProofs: a slot somebody holds  *)
(* a right to is not Empty, so it lies in a linked segment.                *)
(***************************************************************************)
EXTENDS ParkingLotProofs

Linked(g) == g \in heap /\ Published(g)

\* A step that leaves the chain alone keeps its invariant when threads only go
\* to slots of linked segments and slots are only claimed in linked segments.
LEMMA ChainQuiet ==
    ASSUME SegmentsOwnedOnce, UNCHANGED chainVars,
           \A t \in Threads : at'[t] # NoSlot => at'[t] = at[t] \/ Linked(at'[t][1]),
           \A s \in Slots : state'[s] # "Empty" => state[s] # "Empty" \/ Linked(s[1])
    PROVE  SegmentsOwnedOnce'
<1>1. \A g : Published(g)' <=> Published(g)
  BY DEF Published, chainVars
<1>2. heap' = heap /\ next' = next /\ fresh' = fresh
  BY DEF chainVars
<1> QED
  BY <1>1, <1>2 DEF SegmentsOwnedOnce, Linked

\* Whoever holds a ticket, a cell or a waker of a slot finds it in a linked
\* segment, and so does a thread that stands at it.
LEMMA HeldLinked ==
    ASSUME IInv, SegmentsOwnedOnce
    PROVE  /\ \A s \in Slots : ParkRight(s) \/ UnparkRight(s) => Linked(s[1])
           /\ \A t \in Threads : at[t] \in Slots => Linked(at[t][1])
           /\ Linked(Head)
<1>1. \A s \in Slots : ParkRight(s) \/ UnparkRight(s) => state[s] # "Empty"
  BY DEF IInv, RightsInv, TicketsMatchState
<1>2. \A t \in Threads : at[t] \in Slots => at[t] # NoSlot
  BY SlotFacts
<1> QED
  BY <1>1, <1>2 DEF SegmentsOwnedOnce, Linked, Published

\* A thread whose step ends at a slot of a linked segment leaves the others
\* where they are.
LEMMA GotoLinked ==
    ASSUME IInv, NEW t \in Threads, NEW step, NEW s, Goto(t, step, s),
           s = NoSlot \/ s = at[t] \/ Linked(s[1])
    PROVE  \A u \in Threads : at'[u] # NoSlot => at'[u] = at[u] \/ Linked(at'[u][1])
  BY DEF Goto, IInv, TypeOK

\* The scan moves on inside its segment.
LEMMA SkipLinked ==
    ASSUME IInv, SegmentsOwnedOnce, NEW t \in Threads, pc[t] # "idle", Skip(t)
    PROVE  \A u \in Threads : at'[u] # NoSlot => at'[u] = at[u] \/ Linked(at'[u][1])
<1>1. at[t] \in Slots /\ Linked(at[t][1])
  BY HeldLinked DEF IInv, TypeOK
<1>2. CASE at[t][2] < SegmentSlots
  <2>1. Goto(t, "load", <<at[t][1], at[t][2] + 1>>)
    BY <1>2 DEF Skip
  <2> QED
    BY <1>1, <2>1, GotoLinked
<1>3. CASE ~(at[t][2] < SegmentSlots)
  BY <1>3, GotoLinked DEF Skip
<1> QED
  BY <1>2, <1>3

-------------------------------------------------------------------------------
(* The two steps of next_or_append *)

\* Loading the successor follows a linked segment or allocates a new one.
LEMMA NextSegmentChain ==
    ASSUME IInv, SegmentsOwnedOnce, NEW t \in Threads, NextSegment(t)
    PROVE  SegmentsOwnedOnce'
<1>1. at[t] \in Slots /\ at[t][1] \in Segments /\ Linked(at[t][1])
  BY HeldLinked, SlotFacts DEF NextSegment, IInv, TypeOK
<1>2. UNCHANGED <<next, state>>
  BY DEF NextSegment
<1>3. CASE next[at[t][1]] # NoSegment
  <2>1. next[at[t][1]] \in heap /\ Published(next[at[t][1]])
    BY <1>1, <1>3 DEF SegmentsOwnedOnce, Published, Linked
  <2>2. Goto(t, "load", <<next[at[t][1]], 1>>) /\ UNCHANGED chainVars
    BY <1>3 DEF NextSegment, chainVars
  <2>3. \A u \in Threads : at'[u] # NoSlot => at'[u] = at[u] \/ Linked(at'[u][1])
    BY <2>1, <2>2, GotoLinked DEF Linked
  <2> QED
    BY <1>2, <2>2, <2>3, ChainQuiet
<1>4. CASE next[at[t][1]] = NoSegment /\ ~grow[t]
  <2>1. Goto(t, "idle", NoSlot) /\ UNCHANGED chainVars
    BY <1>4 DEF NextSegment, Return, chainVars
  <2>2. \A u \in Threads : at'[u] # NoSlot => at'[u] = at[u] \/ Linked(at'[u][1])
    BY <2>1, GotoLinked
  <2> QED
    BY <1>2, <2>1, <2>2, ChainQuiet
<1>5. CASE next[at[t][1]] = NoSegment /\ grow[t]
  <2>1. PICK g \in Segments \ heap :
            heap' = heap \cup {g} /\ fresh' = [fresh EXCEPT ![t] = g]
    BY <1>5 DEF NextSegment
  <2>2. at' = at /\ next' = next /\ state' = state
    BY <1>2, <1>5 DEF NextSegment, Goto, IInv, TypeOK
  <2>3. /\ g # NoSegment /\ g # Head /\ next[g] = NoSegment
        /\ \A h \in Segments : next[h] # g
        /\ \A u \in Threads : fresh[u] # g
    BY <2>1, NoSegmentFact DEF SegmentsOwnedOnce, IInv, TypeOK
  <2>4. fresh[t] = NoSegment
    BY DEF NextSegment, IInv, TypeOK
  <2>5. \A u \in Threads : fresh'[u] = IF u = t THEN g ELSE fresh[u]
    BY <2>1 DEF IInv, TypeOK
  <2>6. /\ ~Published(g)'
        /\ \A h \in Segments : h # g => (Published(h)' <=> Published(h))
    BY <2>1, <2>2, <2>3, NoSegmentFact DEF Published, IInv, TypeOK
  <2>7. \A h \in heap' : Published(h)' <=> \A u \in Threads : fresh'[u] # h
    BY <2>1, <2>3, <2>4, <2>5, <2>6, NoSegmentFact DEF SegmentsOwnedOnce, IInv, TypeOK
  <2>8. \A u \in Threads : fresh'[u] # NoSegment => fresh'[u] \in heap' /\ next'[fresh'[u]] = NoSegment
    BY <2>1, <2>2, <2>3, <2>5 DEF SegmentsOwnedOnce
  <2>9. \A u, v \in Threads : fresh'[u] = fresh'[v] /\ u # v => fresh'[u] = NoSegment
    BY <2>3, <2>5 DEF SegmentsOwnedOnce
  <2>10. \A k \in heap : Published(k) => k \in heap' /\ Published(k)'
    BY <2>1, <2>6 DEF IInv, TypeOK
  <2>11. \A u \in Threads : (at[u] # NoSlot => at[u][1] \in heap /\ Published(at[u][1]))'
    <3> SUFFICES ASSUME NEW u \in Threads, at'[u] # NoSlot
                 PROVE  (at[u][1] \in heap /\ Published(at[u][1]))'
      OBVIOUS
    <3>1. PICK k : k = at[u][1]
      OBVIOUS
    <3>2. k = at'[u][1] /\ k \in heap /\ Published(k)
      BY <2>2, <3>1 DEF SegmentsOwnedOnce
    <3>3. k \in heap' /\ Published(k)'
      BY <2>10, <3>2
    <3> QED
      BY <3>2, <3>3
  <2>12. \A s \in Slots : state'[s] # "Empty" => s[1] \in heap' /\ Published(s[1])'
    BY <2>2, <2>10 DEF SegmentsOwnedOnce
  <2>13. Head \in heap'
    BY <2>1 DEF SegmentsOwnedOnce
  <2>14. \A h \in Segments : next'[h] # NoSegment =>
            {h, next'[h]} \subseteq heap' /\ next'[h] # Head
    BY <2>1, <2>2 DEF SegmentsOwnedOnce
  <2>15. \A h, k \in Segments : next'[h] = next'[k] /\ h # k => next'[h] = NoSegment
    BY <2>2 DEF SegmentsOwnedOnce
  <2> QED
    BY <2>7, <2>8, <2>9, <2>11, <2>12, <2>13, <2>14, <2>15 DEF SegmentsOwnedOnce
<1> QED
  BY <1>3, <1>4, <1>5

\* The exchange links the thread's segment, or frees it and follows the winner.
LEMMA AppendChain ==
    ASSUME IInv, SegmentsOwnedOnce, NEW t \in Threads, Append(t)
    PROVE  SegmentsOwnedOnce'
<1>1. at[t] \in Slots /\ at[t][1] \in Segments /\ Linked(at[t][1])
  BY HeldLinked, SlotFacts DEF Append, IInv, TypeOK
<1>2. PICK p : p = at[t][1]
  OBVIOUS
<1>3. PICK g : g = fresh[t]
  OBVIOUS
<1>4. /\ g \in Segments /\ g # NoSegment /\ g \in heap /\ next[g] = NoSegment
      /\ ~Published(g) /\ g # Head /\ g # p
      /\ \A u \in Threads \ {t} : fresh[u] # g
  BY <1>1, <1>2, <1>3 DEF Append, SegmentsOwnedOnce, Published, Linked, IInv, TypeOK
<1>5. \A u \in Threads : fresh'[u] = IF u = t THEN NoSegment ELSE fresh[u]
  BY DEF Append, IInv, TypeOK
<1>6. state' = state
  BY DEF Append
<1>7. CASE next[p] = NoSegment
  <2>1. heap' = heap /\ Goto(t, "load", <<g, 1>>) /\ next' = [next EXCEPT ![p] = g]
    BY <1>2, <1>3, <1>7 DEF Append
  <2>2. \A h \in Segments : next'[h] = IF h = p THEN g ELSE next[h]
    BY <1>1, <1>2, <2>1 DEF IInv, TypeOK
  <2>3. \A h : h \in heap => h \in Segments
    BY DEF IInv, TypeOK
  <2>4. Published(g)'
    BY <1>1, <1>2, <2>1, <2>2 DEF Published, Linked
  <2>5. \A h \in Segments : h # g => (Published(h)' <=> Published(h))
    BY <1>7, <2>1, <2>2, <2>3, NoSegmentFact DEF Published
  <2>6. \A h \in heap' : Published(h)' <=> \A u \in Threads : fresh'[u] # h
    <3> SUFFICES ASSUME NEW h \in heap
                 PROVE  Published(h)' <=> \A u \in Threads : fresh'[u] # h
      BY <2>1
    <3>1. CASE h = g
      BY <3>1, <1>4, <1>5, <2>4
    <3>2. CASE h # g
      <4>1. Published(h) <=> \A u \in Threads : fresh[u] # h
        BY DEF SegmentsOwnedOnce
      <4>2. h # NoSegment /\ h \in Segments
        BY <2>3, NoSegmentFact
      <4> QED
        BY <3>2, <4>1, <4>2, <1>3, <1>5, <2>5
    <3> QED
      BY <3>1, <3>2
  <2>7. \A h \in Segments : next'[h] # NoSegment =>
            {h, next'[h]} \subseteq heap' /\ next'[h] # Head
    BY <1>1, <1>2, <1>4, <2>1, <2>2 DEF SegmentsOwnedOnce, Linked
  <2>8. \A h \in Segments : next[h] # g
    BY <1>4 DEF SegmentsOwnedOnce, Published
  <2>9. \A h, k \in Segments : next'[h] = next'[k] /\ h # k => next'[h] = NoSegment
    BY <2>2, <2>8 DEF SegmentsOwnedOnce
  <2>10. \A u \in Threads : fresh'[u] # NoSegment =>
            fresh'[u] \in heap' /\ next'[fresh'[u]] = NoSegment
    <3> SUFFICES ASSUME NEW u \in Threads, fresh'[u] # NoSegment
                 PROVE  fresh'[u] \in heap' /\ next'[fresh'[u]] = NoSegment
      OBVIOUS
    <3>1. u # t /\ fresh'[u] = fresh[u] /\ fresh[u] \in heap /\ next[fresh[u]] = NoSegment
      BY <1>5 DEF SegmentsOwnedOnce
    <3>2. fresh[u] # p
      BY <3>1, <1>1, <1>2 DEF SegmentsOwnedOnce, Linked
    <3> QED
      BY <2>1, <2>2, <2>3, <3>1, <3>2
  <2>11. \A u, v \in Threads : fresh'[u] = fresh'[v] /\ u # v => fresh'[u] = NoSegment
    BY <1>5 DEF SegmentsOwnedOnce
  <2>12. \A u \in Threads : (at[u] # NoSlot => at[u][1] \in heap /\ Published(at[u][1]))'
    <3> SUFFICES ASSUME NEW u \in Threads, at'[u] # NoSlot
                 PROVE  (at[u][1] \in heap /\ Published(at[u][1]))'
      OBVIOUS
    <3>1. at'[u] = IF u = t THEN <<g, 1>> ELSE at[u]
      BY <2>1 DEF Goto, IInv, TypeOK
    <3>2. PICK k : k = at'[u][1]
      OBVIOUS
    <3>3. k \in heap' /\ Published(k)'
      <4>1. CASE u = t
        <5>1. k = g
          BY <3>1, <3>2, <4>1
        <5> QED
          BY <5>1, <1>4, <2>1, <2>4
      <4>2. CASE u # t
        <5>1. k \in heap /\ Published(k) /\ k \in Segments /\ k # g
          BY <3>1, <3>2, <4>2, <1>4, <2>3 DEF SegmentsOwnedOnce
        <5> QED
          BY <5>1, <2>1, <2>5
      <4> QED
        BY <4>1, <4>2
    <3> QED
      BY <3>2, <3>3
  <2>13. \A s \in Slots : state'[s] # "Empty" => s[1] \in heap' /\ Published(s[1])'
    <3> SUFFICES ASSUME NEW s \in Slots, state[s] # "Empty"
                 PROVE  s[1] \in heap /\ Published(s[1])'
      BY <1>6, <2>1
    <3>1. s[1] \in heap /\ Published(s[1]) /\ s[1] \in Segments
      BY <2>3 DEF SegmentsOwnedOnce
    <3> QED
      BY <3>1, <1>4, <2>5
  <2>14. Head \in heap'
    BY <2>1 DEF SegmentsOwnedOnce
  <2> QED
    BY <2>6, <2>7, <2>9, <2>10, <2>11, <2>12, <2>13, <2>14 DEF SegmentsOwnedOnce
<1>8. CASE next[p] # NoSegment
  <2>1. heap' = heap \ {g} /\ next' = next /\ Goto(t, "load", <<next[p], 1>>)
    BY <1>2, <1>3, <1>8 DEF Append
  <2>2. \A h : h \in heap => h \in Segments
    BY DEF IInv, TypeOK
  <2>3. \A h \in Segments : Published(h)' <=> Published(h)
    BY <1>4, <2>1, <2>2, NoSegmentFact DEF Published
  <2>4. \A h \in heap' : Published(h)' <=> \A u \in Threads : fresh'[u] # h
    <3> SUFFICES ASSUME NEW h \in heap, h # g
                 PROVE  Published(h)' <=> \A u \in Threads : fresh'[u] # h
      BY <2>1
    <3>1. Published(h) <=> \A u \in Threads : fresh[u] # h
      BY DEF SegmentsOwnedOnce
    <3>2. h # NoSegment /\ h \in Segments
      BY <2>2, NoSegmentFact
    <3> QED
      BY <3>1, <3>2, <1>3, <1>5, <2>3
  <2>5. \A h \in Segments : next'[h] # NoSegment =>
            {h, next'[h]} \subseteq heap' /\ next'[h] # Head
    <3> SUFFICES ASSUME NEW h \in Segments, next[h] # NoSegment
                 PROVE  {h, next[h]} \subseteq heap' /\ next[h] # Head
      BY <2>1
    <3>1. h \in heap /\ next[h] \in heap /\ next[h] # Head /\ h # g
      BY <1>4 DEF SegmentsOwnedOnce
    <3>2. next[h] # g
      BY <3>1, <1>4 DEF Published
    <3> QED
      BY <3>1, <3>2, <2>1
  <2>6. \A h, k \in Segments : next'[h] = next'[k] /\ h # k => next'[h] = NoSegment
    BY <2>1 DEF SegmentsOwnedOnce
  <2>7. \A u \in Threads : fresh'[u] # NoSegment =>
            fresh'[u] \in heap' /\ next'[fresh'[u]] = NoSegment
    BY <1>4, <1>5, <2>1 DEF SegmentsOwnedOnce
  <2>8. \A u, v \in Threads : fresh'[u] = fresh'[v] /\ u # v => fresh'[u] = NoSegment
    BY <1>5 DEF SegmentsOwnedOnce
  <2>9. \A u \in Threads : (at[u] # NoSlot => at[u][1] \in heap /\ Published(at[u][1]))'
    <3> SUFFICES ASSUME NEW u \in Threads, at'[u] # NoSlot
                 PROVE  (at[u][1] \in heap /\ Published(at[u][1]))'
      OBVIOUS
    <3>1. at'[u] = IF u = t THEN <<next[p], 1>> ELSE at[u]
      BY <2>1 DEF Goto, IInv, TypeOK
    <3>2. PICK k : k = at'[u][1]
      OBVIOUS
    <3>3. next[p] \in heap /\ Published(next[p])
      BY <1>1, <1>2, <1>8 DEF SegmentsOwnedOnce, Published, Linked
    <3>4. k \in heap /\ Published(k)
      <4>1. CASE u = t
        BY <3>1, <3>2, <3>3, <4>1
      <4>2. CASE u # t
        BY <3>1, <3>2, <4>2 DEF SegmentsOwnedOnce
      <4> QED
        BY <4>1, <4>2
    <3>5. k \in heap' /\ Published(k)'
      BY <3>4, <1>4, <2>1, <2>2, <2>3
    <3> QED
      BY <3>2, <3>5
  <2>10. \A s \in Slots : state'[s] # "Empty" => s[1] \in heap' /\ Published(s[1])'
    <3> SUFFICES ASSUME NEW s \in Slots, state[s] # "Empty"
                 PROVE  s[1] \in heap' /\ Published(s[1])'
      BY <1>6
    <3>1. s[1] \in heap /\ Published(s[1])
      BY DEF SegmentsOwnedOnce
    <3> QED
      BY <3>1, <1>4, <2>1, <2>2, <2>3
  <2>11. Head \in heap'
    BY <1>4, <2>1 DEF SegmentsOwnedOnce
  <2> QED
    BY <2>4, <2>5, <2>6, <2>7, <2>8, <2>9, <2>10, <2>11 DEF SegmentsOwnedOnce
<1> QED
  BY <1>7, <1>8

-------------------------------------------------------------------------------
\* Every step preserves the ownership of the segments.
LEMMA ChainStep ==
    ASSUME IInv, SegmentsOwnedOnce, [Next]_vars
    PROVE  SegmentsOwnedOnce'
<1> DEFINE Good == \A u \in Threads : at'[u] # NoSlot => at'[u] = at[u] \/ Linked(at'[u][1])
<1>1. ASSUME NEW t \in Threads, Reserve(t) \/ TryReserve(t)
      PROVE  SegmentsOwnedOnce'
  <2>1. Goto(t, "load", <<1, 1>>) /\ UNCHANGED chainVars /\ state' = state
    BY <1>1 DEF Reserve, TryReserve, lotVars, chainVars
  <2>2. Linked(<<1, 1>>[1])
    BY HeldLinked DEF Head
  <2>3. Good
    BY <2>1, <2>2, GotoLinked
  <2> QED
    BY <2>1, <2>3, ChainQuiet
<1>2. ASSUME NEW t \in Threads, ClaimLoad(t)
      PROVE  SegmentsOwnedOnce'
  <2>1. UNCHANGED chainVars /\ state' = state /\ pc[t] # "idle"
    BY <1>2 DEF ClaimLoad, lotVars, chainVars
  <2>2. Skip(t) \/ Goto(t, "claimCas", at[t])
    BY <1>2 DEF ClaimLoad
  <2>3. Good
    BY <2>1, <2>2, SkipLinked, GotoLinked
  <2> QED
    BY <2>1, <2>3, ChainQuiet
<1>3. ASSUME NEW t \in Threads, ClaimCas(t)
      PROVE  SegmentsOwnedOnce'
  <2>1. UNCHANGED chainVars /\ pc[t] # "idle" /\ at[t] \in Slots /\ Linked(at[t][1])
    BY <1>3, HeldLinked DEF ClaimCas, IInv, TypeOK
  <2>2. \/ Goto(t, "idle", NoSlot) /\ SetState(at[t], "Reserved")
        \/ Skip(t) /\ state' = state
    BY <1>3, Zenon DEF ClaimCas, Return
  <2>3. Good
    BY <2>1, <2>2, SkipLinked, GotoLinked
  <2>4. \A s \in Slots : state'[s] # "Empty" => state[s] # "Empty" \/ Linked(s[1])
    BY <2>1, <2>2 DEF SetState, IInv, TypeOK
  <2> QED
    BY <2>1, <2>3, <2>4, ChainQuiet
<1>4. ASSUME NEW t \in Threads,
             \/ ParkWrite(t) \/ ParkCas(t) \/ ParkReadBack(t) \/ ParkFree(t)
             \/ UnparkCas(t) \/ UnparkRead(t) \/ UnparkFree(t)
      PROVE  SegmentsOwnedOnce'
  <2>1. UNCHANGED chainVars /\ at[t] \in Slots /\ Linked(at[t][1])
    BY <1>4, HeldLinked DEF ParkWrite, ParkCas, ParkReadBack, ParkFree, UnparkCas, UnparkRead,
       UnparkFree, lotVars, chainVars, IInv, TypeOK
  <2>2. \E step : Goto(t, step, at[t]) \/ Goto(t, step, NoSlot)
    BY <1>4, Zenon DEF ParkWrite, ParkCas, ParkReadBack, ParkFree, UnparkCas, UnparkRead,
       UnparkFree, Return
  <2>3. Good
    BY <2>2, GotoLinked
  <2>4. state' = state \/ \E new : SetState(at[t], new)
    BY <1>4 DEF ParkWrite, ParkCas, ParkReadBack, ParkFree, UnparkCas, UnparkRead,
       UnparkFree, lotVars
  <2>5. \A s \in Slots : state'[s] # "Empty" => state[s] # "Empty" \/ Linked(s[1])
    BY <2>1, <2>4 DEF SetState, IInv, TypeOK
  <2> QED
    BY <2>1, <2>3, <2>5, ChainQuiet
<1>5. ASSUME NEW t \in Threads, NEW s \in Slots,
             (\E v \in Values : Park(t, s, v)) \/ Unpark(t, s)
      PROVE  SegmentsOwnedOnce'
  <2>1. UNCHANGED chainVars /\ state' = state /\ \E step : Goto(t, step, s)
    BY <1>5 DEF Park, Unpark, lotVars, chainVars
  <2>2. ParkRight(s) \/ UnparkRight(s)
    BY <1>5 DEF Park, Unpark, ParkRight, UnparkRight
  <2>3. Good
    BY <2>1, <2>2, HeldLinked, GotoLinked
  <2> QED
    BY <2>1, <2>3, ChainQuiet
<1>6. ASSUME NEW t \in Threads, NEW w \in Wakers, Wake(t, w)
      PROVE  SegmentsOwnedOnce'
  <2>1. UNCHANGED chainVars /\ state' = state /\ Goto(t, "unparkCas", waker[w])
    BY <1>6 DEF Wake, lotVars, chainVars
  <2>2. waker[w] \in Slots /\ UnparkRight(waker[w])
    BY <1>6 DEF Wake, UnparkRight, IInv, TypeOK
  <2>3. Good
    BY <2>1, <2>2, HeldLinked, GotoLinked
  <2> QED
    BY <2>1, <2>3, ChainQuiet
<1>7. ASSUME UNCHANGED chainVars, at' = at,
             state' = state \/ \E s \in reservations : SetState(s, "Empty")
      PROVE  SegmentsOwnedOnce'
  <2>1. \A s \in Slots : state'[s] # "Empty" => state[s] # "Empty" \/ Linked(s[1])
    BY <1>7 DEF SetState, IInv, TypeOK
  <2> QED
    BY <1>7, <2>1, ChainQuiet
<1>8. ASSUME NEW s \in Slots,
             \/ Split(s) \/ Release(s)
             \/ \E w \in Wakers : IntoWaker(s, w)
             \/ \E c \in ParkCells : ParkCellPut(c, s) \/ ParkCellPutReservation(c, s)
             \/ \E c \in UnparkCells : UnparkCellPutReservation(c, s)
      PROVE  SegmentsOwnedOnce'
  <2>1. /\ UNCHANGED chainVars /\ at' = at
        /\ state' = state \/ \E r \in reservations : SetState(r, "Empty")
    BY <1>8 DEF Split, Release, IntoWaker, ParkCellPut, ParkCellPutReservation,
       UnparkCellPutReservation, lotVars, chainVars, threadVars
  <2> QED
    BY <2>1, <1>7
<1>9. ASSUME \/ \E c \in ParkCells : ParkCellTake(c)
             \/ \E c \in UnparkCells : UnparkCellTake(c)
             \/ UNCHANGED vars
      PROVE  SegmentsOwnedOnce'
  <2>1. UNCHANGED chainVars /\ at' = at /\ state' = state
    BY <1>9, Zenon DEF ParkCellTake, UnparkCellTake, vars, lotVars, chainVars, threadVars
  <2> QED
    BY <2>1, <1>7
<1> QED
  BY <1>1, <1>2, <1>3, <1>4, <1>5, <1>6, <1>8, <1>9, NextSegmentChain, AppendChain
     DEF Next, ThreadStep, TicketStep

\* Appends by any number of threads at once leave every allocated segment with
\* one owner: the chain or the thread that allocated it (next_or_append).
THEOREM ChainCorrect == Spec => []SegmentsOwnedOnce
<1>1. Init => SegmentsOwnedOnce
  BY NoSegmentFact DEF Init, SegmentsOwnedOnce, Published, Head, NoSegment
<1>2. IInv /\ SegmentsOwnedOnce /\ [Next]_vars => SegmentsOwnedOnce'
  BY ChainStep
<1> QED
  BY <1>1, <1>2, Inductive, PTL DEF Spec
===============================================================================
