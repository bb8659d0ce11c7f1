---------------------------- MODULE MCParkingLot ----------------------------
(* Two threads, two values and a chain that starts with one slot and grows:   *)
(* slots are reused, appended and contended for, and two threads append at    *)
(* the same time, which takes a third segment.                                *)
EXTENDS ParkingLot, TLC

\* Threads are interchangeable, and so are values.
LotSymmetry == Permutations(Threads) \cup Permutations(Values)
=============================================================================
