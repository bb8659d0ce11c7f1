--------------------------- MODULE MCPhysicalMemory --------------------------
(* Model-checking instances of PhysicalMemory.                             *)
EXTENDS PhysicalMemory

(* Two adjacent regions, neither aligned to a large page: a run must not   *)
(* cross the boundary, and stage 1 reaches a part of each.                 *)
MCRegions == <<[base |-> 1, len |-> 2], [base |-> 3, len |-> 6]>>
==============================================================================
