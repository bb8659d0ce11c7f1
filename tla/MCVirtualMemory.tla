--------------------------- MODULE MCVirtualMemory ---------------------------
(* Model-checking instance of VirtualMemory: the managed range is 2..7, a  *)
(* fixed image may lie below it, across its start, inside it and across    *)
(* its end.                                                                *)
EXTENDS VirtualMemory

MCFixed ==
    {[start |-> 0, len |-> 1], [start |-> 1, len |-> 2], [start |-> 3, len |-> 1],
     [start |-> 4, len |-> 2], [start |-> 6, len |-> 4]}
==============================================================================
