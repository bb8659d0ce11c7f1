---------------------------- MODULE MCSignalState ----------------------------
(* Model-checking instances of SignalState.                                *)
EXTENDS SignalState

(* Two custom actions: a plain one, and one that tries to block everything *)
(* (Kill and Stop too), does not defer its own signal and fires once.      *)
MCCustoms ==
    {[handler |-> "custom", mask |-> {}, nodefer |-> FALSE, resethand |-> FALSE],
     [handler |-> "custom", mask |-> Sigs, nodefer |-> TRUE, resethand |-> TRUE]}
==============================================================================
