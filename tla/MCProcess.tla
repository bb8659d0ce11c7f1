------------------------------ MODULE MCProcess ------------------------------
(* Model-checking instances of Process.                                    *)
EXTENDS Process, TLC

(* One plain custom action.                                                *)
MCCustoms ==
    {[handler |-> "custom", mask |-> {}, nodefer |-> FALSE, resethand |-> FALSE]}

(* The empty mask, and one that asks for Kill, Stop and the signal that    *)
(* resumes; for liveness the one that asks for Kill and Stop. The run of   *)
(* SignalState has every mask.                                             *)
MCFrameMasks == {{}, Sig!KillStop \cup {Sig!Continue}}

MCLiveMasks == {Sig!KillStop}

(* The siblings are interchangeable.                                       *)
SiblingSymmetry == Permutations(Siblings)
==============================================================================
