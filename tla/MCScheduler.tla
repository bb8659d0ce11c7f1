---------------------------- MODULE MCScheduler ----------------------------
(* TLC instances of module Scheduler. *)
EXTENDS Scheduler

\* The workers are interchangeable; the CPUs are not (Bsp is one of them).
WorkerSymmetry == Permutations(Workers)
=============================================================================
