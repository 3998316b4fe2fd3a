---------------------------- MODULE MCScheduler ----------------------------
(* Instances of Scheduler for TLC. *)
EXTENDS Scheduler, TLC

\* Thread control blocks are interchangeable.
Symmetry == Permutations(Threads)

=============================================================================
