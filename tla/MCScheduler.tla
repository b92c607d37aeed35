---------------------------- MODULE MCScheduler ----------------------------
(* Instance of Scheduler for TLC: main, the idle thread and pages for      *)
(* three threads that come and go.                                         *)
EXTENDS Scheduler, TLC

CONSTANTS main, idle, p1, p2, p3

MCThreads == {main, idle, p1, p2, p3}
Symmetry  == Permutations({p1, p2, p3})

=============================================================================
