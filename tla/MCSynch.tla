------------------------------ MODULE MCSynch ------------------------------
(* Instances of Synch for TLC: main, the idle thread and pages for more    *)
(* threads.  With TIME_SLICE = 1 every tick preempts, so a thread can lose *)
(* the processor at any point where interrupts are on.                     *)
EXTENDS Synch, TLC

CONSTANTS main, idle, p1, p2, p3, lock, ready, io

FourPages  == {main, idle, p1, p2}
FivePages  == {main, idle, p1, p2, p3}
MCCondLock == [c \in Conds |-> lock]
Symmetry   == Permutations({p1, p2})

\* Nobody uses the threads' locks, semaphores and conditions.
Untouched ==
  /\ \A l \in Locks : value[l] = 1
  /\ \A s \in Semas : value[s] = 0 /\ waiters[s] = <<>>
  /\ \A t \in Threads : sem[t] \in {NULL, tid_lock, idle_started}

\* Bound: the fifth page is the last to be used, and from then on nothing goes
\* on but the creation of threads and their turns: two of them, and so two
\* that overlap in allocate_tid, have main, idle and a second creator besides.
Overlap == p3 \in all_list \/ tid[p3] # 0 => all_list = Threads /\ Untouched

=============================================================================
