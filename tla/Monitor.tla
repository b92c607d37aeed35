------------------------------ MODULE Monitor ------------------------------
(***************************************************************************)
(* What the comments of threads/synch.c promise of locks and condition     *)
(* variables: a lock has at most one owner; cond_wait releases the lock    *)
(* and waits in one indivisible step, so that no signal sent after the     *)
(* lock is seen free can miss the waiter; a signal, sent by the owner of   *)
(* the lock, wakes the one that has waited longest; and a thread that      *)
(* waits does nothing with any lock until it is signalled ("Mesa" style:   *)
(* the lock may change hands before the woken thread has it back).         *)
(***************************************************************************)
EXTENDS Sequences, Functions

CONSTANTS Threads, Locks, Conds, CondLock, NULL

VARIABLES
  owner,     \* the thread each lock belongs to, or NULL
  waiting    \* the threads waiting on each condition, longest wait first

vars == <<owner, waiting>>

Waiting(t) == \E c \in Conds : t \in Range(waiting[c])

TypeOK ==
  /\ owner \in [Locks -> Threads \cup {NULL}]
  /\ waiting \in [Conds -> Seq(Threads)]

Init ==
  /\ owner = [l \in Locks |-> NULL]
  /\ waiting = [c \in Conds |-> <<>>]

Acquire(t, l) ==
  /\ owner[l] = NULL
  /\ ~ Waiting(t)
  /\ owner' = [owner EXCEPT ![l] = t]
  /\ UNCHANGED waiting

Release(t, l) ==
  /\ owner[l] = t
  /\ ~ Waiting(t)
  /\ owner' = [owner EXCEPT ![l] = NULL]
  /\ UNCHANGED waiting

Wait(t, c) ==
  /\ owner[CondLock[c]] = t
  /\ ~ Waiting(t)
  /\ owner' = [owner EXCEPT ![CondLock[c]] = NULL]
  /\ waiting' = [waiting EXCEPT ![c] = Append(@, t)]

Signal(t, c) ==
  /\ owner[CondLock[c]] = t
  /\ ~ Waiting(t)
  /\ waiting[c] # <<>>
  /\ waiting' = [waiting EXCEPT ![c] = Tail(@)]
  /\ UNCHANGED owner

Next ==
  \E t \in Threads :
    \/ \E l \in Locks : Acquire(t, l) \/ Release(t, l)
    \/ \E c \in Conds : Wait(t, c) \/ Signal(t, c)

Spec == Init /\ [][Next]_vars

=============================================================================
