------------------------------- MODULE Synch -------------------------------
(***************************************************************************)
(* The synchronization primitives of threads/synch.c on top of the         *)
(* scheduler: semaphores, locks and condition variables, called by threads *)
(* that may be preempted anywhere interrupts are on, and by interrupt      *)
(* handlers; allocate_tid and the boot handshake of thread_start are the   *)
(* kernel's own clients of them.                                           *)
(*                                                                         *)
(* A semaphore is named by what it is part of: a lock names its semaphore, *)
(* a thread names the semaphore of the semaphore_elem on its stack in      *)
(* cond_wait (a thread is in one cond_wait at a time).  pc[t] says where   *)
(* thread t is in the kernel: at "run" it executes code of its own and may *)
(* call anything the ASSERTs of synch.c allow.  One step is one stretch    *)
(* that an interrupt cannot split or that touches one shared variable.     *)
(***************************************************************************)
EXTENDS Scheduler

CONSTANTS
  Locks,          \* the threads' locks
  Semas,          \* the threads' semaphores
  Conds,          \* condition variables
  CondLock,       \* the lock each condition variable is used with
  tid_lock,       \* the lock of allocate_tid
  idle_started,   \* the semaphore of thread_start
  InitialValue,   \* what the threads' semaphores start from
  MaxValue,       \* bound: no thread raises a semaphore beyond this value
  MaxTid          \* bound: no thread is created once next_tid is beyond it

AllLocks == Locks \cup {tid_lock}
AllSemas == AllLocks \cup Semas \cup {idle_started} \cup Threads

ASSUME SynchAssumption ==
  /\ CondLock \in [Conds -> Locks]
  /\ tid_lock \notin Locks
  /\ idle_started \notin Semas \cup AllLocks \cup Threads
  /\ AllLocks \cap Semas = {}
  /\ Threads \cap (AllLocks \cup Semas) = {}
  /\ NULL \notin AllSemas \cup Conds
  /\ InitialValue \in Nat /\ MaxValue \in Nat /\ MaxTid \in Nat

VARIABLES
  value,         \* semaphore.value
  waiters,       \* semaphore.waiters: the threads queued by their elem
  holder,        \* lock.holder
  cond_waiters,  \* condition.waiters: the threads whose semaphore_elem is queued
  pc,            \* where each thread is in the kernel
  sem,           \* the semaphore or lock it is there with, or NULL
  cond,          \* the condition variable it is there with, or NULL
  looping,       \* the threads in the while loop of sema_down, interrupts off
  tid,           \* struct thread's tid, 0 until thread_create has set it
  next_tid,      \* the static variable of allocate_tid
  new_tid        \* the local variable tid of allocate_tid

syncVars == <<value, waiters, holder, cond_waiters>>
callVars == <<pc, sem, cond>>
tidVars  == <<tid, next_tid, new_tid>>
vars     == <<schedVars, syncVars, callVars, looping, tidVars>>

\* What a context switch or an unblock leaves alone.
restOfSched == <<idle_thread, all_list, newborn>>

Labels ==
  { "run",                                   \* the thread's own code
    "sema_down",                             \* sema_down
    "acquire_down", "own",                   \* lock_acquire
    "release_up",                            \* lock_release, holder cleared
    "wait_release", "wait_down",             \* cond_wait, after list_push_back
    "signal_up", "broadcast_up", "broadcast",\* cond_signal, cond_broadcast
    "tid_read", "tid_write", "tid_release", "create_end",  \* thread_create
    "idle_start", "idle_up", "idle_loop" }   \* idle

SynchTypeOK ==
  /\ value \in [AllSemas -> Nat]
  /\ waiters \in [AllSemas -> Seq(Threads)]
  /\ holder \in [AllLocks -> Threads \cup {NULL}]
  /\ cond_waiters \in [Conds -> Seq(Threads)]
  /\ pc \in [Threads -> Labels]
  /\ sem \in [Threads -> AllSemas \cup {NULL}]
  /\ cond \in [Threads -> Conds \cup {NULL}]
  /\ looping \subseteq Threads
  /\ tid \in [Threads -> Nat]
  /\ next_tid \in Nat
  /\ new_tid \in [Threads -> Nat]

\* lock_init and sema_init have run; main is in thread_start, about to wait
\* for the idle thread.
SynchInit ==
  /\ SchedInit
  /\ value = [s \in AllSemas |-> CASE s \in AllLocks -> 1
                                   [] s \in Semas    -> InitialValue
                                   [] OTHER          -> 0]
  /\ waiters = [s \in AllSemas |-> <<>>]
  /\ holder = [l \in AllLocks |-> NULL]
  /\ cond_waiters = [c \in Conds |-> <<>>]
  /\ pc = [t \in Threads |-> CASE t = initial_thread -> "sema_down"
                               [] t = IdlePage       -> "idle_start"
                               [] OTHER              -> "run"]
  /\ sem = [t \in Threads |-> IF t = initial_thread THEN idle_started ELSE NULL]
  /\ cond = [t \in Threads |-> NULL]
  /\ looping = {}
  /\ tid = [t \in Threads |-> CASE t = initial_thread -> 1
                                [] t = IdlePage       -> 2
                                [] OTHER              -> 0]
  /\ next_tid = 3
  /\ new_tid = [t \in Threads |-> 0]

-----------------------------------------------------------------------------
(* Building blocks *)

\* An interrupt can arrive: interrupts are off only while a thread is in the
\* loop of sema_down, or within a step.
InterruptsOn == current \notin looping

at(l) == pc[current] = l

\* The running thread goes on at label l with semaphore s and condition c.
goto(l, s, c) ==
  /\ pc' = [pc EXCEPT ![current] = l]
  /\ sem' = [sem EXCEPT ![current] = s]
  /\ cond' = [cond EXCEPT ![current] = c]

\* Mutant: "if" for "while": a woken thread takes the semaphore unchecked.
down_if(s, l, s2, c2) ==
  \/ /\ value[s] = 0 /\ current \notin looping
     /\ waiters' = [waiters EXCEPT ![s] = Append(@, current)]
     /\ looping' = looping \cup {current}
     /\ block
     /\ UNCHANGED <<value, callVars>>
  \/ /\ value[s] > 0 \/ current \in looping
     /\ value' = [value EXCEPT ![s] = @ - 1]
     /\ looping' = looping \ {current}
     /\ goto(l, s2, c2)
     /\ UNCHANGED <<waiters, status, ready_list, current, thread_ticks>>

\* Mutant: the sleeper goes to the front of the wait list.
down_in_front(s, l, s2, c2) ==
  \/ /\ value[s] = 0
     /\ waiters' = [waiters EXCEPT ![s] = <<current>> \o @]
     /\ looping' = looping \cup {current}
     /\ block
     /\ UNCHANGED <<value, callVars>>
  \/ /\ value[s] > 0
     /\ value' = [value EXCEPT ![s] = @ - 1]
     /\ looping' = looping \ {current}
     /\ goto(l, s2, c2)
     /\ UNCHANGED <<waiters, status, ready_list, current, thread_ticks>>

\* One round of the loop of sema_down (s): sleep, or take the semaphore and
\* go on at label l with semaphore s2 and condition c2.
down(s, l, s2, c2) ==
  \/ /\ value[s] = 0
     /\ waiters' = [waiters EXCEPT ![s] = Append(@, current)]
     /\ looping' = looping \cup {current}
     /\ block
     /\ UNCHANGED <<value, callVars>>
  \/ /\ value[s] > 0
     /\ value' = [value EXCEPT ![s] = @ - 1]
     /\ looping' = looping \ {current}
     /\ goto(l, s2, c2)
     /\ UNCHANGED <<waiters, status, ready_list, current, thread_ticks>>

\* Mutant: list_front for list_pop_front.
up_without_pop(s) ==
  /\ value' = [value EXCEPT ![s] = @ + 1]
  /\ UNCHANGED waiters
  /\ IF waiters[s] = <<>>
     THEN UNCHANGED <<status, ready_list, current, thread_ticks>>
     ELSE unblock(Head(waiters[s]))

\* Mutant: wake a sleeper only when the value leaves 0.
up_from_zero(s) ==
  /\ value' = [value EXCEPT ![s] = @ + 1]
  /\ IF waiters[s] = <<>> \/ value[s] > 0
     THEN UNCHANGED <<waiters, status, ready_list, current, thread_ticks>>
     ELSE /\ unblock(Head(waiters[s]))
          /\ waiters' = [waiters EXCEPT ![s] = Tail(@)]

\* Mutant: nobody is woken.
up_without_wakeup(s) ==
  /\ value' = [value EXCEPT ![s] = @ + 1]
  /\ UNCHANGED <<waiters, status, ready_list, current, thread_ticks>>

\* sema_up (s): wake the first waiter, if any, and increment.
up(s) ==
  /\ value' = [value EXCEPT ![s] = @ + 1]
  /\ IF waiters[s] = <<>>
     THEN UNCHANGED <<waiters, status, ready_list, current, thread_ticks>>
     ELSE /\ unblock(Head(waiters[s]))
          /\ waiters' = [waiters EXCEPT ![s] = Tail(@)]

-----------------------------------------------------------------------------
(* Semaphores *)

\* A thread calls sema_down; SemaDown then runs it, round by round.
sema_down(s) ==
  /\ at("run")
  /\ goto("sema_down", s, NULL)
  /\ UNCHANGED <<schedVars, syncVars, looping, tidVars>>

SemaDown ==
  /\ at("sema_down")
  /\ down(sem[current], "run", NULL, NULL)
  /\ UNCHANGED <<restOfSched, holder, cond_waiters, tidVars>>

\* sema_try_down, when it succeeds, in a thread or an interrupt handler.
sema_try_down(s) ==
  /\ InterruptsOn
  /\ value[s] > 0
  /\ value' = [value EXCEPT ![s] = @ - 1]
  /\ UNCHANGED <<schedVars, waiters, holder, cond_waiters, callVars, looping, tidVars>>

\* sema_up, in a thread or in the interrupt handler of a device.
sema_up(s) ==
  /\ InterruptsOn
  /\ value[s] < MaxValue
  /\ up(s)
  /\ UNCHANGED <<restOfSched, holder, cond_waiters, callVars, looping, tidVars>>

-----------------------------------------------------------------------------
(* Locks *)

lock_acquire(l) ==
  /\ at("run")
  /\ holder[l] # current
  /\ goto("acquire_down", l, NULL)
  /\ UNCHANGED <<schedVars, syncVars, looping, tidVars>>

\* Mutant: sema_try_down for sema_down, its result ignored.
AcquireDownTried ==
  /\ at("acquire_down")
  /\ value' = [value EXCEPT ![sem[current]] = 0]
  /\ goto("own", sem[current], NULL)
  /\ UNCHANGED <<schedVars, waiters, holder, cond_waiters, looping, tidVars>>

AcquireDown ==
  /\ at("acquire_down")
  /\ down(sem[current], "own", sem[current], NULL)
  /\ UNCHANGED <<restOfSched, holder, cond_waiters, tidVars>>

\* lock_acquire and lock_try_acquire, once the semaphore is down.
Own ==
  /\ at("own")
  /\ holder' = [holder EXCEPT ![sem[current]] = current]
  /\ goto(IF newborn[current] # NULL THEN "tid_read" ELSE "run", NULL, NULL)
  /\ UNCHANGED <<schedVars, value, waiters, cond_waiters, looping, tidVars>>

\* Mutant: the lock is judged free by its holder, not by its semaphore.
lock_try_acquire_by_holder(l) ==
  /\ at("run")
  /\ holder[l] = NULL
  /\ value' = [value EXCEPT ![l] = 0]
  /\ goto("own", l, NULL)
  /\ UNCHANGED <<schedVars, waiters, holder, cond_waiters, looping, tidVars>>

\* lock_try_acquire, when sema_try_down succeeds.
lock_try_acquire(l) ==
  /\ at("run")
  /\ holder[l] # current
  /\ value[l] > 0
  /\ value' = [value EXCEPT ![l] = @ - 1]
  /\ goto("own", l, NULL)
  /\ UNCHANGED <<schedVars, waiters, holder, cond_waiters, looping, tidVars>>

\* lock_release up to sema_up, on behalf of a thread or of cond_wait or
\* allocate_tid: the holder is forgotten first.
disown(l) ==
  /\ holder[l] = current
  /\ holder' = [holder EXCEPT ![l] = NULL]
  /\ UNCHANGED <<schedVars, value, waiters, cond_waiters, looping, tidVars>>

lock_release(l) ==
  /\ at("run")
  /\ disown(l)
  /\ goto("release_up", l, NULL)

ReleaseUp ==
  /\ at("release_up")
  /\ up(sem[current])
  /\ IF cond[current] # NULL
     THEN goto("wait_down", current, cond[current])
     ELSE goto(IF newborn[current] # NULL THEN "create_end" ELSE "run", NULL, NULL)
  /\ UNCHANGED <<restOfSched, holder, cond_waiters, looping, tidVars>>

-----------------------------------------------------------------------------
(* Condition variables *)

\* cond_wait: a fresh semaphore on the waiter's stack, queued while the lock
\* is still held.
cond_wait(c) ==
  /\ at("run")
  /\ holder[CondLock[c]] = current
  /\ value' = [value EXCEPT ![current] = 0]
  /\ waiters' = [waiters EXCEPT ![current] = <<>>]
  /\ cond_waiters' = [cond_waiters EXCEPT ![c] = Append(@, current)]
  /\ goto("wait_release", CondLock[c], c)
  /\ UNCHANGED <<schedVars, holder, looping, tidVars>>

WaitRelease ==
  /\ at("wait_release")
  /\ disown(sem[current])
  /\ goto("release_up", sem[current], cond[current])

\* The sema_down on the waiter's own semaphore; lock_acquire comes next.
WaitDown ==
  /\ at("wait_down")
  /\ down(current, "acquire_down", CondLock[cond[current]], NULL)
  /\ UNCHANGED <<restOfSched, holder, cond_waiters, tidVars>>

\* Mutant: the waiter signalled stays on the list.
pop_front_only(c, l) ==
  /\ cond_waiters[c] # <<>>
  /\ goto(l, Head(cond_waiters[c]), c)
  /\ UNCHANGED <<schedVars, syncVars, looping, tidVars>>

\* Mutant: list_pop_back: the last waiter is signalled.
pop_back(c, l) ==
  LET n == Len(cond_waiters[c])
  IN  /\ n > 0
      /\ cond_waiters' = [cond_waiters EXCEPT ![c] = SubSeq(@, 1, n - 1)]
      /\ goto(l, cond_waiters[c][n], c)
      /\ UNCHANGED <<schedVars, value, waiters, holder, looping, tidVars>>

\* Take the first waiter off the condition; its semaphore is raised next.
pop(c, l) ==
  /\ cond_waiters[c] # <<>>
  /\ cond_waiters' = [cond_waiters EXCEPT ![c] = Tail(@)]
  /\ goto(l, Head(cond_waiters[c]), c)
  /\ UNCHANGED <<schedVars, value, waiters, holder, looping, tidVars>>

cond_signal(c) ==
  /\ at("run")
  /\ holder[CondLock[c]] = current
  /\ pop(c, "signal_up")

SignalUp ==
  /\ at("signal_up")
  /\ up(sem[current])
  /\ goto("run", NULL, NULL)
  /\ UNCHANGED <<restOfSched, holder, cond_waiters, looping, tidVars>>

\* cond_broadcast signals until nobody waits.
cond_broadcast(c) ==
  /\ at("run")
  /\ holder[CondLock[c]] = current
  /\ pop(c, "broadcast_up")

BroadcastUp ==
  /\ at("broadcast_up")
  /\ up(sem[current])
  /\ goto("broadcast", NULL, cond[current])
  /\ UNCHANGED <<restOfSched, holder, cond_waiters, looping, tidVars>>

Broadcast ==
  /\ at("broadcast")
  /\ \/ pop(cond[current], "broadcast_up")
     \/ /\ cond_waiters[cond[current]] = <<>>
        /\ goto("run", NULL, NULL)
        /\ UNCHANGED <<schedVars, syncVars, looping, tidVars>>

-----------------------------------------------------------------------------
(* thread.c *)

\* Mutant: allocate_tid without lock_acquire.
ThreadCreateUnlocked(t) ==
  /\ at("run")
  /\ next_tid <= MaxTid
  /\ thread_create(t)
  /\ goto("tid_read", NULL, NULL)
  /\ tid' = [tid EXCEPT ![t] = 0]
  /\ UNCHANGED <<syncVars, looping, next_tid, new_tid>>

\* thread_create: init_thread, then allocate_tid under tid_lock.
ThreadCreate(t) ==
  /\ at("run")
  /\ next_tid <= MaxTid
  /\ thread_create(t)
  /\ goto("acquire_down", tid_lock, NULL)
  /\ tid' = [tid EXCEPT ![t] = 0]
  /\ UNCHANGED <<syncVars, looping, next_tid, new_tid>>

\* tid = next_tid++ is a load and a store.
TidRead ==
  /\ at("tid_read")
  /\ new_tid' = [new_tid EXCEPT ![current] = next_tid]
  /\ goto("tid_write", NULL, NULL)
  /\ UNCHANGED <<schedVars, syncVars, looping, tid, next_tid>>

TidWrite ==
  /\ at("tid_write")
  /\ next_tid' = new_tid[current] + 1
  /\ goto("tid_release", NULL, NULL)
  /\ UNCHANGED <<schedVars, syncVars, looping, tid, new_tid>>

TidRelease ==
  /\ at("tid_release")
  /\ disown(tid_lock)
  /\ goto("release_up", tid_lock, NULL)

\* The new thread gets its tid and starts at its own code.
CreateEnd ==
  /\ at("create_end")
  /\ thread_create_end
  /\ tid' = [tid EXCEPT ![newborn[current]] = new_tid[current]]
  /\ new_tid' = [new_tid EXCEPT ![current] = 0]
  /\ goto("run", NULL, NULL)
  /\ UNCHANGED <<syncVars, looping, next_tid>>

\* A thread that exits holds no lock: nobody else could release it.
ThreadExit ==
  /\ at("run")
  /\ \A l \in AllLocks : holder[l] # current
  /\ thread_exit
  /\ UNCHANGED <<syncVars, callVars, looping, tidVars>>

ThreadYield ==
  /\ at("run")
  /\ thread_yield
  /\ UNCHANGED <<syncVars, callVars, looping, tidVars>>

\* The timer interrupt preempts a thread wherever interrupts are on.
Tick ==
  /\ InterruptsOn
  /\ thread_tick
  /\ UNCHANGED <<syncVars, callVars, looping, tidVars>>

IdleStart ==
  /\ at("idle_start")
  /\ idle_start
  /\ goto("idle_up", NULL, NULL)
  /\ UNCHANGED <<syncVars, looping, tidVars>>

\* Mutant: the idle thread does not announce itself to thread_start.
IdleUpMissing ==
  /\ at("idle_up")
  /\ goto("idle_loop", NULL, NULL)
  /\ UNCHANGED <<schedVars, syncVars, looping, tidVars>>

IdleUp ==
  /\ at("idle_up")
  /\ up(idle_started)
  /\ goto("idle_loop", NULL, NULL)
  /\ UNCHANGED <<restOfSched, holder, cond_waiters, looping, tidVars>>

IdleLoop ==
  /\ at("idle_loop")
  /\ idle_loop
  /\ UNCHANGED <<syncVars, callVars, looping, tidVars>>

-----------------------------------------------------------------------------
\* What a thread may do of its own will, at "run".
Call ==
  \/ \E s \in Semas : sema_down(s)
  \/ \E l \in Locks : lock_acquire(l) \/ lock_try_acquire(l) \/ lock_release(l)
  \/ \E c \in Conds : cond_wait(c) \/ cond_signal(c) \/ cond_broadcast(c)
  \/ \E t \in Threads : ThreadCreate(t)
  \/ ThreadExit
  \/ ThreadYield

\* What it does once it is in the kernel.
KernelStep ==
  \/ SemaDown
  \/ AcquireDown \/ Own \/ ReleaseUp
  \/ WaitRelease \/ WaitDown
  \/ SignalUp \/ BroadcastUp \/ Broadcast
  \/ TidRead \/ TidWrite \/ TidRelease \/ CreateEnd
  \/ IdleStart \/ IdleUp \/ IdleLoop

\* What also happens in interrupt handlers.
Interrupt ==
  \/ Tick
  \/ \E s \in Semas : sema_up(s) \/ sema_try_down(s)

Next == Call \/ KernelStep \/ Interrupt

Spec == SynchInit /\ [][Next]_vars

\* Fairness: the timer goes on interrupting, and a thread that gets the
\* processor again and again executes the kernel code it is in (a time slice
\* is 40 ms).  Threads need not call anything.
KernelFairness ==
  /\ WF_vars(Tick)
  /\ \A t \in Threads : SF_vars(current = t /\ KernelStep)

FairSpec == Spec /\ KernelFairness

-----------------------------------------------------------------------------
(* Safety *)

\* The thread a lock's semaphore is down for: its holder, or a thread between
\* sema_down and the assignment of holder, or between holder = NULL and
\* sema_up.
Owns(t, l) ==
  \/ holder[l] = t
  \/ pc[t] \in {"own", "release_up"} /\ sem[t] = l

\* A lock is held by at most one thread at a time (the comment above
\* lock_init), and its semaphore is 0 exactly while someone has it: neither
\* two owners nor a lock lost for ever.
LockExclusion ==
  \A l \in AllLocks :
    \/ value[l] = 1 /\ \A t \in Threads : ~ Owns(t, l)
    \/ value[l] = 0 /\ \E t \in Threads : \A u \in Threads : Owns(u, l) <=> u = t

\* elem links a thread into the ready list or into one semaphore's wait list,
\* never two (the comment on struct thread in threads/thread.h): a thread is
\* on a wait list exactly while it sleeps in sema_down on that semaphore.
WaitListsExact ==
  \A s \in AllSemas :
    /\ IsInjective(waiters[s])
    /\ \A t \in Threads : t \in Range(waiters[s])
         <=> t \in looping /\ status[t] = "BLOCKED" /\ sem[t] = s

\* The threads sema_up has woken but that have not run yet.
Woken(s) == {t \in looping : status[t] # "BLOCKED" /\ sem[t] = s}

\* While a thread sleeps on a semaphore, every unit of its value has a woken
\* thread on the way to take it: an up is never lost on a sleeper, however
\* bargers and woken threads race for the value.
NoLostWakeup ==
  \A s \in AllSemas :
    waiters[s] # <<>> => value[s] <= Cardinality(Woken(s))

\* Thread t has entered cond_wait on c and not yet been let through.
InWait(t, c) ==
  /\ cond[t] = c
  /\ pc[t] \in {"wait_release", "release_up", "wait_down"}

\* A thread is on its way to raise t's semaphore.
BeingSignalled(t) ==
  \E u \in Threads : pc[u] \in {"signal_up", "broadcast_up"} /\ sem[u] = t

\* A thread in cond_wait is queued on the condition, or about to be woken, or
\* woken: exactly one of the three, so no signal is lost or spent twice, and
\* the semaphore on its stack is used only while the frame is there.
CondWaitersExact ==
  /\ \A c \in Conds : IsInjective(cond_waiters[c])
  /\ \A t \in Threads, c \in Conds :
       t \in Range(cond_waiters[c])
         <=> InWait(t, c) /\ value[t] = 0 /\ ~ BeingSignalled(t)
  /\ \A t \in Threads :
       BeingSignalled(t) \/ value[t] > 0
         => /\ pc[t] = "wait_down"
            /\ value[t] = IF BeingSignalled(t) THEN 0 ELSE 1

\* tid_lock makes the load and the store of next_tid++ one: no two threads
\* ever have, or are about to have, the same tid.
UniqueTids ==
  /\ \A t, u \in all_list :
       t # u /\ tid[t] # 0 => tid[t] # tid[u] /\ tid[t] < next_tid
  /\ \A t \in Threads : pc[t] \in {"tid_release", "release_up", "create_end"}
       => new_tid[t] < next_tid /\ \A u \in all_list : new_tid[t] # 0 => tid[u] # new_tid[t]

\* The ASSERTs of lock_release and cond_signal hold in the kernel's own calls:
\* inside cond_wait, cond_signal, cond_broadcast and allocate_tid the running
\* thread really has the lock, preempted or not.
KernelAsserts ==
  \A t \in Threads :
    /\ pc[t] = "wait_release" => holder[sem[t]] = t
    /\ pc[t] \in {"signal_up", "broadcast_up", "broadcast"}
         => holder[CondLock[cond[t]]] = t
    /\ pc[t] \in {"tid_read", "tid_write", "tid_release"} => holder[tid_lock] = t

\* lock->holder is never overwritten: it goes from a thread to NULL by that
\* thread's own hand, and from NULL to a thread.
HolderHandover ==
  [][\A l \in AllLocks : holder[l] # NULL /\ holder'[l] # holder[l]
       => current = holder[l] /\ holder'[l] = NULL]_vars

\* Wait lists are FIFO: no sleeper overtakes another one on the same list.
FIFOWakeup ==
  [][\A s \in AllSemas :
       waiters'[s] # waiters[s] =>
         \/ waiters'[s] = Append(waiters[s], current)
         \/ waiters[s] # <<>> /\ waiters'[s] = Tail(waiters[s])]_vars

-----------------------------------------------------------------------------
(* Refinement: synch.c uses the scheduler as Scheduler allows, and implements *)
(* Monitor.                                                                   *)

\* Every step of a synchronization primitive is a legal use of thread.c:
\* thread_unblock gets only threads that are BLOCKED and known.
UsesScheduler == SchedSpec

OwnerOf(l) == IF \E t \in Threads : Owns(t, l)
              THEN CHOOSE t \in Threads : Owns(t, l) ELSE NULL

\* cond_wait takes effect when sema_up gives the lock back: whoever came last
\* is on the list before that, and nobody comes after him while he has the lock.
Asleep(c) ==
  LET s == cond_waiters[c] IN
  IF s # <<>> /\ pc[s[Len(s)]] # "wait_down" THEN SubSeq(s, 1, Len(s) - 1) ELSE s

Mon == INSTANCE Monitor WITH
         Locks   <- AllLocks,
         owner   <- [l \in AllLocks |-> OwnerOf(l)],
         waiting <- [c \in Conds |-> Asleep(c)]

\* The specification of locks and conditions that the comments of synch.c
\* give: cond_wait "atomically releases LOCK and waits".
ImplementsMonitor == Mon!Spec

-----------------------------------------------------------------------------
(* Liveness *)

\* thread_start returns: the idle thread gets to run, announces itself and
\* wakes main.
BootCompletes == <>(idle_thread # NULL /\ pc[initial_thread] = "run")

\* A lock that is free while threads sleep for it does not stay so: the value
\* sema_up leaves behind is picked up by someone.
FreeLockIsTaken ==
  \A l \in AllLocks :
    value[l] > 0 /\ waiters[l] # <<>> ~> value[l] = 0 \/ waiters[l] = <<>>

\* A signalled thread gets as far as asking for the lock again.
SignalledWakes ==
  \A t \in Threads : pc[t] = "wait_down" /\ value[t] > 0 ~> pc[t] = "acquire_down"

=============================================================================
