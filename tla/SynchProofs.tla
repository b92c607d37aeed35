---------------------------- MODULE SynchProofs ----------------------------
(***************************************************************************)
(* Proofs about Synch, for any sets of threads, locks, semaphores and      *)
(* condition variables.  SInv is inductive: the scheduler's invariant, the *)
(* types, what each label says of the thread's arguments (PcInv), the      *)
(* exact contents of the wait lists, the exclusion of the locks and the    *)
(* kernel's assertions about their holders.                                *)
(***************************************************************************)
EXTENDS Synch, SchedulerProofs

IdleLabels == {"idle_start", "idle_up", "idle_loop"}

\* Thread t is in allocate_tid, called by thread_create.
InAllocateTid(t) ==
  \/ pc[t] \in {"tid_read", "tid_write", "tid_release", "create_end"}
  \/ pc[t] \in {"acquire_down", "own", "release_up"} /\ sem[t] = tid_lock

\* What thread t works on at each label.
Arguments(t) ==
  /\ pc[t] = "sema_down" => sem[t] \in Semas \cup {idle_started}
  /\ pc[t] \in {"acquire_down", "own"} => sem[t] \in AllLocks
  /\ pc[t] = "release_up" => /\ sem[t] \in AllLocks /\ holder[sem[t]] = NULL
                             /\ cond[t] # NULL => sem[t] # tid_lock
  /\ pc[t] = "wait_release" => cond[t] \in Conds /\ sem[t] = CondLock[cond[t]]
  /\ pc[t] = "wait_down" => sem[t] = t /\ cond[t] \in Conds
  /\ pc[t] \in {"signal_up", "broadcast_up"} => sem[t] \in Threads /\ cond[t] \in Conds
  /\ pc[t] = "broadcast" => cond[t] \in Conds
  /\ t \in looping => pc[t] \in {"sema_down", "acquire_down", "wait_down"}

PcInv ==
  /\ \A t \in Threads : Arguments(t)
  /\ \A t \in Threads : pc[t] \in IdleLabels <=> t = IdlePage
  /\ pc[IdlePage] = "idle_start" <=> idle_thread = NULL
  /\ \A t \in Threads : newborn[t] # NULL <=> InAllocateTid(t)
  /\ \A t \in Threads : status[t] \in {"FREE", "DYING"} \/ t \in Range(newborn)
       => pc[t] = "run"

SInv ==
  /\ IInv
  /\ SynchTypeOK
  /\ PcInv
  /\ WaitListsExact
  /\ LockExclusion
  /\ KernelAsserts

-----------------------------------------------------------------------------
\* The names of semaphores do not clash.
LEMMA Names ==
  /\ tid_lock \in AllLocks /\ Locks \subseteq AllLocks /\ tid_lock \notin Locks
  /\ AllLocks \subseteq AllSemas /\ Semas \subseteq AllSemas
  /\ idle_started \in AllSemas /\ Threads \subseteq AllSemas
  /\ Semas \cap AllLocks = {} /\ Threads \cap AllLocks = {} /\ Threads \cap Semas = {}
  /\ idle_started \notin AllLocks /\ idle_started \notin Threads
  /\ NULL \notin AllSemas /\ NULL \notin Conds
  /\ \A c \in Conds : CondLock[c] \in Locks
  /\ IdlePage \in Threads /\ initial_thread \in Threads /\ initial_thread # IdlePage
BY SynchAssumption, SchedulerAssumption DEF AllLocks, AllSemas

LEMMA InitSInv == SynchInit => SInv
<1> SUFFICES ASSUME SynchInit PROVE SInv
  OBVIOUS
<1> USE Names DEF SynchInit
<1>1. IInv
  BY InitIInv
<1>2. SynchTypeOK
  <2>1. <<>> \in Seq(Threads)
    OBVIOUS
  <2>2. value \in [AllSemas -> Nat]
    BY SynchAssumption
  <2>3. pc \in [Threads -> Labels]
    BY DEF Labels
  <2>4. tid \in [Threads -> Nat]
    OBVIOUS
  <2> QED BY <2>1, <2>2, <2>3, <2>4 DEF SynchTypeOK
<1>3. PcInv
  <2>1. \A t \in Threads : newborn[t] = NULL
    BY DEF SchedInit
  <2>2. \A t \in Threads : status[t] \notin {"FREE", "DYING"} <=> t \in {initial_thread, IdlePage}
    BY DEF SchedInit
  <2>3. Range(newborn) = {NULL} /\ NULL \notin Threads
    BY DEF SchedInit, Range, AllSemas
  <2>4. idle_thread = NULL
    BY DEF SchedInit
  <2>5. \A t \in Threads : Arguments(t)
    BY DEF Arguments
  <2>6. \A t \in Threads : ~ InAllocateTid(t)
    BY DEF InAllocateTid
  <2>7. \A t \in Threads : pc[t] \in IdleLabels <=> t = IdlePage
    BY DEF IdleLabels
  <2> QED BY <2>1, <2>2, <2>3, <2>4, <2>5, <2>6, <2>7 DEF PcInv
<1>4. WaitListsExact
  BY DEF WaitListsExact, IsInjective, Range
<1>5. LockExclusion
  BY DEF LockExclusion, Owns, AllSemas
<1>6. KernelAsserts
  BY DEF KernelAsserts
<1> QED BY <1>1, <1>2, <1>3, <1>4, <1>5, <1>6 DEF SInv
-----------------------------------------------------------------------------
(* Synch uses the scheduler as Scheduler lets it be used. *)

\* Facts about the running thread used everywhere.
LEMMA Running ==
  ASSUME SInv
  PROVE  /\ current \in Threads /\ status[current] = "RUNNING"
         /\ \A t \in Threads : status[t] = "RUNNING" => t = current
         /\ current # IdlePage <=> pc[current] \notin IdleLabels
         /\ \A t \in looping : t # IdlePage /\ status[t] \notin {"FREE", "DYING"}
                               /\ t \notin Range(newborn)
         /\ \A s \in AllSemas : current \notin Range(waiters[s])
         /\ pc[current] = "run" => newborn[current] = NULL
         /\ pc[current] \in Labels
         /\ current \notin Range(newborn)
<1> USE DEF SInv, IInv, SchedInv, TypeOK, OneRunning, SynchTypeOK
<1>1. \A t \in looping : t \in Threads /\ pc[t] \in {"sema_down", "acquire_down", "wait_down"}
  BY DEF PcInv, Arguments
<1>2. \A t \in looping : t # IdlePage /\ status[t] \notin {"FREE", "DYING"}
                         /\ t \notin Range(newborn)
  BY <1>1 DEF PcInv, IdleLabels
<1>3. pc[current] = "run" => newborn[current] = NULL
  BY DEF PcInv, InAllocateTid
<1>4. \A s \in AllSemas : current \notin Range(waiters[s])
  BY DEF WaitListsExact
<1>5. current \notin Range(newborn)
  BY SchedulerAssumption DEF NewbornHidden, Range
<1> QED BY <1>2, <1>3, <1>4, <1>5 DEF PcInv

\* sema_up wakes a thread Scheduler lets it wake, or nobody.
LEMMA UpUsesScheduler ==
  ASSUME SInv, NEW s \in AllSemas, up(s), UNCHANGED restOfSched
  PROVE  [SchedNext]_schedVars
<1>1. CASE waiters[s] = <<>>
  BY <1>1 DEF up, restOfSched, schedVars
<1>2. CASE waiters[s] # <<>>
  <2> DEFINE t == Head(waiters[s])
  <2>1. waiters[s] \in Seq(Threads) /\ IsInjective(waiters[s])
    BY DEF SInv, SynchTypeOK, WaitListsExact
  <2>2. t \in Threads /\ t \in Range(waiters[s])
    BY <1>2, <2>1, TailOfInjective
  <2>3. t \in looping /\ status[t] = "BLOCKED"
    BY <2>2 DEF SInv, WaitListsExact
  <2>4. t # IdlePage /\ t \notin Range(newborn)
    BY <2>3, Running
  <2>5. unblock(t)
    BY <1>2 DEF up
  <2>6. thread_unblock(t)
    BY <2>3, <2>4, <2>5 DEF thread_unblock, restOfSched
  <2> QED BY <2>2, <2>6 DEF SchedNext
<1> QED BY <1>1, <1>2

\* A round of sema_down sleeps as a thread of Scheduler may, or does not
\* touch the scheduler.
LEMMA DownUsesScheduler ==
  ASSUME SInv, pc[current] \notin IdleLabels,
         NEW s, NEW l, NEW s2, NEW c2, down(s, l, s2, c2), UNCHANGED restOfSched
  PROVE  [SchedNext]_schedVars
<1>1. current # IdlePage
  BY Running
<1>2. CASE block
  BY <1>1, <1>2 DEF thread_block, InThreadCode, SchedNext, restOfSched
<1>3. CASE UNCHANGED <<status, ready_list, current, thread_ticks>>
  BY <1>3 DEF schedVars, restOfSched
<1> QED BY <1>2, <1>3 DEF down

LEMMA StepUsesScheduler == SInv /\ [Next]_vars => [SchedNext]_schedVars
<1> SUFFICES ASSUME SInv, [Next]_vars PROVE [SchedNext]_schedVars
  OBVIOUS
<1>0. /\ current \in Threads
      /\ Arguments(current)
      /\ pc[current] \in Labels
  BY Running DEF SInv, PcInv
<1> USE DEF at
<1>1. CASE SemaDown
  BY <1>0, <1>1, DownUsesScheduler DEF SemaDown, IdleLabels
<1>2. CASE AcquireDown
  BY <1>0, <1>2, DownUsesScheduler DEF AcquireDown, IdleLabels
<1>3. CASE WaitDown
  BY <1>0, <1>3, DownUsesScheduler DEF WaitDown, IdleLabels
<1>4. CASE ReleaseUp
  BY <1>0, <1>4, Names, UpUsesScheduler DEF ReleaseUp, Arguments
<1>5. CASE SignalUp \/ BroadcastUp
  BY <1>0, <1>5, Names, UpUsesScheduler DEF SignalUp, BroadcastUp, Arguments
<1>6. CASE IdleUp
  BY <1>6, Names, UpUsesScheduler DEF IdleUp
<1>7. CASE \E s \in Semas : sema_up(s)
  BY <1>7, Names, UpUsesScheduler DEF sema_up
<1>8. CASE Tick \/ ThreadYield \/ ThreadExit \/ CreateEnd \/ IdleStart \/ IdleLoop
           \/ \E t \in Threads : ThreadCreate(t)
  BY <1>8 DEF Tick, ThreadYield, ThreadExit, CreateEnd, IdleStart, IdleLoop,
              ThreadCreate, SchedNext
<1>9. CASE UNCHANGED schedVars
  BY <1>9
<1>10. CASE \/ \E s \in Semas : sema_down(s) \/ sema_try_down(s)
            \/ \E l \in Locks : lock_acquire(l) \/ lock_try_acquire(l) \/ lock_release(l)
            \/ \E c \in Conds : cond_wait(c) \/ cond_signal(c) \/ cond_broadcast(c)
            \/ Own \/ WaitRelease \/ Broadcast \/ TidRead \/ TidWrite \/ TidRelease
  <2>1. UNCHANGED schedVars
    BY <1>10 DEF sema_down, sema_try_down, lock_acquire, lock_try_acquire, lock_release,
                 cond_wait, cond_signal, cond_broadcast, Own, WaitRelease, Broadcast,
                 TidRead, TidWrite, TidRelease, disown, pop
  <2> QED BY <2>1
<1>11. UNCHANGED vars => UNCHANGED schedVars
  BY DEF vars
<1> QED
  BY <1>1, <1>2, <1>3, <1>4, <1>5, <1>6, <1>7, <1>8, <1>9, <1>10, <1>11
  DEF Next, Call, KernelStep, Interrupt
-----------------------------------------------------------------------------
(* The steps that leave the scheduler alone. *)

LEMMA SchedUnchanged ==
  ASSUME IInv, UNCHANGED schedVars
  PROVE  IInv'
BY NextIInv

\* waiters of the running thread's own semaphore: nobody else sleeps there.
LEMMA OwnSemaphoreIdle ==
  ASSUME SInv
  PROVE  waiters[current] = <<>>
<1>1. current \in Threads /\ waiters[current] \in Seq(Threads)
  BY Running, Names DEF SInv, SynchTypeOK
<1>2. ASSUME NEW t \in Range(waiters[current]) PROVE FALSE
  <2>1. t \in Threads
    BY <1>1, <1>2, ElementOfSeq, LenProperties DEF Range
  <2>2. t \in looping /\ sem[t] = current /\ status[t] = "BLOCKED"
    BY <1>1, <1>2, <2>1, Names DEF SInv, WaitListsExact
  <2>3. pc[t] \in {"sema_down", "acquire_down", "wait_down"}
    BY <2>1, <2>2 DEF SInv, PcInv, Arguments
  <2>4. t = current
    BY <1>1, <2>1, <2>2, <2>3, Names DEF SInv, PcInv, Arguments
  <2> QED BY <2>2, <2>4, Running
<1>3. waiters[current] # <<>> => Head(waiters[current]) \in Range(waiters[current])
  BY <1>1, HeadTailProperties, EmptySeq, LenProperties DEF Range
<1> QED BY <1>2, <1>3

\* The locks' part of the invariant depends on their values and owners only.
LEMMA LockFrame ==
  ASSUME LockExclusion,
         \A l \in AllLocks : value'[l] = value[l],
         \A t \in Threads, l \in AllLocks : Owns(t, l)' <=> Owns(t, l)
  PROVE  LockExclusion'
<1> SUFFICES ASSUME NEW l \in AllLocks
             PROVE  \/ value'[l] = 1 /\ \A t \in Threads : ~ Owns(t, l)'
                    \/ value'[l] = 0 /\ \E t \in Threads : \A u \in Threads : Owns(u, l)' <=> u = t
  BY DEF LockExclusion
<1>1. /\ value'[l] = value[l]
      /\ \A t \in Threads : Owns(t, l)' <=> Owns(t, l)
  OBVIOUS
<1>2. \/ value[l] = 1 /\ \A t \in Threads : ~ Owns(t, l)
      \/ value[l] = 0 /\ \E t \in Threads : \A u \in Threads : Owns(u, l) <=> u = t
  BY DEF LockExclusion
<1> HIDE DEF Owns
<1> QED BY ONLY <1>1, <1>2

\* Two owners of a lock are the same thread.
LEMMA OneOwner ==
  ASSUME SInv, NEW l \in AllLocks, NEW t \in Threads, NEW u \in Threads,
         Owns(t, l), Owns(u, l)
  PROVE  t = u /\ value[l] = 0
BY DEF SInv, LockExclusion

\* Taking one from a positive entry.
LEMMA DecrementType ==
  ASSUME NEW S, NEW f \in [S -> Nat], NEW x \in S, f[x] > 0
  PROVE  [f EXCEPT ![x] = @ - 1] \in [S -> Nat]
<1>1. f[x] - 1 \in Nat
  OBVIOUS
<1> QED BY <1>1

\* Taking a free lock makes its only owner.
LEMMA TakeLock ==
  ASSUME SInv, NEW l \in AllLocks, value[l] > 0,
         value' = [value EXCEPT ![l] = @ - 1], holder' = holder,
         goto("own", l, NULL), pc[current] \notin {"own", "release_up"}
  PROVE  LockExclusion'
<1>0. /\ current \in Threads /\ AllLocks \subseteq AllSemas
      /\ value \in [AllSemas -> Nat]
      /\ pc \in [Threads -> Labels] /\ sem \in [Threads -> AllSemas \cup {NULL}]
  BY Running, Names DEF SInv, SynchTypeOK
<1>1. value[l] = 1 /\ \A t \in Threads : ~ Owns(t, l)
  BY DEF SInv, LockExclusion
<1>2. \A t \in Threads : Owns(t, l)' <=> t = current
  BY <1>0, <1>1 DEF Owns, goto
<1>3. \A k \in AllLocks \ {l} : \A t \in Threads : Owns(t, k)' <=> Owns(t, k)
  BY <1>0 DEF Owns, goto
<1>4. value'[l] = 0 /\ \A k \in AllLocks \ {l} : value'[k] = value[k]
  BY <1>0, <1>1
<1>5. ASSUME NEW k \in AllLocks
      PROVE  \/ value'[k] = 1 /\ \A t \in Threads : ~ Owns(t, k)'
             \/ value'[k] = 0 /\ \E t \in Threads : \A u \in Threads : Owns(u, k)' <=> u = t
  <2>1. CASE k = l
    BY <1>0, <1>2, <1>4, <2>1
  <2>2. CASE k # l
    <3>1. \/ value[k] = 1 /\ \A t \in Threads : ~ Owns(t, k)
          \/ value[k] = 0 /\ \E t \in Threads : \A u \in Threads : Owns(u, k) <=> u = t
      BY DEF SInv, LockExclusion
    <3>2. value'[k] = value[k] /\ \A t \in Threads : Owns(t, k)' <=> Owns(t, k)
      BY <1>3, <1>4, <2>2
    <3> HIDE DEF Owns
    <3> QED BY ONLY <3>1, <3>2
  <2> QED BY <2>1, <2>2
<1> QED BY <1>5 DEF LockExclusion

\* What PcInv says of thread t.
PcLocal(t) ==
  /\ Arguments(t)
  /\ pc[t] \in IdleLabels <=> t = IdlePage
  /\ newborn[t] # NULL <=> InAllocateTid(t)
  /\ status[t] \in {"FREE", "DYING"} \/ t \in Range(newborn) => pc[t] = "run"

LEMMA PcInvLocal ==
  PcInv <=> /\ \A t \in Threads : PcLocal(t)
            /\ pc[IdlePage] = "idle_start" <=> idle_thread = NULL
BY DEF PcInv, PcLocal

\* A step changes what PcInv says of the running thread only, unless it
\* creates or kills a thread or touches a lock in another thread's hands.
LEMMA PcFrame ==
  ASSUME SInv, NEW l, NEW s, NEW c, goto(l, s, c) \/ UNCHANGED callVars,
         idle_thread' = idle_thread,
         newborn' = newborn,
         \A t \in Threads \ {current} :
           status'[t] \in {"FREE", "DYING"} => status[t] \in {"FREE", "DYING"},
         \A t \in looping' : t \in looping \/ t = current,
         \A k \in AllLocks : holder'[k] = holder[k] \/ Owns(current, k),
         (current = IdlePage) => (pc'[current] # "idle_start" <=> idle_thread # NULL),
         \A t \in Threads : t = current => PcLocal(t)'
  PROVE  PcInv'
<1>0. /\ current \in Threads /\ IdlePage \in Threads
      /\ pc \in [Threads -> Labels] /\ sem \in [Threads -> AllSemas \cup {NULL}]
      /\ cond \in [Threads -> Conds \cup {NULL}]
      /\ \A t \in Threads : PcLocal(t)
      /\ pc[IdlePage] = "idle_start" <=> idle_thread = NULL
  BY Running, Names, PcInvLocal DEF SInv, SynchTypeOK
<1>1. ASSUME NEW t \in Threads, t # current
      PROVE  PcLocal(t)'
  <2>1. pc'[t] = pc[t] /\ sem'[t] = sem[t] /\ cond'[t] = cond[t]
    BY <1>0, <1>1 DEF goto, callVars
  <2>2. Arguments(t)'
    <3>1. Arguments(t) /\ (t \in looping' => t \in looping)
      BY <1>0, <1>1 DEF PcLocal
    <3>2. ASSUME pc[t] = "release_up" PROVE holder'[sem[t]] = NULL
      <4>1. sem[t] \in AllLocks /\ holder[sem[t]] = NULL /\ Owns(t, sem[t])
        BY <3>1, <3>2 DEF Arguments, Owns
      <4>2. ~ Owns(current, sem[t])
        BY <1>0, <1>1, <4>1, OneOwner
      <4> QED BY <4>1, <4>2
    <3> QED BY <2>1, <3>1, <3>2 DEF Arguments
  <2>3. InAllocateTid(t)' <=> InAllocateTid(t)
    BY <2>1 DEF InAllocateTid
  <2>4. PcLocal(t)
    BY <1>0
  <2> QED BY <2>1, <2>2, <2>3, <2>4 DEF PcLocal
<1>2. pc'[IdlePage] = "idle_start" <=> idle_thread' = NULL
  BY <1>0 DEF goto, callVars
<1>3. \A t \in Threads : PcLocal(t)'
  BY <1>1
<1> QED BY <1>2, <1>3 DEF PcInv, PcLocal

\* What KernelAsserts says of thread t.
AssertsLocal(t) ==
  /\ pc[t] = "wait_release" => holder[sem[t]] = t
  /\ pc[t] \in {"signal_up", "broadcast_up", "broadcast"} => holder[CondLock[cond[t]]] = t
  /\ pc[t] \in {"tid_read", "tid_write", "tid_release"} => holder[tid_lock] = t

LEMMA AssertsFrame ==
  ASSUME SInv, NEW l, NEW s, NEW c, goto(l, s, c) \/ UNCHANGED callVars,
         \A k \in AllLocks : holder'[k] = holder[k] \/ Owns(current, k),
         \A t \in Threads : t = current => AssertsLocal(t)'
  PROVE  KernelAsserts'
<1>0. /\ current \in Threads
      /\ pc \in [Threads -> Labels] /\ sem \in [Threads -> AllSemas \cup {NULL}]
      /\ cond \in [Threads -> Conds \cup {NULL}]
      /\ \A t \in Threads : Arguments(t)
      /\ \A c2 \in Conds : CondLock[c2] \in AllLocks
      /\ tid_lock \in AllLocks
  BY Running, Names DEF SInv, SynchTypeOK, PcInv
<1>1. ASSUME NEW t \in Threads, t # current, NEW k \in AllLocks, holder[k] = t
      PROVE  holder'[k] = t
  BY <1>0, <1>1, OneOwner DEF Owns
<1>2. ASSUME NEW t \in Threads, t # current
      PROVE  AssertsLocal(t)'
  <2>1. pc'[t] = pc[t] /\ sem'[t] = sem[t] /\ cond'[t] = cond[t]
    BY <1>0, <1>2 DEF goto, callVars
  <2>2. AssertsLocal(t) /\ Arguments(t)
    BY <1>0 DEF SInv, KernelAsserts, AssertsLocal
  <2> QED BY <1>0, <1>1, <1>2, <2>1, <2>2 DEF AssertsLocal, Arguments
<1>3. \A t \in Threads : AssertsLocal(t)'
  BY <1>2
<1> QED BY <1>3 DEF KernelAsserts, AssertsLocal

\* The wait lists stay exact when nobody joins or leaves them.
LEMMA WaitFrame ==
  ASSUME SInv, waiters' = waiters,
         \A t \in Threads \ {current} : t \in looping' <=> t \in looping,
         \A t \in Threads \ {current} : sem'[t] = sem[t],
         \A t \in looping \ {current} : status'[t] = "BLOCKED" <=> status[t] = "BLOCKED",
         status'[current] = "BLOCKED" => current \notin looping'
  PROVE  WaitListsExact'
<1>1. /\ current \in Threads /\ status[current] = "RUNNING"
      /\ \A k \in AllSemas : current \notin Range(waiters[k])
  BY Running
<1> QED BY <1>1 DEF SInv, WaitListsExact

\* Where the running thread is after goto, the scheduler unchanged.
LEMMA AfterGoto ==
  ASSUME SInv, NEW l, NEW s, NEW c, goto(l, s, c), UNCHANGED schedVars,
         NEW t \in Threads, t = current
  PROVE  /\ pc'[t] = l /\ sem'[t] = s /\ cond'[t] = c
         /\ PcLocal(t) /\ AssertsLocal(t)
         /\ newborn'[t] = newborn[t]
         /\ status'[t] = "RUNNING" /\ t \notin Range(newborn')
<1>1. pc \in [Threads -> Labels] /\ sem \in [Threads -> AllSemas \cup {NULL}]
      /\ cond \in [Threads -> Conds \cup {NULL}]
  BY DEF SInv, SynchTypeOK
<1>2. pc'[t] = l /\ sem'[t] = s /\ cond'[t] = c
  BY <1>1 DEF goto
<1>3. PcLocal(t) /\ AssertsLocal(t)
  BY PcInvLocal DEF SInv, KernelAsserts, AssertsLocal
<1> QED BY <1>2, <1>3, Running DEF schedVars

LEMMA CallSteps ==
  ASSUME SInv,
         \/ \E s \in Semas : sema_down(s) \/ sema_try_down(s)
         \/ \E l \in Locks : lock_acquire(l) \/ lock_try_acquire(l) \/ lock_release(l)
         \/ \E c \in Conds : cond_wait(c) \/ cond_signal(c) \/ cond_broadcast(c)
         \/ Own \/ WaitRelease \/ Broadcast \/ TidRead \/ TidWrite \/ TidRelease
  PROVE  SInv'
<1>0. /\ current \in Threads /\ current \in AllSemas
      /\ \A t \in Threads : Arguments(t)
      /\ current \notin looping => InterruptsOn
      /\ looping \subseteq Threads
  BY Running, Names DEF SInv, PcInv, SynchTypeOK, InterruptsOn
<1>1. UNCHANGED <<schedVars, looping>>
  BY DEF sema_down, sema_try_down, lock_acquire, lock_try_acquire, lock_release,
         cond_wait, cond_signal, cond_broadcast, Own, WaitRelease, Broadcast,
         TidRead, TidWrite, TidRelease, disown, pop
<1>2. IInv'
  BY <1>1, SchedUnchanged DEF SInv
<1>a. SynchTypeOK
  BY DEF SInv
<1>3. ASSUME waiters' = waiters, NEW l, NEW s, NEW c,
             goto(l, s, c) \/ UNCHANGED callVars
      PROVE  WaitListsExact'
  <2>1. \A t \in Threads \ {current} : sem'[t] = sem[t]
    BY <1>a, <1>3 DEF goto, callVars, SynchTypeOK
  <2>2. status' = status /\ looping' = looping /\ status[current] = "RUNNING"
    BY <1>1, Running DEF schedVars
  <2> QED BY <1>3, <2>1, <2>2, WaitFrame
<1>b. ASSUME NEW l \in Labels, NEW s \in AllSemas \cup {NULL},
             NEW c \in Conds \cup {NULL}, goto(l, s, c)
      PROVE  /\ pc' \in [Threads -> Labels] /\ sem' \in [Threads -> AllSemas \cup {NULL}]
             /\ cond' \in [Threads -> Conds \cup {NULL}]
  BY <1>a, <1>b DEF goto, SynchTypeOK
<1>4. ASSUME NEW s \in Semas, sema_down(s) PROVE SInv'
  <2>1. /\ pc[current] = "run" /\ goto("sema_down", s, NULL)
        /\ UNCHANGED <<value, waiters, holder, cond_waiters, tidVars>>
    BY <1>0, <1>4 DEF sema_down, at, syncVars
  <2>2. SynchTypeOK'
    BY <1>0, <1>a, <1>b, <1>1, <2>1, Names DEF SynchTypeOK, Labels, tidVars
  <2>3. \A k \in AllLocks : holder'[k] = holder[k] \/ Owns(current, k)
    BY <2>1
  <2>4. PcInv'
    <3>1. \A t \in Threads : t = current => PcLocal(t)'
      BY <1>1, <2>1, AfterGoto, Names
      DEF PcLocal, Arguments, IdleLabels, InAllocateTid
    <3> QED BY <1>0, <1>1, <2>1, <2>3, <3>1, Running, PcFrame DEF schedVars, IdleLabels
  <2>5. WaitListsExact'
    BY <1>3, <2>1
  <2>6. LockExclusion'
    <3>1. \A t \in Threads, k \in AllLocks : Owns(t, k)' <=> Owns(t, k)
      BY <1>0, <1>a, <2>1, Names DEF Owns, goto, SynchTypeOK
    <3>2. \A k \in AllLocks : value'[k] = value[k]
      BY <1>0, <1>a, <2>1, Names DEF SynchTypeOK
    <3> QED BY <3>1, <3>2, LockFrame DEF SInv
  <2>7. KernelAsserts'
    <3>1. \A t \in Threads : t = current => AssertsLocal(t)'
      BY <1>1, <2>1, AfterGoto, Names DEF AssertsLocal, PcLocal, Arguments
    <3> QED BY <2>1, <2>3, <3>1, AssertsFrame
  <2> QED BY <1>2, <2>2, <2>4, <2>5, <2>6, <2>7 DEF SInv
<1>5. ASSUME NEW s \in Semas, sema_try_down(s) PROVE SInv'
  <2>1. /\ value[s] > 0 /\ value' = [value EXCEPT ![s] = @ - 1]
        /\ UNCHANGED <<waiters, holder, cond_waiters, callVars, tidVars>>
        /\ goto(pc[current], sem[current], cond[current])
    BY <1>0, <1>a, <1>5 DEF sema_try_down, callVars, goto, SynchTypeOK
  <2>2. SynchTypeOK'
    <3>1. value' \in [AllSemas -> Nat]
      BY <1>0, <1>a, <2>1, Names, DecrementType DEF SynchTypeOK
    <3> QED BY <1>0, <1>a, <1>1, <2>1, <3>1, Names DEF SynchTypeOK, Labels, tidVars, callVars
  <2>3. \A k \in AllLocks : holder'[k] = holder[k] \/ Owns(current, k)
    BY <2>1
  <2>4. PcInv'
    BY <1>1, <2>1 DEF SInv, PcInv, Arguments, InAllocateTid, callVars, schedVars
  <2>5. WaitListsExact'
    BY <1>3, <2>1
  <2>6. LockExclusion'
    <3>1. \A t \in Threads, k \in AllLocks : Owns(t, k)' <=> Owns(t, k)
      BY <2>1 DEF Owns, callVars
    <3>2. \A k \in AllLocks : value'[k] = value[k]
      BY <1>0, <1>a, <2>1, Names DEF SynchTypeOK
    <3> QED BY <3>1, <3>2, LockFrame DEF SInv
  <2>7. KernelAsserts'
    <3>1. \A t \in Threads : t = current => AssertsLocal(t)'
      BY <2>1 DEF SInv, KernelAsserts, AssertsLocal, callVars
    <3> QED BY <2>1, <2>3, <3>1, AssertsFrame
  <2> QED BY <1>2, <2>2, <2>4, <2>5, <2>6, <2>7 DEF SInv
<1>6. ASSUME NEW l \in Locks, lock_acquire(l) PROVE SInv'
  <2>1. /\ pc[current] = "run" /\ goto("acquire_down", l, NULL)
        /\ UNCHANGED <<value, waiters, holder, cond_waiters, tidVars>>
    BY <1>0, <1>6 DEF lock_acquire, at, syncVars
  <2>2. SynchTypeOK'
    BY <1>0, <1>a, <1>b, <1>1, <2>1, Names DEF SynchTypeOK, Labels, tidVars
  <2>3. \A k \in AllLocks : holder'[k] = holder[k] \/ Owns(current, k)
    BY <2>1
  <2>4. PcInv'
    <3>1. \A t \in Threads : t = current => PcLocal(t)'
      BY <1>1, <2>1, AfterGoto, Names
      DEF PcLocal, Arguments, IdleLabels, InAllocateTid
    <3> QED BY <1>0, <1>1, <2>1, <2>3, <3>1, Running, PcFrame DEF schedVars, IdleLabels
  <2>5. WaitListsExact'
    BY <1>3, <2>1
  <2>6. LockExclusion'
    <3>1. \A t \in Threads, k \in AllLocks : Owns(t, k)' <=> Owns(t, k)
      BY <1>0, <1>a, <2>1, Names DEF Owns, goto, SynchTypeOK
    <3>2. \A k \in AllLocks : value'[k] = value[k]
      BY <1>0, <1>a, <2>1, Names DEF SynchTypeOK
    <3> QED BY <3>1, <3>2, LockFrame DEF SInv
  <2>7. KernelAsserts'
    <3>1. \A t \in Threads : t = current => AssertsLocal(t)'
      BY <1>1, <2>1, AfterGoto, Names DEF AssertsLocal, PcLocal, Arguments
    <3> QED BY <2>1, <2>3, <3>1, AssertsFrame
  <2> QED BY <1>2, <2>2, <2>4, <2>5, <2>6, <2>7 DEF SInv
<1>7. ASSUME NEW l \in Locks, lock_try_acquire(l) PROVE SInv'
  <2>1. /\ pc[current] = "run" /\ goto("own", l, NULL)
        /\ value[l] > 0 /\ value' = [value EXCEPT ![l] = @ - 1] /\ l \in AllLocks
        /\ UNCHANGED <<waiters, holder, cond_waiters, tidVars>>
    BY <1>0, Names, <1>7 DEF lock_try_acquire, at
  <2>2. SynchTypeOK'
    <3>1. value' \in [AllSemas -> Nat]
      BY <1>0, <1>a, <2>1, Names, DecrementType DEF SynchTypeOK
    <3> QED BY <1>0, <1>a, <1>b, <1>1, <2>1, <3>1, Names DEF SynchTypeOK, Labels, tidVars, callVars
  <2>3. \A k \in AllLocks : holder'[k] = holder[k] \/ Owns(current, k)
    BY <2>1
  <2>4. PcInv'
    <3>1. \A t \in Threads : t = current => PcLocal(t)'
      BY <1>1, <2>1, AfterGoto, Names
      DEF PcLocal, Arguments, IdleLabels, InAllocateTid
    <3> QED BY <1>0, <1>1, <2>1, <2>3, <3>1, Running, PcFrame DEF schedVars, IdleLabels
  <2>5. WaitListsExact'
    BY <1>3, <2>1
  <2>6. LockExclusion'
    BY <1>0, <1>a, <2>1, TakeLock
  <2>7. KernelAsserts'
    <3>1. \A t \in Threads : t = current => AssertsLocal(t)'
      BY <1>1, <2>1, AfterGoto, Names DEF AssertsLocal, PcLocal, Arguments
    <3> QED BY <2>1, <2>3, <3>1, AssertsFrame
  <2> QED BY <1>2, <2>2, <2>4, <2>5, <2>6, <2>7 DEF SInv
<1>8. ASSUME NEW l \in Locks, lock_release(l) PROVE SInv'
  <2>1. /\ pc[current] = "run" /\ goto("release_up", l, NULL)
        /\ holder[l] = current /\ holder' = [holder EXCEPT ![l] = NULL] /\ l \in AllLocks
        /\ UNCHANGED <<value, waiters, cond_waiters, tidVars>>
    BY <1>0, Names, <1>8 DEF lock_release, disown, at
  <2>2. SynchTypeOK'
    <3>1. holder' \in [AllLocks -> Threads \cup {NULL}]
      BY <1>0, <1>a, <2>1, Names DEF SynchTypeOK
    <3> QED BY <1>0, <1>a, <1>b, <1>1, <2>1, <3>1, Names DEF SynchTypeOK, Labels, tidVars, callVars
  <2>3. \A k \in AllLocks : holder'[k] = holder[k] \/ Owns(current, k)
    BY <1>a, <2>1 DEF Owns, SynchTypeOK
  <2>h. holder'[l] = NULL
    BY <1>a, <2>1 DEF SynchTypeOK
  <2>4. PcInv'
    <3>1. \A t \in Threads : t = current => PcLocal(t)'
      BY <1>1, <2>1, <2>h, AfterGoto, Names
      DEF PcLocal, Arguments, IdleLabels, InAllocateTid
    <3> QED BY <1>0, <1>1, <2>1, <2>3, <3>1, Running, PcFrame DEF schedVars, IdleLabels
  <2>5. WaitListsExact'
    BY <1>3, <2>1
  <2>6. LockExclusion'
    <3>1. ASSUME NEW t \in Threads, NEW k \in AllLocks
          PROVE  Owns(t, k)' <=> Owns(t, k)
      <4>1. IF t = current THEN /\ pc[t] = "run" /\ pc'[t] = "release_up" /\ sem'[t] = l
                           ELSE pc'[t] = pc[t] /\ sem'[t] = sem[t]
        BY <1>a, <2>1 DEF goto, SynchTypeOK
      <4>2. holder'[k] = IF k = l THEN NULL ELSE holder[k]
        BY <1>a, <2>1 DEF SynchTypeOK
      <4>3. t # NULL
        BY Names
      <4>4. holder[l] = current
        BY <2>1
      <4> QED BY ONLY <4>1, <4>2, <4>3, <4>4 DEF Owns
    <3>2. \A k \in AllLocks : value'[k] = value[k]
      BY <1>0, <1>a, <2>1, Names DEF SynchTypeOK
    <3> QED BY <3>1, <3>2, LockFrame DEF SInv
  <2>7. KernelAsserts'
    <3>1. \A t \in Threads : t = current => AssertsLocal(t)'
      BY <1>1, <2>1, AfterGoto, Names DEF AssertsLocal, PcLocal, Arguments
    <3> QED BY <2>1, <2>3, <3>1, AssertsFrame
  <2> QED BY <1>2, <2>2, <2>4, <2>5, <2>6, <2>7 DEF SInv
<1>9. ASSUME NEW c \in Conds, cond_wait(c) PROVE SInv'
  <2>1. /\ pc[current] = "run" /\ goto("wait_release", CondLock[c], c)
        /\ holder[CondLock[c]] = current /\ CondLock[c] \in Locks
        /\ value' = [value EXCEPT ![current] = 0]
        /\ waiters' = [waiters EXCEPT ![current] = <<>>] /\ waiters' = waiters
        /\ cond_waiters' = [cond_waiters EXCEPT ![c] = Append(@, current)]
        /\ UNCHANGED <<holder, tidVars>>
    BY <1>0, <1>a, OwnSemaphoreIdle, Names, <1>9 DEF cond_wait, at, SynchTypeOK
  <2>2. SynchTypeOK'
    <3>1. value' \in [AllSemas -> Nat]
      BY <1>0, <1>a, <2>1 DEF SynchTypeOK
    <3>2. Append(cond_waiters[c], current) \in Seq(Threads)
      BY <1>0, <1>a, AppendProperties DEF SynchTypeOK
    <3>3. cond_waiters' \in [Conds -> Seq(Threads)]
      BY <1>a, <2>1, <3>2 DEF SynchTypeOK
    <3> QED BY <1>0, <1>a, <1>b, <1>1, <2>1, <3>1, <3>3, Names DEF SynchTypeOK, Labels, tidVars, callVars
  <2>3. \A k \in AllLocks : holder'[k] = holder[k] \/ Owns(current, k)
    BY <2>1
  <2>4. PcInv'
    <3>1. \A t \in Threads : t = current => PcLocal(t)'
      BY <1>1, <2>1, AfterGoto, Names
      DEF PcLocal, Arguments, IdleLabels, InAllocateTid
    <3> QED BY <1>0, <1>1, <2>1, <2>3, <3>1, Running, PcFrame DEF schedVars, IdleLabels
  <2>5. WaitListsExact'
    BY <1>3, <2>1
  <2>6. LockExclusion'
    <3>1. \A t \in Threads, k \in AllLocks : Owns(t, k)' <=> Owns(t, k)
      BY <1>0, <1>a, <2>1, Names DEF Owns, goto, SynchTypeOK
    <3>2. \A k \in AllLocks : value'[k] = value[k]
      BY <1>0, <1>a, <2>1, Names DEF SynchTypeOK
    <3> QED BY <3>1, <3>2, LockFrame DEF SInv
  <2>7. KernelAsserts'
    <3>1. \A t \in Threads : t = current => AssertsLocal(t)'
      BY <1>1, <2>1, AfterGoto, Names DEF AssertsLocal, PcLocal, Arguments
    <3> QED BY <2>1, <2>3, <3>1, AssertsFrame
  <2> QED BY <1>2, <2>2, <2>4, <2>5, <2>6, <2>7 DEF SInv
<1>10. ASSUME NEW c \in Conds, cond_signal(c) PROVE SInv'
  <2>1. /\ pc[current] = "run" /\ goto("signal_up", Head(cond_waiters[c]), c)
        /\ holder[CondLock[c]] = current /\ Head(cond_waiters[c]) \in Threads
        /\ cond_waiters' = [cond_waiters EXCEPT ![c] = Tail(@)]
        /\ Tail(cond_waiters[c]) \in Seq(Threads)
        /\ UNCHANGED <<value, waiters, holder, tidVars>>
    BY <1>0, <1>a, HeadTailProperties, <1>10 DEF cond_signal, pop, at, SynchTypeOK
  <2>2. SynchTypeOK'
    <3>1. cond_waiters' \in [Conds -> Seq(Threads)]
      BY <1>0, <1>a, <2>1, Names DEF SynchTypeOK
    <3> QED BY <1>0, <1>a, <1>b, <1>1, <2>1, <3>1, Names DEF SynchTypeOK, Labels, tidVars, callVars
  <2>3. \A k \in AllLocks : holder'[k] = holder[k] \/ Owns(current, k)
    BY <2>1
  <2>4. PcInv'
    <3>1. \A t \in Threads : t = current => PcLocal(t)'
      BY <1>1, <2>1, AfterGoto, Names
      DEF PcLocal, Arguments, IdleLabels, InAllocateTid
    <3> QED BY <1>0, <1>1, <2>1, <2>3, <3>1, Running, PcFrame DEF schedVars, IdleLabels
  <2>5. WaitListsExact'
    BY <1>3, <2>1
  <2>6. LockExclusion'
    <3>1. \A t \in Threads, k \in AllLocks : Owns(t, k)' <=> Owns(t, k)
      BY <1>0, <1>a, <2>1, Names DEF Owns, goto, SynchTypeOK
    <3>2. \A k \in AllLocks : value'[k] = value[k]
      BY <1>0, <1>a, <2>1, Names DEF SynchTypeOK
    <3> QED BY <3>1, <3>2, LockFrame DEF SInv
  <2>7. KernelAsserts'
    <3>1. \A t \in Threads : t = current => AssertsLocal(t)'
      BY <1>1, <2>1, AfterGoto, Names DEF AssertsLocal, PcLocal, Arguments
    <3> QED BY <2>1, <2>3, <3>1, AssertsFrame
  <2> QED BY <1>2, <2>2, <2>4, <2>5, <2>6, <2>7 DEF SInv
<1>11. ASSUME NEW c \in Conds, cond_broadcast(c) PROVE SInv'
  <2>1. /\ pc[current] = "run" /\ goto("broadcast_up", Head(cond_waiters[c]), c)
        /\ holder[CondLock[c]] = current /\ Head(cond_waiters[c]) \in Threads
        /\ cond_waiters' = [cond_waiters EXCEPT ![c] = Tail(@)]
        /\ Tail(cond_waiters[c]) \in Seq(Threads)
        /\ UNCHANGED <<value, waiters, holder, tidVars>>
    BY <1>0, <1>a, HeadTailProperties, <1>11 DEF cond_broadcast, pop, at, SynchTypeOK
  <2>2. SynchTypeOK'
    <3>1. cond_waiters' \in [Conds -> Seq(Threads)]
      BY <1>0, <1>a, <2>1, Names DEF SynchTypeOK
    <3> QED BY <1>0, <1>a, <1>b, <1>1, <2>1, <3>1, Names DEF SynchTypeOK, Labels, tidVars, callVars
  <2>3. \A k \in AllLocks : holder'[k] = holder[k] \/ Owns(current, k)
    BY <2>1
  <2>4. PcInv'
    <3>1. \A t \in Threads : t = current => PcLocal(t)'
      BY <1>1, <2>1, AfterGoto, Names
      DEF PcLocal, Arguments, IdleLabels, InAllocateTid
    <3> QED BY <1>0, <1>1, <2>1, <2>3, <3>1, Running, PcFrame DEF schedVars, IdleLabels
  <2>5. WaitListsExact'
    BY <1>3, <2>1
  <2>6. LockExclusion'
    <3>1. \A t \in Threads, k \in AllLocks : Owns(t, k)' <=> Owns(t, k)
      BY <1>0, <1>a, <2>1, Names DEF Owns, goto, SynchTypeOK
    <3>2. \A k \in AllLocks : value'[k] = value[k]
      BY <1>0, <1>a, <2>1, Names DEF SynchTypeOK
    <3> QED BY <3>1, <3>2, LockFrame DEF SInv
  <2>7. KernelAsserts'
    <3>1. \A t \in Threads : t = current => AssertsLocal(t)'
      BY <1>1, <2>1, AfterGoto, Names DEF AssertsLocal, PcLocal, Arguments
    <3> QED BY <2>1, <2>3, <3>1, AssertsFrame
  <2> QED BY <1>2, <2>2, <2>4, <2>5, <2>6, <2>7 DEF SInv
<1>12. ASSUME Own PROVE SInv'
  <2>1. /\ pc[current] = "own" /\ sem[current] \in AllLocks
        /\ newborn[current] # NULL <=> sem[current] = tid_lock
        /\ goto(IF newborn[current] # NULL THEN "tid_read" ELSE "run", NULL, NULL)
        /\ holder' = [holder EXCEPT ![sem[current]] = current]
        /\ UNCHANGED <<value, waiters, cond_waiters, tidVars>>
    BY <1>0, <1>12 DEF Own, at, Arguments, SInv, PcInv, InAllocateTid
  <2>o. \A t \in Threads : Owns(t, sem[current]) <=> t = current
    BY <1>0, <2>1, OneOwner DEF Owns
  <2>2. SynchTypeOK'
    <3>1. holder' \in [AllLocks -> Threads \cup {NULL}]
      BY <1>0, <1>a, <2>1, Names DEF SynchTypeOK
    <3> QED BY <1>0, <1>a, <1>b, <1>1, <2>1, <3>1, Names DEF SynchTypeOK, Labels, tidVars, callVars
  <2>3. \A k \in AllLocks : holder'[k] = holder[k] \/ Owns(current, k)
    BY <1>a, <2>1 DEF Owns, SynchTypeOK
  <2>4. PcInv'
    <3>1. \A t \in Threads : t = current => PcLocal(t)'
      BY <1>1, <2>1, AfterGoto, Names
      DEF PcLocal, Arguments, IdleLabels, InAllocateTid
    <3> QED BY <1>0, <1>1, <2>1, <2>3, <3>1, Running, PcFrame DEF schedVars, IdleLabels
  <2>5. WaitListsExact'
    BY <1>3, <2>1
  <2>6. LockExclusion'
    <3>1. \A t \in Threads, k \in AllLocks : Owns(t, k)' <=> Owns(t, k)
      BY <1>0, <1>a, <2>1, <2>o DEF Owns, goto, SynchTypeOK
    <3>2. \A k \in AllLocks : value'[k] = value[k]
      BY <1>0, <1>a, <2>1, Names DEF SynchTypeOK
    <3> QED BY <3>1, <3>2, LockFrame DEF SInv
  <2>7. KernelAsserts'
    <3>0. newborn[current] # NULL => holder'[tid_lock] = current
      BY <1>a, <2>1 DEF SynchTypeOK
    <3>1. \A t \in Threads : t = current => AssertsLocal(t)'
      BY <1>1, <2>1, <3>0, AfterGoto DEF AssertsLocal
    <3> QED BY <2>1, <2>3, <3>1, AssertsFrame
  <2> QED BY <1>2, <2>2, <2>4, <2>5, <2>6, <2>7 DEF SInv
<1>13. ASSUME WaitRelease PROVE SInv'
  <2>1. /\ pc[current] = "wait_release" /\ cond[current] \in Conds
        /\ sem[current] \in AllLocks /\ sem[current] # tid_lock
        /\ goto("release_up", sem[current], cond[current])
        /\ holder[sem[current]] = current
        /\ holder' = [holder EXCEPT ![sem[current]] = NULL]
        /\ UNCHANGED <<value, waiters, cond_waiters, tidVars>>
    BY <1>0, Names, <1>13 DEF WaitRelease, disown, at, Arguments
  <2>2. SynchTypeOK'
    <3>1. holder' \in [AllLocks -> Threads \cup {NULL}]
      BY <1>0, <1>a, <2>1, Names DEF SynchTypeOK
    <3> QED BY <1>0, <1>a, <1>b, <1>1, <2>1, <3>1, Names DEF SynchTypeOK, Labels, tidVars, callVars
  <2>3. \A k \in AllLocks : holder'[k] = holder[k] \/ Owns(current, k)
    BY <1>a, <2>1 DEF Owns, SynchTypeOK
  <2>h. holder'[sem[current]] = NULL
    BY <1>a, <2>1 DEF SynchTypeOK
  <2>4. PcInv'
    <3>1. \A t \in Threads : t = current => PcLocal(t)'
      BY <1>1, <2>1, <2>h, AfterGoto, Names
      DEF PcLocal, Arguments, IdleLabels, InAllocateTid
    <3> QED BY <1>0, <1>1, <2>1, <2>3, <3>1, Running, PcFrame DEF schedVars, IdleLabels
  <2>5. WaitListsExact'
    BY <1>3, <2>1
  <2>6. LockExclusion'
    <3>1. \A t \in Threads, k \in AllLocks : Owns(t, k)' <=> Owns(t, k)
      BY <1>0, <1>a, <2>1, Names DEF Owns, goto, SynchTypeOK
    <3>2. \A k \in AllLocks : value'[k] = value[k]
      BY <1>0, <1>a, <2>1, Names DEF SynchTypeOK
    <3> QED BY <3>1, <3>2, LockFrame DEF SInv
  <2>7. KernelAsserts'
    <3>1. \A t \in Threads : t = current => AssertsLocal(t)'
      BY <1>1, <2>1, AfterGoto, Names DEF AssertsLocal, PcLocal, Arguments
    <3> QED BY <2>1, <2>3, <3>1, AssertsFrame
  <2> QED BY <1>2, <2>2, <2>4, <2>5, <2>6, <2>7 DEF SInv
<1>14. ASSUME Broadcast PROVE SInv'
  <2> DEFINE c == cond[current]
  <2>1. /\ pc[current] = "broadcast" /\ c \in Conds /\ holder[CondLock[c]] = current
        /\ UNCHANGED <<value, waiters, holder, tidVars>>
        /\ \/ /\ cond_waiters[c] # <<>>
              /\ cond_waiters' = [cond_waiters EXCEPT ![c] = Tail(@)]
           \/ UNCHANGED cond_waiters
    BY <1>0, <1>14
    DEF Broadcast, pop, at, Arguments, SInv, KernelAsserts, syncVars
  <2>c. cond_waiters' \in [Conds -> Seq(Threads)]
    <3>1. cond_waiters[c] # <<>> => Tail(cond_waiters[c]) \in Seq(Threads)
      BY <1>a, <2>1, HeadTailProperties DEF SynchTypeOK
    <3> QED BY <1>a, <2>1, <3>1 DEF SynchTypeOK
  <2>2. PICK l \in {"run", "broadcast_up"}, s \in Threads \cup {NULL}, d \in Conds \cup {NULL} :
          /\ goto(l, s, d)
          /\ l = "broadcast_up" => s \in Threads /\ d = c
    BY <1>0, <1>14, <1>a, <2>1, HeadTailProperties
    DEF Broadcast, pop, SynchTypeOK
  <2> HIDE DEF c
  <2>3. SynchTypeOK'
    <3>1. /\ pc' \in [Threads -> Labels] /\ sem' \in [Threads -> AllSemas \cup {NULL}]
          /\ cond' \in [Threads -> Conds \cup {NULL}]
      BY <1>b, <2>2, Names DEF Labels
    <3> QED BY <1>a, <1>1, <2>1, <2>c, <3>1 DEF SynchTypeOK, tidVars
  <2>4. PcInv'
    <3>1. \A t \in Threads : t = current => PcLocal(t)'
      BY <1>1, <2>1, <2>2, AfterGoto, Names
      DEF PcLocal, Arguments, IdleLabels, InAllocateTid
    <3> QED BY <1>0, <1>1, <2>1, <2>2, <3>1, Running, PcFrame DEF schedVars, IdleLabels
  <2>5. WaitListsExact'
    BY <1>3, <2>1, <2>2
  <2>6. LockExclusion'
    <3>1. \A t \in Threads, k \in AllLocks : Owns(t, k)' <=> Owns(t, k)
      BY <1>0, <1>a, <2>1, <2>2, Names DEF Owns, goto, SynchTypeOK
    <3> QED BY <2>1, <3>1, LockFrame DEF SInv
  <2>7. KernelAsserts'
    <3>1. \A t \in Threads : t = current => AssertsLocal(t)'
      BY <1>1, <2>1, <2>2, AfterGoto, Names DEF AssertsLocal, PcLocal, Arguments, c
    <3> QED BY <2>1, <2>2, <3>1, AssertsFrame
  <2> QED BY <1>2, <2>3, <2>4, <2>5, <2>6, <2>7 DEF SInv
<1>15. ASSUME TidRead PROVE SInv'
  <2>1. /\ pc[current] = "tid_read" /\ goto("tid_write", NULL, NULL)
        /\ new_tid' = [new_tid EXCEPT ![current] = next_tid]
        /\ UNCHANGED <<value, waiters, holder, cond_waiters, tid, next_tid>>
    BY <1>0, <1>15 DEF TidRead, at, syncVars
  <2>2. SynchTypeOK'
    BY <1>0, <1>a, <1>b, <1>1, <2>1, Names DEF SynchTypeOK, Labels, tidVars
  <2>3. \A k \in AllLocks : holder'[k] = holder[k] \/ Owns(current, k)
    BY <2>1
  <2>4. PcInv'
    <3>1. \A t \in Threads : t = current => PcLocal(t)'
      BY <1>1, <2>1, AfterGoto, Names
      DEF PcLocal, Arguments, IdleLabels, InAllocateTid
    <3> QED BY <1>0, <1>1, <2>1, <2>3, <3>1, Running, PcFrame DEF schedVars, IdleLabels
  <2>5. WaitListsExact'
    BY <1>3, <2>1
  <2>6. LockExclusion'
    <3>1. \A t \in Threads, k \in AllLocks : Owns(t, k)' <=> Owns(t, k)
      BY <1>0, <1>a, <2>1, Names DEF Owns, goto, SynchTypeOK
    <3>2. \A k \in AllLocks : value'[k] = value[k]
      BY <1>0, <1>a, <2>1, Names DEF SynchTypeOK
    <3> QED BY <3>1, <3>2, LockFrame DEF SInv
  <2>7. KernelAsserts'
    <3>1. \A t \in Threads : t = current => AssertsLocal(t)'
      BY <1>1, <2>1, AfterGoto, Names DEF AssertsLocal, PcLocal, Arguments
    <3> QED BY <2>1, <2>3, <3>1, AssertsFrame
  <2> QED BY <1>2, <2>2, <2>4, <2>5, <2>6, <2>7 DEF SInv
<1>16. ASSUME TidWrite PROVE SInv'
  <2>1. /\ pc[current] = "tid_write" /\ goto("tid_release", NULL, NULL)
        /\ next_tid' = new_tid[current] + 1
        /\ UNCHANGED <<value, waiters, holder, cond_waiters, tid, new_tid>>
    BY <1>0, <1>16 DEF TidWrite, at, syncVars
  <2>2. SynchTypeOK'
    <3>1. next_tid' \in Nat
      BY <1>0, <1>a, <2>1, Names DEF SynchTypeOK
    <3> QED BY <1>0, <1>a, <1>b, <1>1, <2>1, <3>1, Names DEF SynchTypeOK, Labels, tidVars, callVars
  <2>3. \A k \in AllLocks : holder'[k] = holder[k] \/ Owns(current, k)
    BY <2>1
  <2>4. PcInv'
    <3>1. \A t \in Threads : t = current => PcLocal(t)'
      BY <1>1, <2>1, AfterGoto, Names
      DEF PcLocal, Arguments, IdleLabels, InAllocateTid
    <3> QED BY <1>0, <1>1, <2>1, <2>3, <3>1, Running, PcFrame DEF schedVars, IdleLabels
  <2>5. WaitListsExact'
    BY <1>3, <2>1
  <2>6. LockExclusion'
    <3>1. \A t \in Threads, k \in AllLocks : Owns(t, k)' <=> Owns(t, k)
      BY <1>0, <1>a, <2>1, Names DEF Owns, goto, SynchTypeOK
    <3>2. \A k \in AllLocks : value'[k] = value[k]
      BY <1>0, <1>a, <2>1, Names DEF SynchTypeOK
    <3> QED BY <3>1, <3>2, LockFrame DEF SInv
  <2>7. KernelAsserts'
    <3>1. \A t \in Threads : t = current => AssertsLocal(t)'
      BY <1>1, <2>1, AfterGoto, Names DEF AssertsLocal, PcLocal, Arguments
    <3> QED BY <2>1, <2>3, <3>1, AssertsFrame
  <2> QED BY <1>2, <2>2, <2>4, <2>5, <2>6, <2>7 DEF SInv
<1>17. ASSUME TidRelease PROVE SInv'
  <2>1. /\ pc[current] = "tid_release" /\ tid_lock \in AllLocks
        /\ goto("release_up", tid_lock, NULL)
        /\ holder[tid_lock] = current /\ holder' = [holder EXCEPT ![tid_lock] = NULL]
        /\ UNCHANGED <<value, waiters, cond_waiters, tidVars>>
    BY <1>0, Names, <1>17 DEF TidRelease, disown, at
  <2>2. SynchTypeOK'
    <3>1. holder' \in [AllLocks -> Threads \cup {NULL}]
      BY <1>0, <1>a, <2>1, Names DEF SynchTypeOK
    <3> QED BY <1>0, <1>a, <1>b, <1>1, <2>1, <3>1, Names DEF SynchTypeOK, Labels, tidVars, callVars
  <2>3. \A k \in AllLocks : holder'[k] = holder[k] \/ Owns(current, k)
    BY <1>a, <2>1 DEF Owns, SynchTypeOK
  <2>h. holder'[tid_lock] = NULL
    BY <1>a, <2>1 DEF SynchTypeOK
  <2>4. PcInv'
    <3>1. \A t \in Threads : t = current => PcLocal(t)'
      BY <1>1, <2>1, <2>h, AfterGoto, Names
      DEF PcLocal, Arguments, IdleLabels, InAllocateTid
    <3> QED BY <1>0, <1>1, <2>1, <2>3, <3>1, Running, PcFrame DEF schedVars, IdleLabels
  <2>5. WaitListsExact'
    BY <1>3, <2>1
  <2>6. LockExclusion'
    <3>1. \A t \in Threads, k \in AllLocks : Owns(t, k)' <=> Owns(t, k)
      BY <1>0, <1>a, <2>1, Names DEF Owns, goto, SynchTypeOK
    <3>2. \A k \in AllLocks : value'[k] = value[k]
      BY <1>0, <1>a, <2>1, Names DEF SynchTypeOK
    <3> QED BY <3>1, <3>2, LockFrame DEF SInv
  <2>7. KernelAsserts'
    <3>1. \A t \in Threads : t = current => AssertsLocal(t)'
      BY <1>1, <2>1, AfterGoto, Names DEF AssertsLocal, PcLocal, Arguments
    <3> QED BY <2>1, <2>3, <3>1, AssertsFrame
  <2> QED BY <1>2, <2>2, <2>4, <2>5, <2>6, <2>7 DEF SInv
<1> QED
  BY <1>4, <1>5, <1>6, <1>7, <1>8, <1>9, <1>10, <1>11, <1>12, <1>13, <1>14, <1>15,
     <1>16, <1>17
-----------------------------------------------------------------------------
(* The steps that wake a thread. *)

\* What sema_up does to the statuses: at most one sleeper becomes READY.
LEMMA UpStatus ==
  ASSUME SInv, NEW s \in AllSemas, up(s)
  PROVE  /\ current' = current
         /\ \A t \in Threads : status'[t] # status[t] =>
              status[t] = "BLOCKED" /\ status'[t] = "READY"
         /\ value' \in [AllSemas -> Nat]
         /\ waiters' \in [AllSemas -> Seq(Threads)]
         /\ \A k \in AllSemas \ {s} : value'[k] = value[k]
         /\ value'[s] = value[s] + 1
<1>0. /\ value \in [AllSemas -> Nat] /\ waiters \in [AllSemas -> Seq(Threads)]
      /\ IsInjective(waiters[s])
      /\ status \in [Threads -> Status]
  BY DEF SInv, SynchTypeOK, WaitListsExact, IInv, TypeOK
<1>1. value' = [value EXCEPT ![s] = @ + 1]
  BY DEF up
<1>2. value[s] + 1 \in Nat
  BY <1>0
<1>3. /\ value' \in [AllSemas -> Nat] /\ value'[s] = value[s] + 1
      /\ \A k \in AllSemas \ {s} : value'[k] = value[k]
  BY <1>0, <1>1, <1>2
<1>4. CASE waiters[s] = <<>>
  BY <1>0, <1>3, <1>4 DEF up
<1>5. CASE waiters[s] # <<>>
  <2> DEFINE w == Head(waiters[s])
  <2>1. /\ current' = current /\ status' = [status EXCEPT ![w] = "READY"]
        /\ waiters' = [waiters EXCEPT ![s] = Tail(@)]
    BY <1>5 DEF up, unblock
  <2>2. w \in Range(waiters[s]) /\ w \in Threads /\ Tail(waiters[s]) \in Seq(Threads)
    BY <1>0, <1>5, TailOfInjective
  <2>3. status[w] = "BLOCKED"
    BY <2>2 DEF SInv, WaitListsExact
  <2> QED BY <1>0, <1>3, <2>1, <2>2, <2>3
<1> QED BY <1>4, <1>5

\* The wait lists stay exact: the thread sema_up takes off its list is the
\* one it makes READY.
LEMMA UpWait ==
  ASSUME SInv, NEW s \in AllSemas, up(s), looping' = looping,
         \A t \in Threads \ {current} : sem'[t] = sem[t]
  PROVE  WaitListsExact'
<1>0. /\ waiters \in [AllSemas -> Seq(Threads)] /\ status \in [Threads -> Status]
      /\ status[current] = "RUNNING" /\ current \in Threads
      /\ WaitListsExact
      /\ \A k \in AllSemas : current \notin Range(waiters[k])
  BY Running DEF SInv, SynchTypeOK, IInv, TypeOK
<1>1. CASE waiters[s] = <<>>
  <2>1. waiters' = waiters /\ status' = status
    BY <1>1 DEF up
  <2> QED BY <1>0, <2>1 DEF WaitListsExact
<1>2. CASE waiters[s] # <<>>
  <2> DEFINE w == Head(waiters[s])
  <2>1. /\ status' = [status EXCEPT ![w] = "READY"]
        /\ waiters' = [waiters EXCEPT ![s] = Tail(@)]
    BY <1>2 DEF up, unblock
  <2>2. /\ w \in Range(waiters[s]) /\ w \in Threads
        /\ IsInjective(Tail(waiters[s])) /\ Range(Tail(waiters[s])) = Range(waiters[s]) \ {w}
    BY <1>0, <1>2, TailOfInjective DEF WaitListsExact
  <2>3. sem[w] = s /\ w # current
    BY <1>0, <2>2 DEF WaitListsExact
  <2> HIDE DEF w
  <2>4. ASSUME NEW k \in AllSemas
        PROVE  /\ IsInjective(waiters'[k])
               /\ \A t \in Threads : t \in Range(waiters'[k])
                    <=> t \in looping' /\ status'[t] = "BLOCKED" /\ sem'[t] = k
    <3>1. \A t \in Threads : t \in Range(waiters[k])
            <=> t \in looping /\ status[t] = "BLOCKED" /\ sem[t] = k
      BY <1>0 DEF WaitListsExact
    <3>2. IsInjective(waiters'[k]) /\ Range(waiters'[k]) = Range(waiters[k]) \ {w}
      <4>1. CASE k = s
        BY <1>0, <2>1, <2>2, <4>1
      <4>2. CASE k # s
        <5>1. waiters'[k] = waiters[k] /\ w \notin Range(waiters[k])
          BY <1>0, <2>1, <2>2, <2>3, <3>1, <4>2
        <5> QED BY <1>0, <5>1 DEF WaitListsExact
      <4> QED BY <4>1, <4>2
    <3>3. \A t \in Threads \ {w} : status'[t] = status[t]
      BY <1>0, <2>1
    <3>4. status'[w] = "READY"
      BY <1>0, <2>1, <2>2
    <3> QED BY <1>0, <3>1, <3>2, <3>3, <3>4
  <2> QED BY <2>4 DEF WaitListsExact
<1> QED BY <1>1, <1>2

\* Giving a lock back leaves it free.
LEMMA GiveLock ==
  ASSUME SInv, NEW l \in AllLocks, pc[current] = "release_up", sem[current] = l,
         holder' = holder, value'[l] = value[l] + 1,
         \A k \in AllLocks \ {l} : value'[k] = value[k],
         NEW m, NEW s, NEW c, goto(m, s, c), m \notin {"own", "release_up"}
  PROVE  LockExclusion'
<1>0. /\ current \in Threads
      /\ pc \in [Threads -> Labels] /\ sem \in [Threads -> AllSemas \cup {NULL}]
      /\ holder[l] = NULL /\ NULL \notin Threads
  BY Running, SchedulerAssumption DEF SInv, SynchTypeOK, PcInv, Arguments
<1>1. value[l] = 0 /\ \A t \in Threads : Owns(t, l) => t = current
  BY <1>0, OneOwner DEF Owns
<1>2. \A t \in Threads : ~ Owns(t, l)'
  BY <1>0, <1>1 DEF Owns, goto
<1>3. \A k \in AllLocks \ {l} : \A t \in Threads : Owns(t, k)' <=> Owns(t, k)
  BY <1>0 DEF Owns, goto
<1>4. ASSUME NEW k \in AllLocks
      PROVE  \/ value'[k] = 1 /\ \A t \in Threads : ~ Owns(t, k)'
             \/ value'[k] = 0 /\ \E t \in Threads : \A u \in Threads : Owns(u, k)' <=> u = t
  <2>1. CASE k = l
    BY <1>1, <1>2, <2>1
  <2>2. CASE k # l
    <3>1. \/ value[k] = 1 /\ \A t \in Threads : ~ Owns(t, k)
          \/ value[k] = 0 /\ \E t \in Threads : \A u \in Threads : Owns(u, k) <=> u = t
      BY DEF SInv, LockExclusion
    <3>2. value'[k] = value[k] /\ \A t \in Threads : Owns(t, k)' <=> Owns(t, k)
      BY <1>3, <2>2
    <3> HIDE DEF Owns
    <3> QED BY ONLY <3>1, <3>2
  <2> QED BY <2>1, <2>2
<1> QED BY <1>4 DEF LockExclusion
\* Where the running thread is after sema_up.
LEMMA AfterUp ==
  ASSUME SInv, NEW x \in AllSemas, up(x), UNCHANGED restOfSched,
         NEW l, NEW s, NEW c, goto(l, s, c),
         NEW t \in Threads, t = current
  PROVE  /\ pc'[t] = l /\ sem'[t] = s /\ cond'[t] = c
         /\ PcLocal(t) /\ AssertsLocal(t)
         /\ newborn'[t] = newborn[t]
         /\ status'[t] = "RUNNING" /\ t \notin Range(newborn')
<1>1. pc \in [Threads -> Labels] /\ sem \in [Threads -> AllSemas \cup {NULL}]
      /\ cond \in [Threads -> Conds \cup {NULL}]
  BY DEF SInv, SynchTypeOK
<1>2. pc'[t] = l /\ sem'[t] = s /\ cond'[t] = c
  BY <1>1 DEF goto
<1>3. PcLocal(t) /\ AssertsLocal(t)
  BY PcInvLocal DEF SInv, KernelAsserts, AssertsLocal
<1>4. status'[t] = "RUNNING"
  BY Running, UpStatus
<1> QED BY <1>2, <1>3, <1>4, Running DEF restOfSched

\* What every step that calls sema_up on behalf of a thread has in common.
LEMMA UpFrame ==
  ASSUME SInv, IInv', NEW x \in AllSemas, up(x), UNCHANGED restOfSched,
         NEW l \in Labels, NEW s \in AllSemas \cup {NULL}, NEW c \in Conds \cup {NULL},
         goto(l, s, c),
         UNCHANGED <<holder, cond_waiters, looping, tidVars>>,
         (current = IdlePage) => (l # "idle_start" <=> idle_thread # NULL),
         \A t \in Threads : t = current => PcLocal(t)' /\ AssertsLocal(t)'
  PROVE  SynchTypeOK' /\ PcInv' /\ WaitListsExact' /\ KernelAsserts'
<1>0. /\ SynchTypeOK /\ current \in Threads /\ looping \subseteq Threads
  BY Running DEF SInv, SynchTypeOK
<1>1. /\ pc' \in [Threads -> Labels] /\ sem' \in [Threads -> AllSemas \cup {NULL}]
      /\ cond' \in [Threads -> Conds \cup {NULL}]
      /\ pc'[current] = l
      /\ \A t \in Threads \ {current} : sem'[t] = sem[t]
  BY <1>0 DEF goto, SynchTypeOK
<1>2. SynchTypeOK'
  BY <1>0, <1>1, UpStatus DEF SynchTypeOK, tidVars
<1>3. PcInv'
  <2>1. \A t \in Threads \ {current} :
          status'[t] \in {"FREE", "DYING"} => status[t] \in {"FREE", "DYING"}
    BY UpStatus
  <2> QED BY <1>0, <1>1, <2>1, PcFrame DEF restOfSched
<1>4. WaitListsExact'
  BY <1>1, UpWait
<1>5. KernelAsserts'
  BY AssertsFrame
<1> QED BY <1>2, <1>3, <1>4, <1>5

\* Owners do not change when the running thread is not between sema_down and
\* holder, nor between holder and sema_up, before or after.
LEMMA OwnsElsewhere ==
  ASSUME SInv, NEW l, NEW s, NEW c, goto(l, s, c), l \notin {"own", "release_up"},
         pc[current] \notin {"own", "release_up"}, holder' = holder,
         \A k \in AllLocks : value'[k] = value[k]
  PROVE  LockExclusion'
<1>0. /\ current \in Threads
      /\ pc \in [Threads -> Labels] /\ sem \in [Threads -> AllSemas \cup {NULL}]
  BY Running DEF SInv, SynchTypeOK
<1>1. \A t \in Threads, k \in AllLocks : Owns(t, k)' <=> Owns(t, k)
  BY <1>0 DEF Owns, goto
<1> QED BY <1>1, LockFrame DEF SInv

LEMMA UpSteps ==
  ASSUME SInv, IInv',
         \/ ReleaseUp \/ SignalUp \/ BroadcastUp \/ IdleUp
         \/ \E s \in Semas : sema_up(s)
  PROVE  SInv'
<1>0. /\ current \in Threads /\ Arguments(current) /\ SynchTypeOK
      /\ newborn[current] # NULL <=> InAllocateTid(current)
      /\ pc[current] \in IdleLabels <=> current = IdlePage
      /\ pc[IdlePage] = "idle_start" <=> idle_thread = NULL
  BY Running DEF SInv, PcInv
<1>1. ASSUME ReleaseUp PROVE SInv'
  <2> DEFINE x == sem[current]
             l == IF cond[current] # NULL THEN "wait_down"
                  ELSE IF newborn[current] # NULL THEN "create_end" ELSE "run"
             s == IF cond[current] # NULL THEN current ELSE NULL
             c == IF cond[current] # NULL THEN cond[current] ELSE NULL
  <2>1. /\ pc[current] = "release_up" /\ x \in AllLocks /\ x \in AllSemas /\ up(x)
        /\ UNCHANGED <<restOfSched, holder, cond_waiters, looping, tidVars>>
        /\ goto(l, s, c)
        /\ l \in Labels \ {"own", "release_up", "idle_start"}
        /\ s \in AllSemas \cup {NULL} /\ c \in Conds \cup {NULL}
        /\ current # IdlePage
    BY <1>0, <1>1, Names DEF ReleaseUp, at, Arguments, SynchTypeOK, Labels, IdleLabels
  <2>2. newborn[current] # NULL => cond[current] = NULL
    BY <1>0, <2>1, Names DEF Arguments, InAllocateTid
  <2>3. ASSUME NEW t \in Threads, t = current
        PROVE  PcLocal(t)' /\ AssertsLocal(t)'
    <3>1. /\ pc'[t] = l /\ sem'[t] = s /\ cond'[t] = c
          /\ newborn'[t] = newborn[t] /\ status'[t] = "RUNNING" /\ t \notin Range(newborn')
      BY <2>1, <2>3, AfterUp
    <3>2. t \notin looping /\ looping' = looping
      BY <1>0, <2>1, <2>3 DEF Arguments
    <3>3. newborn[t] # NULL <=> l = "create_end"
      <4>1. newborn[t] # NULL => l = "create_end"
        BY <2>2, <2>3
      <4> QED BY <2>3, <4>1
    <3>4. AssertsLocal(t)'
      BY <3>1 DEF AssertsLocal
    <3>5. Arguments(t)'
      BY <1>0, <2>1, <2>3, <3>1, <3>2 DEF Arguments, SynchTypeOK
    <3>6. InAllocateTid(t)' <=> l = "create_end"
      BY <3>1 DEF InAllocateTid
    <3> QED BY <2>1, <2>3, <3>1, <3>3, <3>4, <3>5, <3>6 DEF PcLocal, IdleLabels
  <2> HIDE DEF x, l, s, c
  <2>4. SynchTypeOK' /\ PcInv' /\ WaitListsExact' /\ KernelAsserts'
    BY <2>1, <2>3, UpFrame
  <2>5. LockExclusion'
    BY <2>1, Names, UpStatus, GiveLock DEF x
  <2> QED BY <2>4, <2>5 DEF SInv
<1>2. ASSUME SignalUp \/ BroadcastUp PROVE SInv'
  <2> DEFINE x == sem[current]
             l == IF pc[current] = "signal_up" THEN "run" ELSE "broadcast"
             c == IF pc[current] = "signal_up" THEN NULL ELSE cond[current]
  <2>1. /\ pc[current] \in {"signal_up", "broadcast_up"} /\ x \in Threads
        /\ x \in AllSemas /\ up(x)
        /\ UNCHANGED <<restOfSched, holder, cond_waiters, looping, tidVars>>
        /\ goto(l, NULL, c)
        /\ l \in Labels \ {"own", "release_up", "idle_start"}
        /\ c \in Conds \cup {NULL}
        /\ current # IdlePage
    BY <1>0, <1>2, Names DEF SignalUp, BroadcastUp, at, Arguments, Labels, IdleLabels
  <2>2. \A t \in Threads : t = current => PcLocal(t)' /\ AssertsLocal(t)'
    BY <1>0, <2>1, AfterUp, Names
    DEF PcLocal, AssertsLocal, Arguments, IdleLabels, InAllocateTid
  <2> HIDE DEF x, l, c
  <2>3. SynchTypeOK' /\ PcInv' /\ WaitListsExact' /\ KernelAsserts'
    BY <2>1, <2>2, UpFrame
  <2>4. \A k \in AllLocks : value'[k] = value[k]
    BY <2>1, Names, UpStatus
  <2>5. LockExclusion'
    BY <2>1, <2>4, OwnsElsewhere
  <2> QED BY <2>3, <2>5 DEF SInv
<1>3. ASSUME IdleUp PROVE SInv'
  <2>1. /\ pc[current] = "idle_up" /\ idle_started \in AllSemas /\ up(idle_started)
        /\ UNCHANGED <<restOfSched, holder, cond_waiters, looping, tidVars>>
        /\ goto("idle_loop", NULL, NULL) /\ current = IdlePage
        /\ idle_thread # NULL /\ "idle_loop" \in Labels
    BY <1>0, <1>3, Names DEF IdleUp, at, IdleLabels, Labels
  <2>2. \A t \in Threads : t = current => PcLocal(t)' /\ AssertsLocal(t)'
    BY <1>0, <2>1, AfterUp, Names
    DEF PcLocal, AssertsLocal, Arguments, IdleLabels, InAllocateTid
  <2>3. SynchTypeOK' /\ PcInv' /\ WaitListsExact' /\ KernelAsserts'
    BY <2>1, <2>2, UpFrame
  <2>4. \A k \in AllLocks : value'[k] = value[k]
    BY <2>1, Names, UpStatus
  <2>5. LockExclusion'
    BY <2>1, <2>4, OwnsElsewhere
  <2> QED BY <2>3, <2>5 DEF SInv
<1>4. ASSUME NEW s \in Semas, sema_up(s) PROVE SInv'
  <2>1. /\ s \in AllSemas /\ up(s)
        /\ UNCHANGED <<restOfSched, holder, cond_waiters, callVars, looping, tidVars>>
    BY <1>4, Names DEF sema_up
  <2>2. goto(pc[current], sem[current], cond[current])
    BY <1>0, <2>1 DEF goto, callVars, SynchTypeOK
  <2>3. pc[current] \in Labels /\ sem[current] \in AllSemas \cup {NULL}
        /\ cond[current] \in Conds \cup {NULL}
    BY <1>0 DEF SynchTypeOK
  <2>4. \A t \in Threads : t = current => PcLocal(t)' /\ AssertsLocal(t)'
    BY <2>1, <2>2, AfterUp
    DEF PcLocal, AssertsLocal, Arguments, InAllocateTid
  <2>5. SynchTypeOK' /\ PcInv' /\ WaitListsExact' /\ KernelAsserts'
    BY <1>0, <2>1, <2>2, <2>3, <2>4, UpFrame
  <2>6. \A k \in AllLocks : value'[k] = value[k]
    BY <2>1, Names, UpStatus
  <2>7. LockExclusion'
    <3>1. \A t \in Threads, k \in AllLocks : Owns(t, k)' <=> Owns(t, k)
      BY <2>1 DEF Owns, callVars
    <3> QED BY <2>6, <3>1, LockFrame DEF SInv
  <2> QED BY <2>5, <2>7 DEF SInv
<1> QED BY <1>1, <1>2, <1>3, <1>4
-----------------------------------------------------------------------------
(* The steps that give the processor away. *)

\* What schedule () does to the statuses: apart from the thread that leaves
\* and the idle thread, nobody falls asleep, wakes up, or dies.
LEMMA SwitchStatus ==
  ASSUME SInv, NEW s \in {"READY", "BLOCKED", "DYING"}, NEW rl,
         rl = IF s = "READY" /\ current # idle_thread
              THEN Append(ready_list, current) ELSE ready_list,
         current = IdlePage => s # "DYING" /\ (s = "BLOCKED" => idle_thread # NULL),
         schedule([status EXCEPT ![current] = s], rl),
         idle_thread' = idle_thread
  PROVE  /\ \A t \in Threads \ {current, IdlePage} :
              status'[t] = "BLOCKED" <=> status[t] = "BLOCKED"
         /\ \A t \in Threads \ {current} :
              status'[t] \in {"FREE", "DYING"} => status[t] \in {"FREE", "DYING"}
         /\ current # IdlePage => (status'[current] = "BLOCKED" <=> s = "BLOCKED")
         /\ s # "DYING" => status'[current] \notin {"FREE", "DYING"}
<1> DEFINE st == [status EXCEPT ![current] = s]
<1>1. Schedulable(st, rl) /\ schedule(st, rl)
  BY LeaveIsSchedulable DEF SInv
<1>2. /\ current \in Threads /\ status \in [Threads -> Status]
      /\ st[current] = s
      /\ \A t \in Threads \ {current} : st[t] = status[t]
  BY Running DEF SInv, IInv, TypeOK
<1> HIDE DEF st
<1>3. /\ current' \in Threads
      /\ st[current'] \in {"READY", "BLOCKED"}
      /\ current' # IdlePage => st[current'] = "READY"
      /\ OneRunning'
      /\ \A t \in Threads \ {current'} :
           \/ status'[t] = st[t]
           \/ st[t] = "DYING" /\ status'[t] = "FREE"
  BY <1>1, ScheduleStep
<1>4. status'[current'] = "RUNNING"
  BY <1>3 DEF OneRunning
<1>5. \A t \in Threads : \/ t = current' /\ status'[t] = "RUNNING" /\ st[t] \in {"READY", "BLOCKED"}
                            /\ (t # IdlePage => st[t] = "READY")
                         \/ status'[t] = st[t]
                         \/ st[t] = "DYING" /\ status'[t] = "FREE"
  BY <1>3, <1>4
<1> QED BY <1>2, <1>5

\* A step of the scheduler alone: the timer, thread_yield, thread_exit, idle.
LEMMA SwitchFrame ==
  ASSUME SInv, IInv', NEW s \in {"READY", "BLOCKED", "DYING"}, NEW rl,
         rl = IF s = "READY" /\ current # idle_thread
              THEN Append(ready_list, current) ELSE ready_list,
         current = IdlePage => s # "DYING" /\ (s = "BLOCKED" => idle_thread # NULL),
         schedule([status EXCEPT ![current] = s], rl),
         UNCHANGED <<idle_thread, newborn, syncVars, callVars, looping, tidVars>>,
         current \notin looping,
         s = "DYING" => pc[current] = "run"
  PROVE  SInv'
<1>0. /\ current \in Threads /\ SynchTypeOK /\ IdlePage \notin looping
      /\ looping \subseteq Threads
      /\ PcLocal(current) /\ AssertsLocal(current)
  BY Running, PcInvLocal DEF SInv, SynchTypeOK, KernelAsserts, AssertsLocal
<1>1. /\ \A t \in Threads \ {current, IdlePage} :
           status'[t] = "BLOCKED" <=> status[t] = "BLOCKED"
      /\ \A t \in Threads \ {current} :
           status'[t] \in {"FREE", "DYING"} => status[t] \in {"FREE", "DYING"}
      /\ s # "DYING" => status'[current] \notin {"FREE", "DYING"}
  BY SwitchStatus
<1>2. goto(pc[current], sem[current], cond[current])
  BY <1>0 DEF goto, callVars, SynchTypeOK
<1>3. SynchTypeOK'
  BY <1>0 DEF SynchTypeOK, syncVars, callVars, tidVars
<1>4. PcInv'
  <2>1. \A t \in Threads : t = current => PcLocal(t)'
    BY <1>0, <1>1, Running DEF PcLocal, Arguments, InAllocateTid, callVars, syncVars
  <2>2. pc'[current] = pc[current] /\ holder' = holder
        /\ (current = IdlePage => (pc[current] # "idle_start" <=> idle_thread # NULL))
    BY PcInvLocal DEF callVars, syncVars, SInv
  <2> QED BY <1>0, <1>1, <1>2, <2>1, <2>2, PcFrame
<1>5. WaitListsExact'
  BY <1>0, <1>1, WaitFrame DEF callVars, syncVars
<1>6. LockExclusion'
  BY DEF SInv, LockExclusion, Owns, callVars, syncVars
<1>7. KernelAsserts'
  BY DEF SInv, KernelAsserts, callVars, syncVars
<1> QED BY <1>3, <1>4, <1>5, <1>6, <1>7 DEF SInv

LEMMA SwitchSteps ==
  ASSUME SInv, IInv', Tick \/ ThreadYield \/ ThreadExit \/ IdleLoop
  PROVE  SInv'
<1>0. /\ current \in Threads /\ Arguments(current)
      /\ idle_thread \in {NULL, IdlePage}
      /\ IdlePage \notin looping
      /\ current # IdlePage <=> pc[current] \notin IdleLabels
      /\ NULL # IdlePage
      /\ pc[current] = "idle_loop" => idle_thread # NULL
  BY Running, Names DEF SInv, PcInv, IInv, TypeOK, AllSemas, IdleLabels
<1>1. ASSUME yield, UNCHANGED <<restOfSched, syncVars, callVars, looping, tidVars>>,
             current \notin looping
      PROVE  SInv'
  <2> DEFINE rl == IF "READY" = "READY" /\ current # idle_thread
                   THEN Append(ready_list, current) ELSE ready_list
  <2>1. schedule([status EXCEPT ![current] = "READY"], rl)
    BY <1>1 DEF yield
  <2>2. UNCHANGED <<idle_thread, newborn, syncVars, callVars, looping, tidVars>>
    BY <1>1 DEF restOfSched
  <2> QED BY <1>0, <1>1, <2>1, <2>2, SwitchFrame
<1>2. ASSUME Tick PROVE SInv'
  <2>1. /\ tick /\ current \notin looping
        /\ UNCHANGED <<restOfSched, syncVars, callVars, looping, tidVars>>
    BY <1>2 DEF Tick, thread_tick, InterruptsOn, restOfSched
  <2>2. CASE yield
    BY <1>1, <2>1, <2>2
  <2>3. CASE UNCHANGED <<status, ready_list, current>>
    BY <2>1, <2>3
    DEF SInv, SynchTypeOK, PcInv, Arguments, InAllocateTid, WaitListsExact, LockExclusion,
        Owns, KernelAsserts, restOfSched, syncVars, callVars, tidVars
  <2> QED BY <2>1, <2>2, <2>3 DEF tick
<1>3. ASSUME ThreadYield PROVE SInv'
  BY <1>0, <1>1, <1>3 DEF ThreadYield, thread_yield, at, Arguments, restOfSched
<1>4. ASSUME ThreadExit PROVE SInv'
  <2>1. /\ pc[current] = "run" /\ current \notin looping /\ current # IdlePage
        /\ schedule([status EXCEPT ![current] = "DYING"], ready_list)
        /\ UNCHANGED <<idle_thread, newborn, syncVars, callVars, looping, tidVars>>
    BY <1>0, <1>4 DEF ThreadExit, thread_exit, die, at, Arguments, InThreadCode
  <2> QED BY <2>1, SwitchFrame
<1>5. ASSUME IdleLoop PROVE SInv'
  <2>1. /\ pc[current] = "idle_loop" /\ current \notin looping
        /\ schedule([status EXCEPT ![current] = "BLOCKED"], ready_list)
        /\ UNCHANGED <<idle_thread, newborn, syncVars, callVars, looping, tidVars>>
    BY <1>0, <1>5 DEF IdleLoop, idle_loop, block, at, Arguments
  <2> QED BY <1>0, <2>1, SwitchFrame
<1> QED BY <1>2, <1>3, <1>4, <1>5
-----------------------------------------------------------------------------
(* The rounds of sema_down. *)

\* The running thread goes to sleep on the semaphore it is after.
LEMMA DownSleep ==
  ASSUME SInv, IInv', NEW x \in AllSemas, x = sem[current],
         pc[current] \in {"sema_down", "acquire_down", "wait_down"},
         waiters' = [waiters EXCEPT ![x] = Append(@, current)],
         looping' = looping \cup {current}, block,
         UNCHANGED <<restOfSched, value, callVars, holder, cond_waiters, tidVars>>
  PROVE  SInv'
<1>0. /\ current \in Threads /\ SynchTypeOK /\ looping \subseteq Threads
      /\ \A t \in looping : t # IdlePage
      /\ current # IdlePage
      /\ PcLocal(current) /\ AssertsLocal(current) /\ current \notin Range(newborn)
      /\ \A k \in AllSemas : current \notin Range(waiters[k])
  BY Running, PcInvLocal DEF SInv, SynchTypeOK, KernelAsserts, AssertsLocal, IdleLabels
<1>1. /\ \A t \in Threads \ {current, IdlePage} :
           status'[t] = "BLOCKED" <=> status[t] = "BLOCKED"
      /\ \A t \in Threads \ {current} :
           status'[t] \in {"FREE", "DYING"} => status[t] \in {"FREE", "DYING"}
      /\ status'[current] = "BLOCKED"
  <2>1. /\ schedule([status EXCEPT ![current] = "BLOCKED"], ready_list)
        /\ idle_thread' = idle_thread
    BY DEF block, restOfSched
  <2> QED BY <1>0, <2>1, SwitchStatus
<1>2. goto(pc[current], sem[current], cond[current])
  BY <1>0 DEF goto, callVars, SynchTypeOK
<1>3. /\ waiters[x] \in Seq(Threads) /\ IsInjective(waiters[x])
      /\ Append(waiters[x], current) \in Seq(Threads)
      /\ IsInjective(Append(waiters[x], current))
      /\ Range(Append(waiters[x], current)) = Range(waiters[x]) \cup {current}
  <2>1. waiters[x] \in Seq(Threads) /\ IsInjective(waiters[x])
    BY <1>0 DEF SInv, SynchTypeOK, WaitListsExact
  <2> QED BY <1>0, <2>1, AppendFresh
<1>4. SynchTypeOK'
  BY <1>0, <1>3 DEF SynchTypeOK, callVars, tidVars
<1>5. PcInv'
  <2>1. \A t \in Threads : t = current => PcLocal(t)'
    BY <1>0, <1>1 DEF PcLocal, Arguments, InAllocateTid, callVars, restOfSched
  <2> QED BY <1>0, <1>1, <1>2, <2>1, PcFrame DEF restOfSched
<1>6. WaitListsExact'
  <2>1. ASSUME NEW k \in AllSemas
        PROVE  /\ IsInjective(waiters'[k])
               /\ \A t \in Threads : t \in Range(waiters'[k])
                    <=> t \in looping' /\ status'[t] = "BLOCKED" /\ sem'[t] = k
    <3>1. /\ IsInjective(waiters[k])
          /\ \A t \in Threads : t \in Range(waiters[k])
               <=> t \in looping /\ status[t] = "BLOCKED" /\ sem[t] = k
      BY DEF SInv, WaitListsExact
    <3>2. sem' = sem
      BY DEF callVars
    <3>3. CASE k = x
      <4>1. IsInjective(waiters'[k]) /\ Range(waiters'[k]) = Range(waiters[k]) \cup {current}
        BY <1>0, <1>3, <3>3 DEF SynchTypeOK
      <4> QED BY <1>0, <1>1, <3>1, <3>2, <3>3, <4>1
    <3>4. CASE k # x
      <4>1. waiters'[k] = waiters[k]
        BY <1>0, <3>4 DEF SynchTypeOK
      <4> QED BY <1>0, <1>1, <3>1, <3>2, <3>4, <4>1
    <3> QED BY <3>3, <3>4
  <2> QED BY <2>1 DEF WaitListsExact
<1>7. LockExclusion'
  BY DEF SInv, LockExclusion, Owns, callVars
<1>8. KernelAsserts'
  BY DEF SInv, KernelAsserts, callVars
<1> QED BY <1>4, <1>5, <1>6, <1>7, <1>8 DEF SInv

\* The running thread takes the semaphore and goes on.
LEMMA DownTake ==
  ASSUME SInv, IInv', NEW x \in AllSemas, value[x] > 0,
         value' = [value EXCEPT ![x] = @ - 1],
         looping' = looping \ {current},
         NEW l \in Labels, NEW s \in AllSemas \cup {NULL}, NEW c \in Conds \cup {NULL},
         goto(l, s, c), l \notin IdleLabels, current # IdlePage,
         UNCHANGED <<waiters, schedVars, holder, cond_waiters, tidVars>>,
         \A t \in Threads : t = current => PcLocal(t)' /\ AssertsLocal(t)'
  PROVE  SynchTypeOK' /\ PcInv' /\ WaitListsExact' /\ KernelAsserts'
<1>0. /\ current \in Threads /\ SynchTypeOK /\ looping \subseteq Threads
      /\ status[current] = "RUNNING" /\ status' = status
      /\ idle_thread' = idle_thread /\ newborn' = newborn
  BY Running DEF SInv, SynchTypeOK, schedVars
<1>1. /\ pc' \in [Threads -> Labels] /\ sem' \in [Threads -> AllSemas \cup {NULL}]
      /\ cond' \in [Threads -> Conds \cup {NULL}]
      /\ \A t \in Threads \ {current} : sem'[t] = sem[t]
  BY <1>0 DEF goto, SynchTypeOK
<1>2. SynchTypeOK'
  <2>1. value' \in [AllSemas -> Nat]
    BY <1>0, DecrementType DEF SynchTypeOK
  <2>2. looping' \subseteq Threads
    BY <1>0
  <2> QED BY <1>0, <1>1, <2>1, <2>2 DEF SynchTypeOK, tidVars
<1>3. PcInv'
  BY <1>0, PcFrame
<1>4. WaitListsExact'
  BY <1>0, <1>1, WaitFrame
<1>5. KernelAsserts'
  BY AssertsFrame
<1> QED BY <1>2, <1>3, <1>4, <1>5

LEMMA DownSteps ==
  ASSUME SInv, IInv', SemaDown \/ AcquireDown \/ WaitDown
  PROVE  SInv'
<1>0. /\ current \in Threads /\ Arguments(current) /\ SynchTypeOK
      /\ newborn[current] # NULL <=> InAllocateTid(current)
      /\ pc[current] \in IdleLabels <=> current = IdlePage
  BY Running DEF SInv, PcInv
<1>1. ASSUME SemaDown PROVE SInv'
  <2> DEFINE x == sem[current]
  <2>1. /\ pc[current] = "sema_down" /\ x \in AllSemas \ AllLocks
        /\ down(x, "run", NULL, NULL) /\ current # IdlePage
        /\ UNCHANGED <<restOfSched, holder, cond_waiters, tidVars>>
    BY <1>0, <1>1, Names DEF SemaDown, at, Arguments, IdleLabels
  <2>2. CASE value[x] = 0
    BY <2>1, <2>2, DownSleep DEF down
  <2>3. CASE value[x] > 0
    <3>1. /\ value' = [value EXCEPT ![x] = @ - 1] /\ looping' = looping \ {current}
          /\ goto("run", NULL, NULL)
          /\ UNCHANGED <<waiters, schedVars, holder, cond_waiters, tidVars>>
      BY <2>1, <2>3, <1>0 DEF down, SynchTypeOK, schedVars, restOfSched
    <3>2. \A t \in Threads : t = current => PcLocal(t)' /\ AssertsLocal(t)'
      BY <1>0, <2>1, <3>1, AfterGoto, Names
      DEF PcLocal, AssertsLocal, Arguments, IdleLabels, InAllocateTid
    <3>3. "run" \in Labels \ IdleLabels
      BY DEF Labels, IdleLabels
    <3> HIDE DEF x
    <3>4. SynchTypeOK' /\ PcInv' /\ WaitListsExact' /\ KernelAsserts'
      BY <2>1, <2>3, <3>1, <3>2, <3>3, DownTake
    <3>5. \A k \in AllLocks : value'[k] = value[k]
      BY <1>0, <2>1, <3>1, Names DEF SynchTypeOK
    <3>6. LockExclusion'
      BY <2>1, <3>1, <3>5, OwnsElsewhere
    <3> QED BY <3>4, <3>6 DEF SInv
  <2> QED BY <2>1, <2>2, <2>3 DEF down
<1>2. ASSUME AcquireDown PROVE SInv'
  <2> DEFINE x == sem[current]
  <2>1. /\ pc[current] = "acquire_down" /\ x \in AllLocks /\ x \in AllSemas
        /\ down(x, "own", x, NULL) /\ current # IdlePage
        /\ UNCHANGED <<restOfSched, holder, cond_waiters, tidVars>>
    BY <1>0, <1>2, Names DEF AcquireDown, at, Arguments, IdleLabels
  <2>2. CASE value[x] = 0
    BY <2>1, <2>2, DownSleep DEF down
  <2>3. CASE value[x] > 0
    <3>1. /\ value' = [value EXCEPT ![x] = @ - 1] /\ looping' = looping \ {current}
          /\ goto("own", x, NULL)
          /\ UNCHANGED <<waiters, schedVars, holder, cond_waiters, tidVars>>
      BY <2>1, <2>3, <1>0 DEF down, SynchTypeOK, schedVars, restOfSched
    <3>2. \A t \in Threads : t = current => PcLocal(t)' /\ AssertsLocal(t)'
      BY <1>0, <2>1, <3>1, AfterGoto, Names
      DEF PcLocal, AssertsLocal, Arguments, IdleLabels, InAllocateTid
    <3>3. "own" \in Labels \ IdleLabels
      BY DEF Labels, IdleLabels
    <3> HIDE DEF x
    <3>4. SynchTypeOK' /\ PcInv' /\ WaitListsExact' /\ KernelAsserts'
      BY <2>1, <2>3, <3>1, <3>2, <3>3, DownTake
    <3>5. LockExclusion'
      BY <2>1, <2>3, <3>1, TakeLock
    <3> QED BY <3>4, <3>5 DEF SInv
  <2> QED BY <2>1, <2>2, <2>3 DEF down
<1>3. ASSUME WaitDown PROVE SInv'
  <2> DEFINE l == CondLock[cond[current]]
  <2>1. /\ pc[current] = "wait_down" /\ sem[current] = current
        /\ current \in AllSemas \ AllLocks /\ l \in Locks /\ l \in AllSemas
        /\ l \in AllLocks /\ l # tid_lock
        /\ down(current, "acquire_down", l, NULL) /\ current # IdlePage
        /\ UNCHANGED <<restOfSched, holder, cond_waiters, tidVars>>
    BY <1>0, <1>3, Names DEF WaitDown, at, Arguments, IdleLabels
  <2> HIDE DEF l
  <2>2. CASE value[current] = 0
    BY <2>1, <2>2, DownSleep DEF down
  <2>3. CASE value[current] > 0
    <3>1. /\ value' = [value EXCEPT ![current] = @ - 1] /\ looping' = looping \ {current}
          /\ goto("acquire_down", l, NULL)
          /\ UNCHANGED <<waiters, schedVars, holder, cond_waiters, tidVars>>
      BY <2>1, <2>3, <1>0 DEF down, SynchTypeOK, schedVars, restOfSched
    <3>2. \A t \in Threads : t = current => PcLocal(t)' /\ AssertsLocal(t)'
      BY <1>0, <2>1, <3>1, AfterGoto, Names
      DEF PcLocal, AssertsLocal, Arguments, IdleLabels, InAllocateTid
    <3>3. "acquire_down" \in Labels \ IdleLabels
      BY DEF Labels, IdleLabels
    <3>4. SynchTypeOK' /\ PcInv' /\ WaitListsExact' /\ KernelAsserts'
      BY <2>1, <2>3, <3>1, <3>2, <3>3, DownTake
    <3>5. \A k \in AllLocks : value'[k] = value[k]
      BY <1>0, <2>1, <3>1, Names DEF SynchTypeOK
    <3>6. LockExclusion'
      BY <2>1, <3>1, <3>5, OwnsElsewhere
    <3> QED BY <3>4, <3>6 DEF SInv
  <2> QED BY <2>1, <2>2, <2>3 DEF down
<1> QED BY <1>1, <1>2, <1>3
-----------------------------------------------------------------------------
(* Creating a thread, and the start of the idle thread. *)

LEMMA CreateSteps ==
  ASSUME SInv, IInv', (\E t \in Threads : ThreadCreate(t)) \/ CreateEnd \/ IdleStart
  PROVE  SInv'
<1>0. /\ current \in Threads /\ SynchTypeOK /\ TypeOK /\ status[current] = "RUNNING"
      /\ \A t \in Threads : PcLocal(t) /\ AssertsLocal(t)
      /\ pc[IdlePage] = "idle_start" <=> idle_thread = NULL
      /\ current # IdlePage <=> pc[current] \notin IdleLabels
      /\ looping \subseteq Threads
      /\ NULL \notin Threads /\ IdlePage \in Threads
      /\ current \notin Range(newborn)
  BY Running, PcInvLocal, SchedulerAssumption
  DEF SInv, IInv, SynchTypeOK, KernelAsserts, AssertsLocal
<1>1. ASSUME NEW u \in Threads, ThreadCreate(u) PROVE SInv'
  <2>1. /\ pc[current] = "run" /\ current # IdlePage /\ newborn[current] = NULL
        /\ goto("acquire_down", tid_lock, NULL)
        /\ status[u] = "FREE" /\ status' = [status EXCEPT ![u] = "BLOCKED"]
        /\ newborn' = [newborn EXCEPT ![current] = u]
        /\ tid' = [tid EXCEPT ![u] = 0]
        /\ UNCHANGED <<idle_thread, value, waiters, holder, cond_waiters, looping,
                       next_tid, new_tid>>
    BY <1>1 DEF ThreadCreate, thread_create, init_thread, InThreadCode, at, syncVars
  <2>2. /\ pc' = [pc EXCEPT ![current] = "acquire_down"]
        /\ sem' = [sem EXCEPT ![current] = tid_lock]
        /\ cond' = [cond EXCEPT ![current] = NULL]
    BY <2>1 DEF goto
  <2>3. /\ u # current /\ pc[u] = "run" /\ u \notin looping /\ u # IdlePage
        /\ newborn[u] = NULL
    BY <1>0, <2>1 DEF PcLocal, Arguments, IdleLabels, InAllocateTid
  <2>4. SynchTypeOK'
    BY <1>0, <2>1, <2>2, Names DEF SynchTypeOK, Labels
  <2>5. \A t \in Range(newborn') : t \in Range(newborn) \/ t = u
    BY <1>0, <2>1 DEF Range, TypeOK
  <2>6. PcInv'
    <3>1. ASSUME NEW t \in Threads, t # current PROVE PcLocal(t)'
      <4>1. /\ pc'[t] = pc[t] /\ sem'[t] = sem[t] /\ cond'[t] = cond[t]
            /\ newborn'[t] = newborn[t]
        BY <1>0, <2>1, <2>2, <3>1 DEF SynchTypeOK, TypeOK
      <4>2. status'[t] \in {"FREE", "DYING"} => status[t] \in {"FREE", "DYING"}
        BY <1>0, <2>1 DEF TypeOK
      <4>3. PcLocal(t)
        BY <1>0
      <4> QED BY <2>1, <2>3, <2>5, <4>1, <4>2, <4>3 DEF PcLocal, Arguments, InAllocateTid
    <3>2. PcLocal(current)
      BY <1>0
    <3>3. ASSUME NEW t \in Threads, t = current PROVE PcLocal(t)'
      <4>1. /\ pc'[t] = "acquire_down" /\ sem'[t] = tid_lock
            /\ newborn'[t] # NULL /\ status'[t] = "RUNNING"
        BY <1>0, <2>1, <2>2, <2>3, <3>3 DEF SynchTypeOK, TypeOK
      <4>2. t \notin Range(newborn')
        BY <1>0, <2>3, <2>5, <3>3
      <4> QED BY <1>0, <2>1, <3>3, <4>1, <4>2, Names
              DEF PcLocal, Arguments, InAllocateTid, IdleLabels
    <3>4. pc'[IdlePage] = "idle_start" <=> idle_thread' = NULL
      BY <1>0, <2>1, <2>2 DEF SynchTypeOK
    <3> QED BY <3>1, <3>3, <3>4 DEF PcInv, PcLocal
  <2>7. WaitListsExact'
    <3>1. \A t \in Threads : sem'[t] = sem[t] \/ t = current
      BY <1>0, <2>2 DEF SynchTypeOK
    <3>2. \A t \in looping : status'[t] = status[t]
      BY <1>0, <2>1, <2>3 DEF TypeOK
    <3>3. status'[current] = "RUNNING"
      BY <1>0, <2>1, <2>3 DEF TypeOK
    <3> QED BY <1>0, <2>1, <3>1, <3>2, <3>3, WaitFrame
  <2>8. LockExclusion'
    BY <2>1, OwnsElsewhere
  <2>9. KernelAsserts'
    <3>1. \A t \in Threads : t = current => AssertsLocal(t)'
      BY <1>0, <2>2 DEF AssertsLocal, SynchTypeOK
    <3> QED BY <2>1, <3>1, AssertsFrame
  <2> QED BY <2>4, <2>6, <2>7, <2>8, <2>9 DEF SInv
<1>2. ASSUME CreateEnd PROVE SInv'
  <2> DEFINE u == newborn[current]
  <2>1. /\ pc[current] = "create_end" /\ current # IdlePage
        /\ goto("run", NULL, NULL)
        /\ u # NULL /\ status' = [status EXCEPT ![u] = "READY"]
        /\ newborn' = [newborn EXCEPT ![current] = NULL]
        /\ tid' = [tid EXCEPT ![u] = new_tid[current]]
        /\ new_tid' = [new_tid EXCEPT ![current] = 0]
        /\ UNCHANGED <<idle_thread, value, waiters, holder, cond_waiters, looping, next_tid>>
    BY <1>0, <1>2 DEF CreateEnd, thread_create_end, unblock, at, syncVars, IdleLabels
  <2>2. /\ pc' = [pc EXCEPT ![current] = "run"]
        /\ sem' = [sem EXCEPT ![current] = NULL]
        /\ cond' = [cond EXCEPT ![current] = NULL]
    BY <2>1 DEF goto
  <2>3. /\ u \in Threads /\ u # current /\ u \notin looping
    BY <1>0, <2>1, Running DEF TypeOK, Range
  <2> HIDE DEF u
  <2>4. SynchTypeOK'
    BY <1>0, <2>1, <2>2, Names DEF SynchTypeOK, Labels
  <2>5. \A t \in Range(newborn') : t \in Range(newborn) \/ t = NULL
    BY <1>0, <2>1 DEF Range, TypeOK
  <2>6. PcInv'
    <3>1. ASSUME NEW t \in Threads, t # current PROVE PcLocal(t)'
      <4>1. /\ pc'[t] = pc[t] /\ sem'[t] = sem[t] /\ cond'[t] = cond[t]
            /\ newborn'[t] = newborn[t]
        BY <1>0, <2>1, <2>2, <3>1 DEF SynchTypeOK, TypeOK
      <4>2. status'[t] \in {"FREE", "DYING"} => status[t] \in {"FREE", "DYING"}
        BY <1>0, <2>1 DEF TypeOK
      <4>3. PcLocal(t)
        BY <1>0
      <4>4. t \in Range(newborn') => t \in Range(newborn)
        BY <1>0, <2>5
      <4> QED BY <2>1, <4>1, <4>2, <4>3, <4>4 DEF PcLocal, Arguments, InAllocateTid
    <3>2. ASSUME NEW t \in Threads, t = current PROVE PcLocal(t)'
      <4>1. /\ pc'[t] = "run" /\ newborn'[t] = NULL
        BY <1>0, <2>1, <2>2, <3>2 DEF SynchTypeOK, TypeOK
      <4>2. t \notin looping
        BY <1>0, <2>1, <3>2 DEF PcLocal, Arguments
      <4> QED BY <1>0, <2>1, <3>2, <4>1, <4>2, Names
              DEF PcLocal, Arguments, InAllocateTid, IdleLabels
    <3>3. pc'[IdlePage] = "idle_start" <=> idle_thread' = NULL
      BY <1>0, <2>1, <2>2 DEF SynchTypeOK
    <3> QED BY <3>1, <3>2, <3>3 DEF PcInv, PcLocal
  <2>7. WaitListsExact'
    <3>1. \A t \in Threads : sem'[t] = sem[t] \/ t = current
      BY <1>0, <2>2 DEF SynchTypeOK
    <3>2. \A t \in looping : status'[t] = status[t]
      BY <1>0, <2>1, <2>3 DEF TypeOK
    <3>3. status'[current] = "RUNNING"
      BY <1>0, <2>1, <2>3 DEF TypeOK
    <3> QED BY <1>0, <2>1, <3>1, <3>2, <3>3, WaitFrame
  <2>8. LockExclusion'
    BY <2>1, OwnsElsewhere
  <2>9. KernelAsserts'
    <3>1. \A t \in Threads : t = current => AssertsLocal(t)'
      BY <1>0, <2>2 DEF AssertsLocal, SynchTypeOK
    <3> QED BY <2>1, <3>1, AssertsFrame
  <2> QED BY <2>4, <2>6, <2>7, <2>8, <2>9 DEF SInv
<1>3. ASSUME IdleStart PROVE SInv'
  <2>1. /\ pc[current] = "idle_start" /\ current = IdlePage
        /\ goto("idle_up", NULL, NULL) /\ idle_thread' = current
        /\ UNCHANGED <<status, newborn, value, waiters, holder, cond_waiters, looping, tidVars>>
    BY <1>3 DEF IdleStart, idle_start, at, syncVars
  <2>2. /\ pc' = [pc EXCEPT ![current] = "idle_up"]
        /\ sem' = [sem EXCEPT ![current] = NULL]
        /\ cond' = [cond EXCEPT ![current] = NULL]
    BY <2>1 DEF goto
  <2>3. SynchTypeOK'
    BY <1>0, <2>1, <2>2, Names DEF SynchTypeOK, Labels, tidVars
  <2>4. PcInv'
    <3>1. ASSUME NEW t \in Threads, t # current PROVE PcLocal(t)'
      <4>1. pc'[t] = pc[t] /\ sem'[t] = sem[t] /\ cond'[t] = cond[t]
        BY <1>0, <2>2, <3>1 DEF SynchTypeOK
      <4>2. PcLocal(t)
        BY <1>0
      <4> QED BY <2>1, <4>1, <4>2 DEF PcLocal, Arguments, InAllocateTid
    <3>2. ASSUME NEW t \in Threads, t = current PROVE PcLocal(t)'
      <4>1. pc'[t] = "idle_up" /\ PcLocal(t)
        BY <1>0, <2>2, <3>2 DEF SynchTypeOK
      <4> QED BY <1>0, <2>1, <3>2, <4>1 DEF PcLocal, Arguments, InAllocateTid, IdleLabels
    <3>3. pc'[IdlePage] = "idle_start" <=> idle_thread' = NULL
      BY <1>0, <2>1, <2>2 DEF SynchTypeOK
    <3> QED BY <3>1, <3>2, <3>3 DEF PcInv, PcLocal
  <2>5. WaitListsExact'
    <3>1. \A t \in Threads : sem'[t] = sem[t] \/ t = current
      BY <1>0, <2>2 DEF SynchTypeOK
    <3> QED BY <1>0, <2>1, <3>1, WaitFrame
  <2>6. LockExclusion'
    BY <2>1, OwnsElsewhere
  <2>7. KernelAsserts'
    <3>1. \A t \in Threads : t = current => AssertsLocal(t)'
      BY <1>0, <2>2 DEF AssertsLocal, SynchTypeOK
    <3> QED BY <2>1, <3>1, AssertsFrame
  <2> QED BY <2>3, <2>4, <2>5, <2>6, <2>7 DEF SInv
<1> QED BY <1>1, <1>2, <1>3
-----------------------------------------------------------------------------
(* The invariant, and the theorems. *)

LEMMA NextSInv == SInv /\ [Next]_vars => SInv'
<1> SUFFICES ASSUME SInv, [Next]_vars PROVE SInv'
  OBVIOUS
<1>1. IInv'
  BY StepUsesScheduler, NextIInv DEF SInv
<1>2. CASE Call
  BY <1>1, <1>2, CallSteps, CreateSteps, SwitchSteps DEF Call
<1>3. CASE KernelStep
  BY <1>1, <1>3, CallSteps, UpSteps, DownSteps, CreateSteps, SwitchSteps DEF KernelStep
<1>4. CASE Interrupt
  BY <1>1, <1>4, CallSteps, UpSteps, SwitchSteps DEF Interrupt
<1>5. CASE UNCHANGED vars
  BY <1>5
  DEF vars, schedVars, syncVars, callVars, tidVars, SInv, IInv, SchedInv, TypeOK,
      ReadyListExact, OneRunning, AlwaysSomeoneToRun, AllListExact, NewbornHidden, IdleSafe,
      SynchTypeOK, PcInv, Arguments, InAllocateTid, WaitListsExact, LockExclusion, Owns,
      KernelAsserts
<1> QED BY <1>2, <1>3, <1>4, <1>5 DEF Next

\* The inductive invariant holds throughout.
THEOREM SynchInvariant == Spec => []SInv
<1> QED BY InitSInv, NextSInv, PTL DEF Spec

\* synch.c: every variable keeps its type; no semaphore's value goes below 0.
THEOREM SynchTypeCorrect == Spec => []SynchTypeOK
<1>1. SInv => SynchTypeOK
  BY DEF SInv
<1> QED BY <1>1, SynchInvariant, PTL

\* lock_acquire, lock_try_acquire, lock_release, cond_wait: a lock has at most
\* one owner and is free exactly while nobody has it.
THEOREM LocksExclude == Spec => []LockExclusion
<1>1. SInv => LockExclusion
  BY DEF SInv
<1> QED BY <1>1, SynchInvariant, PTL

\* sema_down, sema_up: a wait list holds exactly the threads that sleep on its
\* semaphore, so elem is never on two lists.
THEOREM WaitListsCorrect == Spec => []WaitListsExact
<1>1. SInv => WaitListsExact
  BY DEF SInv
<1> QED BY <1>1, SynchInvariant, PTL

\* The ASSERTs of lock_release and cond_signal hold in the kernel's own calls.
THEOREM KernelAssertsHold == Spec => []KernelAsserts
<1>1. SInv => KernelAsserts
  BY DEF SInv
<1> QED BY <1>1, SynchInvariant, PTL

\* synch.c is a correct client of thread.c: every behaviour of Synch is one of
\* Scheduler, so that all that is proved of Scheduler holds of it.
THEOREM SynchUsesScheduler == Spec => UsesScheduler
<1>1. SynchInit => SchedInit
  BY DEF SynchInit
<1> QED
  BY <1>1, SynchInvariant, StepUsesScheduler, PTL DEF Spec, UsesScheduler, SchedSpec

\* lock_acquire never overwrites a holder and only the holder forgets itself.
THEOREM HolderChangesHands == Spec => HolderHandover
<1>1. ASSUME SInv, [Next]_vars, NEW l \in AllLocks, holder[l] # NULL, holder'[l] # holder[l]
      PROVE  current = holder[l] /\ holder'[l] = NULL
  <2>1. holder \in [AllLocks -> Threads \cup {NULL}] /\ current \in Threads
    BY <1>1, Running DEF SInv, SynchTypeOK
  <2>2. CASE Own
    <3>1. /\ pc[current] = "own" /\ sem[current] = l /\ Owns(current, l)
      BY <1>1, <2>1, <2>2 DEF Own, at, Owns
    <3>2. Owns(holder[l], l) /\ holder[l] \in Threads
      BY <1>1, <2>1 DEF Owns
    <3>3. holder[l] = current
      BY <1>1, <2>1, <3>1, <3>2, OneOwner
    <3> QED BY <1>1, <2>1, <2>2, <3>1, <3>3 DEF Own
  <2>3. ASSUME NEW k, disown(k)
        PROVE  current = holder[l] /\ holder'[l] = NULL
    BY <1>1, <2>1, <2>3 DEF disown
  <2>4. CASE \/ \E k \in Locks : lock_release(k)
             \/ WaitRelease \/ TidRelease
    BY <2>3, <2>4 DEF lock_release, WaitRelease, TidRelease
  <2>5. CASE holder' = holder
    BY <1>1, <2>5
  <2> QED
    BY <1>1, <2>2, <2>4, <2>5
    DEF Next, Call, KernelStep, Interrupt, vars, syncVars, sema_down, sema_up,
        sema_try_down, lock_acquire, lock_try_acquire, cond_wait, cond_signal,
        cond_broadcast, pop, ThreadCreate, ThreadExit, ThreadYield, SemaDown, AcquireDown,
        ReleaseUp, WaitDown, SignalUp, BroadcastUp, Broadcast, TidRead, TidWrite, CreateEnd,
        IdleStart, IdleUp, IdleLoop, Tick
<1>2. SInv /\ [Next]_vars =>
        [\A l \in AllLocks : holder[l] # NULL /\ holder'[l] # holder[l]
           => current = holder[l] /\ holder'[l] = NULL]_vars
  BY <1>1
<1> QED BY <1>2, SynchInvariant, PTL DEF Spec, HolderHandover

-----------------------------------------------------------------------------
(* Tids are unique, for any number of threads that create others at once.  *)
(* The invariant follows a tid from next_tid to the local variable of      *)
(* allocate_tid to struct thread.                                          *)


\* A tid is below next_tid, but for the thread about to store it there, and is
\* in one place only: one local variable, or one live thread.
TidInv ==
  /\ next_tid > 0
  /\ \A t \in Threads : IF pc[t] = "tid_write" THEN new_tid[t] = next_tid
                                               ELSE new_tid[t] < next_tid
  /\ \A t \in all_list : tid[t] < next_tid
  /\ \A t, u \in Threads : t # u /\ new_tid[t] # 0 => new_tid[t] # new_tid[u]
  /\ \A t \in Threads, u \in all_list : new_tid[t] # 0 => tid[u] # new_tid[t]
  /\ \A t, u \in all_list : t # u /\ tid[t] # 0 => tid[t] # tid[u]

LEMMA TidInit == SynchInit => TidInv
<1> SUFFICES ASSUME SynchInit PROVE TidInv
  OBVIOUS
<1>1. /\ all_list = {initial_thread, IdlePage} /\ initial_thread # IdlePage
      /\ initial_thread \in Threads /\ IdlePage \in Threads
  BY SchedulerAssumption DEF SynchInit, SchedInit
<1>2. tid[initial_thread] = 1 /\ tid[IdlePage] = 2 /\ next_tid = 3
  BY <1>1 DEF SynchInit
<1>3. \A t \in Threads : new_tid[t] = 0 /\ pc[t] # "tid_write"
  BY DEF SynchInit
<1> QED BY <1>1, <1>2, <1>3 DEF TidInv

\* Only the owner of tid_lock is between the load and the store.
LEMMA OneWriter ==
  ASSUME SInv, NEW t \in Threads, NEW u \in Threads,
         pc[t] \in {"tid_read", "tid_write"}, pc[u] \in {"tid_read", "tid_write"}
  PROVE  t = u
BY DEF SInv, KernelAsserts

\* Steps that leave the tids alone and create no thread.
LEMMA TidFrame ==
  ASSUME SInv, TidInv, UNCHANGED tidVars, all_list' \subseteq all_list,
         \/ UNCHANGED callVars
         \/ \E l, s, c : goto(l, s, c) /\ l # "tid_write" /\ pc[current] # "tid_write"
  PROVE  TidInv'
<1>1. pc \in [Threads -> Labels]
  BY DEF SInv, SynchTypeOK
<1>2. \A t \in Threads : pc'[t] = "tid_write" <=> pc[t] = "tid_write"
  BY <1>1 DEF goto, callVars
<1> QED BY <1>2 DEF TidInv, tidVars

LEMMA TidStep == SInv /\ TidInv /\ [Next]_vars => TidInv'
<1> SUFFICES ASSUME SInv, TidInv, [Next]_vars PROVE TidInv'
  OBVIOUS
<1>t. /\ current \in Threads /\ all_list \subseteq Threads
      /\ pc \in [Threads -> Labels] /\ newborn \in [Threads -> Threads \cup {NULL}]
      /\ tid \in [Threads -> Nat] /\ next_tid \in Nat /\ new_tid \in [Threads -> Nat]
  BY DEF SInv, SynchTypeOK, IInv, TypeOK
<1>1. ASSUME NEW t \in Threads, ThreadCreate(t) PROVE TidInv'
  <2>1. tid' = [tid EXCEPT ![t] = 0] /\ UNCHANGED <<next_tid, new_tid>>
    BY <1>1 DEF ThreadCreate
  <2>2. all_list' = all_list \cup {t}
    BY <1>1 DEF ThreadCreate, thread_create, init_thread
  <2>3. \A u \in Threads : pc'[u] = "tid_write" <=> pc[u] = "tid_write"
    BY <1>1, <1>t DEF ThreadCreate, goto, at
  <2>4. tid'[t] = 0 /\ \A u \in all_list : u # t => tid'[u] = tid[u]
    BY <1>t, <2>1
  <2> QED BY <1>t, <2>1, <2>2, <2>3, <2>4 DEF TidInv
<1>2. CASE TidRead
  <2>1. /\ pc[current] = "tid_read" /\ UNCHANGED <<tid, next_tid, all_list>>
        /\ new_tid' = [new_tid EXCEPT ![current] = next_tid]
        /\ pc' = [pc EXCEPT ![current] = "tid_write"]
    BY <1>2 DEF TidRead, at, goto, schedVars
  <2>2. \A t \in Threads \ {current} : pc[t] # "tid_write" /\ pc'[t] = pc[t] /\ new_tid'[t] = new_tid[t]
    BY <1>t, <2>1, OneWriter
  <2>3. \A t \in Threads \ {current} : new_tid[t] < next_tid
    BY <2>2 DEF TidInv
  <2>4. new_tid'[current] = next_tid /\ pc'[current] = "tid_write"
    BY <1>t, <2>1
  <2>5. \A t, u \in Threads : t # u /\ new_tid'[t] # 0 => new_tid'[t] # new_tid'[u]
    BY <1>t, <2>2, <2>3, <2>4 DEF TidInv
  <2>6. \A t \in Threads, u \in all_list : new_tid'[t] # 0 => tid[u] # new_tid'[t]
    BY <1>t, <2>2, <2>4 DEF TidInv
  <2> QED BY <2>1, <2>2, <2>3, <2>4, <2>5, <2>6 DEF TidInv
<1>3. CASE TidWrite
  <2>1. /\ pc[current] = "tid_write" /\ UNCHANGED <<tid, new_tid, all_list>>
        /\ next_tid' = new_tid[current] + 1
        /\ pc' = [pc EXCEPT ![current] = "tid_release"]
    BY <1>3 DEF TidWrite, at, goto, schedVars
  <2>2. next_tid' = next_tid + 1
    BY <1>t, <2>1 DEF TidInv
  <2>3. \A t \in Threads : pc'[t] # "tid_write"
    BY <1>t, <2>1, OneWriter
  <2>4. \A t \in Threads : new_tid[t] < next_tid + 1
    BY <1>t DEF TidInv
  <2> QED BY <1>t, <2>1, <2>2, <2>3, <2>4 DEF TidInv
<1>4. CASE CreateEnd
  <2> DEFINE n == newborn[current]
  <2>1. /\ pc[current] = "create_end" /\ n # NULL /\ UNCHANGED <<next_tid, all_list>>
        /\ tid' = [tid EXCEPT ![n] = new_tid[current]]
        /\ new_tid' = [new_tid EXCEPT ![current] = 0]
        /\ pc' = [pc EXCEPT ![current] = "run"]
    BY <1>4 DEF CreateEnd, at, goto, thread_create_end
  <2>2. n \in Threads /\ new_tid[current] < next_tid
    BY <1>t, <2>1 DEF TidInv
  <2> HIDE DEF n
  <2>3. /\ tid'[n] = new_tid[current] /\ \A u \in Threads \ {n} : tid'[u] = tid[u]
        /\ new_tid'[current] = 0 /\ \A u \in Threads \ {current} : new_tid'[u] = new_tid[u]
        /\ \A u \in Threads : pc'[u] = "tid_write" <=> pc[u] = "tid_write"
    BY <1>t, <2>1, <2>2
  <2>4. \A t, u \in all_list : t # u /\ tid'[t] # 0 => tid'[t] # tid'[u]
    BY <1>t, <2>3 DEF TidInv
  <2>5. \A t \in Threads, u \in all_list : new_tid'[t] # 0 => tid'[u] # new_tid'[t]
    BY <1>t, <2>3 DEF TidInv
  <2>6. \A t, u \in Threads : t # u /\ new_tid'[t] # 0 => new_tid'[t] # new_tid'[u]
    BY <1>t, <2>3 DEF TidInv
  <2>7. \A t \in Threads : IF pc'[t] = "tid_write" THEN new_tid'[t] = next_tid ELSE new_tid'[t] < next_tid
    BY <1>t, <2>1, <2>3 DEF TidInv
  <2>8. \A t \in all_list : tid'[t] < next_tid
    BY <1>t, <2>2, <2>3 DEF TidInv
  <2> QED BY <2>1, <2>4, <2>5, <2>6, <2>7, <2>8 DEF TidInv
<1>5. CASE Tick \/ ThreadYield \/ ThreadExit \/ IdleLoop \/ UNCHANGED vars
  <2>1. UNCHANGED tidVars /\ UNCHANGED callVars
    BY <1>5 DEF Tick, ThreadYield, ThreadExit, IdleLoop, vars
  <2>2. all_list' \subseteq all_list
    BY <1>5 DEF Tick, ThreadYield, ThreadExit, IdleLoop, vars, schedVars, thread_tick,
                thread_yield, thread_exit, die, idle_loop
  <2> QED BY <2>1, <2>2, TidFrame
<1>6. ASSUME NEW s, sema_down(s) \/ sema_up(s) \/ sema_try_down(s) PROVE TidInv'
  <2>1. UNCHANGED tidVars /\ all_list' = all_list
    BY <1>6 DEF sema_down, sema_up, sema_try_down, schedVars, restOfSched
  <2>2. UNCHANGED callVars \/ (goto("sema_down", s, NULL) /\ pc[current] = "run")
    BY <1>6 DEF sema_down, sema_up, sema_try_down, at
  <2> QED BY <2>1, <2>2, TidFrame
<1>7. ASSUME NEW l, lock_acquire(l) \/ lock_try_acquire(l) \/ lock_release(l) PROVE TidInv'
  <2>1. UNCHANGED tidVars /\ all_list' = all_list
    BY <1>7 DEF lock_acquire, lock_try_acquire, lock_release, disown, schedVars
  <2>2. /\ pc[current] = "run"
        /\ goto("acquire_down", l, NULL) \/ goto("own", l, NULL) \/ goto("release_up", l, NULL)
           \/ \E s, c : goto("release_up", s, c)
    BY <1>7 DEF lock_acquire, lock_try_acquire, lock_release, at
  <2> QED BY <2>1, <2>2, TidFrame
<1>8. ASSUME NEW c, cond_wait(c) \/ cond_signal(c) \/ cond_broadcast(c) PROVE TidInv'
  <2>1. UNCHANGED tidVars /\ all_list' = all_list
    BY <1>8 DEF cond_wait, cond_signal, cond_broadcast, pop, schedVars
  <2>2. /\ pc[current] = "run"
        /\ \E l, s, d : goto(l, s, d) /\ l \in {"wait_release", "signal_up", "broadcast_up"}
    BY <1>8 DEF cond_wait, cond_signal, cond_broadcast, pop, at
  <2> QED BY <2>1, <2>2, TidFrame
<1>9. CASE SemaDown \/ AcquireDown \/ WaitDown
  <2>1. UNCHANGED tidVars /\ all_list' = all_list
    BY <1>9 DEF SemaDown, AcquireDown, WaitDown, restOfSched
  <2>2. /\ pc[current] # "tid_write"
        /\ UNCHANGED callVars \/ \E l, s, c : goto(l, s, c) /\ l \in {"run", "own", "acquire_down"}
    BY <1>9 DEF SemaDown, AcquireDown, WaitDown, at, down
  <2> QED BY <2>1, <2>2, TidFrame
<1>10. CASE Own \/ ReleaseUp \/ SignalUp \/ BroadcastUp \/ IdleUp
  <2>1. UNCHANGED tidVars /\ all_list' = all_list
    BY <1>10 DEF Own, ReleaseUp, SignalUp, BroadcastUp, IdleUp, restOfSched, schedVars
  <2>2. /\ pc[current] # "tid_write"
        /\ \E l, s, c : /\ goto(l, s, c)
                        /\ l \in {"tid_read", "run", "wait_down", "create_end", "broadcast", "idle_loop"}
    BY <1>10 DEF Own, ReleaseUp, SignalUp, BroadcastUp, IdleUp, at
  <2> QED BY <2>1, <2>2, TidFrame
<1>11. CASE WaitRelease \/ TidRelease \/ IdleStart \/ Broadcast
  <2>1. UNCHANGED tidVars /\ all_list' = all_list
    BY <1>11 DEF WaitRelease, TidRelease, disown, IdleStart, idle_start, Broadcast, pop, schedVars
  <2>2. /\ pc[current] # "tid_write"
        /\ \E l, s, c : goto(l, s, c) /\ l \in {"release_up", "idle_up", "broadcast_up", "run"}
    BY <1>11 DEF WaitRelease, TidRelease, IdleStart, Broadcast, pop, at
  <2> QED BY <2>1, <2>2, TidFrame
<1> QED
  BY <1>1, <1>2, <1>3, <1>4, <1>5, <1>6, <1>7, <1>8, <1>9, <1>10, <1>11
  DEF Next, Call, KernelStep, Interrupt

\* allocate_tid under tid_lock (thread.c): however many threads create others at
\* once, no tid is given twice, to threads that live or are being created.
THEOREM TidsAreUnique == Spec => []UniqueTids
<1>1. SInv /\ TidInv => UniqueTids
  <2> SUFFICES ASSUME SInv, TidInv PROVE UniqueTids
    OBVIOUS
  <2>1. all_list \subseteq Threads
    BY DEF SInv, IInv, TypeOK
  <2> QED BY <2>1 DEF TidInv, UniqueTids
<1> QED BY <1>1, SynchInvariant, TidInit, TidStep, PTL DEF Spec

=============================================================================
