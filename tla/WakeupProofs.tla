---------------------------- MODULE WakeupProofs ----------------------------
(***************************************************************************)
(* No wake-up is lost, for any number of threads and semaphores: every     *)
(* unit of a semaphore's value that sleepers could use has a woken thread  *)
(* on its way to it.                                                       *)
(***************************************************************************)
EXTENDS SynchProofs, FiniteSetTheorems

\* There may be any number of threads, but only finitely many are in sema_down.
WakeInv == IsFiniteSet(looping) /\ NoLostWakeup

LEMMA WokenFinite ==
  ASSUME IsFiniteSet(looping), NEW s
  PROVE  IsFiniteSet(Woken(s)) /\ Cardinality(Woken(s)) \in Nat
<1>1. Woken(s) \in SUBSET looping
  BY DEF Woken
<1> QED BY <1>1, FS_Subset, FS_CardinalityType

\* A thread that is not in sema_down is in none of its loops.
LEMMA NotInDown ==
  ASSUME SInv, pc[current] \notin {"sema_down", "acquire_down", "wait_down"}
  PROVE  current \notin looping
BY Running DEF SInv, PcInv, Arguments

LEMMA GotoOthers ==
  ASSUME SInv, UNCHANGED callVars \/ \E l, s, c : goto(l, s, c)
  PROVE  \A t \in Threads \ {current} : sem'[t] = sem[t]
BY DEF SInv, SynchTypeOK, goto, callVars

\* A semaphore keeps its promise when its value does not rise, nobody joins its
\* list, and whoever was woken still is.
LEMMA SemaphoreFrame ==
  ASSUME SInv, SInv', WakeInv, IsFiniteSet(looping'), NEW s \in AllSemas,
         value'[s] <= value[s], waiters'[s] # <<>> => waiters[s] # <<>>,
         \A t \in looping : status[t] # "BLOCKED" /\ sem[t] = s
                              => t \in looping' /\ status'[t] # "BLOCKED" /\ sem'[t] = s
  PROVE  waiters'[s] # <<>> => value'[s] <= Cardinality(Woken(s)')
<1> SUFFICES ASSUME waiters'[s] # <<>> PROVE value'[s] <= Cardinality(Woken(s)')
  OBVIOUS
<1> DEFINE W == Woken(s)
           V == Woken(s)'
<1>1. W \in SUBSET V
  BY DEF Woken
<1>2. IsFiniteSet(W) /\ Cardinality(W) \in Nat
  BY WokenFinite DEF WakeInv
<1>3. V \in SUBSET looping'
  BY DEF Woken
<1> HIDE DEF W, V
<1>4. IsFiniteSet(V) /\ Cardinality(V) \in Nat
  BY <1>3, FS_Subset, FS_CardinalityType
<1>5. Cardinality(W) <= Cardinality(V)
  BY <1>1, <1>4, FS_Subset
<1>6. value[s] <= Cardinality(W)
  BY DEF WakeInv, NoLostWakeup, W
<1>7. value[s] \in Nat /\ value'[s] \in Nat
  BY DEF SInv, SynchTypeOK
<1>8. value'[s] <= Cardinality(V)
  BY <1>2, <1>4, <1>5, <1>6, <1>7
<1> QED BY <1>8 DEF V

\* The steps that are no round of sema_down and no sema_up.
LEMMA QuietWake ==
  ASSUME SInv, SInv', WakeInv, current \notin looping, looping' = looping,
         UNCHANGED callVars \/ \E l, s, c : goto(l, s, c),
         \A s \in AllSemas : value'[s] <= value[s] /\ (waiters'[s] # <<>> => waiters[s] # <<>>),
         \A t \in looping : status'[t] = "BLOCKED" => status[t] = "BLOCKED"
  PROVE  WakeInv'
<1>1. \A t \in looping : sem'[t] = sem[t]
  BY GotoOthers DEF SInv, SynchTypeOK
<1>2. IsFiniteSet(looping')
  BY DEF WakeInv
<1>3. ASSUME NEW s \in AllSemas PROVE waiters'[s] # <<>> => value'[s] <= Cardinality(Woken(s)')
  BY <1>1, <1>2, SemaphoreFrame
<1> QED BY <1>2, <1>3 DEF WakeInv, NoLostWakeup

\* sema_up: one unit more, and one thread more to take it.
LEMMA UpWake ==
  ASSUME SInv, SInv', WakeInv, current \notin looping, looping' = looping,
         UNCHANGED callVars \/ \E l, s, c : goto(l, s, c),
         NEW x \in AllSemas, up(x)
  PROVE  WakeInv'
<1>1. \A t \in looping : sem'[t] = sem[t]
  BY GotoOthers DEF SInv, SynchTypeOK
<1>2. IsFiniteSet(looping')
  BY DEF WakeInv
<1>3. /\ \A t \in Threads : status'[t] # status[t] => status[t] = "BLOCKED" /\ status'[t] = "READY"
      /\ \A k \in AllSemas \ {x} : value'[k] = value[k]
      /\ value'[x] = value[x] + 1
  BY UpStatus
<1>t. /\ looping \subseteq Threads /\ waiters \in [AllSemas -> Seq(Threads)]
      /\ status \in [Threads -> Status] /\ value \in [AllSemas -> Nat] /\ value' \in [AllSemas -> Nat]
  BY DEF SInv, SynchTypeOK, IInv, TypeOK
<1>4. ASSUME NEW s \in AllSemas, s # x PROVE waiters'[s] # <<>> => value'[s] <= Cardinality(Woken(s)')
  <2>1. waiters'[s] = waiters[s]
    BY <1>t, <1>4 DEF up
  <2>2. \A t \in looping : status[t] # "BLOCKED" => status'[t] # "BLOCKED"
    BY <1>t, <1>3
  <2>3. value'[s] <= value[s]
    BY <1>t, <1>3, <1>4
  <2> QED BY <1>1, <1>2, <2>1, <2>2, <2>3, SemaphoreFrame
<1>5. waiters'[x] # <<>> => value'[x] <= Cardinality(Woken(x)')
  <2>1. CASE waiters[x] = <<>>
    BY <2>1 DEF up
  <2>2. CASE waiters[x] # <<>>
    <3> DEFINE w == Head(waiters[x])
               W == Woken(x)
    <3>1. status' = [status EXCEPT ![w] = "READY"]
      BY <2>2 DEF up, unblock
    <3>2. w \in Threads /\ w \in looping /\ status[w] = "BLOCKED" /\ sem[w] = x
      <4>1. w \in Range(waiters[x]) /\ w \in Threads
        BY <1>t, <2>2, TailOfInjective DEF SInv, WaitListsExact
      <4> QED BY <4>1 DEF SInv, WaitListsExact
    <3>3. w \notin W
      BY <3>2 DEF Woken
    <3> HIDE DEF w
    <3>4. Woken(x)' = W \cup {w}
      BY <1>1, <1>t, <3>1, <3>2 DEF Woken
    <3>5. IsFiniteSet(W) /\ Cardinality(W) \in Nat /\ value[x] <= Cardinality(W)
      BY <2>2, WokenFinite DEF WakeInv, NoLostWakeup
    <3> HIDE DEF W
    <3>6. Cardinality(W \cup {w}) = Cardinality(W) + 1
      BY <3>3, <3>5, FS_AddElement
    <3>7. value'[x] <= Cardinality(W \cup {w})
      BY <1>t, <1>3, <3>5, <3>6
    <3> QED BY <3>4, <3>7
  <2> QED BY <2>1, <2>2
<1> QED BY <1>2, <1>4, <1>5 DEF WakeInv, NoLostWakeup

\* A round of sema_down: whoever joins the list finds the value 0, and whoever
\* takes a unit, woken for it or not, does not leave more units than threads.
LEMMA DownWake ==
  ASSUME SInv, SInv', WakeInv, NEW x \in AllSemas, x = sem[current],
         pc[current] \in {"sema_down", "acquire_down", "wait_down"},
         NEW l, NEW s2, NEW c2, down(x, l, s2, c2), UNCHANGED restOfSched
  PROVE  WakeInv'
<1>t. /\ looping \subseteq Threads /\ waiters \in [AllSemas -> Seq(Threads)] /\ current \in Threads
      /\ status \in [Threads -> Status] /\ value \in [AllSemas -> Nat] /\ value' \in [AllSemas -> Nat]
      /\ status[current] = "RUNNING" /\ IdlePage \notin looping /\ current # IdlePage
  BY Running DEF SInv, SynchTypeOK, IInv, TypeOK, IdleLabels
<1>1. CASE /\ value[x] = 0 /\ UNCHANGED <<value, callVars>> /\ block
           /\ waiters' = [waiters EXCEPT ![x] = Append(@, current)]
           /\ looping' = looping \cup {current}
  <2>1. IsFiniteSet(looping')
    BY <1>1, FS_AddElement DEF WakeInv
  <2>2. \A t \in Threads \ {current, IdlePage} : status'[t] = "BLOCKED" <=> status[t] = "BLOCKED"
    <3>1. schedule([status EXCEPT ![current] = "BLOCKED"], ready_list) /\ idle_thread' = idle_thread
      BY <1>1 DEF block, restOfSched
    <3> QED BY <1>t, <3>1, SwitchStatus
  <2>3. ASSUME NEW s \in AllSemas, s # x PROVE waiters'[s] # <<>> => value'[s] <= Cardinality(Woken(s)')
    <3>1. waiters'[s] = waiters[s] /\ value'[s] <= value[s]
      BY <1>1, <1>t, <2>3
    <3>2. \A t \in looping : status[t] # "BLOCKED" /\ sem[t] = s
                               => t \in looping' /\ status'[t] # "BLOCKED" /\ sem'[t] = s
      BY <1>1, <1>t, <2>2, <2>3 DEF callVars
    <3> QED BY <2>1, <3>1, <3>2, SemaphoreFrame
  <2>4. value'[x] <= Cardinality(Woken(x)')
    <3> DEFINE V == Woken(x)'
    <3>1. V \in SUBSET looping'
      BY DEF Woken
    <3> HIDE DEF V
    <3>2. Cardinality(V) \in Nat
      BY <2>1, <3>1, FS_Subset, FS_CardinalityType
    <3>3. value'[x] <= Cardinality(V)
      BY <1>1, <3>2
    <3> QED BY <3>3 DEF V
  <2> QED BY <2>1, <2>3, <2>4 DEF WakeInv, NoLostWakeup
<1>2. CASE /\ value[x] > 0 /\ value' = [value EXCEPT ![x] = @ - 1] /\ UNCHANGED <<waiters, status>>
           /\ looping' = looping \ {current} /\ goto(l, s2, c2)
  <2>1. IsFiniteSet(looping')
    BY <1>2, FS_RemoveElement DEF WakeInv
  <2>2. \A t \in Threads \ {current} : sem'[t] = sem[t]
    BY <1>2, GotoOthers
  <2>3. ASSUME NEW s \in AllSemas, s # x PROVE waiters'[s] # <<>> => value'[s] <= Cardinality(Woken(s)')
    <3>1. waiters'[s] = waiters[s] /\ value'[s] <= value[s]
      BY <1>2, <1>t, <2>3
    <3>2. \A t \in looping : status[t] # "BLOCKED" /\ sem[t] = s
                               => t \in looping' /\ status'[t] # "BLOCKED" /\ sem'[t] = s
      BY <1>2, <1>t, <2>2, <2>3
    <3> QED BY <2>1, <3>1, <3>2, SemaphoreFrame
  <2>4. waiters'[x] # <<>> => value'[x] <= Cardinality(Woken(x)')
    <3> DEFINE W == Woken(x)
    <3>1. Woken(x)' = W \ {current}
      BY <1>2, <1>t, <2>2 DEF Woken
    <3>2. IsFiniteSet(W) /\ Cardinality(W) \in Nat /\ (waiters[x] # <<>> => value[x] <= Cardinality(W))
      BY WokenFinite DEF WakeInv, NoLostWakeup
    <3> HIDE DEF W
    <3>3. Cardinality(W \ {current}) \in Nat /\ Cardinality(W \ {current}) >= Cardinality(W) - 1
      <4>1. /\ IsFiniteSet(W \ {current})
            /\ Cardinality(W \ {current}) = IF current \in W THEN Cardinality(W) - 1 ELSE Cardinality(W)
        BY <3>2, FS_RemoveElement
      <4>2. Cardinality(W \ {current}) \in Nat
        BY <4>1, FS_CardinalityType
      <4> QED BY <3>2, <4>1, <4>2
    <3>4. value'[x] = value[x] - 1 /\ waiters'[x] = waiters[x]
      BY <1>2, <1>t
    <3>5. waiters'[x] # <<>> => value'[x] <= Cardinality(W \ {current})
      BY <1>t, <3>2, <3>3, <3>4
    <3> QED BY <3>1, <3>5
  <2> QED BY <2>1, <2>3, <2>4 DEF WakeInv, NoLostWakeup
<1> QED BY <1>1, <1>2 DEF down

LEMMA WakeStep == SInv /\ WakeInv /\ [Next]_vars => WakeInv'
<1> SUFFICES ASSUME SInv, WakeInv, [Next]_vars PROVE WakeInv'
  OBVIOUS
<1>s. SInv'
  BY NextSInv
<1>t. /\ looping \subseteq Threads /\ waiters \in [AllSemas -> Seq(Threads)] /\ current \in Threads
      /\ status \in [Threads -> Status] /\ value \in [AllSemas -> Nat] /\ value' \in [AllSemas -> Nat]
      /\ sem \in [Threads -> AllSemas \cup {NULL}]
      /\ status[current] = "RUNNING"
      /\ \A t \in looping : t # IdlePage /\ status[t] # "FREE" /\ t \notin Range(newborn)
  BY <1>s, Running DEF SInv, SynchTypeOK, IInv, TypeOK
<1>k. \A k \in AllSemas : value[k] <= value[k]
  BY <1>t
<1>1. ASSUME NEW s \in Semas, sema_up(s) PROVE WakeInv'
  BY <1>1, <1>s, UpWake, Names DEF sema_up, InterruptsOn
<1>2. ASSUME NEW s \in Semas, sema_try_down(s) PROVE WakeInv'
  <2>1. \A k \in AllSemas : value'[k] <= value[k] /\ waiters'[k] = waiters[k]
    BY <1>2, <1>t DEF sema_try_down
  <2> QED BY <1>2, <1>s, <2>1, QuietWake DEF sema_try_down, InterruptsOn, schedVars
<1>3. ASSUME NEW l \in Locks, lock_try_acquire(l) PROVE WakeInv'
  <2>1. \A k \in AllSemas : value'[k] <= value[k] /\ waiters'[k] = waiters[k]
    BY <1>3, <1>t DEF lock_try_acquire
  <2>2. current \notin looping
    BY <1>3, NotInDown DEF lock_try_acquire, at
  <2> QED BY <1>3, <1>s, <2>1, <2>2, QuietWake DEF lock_try_acquire, schedVars
<1>4. ASSUME NEW c \in Conds, cond_wait(c) PROVE WakeInv'
  <2>1. \A k \in AllSemas : value'[k] <= value[k] /\ (waiters'[k] # <<>> => waiters[k] # <<>>)
    <3>1. current \in AllSemas /\ value' = [value EXCEPT ![current] = 0]
          /\ waiters' = [waiters EXCEPT ![current] = <<>>]
      BY <1>4, <1>t, Names DEF cond_wait
    <3> QED BY <1>t, <3>1
  <2>2. current \notin looping
    BY <1>4, NotInDown DEF cond_wait, at
  <2> QED BY <1>4, <1>s, <2>1, <2>2, QuietWake DEF cond_wait, schedVars
<1>5. ASSUME UNCHANGED <<value, waiters, looping>>, current \notin looping,
             UNCHANGED callVars \/ \E l, s, c : goto(l, s, c),
             \A t \in looping : status'[t] = "BLOCKED" => status[t] = "BLOCKED"
      PROVE  WakeInv'
  BY <1>5, <1>s, <1>k, QuietWake
<1>6. CASE SemaDown \/ AcquireDown \/ WaitDown
  <2>1. pc[current] \in {"sema_down", "acquire_down", "wait_down"} /\ sem[current] \in AllSemas
        /\ (pc[current] = "wait_down" => sem[current] = current)
    BY <1>6, <1>t, Names DEF SemaDown, AcquireDown, WaitDown, at, SInv, PcInv, Arguments
  <2>2. UNCHANGED restOfSched /\ \E l, s2, c2 : down(sem[current], l, s2, c2)
    BY <1>6, <2>1 DEF SemaDown, AcquireDown, WaitDown, at
  <2> QED BY <1>s, <2>1, <2>2, DownWake
<1>7. CASE ReleaseUp \/ SignalUp \/ BroadcastUp \/ IdleUp
  <2>1. /\ pc[current] \notin {"sema_down", "acquire_down", "wait_down"} /\ looping' = looping
        /\ \E l, s, c : goto(l, s, c)
    BY <1>7 DEF ReleaseUp, SignalUp, BroadcastUp, IdleUp, at
  <2>2. \E x \in AllSemas : up(x)
    BY <1>7, <1>t, Names DEF ReleaseUp, SignalUp, BroadcastUp, IdleUp, at, SInv, PcInv, Arguments
  <2> QED BY <1>s, <2>1, <2>2, NotInDown, UpWake
<1>8. ASSUME NEW t \in Threads, ThreadCreate(t) PROVE WakeInv'
  <2>1. pc[current] = "run" /\ status[t] = "FREE" /\ status' = [status EXCEPT ![t] = "BLOCKED"]
    BY <1>8 DEF ThreadCreate, at, thread_create, init_thread
  <2>2. \A u \in looping : status'[u] = "BLOCKED" => status[u] = "BLOCKED"
    BY <1>t, <2>1
  <2> QED BY <1>5, <1>8, <2>1, <2>2, NotInDown DEF ThreadCreate, syncVars
<1>9. CASE CreateEnd
  <2>1. pc[current] = "create_end" /\ status' = [status EXCEPT ![newborn[current]] = "READY"]
    BY <1>9 DEF CreateEnd, at, thread_create_end, unblock
  <2>2. \A u \in looping : status'[u] = "BLOCKED" => status[u] = "BLOCKED"
    BY <1>t, <2>1
  <2> QED BY <1>5, <1>9, <2>1, <2>2, NotInDown DEF CreateEnd, syncVars
<1>10. ASSUME NEW s \in {"READY", "BLOCKED", "DYING"}, NEW rl,
              rl = IF s = "READY" /\ current # idle_thread
                   THEN Append(ready_list, current) ELSE ready_list,
              current = IdlePage => s # "DYING" /\ (s = "BLOCKED" => idle_thread # NULL),
              schedule([status EXCEPT ![current] = s], rl), current \notin looping,
              UNCHANGED <<idle_thread, syncVars, callVars, looping>>
       PROVE  WakeInv'
  <2>1. \A t \in Threads \ {current, IdlePage} : status'[t] = "BLOCKED" <=> status[t] = "BLOCKED"
    BY <1>10, SwitchStatus
  <2>2. \A u \in looping : status'[u] = "BLOCKED" => status[u] = "BLOCKED"
    BY <1>10, <1>t, <2>1
  <2> QED BY <1>5, <1>10, <2>2 DEF syncVars
<1>11. CASE Tick \/ ThreadYield
  <2>1. current \notin looping /\ UNCHANGED <<idle_thread, syncVars, callVars, looping>>
    BY <1>11, NotInDown DEF Tick, InterruptsOn, ThreadYield, at, thread_tick, thread_yield
  <2>2. yield \/ status' = status
    BY <1>11 DEF Tick, thread_tick, tick, ThreadYield, thread_yield
  <2>3. CASE yield
    <3> DEFINE rl == IF "READY" = "READY" /\ current # idle_thread
                     THEN Append(ready_list, current) ELSE ready_list
    <3>1. schedule([status EXCEPT ![current] = "READY"], rl)
      BY <2>3 DEF yield
    <3> QED BY <1>10, <2>1, <3>1
  <2>4. CASE status' = status
    BY <1>5, <2>1, <2>4 DEF syncVars
  <2> QED BY <2>2, <2>3, <2>4
<1>12. CASE ThreadExit
  <2>1. /\ pc[current] = "run" /\ current # IdlePage
        /\ schedule([status EXCEPT ![current] = "DYING"], ready_list)
        /\ UNCHANGED <<idle_thread, syncVars, callVars, looping>>
    BY <1>12 DEF ThreadExit, thread_exit, die, at, InThreadCode
  <2> QED BY <1>10, <2>1, NotInDown
<1>13. CASE IdleLoop
  <2>1. /\ pc[current] = "idle_loop" /\ idle_thread # NULL
        /\ schedule([status EXCEPT ![current] = "BLOCKED"], ready_list)
        /\ UNCHANGED <<idle_thread, syncVars, callVars, looping>>
    BY <1>13, <1>t, SchedulerAssumption DEF IdleLoop, idle_loop, block, at
  <2> QED BY <1>10, <2>1, NotInDown
<1>14. CASE UNCHANGED vars
  <2>1. UNCHANGED <<value, waiters, looping, status, sem>>
    BY <1>14 DEF vars, schedVars, syncVars, callVars
  <2> QED BY <2>1 DEF WakeInv, NoLostWakeup, Woken
<1>15. ASSUME pc[current] \notin {"sema_down", "acquire_down", "wait_down"}, status' = status,
              UNCHANGED <<value, waiters, looping>>, UNCHANGED callVars \/ \E l, s, c : goto(l, s, c)
       PROVE  WakeInv'
  BY <1>5, <1>15, NotInDown
<1>16. ASSUME NEW s, sema_down(s) PROVE WakeInv'
  BY <1>15, <1>16 DEF sema_down, at, schedVars, syncVars
<1>17. ASSUME NEW l, lock_acquire(l) \/ lock_release(l) PROVE WakeInv'
  BY <1>15, <1>17 DEF lock_acquire, lock_release, disown, at, schedVars, syncVars
<1>18. ASSUME NEW c, cond_signal(c) \/ cond_broadcast(c) PROVE WakeInv'
  BY <1>15, <1>18 DEF cond_signal, cond_broadcast, pop, at, schedVars, syncVars
<1>19. CASE Own \/ WaitRelease \/ TidRelease \/ Broadcast
  BY <1>15, <1>19 DEF Own, WaitRelease, TidRelease, disown, Broadcast, pop, at, schedVars, syncVars
<1>20. CASE TidRead \/ TidWrite \/ IdleStart
  BY <1>15, <1>20 DEF TidRead, TidWrite, IdleStart, idle_start, at, schedVars, syncVars
<1> QED
  BY <1>1, <1>2, <1>3, <1>4, <1>6, <1>7, <1>8, <1>9, <1>11, <1>12, <1>13, <1>14, <1>16, <1>17,
     <1>18, <1>19, <1>20
  DEF Next, Call, KernelStep, Interrupt

LEMMA WakeInit == SynchInit => WakeInv
<1> SUFFICES ASSUME SynchInit PROVE WakeInv
  OBVIOUS
<1>1. looping = {} /\ \A s \in AllSemas : waiters[s] = <<>>
  BY DEF SynchInit
<1> QED BY <1>1, FS_EmptySet DEF WakeInv, NoLostWakeup

\* sema_up and sema_down, for any number of threads, handlers and semaphores:
\* however bargers and woken threads race for the value, no unit of it is left
\* beside sleepers without a thread that has been woken and will look at it.
THEOREM NoWakeupIsLost == Spec => []NoLostWakeup
<1>1. WakeInv => NoLostWakeup
  BY DEF WakeInv
<1> QED BY <1>1, SynchInvariant, WakeInit, WakeStep, PTL DEF Spec

-----------------------------------------------------------------------------
(* The order of the wait lists *)

LEMMA ListOrder ==
  ASSUME SInv, [Next]_vars, NEW s \in AllSemas, waiters'[s] # waiters[s]
  PROVE  \/ waiters'[s] = Append(waiters[s], current)
         \/ waiters[s] # <<>> /\ waiters'[s] = Tail(waiters[s])
<1>0. waiters \in [AllSemas -> Seq(Threads)]
  BY DEF SInv, SynchTypeOK
<1>1. ASSUME NEW x, NEW l, NEW s2, NEW c2, down(x, l, s2, c2)
      PROVE  waiters'[s] = Append(waiters[s], current)
  BY <1>0, <1>1 DEF down
<1>2. ASSUME NEW x, up(x) PROVE waiters[s] # <<>> /\ waiters'[s] = Tail(waiters[s])
  BY <1>0, <1>2 DEF up
<1>3. ASSUME NEW c, cond_wait(c) PROVE FALSE
  BY <1>0, <1>3, OwnSemaphoreIdle DEF cond_wait
<1>4. CASE waiters' = waiters
  BY <1>4
<1>5. CASE SemaDown \/ AcquireDown \/ WaitDown
  BY <1>1, <1>5 DEF SemaDown, AcquireDown, WaitDown
<1>6. CASE ReleaseUp \/ SignalUp \/ BroadcastUp \/ IdleUp \/ \E x \in Semas : sema_up(x)
  BY <1>2, <1>6 DEF ReleaseUp, SignalUp, BroadcastUp, IdleUp, sema_up
<1> QED
  BY <1>3, <1>4, <1>5, <1>6
  DEF Next, Call, KernelStep, Interrupt, vars, syncVars, sema_down, sema_try_down, lock_acquire,
      lock_try_acquire, lock_release, disown, cond_signal, cond_broadcast, pop, ThreadCreate,
      ThreadExit, ThreadYield, Own, WaitRelease, Broadcast, TidRead, TidWrite, TidRelease,
      CreateEnd, IdleStart, IdleLoop, Tick

\* sema_down queues at the back and sema_up wakes from the front: no sleeper
\* overtakes another on the same semaphore.
THEOREM WakeupIsFIFO == Spec => FIFOWakeup
<1>1. SInv /\ [Next]_vars =>
        [\A s \in AllSemas :
           waiters'[s] # waiters[s] =>
             \/ waiters'[s] = Append(waiters[s], current)
             \/ waiters[s] # <<>> /\ waiters'[s] = Tail(waiters[s])]_vars
  BY ListOrder
<1> QED BY <1>1, SynchInvariant, PTL DEF Spec, FIFOWakeup

=============================================================================
