----------------------------- MODULE CondProofs -----------------------------
(***************************************************************************)
(* Condition variables, for any number of threads, locks and conditions: a *)
(* thread in cond_wait is queued, being signalled or woken, exactly one of *)
(* the three; and Synch implements Monitor.                                *)
(***************************************************************************)
EXTENDS SynchProofs

Signallers == {"signal_up", "broadcast_up"}
Waiting    == {"wait_release", "release_up", "wait_down"}

\* With CondWaitersExact: nobody is signalled twice, and the lock cond_wait
\* releases is the condition's own.
CondInv ==
  /\ CondWaitersExact
  /\ \A u, v \in Threads :
       pc[u] \in Signallers /\ pc[v] \in Signallers /\ sem[u] = sem[v] => u = v
  /\ \A t \in Threads :
       pc[t] = "release_up" /\ cond[t] # NULL => cond[t] \in Conds /\ sem[t] = CondLock[cond[t]]

LEMMA CondInit == SynchInit => CondInv
<1> SUFFICES ASSUME SynchInit PROVE CondInv
  OBVIOUS
<1>1. \A c \in Conds : cond_waiters[c] = <<>> /\ IsInjective(cond_waiters[c]) /\ Range(cond_waiters[c]) = {}
  BY DEF SynchInit, IsInjective, Range
<1>2. \A t \in Threads : pc[t] \in {"sema_down", "idle_start", "run"}
  BY DEF SynchInit
<1>3. \A t \in Threads : value[t] = 0
  BY Names DEF SynchInit
<1>4. \A t \in Threads : ~ BeingSignalled(t) /\ \A c \in Conds : ~ InWait(t, c)
  BY <1>2 DEF BeingSignalled, InWait
<1>5. CondWaitersExact
  BY <1>1, <1>3, <1>4 DEF CondWaitersExact
<1> QED BY <1>2, <1>5 DEF CondInv, Signallers

\* Where the threads are after a goto: only the running thread moves.
LEMMA Moves ==
  ASSUME SInv, NEW l, NEW s, NEW c, goto(l, s, c)
  PROVE  /\ current \in Threads /\ pc'[current] = l /\ sem'[current] = s /\ cond'[current] = c
         /\ \A t \in Threads \ {current} : pc'[t] = pc[t] /\ sem'[t] = sem[t] /\ cond'[t] = cond[t]
BY Running DEF SInv, SynchTypeOK, goto

\* Steps that queue nobody, signal nobody and do not touch a waiter's semaphore.
LEMMA CondFrame ==
  ASSUME SInv, CondInv, cond_waiters' = cond_waiters, \A t \in Threads : value'[t] = value[t],
         NEW l, NEW s, NEW c, goto(l, s, c),
         pc[current] \notin Signallers, l \notin Signallers,
         \A d \in Conds : l \in Waiting /\ c = d <=> InWait(current, d),
         value[current] > 0 \/ BeingSignalled(current) => l = "wait_down",
         l = "release_up" /\ c # NULL => c \in Conds /\ s = CondLock[c]
  PROVE  CondInv'
<1>1. /\ current \in Threads /\ pc'[current] = l /\ sem'[current] = s /\ cond'[current] = c
      /\ \A t \in Threads \ {current} : pc'[t] = pc[t] /\ sem'[t] = sem[t] /\ cond'[t] = cond[t]
  BY Moves
<1>2. \A t \in Threads : BeingSignalled(t)' <=> BeingSignalled(t)
  BY <1>1 DEF BeingSignalled, Signallers
<1>3. \A t \in Threads, d \in Conds : InWait(t, d)' <=> InWait(t, d)
  BY <1>1 DEF InWait, Waiting
<1>4. CondWaitersExact'
  <2>1. ASSUME NEW t \in Threads, BeingSignalled(t)' \/ value'[t] > 0
        PROVE  pc'[t] = "wait_down" /\ value'[t] = IF BeingSignalled(t)' THEN 0 ELSE 1
    <3>1. BeingSignalled(t) \/ value[t] > 0
      BY <1>2, <2>1
    <3>2. pc[t] = "wait_down" /\ value[t] = IF BeingSignalled(t) THEN 0 ELSE 1
      BY <3>1 DEF CondInv, CondWaitersExact
    <3>3. pc'[t] = "wait_down"
      BY <1>1, <3>1, <3>2
    <3> QED BY <1>2, <3>2, <3>3
  <2> QED BY <1>2, <1>3, <2>1 DEF CondInv, CondWaitersExact
<1>5. \A u, v \in Threads :
        pc'[u] \in Signallers /\ pc'[v] \in Signallers /\ sem'[u] = sem'[v] => u = v
  BY <1>1 DEF CondInv
<1>6. \A t \in Threads : pc'[t] = "release_up" /\ cond'[t] # NULL
                           => cond'[t] \in Conds /\ sem'[t] = CondLock[cond'[t]]
  BY <1>1 DEF CondInv
<1> QED BY <1>4, <1>5, <1>6 DEF CondInv

\* Outside cond_wait nobody is signalled and nobody's semaphore is raised.
LEMMA Outside ==
  ASSUME SInv, CondInv, pc[current] \notin Waiting
  PROVE  /\ \A d \in Conds : ~ InWait(current, d)
         /\ ~ (value[current] > 0) /\ ~ BeingSignalled(current)
BY Running DEF CondInv, CondWaitersExact, InWait, Waiting

\* The steps of a thread outside cond_wait and cond_signal.
LEMMA CondQuiet ==
  ASSUME SInv, CondInv, cond_waiters' = cond_waiters, \A t \in Threads : value'[t] = value[t],
         NEW l, NEW s, NEW c, goto(l, s, c),
         pc[current] \notin Signallers \cup Waiting, l \notin Signallers \cup {"wait_release", "wait_down"},
         l = "release_up" => c = NULL
  PROVE  CondInv'
<1>1. \A d \in Conds : l \in Waiting /\ c = d <=> InWait(current, d)
  BY Outside, Names DEF Waiting
<1> QED BY <1>1, Outside, CondFrame

\* The calls are left alone.
LEMMA CondStutter ==
  ASSUME CondInv, UNCHANGED <<cond_waiters, callVars>>, \A t \in Threads : value'[t] = value[t]
  PROVE  CondInv'
BY DEF CondInv, CondWaitersExact, InWait, BeingSignalled, callVars

\* cond_signal and cond_broadcast: whoever is popped has given up the lock and is
\* about to sleep or asleep.
LEMMA PopStep ==
  ASSUME SInv, CondInv, NEW c \in Conds, NEW l \in Signallers, pop(c, l),
         holder[CondLock[c]] = current, pc[current] \notin Signallers \cup Waiting,
         NEW w, w = Head(cond_waiters[c])
  PROVE  CondInv'
<1>0. /\ cond_waiters[c] # <<>> /\ cond_waiters' = [cond_waiters EXCEPT ![c] = Tail(@)]
      /\ goto(l, w, c) /\ value' = value /\ current \in Threads
      /\ cond_waiters \in [Conds -> Seq(Threads)] /\ IsInjective(cond_waiters[c])
  BY Running DEF pop, SInv, SynchTypeOK, CondInv, CondWaitersExact
<1>1. /\ w \in Threads /\ w \in Range(cond_waiters[c]) /\ IsInjective(Tail(cond_waiters[c]))
      /\ Range(Tail(cond_waiters[c])) = Range(cond_waiters[c]) \ {w}
  BY <1>0, TailOfInjective
<1>2. InWait(w, c) /\ value[w] = 0 /\ ~ BeingSignalled(w)
  BY <1>1 DEF CondInv, CondWaitersExact
<1>3. w # current
  BY <1>2 DEF InWait, Waiting
<1>4. pc[w] = "wait_down"
  <2>1. CondLock[c] \in AllLocks
    BY Names
  <2>2. ASSUME pc[w] = "wait_release" PROVE FALSE
    BY <1>1, <1>2, <1>3, <2>2 DEF SInv, KernelAsserts, PcInv, Arguments, InWait
  <2>3. ASSUME pc[w] = "release_up" PROVE FALSE
    <3>1. sem[w] = CondLock[c]
      BY <1>1, <1>2, <2>3, Names DEF InWait, CondInv
    <3>2. Owns(w, CondLock[c]) /\ Owns(current, CondLock[c])
      BY <2>3, <3>1 DEF Owns
    <3> QED BY <1>0, <1>1, <1>3, <2>1, <3>2, OneOwner
  <2> QED BY <1>2, <2>2, <2>3 DEF InWait
<1>5. /\ pc'[current] = l /\ sem'[current] = w /\ cond'[current] = c
      /\ \A t \in Threads \ {current} : pc'[t] = pc[t] /\ sem'[t] = sem[t] /\ cond'[t] = cond[t]
  BY <1>0, Moves
<1>6. /\ BeingSignalled(w)'
      /\ \A t \in Threads \ {w} : BeingSignalled(t)' <=> BeingSignalled(t)
  BY <1>0, <1>5 DEF BeingSignalled, Signallers
<1>7. \A t \in Threads, d \in Conds : InWait(t, d)' <=> InWait(t, d)
  BY <1>0, <1>5 DEF InWait, Waiting, Signallers
<1>8. /\ cond_waiters'[c] = Tail(cond_waiters[c])
      /\ \A d \in Conds \ {c} : cond_waiters'[d] = cond_waiters[d] /\ w \notin Range(cond_waiters[d])
  BY <1>0, <1>1, <1>2 DEF CondInv, CondWaitersExact, InWait
<1>9. \A d \in Conds : IsInjective(cond_waiters'[d])
                       /\ \A t \in Threads : t \in Range(cond_waiters'[d])
                                              <=> t \in Range(cond_waiters[d]) /\ t # w
  BY <1>1, <1>8 DEF CondInv, CondWaitersExact
<1>10. ASSUME NEW t \in Threads, NEW d \in Conds
       PROVE  t \in Range(cond_waiters'[d]) <=> InWait(t, d)' /\ value'[t] = 0 /\ ~ BeingSignalled(t)'
  <2>1. t \in Range(cond_waiters[d]) <=> InWait(t, d) /\ value[t] = 0 /\ ~ BeingSignalled(t)
    BY DEF CondInv, CondWaitersExact
  <2> QED BY <1>0, <1>6, <1>7, <1>9, <2>1
<1>11. \A t \in Threads : BeingSignalled(t)' \/ value'[t] > 0
         => pc'[t] = "wait_down" /\ value'[t] = IF BeingSignalled(t)' THEN 0 ELSE 1
  <2>1. ASSUME NEW t \in Threads, t # w, BeingSignalled(t) \/ value[t] > 0
        PROVE  t # current /\ pc[t] = "wait_down" /\ value[t] = IF BeingSignalled(t) THEN 0 ELSE 1
    BY <2>1 DEF CondInv, CondWaitersExact, Waiting
  <2> QED BY <1>0, <1>2, <1>3, <1>4, <1>5, <1>6, <2>1
<1>12. CondWaitersExact'
  BY <1>9, <1>10, <1>11 DEF CondWaitersExact
<1>13. \A u, v \in Threads :
         pc'[u] \in Signallers /\ pc'[v] \in Signallers /\ sem'[u] = sem'[v] => u = v
  <2>1. \A u \in Threads \ {current} : pc[u] \in Signallers => sem[u] # w
    BY <1>2 DEF BeingSignalled, Signallers
  <2> QED BY <1>5, <2>1 DEF CondInv
<1>14. \A t \in Threads : pc'[t] = "release_up" /\ cond'[t] # NULL
                            => cond'[t] \in Conds /\ sem'[t] = CondLock[cond'[t]]
  BY <1>5 DEF CondInv, Signallers
<1> QED BY <1>12, <1>13, <1>14 DEF CondInv

\* sema_up on the semaphore of the thread that was popped.
LEMMA SignalStep ==
  ASSUME SInv, CondInv, pc[current] \in Signallers, up(sem[current]),
         NEW l \in {"run", "broadcast"}, NEW s, NEW c, goto(l, s, c), cond_waiters' = cond_waiters,
         NEW w, w = sem[current]
  PROVE  CondInv'
<1>0. current \in Threads /\ w \in Threads /\ w \in AllSemas /\ value \in [AllSemas -> Nat]
  BY Running, Names DEF SInv, PcInv, Arguments, SynchTypeOK, Signallers
<1>1. BeingSignalled(w)
  BY <1>0 DEF BeingSignalled, Signallers
<1>2. pc[w] = "wait_down" /\ value[w] = 0
  BY <1>0, <1>1 DEF CondInv, CondWaitersExact
<1>3. w # current
  BY <1>2 DEF Signallers
<1>4. value'[w] = 1 /\ \A t \in Threads \ {w} : value'[t] = value[t]
  BY <1>0, <1>2, UpStatus, Names
<1>5. /\ pc'[current] = l /\ sem'[current] = s /\ cond'[current] = c
      /\ \A t \in Threads \ {current} : pc'[t] = pc[t] /\ sem'[t] = sem[t] /\ cond'[t] = cond[t]
  BY Moves
<1>6. \A u \in Threads \ {current} : pc[u] \in Signallers => sem[u] # w
  BY <1>0 DEF CondInv
<1>7. ~ BeingSignalled(w)'
  BY <1>5, <1>6 DEF BeingSignalled, Signallers
<1>8. \A t \in Threads \ {w} : BeingSignalled(t)' <=> BeingSignalled(t)
  BY <1>0, <1>5 DEF BeingSignalled, Signallers
<1>9. \A t \in Threads, d \in Conds : InWait(t, d)' <=> InWait(t, d)
  BY <1>0, <1>5 DEF InWait, Signallers
<1>10. \A t \in Threads, d \in Conds :
         t \in Range(cond_waiters[d]) <=> InWait(t, d)' /\ value'[t] = 0 /\ ~ BeingSignalled(t)'
  BY <1>0, <1>1, <1>4, <1>8, <1>9 DEF CondInv, CondWaitersExact
<1>11. \A t \in Threads : BeingSignalled(t)' \/ value'[t] > 0
         => pc'[t] = "wait_down" /\ value'[t] = IF BeingSignalled(t)' THEN 0 ELSE 1
  <2>1. ASSUME NEW t \in Threads, t # w, BeingSignalled(t) \/ value[t] > 0
        PROVE  t # current /\ pc[t] = "wait_down" /\ value[t] = IF BeingSignalled(t) THEN 0 ELSE 1
    BY <2>1 DEF CondInv, CondWaitersExact, Signallers
  <2> QED BY <1>2, <1>3, <1>4, <1>5, <1>7, <1>8, <2>1
<1>12. CondWaitersExact'
  BY <1>10, <1>11 DEF CondInv, CondWaitersExact
<1>13. \A u, v \in Threads :
         pc'[u] \in Signallers /\ pc'[v] \in Signallers /\ sem'[u] = sem'[v] => u = v
  BY <1>5 DEF CondInv, Signallers
<1>14. \A t \in Threads : pc'[t] = "release_up" /\ cond'[t] # NULL
                            => cond'[t] \in Conds /\ sem'[t] = CondLock[cond'[t]]
  BY <1>5 DEF CondInv
<1> QED BY <1>12, <1>13, <1>14 DEF CondInv

\* cond_wait: the thread joins the list, its semaphore at 0.
LEMMA WaitStep ==
  ASSUME SInv, CondInv, NEW c \in Conds, cond_wait(c)
  PROVE  CondInv'
<1>0. /\ current \in Threads /\ pc[current] = "run" /\ goto("wait_release", CondLock[c], c)
      /\ value' = [value EXCEPT ![current] = 0]
      /\ cond_waiters' = [cond_waiters EXCEPT ![c] = Append(@, current)]
      /\ cond_waiters \in [Conds -> Seq(Threads)] /\ value \in [AllSemas -> Nat] /\ Threads \subseteq AllSemas
  BY Running, Names DEF cond_wait, at, SInv, SynchTypeOK
<1>1. /\ \A d \in Conds : ~ InWait(current, d) /\ current \notin Range(cond_waiters[d])
      /\ ~ (value[current] > 0) /\ ~ BeingSignalled(current)
  BY <1>0, Outside DEF Waiting, CondInv, CondWaitersExact
<1>2. /\ IsInjective(Append(cond_waiters[c], current))
      /\ Range(Append(cond_waiters[c], current)) = Range(cond_waiters[c]) \cup {current}
  BY <1>0, <1>1, AppendFresh DEF CondInv, CondWaitersExact
<1>3. \A t \in Threads : value'[t] = value[t]
  BY <1>0, <1>1
<1>4. /\ pc'[current] = "wait_release" /\ sem'[current] = CondLock[c] /\ cond'[current] = c
      /\ \A t \in Threads \ {current} : pc'[t] = pc[t] /\ sem'[t] = sem[t] /\ cond'[t] = cond[t]
  BY <1>0, Moves
<1>5. \A t \in Threads : BeingSignalled(t)' <=> BeingSignalled(t)
  BY <1>0, <1>4 DEF BeingSignalled
<1>6. \A t \in Threads, d \in Conds : InWait(t, d)' <=> InWait(t, d) \/ (t = current /\ d = c)
  BY <1>1, <1>4 DEF InWait
<1>7. /\ cond_waiters'[c] = Append(cond_waiters[c], current)
      /\ \A d \in Conds \ {c} : cond_waiters'[d] = cond_waiters[d]
  BY <1>0
<1>8. ASSUME NEW d \in Conds
      PROVE  /\ IsInjective(cond_waiters'[d])
             /\ \A t \in Threads : t \in Range(cond_waiters'[d])
                                    <=> t \in Range(cond_waiters[d]) \/ (t = current /\ d = c)
  <2>1. CASE d = c
    BY <1>2, <1>7, <2>1
  <2>2. CASE d # c
    BY <1>7, <2>2 DEF CondInv, CondWaitersExact
  <2> QED BY <2>1, <2>2
<1>v. value[current] = 0
  BY <1>0, <1>1
<1>9. ASSUME NEW t \in Threads, NEW d \in Conds
      PROVE  t \in Range(cond_waiters'[d]) <=> InWait(t, d)' /\ value'[t] = 0 /\ ~ BeingSignalled(t)'
  <2>1. t \in Range(cond_waiters[d]) <=> InWait(t, d) /\ value[t] = 0 /\ ~ BeingSignalled(t)
    BY DEF CondInv, CondWaitersExact
  <2> QED BY <1>1, <1>3, <1>5, <1>6, <1>8, <1>v, <2>1
<1>10. \A t \in Threads : BeingSignalled(t)' \/ value'[t] > 0
         => pc'[t] = "wait_down" /\ value'[t] = IF BeingSignalled(t)' THEN 0 ELSE 1
  BY <1>1, <1>3, <1>4, <1>5 DEF CondInv, CondWaitersExact
<1>11. CondWaitersExact'
  BY <1>8, <1>9, <1>10 DEF CondWaitersExact
<1>12. \A u, v \in Threads :
         pc'[u] \in Signallers /\ pc'[v] \in Signallers /\ sem'[u] = sem'[v] => u = v
  BY <1>4 DEF CondInv, Signallers
<1>13. \A t \in Threads : pc'[t] = "release_up" /\ cond'[t] # NULL
                            => cond'[t] \in Conds /\ sem'[t] = CondLock[cond'[t]]
  BY <1>4 DEF CondInv
<1> QED BY <1>11, <1>12, <1>13 DEF CondInv

\* The waiter takes the unit it was given.
LEMMA WokenStep ==
  ASSUME SInv, CondInv, WaitDown
  PROVE  CondInv'
<1>0. /\ current \in Threads /\ pc[current] = "wait_down" /\ cond_waiters' = cond_waiters
      /\ value \in [AllSemas -> Nat] /\ Threads \subseteq AllSemas
  BY Running, Names DEF WaitDown, at, SInv, SynchTypeOK
<1>1. CASE UNCHANGED <<value, callVars>>
  BY <1>0, <1>1, CondStutter
<1>2. CASE /\ value[current] > 0 /\ value' = [value EXCEPT ![current] = @ - 1]
           /\ goto("acquire_down", CondLock[cond[current]], NULL)
  <2>1. value[current] = 1 /\ ~ BeingSignalled(current)
    BY <1>0, <1>2 DEF CondInv, CondWaitersExact
  <2>2. value'[current] = 0 /\ \A t \in Threads \ {current} : value'[t] = value[t]
    BY <1>0, <1>2, <2>1
  <2>3. /\ pc'[current] = "acquire_down" /\ cond'[current] = NULL
        /\ \A t \in Threads \ {current} : pc'[t] = pc[t] /\ sem'[t] = sem[t] /\ cond'[t] = cond[t]
    BY <1>2, Moves
  <2>4. \A t \in Threads : BeingSignalled(t)' <=> BeingSignalled(t)
    BY <1>0, <2>3 DEF BeingSignalled
  <2>5. \A t \in Threads, d \in Conds : InWait(t, d)' <=> InWait(t, d) /\ t # current
    BY <1>0, <2>3 DEF InWait
  <2>a. \A d \in Conds : current \notin Range(cond_waiters[d])
    BY <1>0, <2>1 DEF CondInv, CondWaitersExact
  <2>6. ASSUME NEW t \in Threads, NEW d \in Conds
        PROVE  t \in Range(cond_waiters[d]) <=> InWait(t, d)' /\ value'[t] = 0 /\ ~ BeingSignalled(t)'
    <3>1. t \in Range(cond_waiters[d]) <=> InWait(t, d) /\ value[t] = 0 /\ ~ BeingSignalled(t)
      BY DEF CondInv, CondWaitersExact
    <3> QED BY <2>2, <2>4, <2>5, <2>a, <3>1
  <2>7. \A t \in Threads : BeingSignalled(t)' \/ value'[t] > 0
          => pc'[t] = "wait_down" /\ value'[t] = IF BeingSignalled(t)' THEN 0 ELSE 1
    BY <2>1, <2>2, <2>3, <2>4 DEF CondInv, CondWaitersExact
  <2>8. CondWaitersExact'
    BY <1>0, <2>6, <2>7 DEF CondInv, CondWaitersExact
  <2>9. \A u, v \in Threads :
          pc'[u] \in Signallers /\ pc'[v] \in Signallers /\ sem'[u] = sem'[v] => u = v
    BY <2>3 DEF CondInv, Signallers
  <2>10. \A t \in Threads : pc'[t] = "release_up" /\ cond'[t] # NULL
                              => cond'[t] \in Conds /\ sem'[t] = CondLock[cond'[t]]
    BY <2>3 DEF CondInv
  <2> QED BY <2>8, <2>9, <2>10 DEF CondInv
<1> QED BY <1>1, <1>2 DEF WaitDown, down

LEMMA CondStep == SInv /\ CondInv /\ [Next]_vars => CondInv'
<1> SUFFICES ASSUME SInv, CondInv, [Next]_vars PROVE CondInv'
  OBVIOUS
<1>0. /\ current \in Threads /\ value \in [AllSemas -> Nat] /\ Arguments(current)
      /\ sem \in [Threads -> AllSemas \cup {NULL}] /\ cond \in [Threads -> Conds \cup {NULL}]
  BY Running DEF SInv, SynchTypeOK, PcInv
<1>1. ASSUME NEW s \in Semas, sema_up(s) \/ sema_try_down(s) PROVE CondInv'
  <2>1. s \in AllSemas /\ s \notin Threads
    BY Names
  <2>2. \A t \in Threads : value'[t] = value[t]
    BY <1>0, <1>1, <2>1, Names, UpStatus DEF sema_up, sema_try_down
  <2> QED BY <1>1, <2>2, CondStutter DEF sema_up, sema_try_down
<1>2. ASSUME NEW s, sema_down(s) PROVE CondInv'
  <2>1. goto("sema_down", s, NULL) /\ pc[current] = "run" /\ UNCHANGED <<value, cond_waiters>>
    BY <1>2 DEF sema_down, at, syncVars
  <2> QED BY <2>1, CondQuiet DEF Signallers, Waiting
<1>3. ASSUME NEW l \in Locks, lock_acquire(l) \/ lock_try_acquire(l) \/ lock_release(l) PROVE CondInv'
  <2>1. \A t \in Threads : value'[t] = value[t]
    BY <1>0, <1>3, Names DEF lock_acquire, lock_try_acquire, lock_release, disown, syncVars
  <2>2. /\ pc[current] = "run" /\ cond_waiters' = cond_waiters
        /\ \E k \in {"acquire_down", "own", "release_up"} : goto(k, l, NULL)
    BY <1>3 DEF lock_acquire, lock_try_acquire, lock_release, disown, at, syncVars
  <2> QED BY <2>1, <2>2, CondQuiet DEF Signallers, Waiting
<1>4. ASSUME NEW c \in Conds, cond_signal(c) \/ cond_broadcast(c) PROVE CondInv'
  <2>1. PICK l \in Signallers : pop(c, l)
    BY <1>4 DEF cond_signal, cond_broadcast, Signallers
  <2>2. pc[current] = "run" /\ holder[CondLock[c]] = current
    BY <1>4 DEF cond_signal, cond_broadcast, at
  <2> QED BY <2>1, <2>2, PopStep DEF Signallers, Waiting
<1>5. ASSUME NEW t \in Threads, ThreadCreate(t) PROVE CondInv'
  <2>1. goto("acquire_down", tid_lock, NULL) /\ pc[current] = "run" /\ UNCHANGED <<value, cond_waiters>>
    BY <1>5 DEF ThreadCreate, at, syncVars
  <2> QED BY <2>1, CondQuiet DEF Signallers, Waiting
<1>6. CASE Tick \/ ThreadYield \/ ThreadExit \/ IdleLoop \/ UNCHANGED vars
  <2>1. UNCHANGED <<value, cond_waiters, callVars>>
    BY <1>6 DEF Tick, ThreadYield, ThreadExit, IdleLoop, vars, syncVars
  <2> QED BY <2>1, CondStutter
<1>7. CASE SemaDown \/ AcquireDown
  <2> DEFINE x == sem[current]
  <2>1. x \in AllSemas /\ x \notin Threads
    BY <1>0, <1>7, Names DEF SemaDown, AcquireDown, at, Arguments
  <2>2. /\ pc[current] \notin Signallers \cup Waiting /\ cond_waiters' = cond_waiters
        /\ \E l, s : l \in {"run", "own"} /\ down(x, l, s, NULL)
    BY <1>7 DEF SemaDown, AcquireDown, at, Signallers, Waiting
  <2>3. PICK l, s : l \in {"run", "own"} /\ down(x, l, s, NULL)
    BY <2>2
  <2>4. \A t \in Threads : value'[t] = value[t]
    BY <1>0, <2>1, <2>3, Names DEF down
  <2>5. UNCHANGED callVars \/ goto(l, s, NULL)
    BY <2>3 DEF down
  <2>6. l \notin Signallers \cup {"wait_release", "wait_down"} /\ l # "release_up"
    BY <2>3 DEF Signallers
  <2> QED BY <2>2, <2>4, <2>5, <2>6, CondStutter, CondQuiet
<1>8. CASE Own \/ TidRead \/ TidWrite \/ CreateEnd \/ IdleStart \/ TidRelease
  <2>1. /\ UNCHANGED <<value, cond_waiters>> /\ pc[current] \notin Signallers \cup Waiting
        /\ \E l, s : /\ goto(l, s, NULL)
                     /\ l \in {"tid_read", "run", "tid_write", "tid_release", "idle_up", "release_up"}
    BY <1>8 DEF Own, TidRead, TidWrite, CreateEnd, IdleStart, TidRelease, disown, at, syncVars,
                Signallers, Waiting
  <2> QED BY <2>1, CondQuiet DEF Signallers
<1>9. CASE IdleUp
  <2>1. \A t \in Threads : value'[t] = value[t]
    BY <1>9, Names, UpStatus DEF IdleUp
  <2>2. goto("idle_loop", NULL, NULL) /\ pc[current] = "idle_up" /\ cond_waiters' = cond_waiters
    BY <1>9 DEF IdleUp, at
  <2> QED BY <2>1, <2>2, CondQuiet DEF Signallers, Waiting
<1>10. CASE WaitRelease
  <2>1. /\ pc[current] = "wait_release" /\ UNCHANGED <<value, cond_waiters>>
        /\ goto("release_up", sem[current], cond[current])
        /\ cond[current] \in Conds /\ sem[current] = CondLock[cond[current]]
    BY <1>0, <1>10 DEF WaitRelease, disown, at, Arguments
  <2>2. ~ (value[current] > 0) /\ ~ BeingSignalled(current)
    BY <1>0, <2>1 DEF CondInv, CondWaitersExact
  <2> QED BY <2>1, <2>2, CondFrame DEF InWait, Signallers, Waiting
<1>11. CASE ReleaseUp
  <2>1. /\ pc[current] = "release_up" /\ cond_waiters' = cond_waiters /\ sem[current] \in AllLocks
        /\ up(sem[current])
    BY <1>0, <1>11 DEF ReleaseUp, at, Arguments
  <2>2. ~ (value[current] > 0) /\ ~ BeingSignalled(current)
    BY <1>0, <2>1 DEF CondInv, CondWaitersExact
  <2>3. \A t \in Threads : value'[t] = value[t]
    BY <2>1, Names, UpStatus
  <2>4. CASE cond[current] # NULL
    <3>1. goto("wait_down", current, cond[current])
      BY <1>11, <2>4 DEF ReleaseUp
    <3> QED BY <2>1, <2>2, <2>3, <3>1, CondFrame DEF InWait, Signallers, Waiting
  <2>5. CASE cond[current] = NULL
    <3>1. PICK l \in {"create_end", "run"} : goto(l, NULL, NULL)
      BY <1>11, <2>5 DEF ReleaseUp
    <3>2. \A d \in Conds : ~ InWait(current, d) /\ d # NULL
      BY <2>5, Names DEF InWait
    <3> QED BY <2>1, <2>2, <2>3, <3>1, <3>2, CondFrame DEF Signallers
  <2> QED BY <2>4, <2>5
<1>12. CASE SignalUp \/ BroadcastUp
  <2>1. /\ pc[current] \in Signallers /\ up(sem[current]) /\ cond_waiters' = cond_waiters
        /\ \E l, s, c : l \in {"run", "broadcast"} /\ goto(l, s, c)
    BY <1>12 DEF SignalUp, BroadcastUp, at, Signallers
  <2> QED BY <2>1, SignalStep
<1>13. CASE Broadcast
  <2>1. /\ pc[current] = "broadcast" /\ cond[current] \in Conds /\ holder[CondLock[cond[current]]] = current
    BY <1>0, <1>13 DEF Broadcast, at, Arguments, SInv, KernelAsserts
  <2>2. CASE pop(cond[current], "broadcast_up")
    BY <2>1, <2>2, PopStep DEF Signallers, Waiting
  <2>3. CASE goto("run", NULL, NULL) /\ UNCHANGED <<schedVars, syncVars, looping, tidVars>>
    BY <2>1, <2>3, CondQuiet DEF Signallers, Waiting, syncVars
  <2> QED BY <1>13, <2>2, <2>3 DEF Broadcast
<1> QED
  BY <1>1, <1>2, <1>3, <1>4, <1>5, <1>6, <1>7, <1>8, <1>9, <1>10, <1>11, <1>12, <1>13,
     WaitStep, WokenStep
  DEF Next, Call, KernelStep, Interrupt

\* cond_wait, cond_signal and cond_broadcast, for any number of threads,
\* preempted anywhere: no signal is lost or spent twice, and the semaphore on a
\* waiter's stack is not used once the waiter has left cond_wait.
THEOREM CondWaitersCorrect == Spec => []CondWaitersExact
<1>1. CondInv => CondWaitersExact
  BY DEF CondInv
<1> QED BY <1>1, SynchInvariant, CondInit, CondStep, PTL DEF Spec

-----------------------------------------------------------------------------
(* Synch implements Monitor *)

\* While one thread is on its way from the list of a condition to sleep, nobody
\* joins the list after it: everybody before the last one is asleep.
AsleepInv ==
  \A c \in Conds : \A i \in 1 .. Len(cond_waiters[c]) :
    i < Len(cond_waiters[c]) => pc[cond_waiters[c][i]] = "wait_down"

owners  == [l \in AllLocks |-> OwnerOf(l)]
asleep  == [c \in Conds |-> Asleep(c)]
monVars == <<owners, asleep>>

\* A lock has the owner it has, or none.
LEMMA OwnerIs ==
  ASSUME LockExclusion, NEW l \in AllLocks
  PROVE  /\ \A t \in Threads : Owns(t, l) => OwnerOf(l) = t
         /\ (\A t \in Threads : ~ Owns(t, l)) => OwnerOf(l) = NULL
BY DEF LockExclusion, OwnerOf

LEMMA OwnerIsNext ==
  ASSUME LockExclusion', NEW l \in AllLocks
  PROVE  /\ \A t \in Threads : Owns(t, l)' => OwnerOf(l)' = t
         /\ (\A t \in Threads : ~ Owns(t, l)') => OwnerOf(l)' = NULL
BY DEF LockExclusion, OwnerOf

LEMMA SameOwner ==
  ASSUME LockExclusion, LockExclusion', NEW l \in AllLocks, \A t \in Threads : Owns(t, l)' <=> Owns(t, l)
  PROVE  OwnerOf(l)' = OwnerOf(l)
BY OwnerIs, OwnerIsNext

\* Who sleeps on a condition: those at the sema_down in cond_wait.
LEMMA AsleepOf ==
  ASSUME SynchTypeOK, AsleepInv, NEW c \in Conds
  PROVE  /\ Asleep(c) \in Seq(Threads)
         /\ \A i \in 1 .. Len(Asleep(c)) : pc[Asleep(c)[i]] = "wait_down"
<1> DEFINE s == cond_waiters[c]
           n == Len(s)
<1>1. s \in Seq(Threads) /\ n \in Nat
  BY DEF SynchTypeOK
<1>2. \A i \in 1 .. n : i < n => pc[s[i]] = "wait_down"
  BY DEF AsleepInv
<1>3. Asleep(c) = IF s # <<>> /\ pc[s[n]] # "wait_down" THEN SubSeq(s, 1, n - 1) ELSE s
  BY DEF Asleep
<1> HIDE DEF s, n
<1>4. CASE s # <<>> /\ pc[s[n]] # "wait_down"
  <2>1. n > 0
    BY <1>1, <1>4 DEF n
  <2>2. \A i \in 1 .. n - 1 : s[i] \in Threads
    BY <1>1, <2>1, ElementOfSeq DEF n
  <2>3. /\ SubSeq(s, 1, n - 1) \in Seq(Threads)
        /\ Len(SubSeq(s, 1, n - 1)) = n - 1
        /\ \A i \in 1 .. n - 1 : SubSeq(s, 1, n - 1)[i] = s[i]
    BY <1>1, <2>1, <2>2
  <2> QED BY <1>1, <1>2, <1>3, <1>4, <2>1, <2>3
<1>5. CASE s = <<>>
  BY <1>1, <1>3, <1>5
<1>6. CASE s # <<>> /\ pc[s[n]] = "wait_down"
  <2>1. Asleep(c) = s
    BY <1>3, <1>6
  <2> QED BY <1>1, <1>2, <1>6, <2>1 DEF n
<1> QED BY <1>4, <1>5, <1>6

\* A thread that runs, outside that sema_down, waits on no condition.
LEMMA NotWaiting ==
  ASSUME SynchTypeOK, AsleepInv, NEW t \in Threads, pc[t] # "wait_down"
  PROVE  ~ Mon!Waiting(t)
<1> SUFFICES ASSUME NEW c \in Conds, t \in Mon!Range(asleep[c]) PROVE FALSE
  BY DEF Mon!Waiting, asleep
<1>1. Asleep(c) \in Seq(Threads) /\ \A i \in 1 .. Len(Asleep(c)) : pc[Asleep(c)[i]] = "wait_down"
  BY AsleepOf
<1>2. PICK i \in DOMAIN Asleep(c) : Asleep(c)[i] = t
  BY DEF Mon!Range, asleep
<1> QED BY <1>1, <1>2

\* While the running thread has the lock of a condition nobody is on his way to
\* sleep on it: everyone on the list sleeps.
LEMMA AllAsleep ==
  ASSUME SInv, CondInv, NEW c \in Conds, Owns(current, CondLock[c]), pc[current] \notin Waiting
  PROVE  /\ \A i \in 1 .. Len(cond_waiters[c]) : pc[cond_waiters[c][i]] = "wait_down"
         /\ Asleep(c) = cond_waiters[c]
<1>0. /\ current \in Threads /\ cond_waiters[c] \in Seq(Threads) /\ CondLock[c] \in AllLocks
      /\ \A t \in Threads : Arguments(t)
  BY Running, Names DEF SInv, SynchTypeOK, PcInv
<1>1. ASSUME NEW i \in 1 .. Len(cond_waiters[c]), NEW t, t = cond_waiters[c][i]
      PROVE  pc[t] = "wait_down"
  <2>1. t \in Threads /\ t \in Range(cond_waiters[c])
    BY <1>0, <1>1 DEF Range
  <2>2. cond[t] = c /\ pc[t] \in {"wait_release", "release_up", "wait_down"} /\ c # NULL
    BY <2>1, Names DEF CondInv, CondWaitersExact, InWait
  <2>3. ASSUME pc[t] = "wait_release" PROVE FALSE
    <3>1. sem[t] = CondLock[c] /\ holder[sem[t]] = t
      BY <1>0, <2>1, <2>2, <2>3 DEF Arguments, SInv, KernelAsserts
    <3>2. t = current
      BY <1>0, <2>1, <3>1, OneOwner DEF Owns
    <3> QED BY <2>3, <3>2 DEF Waiting
  <2>4. ASSUME pc[t] = "release_up" PROVE FALSE
    <3>1. sem[t] = CondLock[c]
      BY <2>1, <2>2, <2>4 DEF CondInv
    <3>2. t = current
      BY <1>0, <2>1, <2>4, <3>1, OneOwner DEF Owns
    <3> QED BY <2>4, <3>2 DEF Waiting
  <2> QED BY <2>2, <2>3, <2>4
<1>2. \A i \in 1 .. Len(cond_waiters[c]) : pc[cond_waiters[c][i]] = "wait_down"
  BY <1>1
<1>3. cond_waiters[c] # <<>> => Len(cond_waiters[c]) \in 1 .. Len(cond_waiters[c])
  BY <1>0
<1> QED BY <1>2, <1>3 DEF Asleep

\* Nobody joins or leaves a list, and whoever is on one stays asleep or awake.
LEMMA SameAsleep ==
  ASSUME SynchTypeOK, AsleepInv, cond_waiters' = cond_waiters,
         \A t \in Threads : pc'[t] = pc[t] \/ (\A c \in Conds : t \notin Range(cond_waiters[c]))
                                           \/ (pc[t] # "wait_down" /\ pc'[t] # "wait_down")
  PROVE  AsleepInv' /\ asleep' = asleep
<1>1. ASSUME NEW c \in Conds, NEW i \in 1 .. Len(cond_waiters[c])
      PROVE  pc'[cond_waiters[c][i]] = "wait_down" <=> pc[cond_waiters[c][i]] = "wait_down"
  <2>1. cond_waiters[c][i] \in Threads /\ cond_waiters[c][i] \in Range(cond_waiters[c])
    BY DEF SynchTypeOK, Range
  <2> QED BY <2>1
<1>2. AsleepInv'
  BY <1>1 DEF AsleepInv
<1>3. ASSUME NEW c \in Conds PROVE Asleep(c)' = Asleep(c)
  <2>1. cond_waiters[c] # <<>> => Len(cond_waiters[c]) \in 1 .. Len(cond_waiters[c])
    BY DEF SynchTypeOK
  <2> QED BY <1>1, <2>1 DEF Asleep
<1> QED BY <1>2, <1>3 DEF asleep

\* The steps of Synch that Monitor does not see.
LEMMA MonQuiet ==
  ASSUME SInv, LockExclusion', \A t \in Threads, l \in AllLocks : Owns(t, l)' <=> Owns(t, l),
         asleep' = asleep
  PROVE  [Mon!Next]_monVars
<1>1. LockExclusion
  BY DEF SInv
<1>2. owners' = owners
  BY <1>1, SameOwner DEF owners
<1> QED BY <1>2 DEF monVars

\* A semaphore of a lock goes down.
LEMMA MonAcquire ==
  ASSUME SInv, LockExclusion', AsleepInv, pc[current] # "wait_down", NEW l \in AllLocks,
         \A t \in Threads : ~ Owns(t, l),
         \A t \in Threads, k \in AllLocks : Owns(t, k)' <=> Owns(t, k) \/ (t = current /\ k = l),
         asleep' = asleep
  PROVE  [Mon!Next]_monVars
<1>1. current \in Threads /\ LockExclusion /\ SynchTypeOK
  BY Running DEF SInv
<1>2. owners[l] = NULL
  BY <1>1, OwnerIs DEF owners
<1>3. OwnerOf(l)' = current
  BY <1>1, OwnerIsNext
<1>4. \A k \in AllLocks \ {l} : OwnerOf(k)' = OwnerOf(k)
  BY <1>1, SameOwner
<1>5. owners' = [owners EXCEPT ![l] = current]
  BY <1>3, <1>4 DEF owners
<1>6. ~ Mon!Waiting(current)
  BY <1>1, NotWaiting
<1>7. Mon!Acquire(current, l)
  BY <1>2, <1>5, <1>6 DEF Mon!Acquire, owners, asleep
<1> QED BY <1>1, <1>7 DEF Mon!Next

\* The running thread gives lock l back.
LEMMA GivesBack ==
  ASSUME SInv, LockExclusion', NEW l \in AllLocks, Owns(current, l),
         \A t \in Threads, k \in AllLocks : Owns(t, k)' <=> Owns(t, k) /\ ~ (t = current /\ k = l)
  PROVE  owners[l] = current /\ owners' = [owners EXCEPT ![l] = NULL]
<1>1. current \in Threads /\ LockExclusion
  BY Running DEF SInv
<1>2. OwnerOf(l) = current
  BY <1>1, OwnerIs
<1>3. \A t \in Threads : ~ Owns(t, l)'
  BY <1>1, OneOwner
<1>4. OwnerOf(l)' = NULL
  BY <1>3, OwnerIsNext
<1>5. \A k \in AllLocks \ {l} : OwnerOf(k)' = OwnerOf(k)
  BY <1>1, SameOwner
<1> QED BY <1>2, <1>4, <1>5 DEF owners

\* A last thread reaches its sema_down: it is asleep from then on.
LEMMA FallsAsleep ==
  ASSUME SInv, CondInv, AsleepInv, NEW c \in Conds, c = cond[current],
         pc[current] = "release_up", cond_waiters' = cond_waiters,
         NEW s, goto("wait_down", s, c)
  PROVE  AsleepInv' /\ asleep' = [asleep EXCEPT ![c] = Append(@, current)]
<1>0. /\ current \in Threads /\ cond_waiters \in [Conds -> Seq(Threads)]
      /\ pc'[current] = "wait_down" /\ \A t \in Threads \ {current} : pc'[t] = pc[t]
  BY Moves DEF SInv, SynchTypeOK
<1> DEFINE q == cond_waiters[c]
           n == Len(q)
<1>1. q \in Seq(Threads) /\ n \in Nat
  BY <1>0
<1>2. current \in Range(q)
  <2>1. InWait(current, c) /\ ~ BeingSignalled(current) /\ ~ (value[current] > 0)
    BY <1>0 DEF InWait, CondInv, CondWaitersExact
  <2>2. value[current] \in Nat
    BY <1>0, Names DEF SInv, SynchTypeOK
  <2> QED BY <1>0, <2>1, <2>2 DEF CondInv, CondWaitersExact
<1>3. PICK i \in 1 .. n : q[i] = current
  BY <1>1, <1>2 DEF Range
<1>4. i = n
  <2>1. i < n => pc[q[i]] = "wait_down"
    BY DEF AsleepInv
  <2> QED BY <1>1, <1>3, <2>1
<1>5. n > 0 /\ q[n] = current /\ q # <<>>
  BY <1>1, <1>3, <1>4
<1>6. ASSUME NEW d \in Conds, NEW j \in 1 .. Len(cond_waiters[d])
      PROVE  pc[cond_waiters[d][j]] = "wait_down" => pc'[cond_waiters[d][j]] = "wait_down"
  <2>1. cond_waiters[d][j] \in Threads
    BY <1>0
  <2> QED BY <1>0, <2>1
<1>7. AsleepInv'
  BY <1>6 DEF AsleepInv
<1>8. \A d \in Conds \ {c} : Asleep(d)' = Asleep(d)
  <2> TAKE d \in Conds \ {c}
  <2>1. ASSUME NEW j \in 1 .. Len(cond_waiters[d]) PROVE pc'[cond_waiters[d][j]] = pc[cond_waiters[d][j]]
    <3>1. cond_waiters[d][j] \in Threads /\ cond_waiters[d][j] \in Range(cond_waiters[d])
      BY <1>0 DEF Range
    <3>2. cond_waiters[d][j] # current
      BY <3>1 DEF CondInv, CondWaitersExact, InWait
    <3> QED BY <1>0, <3>1, <3>2
  <2>2. cond_waiters[d] # <<>> => Len(cond_waiters[d]) \in 1 .. Len(cond_waiters[d])
    BY <1>0
  <2> QED BY <2>1, <2>2 DEF Asleep
<1>9. Asleep(c)' = q
  BY <1>0, <1>5 DEF Asleep
<1>10. Asleep(c) = SubSeq(q, 1, n - 1)
  BY <1>5 DEF Asleep
<1>11. Append(SubSeq(q, 1, n - 1), current) = q
  <2> HIDE DEF q, n
  <2>1. \A j \in 1 .. n - 1 : q[j] \in Threads
    BY <1>1, <1>5, ElementOfSeq DEF n
  <2>2. /\ SubSeq(q, 1, n - 1) \in Seq(Threads) /\ Len(SubSeq(q, 1, n - 1)) = n - 1
        /\ \A j \in 1 .. n - 1 : SubSeq(q, 1, n - 1)[j] = q[j]
    BY <1>1, <1>5, <2>1
  <2> DEFINE r == SubSeq(q, 1, n - 1)
  <2>3. r \in Seq(Threads) /\ Len(r) = n - 1 /\ \A j \in 1 .. n - 1 : r[j] = q[j]
    BY <2>2
  <2> HIDE DEF r
  <2>4. /\ Append(r, current) \in Seq(Threads) /\ Len(Append(r, current)) = n
        /\ \A j \in 1 .. n - 1 : Append(r, current)[j] = r[j]
        /\ Append(r, current)[n] = current
    BY <1>0, <1>1, <1>5, <2>3
  <2>5. \A j \in 1 .. n : Append(r, current)[j] = q[j]
    BY <1>1, <1>5, <2>3, <2>4
  <2>6. Append(r, current) = q
    BY <1>1, <2>4, <2>5, SeqEqual DEF n
  <2> QED BY <2>6 DEF r
<1>12. asleep' = [asleep EXCEPT ![c] = Append(@, current)]
  BY <1>8, <1>9, <1>10, <1>11 DEF asleep
<1> QED BY <1>7, <1>12

\* cond_wait puts the thread on the list and leaves it awake.
LEMMA JoinsAwake ==
  ASSUME SInv, CondInv, AsleepInv, NEW c \in Conds, cond_wait(c)
  PROVE  AsleepInv' /\ asleep' = asleep
<1>0. /\ current \in Threads /\ pc[current] = "run" /\ goto("wait_release", CondLock[c], c)
      /\ cond_waiters' = [cond_waiters EXCEPT ![c] = Append(@, current)]
      /\ cond_waiters \in [Conds -> Seq(Threads)] /\ holder[CondLock[c]] = current
  BY Running DEF cond_wait, at, SInv, SynchTypeOK
<1>1. pc'[current] = "wait_release" /\ \A t \in Threads \ {current} : pc'[t] = pc[t]
  BY <1>0, Moves
<1>2. \A d \in Conds : current \notin Range(cond_waiters[d])
  BY <1>0, Outside DEF Waiting, CondInv, CondWaitersExact
<1>3. ASSUME NEW d \in Conds, NEW j \in 1 .. Len(cond_waiters[d])
      PROVE  pc'[cond_waiters[d][j]] = pc[cond_waiters[d][j]]
  <2>1. cond_waiters[d][j] \in Threads /\ cond_waiters[d][j] \in Range(cond_waiters[d])
    BY <1>0 DEF Range
  <2> QED BY <1>1, <1>2, <2>1
<1> DEFINE q == cond_waiters[c]
           n == Len(q)
           r == Append(q, current)
<1>4. /\ \A i \in 1 .. n : pc[q[i]] = "wait_down"
      /\ Asleep(c) = q
  BY <1>0, AllAsleep DEF Owns, Waiting
<1>5. q \in Seq(Threads) /\ n \in Nat
  BY <1>0
<1>6. /\ r \in Seq(Threads) /\ Len(r) = n + 1 /\ r[n + 1] = current
      /\ \A i \in 1 .. n : r[i] = q[i]
  BY <1>0, <1>5
<1>7. cond_waiters'[c] = r /\ \A d \in Conds \ {c} : cond_waiters'[d] = cond_waiters[d]
  BY <1>0
<1>8. SubSeq(r, 1, n) = q
  <2> HIDE DEF q, n, r
  <2>1. \A i \in 1 .. n : r[i] \in Threads
    BY <1>5, <1>6, ElementOfSeq DEF n
  <2>2. /\ SubSeq(r, 1, n) \in Seq(Threads) /\ Len(SubSeq(r, 1, n)) = n
        /\ \A i \in 1 .. n : SubSeq(r, 1, n)[i] = r[i]
    BY <1>5, <1>6, <2>1
  <2> QED BY <1>5, <1>6, <2>2, SeqEqual DEF n
<1>9. Asleep(c)' = q
  <2> HIDE DEF q
  <2>1. Len(r) - 1 = n /\ r # <<>>
    BY <1>5, <1>6
  <2>2. Asleep(c)' = IF r # <<>> /\ pc'[r[Len(r)]] # "wait_down" THEN SubSeq(r, 1, Len(r) - 1) ELSE r
    BY <1>7 DEF Asleep
  <2>3. pc'[r[Len(r)]] = "wait_release"
    BY <1>1, <1>6
  <2> HIDE DEF r, n
  <2> QED BY <1>8, <2>1, <2>2, <2>3
<1>10. \A d \in Conds \ {c} : Asleep(d)' = Asleep(d)
  <2> TAKE d \in Conds \ {c}
  <2>1. cond_waiters[d] # <<>> => Len(cond_waiters[d]) \in 1 .. Len(cond_waiters[d])
    BY <1>0
  <2> QED BY <1>3, <1>7, <2>1 DEF Asleep
<1>11. asleep' = asleep
  BY <1>4, <1>9, <1>10 DEF asleep
<1>12. ASSUME NEW d \in Conds, NEW i \in 1 .. Len(cond_waiters'[d]), i < Len(cond_waiters'[d])
       PROVE  pc'[cond_waiters'[d][i]] = "wait_down"
  <2>1. CASE d = c
    <3> HIDE DEF q, n, r
    <3>1. i \in 1 .. n
      BY <1>5, <1>6, <1>7, <1>12, <2>1
    <3>2. cond_waiters'[d][i] = q[i] /\ pc'[q[i]] = pc[q[i]]
      BY <1>3, <1>6, <1>7, <2>1, <3>1 DEF q, n
    <3> QED BY <1>4, <3>1, <3>2
  <2>2. CASE d # c
    BY <1>3, <1>7, <1>12, <2>2 DEF AsleepInv
  <2> QED BY <2>1, <2>2
<1>13. AsleepInv'
  BY <1>12 DEF AsleepInv
<1> QED BY <1>11, <1>13

\* cond_signal and cond_broadcast take the one that has slept longest.
LEMMA MonSignal ==
  ASSUME SInv, LockExclusion', CondInv, AsleepInv, NEW c \in Conds, NEW l, pop(c, l), l \notin {"own", "release_up", "wait_down"},
         holder[CondLock[c]] = current, pc[current] \notin Waiting \cup {"own"}
  PROVE  AsleepInv' /\ [Mon!Next]_monVars
<1>0. /\ current \in Threads /\ goto(l, Head(cond_waiters[c]), c) /\ cond_waiters[c] # <<>>
      /\ cond_waiters' = [cond_waiters EXCEPT ![c] = Tail(@)]
      /\ cond_waiters \in [Conds -> Seq(Threads)] /\ SynchTypeOK /\ holder' = holder
      /\ CondLock[c] \in AllLocks
  BY Running, Names DEF pop, SInv, SynchTypeOK
<1>1. /\ pc'[current] = l /\ \A t \in Threads \ {current} : pc'[t] = pc[t] /\ sem'[t] = sem[t]
  BY <1>0, Moves
<1>2. \A t \in Threads, k \in AllLocks : Owns(t, k)' <=> Owns(t, k)
  BY <1>0, <1>1 DEF Owns, Waiting
<1>3. \A d \in Conds : current \notin Range(cond_waiters[d])
  BY <1>0, Outside DEF CondInv, CondWaitersExact
<1>4. ASSUME NEW d \in Conds, NEW j \in 1 .. Len(cond_waiters[d])
      PROVE  pc'[cond_waiters[d][j]] = pc[cond_waiters[d][j]]
  <2>1. cond_waiters[d][j] \in Threads /\ cond_waiters[d][j] \in Range(cond_waiters[d])
    BY <1>0 DEF Range
  <2> QED BY <1>1, <1>3, <2>1
<1>5. Owns(current, CondLock[c])
  BY DEF Owns
<1> DEFINE q == cond_waiters[c]
           n == Len(q)
           r == Tail(q)
<1>6. /\ \A i \in 1 .. n : pc[q[i]] = "wait_down"
      /\ Asleep(c) = q
  BY <1>5, AllAsleep
<1>7. q \in Seq(Threads) /\ n \in Nat /\ n > 0 /\ q # <<>>
  BY <1>0
<1>8. /\ r \in Seq(Threads) /\ Len(r) = n - 1
      /\ \A i \in 1 .. n - 1 : r[i] = q[i + 1]
  <2> HIDE DEF q
  <2>1. r \in Seq(Threads) /\ Len(r) = n - 1 /\ \A i \in 1 .. Len(r) : r[i] = q[i + 1]
    BY <1>7, HeadTailProperties
  <2> QED BY <2>1
<1>9. cond_waiters'[c] = r /\ \A d \in Conds \ {c} : cond_waiters'[d] = cond_waiters[d]
  BY <1>0
<1>10. \A i \in 1 .. n - 1 : pc'[r[i]] = "wait_down"
  <2> TAKE i \in 1 .. n - 1
  <2>1. i + 1 \in 1 .. n
    BY <1>7
  <2>2. pc'[q[i + 1]] = "wait_down"
    BY <1>4, <1>6, <2>1
  <2> QED BY <1>8, <2>2
<1>11. Asleep(c)' = r
  <2> HIDE DEF q
  <2>1. Asleep(c)' = IF r # <<>> /\ pc'[r[Len(r)]] # "wait_down" THEN SubSeq(r, 1, Len(r) - 1) ELSE r
    BY <1>9 DEF Asleep
  <2> HIDE DEF r, n
  <2>2. r # <<>> => Len(r) \in 1 .. n - 1
    BY <1>7, <1>8
  <2> QED BY <1>10, <2>1, <2>2
<1>12. \A d \in Conds \ {c} : Asleep(d)' = Asleep(d)
  <2> TAKE d \in Conds \ {c}
  <2>1. cond_waiters[d] # <<>> => Len(cond_waiters[d]) \in 1 .. Len(cond_waiters[d])
    BY <1>0
  <2> QED BY <1>4, <1>9, <2>1 DEF Asleep
<1>13. asleep' = [asleep EXCEPT ![c] = Tail(@)] /\ asleep[c] # <<>>
  BY <1>6, <1>7, <1>11, <1>12 DEF asleep
<1>14. owners' = owners /\ owners[CondLock[c]] = current
  <2>1. LockExclusion
    BY DEF SInv
  <2> QED BY <1>0, <1>2, <1>5, <2>1, SameOwner, OwnerIs DEF owners
<1>15. ~ Mon!Waiting(current)
  BY <1>0, NotWaiting DEF Waiting
<1>16. Mon!Signal(current, c)
  BY <1>13, <1>14, <1>15 DEF Mon!Signal, owners, asleep
<1>17. [Mon!Next]_monVars
  BY <1>0, <1>16 DEF Mon!Next
<1>18. ASSUME NEW d \in Conds, NEW i \in 1 .. Len(cond_waiters'[d]), i < Len(cond_waiters'[d])
       PROVE  pc'[cond_waiters'[d][i]] = "wait_down"
  <2>1. CASE d = c
    BY <1>8, <1>9, <1>10, <2>1
  <2>2. CASE d # c
    BY <1>4, <1>9, <1>18, <2>2 DEF AsleepInv
  <2> QED BY <2>1, <2>2
<1>19. AsleepInv'
  BY <1>18 DEF AsleepInv
<1> QED BY <1>17, <1>19

\* Steps of the running thread that are about no lock and no list.
LEMMA MonOther ==
  ASSUME SInv, LockExclusion', AsleepInv, UNCHANGED <<holder, cond_waiters>>,
         \/ UNCHANGED callVars
         \/ /\ pc[current] \notin {"own", "release_up", "wait_down"}
            /\ \E l, s, c : goto(l, s, c) /\ l \notin {"own", "release_up", "wait_down"}
  PROVE  AsleepInv' /\ [Mon!Next]_monVars
<1>0. SynchTypeOK /\ current \in Threads
  BY Running DEF SInv
<1>1. CASE UNCHANGED callVars
  <2>1. AsleepInv' /\ asleep' = asleep
    BY <1>0, <1>1, SameAsleep DEF callVars
  <2>2. \A t \in Threads, l \in AllLocks : Owns(t, l)' <=> Owns(t, l)
    BY <1>1 DEF callVars, Owns
  <2> QED BY <2>1, <2>2, MonQuiet
<1>2. ASSUME pc[current] \notin {"own", "release_up", "wait_down"},
             NEW l, NEW s, NEW c, goto(l, s, c), l \notin {"own", "release_up", "wait_down"}
      PROVE  AsleepInv' /\ [Mon!Next]_monVars
  <2>1. pc'[current] = l /\ \A t \in Threads \ {current} : pc'[t] = pc[t] /\ sem'[t] = sem[t]
    BY <1>2, Moves
  <2>2. AsleepInv' /\ asleep' = asleep
    BY <1>0, <1>2, <2>1, SameAsleep
  <2>3. \A t \in Threads, k \in AllLocks : Owns(t, k)' <=> Owns(t, k)
    BY <1>2, <2>1 DEF Owns
  <2> QED BY <2>2, <2>3, MonQuiet
<1> QED BY <1>1, <1>2

\* A lock taken, by lock_acquire and lock_try_acquire.
LEMMA MonTake ==
  ASSUME SInv, LockExclusion', AsleepInv, UNCHANGED <<holder, cond_waiters>>, NEW l \in AllLocks, value[l] > 0,
         pc[current] \notin {"own", "release_up", "wait_down"}, goto("own", l, NULL)
  PROVE  AsleepInv' /\ [Mon!Next]_monVars
<1>0. SynchTypeOK /\ current \in Threads
  BY Running DEF SInv
<1>1. /\ pc'[current] = "own" /\ sem'[current] = l
      /\ \A t \in Threads \ {current} : pc'[t] = pc[t] /\ sem'[t] = sem[t]
  BY Moves
<1>2. AsleepInv' /\ asleep' = asleep
  BY <1>0, <1>1, SameAsleep
<1>3. \A t \in Threads : ~ Owns(t, l)
  BY <1>0, OneOwner
<1>4. \A t \in Threads, k \in AllLocks : Owns(t, k)' <=> Owns(t, k) \/ (t = current /\ k = l)
  BY <1>1 DEF Owns
<1> QED BY <1>2, <1>3, <1>4, MonAcquire

\* Between the two halves of lock_release the lock still counts as the thread's.
LEMMA MonDisown ==
  ASSUME SInv, LockExclusion', AsleepInv, NEW l \in AllLocks, disown(l),
         pc[current] \notin {"own", "release_up", "wait_down"}, NEW c, goto("release_up", l, c)
  PROVE  AsleepInv' /\ [Mon!Next]_monVars
<1>0. /\ SynchTypeOK /\ current \in Threads /\ cond_waiters' = cond_waiters /\ NULL \notin Threads
      /\ holder[l] = current /\ holder' = [holder EXCEPT ![l] = NULL]
  BY Running, Names DEF SInv, disown
<1>1. /\ pc'[current] = "release_up" /\ sem'[current] = l
      /\ \A t \in Threads \ {current} : pc'[t] = pc[t] /\ sem'[t] = sem[t]
  BY Moves
<1>2. AsleepInv' /\ asleep' = asleep
  BY <1>0, <1>1, SameAsleep
<1>3. \A t \in Threads, k \in AllLocks : Owns(t, k)' <=> Owns(t, k)
  <2> TAKE t \in Threads, k \in AllLocks
  <2>1. holder'[k] = IF k = l THEN NULL ELSE holder[k]
    BY <1>0 DEF SynchTypeOK
  <2>2. CASE t = current
    BY <1>0, <1>1, <2>1, <2>2 DEF Owns
  <2>3. CASE t # current
    BY <1>0, <1>1, <2>1, <2>3 DEF Owns
  <2> QED BY <2>2, <2>3
<1> QED BY <1>2, <1>3, MonQuiet

\* sema_up gives the lock back: the end of lock_release, or the point at which
\* cond_wait has released the lock and sleeps.
LEMMA MonRelease ==
  ASSUME SInv, LockExclusion', CondInv, AsleepInv, ReleaseUp
  PROVE  AsleepInv' /\ [Mon!Next]_monVars
<1> DEFINE l == sem[current]
<1>0. /\ SynchTypeOK /\ current \in Threads /\ cond_waiters' = cond_waiters /\ holder' = holder
      /\ NULL \notin Threads /\ pc[current] = "release_up" /\ l \in AllLocks /\ holder[l] = NULL
      /\ cond[current] \in Conds \cup {NULL}
  BY Running, Names DEF SInv, SynchTypeOK, PcInv, Arguments, ReleaseUp, at
<1>1. PICK k, s, c : goto(k, s, c) /\ k \notin {"own", "release_up"}
  BY DEF ReleaseUp
<1>2. /\ pc'[current] = k
      /\ \A t \in Threads \ {current} : pc'[t] = pc[t] /\ sem'[t] = sem[t]
  BY <1>1, Moves
<1>3. \A t \in Threads, m \in AllLocks : Owns(t, m)' <=> Owns(t, m) /\ ~ (t = current /\ m = l)
  BY <1>0, <1>1, <1>2 DEF Owns
<1>4. Owns(current, l)
  BY <1>0 DEF Owns
<1>5. owners[l] = current /\ owners' = [owners EXCEPT ![l] = NULL]
  BY <1>0, <1>3, <1>4, GivesBack
<1>6. ~ Mon!Waiting(current)
  BY <1>0, NotWaiting
<1>7. CASE cond[current] = NULL
  <2>1. PICK m \in {"create_end", "run"} : goto(m, NULL, NULL)
    BY <1>7 DEF ReleaseUp
  <2>2. pc'[current] # "wait_down"
    BY <2>1, Moves
  <2>3. AsleepInv' /\ asleep' = asleep
    BY <1>0, <1>2, <2>2, SameAsleep
  <2>4. Mon!Release(current, l)
    BY <1>5, <1>6, <2>3 DEF Mon!Release, owners, asleep
  <2> QED BY <1>0, <2>3, <2>4 DEF Mon!Next
<1>8. CASE cond[current] # NULL
  <2>1. cond[current] \in Conds /\ goto("wait_down", current, cond[current]) /\ l = CondLock[cond[current]]
    BY <1>0, <1>8 DEF ReleaseUp, CondInv
  <2>2. AsleepInv' /\ asleep' = [asleep EXCEPT ![cond[current]] = Append(@, current)]
    BY <1>0, <2>1, FallsAsleep
  <2>3. Mon!Wait(current, cond[current])
    BY <1>5, <1>6, <2>1, <2>2 DEF Mon!Wait, owners, asleep
  <2> QED BY <1>0, <2>1, <2>2, <2>3 DEF Mon!Next
<1> QED BY <1>7, <1>8

\* cond_wait, its first half.
LEMMA MonJoin ==
  ASSUME SInv, LockExclusion', CondInv, AsleepInv, NEW c \in Conds, cond_wait(c)
  PROVE  AsleepInv' /\ [Mon!Next]_monVars
<1>0. /\ current \in Threads /\ pc[current] = "run" /\ goto("wait_release", CondLock[c], c) /\ holder' = holder
  BY Running DEF cond_wait, at
<1>1. pc'[current] = "wait_release" /\ \A t \in Threads \ {current} : pc'[t] = pc[t] /\ sem'[t] = sem[t]
  BY <1>0, Moves
<1>2. \A t \in Threads, k \in AllLocks : Owns(t, k)' <=> Owns(t, k)
  BY <1>0, <1>1 DEF Owns
<1> QED BY <1>2, JoinsAwake, MonQuiet

\* The end of the sleep: whoever takes the unit of its own semaphore has left
\* the list before.
LEMMA MonWoken ==
  ASSUME SInv, LockExclusion', CondInv, AsleepInv, WaitDown
  PROVE  AsleepInv' /\ [Mon!Next]_monVars
<1>0. /\ SynchTypeOK /\ current \in Threads /\ pc[current] = "wait_down"
      /\ UNCHANGED <<holder, cond_waiters>>
  BY Running DEF WaitDown, at, SInv
<1>1. CASE UNCHANGED callVars
  BY <1>0, <1>1, MonOther
<1>2. CASE value[current] > 0 /\ goto("acquire_down", CondLock[cond[current]], NULL)
  <2>1. \A c \in Conds : current \notin Range(cond_waiters[c])
    BY <1>0, <1>2 DEF CondInv, CondWaitersExact
  <2>2. /\ pc'[current] = "acquire_down"
        /\ \A t \in Threads \ {current} : pc'[t] = pc[t] /\ sem'[t] = sem[t]
    BY <1>2, Moves
  <2>3. AsleepInv' /\ asleep' = asleep
    BY <1>0, <2>1, <2>2, SameAsleep
  <2>4. \A t \in Threads, k \in AllLocks : Owns(t, k)' <=> Owns(t, k)
    BY <1>0, <2>2 DEF Owns
  <2> QED BY <2>3, <2>4, MonQuiet
<1> QED BY <1>1, <1>2 DEF WaitDown, down

LEMMA MonStep == SInv /\ SInv' /\ CondInv /\ AsleepInv /\ [Next]_vars => AsleepInv' /\ [Mon!Next]_monVars
<1> SUFFICES ASSUME SInv, LockExclusion', CondInv, AsleepInv, [Next]_vars
             PROVE  AsleepInv' /\ [Mon!Next]_monVars
  BY DEF SInv
<1>0. current \in Threads /\ Arguments(current) /\ SynchTypeOK
  BY Running DEF SInv, PcInv
<1>1. CASE \/ \E s \in Semas : sema_up(s) \/ sema_try_down(s)
           \/ Tick \/ ThreadYield \/ ThreadExit \/ IdleLoop \/ UNCHANGED vars
  <2>1. UNCHANGED <<holder, cond_waiters, callVars>>
    BY <1>1 DEF sema_up, sema_try_down, Tick, ThreadYield, ThreadExit, IdleLoop, vars, syncVars
  <2> QED BY <2>1, MonOther
<1>2. CASE \/ \E s \in Semas : sema_down(s)
           \/ \E l \in Locks : lock_acquire(l)
           \/ \E t \in Threads : ThreadCreate(t)
           \/ TidRead \/ TidWrite \/ CreateEnd \/ IdleStart \/ IdleUp \/ SignalUp \/ BroadcastUp
  <2>1. /\ UNCHANGED <<holder, cond_waiters>> /\ pc[current] \notin {"own", "release_up", "wait_down"}
        /\ \E l, s, c : goto(l, s, c) /\ l \notin {"own", "release_up", "wait_down"}
    BY <1>2 DEF sema_down, lock_acquire, ThreadCreate, TidRead, TidWrite, CreateEnd, IdleStart, IdleUp,
                SignalUp, BroadcastUp, at, syncVars
  <2> QED BY <2>1, MonOther
<1>3. CASE SemaDown
  <2>1. UNCHANGED <<holder, cond_waiters>> /\ pc[current] = "sema_down"
        /\ (UNCHANGED callVars \/ goto("run", NULL, NULL))
    BY <1>3 DEF SemaDown, down, at
  <2> QED BY <2>1, MonOther
<1>4. CASE AcquireDown
  <2>1. UNCHANGED <<holder, cond_waiters>> /\ pc[current] = "acquire_down" /\ sem[current] \in AllLocks
    BY <1>0, <1>4 DEF AcquireDown, at, Arguments
  <2>2. CASE UNCHANGED callVars
    BY <2>1, <2>2, MonOther
  <2>3. CASE value[sem[current]] > 0 /\ goto("own", sem[current], NULL)
    BY <2>1, <2>3, MonTake
  <2> QED BY <1>4, <2>2, <2>3 DEF AcquireDown, down
<1>5. ASSUME NEW l \in Locks, lock_try_acquire(l) PROVE AsleepInv' /\ [Mon!Next]_monVars
  <2>1. l \in AllLocks /\ value[l] > 0 /\ pc[current] = "run" /\ goto("own", l, NULL)
        /\ UNCHANGED <<holder, cond_waiters>>
    BY <1>5, Names DEF lock_try_acquire, at
  <2> QED BY <2>1, MonTake
<1>6. CASE Own
  <2>1. /\ pc[current] = "own" /\ sem[current] \in AllLocks /\ cond_waiters' = cond_waiters
        /\ holder' = [holder EXCEPT ![sem[current]] = current]
        /\ \E l \in {"tid_read", "run"} : goto(l, NULL, NULL)
    BY <1>0, <1>6 DEF Own, at, Arguments
  <2>2. /\ pc'[current] \in {"tid_read", "run"}
        /\ \A t \in Threads \ {current} : pc'[t] = pc[t] /\ sem'[t] = sem[t]
    BY <2>1, Moves
  <2>3. AsleepInv' /\ asleep' = asleep
    BY <1>0, <2>1, <2>2, SameAsleep
  <2>4. \A t \in Threads, k \in AllLocks : Owns(t, k)' <=> Owns(t, k)
    <3> TAKE t \in Threads, k \in AllLocks
    <3>1. holder'[k] = IF k = sem[current] THEN current ELSE holder[k]
      BY <1>0, <2>1 DEF SynchTypeOK
    <3>2. Owns(current, sem[current])
      BY <2>1 DEF Owns
    <3>3. k = sem[current] /\ Owns(t, k) => t = current
      BY <1>0, <2>1, <3>2, OneOwner
    <3>4. CASE k = sem[current]
      <4>1. Owns(t, k) <=> t = current
        BY <3>2, <3>3, <3>4
      <4>2. Owns(t, k)' <=> t = current
        <5>1. t # current => ~ (pc[t] \in {"own", "release_up"} /\ sem[t] = k)
          BY <4>1 DEF Owns
        <5> QED BY <2>2, <3>1, <3>4, <5>1 DEF Owns
      <4> QED BY <4>1, <4>2
    <3>5. CASE k # sem[current]
      BY <2>1, <2>2, <3>1, <3>5 DEF Owns
    <3> QED BY <3>4, <3>5
  <2> QED BY <2>3, <2>4, MonQuiet
<1>7. ASSUME NEW l \in Locks, lock_release(l) PROVE AsleepInv' /\ [Mon!Next]_monVars
  <2>1. l \in AllLocks /\ disown(l) /\ pc[current] = "run" /\ goto("release_up", l, NULL)
    BY <1>7, Names DEF lock_release, at
  <2> QED BY <2>1, MonDisown
<1>8. CASE WaitRelease
  <2>1. sem[current] \in AllLocks /\ disown(sem[current]) /\ pc[current] = "wait_release"
        /\ goto("release_up", sem[current], cond[current])
    BY <1>0, <1>8, Names DEF WaitRelease, at, Arguments
  <2> QED BY <2>1, MonDisown
<1>9. CASE TidRelease
  <2>1. tid_lock \in AllLocks /\ disown(tid_lock) /\ pc[current] = "tid_release" /\ goto("release_up", tid_lock, NULL)
    BY <1>9, Names DEF TidRelease, at
  <2> QED BY <2>1, MonDisown
<1>10. ASSUME NEW c \in Conds, cond_signal(c) \/ cond_broadcast(c) PROVE AsleepInv' /\ [Mon!Next]_monVars
  <2>1. PICK l \in {"signal_up", "broadcast_up"} : pop(c, l)
    BY <1>10 DEF cond_signal, cond_broadcast
  <2>2. pc[current] = "run" /\ holder[CondLock[c]] = current
    BY <1>10 DEF cond_signal, cond_broadcast, at
  <2>3. l \notin {"own", "release_up", "wait_down"}
    OBVIOUS
  <2> QED BY <2>1, <2>2, <2>3, MonSignal DEF Waiting
<1>11. CASE Broadcast
  <2>1. /\ pc[current] = "broadcast" /\ cond[current] \in Conds /\ holder[CondLock[cond[current]]] = current
    BY <1>0, <1>11 DEF Broadcast, at, Arguments, SInv, KernelAsserts
  <2>2. CASE pop(cond[current], "broadcast_up")
    BY <2>1, <2>2, MonSignal DEF Waiting
  <2>3. CASE goto("run", NULL, NULL) /\ UNCHANGED <<schedVars, syncVars, looping, tidVars>>
    <3>1. UNCHANGED <<holder, cond_waiters>>
      BY <2>3 DEF syncVars
    <3> QED BY <2>1, <2>3, <3>1, MonOther
  <2> QED BY <1>11, <2>2, <2>3 DEF Broadcast
<1> QED
  BY <1>1, <1>2, <1>3, <1>4, <1>5, <1>6, <1>7, <1>8, <1>9, <1>10, <1>11, MonRelease, MonJoin, MonWoken
  DEF Next, Call, KernelStep, Interrupt

LEMMA MonInit == SynchInit => AsleepInv /\ Mon!Init
<1> SUFFICES ASSUME SynchInit PROVE AsleepInv /\ Mon!Init
  OBVIOUS
<1>1. \A c \in Conds : cond_waiters[c] = <<>>
  BY DEF SynchInit
<1>2. \A t \in Threads, l \in AllLocks : ~ Owns(t, l)
  <2>1. \A t \in Threads, l \in AllLocks : holder[l] = NULL /\ t # NULL /\ pc[t] \notin {"own", "release_up"}
    BY Names DEF SynchInit
  <2> QED BY <2>1 DEF Owns
<1>3. \A c \in Conds : Asleep(c) = <<>>
  BY <1>1 DEF Asleep
<1>4. \A l \in AllLocks : OwnerOf(l) = NULL
  BY <1>2 DEF OwnerOf
<1> QED BY <1>1, <1>3, <1>4 DEF AsleepInv, Mon!Init

\* Locks and condition variables are what the comments of synch.c say, for any
\* number of threads, locks and conditions: cond_wait gives the lock up and
\* sleeps in one indivisible step, a signal wakes the one that has slept longest,
\* and whoever sleeps takes no lock.
THEOREM SynchIsMonitor == Spec => ImplementsMonitor
<1>1. SInv /\ SInv' /\ CondInv /\ AsleepInv /\ [Next]_vars => [Mon!Next]_(Mon!vars)
  BY MonStep DEF Mon!vars, monVars, owners, asleep
<1>2. SInv /\ SInv' /\ CondInv /\ AsleepInv /\ [Next]_vars => AsleepInv'
  BY MonStep
<1>3. SynchInit => AsleepInv
  BY MonInit
<1>4. SynchInit => Mon!Init
  BY MonInit
<1> QED
  BY <1>1, <1>2, <1>3, <1>4, SynchInvariant, CondInit, CondStep, PTL DEF Spec, ImplementsMonitor, Mon!Spec

=============================================================================
