-------------------------- MODULE SchedulerProofs --------------------------
(***************************************************************************)
(* Proofs about Scheduler, for any number of threads and any time slice.   *)
(* The inductive invariant is TypeOK /\ SchedInv; lemma ScheduleStep does  *)
(* the work common to the steps that end in schedule ().                   *)
(***************************************************************************)
EXTENDS Scheduler, SequenceTheorems, TLAPS

\* Putting a new thread at the back of a duplicate-free list.
LEMMA AppendFresh ==
  ASSUME NEW S, NEW s \in Seq(S), NEW e \in S,
         IsInjective(s), e \notin Range(s)
  PROVE  /\ Append(s, e) \in Seq(S)
         /\ IsInjective(Append(s, e))
         /\ Range(Append(s, e)) = Range(s) \cup {e}
<1>1. /\ Append(s, e) \in Seq(S)
      /\ Len(Append(s, e)) = Len(s) + 1
      /\ \A i \in 1 .. Len(s) : Append(s, e)[i] = s[i]
      /\ Append(s, e)[Len(s) + 1] = e
  BY AppendProperties
<1>2. /\ DOMAIN s = 1 .. Len(s)
      /\ DOMAIN Append(s, e) = 1 .. (Len(s) + 1)
      /\ Len(s) \in Nat
  BY <1>1, LenProperties
<1>3. IsInjective(Append(s, e))
  BY <1>1, <1>2 DEF IsInjective, Range
<1>4. Range(Append(s, e)) = Range(s) \cup {e}
  BY <1>1, <1>2 DEF Range
<1> QED BY <1>1, <1>3, <1>4

\* Taking the front of a duplicate-free list.
LEMMA TailOfInjective ==
  ASSUME NEW S, NEW s \in Seq(S), s # <<>>, IsInjective(s)
  PROVE  /\ Head(s) \in Range(s)
         /\ Head(s) \in S
         /\ Tail(s) \in Seq(S)
         /\ IsInjective(Tail(s))
         /\ Range(Tail(s)) = Range(s) \ {Head(s)}
<1>1. /\ Head(s) \in S
      /\ Tail(s) \in Seq(S)
      /\ Len(Tail(s)) = Len(s) - 1
      /\ \A i \in 1 .. Len(Tail(s)) : Tail(s)[i] = s[i + 1]
  BY HeadTailProperties
<1>2. /\ DOMAIN s = 1 .. Len(s)
      /\ DOMAIN Tail(s) = 1 .. (Len(s) - 1)
      /\ Len(s) \in Nat \ {0}
      /\ Head(s) = s[1]
  BY <1>1, LenProperties, EmptySeq
<1>3. IsInjective(Tail(s))
  BY <1>1, <1>2 DEF IsInjective
<1>4. Range(Tail(s)) = Range(s) \ {Head(s)}
  <2>1. ASSUME NEW i \in DOMAIN Tail(s)
        PROVE  Tail(s)[i] \in Range(s) \ {Head(s)}
    BY <1>1, <1>2 DEF Range, IsInjective
  <2>2. ASSUME NEW i \in DOMAIN s, s[i] # Head(s)
        PROVE  s[i] \in Range(Tail(s))
    <3>1. i # 1 /\ i - 1 \in DOMAIN Tail(s)
      BY <1>2, <2>2
    <3>2. Tail(s)[i - 1] = s[i]
      BY <1>1, <1>2, <3>1
    <3> QED BY <3>1, <3>2 DEF Range
  <2> QED BY <2>1, <2>2 DEF Range
<1> QED BY <1>1, <1>2, <1>3, <1>4 DEF Range

-----------------------------------------------------------------------------
\* What a list of ready threads must satisfy when schedule () is called with
\* the running thread already moved to status st and list rl.
Schedulable(st, rl) ==
  /\ st \in [Threads -> Status]
  /\ rl \in Seq(Threads)
  /\ IsInjective(rl)
  /\ \A t \in Threads : t \in Range(rl) <=> st[t] = "READY" /\ t # idle_thread
  /\ \A t \in Threads : st[t] # "RUNNING"
  /\ idle_thread = NULL => IdlePage \in Range(rl)
  /\ idle_thread # NULL =>
       /\ idle_thread = IdlePage
       /\ st[IdlePage] \in {"READY", "BLOCKED"}

\* schedule () hands the processor to exactly one live thread and leaves the
\* ready list exact.
LEMMA ScheduleStep ==
  ASSUME NEW st, NEW rl, Schedulable(st, rl), schedule(st, rl),
         idle_thread' = idle_thread
  PROVE  /\ current' \in Threads
         /\ st[current'] \in {"READY", "BLOCKED"}
         /\ current' # IdlePage => st[current'] = "READY"
         /\ status' \in [Threads -> Status]
         /\ ready_list' \in Seq(Threads)
         /\ thread_ticks' = 0
         /\ OneRunning'
         /\ ReadyListExact'
         /\ AlwaysSomeoneToRun'
         /\ \A t \in Threads \ {current'} :
              \/ status'[t] = st[t]
              \/ st[t] = "DYING" /\ status'[t] = "FREE"
<1> DEFINE next == next_thread_to_run(rl)
<1> USE DEF Schedulable
<1>a. IdlePage \in Threads /\ NULL \notin Threads /\ <<>> \in Seq(Threads)
  BY SchedulerAssumption, EmptySeq
<1>b. Range(<<>>) = {}
  BY DEF Range
<1>1. /\ current' = next
      /\ ready_list' = IF rl = <<>> THEN rl ELSE Tail(rl)
      /\ status' = switched(st, next)
      /\ thread_ticks' = 0
  BY DEF schedule
<1>2. CASE rl = <<>>
  <2>1. next = IdlePage /\ st[IdlePage] \in {"READY", "BLOCKED"}
        /\ idle_thread = IdlePage
    BY <1>2, <1>b DEF next_thread_to_run
  <2>2. status' \in [Threads -> Status] /\ status'[next] = "RUNNING"
    BY <1>1, <2>1, <1>a DEF switched, Status
  <2>3. \A t \in Threads \ {next} :
              \/ status'[t] = st[t]
              \/ st[t] = "DYING" /\ status'[t] = "FREE"
    BY <1>1 DEF switched
  <2>4. OneRunning'
    BY <1>1, <2>1, <2>2, <2>3, <1>a DEF OneRunning
  <2>5. ReadyListExact'
    BY <1>1, <1>2, <1>b, <2>1, <2>2, <2>3, <1>a DEF ReadyListExact
  <2> QED BY <1>1, <1>2, <2>1, <2>2, <2>3, <2>4, <2>5, <1>a DEF AlwaysSomeoneToRun
<1>3. CASE rl # <<>>
  <2>1. /\ next = Head(rl) /\ next \in Range(rl) /\ next \in Threads
        /\ Tail(rl) \in Seq(Threads)
        /\ IsInjective(Tail(rl))
        /\ Range(Tail(rl)) = Range(rl) \ {next}
    BY <1>3, TailOfInjective DEF next_thread_to_run
  <2>2. status' \in [Threads -> Status] /\ status'[next] = "RUNNING"
    BY <1>1, <2>1 DEF switched, Status
  <2>3. \A t \in Threads \ {next} :
              \/ status'[t] = st[t]
              \/ st[t] = "DYING" /\ status'[t] = "FREE"
    BY <1>1 DEF switched
  <2>4. OneRunning'
    BY <1>1, <2>1, <2>2, <2>3 DEF OneRunning
  <2>5. ReadyListExact'
    BY <1>1, <1>3, <2>1, <2>2, <2>3 DEF ReadyListExact
  <2>6. AlwaysSomeoneToRun'
    BY <1>1, <1>3, <2>1 DEF AlwaysSomeoneToRun
  <2> QED BY <1>1, <1>3, <2>1, <2>2, <2>3, <2>4, <2>5, <2>6
<1> QED BY <1>2, <1>3

-----------------------------------------------------------------------------
(* The inductive invariant. *)

IInv == TypeOK /\ SchedInv

LEMMA InitIInv == SchedInit => IInv
<1> SUFFICES ASSUME SchedInit PROVE IInv
  OBVIOUS
<1> USE SchedulerAssumption DEF SchedInit
<1>1. /\ <<IdlePage>> \in Seq(Threads)
      /\ IsInjective(<<IdlePage>>)
      /\ Range(<<IdlePage>>) = {IdlePage}
  BY DEF IsInjective, Range
<1>2. TypeOK
  BY <1>1 DEF TypeOK, Status
<1>3. ReadyListExact
  BY <1>1 DEF ReadyListExact
<1>4. OneRunning
  BY DEF OneRunning
<1>5. AlwaysSomeoneToRun
  BY <1>1 DEF AlwaysSomeoneToRun
<1>6. AllListExact
  BY DEF AllListExact
<1>7. NewbornHidden /\ IdleSafe
  BY DEF NewbornHidden, IdleSafe
<1> QED BY <1>2, <1>3, <1>4, <1>5, <1>6, <1>7 DEF IInv, SchedInv

\* thread_unblock of a blocked thread other than the idle thread.
LEMMA UnblockStep ==
  ASSUME IInv, NEW t \in Threads, status[t] = "BLOCKED", t # IdlePage,
         unblock(t), idle_thread' = idle_thread, all_list' = all_list
  PROVE  /\ ready_list' \in Seq(Threads)
         /\ status' \in [Threads -> Status]
         /\ ReadyListExact' /\ OneRunning' /\ AlwaysSomeoneToRun' /\ AllListExact'
<1> USE DEF IInv, SchedInv, TypeOK
<1>1. /\ ready_list' = Append(ready_list, t)
      /\ status' = [status EXCEPT ![t] = "READY"]
      /\ current' = current
  BY DEF unblock
<1>2. t \notin Range(ready_list)
  BY DEF ReadyListExact
<1>3. /\ ready_list' \in Seq(Threads)
      /\ IsInjective(ready_list')
      /\ Range(ready_list') = Range(ready_list) \cup {t}
  BY <1>1, <1>2, AppendFresh DEF ReadyListExact
<1>4. status' \in [Threads -> Status]
  BY <1>1 DEF Status
<1>5. ReadyListExact'
  BY <1>1, <1>3, SchedulerAssumption DEF ReadyListExact
<1>6. OneRunning'
  BY <1>1 DEF OneRunning
<1>7. AlwaysSomeoneToRun'
  BY <1>1, <1>3 DEF AlwaysSomeoneToRun
<1>8. AllListExact'
  BY <1>1 DEF AllListExact
<1> QED BY <1>3, <1>4, <1>5, <1>6, <1>7, <1>8

\* A step that ends in schedule () with the running thread moved to status s
\* and, if s is READY and it is not the idle thread, to the back of the list.
LEMMA LeaveIsSchedulable ==
  ASSUME IInv, NEW s \in {"READY", "BLOCKED", "DYING"}, NEW rl,
         rl = IF s = "READY" /\ current # idle_thread
              THEN Append(ready_list, current) ELSE ready_list,
         current = IdlePage => s # "DYING" /\ (s = "BLOCKED" => idle_thread # NULL)
  PROVE  Schedulable([status EXCEPT ![current] = s], rl)
<1> DEFINE st == [status EXCEPT ![current] = s]
<1> USE DEF IInv, SchedInv, TypeOK
<1>0. IdlePage \in Threads /\ NULL \notin Threads
  BY SchedulerAssumption
<1>1. current \notin Range(ready_list)
  BY DEF ReadyListExact, OneRunning
<1>2. CASE s = "READY" /\ current # idle_thread
  <2>1. /\ rl \in Seq(Threads)
        /\ IsInjective(rl)
        /\ Range(rl) = Range(ready_list) \cup {current}
    BY <1>1, <1>2, AppendFresh DEF ReadyListExact
  <2>2. st \in [Threads -> Status]
    BY <1>2 DEF Status
  <2>3. \A t \in Threads : t \in Range(rl) <=> st[t] = "READY" /\ t # idle_thread
    BY <1>2, <2>1 DEF ReadyListExact
  <2>4. \A t \in Threads : st[t] # "RUNNING"
    BY <1>2 DEF OneRunning
  <2>5. idle_thread = NULL => IdlePage \in Range(rl)
    BY <2>1 DEF AlwaysSomeoneToRun
  <2>6. idle_thread # NULL =>
       /\ idle_thread = IdlePage
       /\ st[IdlePage] \in {"READY", "BLOCKED"}
    BY <1>0, <1>2 DEF IdleSafe, OneRunning
  <2> QED BY <2>1, <2>2, <2>3, <2>4, <2>5, <2>6 DEF Schedulable, ReadyListExact
<1>3. CASE ~(s = "READY" /\ current # idle_thread)
  <2>1. rl = ready_list
    BY <1>3
  <2>2. st \in [Threads -> Status]
    BY DEF Status
  <2>3. \A t \in Threads : t \in Range(rl) <=> st[t] = "READY" /\ t # idle_thread
    BY <1>1, <1>3, <2>1 DEF ReadyListExact
  <2>4. \A t \in Threads : st[t] # "RUNNING"
    BY DEF OneRunning
  <2>5. idle_thread = NULL => IdlePage \in Range(rl)
    BY <1>0, <1>3, <2>1 DEF AlwaysSomeoneToRun
  <2>6. idle_thread # NULL =>
       /\ idle_thread = IdlePage
       /\ st[IdlePage] \in {"READY", "BLOCKED"}
    BY <1>0 DEF IdleSafe, OneRunning
  <2> QED BY <2>1, <2>2, <2>3, <2>4, <2>5, <2>6 DEF Schedulable, ReadyListExact
<1> QED BY <1>2, <1>3

\* The invariant after a step that gives the processor away.
LEMMA LeaveStep ==
  ASSUME IInv, NEW s \in {"READY", "BLOCKED", "DYING"}, NEW rl,
         rl = IF s = "READY" /\ current # idle_thread
              THEN Append(ready_list, current) ELSE ready_list,
         current = IdlePage => s # "DYING" /\ (s = "BLOCKED" => idle_thread # NULL),
         schedule([status EXCEPT ![current] = s], rl),
         s = "DYING" => newborn[current] = NULL,
         all_list' = IF s = "DYING" THEN all_list \ {current} ELSE all_list,
         idle_thread' = idle_thread, newborn' = newborn
  PROVE  IInv'
<1> DEFINE st == [status EXCEPT ![current] = s]
<1> USE DEF IInv, SchedInv, TypeOK
<1>0. IdlePage \in Threads /\ NULL \notin Threads
  BY SchedulerAssumption
<1>1. Schedulable(st, rl)
  BY LeaveIsSchedulable
<1>2. /\ current' \in Threads
      /\ st[current'] \in {"READY", "BLOCKED"}
      /\ current' # IdlePage => st[current'] = "READY"
      /\ status' \in [Threads -> Status]
      /\ ready_list' \in Seq(Threads)
      /\ thread_ticks' = 0
      /\ OneRunning'
      /\ ReadyListExact'
      /\ AlwaysSomeoneToRun'
      /\ \A t \in Threads \ {current'} :
           \/ status'[t] = st[t]
           \/ st[t] = "DYING" /\ status'[t] = "FREE"
  <2>1. schedule(st, rl)
    OBVIOUS
  <2> HIDE DEF st
  <2> QED BY <1>1, <2>1, ScheduleStep
<1>3. TypeOK'
  BY <1>2, SchedulerAssumption
<1>4. AllListExact'
  BY <1>2 DEF AllListExact, OneRunning
<1>5. NewbornHidden'
  BY <1>0, <1>2 DEF NewbornHidden, OneRunning, IdleSafe
<1>6. IdleSafe'
  BY <1>0, <1>2 DEF IdleSafe, OneRunning, AlwaysSomeoneToRun
<1> QED BY <1>2, <1>3, <1>4, <1>5, <1>6

-----------------------------------------------------------------------------
LEMMA NextIInv == IInv /\ [SchedNext]_schedVars => IInv'
<1> SUFFICES ASSUME IInv, [SchedNext]_schedVars PROVE IInv'
  OBVIOUS
<1>0. /\ IdlePage \in Threads /\ NULL \notin Threads
      /\ TIME_SLICE \in Nat \ {0}
      /\ status[current] = "RUNNING"
      /\ idle_thread \in {NULL, IdlePage}
  BY SchedulerAssumption DEF IInv, SchedInv, TypeOK, OneRunning
<1>1. ASSUME yield, UNCHANGED <<idle_thread, all_list, newborn>>
      PROVE  IInv'
  BY <1>0, <1>1, LeaveStep DEF yield
<1>2. ASSUME block, UNCHANGED <<idle_thread, all_list, newborn>>,
             current = IdlePage => idle_thread # NULL
      PROVE  IInv'
  BY <1>0, <1>2, LeaveStep DEF block
<1>3. ASSUME thread_tick PROVE IInv'
  <2>1. CASE thread_ticks + 1 >= TIME_SLICE
    BY <1>1, <1>3, <2>1 DEF thread_tick, tick
  <2>2. CASE ~(thread_ticks + 1 >= TIME_SLICE)
    <3>1. /\ thread_ticks' = thread_ticks + 1
          /\ UNCHANGED <<status, ready_list, current, idle_thread, all_list, newborn>>
      BY <1>3, <2>2 DEF thread_tick, tick
    <3>2. thread_ticks' \in 0 .. TIME_SLICE - 1
      BY <1>0, <2>2, <3>1 DEF IInv, TypeOK
    <3> QED
      BY <3>1, <3>2 DEF IInv, TypeOK, SchedInv, ReadyListExact, OneRunning,
                        AlwaysSomeoneToRun, AllListExact, NewbornHidden, IdleSafe
  <2> QED BY <2>1, <2>2
<1>4. ASSUME thread_yield PROVE IInv'
  BY <1>1, <1>4 DEF thread_yield
<1>5. ASSUME thread_block PROVE IInv'
  BY <1>2, <1>5 DEF thread_block, InThreadCode
<1>6. ASSUME NEW t \in Threads, thread_unblock(t) PROVE IInv'
  <2>1. /\ ready_list' \in Seq(Threads)
        /\ status' \in [Threads -> Status]
        /\ ReadyListExact' /\ OneRunning' /\ AlwaysSomeoneToRun' /\ AllListExact'
    BY <1>6, UnblockStep DEF thread_unblock
  <2>2. /\ status' = [status EXCEPT ![t] = "READY"]
        /\ t # IdlePage /\ status[t] = "BLOCKED" /\ t \notin Range(newborn)
        /\ UNCHANGED <<current, thread_ticks, idle_thread, all_list, newborn>>
    BY <1>6 DEF thread_unblock, unblock
  <2>3. TypeOK'
    BY <2>1, <2>2 DEF IInv, TypeOK
  <2>4. NewbornHidden'
    <3>1. \A u \in Threads : newborn[u] # t
      BY <2>2 DEF Range, IInv, TypeOK
    <3> QED BY <2>2, <3>1 DEF NewbornHidden, IInv, SchedInv, TypeOK
  <2>5. IdleSafe'
    BY <2>2 DEF IdleSafe, IInv, SchedInv, TypeOK
  <2> QED BY <2>1, <2>3, <2>4, <2>5 DEF IInv, SchedInv
<1>7. ASSUME NEW t \in Threads, thread_create(t) PROVE IInv'
  <2>1. /\ status[t] = "FREE"
        /\ status' = [status EXCEPT ![t] = "BLOCKED"]
        /\ all_list' = all_list \cup {t}
        /\ newborn' = [newborn EXCEPT ![current] = t]
        /\ newborn[current] = NULL /\ current # IdlePage
        /\ UNCHANGED <<ready_list, current, idle_thread, thread_ticks>>
    BY <1>7 DEF thread_create, init_thread, InThreadCode
  <2>2. t # current /\ t # IdlePage /\ \A u \in Threads : newborn[u] # t
    BY <1>0, <2>1 DEF IInv, SchedInv, IdleSafe, NewbornHidden
  <2>3. TypeOK'
    BY <2>1 DEF IInv, TypeOK, Status
  <2>4. ReadyListExact' /\ OneRunning' /\ AlwaysSomeoneToRun' /\ AllListExact'
    BY <2>1, <2>2 DEF IInv, SchedInv, TypeOK, ReadyListExact, OneRunning,
                      AlwaysSomeoneToRun, AllListExact
  <2>5. NewbornHidden'
    BY <1>0, <2>1, <2>2 DEF IInv, SchedInv, TypeOK, NewbornHidden
  <2>6. IdleSafe'
    BY <2>1, <2>2 DEF IInv, SchedInv, TypeOK, IdleSafe
  <2> QED BY <2>3, <2>4, <2>5, <2>6 DEF IInv, SchedInv
<1>8. ASSUME thread_create_end PROVE IInv'
  <2> DEFINE t == newborn[current]
  <2>1. /\ t \in Threads /\ t # IdlePage /\ status[t] = "BLOCKED"
        /\ unblock(t)
        /\ newborn' = [newborn EXCEPT ![current] = NULL]
        /\ UNCHANGED <<idle_thread, all_list>>
    BY <1>8 DEF thread_create_end, IInv, SchedInv, TypeOK, NewbornHidden
  <2>2. /\ ready_list' \in Seq(Threads)
        /\ status' \in [Threads -> Status]
        /\ ReadyListExact' /\ OneRunning' /\ AlwaysSomeoneToRun' /\ AllListExact'
    BY <2>1, UnblockStep
  <2>3. /\ status' = [status EXCEPT ![t] = "READY"]
        /\ UNCHANGED <<current, thread_ticks>>
    BY <2>1 DEF unblock
  <2>4. TypeOK'
    BY <2>1, <2>2, <2>3 DEF IInv, TypeOK
  <2>5. NewbornHidden'
    BY <1>0, <2>1, <2>3 DEF IInv, SchedInv, TypeOK, NewbornHidden
  <2>6. IdleSafe'
    BY <1>0, <2>1, <2>3 DEF IInv, SchedInv, TypeOK, IdleSafe
  <2> QED BY <2>2, <2>4, <2>5, <2>6 DEF IInv, SchedInv
<1>9. ASSUME thread_exit PROVE IInv'
  BY <1>0, <1>9, LeaveStep DEF thread_exit, die, InThreadCode
<1>10. ASSUME idle_start PROVE IInv'
  BY <1>0, <1>10
  DEF idle_start, IInv, SchedInv, TypeOK, ReadyListExact, OneRunning,
      AlwaysSomeoneToRun, AllListExact, NewbornHidden, IdleSafe
<1>11. ASSUME idle_loop PROVE IInv'
  BY <1>0, <1>2, <1>11 DEF idle_loop, IInv, TypeOK
<1>12. ASSUME UNCHANGED schedVars PROVE IInv'
  BY <1>12
  DEF schedVars, IInv, SchedInv, TypeOK, ReadyListExact, OneRunning,
      AlwaysSomeoneToRun, AllListExact, NewbornHidden, IdleSafe
<1> QED
  BY <1>3, <1>4, <1>5, <1>6, <1>7, <1>8, <1>9, <1>10, <1>11, <1>12 DEF SchedNext

-----------------------------------------------------------------------------
(* The theorems. *)

\* The inductive invariant holds throughout.
THEOREM SchedulerInvariant == SchedSpec => []IInv
<1> QED BY InitIInv, NextIInv, PTL DEF SchedSpec

\* thread.c: every variable of the scheduler keeps its type.
THEOREM SchedulerTypeCorrect == SchedSpec => []TypeOK
<1>1. IInv => TypeOK
  BY DEF IInv
<1> QED BY <1>1, SchedulerInvariant, PTL

\* thread.c: the ready list holds exactly the READY threads, each once, and
\* never the idle thread.
THEOREM ReadyListCorrect == SchedSpec => []ReadyListExact
<1>1. IInv => ReadyListExact
  BY DEF IInv, SchedInv
<1> QED BY <1>1, SchedulerInvariant, PTL

\* schedule (): next is never NULL, the ASSERT (is_thread (next)) holds.
THEOREM ScheduleFindsAThread == SchedSpec => []AlwaysSomeoneToRun
<1>1. IInv => AlwaysSomeoneToRun
  BY DEF IInv, SchedInv
<1> QED BY <1>1, SchedulerInvariant, PTL

\* all_list never keeps a freed page and never misses a live thread.
THEOREM AllListCorrect == SchedSpec => []AllListExact
<1>1. IInv => AllListExact
  BY DEF IInv, SchedInv
<1> QED BY <1>1, SchedulerInvariant, PTL

\* thread_create: nobody runs or wakes a thread still under construction.
THEOREM NewbornCorrect == SchedSpec => []NewbornHidden
<1>1. IInv => NewbornHidden
  BY DEF IInv, SchedInv
<1> QED BY <1>1, SchedulerInvariant, PTL

-----------------------------------------------------------------------------
(* Round robin. *)

InOrder(rl, rl2) ==
  \A i \in DOMAIN rl, k \in DOMAIN rl2 :
     rl2[k] = rl[i] => \A l \in 1 .. k - 1 : \E j \in 1 .. i - 1 : rl2[l] = rl[j]

\* A list that is s or s without its front keeps the order of any prefix rl
\* of the duplicate-free list s.
LEMMA PrefixOrder ==
  ASSUME NEW S, NEW s \in Seq(S), NEW rl \in Seq(S), IsInjective(s),
         Len(rl) <= Len(s), \A i \in 1 .. Len(rl) : s[i] = rl[i]
  PROVE  /\ InOrder(rl, s)
         /\ s # <<>> => InOrder(rl, Tail(s))
<1>1. /\ DOMAIN s = 1 .. Len(s) /\ DOMAIN rl = 1 .. Len(rl)
      /\ Len(s) \in Nat /\ Len(rl) \in Nat
  BY LenProperties
<1>2. \A i \in DOMAIN rl : \A k \in DOMAIN s : s[k] = rl[i] => k = i
  BY <1>1 DEF IsInjective
<1>3. InOrder(rl, s)
  BY <1>1, <1>2 DEF InOrder
<1>4. ASSUME s # <<>> PROVE InOrder(rl, Tail(s))
  <2>1. /\ DOMAIN Tail(s) = 1 .. (Len(s) - 1)
        /\ \A k \in DOMAIN Tail(s) : Tail(s)[k] = s[k + 1] /\ k + 1 \in DOMAIN s
    BY <1>1, <1>4, HeadTailProperties, LenProperties
  <2>2. \A i \in DOMAIN rl : \A k \in DOMAIN Tail(s) : Tail(s)[k] = rl[i] => k + 1 = i
    BY <1>2, <2>1
  <2>3. ASSUME NEW i \in DOMAIN rl, NEW k \in DOMAIN Tail(s), k + 1 = i, NEW l \in 1 .. k - 1
        PROVE  l + 1 \in 1 .. i - 1 /\ Tail(s)[l] = rl[l + 1]
    BY <1>1, <2>1, <2>3
  <2> QED BY <2>2, <2>3 DEF InOrder
<1> QED BY <1>3, <1>4

\* The ready list only ever loses its front and gains a back.
LEMMA ReadyListOrder == IInv /\ [SchedNext]_schedVars => InOrder(ready_list, ready_list')
<1> SUFFICES ASSUME IInv, [SchedNext]_schedVars PROVE InOrder(ready_list, ready_list')
  OBVIOUS
<1>0. /\ ready_list \in Seq(Threads) /\ IsInjective(ready_list)
      /\ current \in Threads /\ current \notin Range(ready_list)
      /\ newborn \in [Threads -> Threads \cup {NULL}]
      /\ Len(ready_list) \in Nat
  BY LenProperties DEF IInv, SchedInv, TypeOK, ReadyListExact, OneRunning
<1>1. \A t \in Threads \ Range(ready_list) :
        /\ Append(ready_list, t) \in Seq(Threads)
        /\ IsInjective(Append(ready_list, t))
        /\ Len(Append(ready_list, t)) = Len(ready_list) + 1
        /\ \A i \in 1 .. Len(ready_list) : Append(ready_list, t)[i] = ready_list[i]
  BY <1>0, AppendFresh, AppendProperties
<1>2. ready_list' = ready_list => InOrder(ready_list, ready_list')
  BY <1>0, PrefixOrder
<1>3. ASSUME NEW t \in Threads \ Range(ready_list), ready_list' = Append(ready_list, t)
      PROVE  InOrder(ready_list, ready_list')
  <2>1. /\ ready_list' \in Seq(Threads) /\ IsInjective(ready_list')
        /\ Len(ready_list) <= Len(ready_list')
        /\ \A i \in 1 .. Len(ready_list) : ready_list'[i] = ready_list[i]
    BY <1>0, <1>1, <1>3
  <2> QED BY <1>0, <2>1, PrefixOrder
<1>4. ASSUME NEW st, schedule(st, ready_list)
      PROVE  InOrder(ready_list, ready_list')
  BY <1>0, <1>2, <1>4, PrefixOrder DEF schedule
<1>5. ASSUME NEW st, schedule(st, Append(ready_list, current))
      PROVE  InOrder(ready_list, ready_list')
  <2> DEFINE s == Append(ready_list, current)
  <2>1. s # <<>> /\ s \in Seq(Threads) /\ IsInjective(s) /\ Len(ready_list) <= Len(s)
        /\ \A i \in 1 .. Len(ready_list) : s[i] = ready_list[i]
    BY <1>0, <1>1, EmptySeq
  <2>2. ready_list' = Tail(s)
    BY <1>5, <2>1 DEF schedule
  <2> HIDE DEF s
  <2> QED BY <1>0, <2>1, <2>2, PrefixOrder
<1>6. yield => InOrder(ready_list, ready_list')
  BY <1>4, <1>5 DEF yield
<1>7. block => InOrder(ready_list, ready_list')
  BY <1>4 DEF block
<1>8. ASSUME NEW t \in Threads, status[t] = "BLOCKED", unblock(t)
      PROVE  InOrder(ready_list, ready_list')
  <2>1. t \notin Range(ready_list)
    BY <1>8 DEF IInv, SchedInv, ReadyListExact
  <2> QED BY <1>3, <1>8, <2>1 DEF unblock
<1>9. CASE thread_tick
  BY <1>2, <1>6, <1>9 DEF thread_tick, tick
<1>10. CASE \E t \in Threads : thread_unblock(t)
  BY <1>8, <1>10 DEF thread_unblock
<1>11. CASE thread_create_end
  BY <1>0, <1>8, <1>11 DEF thread_create_end, IInv, SchedInv, NewbornHidden
<1>12. CASE thread_exit
  BY <1>4, <1>12 DEF thread_exit, die
<1> QED
  BY <1>2, <1>6, <1>7, <1>9, <1>10, <1>11, <1>12
  DEF SchedNext, thread_yield, thread_block, thread_create, init_thread,
      idle_start, idle_loop, schedVars

\* thread.c: no waiting thread overtakes another, so a thread behind n others
\* gets the processor after n switches.
THEOREM RoundRobin == SchedSpec => NoOvertaking
<1>1. IInv /\ [SchedNext]_schedVars =>
        [\A i \in DOMAIN ready_list, k \in DOMAIN ready_list' :
           ready_list'[k] = ready_list[i] =>
             \A l \in 1 .. k - 1 : \E j \in 1 .. i - 1 :
               ready_list'[l] = ready_list[j]]_schedVars
  BY ReadyListOrder DEF InOrder
<1> QED BY <1>1, SchedulerInvariant, PTL DEF SchedSpec, NoOvertaking

\* thread.c: the idle thread gets the processor only when nobody else wants it.
THEOREM WorkConserving == SchedSpec => NoIdlingPastWork
<1>1. ASSUME IInv, NEW s \in {"READY", "BLOCKED", "DYING"}, NEW rl,
             rl = IF s = "READY" /\ current # idle_thread
                  THEN Append(ready_list, current) ELSE ready_list,
             current = IdlePage => s # "DYING" /\ (s = "BLOCKED" => idle_thread # NULL),
             schedule([status EXCEPT ![current] = s], rl),
             current' = IdlePage, idle_thread # NULL,
             NEW t \in Threads \ {current}, status[t] = "READY"
      PROVE  t = IdlePage
  <2> DEFINE st == [status EXCEPT ![current] = s]
  <2>1. Schedulable(st, rl)
    BY <1>1, LeaveIsSchedulable
  <2>2. st[t] = "READY" /\ idle_thread = IdlePage
    BY <1>1 DEF IInv, TypeOK
  <2>3. current' = next_thread_to_run(rl)
    BY <1>1 DEF schedule
  <2>4. rl # <<>> => Head(rl) \in Range(rl) /\ Head(rl) \in Threads
    BY <2>1, TailOfInjective DEF Schedulable
  <2>5. rl = <<>>
    BY <1>1, <2>1, <2>2, <2>3, <2>4 DEF Schedulable, next_thread_to_run
  <2>6. Range(<<>>) = {}
    BY DEF Range
  <2> QED BY <2>1, <2>2, <2>5, <2>6 DEF Schedulable
<1>2. ASSUME IInv, [SchedNext]_schedVars, current' # current, current' = IdlePage,
             idle_thread # NULL, NEW t \in Threads \ {current}, status[t] = "READY"
      PROVE  t = IdlePage
  <2>1. CASE yield
    BY <1>1, <1>2, <2>1 DEF yield
  <2>2. CASE block
    BY <1>1, <1>2, <2>2 DEF block
  <2>3. CASE thread_exit
    BY <1>1, <1>2, <2>3 DEF thread_exit, die, InThreadCode
  <2> QED
    BY <1>2, <2>1, <2>2, <2>3
    DEF SchedNext, thread_tick, tick, thread_yield, thread_block, thread_unblock, unblock,
        thread_create, thread_create_end, idle_start, idle_loop, schedVars
<1>3. IInv /\ [SchedNext]_schedVars =>
        [current' # current /\ current' = IdlePage /\ idle_thread # NULL
           => \A t \in Threads \ {current} : status[t] # "READY" \/ t = IdlePage]_schedVars
  BY <1>2
<1> QED BY <1>3, SchedulerInvariant, PTL DEF SchedSpec, NoIdlingPastWork
=============================================================================
