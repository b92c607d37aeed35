----------------------------- MODULE Scheduler -----------------------------
(***************************************************************************)
(* The thread scheduler of threads/thread.c: one processor, a FIFO ready   *)
(* list, time slices enforced by the timer interrupt, an idle thread that  *)
(* runs when nothing is ready, threads created from and returned to the    *)
(* page allocator.                                                         *)
(*                                                                         *)
(* A thread IS its page: Threads is the set of pages thread_create may be  *)
(* given, and a page may carry several threads one after the other.  Every *)
(* section the kernel runs with interrupts off, up to and including the    *)
(* context switch that ends it, is one step.  The threads' programs are    *)
(* arbitrary here: the running thread may block, wake any blocked thread,  *)
(* create, yield or exit.  Synch gives them the programs of synch.c.       *)
(***************************************************************************)
EXTENDS Naturals, Sequences, FiniteSets, Functions

CONSTANTS
  Threads,          \* the pages struct thread lives in
  initial_thread,   \* the page of "main", set up by thread_init
  IdlePage,         \* the page thread_start creates the thread "idle" in
  NULL,
  TIME_SLICE        \* timer ticks a thread may run before it is preempted

ASSUME SchedulerAssumption ==
  /\ initial_thread \in Threads
  /\ IdlePage \in Threads
  /\ initial_thread # IdlePage
  /\ NULL \notin Threads
  /\ TIME_SLICE \in Nat \ {0}

VARIABLES
  status,        \* struct thread's status; "FREE" when the page holds no thread
  ready_list,    \* ready_list
  current,       \* running_thread ()
  idle_thread,   \* idle_thread, NULL until the idle thread first runs
  all_list,      \* all_list, as a set
  thread_ticks,  \* timer ticks since the running thread got the processor
  newborn        \* the thread each thread is in the middle of creating

schedVars == <<status, ready_list, current, idle_thread, all_list,
               thread_ticks, newborn>>

Status == {"RUNNING", "READY", "BLOCKED", "DYING", "FREE"}

TypeOK ==
  /\ status \in [Threads -> Status]
  /\ ready_list \in Seq(Threads)
  /\ current \in Threads
  /\ idle_thread \in {NULL, IdlePage}
  /\ all_list \subseteq Threads
  /\ thread_ticks \in 0 .. TIME_SLICE - 1
  /\ newborn \in [Threads -> Threads \cup {NULL}]

\* thread_init has made main the running thread and thread_start has put the
\* idle thread on the ready list; interrupts have just been enabled.
SchedInit ==
  /\ status = [t \in Threads |-> CASE t = initial_thread -> "RUNNING"
                                   [] t = IdlePage       -> "READY"
                                   [] OTHER              -> "FREE"]
  /\ ready_list = <<IdlePage>>
  /\ current = initial_thread
  /\ idle_thread = NULL
  /\ all_list = {initial_thread, IdlePage}
  /\ thread_ticks = 0
  /\ newborn = [t \in Threads |-> NULL]

-----------------------------------------------------------------------------
(* The building blocks: each fixes some of the primed variables. *)

\* Mutant: the last ready thread is overlooked.
next_thread_off_by_one(rl) ==
  IF Len(rl) <= 1 /\ idle_thread # NULL THEN idle_thread ELSE Head(rl)

\* next_thread_to_run on the ready list rl.
next_thread_to_run(rl) == IF rl = <<>> THEN idle_thread ELSE Head(rl)

\* switch_threads and thread_schedule_tail: next runs; a thread that died is
\* destroyed, its page freed, unless it is the initial thread.
switched(st, next) ==
  [t \in Threads |->
     CASE t = next -> "RUNNING"
       [] t # next /\ st[t] = "DYING" /\ t # initial_thread -> "FREE"
       [] OTHER -> st[t]]

\* schedule () once the running thread's status is st and the ready list rl.
schedule(st, rl) ==
  LET next == next_thread_to_run(rl)
  IN  /\ current' = next
      /\ ready_list' = IF rl = <<>> THEN rl ELSE Tail(rl)
      /\ status' = switched(st, next)
      /\ thread_ticks' = 0

\* thread_block (): the caller sleeps until someone unblocks it.
block == schedule([status EXCEPT ![current] = "BLOCKED"], ready_list)

\* Mutant: list_push_front.
unblock_in_front(t) ==
  /\ ready_list' = <<t>> \o ready_list
  /\ status' = [status EXCEPT ![t] = "READY"]
  /\ UNCHANGED <<current, thread_ticks>>

\* thread_unblock (t)
unblock(t) ==
  /\ ready_list' = Append(ready_list, t)
  /\ status' = [status EXCEPT ![t] = "READY"]
  /\ UNCHANGED <<current, thread_ticks>>

\* Mutant: the test is on the thread named "idle", announced or not.
yield_unless_idle_page ==
  schedule([status EXCEPT ![current] = "READY"],
           IF current # IdlePage THEN Append(ready_list, current) ELSE ready_list)

\* Mutant: thread_yield puts the idle thread on the ready list too.
yield_idle_queued ==
  schedule([status EXCEPT ![current] = "READY"], Append(ready_list, current))

\* thread_yield (): the idle thread never goes to the ready list.
yield ==
  schedule([status EXCEPT ![current] = "READY"],
           IF current # idle_thread THEN Append(ready_list, current)
                                    ELSE ready_list)

\* Mutant: the slice is one tick too long.
tick_off_by_one ==
  IF thread_ticks + 1 > TIME_SLICE
  THEN yield
  ELSE /\ thread_ticks' = thread_ticks + 1
       /\ UNCHANGED <<status, ready_list, current>>

\* Mutant: the slice starts again but nobody yields.
tick_without_yield ==
  /\ thread_ticks' = (thread_ticks + 1) % TIME_SLICE
  /\ UNCHANGED <<status, ready_list, current>>

\* The timer interrupt, as the scheduler sees it: thread_tick (), then
\* thread_yield () on return when the slice is used up.
tick ==
  IF thread_ticks + 1 >= TIME_SLICE
  THEN yield
  ELSE /\ thread_ticks' = thread_ticks + 1
       /\ UNCHANGED <<status, ready_list, current>>

\* init_thread (t) on a page fresh from palloc_get_page.
init_thread(t) ==
  /\ status[t] = "FREE"
  /\ status' = [status EXCEPT ![t] = "BLOCKED"]
  /\ all_list' = all_list \cup {t}
  /\ newborn' = [newborn EXCEPT ![current] = t]

\* Mutant: the dying thread stays on all_list.
die_listed ==
  /\ all_list' = all_list
  /\ schedule([status EXCEPT ![current] = "DYING"], ready_list)

\* The last steps of thread_exit (), interrupts off.
die ==
  /\ all_list' = all_list \ {current}
  /\ schedule([status EXCEPT ![current] = "DYING"], ready_list)

-----------------------------------------------------------------------------
(* The steps of arbitrary threads. *)

\* The running thread runs code of its own: it is not the idle thread's.
InThreadCode == current # IdlePage

thread_tick ==
  /\ tick
  /\ UNCHANGED <<idle_thread, all_list, newborn>>

thread_yield ==
  /\ InThreadCode
  /\ yield
  /\ UNCHANGED <<idle_thread, all_list, newborn>>

thread_block ==
  /\ InThreadCode
  /\ block
  /\ UNCHANGED <<idle_thread, all_list, newborn>>

\* Mutant: a wake-up of any blocked thread found on all_list.
thread_unblock_any(t) ==
  /\ status[t] = "BLOCKED"
  /\ t # IdlePage
  /\ unblock(t)
  /\ UNCHANGED <<idle_thread, all_list, newborn>>

\* By the running thread or by a device's interrupt handler.  Nobody holds a
\* pointer to the idle thread or to a thread still being created.
thread_unblock(t) ==
  /\ status[t] = "BLOCKED"
  /\ t # IdlePage
  /\ t \notin Range(newborn)
  /\ unblock(t)
  /\ UNCHANGED <<idle_thread, all_list, newborn>>

\* thread_create up to allocate_tid, which may block on tid_lock.
thread_create(t) ==
  /\ InThreadCode
  /\ newborn[current] = NULL
  /\ init_thread(t)
  /\ UNCHANGED <<ready_list, current, idle_thread, thread_ticks>>

\* The end of thread_create: thread_unblock on the new thread.
thread_create_end ==
  /\ newborn[current] # NULL
  /\ unblock(newborn[current])
  /\ newborn' = [newborn EXCEPT ![current] = NULL]
  /\ UNCHANGED <<idle_thread, all_list>>

thread_exit ==
  /\ InThreadCode
  /\ newborn[current] = NULL
  /\ die
  /\ UNCHANGED <<idle_thread, newborn>>

\* idle (): announce itself, then block whenever an interrupt has let it run.
idle_start ==
  /\ current = IdlePage
  /\ idle_thread = NULL
  /\ idle_thread' = current
  /\ UNCHANGED <<status, ready_list, current, all_list, thread_ticks, newborn>>

idle_loop ==
  /\ current = idle_thread
  /\ block
  /\ UNCHANGED <<idle_thread, all_list, newborn>>

SchedNext ==
  \/ thread_tick
  \/ thread_yield
  \/ thread_block
  \/ \E t \in Threads : thread_unblock(t)
  \/ \E t \in Threads : thread_create(t)
  \/ thread_create_end
  \/ thread_exit
  \/ idle_start
  \/ idle_loop

SchedSpec == SchedInit /\ [][SchedNext]_schedVars

\* The timer goes on interrupting (100 times a second); nothing else is
\* promised: a thread may compute for ever.
FairSchedSpec == SchedSpec /\ WF_schedVars(thread_tick)

-----------------------------------------------------------------------------
(* Properties *)

\* The ready list holds each READY thread exactly once and nobody else, but
\* never the idle thread (the comment above idle ()).  Since elem is also the
\* link of a semaphore's wait list, one thread too many here corrupts both.
ReadyListExact ==
  /\ IsInjective(ready_list)
  /\ \A t \in Threads : t \in Range(ready_list)
       <=> status[t] = "READY" /\ t # idle_thread

\* Exactly the thread the stack pointer is in is marked RUNNING, which
\* thread_current asserts.
OneRunning == \A t \in Threads : status[t] = "RUNNING" <=> t = current

\* schedule () always finds a thread (its ASSERT on next): the ready list is
\* empty only once idle_thread is known, or while the idle thread runs for
\* the first time.
AlwaysSomeoneToRun ==
  idle_thread = NULL => current = IdlePage \/ IdlePage \in Range(ready_list)

\* all_list, which find_thread and thread_foreach walk with no check of their
\* own, holds the live threads and no freed page.
AllListExact ==
  all_list = {t \in Threads : status[t] \notin {"FREE", "DYING"}}

\* A thread under construction is BLOCKED, off every list, and has a single
\* creator: nothing can run it before thread_create lets it go.
NewbornHidden ==
  \A t \in Threads : newborn[t] # NULL =>
    /\ status[newborn[t]] = "BLOCKED" /\ newborn[t] # IdlePage
    /\ status[t] \notin {"FREE", "DYING"}
    /\ \A u \in Threads : newborn[u] = newborn[t] => u = t

\* The idle thread is never BLOCKED before it has announced itself, never
\* creates, never dies.
IdleSafe ==
  /\ newborn[IdlePage] = NULL
  /\ status[IdlePage] \in {"RUNNING", "READY", "BLOCKED"}
  /\ idle_thread = NULL => status[IdlePage] # "BLOCKED"

SchedInv ==
  /\ ReadyListExact
  /\ OneRunning
  /\ AlwaysSomeoneToRun
  /\ AllListExact
  /\ NewbornHidden
  /\ IdleSafe

\* Round robin: after any step, whoever is ahead of a waiting thread was ahead
\* of it before: thread_unblock and thread_yield let nobody in front.
NoOvertaking ==
  [][\A i \in DOMAIN ready_list, k \in DOMAIN ready_list' :
       ready_list'[k] = ready_list[i] =>
         \A l \in 1 .. k - 1 : \E j \in 1 .. i - 1 :
           ready_list'[l] = ready_list[j]]_schedVars

\* The processor is given away to the thread that has waited longest, and to
\* the idle thread only when nobody waits.
NoIdlingPastWork ==
  [][current' # current /\ current' = IdlePage /\ idle_thread # NULL
       => \A t \in Threads \ {current} : status[t] # "READY" \/ t = IdlePage]_schedVars

\* Preemption works: a thread that is ready gets the processor, whatever the
\* running thread does and without its help.
ReadyRuns ==
  \A t \in Threads \ {IdlePage} : status[t] = "READY" ~> status[t] = "RUNNING"

=============================================================================
