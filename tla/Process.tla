------------------------------ MODULE Process ------------------------------
(***************************************************************************)
(* The life cycle of processes, userprog/process.c with the system calls   *)
(* exec, wait and exit: a parent and a child meet over fields of their     *)
(* struct threads, two semaphores, the list of a parent's live children    *)
(* and the list of what its dead children left, none under a lock.         *)
(*                                                                         *)
(* Threads are interleaved at every access to memory another thread may    *)
(* use: preemption can strike anywhere (Scheduler, Synch).  Memory is      *)
(* explicit.  A struct thread lives in a page; a page that is freed is     *)
(* filled with 0xcc (palloc_free_multiple) until thread_create takes it    *)
(* again, and whoever still has a pointer to it reads, and writes, what is *)
(* there.  Following NULL or a pointer made of 0xcc faults in the kernel,  *)
(* which panics (exception.c); so does a failed ASSERT.                    *)
(***************************************************************************)
EXTENDS Integers, Sequences, FiniteSets, SequencesExt

CONSTANTS
  Pages,      \* the pages struct threads live in
  main,       \* the page of the initial thread: no user process, never freed
  NULL,
  POISON,     \* a pointer read from a freed page
  Statuses,   \* the statuses programs exit with; a killed one exits with -1
  MaxTid      \* bound: no thread is created with a greater tid

ASSUME ProcessAssumption ==
  /\ main \in Pages
  /\ NULL \notin Pages /\ POISON \notin Pages /\ NULL # POISON
  /\ Statuses \subseteq Int
  /\ MaxTid \in Nat \ {0}

TID_ERROR == -1
Tids == 3 .. MaxTid   \* 1 is main, 2 the idle thread

\* The nodes of the child lists: the list_elem child_elem of each thread, and
\* the two ends of each thread's child_list.
elem(p) == <<"elem", p>>
head(p) == <<"head", p>>
tail(p) == <<"tail", p>>
Elems   == {elem(p) : p \in Pages}
Nodes   == Elems \cup {head(p) : p \in Pages} \cup {tail(p) : p \in Pages}
Links   == Nodes \cup {NULL, POISON}
page(e) == e[2]

VARIABLES
  th,        \* the struct thread in each page
  next, prev,\* the links of the nodes
  child_f,   \* each thread's child_f, followed forwards: records, by tid
  last_f,    \* what the tail of child_f points back to: a record, or 0 for its head
  rec,       \* the records (struct child_finished_list)
  fr,        \* each thread's place in the kernel and its local variables
  sys_lock,  \* the holder of the system call lock
  next_tid,
  panic,     \* the kernel has stopped
  loaded,    \* history: whether each process's program could be loaded
  outcome,   \* history: what each process exited with
  due        \* history: the pids exec has returned and wait has given no status for

mem  == <<th, next, prev, child_f, last_f, rec>>
hist == <<loaded, outcome, due>>
vars == <<mem, fr, sys_lock, next_tid, panic, hist>>

\* The struct thread init_thread leaves, and what is read from a freed page.
NewThread(tid) ==
  [tid |-> tid, parent |-> NULL, pagedir |-> FALSE, finished |-> FALSE,
   already_wait |-> FALSE, wait |-> 0, wait_c |-> 0, waiters |-> <<>>]

Freed == [NewThread(0) EXCEPT !.parent = POISON, !.pagedir = TRUE, !.finished = TRUE,
            !.already_wait = TRUE, !.wait = 1, !.wait_c = 1]

Live(p) == fr[p].pc # "free"

Labels ==
  { "free", "run",
    "find", "link", "exec_down", "exec_check", "exec_ret",   \* process_execute
    "load", "load_up",                                  \* start_process
    "look", "next", "claim", "mark", "test", "sleep", "asleep", "collect", "wait_ret", \* process_wait
    "pop", "pop2", "orphan", "orphan2", "unlink", "unlink2", "record", "push", "push2",
    "up", "finish", "die" }                             \* process_exit, thread_exit

\* A thread's place, the tid it was created with, and the local variables of
\* the call it is in: a tid, a page (child_t, rt, cur->parent), a list_elem,
\* another thread's tid or record, the status to exit with.
Frame(l, tid) ==
  [pc |-> l, self |-> tid, pid |-> 0, page |-> NULL, e |-> NULL, r |-> 0, status |-> 0]

NoRecord == [tid |-> 0, exit_inf |-> 0, already_wait |-> FALSE]

Init ==
  /\ th = [p \in Pages |-> IF p = main THEN NewThread(1) ELSE Freed]
  /\ next = [n \in Nodes |-> CASE n = head(main) -> tail(main)
                               [] n \in {elem(main), tail(main)} -> NULL
                               [] OTHER -> POISON]
  /\ prev = [n \in Nodes |-> CASE n = tail(main) -> head(main)
                               [] n \in {elem(main), head(main)} -> NULL
                               [] OTHER -> POISON]
  /\ child_f = [p \in Pages |-> <<>>]
  /\ last_f = [p \in Pages |-> IF p = main THEN 0 ELSE POISON]
  /\ rec = [t \in Tids |-> NoRecord]
  /\ fr = [p \in Pages |-> IF p = main THEN Frame("run", 1) ELSE Frame("free", 0)]
  /\ sys_lock = NULL
  /\ next_tid = 3
  /\ panic = FALSE
  /\ loaded = [t \in Tids |-> "unknown"]
  /\ outcome = [t \in Tids |-> NULL]
  /\ due = [p \in Pages |-> {}]

-----------------------------------------------------------------------------
(* Building blocks *)

at(p, l) == fr[p].pc = l
goto(p, l) == fr' = [fr EXCEPT ![p].pc = l]

Panic == panic' = TRUE /\ UNCHANGED <<mem, fr, sys_lock, next_tid, hist>>

is_interior(e) == e \in Nodes /\ next[e] # NULL /\ prev[e] # NULL

\* list_remove (e), one store at a time, ASSERT included.
unlinkable(e) == is_interior(e) /\ prev[e] \in Nodes
unlink_next(e) == next' = [next EXCEPT ![prev[e]] = next[e]]
unlink_prev(e) == prev' = [prev EXCEPT ![next[e]] = prev[e]]

\* The call about x is about to return v to the program.
answer(p, l, x, v) ==
  fr' = [fr EXCEPT ![p] = [Frame(l, @.self) EXCEPT !.pid = x, !.status = v]]

\* exit (status) or the kernel's exit (-1), up to the loop that frees the
\* records of child_f.
exiting(p, status) ==
  /\ rec' = [r \in Tids |-> IF Contains(child_f[p], r) THEN NoRecord ELSE rec[r]]
  /\ child_f' = [child_f EXCEPT ![p] = <<>>]
  /\ last_f' = [last_f EXCEPT ![p] = IF child_f[p] = <<>> THEN @ ELSE 0]
  /\ outcome' = [outcome EXCEPT ![fr[p].self] = status]
  /\ fr' = [fr EXCEPT ![p] = [Frame("pop", @.self) EXCEPT !.status = status]]

-----------------------------------------------------------------------------
(* exec and process_execute *)

\* lock_acquire (&sys_lock), except in main, and thread_create in page c.
\* The walk of find_thread through all_list has come to thread u when the
\* caller is next preempted.
execute(p, c, u) ==
  /\ at(p, "run")
  /\ next_tid <= MaxTid
  /\ ~ Live(c)
  /\ Live(u)
  /\ fr[p].pid = 0
  /\ IF p = main THEN UNCHANGED sys_lock ELSE sys_lock = NULL /\ sys_lock' = p
  /\ th' = [th EXCEPT ![c] = NewThread(next_tid)]
  /\ next' = [next EXCEPT ![elem(c)] = NULL, ![head(c)] = tail(c), ![tail(c)] = NULL]
  /\ prev' = [prev EXCEPT ![elem(c)] = NULL, ![head(c)] = NULL, ![tail(c)] = head(c)]
  /\ child_f' = [child_f EXCEPT ![c] = <<>>]
  /\ last_f' = [last_f EXCEPT ![c] = 0]
  /\ next_tid' = next_tid + 1
  /\ fr' = [fr EXCEPT ![c] = Frame("load", next_tid),
                      ![p].pc = "find", ![p].pid = next_tid, ![p].page = c,
                      ![p].r = fr[u].self]
  /\ UNCHANGED <<rec, panic, hist>>

\* No page for the copy of the command line or for the thread: TID_ERROR.  The
\* pool has other users, so it may be empty whenever it is asked.
execute_fails(p) ==
  /\ at(p, "run") /\ p # main
  /\ sys_lock = NULL
  /\ answer(p, "exec_ret", 0, TID_ERROR)
  /\ UNCHANGED <<mem, sys_lock, next_tid, panic, hist>>

\* find_thread, then the first stores of list_push_back on child_list.
find(p) ==
  LET c == fr[p].page
      last == prev[tail(p)]
  IN  /\ at(p, "find")
      /\ IF /\ \E u \in Pages : Live(u) /\ fr[u].self = fr[p].r
            /\ th[c].tid = fr[p].pid
            /\ last \in Nodes
         THEN /\ prev' = [prev EXCEPT ![elem(c)] = last]
              /\ next' = [next EXCEPT ![elem(c)] = tail(p), ![last] = elem(c)]
              /\ fr' = [fr EXCEPT ![p].pc = "link", ![p].r = 0]
              /\ UNCHANGED <<th, child_f, last_f, rec, sys_lock, next_tid, panic, hist>>
         ELSE Panic

\* The last store of list_push_back, and child_t->parent = t.
link(p) ==
  /\ at(p, "link")
  /\ prev' = [prev EXCEPT ![tail(p)] = elem(fr[p].page)]
  /\ th' = [th EXCEPT ![fr[p].page].parent = p]
  /\ goto(p, "exec_down")
  /\ UNCHANGED <<next, child_f, last_f, rec, sys_lock, next_tid, panic, hist>>

\* Mutant: nobody waits for the load.
exec_down_missing(p) ==
  /\ at(p, "exec_down")
  /\ goto(p, "exec_check")
  /\ UNCHANGED <<mem, sys_lock, next_tid, panic, hist>>

\* sema_down (&t->wait)
exec_down(p) ==
  /\ at(p, "exec_down")
  /\ th[p].wait > 0
  /\ th' = [th EXCEPT ![p].wait = @ - 1]
  /\ goto(p, "exec_check")
  /\ UNCHANGED <<next, prev, child_f, last_f, rec, sys_lock, next_tid, panic, hist>>

\* The test of child_t->tid; the system call then releases sys_lock.
exec_check(p) ==
  /\ at(p, "exec_check")
  /\ answer(p, "exec_ret", fr[p].pid,
            IF th[fr[p].page].tid = TID_ERROR THEN TID_ERROR ELSE fr[p].pid)
  /\ sys_lock' = IF p = main THEN sys_lock ELSE NULL
  /\ UNCHANGED <<mem, next_tid, panic, hist>>

\* Back in the program, or in main, which keeps the result to wait for it.
exec_return(p) ==
  LET v == fr[p].status
  IN  /\ at(p, "exec_ret")
      /\ fr' = [fr EXCEPT ![p] = [Frame("run", @.self) EXCEPT !.pid = IF p = main THEN v ELSE 0]]
      /\ due' = [due EXCEPT ![p] = @ \cup ({v} \ {TID_ERROR})]
      /\ loaded' = [t \in Tids |-> IF t = fr[p].pid THEN "unknown" ELSE loaded[t]]
      /\ UNCHANGED <<mem, sys_lock, next_tid, panic, outcome>>

-----------------------------------------------------------------------------
(* start_process *)

\* load and set_arg.
load(c) ==
  /\ at(c, "load")
  /\ \E ok \in BOOLEAN :
       /\ th' = [th EXCEPT ![c].pagedir = TRUE, ![c].tid = IF ok THEN @ ELSE TID_ERROR]
       /\ loaded' = [loaded EXCEPT ![fr[c].self] = IF ok THEN "yes" ELSE "no"]
  /\ goto(c, "load_up")
  /\ UNCHANGED <<next, prev, child_f, last_f, rec, sys_lock, next_tid, panic, outcome, due>>

\* Mutant: both sema_ups of start_process are executed.
load_up_twice(c) ==
  LET parent == th[c].parent
      ok     == th[c].tid # TID_ERROR
  IN  /\ at(c, "load_up")
      /\ parent \in Pages
      /\ th' = [th EXCEPT ![parent].wait = @ + 2]
      /\ IF ok THEN goto(c, "run") /\ UNCHANGED <<child_f, last_f, rec, outcome>>
               ELSE exiting(c, -1)
      /\ UNCHANGED <<next, prev, sys_lock, next_tid, panic, loaded, due>>

\* Mutant: a child that could not load does not tell its parent.
load_up_on_success(c) ==
  LET parent == th[c].parent
      ok     == th[c].tid # TID_ERROR
  IN  /\ at(c, "load_up")
      /\ parent \in Pages
      /\ th' = IF ok THEN [th EXCEPT ![parent].wait = @ + 1] ELSE th
      /\ IF ok THEN goto(c, "run") /\ UNCHANGED <<child_f, last_f, rec, outcome>>
               ELSE exiting(c, -1)
      /\ UNCHANGED <<next, prev, sys_lock, next_tid, panic, loaded, due>>

\* sema_up (&t->parent->wait), then the program, or exit (-1).
load_up(c) ==
  LET parent == th[c].parent
      ok     == th[c].tid # TID_ERROR
  IN  /\ at(c, "load_up")
      /\ IF parent \in Pages
         THEN /\ th' = [th EXCEPT ![parent].wait = @ + 1]
              /\ IF ok THEN goto(c, "run") /\ UNCHANGED <<child_f, last_f, rec, outcome>>
                       ELSE exiting(c, -1)
              /\ UNCHANGED <<next, prev, sys_lock, next_tid, panic, loaded, due>>
         ELSE Panic

-----------------------------------------------------------------------------
(* wait and process_wait *)

\* The first record about thread x that can be reached from child_f, or 0.
record_of(p, x) ==
  LET hits == SelectSeq(child_f[p], LAMBDA r : rec[r].tid = x)
  IN  IF hits = <<>> THEN 0 ELSE hits[1]

\* The search through child_f; the one through child_list starts.
wait(p, x) ==
  /\ at(p, "run")
  /\ p = main => x = fr[p].pid
  /\ fr' = [fr EXCEPT ![p].pc = "look", ![p].pid = x, ![p].r = record_of(p, x),
                      ![p].e = next[head(p)]]
  /\ UNCHANGED <<mem, sys_lock, next_tid, panic, hist>>

\* One turn of the search through child_list; at its end with no child found,
\* a record decides.
look(p) ==
  LET e == fr[p].e
      r == fr[p].r
  IN  /\ at(p, "look")
      /\ \/ /\ e = tail(p)
            /\ answer(p, "wait_ret", fr[p].pid,
                      IF r = 0 THEN -1 ELSE IF rec[r].already_wait THEN -1 ELSE rec[r].exit_inf)
            /\ UNCHANGED <<mem, sys_lock, next_tid, panic, hist>>
         \/ /\ e \in Elems
            /\ IF th[page(e)].tid = fr[p].pid
               THEN fr' = [fr EXCEPT ![p].pc = "claim", ![p].page = page(e), ![p].e = NULL, ![p].r = 0]
               ELSE goto(p, "next")
            /\ UNCHANGED <<mem, sys_lock, next_tid, panic, hist>>
         \/ e \notin Elems \cup {tail(p)} /\ Panic

\* list_next
advance(p) ==
  /\ at(p, "next")
  /\ IF is_interior(fr[p].e)
     THEN /\ fr' = [fr EXCEPT ![p].pc = "look", ![p].e = next[@]]
          /\ UNCHANGED <<mem, sys_lock, next_tid, panic, hist>>
     ELSE Panic

\* The test of rt->already_wait
claim(p) ==
  /\ at(p, "claim")
  /\ IF th[fr[p].page].already_wait
     THEN answer(p, "wait_ret", fr[p].pid, -1)
     ELSE goto(p, "mark")
  /\ UNCHANGED <<mem, sys_lock, next_tid, panic, hist>>

mark(p) ==
  /\ at(p, "mark")
  /\ th' = [th EXCEPT ![fr[p].page].already_wait = TRUE]
  /\ goto(p, "test")
  /\ UNCHANGED <<next, prev, child_f, last_f, rec, sys_lock, next_tid, panic, hist>>

\* The test of rt->finished
test(p) ==
  /\ at(p, "test")
  /\ IF th[fr[p].page].finished
     THEN fr' = [fr EXCEPT ![p].pc = "collect", ![p].page = NULL]
     ELSE goto(p, "sleep")
  /\ UNCHANGED <<mem, sys_lock, next_tid, panic, hist>>

\* One round of sema_down (&rt->wait_c).  In a freed page the value is some
\* three thousand million.
sleep(p) ==
  LET rt == fr[p].page
  IN  /\ at(p, "sleep")
      /\ IF th[rt].wait_c = 0
         THEN th' = [th EXCEPT ![rt].waiters = Append(@, p)] /\ goto(p, "asleep")
         ELSE /\ th' = IF Live(rt) THEN [th EXCEPT ![rt].wait_c = @ - 1] ELSE th
              /\ fr' = [fr EXCEPT ![p].pc = "collect", ![p].page = NULL]
      /\ UNCHANGED <<next, prev, child_f, last_f, rec, sys_lock, next_tid, panic, hist>>

\* The second search through child_f: without a match tt is the last record.
collect(p) ==
  LET x == fr[p].pid
      r == IF record_of(p, x) # 0 THEN record_of(p, x) ELSE Last(child_f[p])
  IN  /\ at(p, "collect")
      /\ IF child_f[p] = <<>>
         THEN Panic
         ELSE /\ answer(p, "wait_ret", x, rec[r].exit_inf)
              /\ UNCHANGED <<mem, sys_lock, next_tid, panic, hist>>

wait_return(p) ==
  /\ at(p, "wait_ret")
  /\ fr' = [fr EXCEPT ![p] = Frame("run", @.self)]
  /\ due' = [due EXCEPT ![p] = IF fr[p].status = -1 THEN @ ELSE @ \ {fr[p].pid}]
  /\ UNCHANGED <<mem, sys_lock, next_tid, panic, loaded, outcome>>

-----------------------------------------------------------------------------
(* exit, process_exit and the end of thread_exit *)

exit(p, status) ==
  /\ at(p, "run")
  /\ p # main
  /\ exiting(p, status)
  /\ UNCHANGED <<th, next, prev, sys_lock, next_tid, panic, loaded, due>>

\* child_list loses its front: list_pop_front is list_remove.
pop(p) ==
  LET e == next[head(p)]
  IN  /\ at(p, "pop")
      /\ \/ /\ e = tail(p)
            /\ goto(p, "unlink")
            /\ UNCHANGED <<mem, sys_lock, next_tid, panic, hist>>
         \/ /\ e # tail(p) /\ unlinkable(e)
            /\ unlink_next(e)
            /\ fr' = [fr EXCEPT ![p].pc = "pop2", ![p].e = e]
            /\ UNCHANGED <<th, prev, child_f, last_f, rec, sys_lock, next_tid, panic, hist>>
         \/ e # tail(p) /\ ~ unlinkable(e) /\ Panic

\* The second store of list_remove (e), then l.
unlink_done(p, e, l) ==
  IF next[e] \in Nodes
  THEN /\ unlink_prev(e)
       /\ goto(p, l)
       /\ UNCHANGED <<th, next, child_f, last_f, rec, sys_lock, next_tid, panic, hist>>
  ELSE Panic

pop2(p) == at(p, "pop2") /\ unlink_done(p, fr[p].e, "orphan")

\* Is the child still running?
orphan(p) ==
  LET c == th[page(fr[p].e)]
  IN  /\ at(p, "orphan")
      /\ IF c.pagedir /\ ~ c.finished
         THEN goto(p, "orphan2")
         ELSE fr' = [fr EXCEPT ![p].pc = "pop", ![p].e = NULL]
      /\ UNCHANGED <<mem, sys_lock, next_tid, panic, hist>>

\* Then it is told that it has no parent.
orphan2(p) ==
  /\ at(p, "orphan2")
  /\ th' = [th EXCEPT ![page(fr[p].e)].parent = NULL]
  /\ fr' = [fr EXCEPT ![p].pc = "pop", ![p].e = NULL]
  /\ UNCHANGED <<next, prev, child_f, last_f, rec, sys_lock, next_tid, panic, hist>>

\* list_remove (&cur->child_elem)
unlink(p) ==
  /\ at(p, "unlink")
  /\ IF unlinkable(elem(p))
     THEN /\ unlink_next(elem(p))
          /\ goto(p, "unlink2")
          /\ UNCHANGED <<th, prev, child_f, last_f, rec, sys_lock, next_tid, panic, hist>>
     ELSE Panic

unlink2(p) == at(p, "unlink2") /\ unlink_done(p, elem(p), "record")

\* A record is filled, unless there is no parent to give it to.
record(p) ==
  /\ at(p, "record")
  /\ IF th[p].parent = NULL
     THEN goto(p, "up") /\ UNCHANGED rec
     ELSE /\ rec' = [rec EXCEPT ![fr[p].self] =
                       [tid |-> th[p].tid, exit_inf |-> fr[p].status,
                        already_wait |-> th[p].already_wait]]
          /\ fr' = [fr EXCEPT ![p].pc = "push", ![p].page = th[p].parent]
  /\ UNCHANGED <<th, next, prev, child_f, last_f, sys_lock, next_tid, panic, hist>>

\* list_push_back on the parent's child_f: the link from the last record.
push(p) ==
  LET q    == fr[p].page
      last == last_f[q]
      i    == IF last = 0 THEN 0 ELSE SelectInSeq(child_f[q], LAMBDA r : r = last)
  IN  /\ at(p, "push")
      /\ IF last = POISON
         THEN Panic
         ELSE /\ child_f' = IF last # 0 /\ i = 0 THEN child_f
                            ELSE [child_f EXCEPT ![q] = Append(SubSeq(@, 1, i), fr[p].self)]
              /\ goto(p, "push2")
              /\ UNCHANGED <<th, next, prev, last_f, rec, sys_lock, next_tid, panic, hist>>

\* The link from the tail.
push2(p) ==
  /\ at(p, "push2")
  /\ last_f' = [last_f EXCEPT ![fr[p].page] = fr[p].self]
  /\ fr' = [fr EXCEPT ![p].pc = "up", ![p].page = NULL]
  /\ UNCHANGED <<th, next, prev, child_f, rec, sys_lock, next_tid, panic, hist>>

\* if (cur->already_wait) sema_up (&cur->wait_c)
up(p) ==
  LET w == th[p].waiters
  IN  /\ at(p, "up")
      /\ IF ~ th[p].already_wait
         THEN goto(p, "finish") /\ UNCHANGED th
         ELSE /\ th' = [th EXCEPT ![p].wait_c = @ + 1, ![p].waiters = IF w = <<>> THEN w ELSE Tail(w)]
              /\ fr' = [q \in Pages |-> CASE q = p -> [fr[p] EXCEPT !.pc = "finish"]
                                          [] w # <<>> /\ q = w[1] -> [fr[q] EXCEPT !.pc = "sleep"]
                                          [] OTHER -> fr[q]]
      /\ UNCHANGED <<next, prev, child_f, last_f, rec, sys_lock, next_tid, panic, hist>>

finish(p) ==
  /\ at(p, "finish")
  /\ th' = [th EXCEPT ![p].finished = TRUE, ![p].pagedir = FALSE]
  /\ goto(p, "die")
  /\ UNCHANGED <<next, prev, child_f, last_f, rec, sys_lock, next_tid, panic, hist>>

\* The thread is off all_list and its page freed by the next one to run.
die(p) ==
  /\ at(p, "die")
  /\ th' = [th EXCEPT ![p] = Freed]
  /\ next' = [n \in Nodes |-> IF page(n) = p THEN POISON ELSE next[n]]
  /\ prev' = [n \in Nodes |-> IF page(n) = p THEN POISON ELSE prev[n]]
  /\ child_f' = [child_f EXCEPT ![p] = <<>>]
  /\ last_f' = [last_f EXCEPT ![p] = POISON]
  /\ fr' = [fr EXCEPT ![p] = Frame("free", 0)]
  /\ due' = [due EXCEPT ![p] = {}]
  /\ UNCHANGED <<rec, sys_lock, next_tid, panic, loaded, outcome>>

-----------------------------------------------------------------------------
\* What a program, or main, asks for.  main waits for what it executes.
Call(p) ==
  \/ \E c, u \in Pages : execute(p, c, u)
  \/ execute_fails(p)
  \/ \E x \in {-1} \cup 3 .. next_tid - 1 : wait(p, x)
  \/ \E status \in Statuses \cup {-1} : exit(p, status)

\* What a thread does in the kernel.
KernelStep(p) ==
  \/ find(p) \/ link(p) \/ exec_down(p) \/ exec_check(p) \/ exec_return(p)
  \/ load(p) \/ load_up(p)
  \/ look(p) \/ advance(p) \/ claim(p) \/ mark(p) \/ test(p) \/ sleep(p) \/ collect(p)
  \/ wait_return(p)
  \/ pop(p) \/ pop2(p) \/ orphan(p) \/ orphan2(p) \/ unlink(p) \/ unlink2(p)
  \/ record(p) \/ push(p) \/ push2(p) \/ up(p) \/ finish(p) \/ die(p)

Next == ~ panic /\ \E p \in Pages : Call(p) \/ KernelStep(p)

Spec == Init /\ [][Next]_vars

\* Round robin with time slices: a thread that can go on in the kernel does.
FairSpec == Spec /\ \A p \in Pages : WF_vars(~ panic /\ KernelStep(p))

-----------------------------------------------------------------------------
(* Properties *)

ProcessTypeOK ==
  /\ th \in [Pages -> [tid : Tids \cup {-1, 0, 1}, parent : Pages \cup {NULL, POISON},
                       pagedir : BOOLEAN, finished : BOOLEAN, already_wait : BOOLEAN,
                       wait : 0 .. 1, wait_c : 0 .. 1, waiters : Seq(Pages)]]
  /\ next \in [Nodes -> Links] /\ prev \in [Nodes -> Links]
  /\ child_f \in [Pages -> Seq(Tids)]
  /\ last_f \in [Pages -> Tids \cup {0, POISON}]
  /\ sys_lock \in Pages \cup {NULL}
  /\ \A p \in Pages : fr[p].pc \in Labels

\* The two sides of exec meet: a child raises its parent's semaphore only
\* while the parent is in the sema_down for this very child, so the page is
\* there and the unit is not taken for another child's.
LoadHandshake ==
  \A c \in Pages : at(c, "load_up") /\ th[c].parent # NULL =>
    LET p == th[c].parent
    IN  at(p, "exec_down") /\ fr[p].page = c /\ th[p].wait = 0

\* exec does not return until it is known whether the program could be loaded
\* (doc/userprog.texi on exec).
ExecKnows ==
  \A p \in Pages : at(p, "exec_check") => loaded[fr[p].pid] # "unknown"

Result(p) == fr[p].status

\* wait for a child returns what the child exited with (doc/userprog.texi on
\* wait).
WaitTellsStatus ==
  \A p \in Pages : at(p, "wait_ret") /\ fr[p].pid \in due[p] => Result(p) = outcome[fr[p].pid]

\* The new thread may run, and even exit, before process_execute returns (the
\* comment above process_execute): the kernel survives it.
NoPanic == ~ panic

InExec(p) == fr[p].pc \in {"find", "link", "exec_down", "exec_check"}
InWait(p) == fr[p].pc \in {"look", "next", "claim", "mark", "test", "sleep", "asleep", "collect"}

\* exec returns, unless the kernel panics.
ExecReturns == \A p \in Pages : InExec(p) ~> panic \/ ~ InExec(p)

\* wait for a process that is gone returns (doc/userprog.texi on wait).
WaitReturns ==
  \A p \in Pages, x \in Tids :
    /\ InWait(p) /\ fr[p].pid = x
    /\ next_tid > x /\ \A c \in Pages : fr[c].self # x
    ~> panic \/ ~ InWait(p)

=============================================================================
