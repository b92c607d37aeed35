--------------------------- MODULE ProcessProofs ---------------------------
(***************************************************************************)
(* Proofs about Process, for any number of pages and of processes: the     *)
(* types, and the two safety properties of exec.  PInv is inductive: the   *)
(* types of memory and of the frames (TypeInv), which threads exist and    *)
(* where they can be (PlaceInv), who sleeps on a child's wait_c (SleepInv) *)
(* and how a parent in process_execute and its child in start_process are  *)
(* tied together (ExecInv).                                                *)
(***************************************************************************)
EXTENDS Process, WellFoundedInduction, TLAPS

ExecLabels == {"find", "link", "exec_down", "exec_check", "exec_ret"}
LoadLabels == {"load", "load_up"}
ExitLabels == {"pop", "pop2", "orphan", "orphan2", "unlink", "unlink2", "record", "push",
               "push2", "up", "finish", "die"}
WaitLabels == {"run", "look", "next", "claim", "mark", "test", "sleep", "asleep", "collect",
               "wait_ret"}

Threads ==
  [tid : Tids \cup {-1, 0, 1}, parent : Pages \cup {NULL, POISON},
   pagedir : BOOLEAN, finished : BOOLEAN, already_wait : BOOLEAN,
   wait : Nat, wait_c : Nat, waiters : Seq(Pages)]

\* Frames; the tids and statuses they hold are values of V.
Frames(V) ==
  [pc : Labels, self : Nat, pid : V, page : Pages \cup {NULL, POISON}, e : Links,
   r : V, status : V]

FramesTyped == \E V : fr \in [Pages -> Frames(V)]

ListsTyped ==
  /\ next \in [Nodes -> Links] /\ prev \in [Nodes -> Links]
  /\ child_f \in [Pages -> Seq(Tids)]
  /\ last_f \in [Pages -> Tids \cup {0, POISON}]

TypeInv ==
  /\ th \in [Pages -> Threads]
  /\ ListsTyped
  /\ FramesTyped
  /\ sys_lock \in Pages \cup {NULL}
  /\ next_tid \in Nat /\ next_tid >= 3
  /\ loaded \in [Tids -> {"unknown", "yes", "no"}]

\* Threads are named by their tids; main neither starts nor exits.
PlaceInv ==
  /\ \A p \in Pages : Live(p) => fr[p].self < next_tid /\ (p # main => fr[p].self \in Tids)
  /\ \A p, q \in Pages : Live(p) /\ Live(q) /\ fr[p].self = fr[q].self => p = q
  /\ fr[main].pc \in ExecLabels \cup WaitLabels /\ fr[main].self = 1
  /\ \A p \in Pages : at(p, "pop2") => fr[p].e \in Nodes

\* A thread in a list of waiters sleeps there, and nowhere else; a child
\* raises wait_c once.
SleepInv ==
  \A p \in Pages :
    /\ \A i \in 1 .. Len(th[p].waiters) :
         at(th[p].waiters[i], "asleep") /\ fr[th[p].waiters[i]].page = p
    /\ \A i, j \in 1 .. Len(th[p].waiters) : th[p].waiters[i] = th[p].waiters[j] => i = j
    /\ th[p].wait_c \in 0 .. 1
    /\ Live(p) /\ fr[p].pc \notin {"finish", "die"} => th[p].wait_c = 0

Starting(c) == fr[c].pc \in LoadLabels

\* p has created a child that has not told it how its load went; the child has.
Awaiting(p) == fr[p].pc \in {"find", "link"} \/ (at(p, "exec_down") /\ th[p].wait = 0)
Told(p)     == fr[p].pc \in {"exec_check", "exec_ret"} \/ (at(p, "exec_down") /\ th[p].wait # 0)

\* Conjuncts of ExecInv.  A parent awaits the child in its page, alone; the
\* child's pointer leads to a parent that sleeps for it; the unit of the
\* semaphore is there for that sleep only.
AwaitsChild ==
  \A p \in Pages : Awaiting(p) => /\ fr[p].page \in Pages /\ Starting(fr[p].page)
                                  /\ fr[p].pid = fr[fr[p].page].self
AwaitsAlone ==
  \A p, q \in Pages : Awaiting(p) /\ Awaiting(q) /\ fr[p].page = fr[q].page => p = q
KnowsParent ==
  \A c \in Pages : Starting(c) /\ th[c].parent # NULL =>
    /\ th[c].parent \in Pages /\ at(th[c].parent, "exec_down")
    /\ th[th[c].parent].wait = 0 /\ fr[th[c].parent].page = c
OneUnit ==
  \A p \in Pages : th[p].wait \in 0 .. 1 /\ (Live(p) /\ th[p].wait = 1 => at(p, "exec_down"))

\* The load of a child is decided once it has been told of; a tid that exec is
\* about to return is nobody else's.
LoadDecided ==
  /\ \A c \in Pages : at(c, "load_up") => loaded[fr[c].self] # "unknown"
  /\ \A p \in Pages : Told(p) /\ ~ at(p, "exec_ret") => loaded[fr[p].pid] # "unknown"
TidsApart ==
  /\ \A p \in Pages : fr[p].pc \in ExecLabels => /\ fr[p].pid \in Nat /\ fr[p].pid < next_tid
                                                 /\ ~ at(p, "exec_ret") => fr[p].pid \in Tids
  /\ \A p, q \in Pages :
       fr[p].pc \in ExecLabels /\ fr[q].pc \in ExecLabels /\ fr[p].pid = fr[q].pid /\ fr[p].pid # 0
       => p = q
  /\ \A p, c \in Pages : Told(p) /\ Starting(c) => fr[p].pid # fr[c].self

ExecInv == AwaitsChild /\ AwaitsAlone /\ KnowsParent /\ OneUnit /\ LoadDecided /\ TidsApart

PInv == TypeInv /\ PlaceInv /\ SleepInv /\ ExecInv

-----------------------------------------------------------------------------
(* Lemmas about frames *)

\* The fields of a frame have their types.
LEMMA FrameShape ==
  ASSUME FramesTyped, NEW p \in Pages
  PROVE  /\ fr[p].pc \in Labels /\ fr[p].self \in Nat /\ fr[p].e \in Links
         /\ fr[p].page \in Pages \cup {NULL, POISON}
BY DEF FramesTyped, Frames

\* Thread p goes to l, and keeps its tid; the others' frames stay.
StepsTo(p, l) ==
  /\ FramesTyped'
  /\ fr'[p].pc = l /\ fr'[p].self = fr[p].self
  /\ \A q \in Pages : q # p => fr'[q] = fr[q]

LEMMA GotoSteps ==
  ASSUME FramesTyped, NEW p \in Pages, NEW l \in Labels, goto(p, l)
  PROVE  StepsTo(p, l) /\ fr'[p] = [fr[p] EXCEPT !.pc = l]
<1>1. PICK V : fr \in [Pages -> Frames(V)]
  BY DEF FramesTyped
<1>2. fr' \in [Pages -> Frames(V)]
  BY <1>1 DEF goto, Frames
<1> QED BY <1>1, <1>2 DEF StepsTo, FramesTyped, goto, Frames

\* The local variables of p become x, g, e and r.
sets(p, l, x, g, e, r) ==
  fr' = [fr EXCEPT ![p] = [@ EXCEPT !.pc = l, !.pid = x, !.page = g, !.e = e, !.r = r]]

LEMMA SetSteps ==
  ASSUME FramesTyped, NEW p \in Pages, NEW l \in Labels, NEW x, NEW g \in Pages \cup {NULL, POISON},
         NEW e \in Links, NEW r, sets(p, l, x, g, e, r)
  PROVE  /\ StepsTo(p, l)
         /\ fr'[p].pid = x /\ fr'[p].page = g /\ fr'[p].e = e
<1>1. PICK V : fr \in [Pages -> Frames(V)]
  BY DEF FramesTyped
<1> DEFINE W == V \cup {x, r}
<1>2. fr' \in [Pages -> Frames(W)]
  BY <1>1 DEF sets, Frames
<1> HIDE DEF W
<1>3. FramesTyped'
  BY <1>2 DEF FramesTyped
<1> QED BY <1>1, <1>3 DEF StepsTo, sets, Frames

\* The call p is in is over: x and v are its argument and its result.
ends(p, l, x, v) == fr' = [fr EXCEPT ![p] = [Frame(l, @.self) EXCEPT !.pid = x, !.status = v]]

LEMMA EndSteps ==
  ASSUME FramesTyped, NEW p \in Pages, NEW l \in Labels, NEW x, NEW v, ends(p, l, x, v)
  PROVE  StepsTo(p, l) /\ fr'[p].pid = x /\ fr'[p].status = v
<1>1. PICK V : fr \in [Pages -> Frames(V)]
  BY DEF FramesTyped
<1> DEFINE W == V \cup {0, x, v}
<1>2. fr' \in [Pages -> Frames(W)]
  BY <1>1 DEF ends, Frames, Frame, Links
<1> HIDE DEF W
<1>3. FramesTyped'
  BY <1>2 DEF FramesTyped
<1> QED BY <1>1, <1>3 DEF StepsTo, ends, Frames, Frame

-----------------------------------------------------------------------------
(* Steps in which a thread, in wait, in exit or in its program, moves on    *)

\* The nodes of the lists.
LEMMA NodeFacts ==
  /\ \A p \in Pages : elem(p) \in Nodes /\ head(p) \in Nodes /\ tail(p) \in Nodes
  /\ \A n \in Elems : n \in Nodes /\ page(n) \in Pages
  /\ NULL \in Links /\ Nodes \subseteq Links
BY DEF Elems, Nodes, Links, elem, head, tail, page

\* No thread that changes is in exec or load, and the units of wait stay.
Aside ==
  /\ \A q \in Pages : \/ fr'[q] = fr[q]
                      \/ /\ fr[q].pc \notin ExecLabels \cup LoadLabels \cup {"free"}
                         /\ fr'[q].pc \notin ExecLabels \cup LoadLabels \cup {"free"}
                         /\ fr'[q].self = fr[q].self
                         /\ q = main => fr'[q].pc \in WaitLabels
                         /\ fr'[q].pc = "pop2" => fr'[q].e \in Nodes
  /\ \A q \in Pages : /\ th'[q].wait = th[q].wait
                      /\ th'[q].parent \in {th[q].parent, NULL}
  /\ UNCHANGED <<next_tid, loaded>>

LEMMA AsideKeeps ==
  ASSUME PInv, Aside
  PROVE  PlaceInv' /\ ExecInv'
<1>1. PlaceInv'
  BY ProcessAssumption DEF PInv, PlaceInv, Aside, Live, at, ExecLabels, LoadLabels, WaitLabels
<1>2. \A q \in Pages : /\ Starting(q)' <=> Starting(q)
                       /\ Awaiting(q)' <=> Awaiting(q)
                       /\ Told(q)' <=> Told(q)
                       /\ Starting(q) \/ Awaiting(q) \/ Told(q) => fr'[q] = fr[q]
                       /\ fr'[q].pc \in ExecLabels => fr'[q] = fr[q]
  BY DEF Aside, Starting, Awaiting, Told, at, ExecLabels, LoadLabels
<1>3. AwaitsChild' /\ AwaitsAlone'
  BY <1>2 DEF PInv, ExecInv, AwaitsChild, AwaitsAlone
<1>4. KnowsParent'
  BY <1>2, ProcessAssumption DEF PInv, ExecInv, KnowsParent, Aside, at, ExecLabels
<1>5. OneUnit'
  BY DEF PInv, ExecInv, OneUnit, Aside, at, Live, ExecLabels
<1>6. LoadDecided'
  BY <1>2 DEF PInv, ExecInv, LoadDecided, Aside, at, Starting, LoadLabels
<1>7. TidsApart'
  BY <1>2 DEF PInv, ExecInv, TidsApart, Aside, at
<1> QED BY <1>1, <1>3, <1>4, <1>5, <1>6, <1>7 DEF ExecInv

\* No thread that changes sleeps in wait_c or is about to finish.
Awake ==
  /\ \A q \in Pages : \/ fr'[q] = fr[q]
                      \/ /\ fr[q].pc \notin {"asleep", "free"}
                         /\ fr[q].pc \in {"finish", "die"} => fr'[q].pc \in {"finish", "die"}
  /\ \A q \in Pages : th'[q].wait_c = th[q].wait_c /\ th'[q].waiters = th[q].waiters

LEMMA AwakeKeeps ==
  ASSUME PInv, Awake
  PROVE  SleepInv'
<1>1. ASSUME NEW q \in Pages, NEW i \in 1 .. Len(th[q].waiters)
      PROVE  /\ th[q].waiters[i] \in Pages /\ at(th[q].waiters[i], "asleep")
             /\ fr[th[q].waiters[i]].page = q
  BY DEF PInv, SleepInv, TypeInv, Threads
<1>2. ASSUME NEW q \in Pages, NEW i \in 1 .. Len(th[q].waiters)
      PROVE  fr'[th[q].waiters[i]] = fr[th[q].waiters[i]]
  BY <1>1 DEF Awake, at
<1> QED BY <1>1, <1>2 DEF PInv, SleepInv, Awake, Live, at

\* A step of p alone that leaves the units of the semaphores, and their
\* waiters, as they are.
Moves(p) ==
  /\ fr[p].pc \notin ExecLabels \cup LoadLabels \cup {"free", "asleep"}
  /\ fr'[p].pc \notin ExecLabels \cup LoadLabels \cup {"free", "asleep"}
  /\ fr'[p].self = fr[p].self
  /\ \A q \in Pages : q # p => fr'[q] = fr[q]
  /\ UNCHANGED <<next_tid, loaded>>
  /\ \A q \in Pages : /\ th'[q].wait = th[q].wait /\ th'[q].wait_c = th[q].wait_c
                      /\ th'[q].waiters = th[q].waiters
                      /\ th'[q].parent \in {th[q].parent, NULL}
  /\ p = main => fr'[p].pc \in WaitLabels
  /\ at(p, "pop2")' => fr'[p].e \in Nodes
  /\ fr[p].pc \in {"finish", "die"} => fr'[p].pc \in {"finish", "die"}

LEMMA MovesKeeps ==
  ASSUME PInv, NEW p \in Pages, Moves(p)
  PROVE  PlaceInv' /\ SleepInv' /\ ExecInv'
<1>1. Aside
  BY DEF Moves, Aside, at
<1>2. Awake
  BY DEF Moves, Awake
<1> QED BY <1>1, <1>2, AsideKeeps, AwakeKeeps

\* The steps of wait that leave memory alone.
LEMMA WaitMoves ==
  ASSUME PInv, NEW p \in Pages,
         \/ \E x \in {-1} \cup 3 .. next_tid - 1 : wait(p, x)
         \/ look(p) \/ advance(p) \/ claim(p) \/ test(p) \/ collect(p) \/ wait_return(p),
         ~ Panic
  PROVE  Moves(p) /\ FramesTyped' /\ UNCHANGED <<mem, sys_lock>>
<1> DEFINE Before == {"run", "look", "next", "claim", "test", "collect", "wait_ret"}
           After  == {"look", "next", "claim", "mark", "sleep", "collect", "wait_ret", "run"}
<1>0. /\ FramesTyped /\ NULL \in Links
      /\ \A e \in Links : e \in Elems => page(e) \in Pages
      /\ next \in [Nodes -> Links] /\ head(p) \in Nodes
      /\ fr[p].e \in Links /\ fr[p].page \in Pages \cup {NULL, POISON}
  BY NodeFacts, FrameShape DEF PInv, TypeInv, ListsTyped
<1>1. \A l \in After : l \in Labels
  BY DEF Labels
<1>2. SUFFICES fr[p].pc \in Before /\ \E l \in After : StepsTo(p, l)
  <2>1. UNCHANGED <<mem, sys_lock, next_tid, loaded>>
    BY DEF wait, look, advance, claim, test, collect, wait_return, answer, hist
  <2>2. PICK l \in After : StepsTo(p, l)
    BY <1>2
  <2>3. UNCHANGED th
    BY <2>1 DEF mem
  <2> QED BY <1>2, <2>1, <2>2, <2>3
          DEF Moves, StepsTo, ExecLabels, LoadLabels, WaitLabels, at
<1>3. fr[p].pc \in Before
  BY DEF wait, look, advance, claim, test, collect, wait_return, at
<1>4. ASSUME NEW l \in After, goto(p, l)
      PROVE  StepsTo(p, l)
  BY <1>0, <1>1, <1>4, GotoSteps
<1>5. ASSUME NEW x, NEW v, ends(p, "wait_ret", x, v) \/ ends(p, "run", x, v)
      PROVE  \E l \in After : StepsTo(p, l)
  BY <1>0, <1>1, <1>5, EndSteps
<1>6. ASSUME NEW l \in After, NEW x, NEW g \in Pages \cup {NULL, POISON}, NEW e \in Links, NEW r,
             sets(p, l, x, g, e, r)
      PROVE  StepsTo(p, l)
  BY <1>0, <1>1, <1>6, SetSteps
<1>7. PICK V : fr \in [Pages -> Frames(V)]
  BY <1>0 DEF FramesTyped
<1>8. CASE \E x \in {-1} \cup 3 .. next_tid - 1 : wait(p, x)
  <2>1. PICK x : wait(p, x)
    BY <1>8
  <2>2. sets(p, "look", x, fr[p].page, next[head(p)], record_of(p, x))
    BY <1>7, <2>1 DEF wait, sets, Frames
  <2>3. next[head(p)] \in Links
    BY <1>0
  <2> QED BY <1>0, <1>3, <1>6, <2>2, <2>3
<1>9. CASE look(p)
  <2>1. CASE fr[p].e = tail(p) /\ \E v : answer(p, "wait_ret", fr[p].pid, v)
    BY <1>3, <1>5, <2>1 DEF answer, ends
  <2>2. CASE goto(p, "next")
    BY <1>3, <1>4, <2>2
  <2>3. CASE /\ fr[p].e \in Elems
             /\ fr' = [fr EXCEPT ![p].pc = "claim", ![p].page = page(fr[p].e), ![p].e = NULL, ![p].r = 0]
    <3>1. sets(p, "claim", fr[p].pid, page(fr[p].e), NULL, 0)
      BY <1>7, <2>3 DEF sets, Frames
    <3> QED BY <1>0, <1>3, <1>6, <2>3, <3>1
  <2> QED BY <1>9, <2>1, <2>2, <2>3 DEF look
<1>10. CASE advance(p)
  <2>1. fr[p].e \in Nodes /\ sets(p, "look", fr[p].pid, fr[p].page, next[fr[p].e], fr[p].r)
    BY <1>7, <1>10 DEF advance, is_interior, sets, Frames
  <2>2. next[fr[p].e] \in Links
    BY <1>0, <2>1
  <2> QED BY <1>0, <1>3, <1>6, <2>1, <2>2
<1>11. CASE claim(p)
  BY <1>3, <1>4, <1>5, <1>11 DEF claim, answer, ends
<1>12. CASE test(p)
  <2>1. goto(p, "sleep") \/ sets(p, "collect", fr[p].pid, NULL, fr[p].e, fr[p].r)
    BY <1>7, <1>12 DEF test, sets, Frames
  <2> QED BY <1>0, <1>3, <1>4, <1>6, <2>1
<1>13. CASE collect(p)
  BY <1>3, <1>5, <1>13 DEF collect, answer, ends
<1>14. CASE wait_return(p)
  <2>1. ends(p, "run", 0, 0)
    BY <1>7, <1>14 DEF wait_return, ends, Frames, Frame
  <2> QED BY <1>3, <1>5, <2>1
<1> QED BY <1>8, <1>9, <1>10, <1>11, <1>12, <1>13, <1>14

\* A step that changes the struct threads in fields Moves does not speak of.
SameUnits ==
  \A q \in Pages : /\ th'[q].wait = th[q].wait /\ th'[q].wait_c = th[q].wait_c
                   /\ th'[q].waiters = th[q].waiters
                   /\ th'[q].parent \in {th[q].parent, NULL}

\* The steps of mark and of exit that write to struct threads.
LEMMA ThreadMoves ==
  ASSUME PInv, NEW p \in Pages, mark(p) \/ orphan2(p) \/ finish(p)
  PROVE  th' \in [Pages -> Threads] /\ SameUnits
<1>1. th \in [Pages -> Threads] /\ fr[p].page \in Pages \cup {NULL, POISON}
  BY FrameShape DEF PInv, TypeInv
<1>2. CASE mark(p)
  BY <1>1, <1>2 DEF mark, Threads, SameUnits
<1>3. CASE orphan2(p)
  BY <1>1, <1>3 DEF orphan2, Threads, SameUnits
<1>4. CASE finish(p)
  BY <1>1, <1>4 DEF finish, Threads, SameUnits
<1> QED BY <1>2, <1>3, <1>4

\* The two stores of list_remove keep the links' types.
LEMMA LinkMoves ==
  ASSUME PInv, NEW p \in Pages, pop(p) \/ pop2(p) \/ unlink(p) \/ unlink2(p), ~ Panic
  PROVE  next' \in [Nodes -> Links] /\ prev' \in [Nodes -> Links]
<1>1. /\ next \in [Nodes -> Links] /\ prev \in [Nodes -> Links]
      /\ elem(p) \in Nodes /\ (at(p, "pop2") => fr[p].e \in Nodes)
  BY NodeFacts DEF PInv, TypeInv, ListsTyped, PlaceInv
<1>2. ASSUME NEW e, unlinkable(e), unlink_next(e), prev' = prev
      PROVE  next' \in [Nodes -> Links] /\ prev' \in [Nodes -> Links]
  BY <1>1, <1>2 DEF unlinkable, is_interior, unlink_next
<1>3. ASSUME NEW e \in Nodes, unlink_prev(e), next' = next
      PROVE  next' \in [Nodes -> Links] /\ prev' \in [Nodes -> Links]
  BY <1>1, <1>3 DEF unlink_prev
<1>4. CASE pop(p) \/ unlink(p)
  BY <1>1, <1>2, <1>4 DEF pop, unlink, mem
<1>5. CASE pop2(p) \/ unlink2(p)
  BY <1>1, <1>3, <1>5 DEF pop2, unlink2, unlink_done
<1> QED BY <1>4, <1>5

\* The least of a set of numbers is in the set.
LEMMA LeastInSet ==
  ASSUME NEW I \in SUBSET Nat, I # {}
  PROVE  Min(I) \in I
<1> DEFINE R == {ss \in Nat \X Nat : ss[1] < ss[2]}
<1>1. IsWellFoundedOn(R, Nat)
  BY NatLessThanWellFounded DEF OpToRel
<1>2. PICK x \in I : \A y \in I : ~ (<<y, x>> \in R)
  <2> HIDE DEF R
  <2> QED BY <1>1, WFMin
<1>3. ASSUME NEW y \in I
      PROVE  x =< y
  <2>1. x \in Nat /\ y \in Nat /\ <<y, x>> \in Nat \X Nat
    BY <1>2
  <2>2. y < x => <<y, x>> \in R
    BY <2>1
  <2> QED BY <1>2, <2>1, <2>2
<1> QED BY <1>3 DEF Min

\* A list of records that is cut and continued is a list of records.
LEMMA CutAndAppend ==
  ASSUME NEW s \in Seq(Tids), NEW t \in Tids, NEW i \in 0 .. Len(s)
  PROVE  Append(SubSeq(s, 1, i), t) \in Seq(Tids)
<1>1. SubSeq(s, 1, i) \in Seq(Tids)
  OBVIOUS
<1> QED BY <1>1

\* What push links the record into is a list of records.
LEMMA PushTypes ==
  ASSUME PInv, NEW p \in Pages, push(p), ~ Panic
  PROVE  child_f' \in [Pages -> Seq(Tids)]
<1> DEFINE q == fr[p].page
           I == {j \in 1 .. Len(child_f[q]) : child_f[q][j] = last_f[q]}
           i == IF last_f[q] = 0 THEN 0 ELSE IF I # {} THEN Min(I) ELSE 0
<1>1. child_f \in [Pages -> Seq(Tids)] /\ p # main /\ Live(p)
  BY DEF PInv, TypeInv, ListsTyped, PlaceInv, push, at, ExecLabels, WaitLabels, Live
<1>2. fr[p].self \in Tids
  BY <1>1 DEF PInv, PlaceInv
<1>3. CASE child_f' = child_f
  BY <1>1, <1>3
<1>4. CASE child_f' = [child_f EXCEPT ![q] = Append(SubSeq(@, 1, i), fr[p].self)]
  <2>1. CASE q \notin Pages
    BY <1>1, <1>4, <2>1
  <2>2. CASE q \in Pages
    <3>1. child_f[q] \in Seq(Tids)
      BY <1>1, <2>2
    <3>2. I \in SUBSET Nat /\ I \subseteq 1 .. Len(child_f[q])
      BY <3>1
    <3>3. I # {} => Min(I) \in I
      BY <3>2, LeastInSet
    <3>4. i \in 0 .. Len(child_f[q])
      BY <3>1, <3>2, <3>3
    <3> HIDE DEF i
    <3>5. Append(SubSeq(child_f[q], 1, i), fr[p].self) \in Seq(Tids)
      BY <1>2, <3>1, <3>4, CutAndAppend
    <3> QED BY <1>1, <1>4, <2>2, <3>5
  <2> QED BY <2>1, <2>2
<1> QED BY <1>3, <1>4 DEF push, SelectInSeq

\* exit and load_up leave the frame Frame ("pop").
LEMMA ExitingSteps ==
  ASSUME PInv, NEW p \in Pages, NEW status, exiting(p, status), fr[p].self \in Tids
  PROVE  /\ StepsTo(p, "pop")
         /\ child_f' \in [Pages -> Seq(Tids)] /\ last_f' \in [Pages -> Tids \cup {0, POISON}]
<1>1. FramesTyped /\ child_f \in [Pages -> Seq(Tids)] /\ last_f \in [Pages -> Tids \cup {0, POISON}]
  BY DEF PInv, TypeInv, ListsTyped
<1>2. PICK V : fr \in [Pages -> Frames(V)]
  BY <1>1 DEF FramesTyped
<1> DEFINE W == V \cup {0, status}
<1>3. fr' \in [Pages -> Frames(W)]
  BY <1>2 DEF exiting, Frames, Frame, Links, Labels
<1>4. FramesTyped'
  <2> HIDE DEF W
  <2> QED BY <1>3 DEF FramesTyped
<1>5. StepsTo(p, "pop")
  BY <1>2, <1>4 DEF exiting, StepsTo, Frames, Frame
<1>6. child_f' \in [Pages -> Seq(Tids)]
  <2>1. <<>> \in Seq(Tids)
    OBVIOUS
  <2> QED BY <1>1, <2>1 DEF exiting
<1>7. last_f' \in [Pages -> Tids \cup {0, POISON}]
  BY <1>1 DEF exiting
<1> QED BY <1>5, <1>6, <1>7

\* mark, and the steps of exit up to the raising of wait_c.
LEMMA ExitMoves ==
  ASSUME PInv, NEW p \in Pages,
         \/ mark(p) \/ \E status \in Statuses \cup {-1} : exit(p, status)
         \/ pop(p) \/ pop2(p) \/ orphan(p) \/ orphan2(p) \/ unlink(p) \/ unlink2(p)
         \/ record(p) \/ push(p) \/ push2(p) \/ finish(p),
         ~ Panic
  PROVE  Moves(p) /\ TypeInv'
<1> DEFINE Before == {"mark", "run"} \cup (ExitLabels \ {"up", "die"})
           After  == {"test"} \cup ExitLabels
<1>0. /\ TypeInv /\ ListsTyped /\ FramesTyped /\ NULL \in Links /\ fr[p].page \in Pages \cup {NULL, POISON}
      /\ fr[p].e \in Links
  BY FrameShape, NodeFacts DEF PInv, TypeInv
<1>1. \A l \in After : l \in Labels
  BY DEF Labels, ExitLabels
<1>2. fr[p].pc \in Before
  BY DEF mark, exit, pop, pop2, orphan, orphan2, unlink, unlink2, record, push, push2, finish, at,
         ExitLabels
<1>3. p # main \/ at(p, "mark")
  BY <1>2 DEF PInv, PlaceInv, WaitLabels, ExecLabels, ExitLabels, exit, at, mark,
       pop, pop2, orphan, orphan2, unlink, unlink2, record, push, push2, finish
<1>4. ~ at(p, "mark") => fr[p].self \in Tids
  BY <1>2, <1>3 DEF PInv, PlaceInv, Live, at, ExitLabels
<1>5. UNCHANGED <<sys_lock, next_tid, loaded>>
  BY DEF mark, exit, pop, pop2, orphan, orphan2, unlink, unlink2, record, push, push2, finish,
         unlink_done, mem, hist
<1>6. th' \in [Pages -> Threads] /\ SameUnits
  <2>1. CASE mark(p) \/ orphan2(p) \/ finish(p)
    BY <2>1, ThreadMoves
  <2>2. CASE UNCHANGED th
    BY <1>0, <2>2 DEF TypeInv, SameUnits
  <2> QED BY <2>1, <2>2
          DEF exit, exiting, pop, pop2, orphan, unlink, unlink2, record, push, push2, unlink_done, mem
<1>7. next' \in [Nodes -> Links] /\ prev' \in [Nodes -> Links]
  <2>1. CASE pop(p) \/ pop2(p) \/ unlink(p) \/ unlink2(p)
    BY <2>1, LinkMoves
  <2>2. CASE UNCHANGED <<next, prev>>
    BY <1>0, <2>2 DEF ListsTyped
  <2> QED BY <2>1, <2>2
          DEF mark, exit, orphan, orphan2, record, push, push2, finish, mem
<1>8. child_f' \in [Pages -> Seq(Tids)] /\ last_f' \in [Pages -> Tids \cup {0, POISON}]
  <2>1. CASE \E status \in Statuses \cup {-1} : exit(p, status)
    BY <1>2, <1>3, <1>4, <2>1, ExitingSteps DEF exit, at
  <2>2. CASE push(p)
    BY <1>0, <2>2, PushTypes DEF push, ListsTyped
  <2>3. CASE push2(p)
    <3>1. fr[p].self \in Tids
      BY <1>4, <2>3 DEF push2, at
    <3> QED BY <1>0, <2>3, <3>1 DEF push2, ListsTyped
  <2>4. CASE UNCHANGED <<child_f, last_f>>
    BY <1>0, <2>4 DEF ListsTyped
  <2> QED BY <2>1, <2>2, <2>3, <2>4
          DEF mark, pop, pop2, orphan, orphan2, unlink, unlink2, record, finish, unlink_done, mem
<1>9. PICK V : fr \in [Pages -> Frames(V)]
  BY <1>0 DEF FramesTyped
<1>10. \E l \in After : /\ StepsTo(p, l) /\ (l = "pop2" => fr'[p].e \in Nodes)
                        /\ (at(p, "mark") <=> l = "test") /\ (at(p, "finish") => l = "die")
  <2>1. CASE mark(p) \/ unlink(p) \/ finish(p)
    BY <1>0, <1>1, <2>1, GotoSteps DEF mark, unlink, finish, at, ExitLabels
  <2>2. CASE pop2(p) \/ unlink2(p)
    BY <1>0, <1>1, <2>2, GotoSteps DEF pop2, unlink2, unlink_done, at, ExitLabels
  <2>3. CASE push(p)
    BY <1>0, <1>1, <2>3, GotoSteps DEF push, at, ExitLabels
  <2>4. CASE \E status \in Statuses \cup {-1} : exit(p, status)
    <3>1. at(p, "run") /\ StepsTo(p, "pop")
      BY <1>3, <1>4, <2>4, ExitingSteps DEF exit, at
    <3> QED BY <3>1 DEF at, ExitLabels
  <2>5. CASE pop(p)
    <3>1. CASE goto(p, "unlink")
      BY <1>0, <1>1, <2>5, <3>1, GotoSteps DEF pop, at, ExitLabels
    <3>2. CASE /\ unlinkable(next[head(p)])
               /\ fr' = [fr EXCEPT ![p].pc = "pop2", ![p].e = next[head(p)]]
      <4>1. sets(p, "pop2", fr[p].pid, fr[p].page, next[head(p)], fr[p].r)
        BY <1>9, <3>2 DEF sets, Frames
      <4>2. next[head(p)] \in Nodes
        BY <3>2 DEF unlinkable, is_interior
      <4>3. StepsTo(p, "pop2") /\ fr'[p].e = next[head(p)]
        BY <1>0, <1>1, <4>1, <4>2, NodeFacts, SetSteps DEF ExitLabels
      <4> QED BY <2>5, <4>2, <4>3 DEF pop, at, ExitLabels
    <3> QED BY <2>5, <3>1, <3>2 DEF pop
  <2>6. CASE orphan(p) \/ orphan2(p)
    <3>1. CASE goto(p, "orphan2")
      BY <1>0, <1>1, <2>6, <3>1, GotoSteps DEF orphan, orphan2, at, ExitLabels
    <3>2. CASE fr' = [fr EXCEPT ![p].pc = "pop", ![p].e = NULL]
      <4>1. sets(p, "pop", fr[p].pid, fr[p].page, NULL, fr[p].r)
        BY <1>9, <3>2 DEF sets, Frames
      <4>2. StepsTo(p, "pop")
        BY <1>0, <1>1, <4>1, SetSteps DEF ExitLabels
      <4> QED BY <2>6, <4>2 DEF orphan, orphan2, at, ExitLabels
    <3> QED BY <2>6, <3>1, <3>2 DEF orphan, orphan2
  <2>7. CASE record(p)
    <3>1. CASE goto(p, "up")
      BY <1>0, <1>1, <2>7, <3>1, GotoSteps DEF record, at, ExitLabels
    <3>2. CASE fr' = [fr EXCEPT ![p].pc = "push", ![p].page = th[p].parent]
      <4>1. sets(p, "push", fr[p].pid, th[p].parent, fr[p].e, fr[p].r)
        BY <1>9, <3>2 DEF sets, Frames
      <4>2. th[p].parent \in Pages \cup {NULL, POISON}
        BY <1>0 DEF TypeInv, Threads
      <4>3. StepsTo(p, "push")
        BY <1>0, <1>1, <4>1, <4>2, SetSteps DEF ExitLabels
      <4> QED BY <2>7, <4>3 DEF record, at, ExitLabels
    <3> QED BY <2>7, <3>1, <3>2 DEF record
  <2>8. CASE push2(p)
    <3>1. sets(p, "up", fr[p].pid, NULL, fr[p].e, fr[p].r)
      BY <1>9, <2>8 DEF push2, sets, Frames
    <3>2. StepsTo(p, "up")
      BY <1>0, <1>1, <3>1, SetSteps DEF ExitLabels
    <3> QED BY <2>8, <3>2 DEF push2, at, ExitLabels
  <2> QED BY <2>1, <2>2, <2>3, <2>4, <2>5, <2>6, <2>7, <2>8
<1>11. PICK l \in After : /\ StepsTo(p, l) /\ (l = "pop2" => fr'[p].e \in Nodes)
                          /\ (at(p, "mark") <=> l = "test") /\ (at(p, "finish") => l = "die")
  BY <1>10
<1>12. TypeInv'
  BY <1>0, <1>5, <1>6, <1>7, <1>8, <1>11 DEF TypeInv, ListsTyped, StepsTo
<1>13. Moves(p)
  BY <1>2, <1>3, <1>5, <1>6, <1>11
  DEF Moves, StepsTo, SameUnits, ExitLabels, ExecLabels, LoadLabels, WaitLabels, at
<1> QED BY <1>12, <1>13

-----------------------------------------------------------------------------
(* wait_c: the sleep of a parent, the wakeup by the child, its end          *)

\* A thread that is not in a list of waiters can be put at the end of one.
LEMMA JoinWaiters ==
  ASSUME NEW s \in Seq(Pages), NEW p \in Pages, \A i \in 1 .. Len(s) : s[i] # p,
         \A i, j \in 1 .. Len(s) : s[i] = s[j] => i = j,
         NEW w, w = Append(s, p)
  PROVE  /\ w \in Seq(Pages) /\ \A i \in 1 .. Len(w) : w[i] = p \/ \E j \in 1 .. Len(s) : w[i] = s[j]
         /\ \A i, j \in 1 .. Len(w) : w[i] = w[j] => i = j
<1>1. /\ w \in Seq(Pages) /\ Len(w) = Len(s) + 1 /\ w[Len(s) + 1] = p
      /\ \A i \in 1 .. Len(s) : w[i] = s[i]
  OBVIOUS
<1> QED BY <1>1

LEMMA SleepStep ==
  ASSUME PInv, NEW p \in Pages, sleep(p)
  PROVE  TypeInv' /\ PlaceInv' /\ SleepInv' /\ ExecInv'
<1> DEFINE rt == fr[p].page
<1>0. /\ TypeInv /\ ListsTyped /\ FramesTyped /\ NULL \in Links /\ fr[p].e \in Links
      /\ rt \in Pages \cup {NULL, POISON} /\ th \in [Pages -> Threads]
      /\ "asleep" \in Labels /\ "collect" \in Labels
  BY FrameShape, NodeFacts DEF PInv, TypeInv, Labels
<1>1. /\ at(p, "sleep") /\ UNCHANGED <<next, prev, child_f, last_f, sys_lock, next_tid, loaded>>
  BY DEF sleep, hist
<1>2. PICK V : fr \in [Pages -> Frames(V)]
  BY <1>0 DEF FramesTyped
<1>3. \A q \in Pages : \A i \in 1 .. Len(th[q].waiters) :
        /\ th[q].waiters[i] \in Pages \ {p} /\ at(th[q].waiters[i], "asleep")
        /\ fr[th[q].waiters[i]].page = q
  BY <1>0, <1>1 DEF PInv, SleepInv, at, Threads
<1>4. CASE th[rt].wait_c = 0 /\ th' = [th EXCEPT ![rt].waiters = Append(@, p)] /\ goto(p, "asleep")
  <2>1. StepsTo(p, "asleep") /\ fr'[p].page = rt
    <3>1. StepsTo(p, "asleep") /\ fr'[p] = [fr[p] EXCEPT !.pc = "asleep"]
      BY <1>0, <1>4, GotoSteps
    <3> QED BY <1>2, <3>1 DEF Frames
  <2>2. CASE rt \notin Pages
    <3>1. th' = th
      BY <1>0, <1>4, <2>2
    <3>2. Aside
      BY <1>1, <2>1, <3>1 DEF Aside, StepsTo, at, ExecLabels, LoadLabels, WaitLabels
    <3>3. Awake
      BY <1>1, <2>1, <3>1 DEF Awake, StepsTo, at
    <3> QED BY <1>0, <1>1, <2>1, <3>1, <3>2, <3>3, AsideKeeps, AwakeKeeps
            DEF TypeInv, ListsTyped, StepsTo
  <2>3. CASE rt \in Pages
    <3> DEFINE s == th[rt].waiters
               w == th'[rt].waiters
    <3>1. s \in Seq(Pages) /\ w = Append(s, p)
      BY <1>0, <1>4, <2>3 DEF Threads
    <3>2. /\ \A i, j \in 1 .. Len(s) : s[i] = s[j] => i = j
          /\ \A i \in 1 .. Len(s) : s[i] # p /\ fr'[s[i]] = fr[s[i]] /\ s[i] \in Pages
                                    /\ fr[s[i]].pc = "asleep" /\ fr[s[i]].page = rt
      BY <1>3, <2>1, <2>3 DEF PInv, SleepInv, StepsTo, at
    <3>3. /\ w \in Seq(Pages)
          /\ \A i \in 1 .. Len(w) : w[i] = p \/ \E j \in 1 .. Len(s) : w[i] = s[j]
          /\ \A i, j \in 1 .. Len(w) : w[i] = w[j] => i = j
      <4> HIDE DEF s, w
      <4> QED BY <3>1, <3>2, JoinWaiters
    <3>4. th' \in [Pages -> Threads]
      <4>1. th[rt] \in Threads /\ [th[rt] EXCEPT !.waiters = Append(s, p)] \in Threads
        BY <1>0, <2>3, <3>1, <3>3 DEF Threads
      <4> QED BY <1>0, <1>4, <2>3, <4>1
    <3>5. \A q \in Pages : /\ th'[q].wait = th[q].wait /\ th'[q].wait_c = th[q].wait_c
                           /\ th'[q].parent = th[q].parent
                           /\ q # rt => th'[q].waiters = th[q].waiters
      BY <1>0, <1>4, <2>3 DEF Threads
    <3>6. Aside
      BY <1>1, <2>1, <3>5 DEF Aside, StepsTo, at, ExecLabels, LoadLabels, WaitLabels
    <3>7. SleepInv'
      <4>1. ASSUME NEW q \in Pages
            PROVE  /\ th'[q].wait_c \in 0 .. 1
                   /\ (Live(q) /\ fr[q].pc \notin {"finish", "die"})' => th'[q].wait_c = 0
        BY <1>1, <2>1, <3>5 DEF PInv, SleepInv, StepsTo, Live, at
      <4>2. ASSUME NEW q \in Pages, q # rt
            PROVE  /\ \A i \in 1 .. Len(th'[q].waiters) :
                        fr'[th'[q].waiters[i]] = fr[th[q].waiters[i]]
                   /\ \A i, j \in 1 .. Len(th'[q].waiters) :
                        th'[q].waiters[i] = th'[q].waiters[j] => i = j
        BY <1>3, <2>1, <3>5, <4>2 DEF PInv, SleepInv, StepsTo
      <4>3. \A i \in 1 .. Len(w) : fr'[w[i]].pc = "asleep" /\ fr'[w[i]].page = rt
        <5> HIDE DEF s, w, rt
        <5> QED BY <2>1, <3>2, <3>3 DEF StepsTo
      <4>4. ASSUME NEW q \in Pages
            PROVE  /\ \A i \in 1 .. Len(th'[q].waiters) :
                        fr'[th'[q].waiters[i]].pc = "asleep" /\ fr'[th'[q].waiters[i]].page = q
                   /\ \A i, j \in 1 .. Len(th'[q].waiters) :
                        th'[q].waiters[i] = th'[q].waiters[j] => i = j
        <5>1. CASE q = rt
          BY <3>3, <4>3, <5>1
        <5>2. CASE q # rt
          BY <1>3, <3>5, <4>2, <5>2 DEF at
        <5> QED BY <5>1, <5>2
      <4> HIDE DEF s, w, rt
      <4> QED BY <4>1, <4>4 DEF SleepInv, at
    <3> QED BY <1>0, <1>1, <2>1, <3>4, <3>6, <3>7, AsideKeeps DEF TypeInv, ListsTyped, StepsTo
  <2> QED BY <1>0, <2>2, <2>3
<1>5. CASE /\ th' = IF Live(rt) THEN [th EXCEPT ![rt].wait_c = @ - 1] ELSE th
           /\ th[rt].wait_c # 0
           /\ fr' = [fr EXCEPT ![p].pc = "collect", ![p].page = NULL]
  <2>1. StepsTo(p, "collect")
    <3>1. sets(p, "collect", fr[p].pid, NULL, fr[p].e, fr[p].r)
      BY <1>2, <1>5 DEF sets, Frames
    <3> QED BY <1>0, <3>1, SetSteps
  <2>2. /\ th' \in [Pages -> Threads]
        /\ \A q \in Pages : /\ th'[q].wait = th[q].wait /\ th'[q].parent = th[q].parent
                            /\ th'[q].waiters = th[q].waiters
                            /\ th'[q].wait_c \in 0 .. 1 /\ (th[q].wait_c = 0 => th'[q].wait_c = 0)
    <3>1. \A q \in Pages : th[q].wait_c \in 0 .. 1
      BY DEF PInv, SleepInv
    <3>2. CASE rt \in Pages /\ th' = [th EXCEPT ![rt].wait_c = @ - 1]
      <4>1. th[rt].wait_c - 1 = 0
        BY <1>5, <3>1, <3>2
      <4>2. th[rt] \in Threads /\ [th[rt] EXCEPT !.wait_c = 0] \in Threads
        BY <1>0, <3>2 DEF Threads
      <4>3. th' = [th EXCEPT ![rt] = [th[rt] EXCEPT !.wait_c = 0]]
        BY <1>0, <3>2, <4>1
      <4> QED BY <1>0, <3>1, <3>2, <4>2, <4>3 DEF Threads
    <3>3. CASE th' = th
      BY <1>0, <3>1, <3>3
    <3>4. rt \notin Pages => [th EXCEPT ![rt].wait_c = @ - 1] = th
      BY <1>0
    <3> QED BY <1>5, <3>2, <3>3, <3>4
  <2>3. Aside
    BY <1>1, <2>1, <2>2 DEF Aside, StepsTo, at, ExecLabels, LoadLabels, WaitLabels
  <2>4. SleepInv'
    <3>1. ASSUME NEW q \in Pages
          PROVE  /\ \A i \in 1 .. Len(th'[q].waiters) : fr'[th'[q].waiters[i]] = fr[th[q].waiters[i]]
                 /\ (Live(q) /\ fr[q].pc \notin {"finish", "die"})' => th'[q].wait_c = 0
      BY <1>1, <1>3, <2>1, <2>2 DEF PInv, SleepInv, StepsTo, Live, at
    <3> QED BY <1>3, <2>2, <3>1 DEF PInv, SleepInv, at
  <2> QED BY <1>0, <1>1, <2>1, <2>2, <2>3, <2>4, AsideKeeps DEF TypeInv, ListsTyped, StepsTo
<1> QED BY <1>4, <1>5 DEF sleep

\* The rest of a list of waiters.
LEMMA LeaveWaiters ==
  ASSUME NEW s \in Seq(Pages), s # <<>>, \A i, j \in 1 .. Len(s) : s[i] = s[j] => i = j,
         NEW w, w = Tail(s)
  PROVE  /\ w \in Seq(Pages) /\ s[1] \in Pages
         /\ \A i \in 1 .. Len(w) : w[i] # s[1] /\ \E j \in 1 .. Len(s) : w[i] = s[j]
         /\ \A i, j \in 1 .. Len(w) : w[i] = w[j] => i = j
<1>1. /\ w \in Seq(Pages) /\ Len(s) \in Nat /\ Len(s) >= 1 /\ Len(w) = Len(s) - 1
      /\ \A i \in 1 .. Len(w) : w[i] = s[i + 1]
  OBVIOUS
<1> QED BY <1>1

LEMMA UpStep ==
  ASSUME PInv, NEW p \in Pages, up(p)
  PROVE  TypeInv' /\ PlaceInv' /\ SleepInv' /\ ExecInv'
<1> DEFINE s == th[p].waiters
<1>0. /\ TypeInv /\ ListsTyped /\ FramesTyped /\ th \in [Pages -> Threads] /\ s \in Seq(Pages)
      /\ "finish" \in Labels /\ "sleep" \in Labels
  BY DEF PInv, TypeInv, Labels, Threads
<1>1. at(p, "up") /\ UNCHANGED <<next, prev, child_f, last_f, sys_lock, next_tid, loaded>>
  BY DEF up, hist
<1>2. p # main
  BY <1>1 DEF PInv, PlaceInv, at, ExecLabels, WaitLabels
<1>3. PICK V : fr \in [Pages -> Frames(V)]
  BY <1>0 DEF FramesTyped
<1>4. CASE goto(p, "finish") /\ UNCHANGED th
  <2>1. StepsTo(p, "finish")
    BY <1>0, <1>4, GotoSteps
  <2>2. Moves(p)
    BY <1>1, <1>2, <1>4, <2>1 DEF Moves, StepsTo, at, ExecLabels, LoadLabels, WaitLabels
  <2> QED BY <1>0, <1>1, <1>4, <2>1, <2>2, MovesKeeps DEF TypeInv, ListsTyped, StepsTo
<1>5. CASE /\ th' = [th EXCEPT ![p].wait_c = @ + 1, ![p].waiters = IF s = <<>> THEN s ELSE Tail(s)]
           /\ fr' = [q \in Pages |-> CASE q = p -> [fr[p] EXCEPT !.pc = "finish"]
                                       [] s # <<>> /\ q = s[1] -> [fr[q] EXCEPT !.pc = "sleep"]
                                       [] OTHER -> fr[q]]
  <2> DEFINE w == IF s = <<>> THEN s ELSE Tail(s)
  <2>1. /\ th[p].wait_c = 0 /\ \A i, j \in 1 .. Len(s) : s[i] = s[j] => i = j
        /\ \A q \in Pages : \A i \in 1 .. Len(th[q].waiters) :
             /\ th[q].waiters[i] \in Pages \ {p} /\ at(th[q].waiters[i], "asleep")
             /\ fr[th[q].waiters[i]].page = q
    <3>1. th[p].wait_c = 0 /\ \A i, j \in 1 .. Len(s) : s[i] = s[j] => i = j
      BY <1>1 DEF PInv, SleepInv, Live, at
    <3>2. ASSUME NEW q \in Pages, NEW i \in 1 .. Len(th[q].waiters)
          PROVE  /\ th[q].waiters[i] \in Pages /\ at(th[q].waiters[i], "asleep")
                 /\ fr[th[q].waiters[i]].page = q
      <4>1. th[q].waiters \in Seq(Pages)
        BY <1>0 DEF Threads
      <4>2. th[q].waiters[i] \in Pages
        BY <3>2, <4>1
      <4> QED BY <4>2, <3>2 DEF PInv, SleepInv
    <3> QED BY <1>1, <3>1, <3>2 DEF at
  <2>2. /\ w \in Seq(Pages)
        /\ \A i \in 1 .. Len(w) : (s # <<>> => w[i] # s[1]) /\ \E j \in 1 .. Len(s) : w[i] = s[j]
        /\ \A i, j \in 1 .. Len(w) : w[i] = w[j] => i = j
    <3>1. CASE s = <<>>
      BY <1>0, <3>1
    <3>2. CASE s # <<>>
      <4>1. w = Tail(s) /\ \A i, j \in 1 .. Len(s) : s[i] = s[j] => i = j
        BY <2>1, <3>2
      <4> HIDE DEF s, w
      <4> QED BY <1>0, <3>2, <4>1, LeaveWaiters
    <3> QED BY <3>1, <3>2
  <2>3. s # <<>> => s[1] \in Pages /\ at(s[1], "asleep") /\ fr[s[1]].page = p /\ s[1] # p
    <3>1. s # <<>> => 1 \in 1 .. Len(s)
      BY <1>0
    <3> QED BY <2>1, <3>1
  <2>4. \A q \in Pages : \/ q = p /\ fr'[q] = [fr[q] EXCEPT !.pc = "finish"]
                         \/ s # <<>> /\ q = s[1] /\ fr'[q] = [fr[q] EXCEPT !.pc = "sleep"]
                         \/ q # p /\ (s # <<>> => q # s[1]) /\ fr'[q] = fr[q]
    <3> HIDE DEF s
    <3> QED BY <1>5
  <2>5. fr' \in [Pages -> Frames(V)]
    <3>1. \A q \in Pages : fr'[q] \in Frames(V)
      <4>1. ASSUME NEW q \in Pages
            PROVE  /\ fr[q] \in Frames(V) /\ [fr[q] EXCEPT !.pc = "finish"] \in Frames(V)
                   /\ [fr[q] EXCEPT !.pc = "sleep"] \in Frames(V)
        BY <1>0, <1>3 DEF Frames
      <4> HIDE DEF s
      <4> QED BY <2>4, <4>1
    <3> QED BY <1>5, <3>1
  <2>6. \A q \in Pages : /\ fr'[q].self = fr[q].self /\ fr'[q].page = fr[q].page
                         /\ \/ fr'[q] = fr[q]
                            \/ q = p /\ fr'[q].pc = "finish"
                            \/ s # <<>> /\ q = s[1] /\ fr'[q].pc = "sleep"
    <3> HIDE DEF s
    <3> QED BY <1>3, <2>4 DEF Frames
  <2>7. th' = [th EXCEPT ![p] = [th[p] EXCEPT !.wait_c = 1, !.waiters = w]]
    <3>1. /\ th[p].wait_c + 1 = 1
          /\ th' = [th EXCEPT ![p].wait_c = @ + 1, ![p].waiters = w]
      BY <1>5, <2>1
    <3> HIDE DEF w
    <3> QED BY <1>0, <3>1 DEF Threads
  <2>8. th' \in [Pages -> Threads] /\ th'[p].wait_c = 1 /\ th'[p].waiters = w
        /\ \A q \in Pages : /\ th'[q].wait = th[q].wait /\ th'[q].parent = th[q].parent
                            /\ q # p => th'[q] = th[q]
    <3> HIDE DEF w
    <3> QED BY <1>0, <2>2, <2>7 DEF Threads
  <2>9. Aside
    <3> HIDE DEF s
    <3> QED BY <1>1, <1>2, <2>3, <2>6, <2>8 DEF Aside, at, ExecLabels, LoadLabels, WaitLabels
  <2>10. SleepInv'
    <3>1. ASSUME NEW q \in Pages, NEW i \in 1 .. Len(th'[q].waiters)
          PROVE  fr'[th'[q].waiters[i]].pc = "asleep" /\ fr'[th'[q].waiters[i]].page = q
      <4>1. CASE q = p
        <5>1. PICK j \in 1 .. Len(s) : w[i] = s[j]
          BY <2>2, <2>8, <3>1, <4>1
        <5>2. w[i] \in Pages \ {p} /\ at(w[i], "asleep") /\ fr[w[i]].page = p
          BY <2>1, <5>1
        <5>3. s # <<>> => w[i] # s[1]
          BY <2>2, <2>8, <3>1, <4>1
        <5> HIDE DEF s, w
        <5>4. fr'[w[i]] = fr[w[i]]
          BY <2>6, <5>2, <5>3
        <5> QED BY <2>8, <4>1, <5>2, <5>4 DEF at
      <4>2. CASE q # p
        <5>1. th'[q].waiters = th[q].waiters
          BY <2>8, <4>2
        <5>2. /\ th[q].waiters[i] \in Pages \ {p} /\ at(th[q].waiters[i], "asleep")
              /\ fr[th[q].waiters[i]].page = q
          BY <2>1, <3>1, <5>1
        <5> HIDE DEF s
        <5>3. fr'[th[q].waiters[i]] = fr[th[q].waiters[i]]
          BY <2>3, <2>6, <4>2, <5>2
        <5> QED BY <5>1, <5>2, <5>3 DEF at
      <4> QED BY <4>1, <4>2
    <3>2. ASSUME NEW q \in Pages
          PROVE  /\ \A i, j \in 1 .. Len(th'[q].waiters) :
                      th'[q].waiters[i] = th'[q].waiters[j] => i = j
                 /\ th'[q].wait_c \in 0 .. 1
                 /\ fr'[q].pc \notin {"free", "finish", "die"} => th'[q].wait_c = 0
      <4>1. CASE q = p
        <5>1. fr'[p].pc = "finish"
          BY <2>3, <2>4, <1>3 DEF Frames
        <5> HIDE DEF w, s
        <5> QED BY <2>2, <2>8, <4>1, <5>1
      <4>2. CASE q # p
        <5>1. th'[q] = th[q]
          BY <2>8, <4>2
        <5>2. fr'[q].pc \notin {"free", "finish", "die"} => fr[q].pc \notin {"free", "finish", "die"}
          <6> HIDE DEF s
          <6> QED BY <2>3, <2>6, <4>2 DEF at
        <5> QED BY <5>1, <5>2 DEF PInv, SleepInv, Live, at
      <4> QED BY <4>1, <4>2
    <3> QED BY <3>1, <3>2 DEF SleepInv, Live, at
  <2>11. FramesTyped'
    BY <2>5 DEF FramesTyped
  <2> QED BY <1>0, <1>1, <2>8, <2>9, <2>10, <2>11, AsideKeeps DEF TypeInv, ListsTyped
<1> QED BY <1>4, <1>5 DEF up

LEMMA DieStep ==
  ASSUME PInv, NEW p \in Pages, die(p)
  PROVE  TypeInv' /\ PlaceInv' /\ SleepInv' /\ ExecInv'
<1>0. /\ TypeInv /\ ListsTyped /\ FramesTyped /\ th \in [Pages -> Threads] /\ POISON \in Links
      /\ NULL \in Links /\ "free" \in Labels /\ <<>> \in Seq(Pages) /\ <<>> \in Seq(Tids)
  BY DEF PInv, TypeInv, Labels, Links
<1>1. at(p, "die") /\ UNCHANGED <<sys_lock, next_tid, loaded>>
  BY DEF die, hist
<1>2. p # main
  BY <1>1 DEF PInv, PlaceInv, at, ExecLabels, WaitLabels
<1>3. PICK V : fr \in [Pages -> Frames(V)]
  BY <1>0 DEF FramesTyped
<1>4. FramesTyped' /\ fr'[p].pc = "free" /\ \A q \in Pages : q # p => fr'[q] = fr[q]
  <2> DEFINE W == V \cup {0}
  <2>1. fr' \in [Pages -> Frames(W)]
    BY <1>0, <1>3 DEF die, Frames, Frame
  <2>2. fr'[p].pc = "free" /\ \A q \in Pages : q # p => fr'[q] = fr[q]
    BY <1>3 DEF die, Frame
  <2> HIDE DEF W
  <2> QED BY <2>1, <2>2 DEF FramesTyped
<1>5. /\ th' \in [Pages -> Threads] /\ th'[p].wait = 1 /\ th'[p].wait_c = 1 /\ th'[p].waiters = <<>>
      /\ \A q \in Pages : q # p => th'[q] = th[q]
  <2>1. Freed \in Threads
    BY <1>0 DEF Freed, NewThread, Threads, Tids
  <2>2. Freed.wait = 1 /\ Freed.wait_c = 1 /\ Freed.waiters = <<>>
    BY DEF Freed, NewThread
  <2> HIDE DEF Freed
  <2> QED BY <1>0, <2>1, <2>2 DEF die
<1>6. TypeInv'
  <2>1. next' \in [Nodes -> Links] /\ prev' \in [Nodes -> Links]
    BY <1>0 DEF die, ListsTyped
  <2>2. child_f' \in [Pages -> Seq(Tids)] /\ last_f' \in [Pages -> Tids \cup {0, POISON}]
    BY <1>0 DEF die, ListsTyped
  <2> QED BY <1>0, <1>1, <1>4, <1>5, <2>1, <2>2 DEF TypeInv, ListsTyped
<1>7. PlaceInv'
  BY <1>1, <1>2, <1>4, ProcessAssumption DEF PInv, PlaceInv, Live, at
<1>8. SleepInv'
  <2>1. ASSUME NEW q \in Pages, q # p, NEW i \in 1 .. Len(th[q].waiters)
        PROVE  /\ fr'[th[q].waiters[i]] = fr[th[q].waiters[i]] /\ at(th[q].waiters[i], "asleep")
               /\ fr[th[q].waiters[i]].page = q
    <3>1. th[q].waiters[i] \in Pages /\ at(th[q].waiters[i], "asleep") /\ fr[th[q].waiters[i]].page = q
      BY <1>0, <2>1 DEF PInv, SleepInv, Threads
    <3> QED BY <1>1, <1>4, <3>1 DEF at
  <2> QED BY <1>4, <1>5, <2>1 DEF PInv, SleepInv, Live, at
<1>9. \A q \in Pages : /\ Starting(q)' <=> Starting(q)
                       /\ Awaiting(q)' <=> Awaiting(q)
                       /\ Told(q)' <=> Told(q)
                       /\ Starting(q) \/ Awaiting(q) \/ Told(q) \/ fr'[q].pc \in ExecLabels
                          => q # p /\ fr'[q] = fr[q] /\ th'[q] = th[q]
  BY <1>1, <1>4, <1>5 DEF Starting, Awaiting, Told, at, ExecLabels, LoadLabels
<1>10. AwaitsChild' /\ AwaitsAlone'
  BY <1>9 DEF PInv, ExecInv, AwaitsChild, AwaitsAlone
<1>11. KnowsParent'
  BY <1>1, <1>4, <1>5, <1>9 DEF PInv, ExecInv, KnowsParent, at
<1>12. OneUnit'
  BY <1>4, <1>5 DEF PInv, ExecInv, OneUnit, at, Live
<1>13. LoadDecided' /\ TidsApart'
  BY <1>1, <1>4, <1>9 DEF PInv, ExecInv, LoadDecided, TidsApart, at, Starting, LoadLabels
<1> QED BY <1>6, <1>7, <1>8, <1>10, <1>11, <1>12, <1>13 DEF ExecInv

-----------------------------------------------------------------------------
(* exec and load *)

\* A thread that is not main may go anywhere but to pop2, main within its
\* program, wait and exec.
LEMMA PlaceKeeps ==
  ASSUME PInv, NEW p \in Pages, NEW l, StepsTo(p, l), l \notin {"free", "pop2"}, Live(p),
         p = main => l \in ExecLabels \cup WaitLabels, next_tid' = next_tid
  PROVE  PlaceInv'
BY ProcessAssumption DEF PInv, PlaceInv, StepsTo, Live, at

\* The steps of process_execute that write no memory another property reads.
LEMMA FindStep ==
  ASSUME PInv, NEW p \in Pages, find(p), ~ Panic
  PROVE  TypeInv' /\ PlaceInv' /\ SleepInv' /\ ExecInv'
<1>0. /\ TypeInv /\ ListsTyped /\ FramesTyped /\ "link" \in Labels /\ fr[p].e \in Links
      /\ fr[p].page \in Pages \cup {NULL, POISON}
  BY FrameShape DEF PInv, TypeInv, Labels
<1>1. PICK V : fr \in [Pages -> Frames(V)]
  BY <1>0 DEF FramesTyped
<1>2. /\ at(p, "find") /\ UNCHANGED <<th, child_f, last_f, sys_lock, next_tid, loaded>>
  BY DEF find, hist
<1>3. StepsTo(p, "link") /\ fr'[p].pid = fr[p].pid /\ fr'[p].page = fr[p].page
  <2>1. sets(p, "link", fr[p].pid, fr[p].page, fr[p].e, 0)
    BY <1>1 DEF find, sets, Frames
  <2> QED BY <1>0, <2>1, SetSteps
<1>4. fr[p].page \in Pages
  BY <1>2 DEF PInv, ExecInv, AwaitsChild, Awaiting, at
<1>5. next' \in [Nodes -> Links] /\ prev' \in [Nodes -> Links]
  <2>1. prev[tail(p)] \in Nodes /\ elem(fr[p].page) \in Nodes /\ tail(p) \in Nodes /\ Nodes \subseteq Links
    BY <1>4, NodeFacts DEF find
  <2> QED BY <1>0, <2>1 DEF find, ListsTyped
<1>6. TypeInv'
  BY <1>0, <1>2, <1>3, <1>5 DEF TypeInv, ListsTyped, StepsTo
<1>7. PlaceInv'
  BY <1>2, <1>3, PlaceKeeps DEF Live, at, ExecLabels
<1>8. SleepInv'
  <2>1. Awake
    BY <1>2, <1>3 DEF Awake, StepsTo, at
  <2> QED BY <2>1, AwakeKeeps
<1>9. \A q \in Pages : /\ Starting(q)' <=> Starting(q)
                       /\ Awaiting(q)' <=> Awaiting(q)
                       /\ Told(q)' <=> Told(q)
                       /\ fr'[q].pid = fr[q].pid /\ fr'[q].page = fr[q].page /\ fr'[q].self = fr[q].self
                       /\ q # p => fr'[q] = fr[q]
  BY <1>2, <1>3 DEF StepsTo, Starting, Awaiting, Told, at, LoadLabels
<1>10. AwaitsChild' /\ AwaitsAlone'
  BY <1>9 DEF PInv, ExecInv, AwaitsChild, AwaitsAlone
<1>11. KnowsParent'
  BY <1>2, <1>9 DEF PInv, ExecInv, KnowsParent, at
<1>12. OneUnit'
  BY <1>2, <1>3 DEF PInv, ExecInv, OneUnit, StepsTo, at, Live
<1>13. LoadDecided'
  BY <1>2, <1>3, <1>9 DEF PInv, ExecInv, LoadDecided, StepsTo, at
<1>14. TidsApart'
  BY <1>2, <1>3, <1>9 DEF PInv, ExecInv, TidsApart, StepsTo, at, ExecLabels
<1> QED BY <1>6, <1>7, <1>8, <1>10, <1>11, <1>12, <1>13, <1>14 DEF ExecInv

LEMMA LinkStep ==
  ASSUME PInv, NEW p \in Pages, link(p)
  PROVE  TypeInv' /\ PlaceInv' /\ SleepInv' /\ ExecInv'
<1> DEFINE c == fr[p].page
<1>0. /\ TypeInv /\ ListsTyped /\ FramesTyped /\ "exec_down" \in Labels /\ th \in [Pages -> Threads]
  BY DEF PInv, TypeInv, Labels
<1>1. PICK V : fr \in [Pages -> Frames(V)]
  BY <1>0 DEF FramesTyped
<1>2. at(p, "link") /\ UNCHANGED <<next, child_f, last_f, sys_lock, next_tid, loaded>>
  BY DEF link, hist
<1>3. StepsTo(p, "exec_down") /\ fr'[p].pid = fr[p].pid /\ fr'[p].page = fr[p].page
  <2>1. StepsTo(p, "exec_down") /\ fr'[p] = [fr[p] EXCEPT !.pc = "exec_down"]
    BY <1>0, GotoSteps DEF link
  <2> QED BY <1>1, <2>1 DEF Frames
<1>4. c \in Pages /\ Starting(c) /\ Awaiting(p) /\ th[p].wait = 0
  <2>1. Awaiting(p) /\ Live(p)
    BY <1>2 DEF Awaiting, Live, at
  <2> QED BY <1>2, <2>1 DEF PInv, ExecInv, AwaitsChild, OneUnit, at
<1>5. /\ th' \in [Pages -> Threads] /\ th'[c].parent = p
      /\ \A q \in Pages : /\ q # c => th'[q] = th[q]
                          /\ th'[q].wait = th[q].wait /\ th'[q].wait_c = th[q].wait_c
                          /\ th'[q].waiters = th[q].waiters
  BY <1>0, <1>4 DEF link, Threads
<1>6. TypeInv'
  <2>1. prev' \in [Nodes -> Links]
    BY <1>0, <1>4, NodeFacts DEF link, ListsTyped
  <2> QED BY <1>0, <1>2, <1>3, <1>5, <2>1 DEF TypeInv, ListsTyped, StepsTo
<1>7. PlaceInv'
  BY <1>2, <1>3, PlaceKeeps DEF Live, at, ExecLabels
<1>8. SleepInv'
  <2>1. Awake
    BY <1>2, <1>3, <1>5 DEF Awake, StepsTo, at
  <2> QED BY <2>1, AwakeKeeps
<1>9. \A q \in Pages : /\ Starting(q)' <=> Starting(q)
                       /\ Awaiting(q)' <=> Awaiting(q)
                       /\ Told(q)' <=> Told(q)
                       /\ fr'[q].pid = fr[q].pid /\ fr'[q].page = fr[q].page /\ fr'[q].self = fr[q].self
                       /\ q # p => fr'[q] = fr[q]
  BY <1>2, <1>3, <1>4, <1>5 DEF StepsTo, Starting, Awaiting, Told, at, LoadLabels
<1>10. AwaitsChild' /\ AwaitsAlone'
  BY <1>9 DEF PInv, ExecInv, AwaitsChild, AwaitsAlone
<1>11. KnowsParent'
  <2>1. ASSUME NEW d \in Pages, Starting(d), th'[d].parent # NULL
        PROVE  /\ th'[d].parent \in Pages /\ fr'[th'[d].parent].pc = "exec_down"
               /\ th'[th'[d].parent].wait = 0 /\ fr'[th'[d].parent].page = d
    <3>1. CASE d = c
      BY <1>3, <1>4, <1>5, <3>1 DEF StepsTo
    <3>2. CASE d # c
      <4>1. /\ th[d].parent \in Pages /\ at(th[d].parent, "exec_down") /\ th'[d] = th[d]
            /\ th[th[d].parent].wait = 0 /\ fr[th[d].parent].page = d
        BY <1>5, <2>1, <3>2 DEF PInv, ExecInv, KnowsParent
      <4>2. th[d].parent # p
        BY <1>2, <4>1 DEF at
      <4> QED BY <1>3, <1>5, <4>1, <4>2 DEF StepsTo, at
    <3> QED BY <3>1, <3>2
  <2> QED BY <1>9, <2>1 DEF KnowsParent, at
<1>12. OneUnit'
  BY <1>2, <1>3, <1>5 DEF PInv, ExecInv, OneUnit, StepsTo, at, Live
<1>13. LoadDecided'
  BY <1>2, <1>3, <1>4, <1>5, <1>9 DEF PInv, ExecInv, LoadDecided, StepsTo, Told, at
<1>14. TidsApart'
  BY <1>2, <1>3, <1>9 DEF PInv, ExecInv, TidsApart, StepsTo, at, ExecLabels
<1> QED BY <1>6, <1>7, <1>8, <1>10, <1>11, <1>12, <1>13, <1>14 DEF ExecInv

LEMMA ExecDownStep ==
  ASSUME PInv, NEW p \in Pages, exec_down(p)
  PROVE  TypeInv' /\ PlaceInv' /\ SleepInv' /\ ExecInv'
<1>0. /\ TypeInv /\ ListsTyped /\ FramesTyped /\ "exec_check" \in Labels /\ th \in [Pages -> Threads]
  BY DEF PInv, TypeInv, Labels
<1>1. PICK V : fr \in [Pages -> Frames(V)]
  BY <1>0 DEF FramesTyped
<1>2. at(p, "exec_down") /\ UNCHANGED <<next, prev, child_f, last_f, sys_lock, next_tid, loaded>>
  BY DEF exec_down, hist
<1>3. StepsTo(p, "exec_check") /\ fr'[p].pid = fr[p].pid /\ fr'[p].page = fr[p].page
  <2>1. StepsTo(p, "exec_check") /\ fr'[p] = [fr[p] EXCEPT !.pc = "exec_check"]
    BY <1>0, GotoSteps DEF exec_down
  <2> QED BY <1>1, <2>1 DEF Frames
<1>4. th[p].wait = 1 /\ Told(p) /\ ~ Awaiting(p)
  BY <1>2 DEF PInv, ExecInv, OneUnit, exec_down, Told, Awaiting, at
<1>5. /\ th' \in [Pages -> Threads] /\ th'[p].wait = 0
      /\ \A q \in Pages : /\ q # p => th'[q] = th[q]
                          /\ th'[q].parent = th[q].parent /\ th'[q].wait_c = th[q].wait_c
                          /\ th'[q].waiters = th[q].waiters
  BY <1>0, <1>4 DEF exec_down, Threads
<1>6. TypeInv'
  BY <1>0, <1>2, <1>3, <1>5 DEF TypeInv, ListsTyped, StepsTo
<1>7. PlaceInv'
  BY <1>2, <1>3, PlaceKeeps DEF Live, at, ExecLabels
<1>8. SleepInv'
  <2>1. Awake
    BY <1>2, <1>3, <1>5 DEF Awake, StepsTo, at
  <2> QED BY <2>1, AwakeKeeps
<1>9. \A q \in Pages : /\ Starting(q)' <=> Starting(q)
                       /\ Awaiting(q)' <=> Awaiting(q)
                       /\ Told(q)' <=> Told(q)
                       /\ fr'[q].pid = fr[q].pid /\ fr'[q].page = fr[q].page /\ fr'[q].self = fr[q].self
                       /\ q # p => fr'[q] = fr[q]
  BY <1>2, <1>3, <1>4, <1>5 DEF StepsTo, Starting, Awaiting, Told, at, LoadLabels
<1>10. AwaitsChild' /\ AwaitsAlone'
  BY <1>9 DEF PInv, ExecInv, AwaitsChild, AwaitsAlone
<1>11. KnowsParent'
  BY <1>4, <1>5, <1>9 DEF PInv, ExecInv, KnowsParent, at
<1>12. OneUnit'
  BY <1>2, <1>3, <1>5 DEF PInv, ExecInv, OneUnit, StepsTo, at, Live
<1>13. LoadDecided'
  BY <1>2, <1>3, <1>4, <1>9 DEF PInv, ExecInv, LoadDecided, StepsTo, at
<1>14. TidsApart'
  BY <1>2, <1>3, <1>9 DEF PInv, ExecInv, TidsApart, StepsTo, at, ExecLabels
<1> QED BY <1>6, <1>7, <1>8, <1>10, <1>11, <1>12, <1>13, <1>14 DEF ExecInv

LEMMA ExecCheckStep ==
  ASSUME PInv, NEW p \in Pages, exec_check(p)
  PROVE  TypeInv' /\ PlaceInv' /\ SleepInv' /\ ExecInv'
<1>0. /\ TypeInv /\ ListsTyped /\ FramesTyped /\ "exec_ret" \in Labels
  BY DEF PInv, TypeInv, Labels
<1>1. /\ at(p, "exec_check") /\ UNCHANGED <<th, next, prev, child_f, last_f, next_tid, loaded>>
      /\ sys_lock' \in {sys_lock, NULL}
  BY DEF exec_check, hist, mem
<1>2. StepsTo(p, "exec_ret") /\ fr'[p].pid = fr[p].pid
  <2>1. \E v : ends(p, "exec_ret", fr[p].pid, v)
    BY DEF exec_check, answer, ends
  <2> QED BY <1>0, <2>1, EndSteps
<1>3. TypeInv'
  BY <1>0, <1>1, <1>2 DEF TypeInv, ListsTyped, StepsTo
<1>4. PlaceInv'
  BY <1>1, <1>2, PlaceKeeps DEF Live, at, ExecLabels
<1>5. SleepInv'
  <2>1. Awake
    BY <1>1, <1>2 DEF Awake, StepsTo, at
  <2> QED BY <2>1, AwakeKeeps
<1>6. \A q \in Pages : /\ Starting(q)' <=> Starting(q)
                       /\ Awaiting(q)' <=> Awaiting(q)
                       /\ Told(q)' <=> Told(q)
                       /\ Awaiting(q) => fr'[q] = fr[q]
                       /\ fr'[q].pid = fr[q].pid /\ fr'[q].self = fr[q].self
                       /\ q # p => fr'[q] = fr[q]
  BY <1>1, <1>2 DEF StepsTo, Starting, Awaiting, Told, at, LoadLabels
<1>7. AwaitsChild' /\ AwaitsAlone'
  BY <1>6 DEF PInv, ExecInv, AwaitsChild, AwaitsAlone
<1>8. KnowsParent'
  BY <1>1, <1>6 DEF PInv, ExecInv, KnowsParent, at
<1>9. OneUnit'
  BY <1>1, <1>2 DEF PInv, ExecInv, OneUnit, StepsTo, at, Live
<1>10. LoadDecided'
  BY <1>1, <1>2, <1>6 DEF PInv, ExecInv, LoadDecided, StepsTo, at
<1>11. TidsApart'
  BY <1>1, <1>2, <1>6 DEF PInv, ExecInv, TidsApart, StepsTo, at, ExecLabels
<1> QED BY <1>3, <1>4, <1>5, <1>7, <1>8, <1>9, <1>10, <1>11 DEF ExecInv

LEMMA ExecReturnStep ==
  ASSUME PInv, NEW p \in Pages, exec_return(p)
  PROVE  TypeInv' /\ PlaceInv' /\ SleepInv' /\ ExecInv'
<1>0. /\ TypeInv /\ ListsTyped /\ FramesTyped /\ "run" \in Labels
      /\ loaded \in [Tids -> {"unknown", "yes", "no"}]
  BY DEF PInv, TypeInv, Labels
<1>1. /\ at(p, "exec_ret") /\ UNCHANGED <<th, next, prev, child_f, last_f, sys_lock, next_tid>>
      /\ loaded' \in [Tids -> {"unknown", "yes", "no"}]
      /\ \A t \in Tids : t # fr[p].pid => loaded'[t] = loaded[t]
  BY <1>0 DEF exec_return, mem
<1>2. StepsTo(p, "run")
  <2>1. PICK V : fr \in [Pages -> Frames(V)]
    BY <1>0 DEF FramesTyped
  <2> DEFINE W == V \cup {0}
  <2>2. fr' \in [Pages -> Frames(W)]
    BY <1>0, <2>1 DEF exec_return, Frames, Frame, Links
  <2>3. FramesTyped'
    <3> HIDE DEF W
    <3> QED BY <2>2 DEF FramesTyped
  <2> QED BY <2>1, <2>3 DEF exec_return, StepsTo, Frames, Frame
<1>3. TypeInv'
  BY <1>0, <1>1, <1>2 DEF TypeInv, ListsTyped, StepsTo
<1>4. PlaceInv'
  BY <1>1, <1>2, PlaceKeeps DEF Live, at, WaitLabels
<1>5. SleepInv'
  <2>1. Awake
    BY <1>1, <1>2 DEF Awake, StepsTo, at
  <2> QED BY <2>1, AwakeKeeps
<1>6. \A q \in Pages : /\ Starting(q)' <=> Starting(q)
                       /\ Awaiting(q)' <=> Awaiting(q)
                       /\ Told(q)' => Told(q)
                       /\ Awaiting(q) \/ Told(q)' => fr'[q] = fr[q] /\ q # p
                       /\ fr'[q].pc \in ExecLabels => fr'[q] = fr[q] /\ q # p
                       /\ fr'[q].self = fr[q].self
                       /\ q # p => fr'[q] = fr[q]
  BY <1>1, <1>2 DEF StepsTo, Starting, Awaiting, Told, at, LoadLabels, ExecLabels
<1>7. AwaitsChild' /\ AwaitsAlone'
  BY <1>6 DEF PInv, ExecInv, AwaitsChild, AwaitsAlone
<1>8. KnowsParent'
  BY <1>1, <1>6 DEF PInv, ExecInv, KnowsParent, at
<1>9. OneUnit'
  BY <1>1, <1>2 DEF PInv, ExecInv, OneUnit, StepsTo, at, Live
<1>10. LoadDecided'
  <2>1. Told(p) /\ fr[p].pc \in ExecLabels
    BY <1>1 DEF Told, at, ExecLabels
  <2>2. ASSUME NEW c \in Pages, at(c, "load_up")
        PROVE  loaded'[fr[c].self] # "unknown"
    <3>1. Starting(c) /\ c # main /\ Live(c)
      BY <2>2 DEF PInv, PlaceInv, Starting, Live, at, LoadLabels, ExecLabels, WaitLabels
    <3>2. fr[c].self \in Tids /\ fr[c].self # fr[p].pid
      BY <2>1, <3>1 DEF PInv, PlaceInv, ExecInv, TidsApart
    <3> QED BY <1>1, <2>2, <3>2 DEF PInv, ExecInv, LoadDecided
  <2>3. ASSUME NEW q \in Pages, Told(q), ~ at(q, "exec_ret")
        PROVE  loaded'[fr[q].pid] # "unknown"
    <3>1. fr[q].pc \in ExecLabels /\ q # p /\ fr[q].pid \in Tids /\ fr[q].pid # 0
      BY <1>1, <2>3 DEF PInv, ExecInv, TidsApart, Told, at, ExecLabels, Tids
    <3>2. fr[q].pid # fr[p].pid
      BY <2>1, <3>1 DEF PInv, ExecInv, TidsApart
    <3> QED BY <1>1, <2>3, <3>1, <3>2 DEF PInv, ExecInv, LoadDecided
  <2> QED BY <1>6, <1>1, <1>2, <2>2, <2>3 DEF LoadDecided, at, StepsTo
<1>11. TidsApart'
  BY <1>1, <1>6 DEF PInv, ExecInv, TidsApart, at
<1> QED BY <1>3, <1>4, <1>5, <1>7, <1>8, <1>9, <1>10, <1>11 DEF ExecInv

LEMMA ExecFailsStep ==
  ASSUME PInv, NEW p \in Pages, execute_fails(p)
  PROVE  TypeInv' /\ PlaceInv' /\ SleepInv' /\ ExecInv'
<1>0. /\ TypeInv /\ ListsTyped /\ FramesTyped /\ "exec_ret" \in Labels
  BY DEF PInv, TypeInv, Labels
<1>1. /\ at(p, "run")
      /\ UNCHANGED <<th, next, prev, child_f, last_f, sys_lock, next_tid, loaded>>
  BY DEF execute_fails, mem, hist
<1>2. StepsTo(p, "exec_ret") /\ fr'[p].pid = 0
  <2>1. ends(p, "exec_ret", 0, TID_ERROR)
    BY DEF execute_fails, answer, ends
  <2> QED BY <1>0, <2>1, EndSteps
<1>3. TypeInv'
  BY <1>0, <1>1, <1>2 DEF TypeInv, ListsTyped, StepsTo
<1>4. PlaceInv'
  BY <1>1, <1>2, PlaceKeeps DEF Live, at, ExecLabels
<1>5. SleepInv'
  <2>1. Awake
    BY <1>1, <1>2 DEF Awake, StepsTo, at
  <2> QED BY <2>1, AwakeKeeps
<1>6. \A q \in Pages : /\ Starting(q)' <=> Starting(q)
                       /\ Awaiting(q)' <=> Awaiting(q)
                       /\ Starting(q) \/ Awaiting(q) => fr'[q] = fr[q]
                       /\ Told(q)' /\ q # p => Told(q)
                       /\ fr'[q].self = fr[q].self
                       /\ q # p => fr'[q] = fr[q]
  BY <1>1, <1>2 DEF StepsTo, Starting, Awaiting, Told, at, LoadLabels
<1>7. AwaitsChild' /\ AwaitsAlone'
  BY <1>6 DEF PInv, ExecInv, AwaitsChild, AwaitsAlone
<1>8. KnowsParent'
  BY <1>1, <1>6 DEF PInv, ExecInv, KnowsParent, at
<1>9. OneUnit'
  BY <1>1, <1>2 DEF PInv, ExecInv, OneUnit, StepsTo, at, Live
<1>10. LoadDecided'
  BY <1>1, <1>2, <1>6 DEF PInv, ExecInv, LoadDecided, StepsTo, at
<1>11. \A c \in Pages : Starting(c) => fr[c].self # 0
  BY DEF PInv, PlaceInv, Starting, Live, LoadLabels, ExecLabels, WaitLabels, Tids
<1>12. TidsApart'
  BY <1>0, <1>1, <1>2, <1>6, <1>11 DEF PInv, ExecInv, TidsApart, TypeInv, StepsTo, at
<1> QED BY <1>3, <1>4, <1>5, <1>7, <1>8, <1>9, <1>10, <1>12 DEF ExecInv

LEMMA ExecuteStep ==
  ASSUME PInv, NEW p \in Pages, NEW c \in Pages, NEW u \in Pages, execute(p, c, u)
  PROVE  TypeInv' /\ PlaceInv' /\ SleepInv' /\ ExecInv'
<1>0. /\ TypeInv /\ ListsTyped /\ FramesTyped /\ "load" \in Labels /\ "find" \in Labels
      /\ th \in [Pages -> Threads] /\ NULL \in Links
      /\ <<>> \in Seq(Pages) /\ <<>> \in Seq(Tids)
  BY NodeFacts DEF PInv, TypeInv, Labels
<1>1. /\ at(p, "run") /\ at(c, "free") /\ c # p /\ UNCHANGED loaded
      /\ next_tid \in Tids /\ next_tid' = next_tid + 1 /\ sys_lock' \in Pages \cup {NULL}
  BY <1>0, ProcessAssumption DEF execute, Live, at, hist, TypeInv, Tids
<1>2. c # main
  BY <1>1 DEF PInv, PlaceInv, at, ExecLabels, WaitLabels
<1>3. PICK V : fr \in [Pages -> Frames(V)]
  BY <1>0 DEF FramesTyped
<1>4. /\ FramesTyped'
      /\ fr'[c].pc = "load" /\ fr'[c].self = next_tid
      /\ fr'[p].pc = "find" /\ fr'[p].self = fr[p].self /\ fr'[p].pid = next_tid /\ fr'[p].page = c
      /\ \A q \in Pages : q # p /\ q # c => fr'[q] = fr[q]
  <2> DEFINE W == V \cup {0, next_tid, fr[u].self}
             f == [fr[p] EXCEPT !.pc = "find", !.pid = next_tid, !.page = c, !.r = fr[u].self]
  <2>1. Frame("load", next_tid) \in Frames(W) /\ f \in Frames(W) /\ \A q \in Pages : fr[q] \in Frames(W)
    BY <1>0, <1>1, <1>3 DEF Frames, Frame, TypeInv
  <2>2. fr' = [fr EXCEPT ![c] = Frame("load", next_tid), ![p] = f]
    BY <1>1, <1>3 DEF execute, Frames
  <2>3. fr' \in [Pages -> Frames(W)] /\ fr'[c] = Frame("load", next_tid) /\ fr'[p] = f
        /\ \A q \in Pages : q # p /\ q # c => fr'[q] = fr[q]
    <3> HIDE DEF f, W
    <3> QED BY <1>1, <1>3, <2>1, <2>2
  <2>4. FramesTyped'
    <3> HIDE DEF W
    <3> QED BY <2>3 DEF FramesTyped
  <2> QED BY <1>3, <2>3, <2>4 DEF Frame, Frames
<1>5. /\ th' \in [Pages -> Threads] /\ th'[c].parent = NULL /\ th'[c].wait = 0 /\ th'[c].wait_c = 0
      /\ th'[c].waiters = <<>> /\ \A q \in Pages : q # c => th'[q] = th[q]
  <2>1. NewThread(next_tid) \in Threads
    BY <1>0, <1>1 DEF NewThread, Threads
  <2> QED BY <1>0, <2>1 DEF execute, NewThread
<1>6. TypeInv'
  <2>1. next' \in [Nodes -> Links] /\ prev' \in [Nodes -> Links]
    BY <1>0, NodeFacts DEF execute, ListsTyped
  <2>2. child_f' \in [Pages -> Seq(Tids)] /\ last_f' \in [Pages -> Tids \cup {0, POISON}]
    BY <1>0 DEF execute, ListsTyped
  <2>3. next_tid' \in Nat /\ next_tid' >= 3
    BY <1>0, <1>1 DEF TypeInv
  <2> QED BY <1>0, <1>1, <1>4, <1>5, <2>1, <2>2, <2>3 DEF TypeInv, ListsTyped
<1>7. PlaceInv'
  <2>1. \A q \in Pages : Live(q) => fr[q].self < next_tid /\ fr[q].self \in Nat
    BY <1>0, FrameShape DEF PInv, PlaceInv
  <2>2. \A q \in Pages : /\ Live(q)' => Live(q) \/ q = c
                         /\ q # c => fr'[q].self = fr[q].self
                         /\ at(q, "pop2")' => at(q, "pop2") /\ fr'[q] = fr[q]
    BY <1>1, <1>4 DEF Live, at
  <2>3. fr'[main].pc \in ExecLabels \cup WaitLabels
    BY <1>2, <1>4, ProcessAssumption DEF PInv, PlaceInv, ExecLabels
  <2> QED BY <1>0, <1>1, <1>2, <1>4, <2>1, <2>2, <2>3, ProcessAssumption DEF PInv, PlaceInv, TypeInv
<1>8. SleepInv'
  <2>1. ASSUME NEW q \in Pages, q # c, NEW i \in 1 .. Len(th[q].waiters)
        PROVE  /\ fr'[th[q].waiters[i]] = fr[th[q].waiters[i]] /\ at(th[q].waiters[i], "asleep")
               /\ fr[th[q].waiters[i]].page = q
    <3>1. th[q].waiters[i] \in Pages /\ at(th[q].waiters[i], "asleep") /\ fr[th[q].waiters[i]].page = q
      BY <1>0, <2>1 DEF PInv, SleepInv, Threads
    <3> QED BY <1>1, <1>4, <3>1 DEF at
  <2> QED BY <1>1, <1>4, <1>5, <2>1 DEF PInv, SleepInv, Live, at
<1>9. th[p].wait = 0
  BY <1>1 DEF PInv, ExecInv, OneUnit, Live, at
<1>10. /\ Awaiting(p)' /\ ~ Awaiting(p) /\ ~ Told(p) /\ ~ Told(p)' /\ ~ Starting(p) /\ ~ Starting(p)'
       /\ ~ Awaiting(c)' /\ ~ Awaiting(c) /\ ~ Told(c) /\ ~ Told(c)' /\ ~ Starting(c) /\ Starting(c)'
       /\ \A q \in Pages : q # p /\ q # c => /\ Starting(q)' <=> Starting(q)
                                             /\ Awaiting(q)' <=> Awaiting(q)
                                             /\ Told(q)' <=> Told(q)
  BY <1>1, <1>4, <1>5 DEF Starting, Awaiting, Told, at, LoadLabels
<1>11. AwaitsChild'
  BY <1>4, <1>10 DEF PInv, ExecInv, AwaitsChild
<1>12. AwaitsAlone'
  BY <1>4, <1>10 DEF PInv, ExecInv, AwaitsAlone, AwaitsChild
<1>13. KnowsParent'
  BY <1>1, <1>4, <1>5, <1>10 DEF PInv, ExecInv, KnowsParent, at
<1>14. OneUnit'
  BY <1>1, <1>4, <1>5, <1>9 DEF PInv, ExecInv, OneUnit, Live, at
<1>15. LoadDecided'
  BY <1>1, <1>4, <1>10 DEF PInv, ExecInv, LoadDecided, at
<1>16. TidsApart'
  <2>1. \A q \in Pages : fr[q].pc \in ExecLabels => fr[q].pid \in Nat /\ fr[q].pid < next_tid
    BY DEF PInv, ExecInv, TidsApart
  <2>2. \A q \in Pages : Told(q) => fr[q].pc \in ExecLabels
    BY DEF Told, at, ExecLabels
  <2>3. \A q \in Pages : fr'[q].pc \in ExecLabels => q # c
    BY <1>4 DEF ExecLabels
  <2>4. next_tid \in Nat /\ next_tid' = next_tid + 1
    BY <1>0, <1>1 DEF TypeInv
  <2>5. /\ \A q \in Pages : fr'[q].pc \in ExecLabels =>
             /\ fr'[q].pid \in Nat /\ fr'[q].pid < next_tid'
             /\ ~ at(q, "exec_ret")' => fr'[q].pid \in Tids
    BY <1>1, <1>4, <2>1, <2>3, <2>4 DEF PInv, ExecInv, TidsApart, at
  <2>6. \A q, s \in Pages :
          fr'[q].pc \in ExecLabels /\ fr'[s].pc \in ExecLabels /\ fr'[q].pid = fr'[s].pid /\ fr'[q].pid # 0
          => q = s
    BY <1>1, <1>4, <2>1, <2>3, <2>4 DEF PInv, ExecInv, TidsApart
  <2>7. \A q, d \in Pages : Told(q)' /\ Starting(d)' => fr'[q].pid # fr'[d].self
    BY <1>4, <1>10, <2>1, <2>2, <2>4 DEF PInv, ExecInv, TidsApart
  <2> QED BY <2>5, <2>6, <2>7 DEF TidsApart
<1> QED BY <1>6, <1>7, <1>8, <1>11, <1>12, <1>13, <1>14, <1>15, <1>16 DEF ExecInv

LEMMA LoadStep ==
  ASSUME PInv, NEW c \in Pages, load(c)
  PROVE  TypeInv' /\ PlaceInv' /\ SleepInv' /\ ExecInv'
<1>0. /\ TypeInv /\ ListsTyped /\ FramesTyped /\ "load_up" \in Labels /\ th \in [Pages -> Threads]
      /\ loaded \in [Tids -> {"unknown", "yes", "no"}]
  BY DEF PInv, TypeInv, Labels
<1>1. at(c, "load") /\ UNCHANGED <<next, prev, child_f, last_f, sys_lock, next_tid>>
  BY DEF load
<1>2. c # main /\ Live(c) /\ Starting(c)
  BY <1>1 DEF PInv, PlaceInv, at, Live, Starting, LoadLabels, ExecLabels, WaitLabels
<1>3. fr[c].self \in Tids
  BY <1>2 DEF PInv, PlaceInv
<1>4. PICK V : fr \in [Pages -> Frames(V)]
  BY <1>0 DEF FramesTyped
<1>5. StepsTo(c, "load_up") /\ fr'[c] = [fr[c] EXCEPT !.pc = "load_up"]
  BY <1>0, GotoSteps DEF load
<1>6. /\ loaded' \in [Tids -> {"unknown", "yes", "no"}] /\ loaded'[fr[c].self] # "unknown"
      /\ \A t : t # fr[c].self => loaded'[t] = loaded[t]
  <2>1. PICK ok \in BOOLEAN : loaded' = [loaded EXCEPT ![fr[c].self] = IF ok THEN "yes" ELSE "no"]
    BY DEF load
  <2> QED BY <1>0, <1>3, <2>1
<1>7. /\ th' \in [Pages -> Threads]
      /\ \A q \in Pages : /\ th'[q].wait = th[q].wait /\ th'[q].wait_c = th[q].wait_c
                          /\ th'[q].parent = th[q].parent /\ th'[q].waiters = th[q].waiters
  <2>1. PICK ok \in BOOLEAN :
          th' = [th EXCEPT ![c].pagedir = TRUE, ![c].tid = IF ok THEN @ ELSE TID_ERROR]
    BY DEF load
  <2>2. CASE ok
    BY <1>0, <2>1, <2>2 DEF Threads
  <2>3. CASE ~ ok
    BY <1>0, <2>1, <2>3 DEF Threads, TID_ERROR
  <2> QED BY <2>2, <2>3
<1>8. TypeInv'
  BY <1>0, <1>1, <1>5, <1>6, <1>7 DEF TypeInv, ListsTyped, StepsTo
<1>9. PlaceInv'
  BY <1>1, <1>2, <1>5, PlaceKeeps
<1>10. SleepInv'
  <2>1. Awake
    BY <1>1, <1>5, <1>7 DEF Awake, StepsTo, at
  <2> QED BY <2>1, AwakeKeeps
<1>11. \A q \in Pages : /\ Starting(q)' <=> Starting(q)
                        /\ Awaiting(q)' <=> Awaiting(q)
                        /\ Told(q)' <=> Told(q)
                        /\ Awaiting(q) \/ Told(q) => q # c
                        /\ fr'[q].self = fr[q].self
                        /\ q # c => fr'[q] = fr[q]
  BY <1>1, <1>5, <1>7 DEF StepsTo, Starting, Awaiting, Told, at, LoadLabels
<1>12. AwaitsChild' /\ AwaitsAlone'
  BY <1>11 DEF PInv, ExecInv, AwaitsChild, AwaitsAlone
<1>13. KnowsParent'
  BY <1>1, <1>7, <1>11 DEF PInv, ExecInv, KnowsParent, at
<1>14. OneUnit'
  BY <1>1, <1>5, <1>7 DEF PInv, ExecInv, OneUnit, StepsTo, at, Live
<1>15. LoadDecided'
  <2>1. \A q \in Pages : Told(q) => fr[q].pid # fr[c].self
    BY <1>2 DEF PInv, ExecInv, TidsApart
  <2>2. \A d \in Pages : at(d, "load_up")' => loaded'[fr'[d].self] # "unknown"
    BY <1>6, <1>11 DEF PInv, ExecInv, LoadDecided, at
  <2>3. \A q \in Pages : Told(q)' /\ ~ at(q, "exec_ret")' => loaded'[fr'[q].pid] # "unknown"
    BY <1>6, <1>11, <2>1 DEF PInv, ExecInv, LoadDecided, at
  <2> QED BY <2>2, <2>3 DEF LoadDecided
<1>16. TidsApart'
  <2>1. \A q \in Pages : fr'[q].pc \in ExecLabels \/ Told(q)' => q # c
    BY <1>5, <1>11 DEF StepsTo, ExecLabels
  <2> QED BY <1>1, <1>11, <2>1 DEF PInv, ExecInv, TidsApart, at
<1> QED BY <1>8, <1>9, <1>10, <1>12, <1>13, <1>14, <1>15, <1>16 DEF ExecInv

LEMMA LoadUpStep ==
  ASSUME PInv, NEW c \in Pages, load_up(c), ~ Panic, NEW p, p = th[c].parent
  PROVE  TypeInv' /\ PlaceInv' /\ SleepInv' /\ ExecInv'
<1>0. /\ TypeInv /\ ListsTyped /\ FramesTyped /\ "run" \in Labels /\ th \in [Pages -> Threads]
  BY DEF PInv, TypeInv, Labels
<1>1. /\ at(c, "load_up") /\ p \in Pages /\ UNCHANGED <<next, prev, sys_lock, next_tid, loaded>>
      /\ th' = [th EXCEPT ![p].wait = @ + 1]
  BY DEF load_up
<1>2. c # main /\ Live(c) /\ Starting(c)
  BY <1>1 DEF PInv, PlaceInv, at, Live, Starting, LoadLabels, ExecLabels, WaitLabels
<1>3. fr[c].self \in Tids
  BY <1>2 DEF PInv, PlaceInv
<1>4. p # NULL
  BY <1>1, ProcessAssumption
<1>5. at(p, "exec_down") /\ th[p].wait = 0 /\ fr[p].page = c
  BY <1>2, <1>4 DEF PInv, ExecInv, KnowsParent
<1>6. p # c /\ Awaiting(p) /\ fr[p].pid = fr[c].self
  BY <1>1, <1>5 DEF PInv, ExecInv, AwaitsChild, Awaiting, at
<1>7. /\ child_f' \in [Pages -> Seq(Tids)] /\ last_f' \in [Pages -> Tids \cup {0, POISON}]
      /\ \E l \in {"run", "pop"} : StepsTo(c, l)
  <2>1. CASE exiting(c, -1)
    BY <1>3, <2>1, ExitingSteps
  <2>2. CASE goto(c, "run") /\ UNCHANGED <<child_f, last_f>>
    BY <1>0, <2>2, GotoSteps DEF ListsTyped
  <2> QED BY <1>1, <2>1, <2>2 DEF load_up
<1>8. PICK l \in {"run", "pop"} : StepsTo(c, l)
  BY <1>7
<1>9. /\ th' \in [Pages -> Threads] /\ th'[p].wait = 1
      /\ \A q \in Pages : /\ th'[q].wait_c = th[q].wait_c /\ th'[q].parent = th[q].parent
                          /\ th'[q].waiters = th[q].waiters
                          /\ q # p => th'[q] = th[q]
  <2>1. th[p].wait + 1 = 1
    BY <1>5
  <2> QED BY <1>0, <1>1, <2>1 DEF Threads
<1>10. TypeInv'
  BY <1>0, <1>1, <1>7, <1>8, <1>9 DEF TypeInv, ListsTyped, StepsTo
<1>11. PlaceInv'
  BY <1>1, <1>2, <1>8, PlaceKeeps
<1>12. SleepInv'
  <2>1. Awake
    BY <1>1, <1>8, <1>9 DEF Awake, StepsTo, at
  <2> QED BY <2>1, AwakeKeeps
<1>13. fr'[p] = fr[p]
  BY <1>1, <1>6, <1>8 DEF StepsTo
<1>14. /\ ~ Starting(c)' /\ ~ Awaiting(c) /\ ~ Awaiting(c)' /\ ~ Told(c) /\ ~ Told(c)'
       /\ ~ Awaiting(p)' /\ Told(p)' /\ ~ Starting(p) /\ ~ Starting(p)'
       /\ \A q \in Pages : /\ q # c => fr'[q] = fr[q] /\ (Starting(q)' <=> Starting(q))
                           /\ q # p => (Awaiting(q)' <=> Awaiting(q)) /\ (Told(q)' <=> Told(q))
  BY <1>1, <1>5, <1>6, <1>8, <1>9, <1>13 DEF StepsTo, Starting, Awaiting, Told, at, LoadLabels
<1>15. \A q \in Pages : Awaiting(q) /\ q # p => fr[q].page # c
  BY <1>1, <1>5, <1>6 DEF PInv, ExecInv, AwaitsAlone
<1>16. AwaitsChild'
  BY <1>14, <1>15 DEF PInv, ExecInv, AwaitsChild
<1>17. AwaitsAlone'
  BY <1>14 DEF PInv, ExecInv, AwaitsAlone
<1>18. KnowsParent'
  <2>1. ASSUME NEW d \in Pages, Starting(d), d # c, th[d].parent # NULL
        PROVE  /\ th[d].parent \in Pages /\ at(th[d].parent, "exec_down") /\ th[d].parent # p
               /\ th[th[d].parent].wait = 0 /\ fr[th[d].parent].page = d
    BY <1>5, <2>1 DEF PInv, ExecInv, KnowsParent
  <2>2. ASSUME NEW d \in Pages, Starting(d), d # c, th[d].parent # NULL
        PROVE  th[d].parent # c
    BY <1>1, <2>1, <2>2 DEF at
  <2> QED BY <1>9, <1>14, <2>1, <2>2 DEF KnowsParent, at
<1>19. OneUnit'
  BY <1>1, <1>5, <1>8, <1>9, <1>13, <1>14 DEF PInv, ExecInv, OneUnit, StepsTo, at, Live
<1>20. LoadDecided'
  <2>1. loaded[fr[p].pid] # "unknown"
    BY <1>1, <1>6 DEF PInv, ExecInv, LoadDecided
  <2> QED BY <1>1, <1>8, <1>13, <1>14, <2>1 DEF PInv, ExecInv, LoadDecided, StepsTo, at
<1>21. TidsApart'
  <2>1. ASSUME NEW d \in Pages, Starting(d)'
        PROVE  fr'[d] = fr[d] /\ d # c /\ Starting(d) /\ fr[d].self # fr[p].pid
    <3>1. d # c /\ fr'[d] = fr[d] /\ Starting(d) /\ Live(d)
      BY <1>14, <2>1 DEF Starting, Live, LoadLabels
    <3> QED BY <1>2, <1>6, <3>1 DEF PInv, PlaceInv
  <2>2. \A q \in Pages : fr'[q].pc \in ExecLabels => q # c
    BY <1>8 DEF StepsTo, ExecLabels
  <2> QED BY <1>1, <1>13, <1>14, <2>1, <2>2 DEF PInv, ExecInv, TidsApart, at
<1> QED BY <1>10, <1>11, <1>12, <1>16, <1>17, <1>18, <1>19, <1>20, <1>21 DEF ExecInv

-----------------------------------------------------------------------------
(* The invariant and the theorems *)

LEMMA PInvInit ==
  ASSUME Init
  PROVE  PInv
<1> USE ProcessAssumption
<1>0. NULL \in Links /\ POISON \in Links /\ Nodes \subseteq Links /\ <<>> \in Seq(Pages) /\ <<>> \in Seq(Tids)
  BY NodeFacts DEF Links
<1>1. /\ th \in [Pages -> Threads]
      /\ th[main].wait = 0 /\ th[main].wait_c = 0 /\ th[main].waiters = <<>>
      /\ \A p \in Pages \ {main} : th[p].wait = 1 /\ th[p].wait_c = 1 /\ th[p].waiters = <<>>
  BY <1>0 DEF Init, NewThread, Freed, Threads
<1>2. next \in [Nodes -> Links] /\ prev \in [Nodes -> Links]
  BY <1>0, NodeFacts DEF Init
<1>3. child_f \in [Pages -> Seq(Tids)] /\ last_f \in [Pages -> Tids \cup {0, POISON}]
  BY <1>0 DEF Init
<1>4. fr \in [Pages -> Frames({0})]
  BY <1>0 DEF Init, Frame, Frames, Labels
<1>5. FramesTyped
  BY <1>4 DEF FramesTyped
<1>6. /\ fr[main].pc = "run" /\ fr[main].self = 1
      /\ \A p \in Pages \ {main} : fr[p].pc = "free"
  BY DEF Init, Frame
<1>7. TypeInv
  BY <1>1, <1>2, <1>3, <1>5 DEF Init, TypeInv, ListsTyped
<1>8. PlaceInv
  BY <1>6 DEF Init, PlaceInv, Live, at, ExecLabels, WaitLabels
<1>9. SleepInv
  <2>1. \A p \in Pages : Len(th[p].waiters) = 0
    BY <1>1
  <2> QED BY <1>1, <1>6, <2>1 DEF SleepInv, Live, at
<1>10. \A p \in Pages : ~ Starting(p) /\ ~ Awaiting(p) /\ ~ Told(p) /\ fr[p].pc \notin ExecLabels
  BY <1>6 DEF Starting, Awaiting, Told, at, ExecLabels, LoadLabels
<1>11. ExecInv
  <2>1. OneUnit
    BY <1>1, <1>6 DEF OneUnit, Live, at
  <2>2. \A p \in Pages : ~ at(p, "load_up")
    BY <1>6 DEF at
  <2> QED BY <1>10, <2>1, <2>2
          DEF ExecInv, AwaitsChild, AwaitsAlone, KnowsParent, LoadDecided, TidsApart
<1> QED BY <1>7, <1>8, <1>9, <1>11 DEF PInv

LEMMA PInvStutter ==
  ASSUME PInv, UNCHANGED <<mem, fr, sys_lock, next_tid, loaded>>
  PROVE  PInv'
<1>1. UNCHANGED <<th, next, prev, child_f, last_f>>
  BY DEF mem
<1> QED
  BY <1>1
  DEF PInv, TypeInv, ListsTyped, FramesTyped, PlaceInv, SleepInv, ExecInv, AwaitsChild, AwaitsAlone,
      KnowsParent, OneUnit, LoadDecided, TidsApart, Starting, Awaiting, Told, Live, at

LEMMA PInvStep ==
  ASSUME PInv, [Next]_vars
  PROVE  PInv'
<1>1. CASE UNCHANGED vars
  BY <1>1, PInvStutter DEF vars, hist
<1>2. CASE Panic
  BY <1>2, PInvStutter DEF Panic, hist
<1>3. ASSUME NEW p \in Pages, ~ Panic, Call(p) \/ KernelStep(p)
      PROVE  PInv'
  <2>1. CASE \E c, u \in Pages : execute(p, c, u)
    BY <2>1, ExecuteStep DEF PInv
  <2>2. CASE execute_fails(p) \/ exec_down(p) \/ exec_check(p) \/ exec_return(p) \/ link(p)
    BY <2>2, ExecFailsStep, ExecDownStep, ExecCheckStep, ExecReturnStep, LinkStep DEF PInv
  <2>3. CASE find(p)
    BY <1>3, <2>3, FindStep DEF PInv
  <2>4. CASE load(p)
    BY <2>4, LoadStep DEF PInv
  <2>5. CASE load_up(p)
    <3>1. PICK q : q = th[p].parent
      OBVIOUS
    <3> QED BY <1>3, <2>5, <3>1, LoadUpStep DEF PInv
  <2>6. CASE \/ \E x \in {-1} \cup 3 .. next_tid - 1 : wait(p, x)
             \/ look(p) \/ advance(p) \/ claim(p) \/ test(p) \/ collect(p) \/ wait_return(p)
    <3>1. Moves(p) /\ FramesTyped' /\ UNCHANGED <<mem, sys_lock>>
      BY <1>3, <2>6, WaitMoves
    <3>2. TypeInv'
      BY <3>1 DEF PInv, TypeInv, ListsTyped, Moves, mem
    <3> QED BY <3>1, <3>2, MovesKeeps DEF PInv
  <2>7. CASE \/ mark(p) \/ \E status \in Statuses \cup {-1} : exit(p, status)
             \/ pop(p) \/ pop2(p) \/ orphan(p) \/ orphan2(p) \/ unlink(p) \/ unlink2(p)
             \/ record(p) \/ push(p) \/ push2(p) \/ finish(p)
    BY <1>3, <2>7, ExitMoves, MovesKeeps DEF PInv
  <2>8. CASE sleep(p) \/ up(p) \/ die(p)
    BY <2>8, SleepStep, UpStep, DieStep DEF PInv
  <2> QED BY <1>3, <2>1, <2>2, <2>3, <2>4, <2>5, <2>6, <2>7, <2>8 DEF Call, KernelStep
<1> QED BY <1>1, <1>2, <1>3 DEF Next

THEOREM ProcessInvariant == Spec => []PInv
<1>1. Init => PInv
  BY PInvInit
<1>2. PInv /\ [Next]_vars => PInv'
  BY PInvStep
<1> QED BY <1>1, <1>2, PTL DEF Spec

\* The types, with the bounds of the two semaphores: whatever stale pointers
\* are followed, sema_up (&parent->wait) and sema_up (&cur->wait_c) are never
\* applied to one that is already raised.
THEOREM ProcessTypeCorrect == Spec => []ProcessTypeOK
<1>1. PInv => ProcessTypeOK
  <2> SUFFICES ASSUME PInv
               PROVE  ProcessTypeOK
    OBVIOUS
  <2>1. th \in [Pages -> Threads] /\ \A p \in Pages : th[p].wait \in 0 .. 1 /\ th[p].wait_c \in 0 .. 1
    BY DEF PInv, TypeInv, ExecInv, OneUnit, SleepInv
  <2>2. \A p \in Pages : fr[p].pc \in Labels
    BY FrameShape DEF PInv, TypeInv
  <2> QED BY <2>1, <2>2 DEF PInv, TypeInv, ListsTyped, ProcessTypeOK, Threads
<1> QED BY <1>1, ProcessInvariant, PTL

\* start_process raises the semaphore of a parent that sleeps, in
\* process_execute, for this very child.
THEOREM LoadHandshakeHolds == Spec => []LoadHandshake
<1>1. PInv => LoadHandshake
  BY DEF PInv, ExecInv, KnowsParent, LoadHandshake, Starting, LoadLabels, at
<1> QED BY <1>1, ProcessInvariant, PTL

\* When the sema_down of process_execute is over, load has returned.
THEOREM ExecKnowsHolds == Spec => []ExecKnows
<1>1. PInv => ExecKnows
  BY DEF PInv, ExecInv, LoadDecided, Told, ExecKnows, at
<1> QED BY <1>1, ProcessInvariant, PTL
=============================================================================
