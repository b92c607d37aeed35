--------------------------------- MODULE VM ---------------------------------
(***************************************************************************)
(* Virtual memory of pintos/src2: the frame table and its clock            *)
(* (vm/frame.c), the supplemental page tables (vm/page.c), swap            *)
(* (vm/swap.c), and what drives them: page faults, the system calls that   *)
(* pin their buffer, munmap and process_exit.                              *)
(*                                                                         *)
(* frame_lock protects the frame table and nothing else, and its holder    *)
(* may sleep in a disk transfer.  An action is what a process does between *)
(* two points where what another process does could matter to it.  The     *)
(* content of a page is <<process, page, version>>; version 0 is what the  *)
(* page starts with, zeros or its part of a file.                          *)
(***************************************************************************)
EXTENDS Naturals, Sequences, FiniteSets, SequencesExt

CONSTANTS
  Procs,               \* processes, of one thread each
  Stack, Code, Mapped, \* user pages: that fault in as the stack grows, of the
                       \* executable and read-only, mapped by mmap one by one
  Frames,              \* the pages of the user pool, numbered
  Slots,               \* the swap slots, numbered
  Buffers,             \* the buffers system calls are given: the pages each lies in
  NULL,
  MaxVersion           \* bound: writes to each page

UPages == Stack \cup Code \cup Mapped

\* The blocks malloc has for frame_nodes, and those that hold the mmap_nodes,
\* which are of the same size and go to frame_nodes once munmap has freed them.
NodeBlocks == 1 .. Cardinality(Frames) + Cardinality(Procs)
Mappings   == Procs \X Mapped
Nodes      == 1 .. Cardinality(NodeBlocks) + Cardinality(Mappings)
mmap_node  == CHOOSE f \in [Mappings -> Nodes \ NodeBlocks] : \A x, y \in Mappings : f[x] = f[y] => x = y

ASSUME VMAssumption ==
  /\ Stack \cap Code = {} /\ Stack \cap Mapped = {} /\ Code \cap Mapped = {}
  /\ NULL \notin Frames \cup Procs \cup UPages \cup Nodes
  /\ Frames \subseteq Nat /\ Slots \subseteq Nat \ {0}
  /\ IsFiniteSet(Frames) /\ IsFiniteSet(Slots) /\ IsFiniteSet(Procs) /\ IsFiniteSet(UPages)
  /\ Buffers \subseteq Seq(UPages) \ {<<>>}
  /\ MaxVersion \in Nat

VARIABLES
  free,        \* free pages of the user pool
  data,        \* what each frame holds
  spte, pte,   \* the supplemental page table and the page directory of each process
  node, heap,  \* frame_nodes; the free ones, the one malloc takes next first
  frame_list, frame_map, frame_ptr,
  frame_lock, sys_lock,
  swap_map,    \* TRUE: the slot is free
  swap,        \* what each slot holds
  file,        \* the version of each page in its file
  loc,         \* where each process is, and the locals of the call it is in
  written,     \* history: the last version written to each page
  panic

table == <<node, heap, frame_list, frame_map, frame_ptr>>
pages == <<data, spte, pte, file, written>>
slots == <<swap_map, swap>>
vars  == <<free, table, frame_lock, sys_lock, slots, loc, pages, panic>>

Junk   == <<NULL, NULL, 0>>
NoPte  == [frame |-> NULL, present |-> FALSE, writable |-> FALSE, accessed |-> FALSE, dirty |-> FALSE]
NoNode == [t |-> NULL, upage |-> NULL, kpage |-> NULL, pinned |-> FALSE]
NoSpte == [status |-> "NONE", kpage |-> NULL, swap_id |-> 0, dirty |-> FALSE]

Init ==
  /\ free = Frames
  /\ data = [k \in Frames |-> Junk]
  /\ spte = [p \in Procs |-> [u \in UPages |->
               IF u \in Stack THEN NoSpte ELSE [NoSpte EXCEPT !.status = "FILE"]]]
  /\ pte = [p \in Procs |-> [u \in UPages |-> NoPte]]
  /\ node = [n \in Nodes |-> NoNode]
  /\ heap = [i \in NodeBlocks |-> i]
  /\ frame_list = <<>>
  /\ frame_map = [k \in Frames \cup {NULL} |-> NULL]
  /\ frame_ptr = NULL
  /\ frame_lock = NULL
  /\ sys_lock = NULL
  /\ swap_map = [s \in Slots |-> TRUE]
  /\ swap = [s \in Slots |-> Junk]
  /\ file = [p \in Procs |-> [u \in UPages |-> 0]]
  /\ loc = [p \in Procs |-> [pc |-> "user", buf |-> <<>>, i |-> 1, k |-> NULL, n |-> NULL, s |-> 0, back |-> "user",
                          exits |-> FALSE]]
  /\ written = [p \in Procs |-> [u \in UPages |-> 0]]
  /\ panic = FALSE

-----------------------------------------------------------------------------
(* Building blocks *)

at(p, l) == loc[p].pc = l /\ ~ panic
page(p)  == loc[p].buf[loc[p].i]      \* the page the call is at
entry(p) == spte[p][page(p)]         \* get_spte

jump(p, l)       == loc' = [loc EXCEPT ![p].pc = l]
jumpk(p, l, k)   == loc' = [loc EXCEPT ![p].pc = l, ![p].k = k]
call(p, l, b, r) == loc' = [loc EXCEPT ![p].pc = l, ![p].buf = b, ![p].back = r]
\* A loop over the pages of the buffer: once more with label l, or out of it.
advance(p, l, out, r) ==
  LET at_page == loc[p] IN
  loc' = [loc EXCEPT ![p] = IF at_page.i < Len(at_page.buf)
                            THEN [at_page EXCEPT !.pc = l, !.i = at_page.i + 1]
                            ELSE [at_page EXCEPT !.pc = out, !.i = 1, !.back = r]]

home(p, l) ==
  loc' = [loc EXCEPT ![p] = [pc |-> l, buf |-> <<>>, i |-> 1, k |-> NULL, n |-> NULL, s |-> 0, back |-> "user",
                             exits |-> @.exits \/ l = "exit"]]

\* A failed ASSERT, or a pointer followed to where nothing is.
Panic ==
  /\ panic' = TRUE
  /\ UNCHANGED <<free, table, frame_lock, sys_lock, slots, loc, pages>>

\* Back from load_page, to the user (a process whose fault failed is killed),
\* to the next step of a system call, or to the access that faulted in it: the
\* kernel does not survive that one failing.
return(p, ok) ==
  \/ ok /\ loc[p].back = "user" /\ home(p, "user") /\ UNCHANGED panic
  \/ ok /\ loc[p].back # "user" /\ jump(p, loc[p].back) /\ UNCHANGED panic
  \/ ~ ok /\ loc[p].back = "user" /\ home(p, "exit") /\ UNCHANGED panic
  \/ ~ ok /\ loc[p].back = "pin" /\ jump(p, "pin") /\ UNCHANGED panic
  \/ ~ ok /\ loc[p].back \in {"io", "write_back"} /\ panic' = TRUE /\ UNCHANGED loc

lowest(S) == CHOOSE x \in S : \A y \in S : x <= y

\* A node for process p and frame k, k NULL if palloc found none; the frame
\* is lost if malloc has no block, and in either case NULL is returned.
new_node(p, k) ==
  LET n == Head(heap) IN
  IF heap = <<>>
  THEN free' = free \ {k} /\ UNCHANGED table /\ return(p, FALSE)
  ELSE
  /\ IF k = NULL THEN return(p, FALSE) ELSE jumpk(p, "fill", k) /\ UNCHANGED panic
  /\ node' = [node EXCEPT ![n] = [t |-> p, upage |-> page(p), kpage |-> k, pinned |-> TRUE]]
  /\ heap' = Tail(heap)
  /\ frame_list' = Append(frame_list, n)
  /\ frame_map' = IF frame_map[k] = NULL THEN [frame_map EXCEPT ![k] = n] ELSE frame_map
  /\ free' = free \ {k}
  /\ UNCHANGED frame_ptr

\* frame_free (k, free_page) finds k in the table, and to free in the pool.
freeable(k, free_page) ==
  /\ k \in Frames /\ frame_map[k] # NULL
  /\ free_page => k \notin free

\* Mutant: the node stays in the clock's list.
forget_map(k) ==
  /\ frame_map' = [frame_map EXCEPT ![k] = NULL]
  /\ node' = [node EXCEPT ![frame_map[k]] = NoNode]
  /\ UNCHANGED frame_list

\* The node of frame k leaves the table.
forget(k) ==
  /\ frame_map' = [frame_map EXCEPT ![k] = NULL]
  /\ node' = [node EXCEPT ![frame_map[k]] = NoNode]
  /\ frame_list' = RemoveAt(frame_list, CHOOSE i \in DOMAIN frame_list : frame_list[i] = frame_map[k])

frame_free(k, free_page) ==
  /\ forget(k)
  /\ heap' = <<frame_map[k]>> \o heap
  /\ free' = IF free_page THEN free \cup {k} ELSE free
  /\ UNCHANGED frame_ptr

\* frame_set_pinned (k, pin): what it does once it has frame_lock.
set_pinned(k, pin) == node' = [node EXCEPT ![frame_map[k]].pinned = pin]

\* Mutant: the page is not made not present.
clear_page_left(pd, p, u) == pd

\* pagedir_clear_page: the other bits stay.
clear_page(pd, p, u) == [pd EXCEPT ![p][u].present = FALSE]

\* Mutant: what was written before the page was last swapped out is forgotten.
is_dirty_now(p, u) == pte[p][u].dirty

\* The kernel reads and writes user pages at user addresses, so the dirty bit
\* of the frame's kernel address never says more.
is_dirty(p, u) == spte[p][u].dirty \/ pte[p][u].dirty

unlocked == frame_lock = NULL

-----------------------------------------------------------------------------
(* The clock.  Past the end of the list frame_next returns what lies around    *)
(* its tail as if it were a node.  The byte read for its pinned is whatever    *)
(* the linker has put there; the model takes  it not to be 0, as with          *)
(* frame_lock's list of waiters next to frame_list, and the clock goes on.     *)

\* Two turns over the list, from the node after the hand: what pick_frame's loop sees.
clock ==
  LET i    == IF frame_ptr = NULL THEN 0 ELSE CHOOSE i \in DOMAIN frame_list : frame_list[i] = frame_ptr
      turn == SubSeq(frame_list, i + 1, Len(frame_list)) \o SubSeq(frame_list, 1, i)
  IN turn \o turn

\* Where it sees a node that is not pinned.
evictable == {i \in DOMAIN clock : ~ node[clock[i]].pinned}

\* pick_frame looks at the accessed bit that the page has in the page directory
\* of the process that needs a frame, whoever the page belongs to, and clears it.
pick(p) ==
  lowest({i \in evictable :
            \/ ~ pte[p][node[clock[i]].upage].accessed
            \/ \E j \in evictable : j < i /\ node[clock[j]].upage = node[clock[i]].upage})

passed(p) == {node[clock[i]].upage : i \in {j \in evictable : j < pick(p)}}

\* The node the clock stands on was freed and not allocated again.
lost_hand == frame_ptr # NULL /\ ~ Contains(frame_list, frame_ptr)

-----------------------------------------------------------------------------
(* The user program *)

\* An access to a page that is present; the processor sets the bits.
touch(p, u, w) ==
  LET v == written[p][u] + 1 IN
  /\ pte[p][u].present
  /\ pte' = [pte EXCEPT ![p][u].accessed = TRUE, ![p][u].dirty = @ \/ w]
  /\ IF w THEN /\ pte[p][u].writable /\ written[p][u] < MaxVersion
               /\ written' = [written EXCEPT ![p][u] = v]
               /\ data' = [data EXCEPT ![pte[p][u].frame] = <<p, u, v>>]
          ELSE UNCHANGED <<written, data>>
  /\ UNCHANGED <<spte, file>>

access(p, u, w) ==
  /\ at(p, "user")
  /\ touch(p, u, w)
  /\ UNCHANGED <<free, table, frame_lock, sys_lock, slots, loc, panic>>

\* page_fault: a page below the stack gets its entry, and the page is loaded.
page_fault(p, u) ==
  /\ at(p, "user") /\ ~ pte[p][u].present
  /\ spte' = IF u \in Stack /\ spte[p][u].status = "NONE"
             THEN [spte EXCEPT ![p][u].status = "ALL_ZERO"] ELSE spte
  /\ call(p, "load", <<u>>, "user")
  /\ UNCHANGED <<free, table, frame_lock, sys_lock, slots, data, pte, file, written, panic>>

\* page_fault: a write to a read-only page; the process is killed.
rights_violation(p, u) ==
  /\ at(p, "user") /\ pte[p][u].present /\ ~ pte[p][u].writable
  /\ home(p, "exit")
  /\ UNCHANGED <<free, table, frame_lock, sys_lock, slots, pages, panic>>

-----------------------------------------------------------------------------
(* load_page and frame_allocate *)

load_page(p) ==
  /\ at(p, "load")
  /\ \/ entry(p).status = "NONE" /\ return(p, FALSE)
     \/ entry(p).status = "ON_FRAME" /\ return(p, TRUE)
     \/ entry(p).status \notin {"NONE", "ON_FRAME"} /\ jump(p, "allocate") /\ UNCHANGED panic
  /\ UNCHANGED <<free, table, frame_lock, sys_lock, slots, pages>>

\* A frame was free.
frame_allocate(p) ==
  /\ at(p, "allocate") /\ unlocked /\ free # {}
  /\ new_node(p, lowest(free))
  /\ UNCHANGED <<frame_lock, sys_lock, slots, pages>>

\* None was: the victim's page is made not present and swap_write starts.
evict(p) ==
  LET victim == clock[pick(p)]
      t      == node[victim].t
      u      == node[victim].upage
      clear  == [pte EXCEPT ![p] = [x \in UPages |-> [pte[p][x] EXCEPT !.accessed = @ /\ x \notin passed(p)]]]
      used   == {s \in Slots : swap_map[s]}
  IN
  /\ at(p, "allocate") /\ unlocked /\ free = {}
  /\ IF lost_hand \/ evictable = {} \/ used = {}
     THEN Panic
     ELSE /\ frame_lock' = p
          /\ frame_ptr' = victim
          /\ pte' = clear_page(clear, t, u)
          /\ loc' = [loc EXCEPT ![p].pc = "evicting", ![p].n = victim, ![p].s = lowest(used)]
          /\ UNCHANGED <<free, node, heap, frame_list, frame_map, sys_lock, slots,
                         data, spte, file, written, panic>>

\* Mutant: the slot is not marked.
swap_write_unmarked(s, k) == swap' = [swap EXCEPT ![s] = data[k]] /\ UNCHANGED swap_map

swap_write(s, k) ==
  /\ swap' = [swap EXCEPT ![s] = data[k]]
  /\ swap_map' = [swap_map EXCEPT ![s] = FALSE]

\* swap_write is over; the entry of the victim's page says where it is.
evicted(p) ==
  LET v == node[loc[p].n]
      s == loc[p].s
  IN
  /\ at(p, "evicting")
  /\ IF spte[v.t][v.upage].status = "NONE"
     THEN Panic
     ELSE /\ swap_write(s, v.kpage)
          /\ spte' = [spte EXCEPT ![v.t][v.upage] =
                       [status |-> "SWAP", kpage |-> NULL, swap_id |-> s,
                        dirty |-> is_dirty(v.t, v.upage)]]
          /\ frame_lock' = NULL
          /\ jump(p, "evicted")
          /\ UNCHANGED <<free, table, sys_lock, data, pte, file, written, panic>>

\* The lock is free when node->kpage is read again to be passed to frame_free.
read_kpage(p) ==
  /\ at(p, "evicted")
  /\ jumpk(p, "free_victim", node[loc[p].n].kpage)
  /\ UNCHANGED <<free, table, frame_lock, sys_lock, slots, pages, panic>>

free_victim(p) ==
  /\ at(p, "free_victim") /\ unlocked
  /\ IF ~ freeable(loc[p].k, TRUE)
     THEN Panic
     ELSE /\ frame_free(loc[p].k, TRUE)
          /\ jump(p, "again")
          /\ UNCHANGED <<frame_lock, sys_lock, slots, pages, panic>>

\* palloc_get_page is tried again; its NULL is put in the table all the same.
frame_allocated(p) ==
  /\ at(p, "again") /\ unlocked
  /\ new_node(p, IF free = {} THEN NULL ELSE lowest(free))
  /\ UNCHANGED <<frame_lock, sys_lock, slots, pages>>

\* The rest of load_page: the frame filled, mapped, and unpinned.  A file gives
\* the bytes its entry asks for, and pagedir_set_page finds a page table.
fill(p) ==
  LET u == page(p)
      k == loc[p].k
      s == entry(p).swap_id
      swapped == entry(p).status = "SWAP" /\ ~ swap_map[s]
  IN
  /\ at(p, "fill")
  /\ data' = CASE entry(p).status = "ALL_ZERO" -> [data EXCEPT ![k] = <<p, u, 0>>]
               [] entry(p).status = "FILE"     -> [data EXCEPT ![k] = <<p, u, file[p][u]>>]
               [] swapped                      -> [data EXCEPT ![k] = swap[s]]
               [] OTHER                        -> data
  /\ swap_map' = IF swapped THEN [swap_map EXCEPT ![s] = TRUE] ELSE swap_map
  /\ pte' = [pte EXCEPT ![p][u] = [NoPte EXCEPT !.frame = k, !.present = TRUE,
               !.writable = entry(p).status = "FILE" => u \notin Code]]
  /\ spte' = [spte EXCEPT ![p][u].status = "ON_FRAME", ![p][u].kpage = k]
  /\ jump(p, "unpin")
  /\ UNCHANGED <<free, table, frame_lock, sys_lock, swap, file, written, panic>>

\* frame_set_pinned (kpage, false), at the end of load_page and in unpin_page.
unpin(p) ==
  /\ at(p, "unpin") /\ unlocked
  /\ IF frame_map[loc[p].k] = NULL
     THEN Panic
     ELSE /\ set_pinned(loc[p].k, FALSE)
          /\ return(p, TRUE)
          /\ UNCHANGED <<free, heap, frame_list, frame_map, frame_ptr, frame_lock, sys_lock, slots, pages>>

-----------------------------------------------------------------------------
(* read and write: the pages of their buffer are loaded and pinned *)

\* is_valid_addr reads both ends of the buffer.  The read of the first is an
\* access of p, which page_fault may precede; with that of the last, here, the
\* pages have entries: the ends were read, and no buffer has a hole inside.
syscall(p, b) ==
  /\ at(p, "user")
  /\ \A i \in DOMAIN b : spte[p][b[i]].status # "NONE"
  /\ touch(p, Last(b), FALSE)
  /\ call(p, "sys_lock", b, "pin")
  /\ UNCHANGED <<free, table, frame_lock, sys_lock, slots, panic>>

sys_locked(p) ==
  /\ at(p, "sys_lock") /\ sys_lock = NULL
  /\ sys_lock' = p
  /\ jump(p, "load")
  /\ UNCHANGED <<free, table, frame_lock, slots, pages, panic>>

\* pin_page reads kpage, then waits for frame_lock in frame_set_pinned.
pin_page(p) ==
  /\ at(p, "pin")
  /\ IF entry(p).status = "NONE" THEN advance(p, "load", "io", "io")
                                 ELSE jumpk(p, "set_pinned", entry(p).kpage)
  /\ UNCHANGED <<free, table, frame_lock, sys_lock, slots, pages, panic>>

pinned(p) ==
  /\ at(p, "set_pinned") /\ unlocked
  /\ IF frame_map[loc[p].k] = NULL
     THEN Panic
     ELSE /\ set_pinned(loc[p].k, TRUE)
          /\ advance(p, "load", "io", "io")
          /\ UNCHANGED <<free, heap, frame_list, frame_map, frame_ptr, frame_lock, sys_lock, slots, pages, panic>>

\* file_read and file_write use the buffer through its user address, and may
\* fault there.
transfer(p, w) ==
  /\ at(p, "io")
  /\ \/ touch(p, page(p), w) /\ advance(p, "io", "unpin_page", "unpinned")
     \/ ~ pte[p][page(p)].present /\ jump(p, "load") /\ UNCHANGED pages
  /\ UNCHANGED <<free, table, frame_lock, sys_lock, slots, panic>>

\* read () into a buffer that is read-only: the kernel jumps to address eax.
transfer_violates(p) ==
  /\ at(p, "io") /\ pte[p][page(p)].present /\ ~ pte[p][page(p)].writable
  /\ Panic

unpin_page(p) ==
  /\ at(p, "unpin_page")
  /\ IF entry(p).status = "ON_FRAME" THEN jumpk(p, "unpin", entry(p).kpage) ELSE jump(p, "unpinned")
  /\ UNCHANGED <<free, table, frame_lock, sys_lock, slots, pages, panic>>

unpinned(p) ==
  /\ at(p, "unpinned")
  /\ advance(p, "unpin_page", "done", "user")
  /\ UNCHANGED <<free, table, frame_lock, sys_lock, slots, pages, panic>>

syscall_returns(p) ==
  /\ at(p, "done")
  /\ sys_lock' = NULL
  /\ home(p, "user")
  /\ UNCHANGED <<free, table, frame_lock, slots, pages, panic>>

-----------------------------------------------------------------------------
(* munmap, of the one page of a mapping, and process_exit *)

mapped(p) == {u \in Mapped : spte[p][u].status # "NONE"}

\* munmap by the program, or by process_exit for each mapping; spt_unmap reads
\* kpage before it waits for frame_lock to unpin the page.
munmap(p, u) ==
  /\ at(p, "user") \/ at(p, "exit")
  /\ sys_lock = NULL
  /\ u \in mapped(p)
  /\ sys_lock' = p
  /\ loc' = [loc EXCEPT ![p] = [@ EXCEPT
               !.pc = IF spte[p][u].status = "ON_FRAME" THEN "unmap_unpin" ELSE "unmap",
               !.buf = <<u>>, !.k = spte[p][u].kpage, !.back = "write_back"]]
  /\ UNCHANGED <<free, table, frame_lock, slots, pages, panic>>

unmap_unpin(p) ==
  /\ at(p, "unmap_unpin") /\ unlocked
  /\ IF frame_map[loc[p].k] = NULL
     THEN Panic
     ELSE /\ set_pinned(loc[p].k, FALSE)
          /\ jump(p, "unmap")
          /\ UNCHANGED <<free, heap, frame_list, frame_map, frame_ptr, frame_lock, sys_lock, slots, pages, panic>>

\* hash_delete, and the end of munmap: the mmap_node is freed.
unmapped(p, h) ==
  /\ spte' = [spte EXCEPT ![p][page(p)] = NoSpte]
  /\ heap' = <<mmap_node[<<p, page(p)>>]>> \o h
  /\ sys_lock' = NULL
  /\ home(p, IF loc[p].exits THEN "exit" ELSE "user")

\* The switch of spt_unmap.  swap_free leaves the slot as it was.
spt_unmap(p) ==
  LET u == page(p)
      e == entry(p)
      dirty == is_dirty(p, u)
      saved == e.status = "SWAP" /\ dirty
  IN
  /\ at(p, "unmap")
  /\ IF e.status = "ON_FRAME"
     THEN /\ jumpk(p, IF dirty THEN "write_back" ELSE "unmap_free", e.kpage)
          /\ UNCHANGED <<heap, spte, sys_lock, swap_map, file>>
     ELSE /\ unmapped(p, heap)
          /\ file' = IF saved THEN [file EXCEPT ![p][u] = swap[e.swap_id][3]] ELSE file
          /\ swap_map' = IF saved THEN [swap_map EXCEPT ![e.swap_id] = TRUE] ELSE swap_map
  /\ UNCHANGED <<free, node, frame_list, frame_map, frame_ptr, frame_lock, swap, data, pte, written, panic>>

write_back(p) ==
  LET u == page(p) IN
  /\ at(p, "write_back")
  /\ IF pte[p][u].present
     THEN /\ file' = [file EXCEPT ![p][u] = data[pte[p][u].frame][3]]
          /\ pte' = [pte EXCEPT ![p][u].accessed = TRUE]
          /\ jumpk(p, "unmap_free", entry(p).kpage)
     ELSE jump(p, "load") /\ UNCHANGED <<file, pte>>
  /\ UNCHANGED <<free, table, frame_lock, sys_lock, slots, data, spte, written, panic>>

unmap_free(p) ==
  /\ at(p, "unmap_free") /\ unlocked
  /\ IF ~ freeable(loc[p].k, TRUE)
     THEN Panic
     ELSE /\ forget(loc[p].k)
          /\ free' = free \cup {loc[p].k}
          /\ unmapped(p, <<frame_map[loc[p].k]>> \o heap)
          /\ pte' = clear_page(pte, p, page(p))
          /\ UNCHANGED <<frame_ptr, frame_lock, slots, data, file, written, panic>>

exit(p) ==
  /\ \/ at(p, "user") /\ home(p, "exit")
     \/ at(p, "exit") /\ mapped(p) = {} /\ jump(p, "destroy")
  /\ UNCHANGED <<free, table, frame_lock, sys_lock, slots, pages, panic>>

\* hash_destroy takes an entry out and spte_destroy frees what it has; swap_free
\* leaves the slot as it was.
spte_destroy(p, u) ==
  /\ at(p, "destroy") /\ spte[p][u].status # "NONE"
  /\ spte' = [spte EXCEPT ![p][u] = NoSpte]
  /\ IF spte[p][u].kpage = NULL THEN UNCHANGED loc ELSE jumpk(p, "destroy_free", spte[p][u].kpage)
  /\ UNCHANGED <<free, table, frame_lock, sys_lock, slots, data, pte, file, written, panic>>

destroy_free(p) ==
  /\ at(p, "destroy_free") /\ unlocked
  /\ IF ~ freeable(loc[p].k, FALSE)
     THEN Panic
     ELSE /\ frame_free(loc[p].k, FALSE)
          /\ jump(p, "destroy")
          /\ UNCHANGED <<frame_lock, sys_lock, slots, pages, panic>>

\* The pages still present go back to the pool.
pagedir_destroy(p) ==
  LET left == {pte[p][u].frame : u \in {v \in UPages : pte[p][v].present}} IN
  /\ at(p, "destroy") /\ \A u \in UPages : spte[p][u].status = "NONE"
  /\ IF left \cap free # {}
     THEN Panic
     ELSE /\ free' = free \cup left
          /\ pte' = [pte EXCEPT ![p] = [u \in UPages |-> NoPte]]
          /\ home(p, "dead")
          /\ UNCHANGED <<table, frame_lock, sys_lock, slots, data, spte, file, written, panic>>

-----------------------------------------------------------------------------

Step(p) ==
  \/ load_page(p) \/ frame_allocate(p) \/ evict(p) \/ evicted(p) \/ read_kpage(p)
  \/ free_victim(p) \/ frame_allocated(p) \/ fill(p) \/ unpin(p)
  \/ sys_locked(p) \/ pin_page(p) \/ pinned(p) \/ transfer_violates(p) \/ unpin_page(p) \/ unpinned(p) \/ syscall_returns(p)
  \/ unmap_unpin(p) \/ spt_unmap(p) \/ write_back(p) \/ unmap_free(p)
  \/ exit(p) \/ destroy_free(p) \/ pagedir_destroy(p)
  \/ \E w \in BOOLEAN : transfer(p, w)
  \/ \E b \in Buffers : syscall(p, b)
  \/ \E u \in UPages :
       \/ page_fault(p, u) \/ rights_violation(p, u)
       \/ munmap(p, u) \/ spte_destroy(p, u)
       \/ \E w \in BOOLEAN : access(p, u, w)

Next == \E p \in Procs : Step(p)

Spec == Init /\ [][Next]_vars

-----------------------------------------------------------------------------
(* Properties *)

Pcs == {"user", "sys_lock", "load", "allocate", "evicting", "evicted", "free_victim", "again", "fill", "unpin",
        "pin", "set_pinned", "io", "unpin_page", "unpinned", "done", "unmap_unpin", "unmap", "write_back",
        "unmap_free", "exit", "destroy", "destroy_free", "dead"}

\* Type invariant.
VMTypeOK ==
  /\ free \subseteq Frames
  /\ DOMAIN frame_map = Frames \cup {NULL} /\ Range(frame_map) \subseteq Nodes \cup {NULL}
  /\ Range(frame_list) \cup Range(heap) \subseteq Nodes
  /\ Range(frame_list) \cap Range(heap) = {}
  /\ frame_lock \in Procs \cup {NULL} /\ sys_lock \in Procs \cup {NULL}
  /\ \A p \in Procs : loc[p].pc \in Pcs
  /\ \A p \in Procs, u \in UPages :
       /\ spte[p][u].status \in {"NONE", "ALL_ZERO", "FILE", "SWAP", "ON_FRAME"}
       /\ spte[p][u].swap_id \in Slots \cup {0}
       /\ pte[p][u].frame \in Frames \cup {NULL}

\* The last version written to a page is where its entry says the page is.
PageIntegrity ==
  panic \/ \A p \in Procs, u \in UPages :
    LET e == spte[p][u]
        v == <<p, u, written[p][u]>>
    IN /\ pte[p][u].present /\ e.status = "ON_FRAME" => data[pte[p][u].frame] = v
       /\ e.status = "SWAP" => swap[e.swap_id] = v
       /\ e.status \in {"FILE", "ALL_ZERO"} => written[p][u] = file[p][u]
       /\ u \in Mapped /\ e.status = "NONE" => written[p][u] = file[p][u]

\* A slot a page is in is in use, and the slot of that page alone.
SlotsPrivate ==
  panic \/ \A p, q \in Procs : \A u, v \in UPages :
    spte[p][u].status = "SWAP" =>
      /\ ~ swap_map[spte[p][u].swap_id]
      /\ spte[q][v].status = "SWAP" /\ spte[q][v].swap_id = spte[p][u].swap_id => <<p, u>> = <<q, v>>

\* A page present has a frame of its own, and one the pool does not give away.
FramesPrivate ==
  panic \/ \A p, q \in Procs : \A u, v \in UPages :
    pte[p][u].present =>
      /\ pte[p][u].frame \notin free
      /\ pte[q][v].present /\ pte[q][v].frame = pte[p][u].frame => <<p, u>> = <<q, v>>

=============================================================================
