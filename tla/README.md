# Verification of the Pintos kernel

TLA+ models, model-checking runs and machine-checked proofs for the Pintos
kernel kept in this repository. The repository holds several copies of the
kernel, one per course project; the last and most complete is
`src/pintos_4/src`, and that is the one modelled unless a section says
otherwise. Paths below are relative to it.

## 1. Inventory

| Part | State | Operations | What must be right |
|---|---|---|---|
| scheduler, `threads/thread.c` | `ready_list`, `all_list`, `idle_thread`, `thread_ticks`, each thread's `status` and `elem` | create, block, unblock, yield, exit, tick, idle | exact lists, somebody to run, no freed page reachable, FIFO, preemption |
| synchronization, `threads/synch.c` | semaphore values and wait lists, lock holders, condition wait lists; `tid_lock` and `next_tid` as clients | `sema_*`, `lock_*`, `cond_*`, `allocate_tid` | mutual exclusion, no lost wake-up, no signal spent twice, FIFO, refinement of a monitor |
| process life cycle, `userprog/process.c` | parent links, child lists, exit records, two semaphores per thread | execute, start, wait, exit | exec's answer, wait's answer, no freed page touched, nobody asleep for ever |
| system calls, `userprog/syscall.c`, `filesys/file.c` | `sys_lock`, fd lists, positions, deny-write counts | 20 handlers | lock released on every path, descriptors exact, executables not written |
| buffer cache, `filesys/buffer_cache.c` | 64 entries, lock per entry, clock hand | read, write, evict, flush | a copy of the disk: one entry per sector, no write lost |
| inodes, `filesys/inode.c` | open-inode list, lengths, sector index, deny-write counts | create, open, close, remove, read, write, grow | sectors neither lost nor shared, length monotone, removed inode freed once |
| directories, `filesys/directory.c`, `filesys/filesys.c`; free map, `filesys/free-map.c` | entries, current directory, allocation bitmap | create, open, remove, mkdir, chdir | a name refers to one inode, failures leave no debris |
| allocators, `threads/palloc.c`, `threads/malloc.c` | bitmaps, arenas, free lists | get, free | no page or block given twice |
| interrupt queues, `devices/intq.c`, `devices/input.c`, `devices/serial.c`, `devices/kbd.c` | two 64-byte rings, one waiting thread each way, the interrupt enable register | getc, putc, keyboard and serial handlers, polling, flush | FIFO, no byte lost, no wake-up lost, the register follows the queues |
| virtual memory, `../../pintos/src2/vm` and what calls it in `userprog` | frame table and clock, page tables, swap bitmap | fault, evict, pin, munmap, exit | a frame has one page, no dirty page lost, no slot lost |
| alarm, `../../pintos/src2` | `ticks_sleep` per thread | sleep, tick | nobody wakes early, nobody sleeps for ever |
| drivers, boot, library, tests | registers, containers | | pure input and output or assembly: not modelled |

**Interaction.** Everything above the scheduler runs in threads that can be
preempted at any instruction where interrupts are on. Components call one
another directly and protect shared state with the primitives of `synch.c`;
the primitives protect theirs by turning interrupts off. Interrupt handlers
call `sema_up`, `thread_unblock` and `thread_tick` only. A parent and a child
process share pages (`struct thread`) and semaphores in them. The file system
is entered under `sys_lock` from system calls and without it from `load` and
process exit. Interrupt handlers fill the input buffer and empty the transmit
queue that threads empty and fill. A page fault may happen in user code and in a
system call that holds `sys_lock`; it takes `frame_lock` and may evict a page of
any process.

**Hard behaviours.** Preemption between any two loads and stores; threads that
wake and find what they waited for taken; pointers into the stack frame or the
page of a thread that may be gone; the boot, when there is no idle thread yet;
locks released and taken again around a check; handlers that move what a thread
has just tested; the disk full half way through a call. `PROJECT.json` lists each hazard at its line with the properties
that cover it.

## 2. Modules

| Module | Stands for | Role |
|---|---|---|
| `Scheduler` | `threads/thread.c` | state machine of the scheduler; also the building blocks Synch uses |
| `Synch` | `threads/synch.c`, `allocate_tid`, the boot handshake | EXTENDS `Scheduler`; programs for the threads |
| `Monitor` | what the comments of `synch.c` promise | abstract specification of locks and conditions |
| `Process` | `userprog/process.c`, exec, wait and exit of `userprog/syscall.c`, `find_thread`, the list operations they use | state machine of the life cycle of processes |
| `Serial` | `devices/intq.c`, `devices/input.c`, `devices/serial.c`, `keyboard_interrupt` | state machine of both interrupt queues and the UART |
| `ByteQueue` | what the comments of `intq.c` promise | abstract bounded FIFO |
| `FileSys` | `filesys/free-map.c`, `filesys/inode.c`, creation, opening, removal in `filesys/filesys.c`, `file_close` | state machine of the files on disk |
| `FileStore` | what the file system calls promise | abstract specification: files are byte sequences |
| `VM` | `../../pintos/src2`: `vm/*.c`, `page_fault`, pinning in `read` and `write`, `munmap`, `process_exit` | state machine of frames, pages and swap |
| `MCScheduler`, `MCSynch`, `MCProcess`, `MCSerial`, `MCFileSys`, `MCVM` | | instances for TLC |
| `SchedulerProofs`, `SynchProofs`, `WakeupProofs`, `CondProofs`, `SerialProofs`, `ProcessProofs`, `VMProofs`, `FileSysProofs` | | theorems, checked by TLAPS |

### Scheduler

A thread *is* the page its `struct thread` lives in; a page can carry several
threads one after the other, so that a list that keeps a dead thread is seen
to hold a freed page. The variables are the statics of `thread.c`
(`ready_list`, `all_list`, `idle_thread`, `thread_ticks`), each thread's
`status` (plus `FREE` for a page without a thread), `current` for
`running_thread ()`, and `newborn`, the local variable `t` of `thread_create`.
A section that runs with interrupts off, with the context switch that ends it,
is one step. The operators `block`, `unblock`, `yield`, `tick`, `die` and
`schedule` are the functions of the same name; the actions `thread_block`,
`thread_yield`, ... apply them for a thread that may do anything.
`schedule ()` puts the choice of `next`, the switch and
`thread_schedule_tail` (new slice, page of a dead thread freed) in one step,
as the code does with interrupts off. Priorities are stored by the code and
read nowhere, and so are not in the model.

### Synch

Gives the threads of `Scheduler` the programs of `synch.c`. `pc[t]` is where
thread `t` is in the kernel; at `"run"` it may call anything the assertions of
`synch.c` allow (it does not acquire a lock it has, it releases only locks it
has). Every point where interrupts are on between two accesses to shared state
is a separate `pc`: after `sema_down` and before `holder` is set (`own`), after
`holder` is cleared and before `sema_up` (`release_up`), between the load and
the store of `next_tid++`, between `list_push_back`, `lock_release` and
`sema_down` in `cond_wait`. A thread in the loop of `sema_down`
(`looping`) has interrupts off; when it is switched out the processor's flag
follows the new thread, which is why `InterruptsOn` asks about `current` only.
A lock's semaphore has the lock's name; the semaphore on a waiter's stack in
`cond_wait` has the waiter's name. Devices may `sema_up` or `sema_try_down`
any of `Semas` at any time interrupts are on.

Abstracted: the names of interrupts and the timer's frequency; the contents
of stacks; the order of `all_list`.

### Monitor

Locks with at most one owner, and conditions on which `Wait` releases the lock
and queues the caller in one step, `Signal` wakes the longest waiter. The
refinement mapping in `Synch` makes a thread an owner from the moment its
`sema_down` succeeds to the moment `sema_up` runs, and a waiter from the moment
the lock is given up, so `cond_wait`'s several steps appear as one.

### Process

Parent and child communicate through fields of their `struct thread`s, two
semaphores (`wait`, `wait_c`) and two lists, and hold no lock while they do.
So the module goes down to single accesses to memory and is independent of
`Scheduler`: any thread may take the next step, which is what preemption
(`Scheduler`, `Synch`) amounts to; the two semaphores have the meaning `Synch`
checks, an up being one step and a sleeper that is woken testing again.

*Memory.* `th[p]` is the struct thread in page `p`. When a thread dies its page
is filled with 0xcc (`palloc_free_multiple`): `Freed` is what every field then
reads as (`POISON` for pointers, true for Booleans). `thread_create` may take
the page again. A thread's own knowledge, the locals of the call it is in, is in
its frame `fr[p]` and does not change when somebody writes to its page.
Following `NULL` or `POISON`, or failing an ASSERT, is `Panic`, after which
nothing happens.

*Lists.* `child_list` is its links: `next` and `prev` of every `child_elem` and
of the head and tail of every list, so that two threads in `list_push_back` and
`list_remove` can leave it half linked, and a removed or freed element can be
followed. The list of exit records, `child_f`, is the sequence reached forwards
from its head and `last_f`, what its tail points back to: a push is a link from
the last record and then a link from the tail, and two pushes can lose one.

*Steps.* One load, test or store of shared memory is a step, except that
these are taken together: `thread_create` with the start of `find_thread`;
the loads of `list_push_back` with its stores except the last one;
one element of a search with the test on it; the walk of a search through
`child_f`; the loop of `process_exit` that frees the caller's own records;
the copy into a new record; `finished` with `pagedir` (whoever reads the
second reads the first). Coarser steps have fewer interleavings, so what
a violation run shows really happens; the passing properties are about
the handshake of exec, whose accesses are each a step, or a single child.

*Abstracted.* `load` and `set_arg` succeed or fail. A page given back is used
again for a struct thread only. `find_thread` may be preempted once, at any
thread it has come to: if that thread is gone when the walk goes on, its links
are 0xcc and the walk panics. `main` executes and waits as `run_task` does but
never exits (the kernel is run without `-q`, so the machine stays up). `exec` may
find no page for the copy of the command line or for the thread at any time
(`execute_fails`); the page of `real`, whose absence the code does not test
(`process.c:45`) and would write through, is always there. A record's page is
not reused. `fd_list`, `file` and the user stack belong to other modules.

The history variables `loaded`, `outcome` and `due` record what really happened
and what each process is still entitled to be told; no guard reads them.

### Serial and ByteQueue

Both interrupt queues in their one composition: `rx`, filled by the keyboard
and serial handlers and emptied by `input_getc`, and `tx`, filled by
`serial_putc` and emptied by the serial handler. All of it runs with interrupts
off, so an action is what runs until the thread returns or sleeps: in
`lock_acquire` (`pc = "lock"`) or in `wait ()` (`"wait"`). A thread comes out of
either in an action of its own. Out of `wait ()` it tests again, as the loop of
`intq_getc` does; out of `lock_acquire` it does not, and `wait ()` asserts what
the loop had tested (`lock_acquired`). The interrupt enable register is what
`write_ier` computes, where the code calls it. `serial_putc_off` is
`serial_putc` with interrupts off: by polling before `serial_init_queue`,
through the queue after it, one byte by polling where the queue is full. The
UART is external: a byte arrives, the transmitter becomes ready. Of a queue's
two pointers to a waiting thread each queue uses one (only readers wait on
`rx`), which is `waiter`; `get` clears the slot it has read, which the code does
not, so that a slot read twice would be seen. `ByteQueue` is a bounded FIFO whose step
puts a byte in, takes the oldest out, or does both to make room; before it is in
use (`open`) bytes go out without it, and none after. Both queues implement it.

### FileSys and FileStore

System calls hold `sys_lock` from their first access to the file system to
their last, so each is one action that makes every change of the call.
`fs` is the disk: the sectors in use and, kept apart by kind, the inodes, the
index blocks and the data. `byte_to_sector`, `locate_byte` (`isDirect`, `index1`,
...), `register_sector` and `inode_update_file_length` (`grow_by`, `clear_rest`)
are the functions of those names over the index arithmetic of the code, with
the block sizes as constants; the loop of growth (`turns`, a recursive function)
goes on carrying `ok = FALSE` once a sector could not be had. What a failed call leaves
behind is what the code leaves: index blocks and data sectors allocated and
recorded nowhere, the inode on disk as it was, and `extend_lock` held for ever
(`inode.c:316`), so that the next write to the file fails the assertion of
`lock_acquire` or sleeps with `sys_lock` held (`stop`). `free_inode_sectors`
frees the direct sectors. For a file with an indirect block its loops leave the
file's data for what `misread` says, and the model has their outcome, a failed
assertion, in place of their turns (section 6).

The buffer cache is taken at its interface, a copy of the disk. For
the kernel as it stands this is a real assumption: `buffer_cache_write` takes the
lock of an entry it has not looked up yet, through an uninitialised pointer
(`buffer_cache.c:57`), and `Makefile.build` leaves the file out, so that the
kernel as it is does not link. `FileSys` says what the inode layer does over a
cache that works.

Abstracted: names are entries of one directory with room for all; bytes are 0
or 1 (1 is what processes write, 0 what growth fills in); a process opens a
file once; `malloc` succeeds; the free map's own file, which nothing reads again.
`FileStore` has names, open files and their bytes. In the refinement mapping a
file's bytes are read through the index, and a removed file that nobody has open
has none.

### VM

The virtual memory of `src/pintos/src2`, the latest kernel in the repository
whose virtual memory is initialised (that of `src11.27` is compiled and never
called). `frame_lock` protects the frame table and nothing else, and its holder
sleeps in disk transfers, so an action is what a process does between two points
where another process matters: `frame_allocate` is `evict` (victim chosen,
unmapped, swap slot chosen), `evicted` (written out, its entry says SWAP, lock
released), `read_kpage`, `free_victim` and `frame_allocated`. Page faults, and
the loops of `read` and `write` that load, pin and unpin the buffer's pages,
share `load_page`; `loc[p].back` says where it returns to.

A page's content is `<<process, page, version>>`, so a frame, slot or file part
with somebody else's or an older content shows. `node` are the blocks
of `struct frame_node`, `heap` the free ones, last freed first as `malloc` has
them, `frame_list` and `frame_map` the clock's list and the hash. The
clock (`pick_frame`) is modelled by what its loop sees: the nodes not pinned
from the hand on, two turns. It tests the accessed bit in the page directory of
the process that wants a frame, whoever the page belongs to, as the code does.
The hand may stand on a node that is gone (`lost_hand`): nothing in `frame_free`
moves it, and the kernel follows it. That happens to one process alone: `munmap`
frees the node the hand is on, then a block of the same size (the mapping's
`mmap_node`), which `malloc` gives out first. `swap_free` returns without freeing
(`swap.c:46` lacks a `;` after `return`), so slots are lost at exit.

Taken for granted in `VM`: that a file gives the bytes an entry asks for and that the
kernel pool has a page for a page table, so `load_page` does not fail once it
has a frame (were the second false, a page whose slot `swap_read` has
given back would be lost: `vm/page.c:162`); that what lies behind the tail of
`frame_list`, which `frame_next` reads as a node, reads as pinned; that a buffer
whose two ends have entries has no page without one inside, as in the runs,
where it has at most two pages. `is_valid_addr`'s read of the first end
is an `access` like any other of the program, that of the last is in `syscall`.

Not in `VM`: `mmap`, `load_segment` and `setup_stack` (mappings and pages of the
executable exist at the start), descriptors, and `exec`.

## 3. Runs

| Run | Checks | Bounds |
|---|---|---|
| `scheduler` | type, exact ready list and `all_list`, a thread to run, hidden newborns; no overtaking, no idling past work; every READY thread runs | 5 pages, slice 2 |
| `synch` | mutual exclusion, exact wait lists and condition lists, no lost wake-up, unique tids, kernel assertions; FIFO wake-up; refinement of `Scheduler` and `Monitor`; holder hand-over | 4 pages, one lock, one condition, one semaphore of values to 2, slice 1, tids to 5; a fifth page for creations that overlap |
| `synch_live` | boot completes, a free lock is taken, a signalled thread wakes | 4 pages, one lock, one condition, tids to 4 |
| `process` | type; a child raises `wait` only of the parent that sleeps for it; exec knows how the load went, and returns unless the kernel panics | main and 2 pages, two processes (`MaxTid` 4) |
| `serial` | type; the interrupt enable register follows the queues; nobody sleeps on work; both queues are FIFOs; sleepers are served | 2 readers, a writer, rings of 3 slots, one byte of each source, one polled byte |
| `filesys` | type; sectors private; none lost while no call failed; refinement of `FileStore` | 2 processes, 2 names, 9 free sectors of 2 bytes, 1 direct and 2 indirect entries, 4 creations and writes |
| `vm` | type; a page's last version is where its entry says; slots private; frames private | 1 process, a stack page, a code page, a mapped page, 2 frames, 4 slots, 2 versions |
| `process_early_child` | finding: the kernel survives a child that is quicker than its parent | as `process` |
| `process_status` | finding: wait returns what the child exited with | as `process` |
| `process_wait_returns` | finding: wait for a process that is gone returns | as `process` |
| `filesys_removal` | finding: the last close of a removed file frees its sectors | as `filesys` |
| `vm_parallel` | finding: a page keeps what was written to it, of two processes that compete for frames | 2 processes, 2 stack pages each, 2 frames, 3 slots, 1 version |

**Bounds.** With `TIME_SLICE = 1` every tick preempts, so every interleaving at
the granularity of `pc` is explored; slice 2 in `Scheduler` exercises the count.
Four pages are main, idle and two threads that die and whose pages are used
again (`MaxTid`: no thread is created once `next_tid` is beyond it, and 5 gives
pages used again); two threads and main suffice for one to
barge between another's wake-up and its turn while a third holds the lock, and
interrupt handlers raise the bare semaphore to 2 (`MaxValue`), so that several
ups meet several sleepers. Two calls of `thread_create` at once take five pages:
main, idle, a second creator and two newborns. `synch` has the fifth, under a
state constraint (`Overlap` in `MCSynch`): it is the last to be used, and from then on
threads only create and take turns, so that one sleeps on `tid_lock` while the other
is between the load and the store of `next_tid++`, and both get their tids. Its
mutant of `UniqueTids`, a `lock_acquire` that does not wait, breaks nothing
with four pages. The safety results do not hang on these
bounds where a theorem exists (section 5). Symmetry is used in safety runs
only, on the pages that the initial state does not name and on the processes and
names of `FileSys`.

In `Process`, two processes can be siblings, or the second the child of the
first, and with two pages the second can live in the page of the first. The
safety properties were also checked once with three processes (`MaxTid` 5, 10.9
million states, same result).

In `Serial` a ring of 3 slots holds 2 bytes, wraps around, is full and is empty,
and two readers contend for `rx`'s lock. In `FileSys` offsets 0, 1 and 5 with sizes 1
and 4 write inside a sector, across the border of every index level and past a gap, and
nine free sectors run out in the middle of a growth, in each of the three places
that allocate. In `VM` three pages compete for two frames, a buffer of two pages
pins both, and slots run out because they are not freed. The passing run has one
process; with two, `PageIntegrity` is false (`vm_parallel`).

Deadlock is checked of `Scheduler` and `Synch`, where the timer keeps the
system going. It is not of `Process`, which really stops: the kernel panics, or
no process is left and `main` waits for nothing more; nor of `Serial` (flush, a
panic), `FileSys` (`stop`, the bound on calls) and `VM` (every process dead).

## 4. Fairness

`scheduler` assumes, for `ReadyRuns`, only that the timer goes on interrupting
(`WF(thread_tick)`), which is the hardware's promise; threads may compute for
ever. `synch_live` adds, for each thread, strong fairness of the kernel code it
is in (`SF(current = t /\ KernelStep)`): a slice is `TIME_SLICE` = 4 ticks of
10 ms, and a step of the model is a few instructions, so a thread that gets the
processor again and again makes progress. Nothing obliges a thread to call or
to leave its own code. A thread that asks for a lock may still starve: locks
barge (`lock_try_acquire`, or a running thread, can take the value a sleeper
was woken for) and the sleeper goes to the end of the list. So the liveness
stated is of the lock (a free lock is taken), not of each thread.

`Process` assumes weak fairness of each thread's steps inside the kernel
(`WF(KernelStep(p))`): round robin gives every READY thread its turn
(`ReadyRuns`), a thread asleep on a semaphore has no step, and no system call
is obliged to be made. `sys_lock` is taken in the step that calls exec, so no
thread waits for it inside the kernel.

`Serial` assumes weak fairness of a thread that has been made ready, of the serial
interrupt while it is enabled and pending, and of the transmitter. Nobody is
obliged to type, to read or to write: `SleepersServed` is about a writer, whom
the transmitter serves, and a reader while there are bytes.

## 5. Proofs

All theorems hold for every number of pages, locks, semaphores, conditions,
readers, writers and slots of a ring, every time slice and unbounded tids and
values (in `Process`, every bound `MaxTid` on them), from `SchedulerAssumption`,
`SynchAssumption`, `SerialAssumption`, `ProcessAssumption`, `VMAssumption` and
`FileSysAssumption` alone
(distinct names, naturals where the code has counts, and in `VM` finite sets of
frames, slots, processes and pages). Three theorems about `VM` assume one
process besides, for the reason given below.

`SchedulerProofs`. The inductive invariant is `TypeOK /\ SchedInv`:
`ReadyListExact`, `OneRunning`, `AlwaysSomeoneToRun`, `AllListExact`,
`NewbornHidden` and `IdleSafe`. `OneRunning` is what makes a yield or a block
leave the lists exact, and `IdleSafe` (the idle thread never blocks before it
has announced itself, never creates, never dies) is what makes
`AlwaysSomeoneToRun` inductive. Each building block is one lemma; each action
is one step that cites it. `RoundRobin` and `WorkConserving` are action
properties proved from the same invariant.

`SynchProofs`. The inductive invariant `SInv` adds to the scheduler's part
`SynchTypeOK`, the per-label facts `PcInv` (what `sem`, `cond`, `newborn` and
the status are at each `pc`), `WaitListsExact`, `LockExclusion` and
`KernelAsserts`. Mutual exclusion needs the wait lists (a thread that is
woken is not at another label), and the lists need the labels. From it:
`SynchTypeCorrect`, `LocksExclude`, `WaitListsCorrect`, `KernelAssertsHold`,
`HolderChangesHands`, and `SynchUsesScheduler`, the step-wise refinement of
`Scheduler` by `Synch`, through which every theorem about the scheduler holds
of the kernel that runs the primitives.

`TidsAreUnique`, `WakeupProofs` and `CondProofs` each add one invariant to `SInv`.
`TidInv` follows a tid from `next_tid` to the local variable of `allocate_tid` to
`struct thread`: it is in one place, and below `next_tid` except for the thread
about to store it; `KernelAsserts` gives that there is one such thread.
`WakeInv` is `NoLostWakeup` itself with the fact that finitely many threads are in
`sema_down` (the set of threads may be infinite): `sema_up` adds a unit and a woken
thread, a woken thread that takes a unit takes itself off, a barger takes only
a unit. `CondInv` is `CondWaitersExact` with two facts: no thread is signalled by
two others, and a thread between `cond_wait`'s `holder = NULL` and its `sema_up`
releases the condition's own lock; so whoever `cond_signal` pops cannot still
be in front of the release, its signaller having that lock.

`SynchIsMonitor` is the refinement of `Monitor`. A lock's owner is whoever `Owns` it: its
`holder`, or a thread between `sema_down` and `holder = self`, or between `holder = NULL` and
`sema_up`. The threads waiting on a condition are those `Asleep`. It needs one
more fact, `AsleepInv`: on a condition's list everybody but the last is already at its
`sema_down`, because whoever is between `list_push_back` and its `sema_up` still has the
lock. So `Monitor`'s `Wait`, which gives up the lock and joins at once, is that
`sema_up`; its `Signal` is the pop; and a signalled thread counts as running, to ask for the
lock like any other, before it has run.

`SerialProofs`. The type invariant is inductive by itself, and so is
`InterruptsArmed` with it, each step that moves a queue writing the register.
`NobodySleepsOnWork` needs `SerialInv`, per queue: `Placed` (the sleepers are in
`lock_acquire`, each once; the lock is held exactly while its owner is in
`wait ()`; whoever is to be woken is that owner, with nothing to do) and `Led`
(sleepers stand behind an owner, or behind a thread woken and on its way).
`release` moves the first sleeper from the list to the way, which is what keeps
`Led` when the owner leaves. `InputIsFifo` and `OutputIsFifo` are the refinements of
`ByteQueue`: the abstract queue is read out of the ring between `tail` and `head`, so the
work is in two lemmas on `contents`, one for a store at `head` of a ring that is not
full, which appends, and one for a move of `tail` of a ring that is not empty, which
takes the front. `SendInv` adds that `tx` is empty, and nobody in `intq_putc`, before
`serial_init_queue`, and that whoever is in `intq_putc` has a byte to send. `StaysOpen`: nothing
goes back to polling.

`ProcessProofs`. `PInv` has four parts: `TypeInv`; `PlaceInv` (tids tell live
threads apart, `main` neither starts nor exits); `SleepInv` (whoever is in a list of
waiters sleeps there and nowhere else, a child raises `wait_c` once); and `ExecInv`,
which ties a parent in `process_execute` to its child in `start_process`: the child
in the parent's `child_t` is still starting and has that parent alone, the
pointer it has is to that parent asleep, the one unit of `wait` is there for that
sleep, and no other `exec` is about to return the tid. `LoadHandshake` and `ExecKnows`
follow, and the bounds of the semaphores in `ProcessTypeOK`. Stale pointers are
what makes it long: a thread may write `already_wait`, `wait_c`, `parent = NULL` or a
list link into a page another thread has taken over, so every such store has to
be shown not to touch `wait`, nor to make a `parent` out of nothing. The theorems
say nothing of what those stores do break, `NoPanic` and `WaitTellsStatus`, which are
false (section 6).

`VMProofs`. `VMInv` holds of any number of processes, the races of `vm_parallel`
included: `Types`; `Calls` (what the locals of a process are at each `pc`); `Lists` (the
free blocks and the clock's list are apart and hold each node once, and `frame_map`
leads from different frames to different nodes of the list); and `Mmaps`, that the
`mmap_node` of a page still mapped is in neither. From it `VMTypeCorrect`.

`OnePageIntegrity`, `OneSlotsPrivate` and `OneFramesPrivate` assume that `Procs` has one
element, because of two processes they are false: `frame_allocate` gives up
`frame_lock` between the eviction and `frame_free` (section 6). They hold of any number
of pages, frames, slots and buffers. `OneInv` says, as long as the kernel has not
panicked, for every page where its last version is (`Saved`), that no two pages share
a slot or a frame (`Sole`) and, until the process begins to give its pages back, that
every page on a frame is in the frame table and still dirty if its file is older
(`Held`), that every node of the list is of a page on its frame (`Listed`), and what `At`
says of the locals. `Held` and `Listed` each have exceptions, and these carry the
proof: between `pagedir_clear_page` and the end of `swap_write` the victim is not
present, and between the victim's `status = SWAP` and `frame_free` its node is in the list
with no page behind it. `At` says that the node is the one the process
has in hand, and `Sole` that the frame is nobody else's. The invariant was first
checked by TLC on the instance of `vm`, where it led to the clause that a page being
evicted is not present.

`FileSysProofs` holds of any number of files and processes, any disk and any sizes of
a sector and of the index. A file's index is taken as a function `ptr` from its *places*
(`Roles`: the inode, the two blocks the inode names, the second-level blocks, the sectors of
bytes) to sectors. `FSInv` is `Typed`; `OneName` (two names never stand for one file);
`Sound`: no sector is in two places of any files and those in a place are in use
(`Private`), and each file is `Whole`, with a sector for each of its bytes, no direct
pointer past them, and index blocks only where there are sectors for them; and, as long
as no call has failed, `Full`: nothing is in the index past a file's end (`Neat`) and
every sector in use is in a place. `Neat` and `Full` are really lost with the first
failure: the places a failed growth filled stay in the index blocks and in no inode.
`Private` over places is what is inductive, `SectorsPrivate` is not: a file that grows
fills places its length does not yet cover, and a file that failed to grow may grow
again into index blocks that still name what the first try took.

The argument goes up through the code. `Levels` and `OnePlace` say that the arithmetic of
`locate_byte` gives each sector number its own place; `RegistersSector`, from one lemma per
case of `register_sector`, how each way of storing a pointer changes the places (one
is filled, at most two are new blocks, none moves); `Turns` one turn of
`inode_update_file_length`; `AllTurns` the loop, by going to the first turn that
would break the claim, since an induction theorem cannot be cited; `Grows` a whole growth,
which `CreateKeeps` and `WriteKeeps` use for success and for failure. `FreeKeeps` needs
`Whole`: a file without an indirect block has its sectors in its direct pointers, all of
which `free_inode_sectors` gives back. From `FSInv`: `FSTypeCorrect`; `FilesApart`, with a
bijection from the sector numbers to the sectors of bytes for its cardinality; and
`NothingLeaks`.

`FilesAreStored` is the refinement of `FileStore`, call by call. What `FileStore` sees is
`Stored`, the bytes `content` of every file. It needs no invariant beyond `FSInv`: `Whole` makes
byte `pos` of a file the byte `at` its place (`ContentAt`), and `Private` makes that place no
other byte's. `GrowthBytes` says what growth does to bytes on disk: it clears the rest of
the last sector, where no byte of any file was, fills new places with zeros, and leaves every
byte a file had, in that file and in all others, also when it stops half way.
`WrittenBytes` says that the loop of `inode_write_at` changes the bytes written in
the file written and nothing else. So a call that fails is a stutter of `FileStore`
(`Kept`), and the rest are its `Create`, `Remove`, `Open`, `Close` and `Write`.

Every safety property of the passing runs has a theorem, those of `VM` that need it for
one process. Model-checked only is liveness, which is out of the prover's reach. That a page
survives more than one process is false, so there is nothing to prove.

## 6. Where the code disagrees with its comments and documentation

Each is a run whose counterexample TLC prints. The first three are in `process.c`
and come from the same decision, to share `struct thread`s without a lock.

- `NoPanic`. `process_execute` sets `child_t->parent` (line 64) after
  `thread_create` has made the child ready. The comment on line 27 says the
  child may even exit first; a child that only finishes loading first follows
  a NULL `parent` into `sema_up` (108, 113). The same run can reach the
  panic through `find_thread`, which walks `all_list` with interrupts on.
- `WaitTellsStatus`. A child leaves `child_list` (328) before its record is in
  `child_f` (333): a wait in between finds neither and returns -1. Records
  lost by two children that exit at once break it too.
- `WaitReturns`. `process_wait` sets `already_wait` and tests `finished`
  (263, 265); `process_exit` tests `already_wait` and sets `finished` (336, 339):
  a wait that falls in between sleeps on a semaphore nobody raises.
- `RemovedFilesFreed`. `free_inode_sectors` reads `double_indirect_block_sec`
  where it means `indirect_block_sec` (703). A removed file with an indirect
  block makes it take the words of sector 0, or pointers it has just released,
  for sectors of the file: `free_map_release` fails its assertion.
- `PageIntegrity`, with two processes. `frame_allocate` releases `frame_lock`
  between writing the victim out and `frame_free (node->kpage, true)` (src2,
  `vm/frame.c:56`). The node is still in the table and not pinned: a second
  process evicts it again.

Smaller ones that the models contain and no run singles out: after a failed load
the parent reads `child_t->tid` (`process.c:66`) from a page that may be free; nothing
marks the record of a child that exited before the first wait, so every later
wait returns its status again; two readers of the input buffer would fail `wait ()`'s
assertion (`intq.c:91`), but nothing in the kernel reads it any more: `read` of
descriptor 0 returns -1 before it comes to `input_getc` (`userprog/syscall.c:317`); a page
of the executable that comes back from swap is writable (src2, `vm/page.c:144`).

## 7. Not modelled, and the plan

- `buffer_cache.c`: it is not linked, and no write through it would work
  (section 2), so there is nothing it could be held to.
- System calls other than those named: descriptors, positions, deny-write
  counts. Planned: `FdTable`, and with it `process_exit`'s closes, which do not
  take `sys_lock`, beside other calls.
- Subdirectories, paths, a directory that grows. Planned as an extension of
  `FileSys`: directories are files there.
- `mmap`, `load_segment` and `setup_stack` of src2; `timer_sleep` of src2 (`Alarm`);
  `malloc.c` and the pools of `palloc.c` (`Malloc`).
- Virtual memory of `src11.27` (never runs) and `pintos2` (older than src2's).

Left out for good: drivers, boot code, the ELF format, formatting and
console output, user programs, tests and tools.
