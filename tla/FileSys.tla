------------------------------ MODULE FileSys ------------------------------
(***************************************************************************)
(* Files of pintos_4 on disk: the free map (filesys/free-map.c), inodes    *)
(* with direct, indirect and doubly indirect sectors that grow when they   *)
(* are written past their end (filesys/inode.c), and the calls that        *)
(* create, open, write, close and remove them (filesys/filesys.c).         *)
(*                                                                         *)
(* System calls hold sys_lock from their first access to the file system   *)
(* to their last: each is one action.  The buffer cache is taken to be     *)
(* what its interface says, a copy of the disk; names are entries of the   *)
(* root directory, which has room for them all.                            *)
(***************************************************************************)
EXTENDS Naturals, Sequences, FiniteSets, Functions

CONSTANTS
  Procs,
  Names,
  LastSector,    \* the file system's sectors are 0 .. LastSector
  SectorSize,    \* BLOCK_SECTOR_SIZE, in bytes
  DirectEntries, \* DIRECT_BLOCK_ENTRIES
  IndirectEntries, \* INDIRECT_BLOCK_ENTRIES
  Lengths,       \* the lengths files are created with
  Offsets, Sizes, \* where writes start, and how long they are
  NULL,
  MaxCalls       \* bound: creations and writes

ASSUME FileSysAssumption ==
  /\ LastSector \in Nat \ {0, 1}
  /\ SectorSize \in Nat \ {0} /\ DirectEntries \in Nat \ {0} /\ IndirectEntries \in Nat \ {0}
  /\ Lengths \subseteq Nat /\ Offsets \subseteq Nat /\ Sizes \subseteq Nat \ {0}
  /\ NULL \notin Procs
  /\ MaxCalls \in Nat

Sectors == 0 .. LastSector
FREE_MAP_SECTOR == 0
ROOT_DIR_SECTOR == 1
System  == {FREE_MAP_SECTOR, ROOT_DIR_SECTOR}

VARIABLES
  fs,           \* the disk: the sectors in use, and what those of each kind hold
  dir,          \* the inode sector of each name, or 0
  opened,       \* <<p, s>>: process p has the inode in sector s open
  extend_lock,  \* of each inode in memory: the process that holds it, or NULL
  calls,
  failed,       \* history: a call has run out of sectors or of names
  stopped       \* no call returns any more: a panic, or sys_lock held for ever

vars == <<fs, dir, opened, extend_lock, calls, failed, stopped>>

Zeros       == [i \in 0 .. SectorSize - 1 |-> 0]
NoPointers  == [i \in 0 .. IndirectEntries - 1 |-> 0]
EmptyInode  == [length |-> 0, direct |-> [i \in 0 .. DirectEntries - 1 |-> 0], indirect |-> 0, double |-> 0]

Init ==
  /\ fs = [used |-> System, inode |-> [s \in Sectors |-> EmptyInode],
           index |-> [s \in Sectors |-> NoPointers], data |-> [s \in Sectors |-> Zeros]]
  /\ dir = [n \in Names |-> 0]
  /\ opened = {}
  /\ extend_lock = [s \in Sectors |-> NULL]
  /\ calls = 0
  /\ failed = FALSE
  /\ stopped = FALSE

-----------------------------------------------------------------------------
(* The free map *)

\* Mutant: the map has one bit too many.
available_past_end(f) == (0 .. LastSector + 1) \ f.used

available(f) == Sectors \ f.used

\* free_map_allocate: the first sector that is free, where there is one.
first_free(f)  == CHOOSE s \in available(f) : \A t \in available(f) : s <= t
allocate(f)    == [f EXCEPT !.used = @ \cup {first_free(f)}]
release(f, ss) == [f EXCEPT !.used = @ \ ss]

-----------------------------------------------------------------------------
(* Where the sectors of a file are.  Growth works on a growing file: the disk, *)
(* the copy of the inode in memory, and whether it has gone well so far.       *)

\* locate_byte, of sector number i of a file.
isDirect(i)   == i < DirectEntries
isIndirect(i) == ~ isDirect(i) /\ i < DirectEntries + IndirectEntries
isDouble(i)   == ~ isDirect(i) /\ ~ isIndirect(i) /\ i < DirectEntries + IndirectEntries * (IndirectEntries + 1)
index0(i) == i - DirectEntries
index1(i) == (i - DirectEntries - IndirectEntries) \div IndirectEntries

\* Mutant: the second index is the first.
index2_swapped(i) == index1(i)
index2(i) == (i - DirectEntries - IndirectEntries) % IndirectEntries

\* byte_to_sector: the sector of byte pos, or 0.
byte_to_sector(f, di, pos) ==
  LET i == pos \div SectorSize IN
  IF pos >= di.length THEN 0
  ELSE CASE isDirect(i)   -> di.direct[i]
         [] isIndirect(i) -> f.index[di.indirect][index0(i)]
         [] isDouble(i)   -> f.index[f.index[di.double][index1(i)]][index2(i)]
         [] OTHER         -> 0

\* An index block of a new sector, empty but for what is given.
new_block(f, first) == [allocate(f) EXCEPT !.index[first_free(f)] = first]

\* register_sector (di, s, location of sector i).  Where it fails, it leaves the
\* index blocks it has allocated.
register_direct(g, i, s) == [g EXCEPT !.di.direct[i] = s]

register_indirect(g, i, s) ==
  IF g.di.indirect # 0
  THEN [g EXCEPT !.fs.index[g.di.indirect][index0(i)] = s]
  ELSE IF available(g.fs) = {}
  THEN [g EXCEPT !.ok = FALSE]
  ELSE [g EXCEPT !.fs = new_block(g.fs, [NoPointers EXCEPT ![index0(i)] = s]),
                 !.di.indirect = first_free(g.fs)]

register_second(g, i, s) ==
  LET second == g.fs.index[g.di.double][index1(i)] IN
  IF second # 0
  THEN [g EXCEPT !.fs.index[second][index2(i)] = s]
  ELSE IF available(g.fs) = {}
  THEN [g EXCEPT !.ok = FALSE]
  ELSE [g EXCEPT !.fs = [new_block(g.fs, [NoPointers EXCEPT ![index2(i)] = s])
                           EXCEPT !.index[g.di.double][index1(i)] = first_free(g.fs)]]

register_double(g, i, s) ==
  IF g.di.double # 0
  THEN register_second(g, i, s)
  ELSE IF available(g.fs) = {}
  THEN [g EXCEPT !.ok = FALSE]
  ELSE register_second([g EXCEPT !.fs = new_block(g.fs, NoPointers), !.di.double = first_free(g.fs)], i, s)

register_sector(g, i, s) ==
  CASE isDirect(i)   -> register_direct(g, i, s)
    [] isIndirect(i) -> register_indirect(g, i, s)
    [] isDouble(i)   -> register_double(g, i, s)
    [] OTHER         -> [g EXCEPT !.ok = FALSE]

\* Mutant: the new sector keeps what was in it.
grow_by_uncleared(g, i) ==
  IF ~ g.ok \/ available(g.fs) = {}
  THEN [g EXCEPT !.ok = FALSE]
  ELSE LET s == first_free(g.fs)
           r == register_sector([g EXCEPT !.fs = allocate(g.fs)], i, s)
       IN IF r.ok THEN r ELSE [r EXCEPT !.fs = release(r.fs, {s})]

\* One turn of inode_update_file_length that adds sector number i.
grow_by(g, i) ==
  IF ~ g.ok \/ available(g.fs) = {}
  THEN [g EXCEPT !.ok = FALSE]
  ELSE LET s == first_free(g.fs)
           r == register_sector([g EXCEPT !.fs = allocate(g.fs)], i, s)
       IN IF r.ok THEN [r EXCEPT !.fs.data[s] = Zeros] ELSE [r EXCEPT !.fs = release(r.fs, {s})]

\* Its first turn, where start is inside a sector: the sector's rest is cleared.
clear_rest(g, start) ==
  IF start % SectorSize = 0 THEN g
  ELSE [g EXCEPT !.fs.data[byte_to_sector(g.fs, g.di, start)] =
          [b \in 0 .. SectorSize - 1 |-> IF b >= start % SectorSize THEN 0 ELSE @[b]]]

\* Its next n turns, for the sectors from first on.
turns(g, first, n) ==
  LET grown[k \in 0 .. n] == IF k = 0 THEN g ELSE grow_by(grown[k - 1], first + k - 1)
  IN grown[n]

\* inode_update_file_length (di, start, end - 1), di's length being set to end.
update_file_length(f, di, start, end) ==
  LET g     == clear_rest([fs |-> f, di |-> [di EXCEPT !.length = end], ok |-> TRUE], start)
      first == (start + SectorSize - 1) \div SectorSize
      last  == (end - 1) \div SectorSize
  IN turns(g, first, last - first + 1)

-----------------------------------------------------------------------------
(* The calls *)

live == ~ stopped

stop == stopped' = TRUE /\ UNCHANGED <<fs, dir, opened, extend_lock, calls, failed>>

named  == {dir[n] : n \in Names} \ {0}
openers(s) == {p \in Procs : <<p, s>> \in opened}

\* filesys_create: a sector for the inode, inode_create, dir_add.  If one of the
\* last two fails, the inode's sector is given back and nothing else is.
filesys_create(n, len) ==
  LET s == first_free(fs)
      f == allocate(fs)
      g == IF len > 0 THEN update_file_length(f, EmptyInode, 0, len) ELSE [fs |-> f, di |-> EmptyInode, ok |-> TRUE]
      created == [g.fs EXCEPT !.inode[s] = g.di]
      success == g.ok /\ dir[n] = 0
  IN
  /\ live /\ calls < MaxCalls
  /\ calls' = calls + 1
  /\ \/ /\ available(fs) = {}
        /\ failed' = TRUE
        /\ UNCHANGED <<fs, dir>>
     \/ /\ available(fs) # {} /\ success
        /\ fs' = created
        /\ dir' = [dir EXCEPT ![n] = s]
        /\ UNCHANGED failed
     \/ /\ available(fs) # {} /\ ~ success
        /\ fs' = release(IF g.ok THEN created ELSE g.fs, {s})
        /\ failed' = TRUE
        /\ UNCHANGED dir
  /\ UNCHANGED <<opened, extend_lock, stopped>>

filesys_open(p, n) ==
  /\ live
  /\ dir[n] # 0 /\ <<p, dir[n]>> \notin opened
  /\ opened' = opened \cup {<<p, dir[n]>>}
  /\ UNCHANGED <<fs, dir, extend_lock, calls, failed, stopped>>

\* The sectors free_inode_sectors gives back, of a file of direct sectors only.
direct_sectors(di) == {di.direct[i] : i \in {j \in DOMAIN di.direct : \A k \in 0 .. j : di.direct[k] > 0}}

\* Where there is an indirect block, free_inode_sectors takes the doubly indirect
\* block, or sector 0, for it, and an assertion of free_map_release fails on
\* what it reads there.
misread(di) == di.indirect # 0

\* Mutant: the inode's own sector is not released.
free_inode_data(s) == fs' = release(fs, direct_sectors(fs.inode[s]))

\* inode_close, of a removed inode by the last that has it open.
free_inode(s) == fs' = release(fs, direct_sectors(fs.inode[s]) \cup {s})

\* filesys_remove: dir_remove opens the inode and closes it.
filesys_remove(n) ==
  LET s == dir[n] IN
  /\ live /\ s # 0
  /\ IF openers(s) = {} /\ misread(fs.inode[s])
     THEN stop
     ELSE /\ dir' = [dir EXCEPT ![n] = 0]
          /\ IF openers(s) = {} THEN free_inode(s) ELSE UNCHANGED fs
          /\ UNCHANGED <<opened, extend_lock, calls, failed, stopped>>

\* file_close, by close or by process_exit.
file_close(p, s) ==
  LET last == openers(s) = {p} IN
  /\ live
  /\ <<p, s>> \in opened
  /\ IF last /\ s \notin named /\ misread(fs.inode[s])
     THEN stop
     ELSE /\ opened' = opened \ {<<p, s>>}
          /\ IF last /\ s \notin named THEN free_inode(s) ELSE UNCHANGED fs
          /\ extend_lock' = IF last THEN [extend_lock EXCEPT ![s] = NULL] ELSE extend_lock
          /\ UNCHANGED <<dir, calls, failed, stopped>>

\* The loop of inode_write_at: size bytes from off on, all of the same value.
written(f, di, off, size) ==
  [f EXCEPT !.data = [s \in Sectors |-> [b \in 0 .. SectorSize - 1 |->
     IF \E pos \in off .. off + size - 1 : pos % SectorSize = b /\ byte_to_sector(f, di, pos) = s
     THEN 1 ELSE f.data[s][b]]]]

\* inode_write_at.  Where growth fails it returns with extend_lock held: whoever
\* writes to the file next fails lock_acquire's assertion, or waits for ever with
\* sys_lock held.
inode_write_at(p, s, off, size) ==
  LET di  == fs.inode[s]
      end == off + size
      g   == IF end > di.length THEN update_file_length(fs, di, di.length, end)
                                ELSE [fs |-> fs, di |-> di, ok |-> TRUE]
  IN
  /\ live /\ calls < MaxCalls
  /\ <<p, s>> \in opened
  /\ \/ extend_lock[s] # NULL /\ stop
     \/ /\ extend_lock[s] = NULL /\ g.ok
        /\ fs' = [written(g.fs, g.di, off, size) EXCEPT !.inode[s] = g.di]
        /\ calls' = calls + 1
        /\ UNCHANGED <<dir, opened, extend_lock, failed, stopped>>
     \/ /\ extend_lock[s] = NULL /\ ~ g.ok
        /\ fs' = g.fs
        /\ extend_lock' = [extend_lock EXCEPT ![s] = p]
        /\ calls' = calls + 1
        /\ failed' = TRUE
        /\ UNCHANGED <<dir, opened, stopped>>

Next ==
  \/ \E n \in Names : \/ filesys_remove(n)
                      \/ \E len \in Lengths : filesys_create(n, len)
  \/ \E p \in Procs :
       \/ \E n \in Names : filesys_open(p, n)
       \/ \E s \in Sectors : \/ file_close(p, s)
                             \/ \E off \in Offsets, size \in Sizes : inode_write_at(p, s, off, size)

Spec == Init /\ [][Next]_vars

-----------------------------------------------------------------------------
(* Properties *)

Files == named \cup {x[2] : x \in opened}

\* The sectors of a file: its inode, its index blocks, its bytes.
second_blocks(s) == IF fs.inode[s].double = 0 THEN {} ELSE Range(fs.index[fs.inode[s].double]) \ {0}
index_blocks(s)  == ({fs.inode[s].indirect, fs.inode[s].double} \ {0}) \cup second_blocks(s)
sector_count(s)  == (fs.inode[s].length + SectorSize - 1) \div SectorSize
data_sectors(s)  == {byte_to_sector(fs, fs.inode[s], i * SectorSize) : i \in 0 .. sector_count(s) - 1}
sectors(s)       == {s} \cup index_blocks(s) \cup data_sectors(s)

\* Type invariant.
FSTypeOK ==
  /\ fs.used \subseteq Sectors
  /\ \A s \in Sectors :
       /\ fs.inode[s].length \in Nat /\ Range(fs.inode[s].direct) \subseteq Sectors
       /\ Range(fs.index[s]) \subseteq Sectors /\ Range(fs.data[s]) \subseteq {0, 1}
  /\ dir \in [Names -> Sectors] /\ opened \subseteq Procs \X Sectors
  /\ extend_lock \in [Sectors -> Procs \cup {NULL}]
  /\ failed \in BOOLEAN /\ stopped \in BOOLEAN /\ calls \in 0 .. MaxCalls

\* Each sector of a file is in use, belongs to that file alone, and has one part
\* in it: what free_map_allocate hands out while a file grows, fails to grow, is
\* removed or is created in place of another.
SectorsPrivate ==
  /\ \A s \in Files :
       /\ sectors(s) \subseteq fs.used \ System
       /\ Cardinality(data_sectors(s)) = sector_count(s)
       /\ data_sectors(s) \cap ({s} \cup index_blocks(s)) = {} /\ s \notin index_blocks(s)
  /\ \A s, t \in Files : s # t => sectors(s) \cap sectors(t) = {}

\* As long as no call has run out of sectors or found its name taken, every
\* sector in use is one of a file's: removal and the last close give back all.
NoLeak == ~ failed => fs.used = System \cup UNION {sectors(s) : s \in Files}

\* The length of the largest file the index has room for.
Largest == SectorSize * (DirectEntries + IndirectEntries * (IndirectEntries + 1))

\* The calls keep what FileStore promises, running out of sectors half way and
\* growing through the levels of the index included.
contents(s) == [i \in 1 .. fs.inode[s].length |->
                  fs.data[byte_to_sector(fs, fs.inode[s], i - 1)][(i - 1) % SectorSize]]

Store == INSTANCE FileStore WITH
  named <- dir, opened <- opened, Ids <- Sectors \ System, Value <- 1, MaxLength <- Largest,
  bytes <- [s \in Sectors \ System |-> IF s \in Files THEN contents(s) ELSE <<>>]

ImplementsFileStore == Store!Spec

\* inode_close: "If INODE was also a removed inode, frees its blocks."  It does,
\* whatever levels of the index the file has.
RemovedFilesFreed ==
  [][(\E n \in Names : filesys_remove(n)) \/ (\E p \in Procs, s \in Sectors : file_close(p, s))
     => ~ stopped']_vars

=============================================================================
