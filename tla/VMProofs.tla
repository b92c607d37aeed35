------------------------------ MODULE VMProofs ------------------------------
(***************************************************************************)
(* Theorems about VM: the types and the frame table for any number of      *)
(* processes, pages, frames and slots; and, of one process, that pages,    *)
(* frames and swap slots are its own and keep what was written to them.    *)
(* Two processes lose pages: the run vm_parallel shows how.                *)
(***************************************************************************)
EXTENDS VM, TLAPS, SequenceTheorems, FiniteSetTheorems, WellFoundedInduction

-----------------------------------------------------------------------------
(* Types *)

Statuses == {"NONE", "ALL_ZERO", "FILE", "SWAP", "ON_FRAME"}

EntryType == [status : Statuses, kpage : Frames \cup {NULL}, swap_id : Slots \cup {0}, dirty : BOOLEAN]
PteType   == {x \in [frame : Frames \cup {NULL}, present : BOOLEAN, writable : BOOLEAN,
                     accessed : BOOLEAN, dirty : BOOLEAN] :
                x.present => x.frame \in Frames}
NodeType  == [t : Procs \cup {NULL}, upage : UPages \cup {NULL}, kpage : Frames \cup {NULL}, pinned : BOOLEAN]
Backs     == {"user", "pin", "io", "unpinned", "write_back"}
LocType   == [pc : Pcs, buf : Seq(UPages), i : Nat, k : Frames \cup {NULL}, n : Nodes \cup {NULL},
              s : Slots \cup {0}, back : Backs, exits : BOOLEAN]

\* What fills the frames, the slots and the files is of no concern here.
Types ==
  /\ free \subseteq Frames
  /\ \E V : data \in [Frames -> V]
  /\ \E V : swap \in [Slots -> V]
  /\ \E V : file \in [Procs -> [UPages -> V]]
  /\ spte \in [Procs -> [UPages -> EntryType]]
  /\ pte \in [Procs -> [UPages -> PteType]]
  /\ node \in [Nodes -> NodeType]
  /\ frame_ptr \in Nodes \cup {NULL}
  /\ frame_lock \in Procs \cup {NULL}
  /\ sys_lock \in Procs \cup {NULL}
  /\ swap_map \in [Slots -> BOOLEAN]
  /\ loc \in [Procs -> LocType]
  /\ written \in [Procs -> [UPages -> Nat]]

\* The pcs outside a call, at the end of a process, of munmap, and of load_page.
Homes  == {"user", "exit"}
Ends   == {"destroy", "destroy_free", "dead"}
Unmaps == {"unmap_unpin", "unmap", "write_back", "unmap_free"}
Takes  == {"allocate", "evicting", "evicted", "free_victim", "again", "fill"}
Loads  == Takes \cup {"load", "unpin"}

\* What the locals l of a process hold where it is; e are its entries.
CallOK(l, e) ==
  /\ l.pc \in Homes => l.i = 1
  /\ l.pc \notin Homes \cup Ends => l.i \in 1 .. Len(l.buf)
  /\ l.pc \in Takes => e[l.buf[l.i]].status # "NONE"
  /\ l.pc = "fill" => l.k \in Frames
  /\ l.pc \in {"evicting", "evicted"} => l.n \in Nodes
  /\ l.pc = "evicting" => l.s \in Slots
  /\ l.pc \in Unmaps => l.back = "write_back"
  /\ l.back = "write_back" => /\ l.pc \in Unmaps \cup Loads
                              /\ Len(l.buf) = 1
                              /\ l.buf[1] \in Mapped
                              /\ e[l.buf[1]].status # "NONE"

Calls == \A p \in Procs : CallOK(loc[p], spte[p])

\* The free frame_nodes and those in the clock's list are apart, each once;
\* frame_map leads to nodes in the list, each from one frame; the mmap_node of
\* a page still mapped is in neither.
Distinct(s)   == \A i, j \in 1 .. Len(s) : s[i] = s[j] => i = j
Apart(s, t)   == \A i \in 1 .. Len(s), j \in 1 .. Len(t) : s[i] # t[j]
In(x, s)      == \E i \in 1 .. Len(s) : s[i] = x
MapOK(m, s)   ==
  /\ m \in [Frames \cup {NULL} -> Nodes \cup {NULL}]
  /\ \A k \in Frames \cup {NULL} : m[k] # NULL => In(m[k], s)
  /\ \A j, k \in Frames \cup {NULL} : m[j] = m[k] /\ m[j] # NULL => j = k

Lists ==
  /\ heap \in Seq(Nodes) /\ frame_list \in Seq(Nodes)
  /\ Distinct(heap) /\ Distinct(frame_list) /\ Apart(heap, frame_list)
  /\ MapOK(frame_map, frame_list)

Mmaps ==
  \A p \in Procs, u \in Mapped :
    spte[p][u].status # "NONE" => ~ In(mmap_node[<<p, u>>], heap) /\ ~ In(mmap_node[<<p, u>>], frame_list)

VMInv == Types /\ Calls /\ Lists /\ Mmaps

-----------------------------------------------------------------------------
(* The constants *)

LEMMA PageNames ==
  /\ Stack \subseteq UPages /\ Code \subseteq UPages /\ Mapped \subseteq UPages
  /\ NULL \notin Frames /\ NULL \notin Procs /\ NULL \notin UPages /\ NULL \notin Nodes
BY VMAssumption DEF UPages

\* There is a block for the mmap_node of each mapping.
LEMMA MmapNodes ==
  /\ mmap_node \in [Mappings -> Nodes \ NodeBlocks]
  /\ \A x, y \in Mappings : mmap_node[x] = mmap_node[y] => x = y
  /\ NodeBlocks \subseteq Nodes /\ Nodes \subseteq Nat
  /\ Cardinality(Frames) + Cardinality(Procs) \in Nat
<1> DEFINE b == Cardinality(Frames) + Cardinality(Procs)
           m == Cardinality(Mappings)
<1>1. Cardinality(Frames) \in Nat /\ Cardinality(Procs) \in Nat
  BY VMAssumption, FS_CardinalityType
<1>2. b \in Nat
  BY <1>1
<1>3. IsFiniteSet(Mapped)
  BY VMAssumption, PageNames, FS_Subset
<1>4. IsFiniteSet(Mappings)
  BY <1>3, VMAssumption, FS_Product DEF Mappings
<1>5. m \in Nat /\ ExistsBijection(1 .. m, Mappings)
  BY <1>4, FS_CardinalityType
<1>6. Cardinality(NodeBlocks) = b
  <2>1. Cardinality(1 .. b) = IF 1 > b THEN 0 ELSE b - 1 + 1
    BY <1>2, FS_Interval
  <2> QED BY <2>1, <1>2 DEF NodeBlocks
<1>7. Nodes = 1 .. (b + m) /\ NodeBlocks = 1 .. b
  BY <1>6 DEF Nodes, NodeBlocks
<1> HIDE DEF b, m
<1>8. PICK g \in Bijection(1 .. m, Mappings) : TRUE
  BY <1>5 DEF ExistsBijection
<1>9. /\ g \in [1 .. m -> Mappings]
      /\ \A i, j \in 1 .. m : g[i] = g[j] => i = j
      /\ \A x \in Mappings : \E i \in 1 .. m : g[i] = x
  BY <1>8 DEF Bijection, Injection, Surjection, IsInjective
<1> DEFINE number(x) == CHOOSE i \in 1 .. m : g[i] = x
           f == [x \in Mappings |-> b + number(x)]
<1>10. \A x \in Mappings : number(x) \in 1 .. m /\ g[number(x)] = x
  BY <1>9
<1> HIDE DEF number
<1>11. \A x \in Mappings : b + number(x) \in Nodes \ NodeBlocks
  BY <1>10, <1>7, <1>2, <1>5
<1>12. f \in [Mappings -> Nodes \ NodeBlocks]
  BY <1>11
<1>13. \A x, y \in Mappings : f[x] = f[y] => x = y
  <2> SUFFICES ASSUME NEW x \in Mappings, NEW y \in Mappings, f[x] = f[y] PROVE x = y
    OBVIOUS
  <2>1. b + number(x) = b + number(y)
    OBVIOUS
  <2>2. number(x) = number(y)
    BY <2>1, <1>2, <1>10
  <2> QED BY <2>2, <1>10
<1> HIDE DEF f
<1>14. /\ mmap_node \in [Mappings -> Nodes \ NodeBlocks]
       /\ \A x, y \in Mappings : mmap_node[x] = mmap_node[y] => x = y
  BY <1>12, <1>13 DEF mmap_node
<1>15. NodeBlocks \subseteq Nodes /\ Nodes \subseteq Nat
  BY <1>7, <1>2, <1>5
<1>16. Cardinality(Frames) + Cardinality(Procs) \in Nat
  BY <1>1
<1> QED BY <1>14, <1>15, <1>16

\* The least of a set of numbers is one of them.
LEMMA Lowest ==
  ASSUME NEW S \in SUBSET Nat, S # {}
  PROVE  lowest(S) \in S /\ \A y \in S : lowest(S) <= y
<1> DEFINE R == {ss \in Nat \X Nat : ss[1] < ss[2]}
<1>1. IsWellFoundedOn(R, Nat)
  BY NatLessThanWellFounded DEF OpToRel
<1>2. PICK x \in S : \A y \in S : ~ (<<y, x>> \in R)
  <2> HIDE DEF R
  <2> QED BY <1>1, WFMin
<1>3. ASSUME NEW y \in S
      PROVE  x <= y
  <2>1. x \in Nat /\ y \in Nat /\ <<y, x>> \in Nat \X Nat
    BY <1>2
  <2>2. y < x => <<y, x>> \in R
    BY <2>1
  <2> QED BY <1>2, <2>1, <2>2
<1> QED BY <1>3 DEF lowest


-----------------------------------------------------------------------------
(* The lists of frame_nodes *)

LEMMA ApartIn ==
  ASSUME NEW s, NEW t
  PROVE  Apart(s, t) <=> \A x : ~ (In(x, s) /\ In(x, t))
BY DEF Apart, In

\* The first of a list taken off it.
LEMMA Behead ==
  ASSUME NEW h \in Seq(Nodes), h # <<>>, Distinct(h)
  PROVE  /\ Head(h) \in Nodes /\ In(Head(h), h)
         /\ Tail(h) \in Seq(Nodes) /\ Distinct(Tail(h))
         /\ \A x : In(x, Tail(h)) <=> In(x, h) /\ x # Head(h)
<1>1. Head(h) \in Nodes /\ Head(h) = h[1] /\ Len(h) \in Nat /\ Len(h) # 0
  OBVIOUS
<1>2. /\ Tail(h) \in Seq(Nodes) /\ Len(Tail(h)) = Len(h) - 1
      /\ \A i \in 1 .. Len(Tail(h)) : Tail(h)[i] = h[i + 1]
  BY HeadTailProperties
<1>3. Distinct(Tail(h))
  BY <1>1, <1>2 DEF Distinct
<1>4. \A x : In(x, Tail(h)) => In(x, h) /\ x # Head(h)
  BY <1>1, <1>2 DEF Distinct, In
<1>5. ASSUME NEW x, In(x, h), x # Head(h)
      PROVE  In(x, Tail(h))
  <2>1. PICK i \in 1 .. Len(h) : h[i] = x
    BY <1>5 DEF In
  <2>2. i - 1 \in 1 .. Len(Tail(h)) /\ (i - 1) + 1 = i
    BY <2>1, <1>1, <1>2, <1>5
  <2>3. Tail(h)[i - 1] = x
    BY <2>1, <2>2, <1>2
  <2> QED BY <2>2, <2>3 DEF In
<1>6. In(Head(h), h)
  BY <1>1 DEF In
<1> QED BY <1>1, <1>2, <1>3, <1>4, <1>5, <1>6

\* One more at the end of a list.
LEMMA AtTheEnd ==
  ASSUME NEW s \in Seq(Nodes), NEW n \in Nodes, Distinct(s), ~ In(n, s)
  PROVE  /\ Append(s, n) \in Seq(Nodes) /\ Distinct(Append(s, n))
         /\ \A x : In(x, Append(s, n)) <=> In(x, s) \/ x = n
<1>1. /\ Append(s, n) \in Seq(Nodes) /\ Len(Append(s, n)) = Len(s) + 1 /\ Len(s) \in Nat
      /\ Append(s, n)[Len(s) + 1] = n
      /\ \A i \in 1 .. Len(s) : Append(s, n)[i] = s[i]
  OBVIOUS
<1>2. \A i \in 1 .. Len(s) : s[i] # n
  BY DEF In
<1>3. Distinct(Append(s, n))
  BY <1>1, <1>2 DEF Distinct
<1>4. \A x : In(x, Append(s, n)) => In(x, s) \/ x = n
  BY <1>1 DEF In
<1>5. Len(s) + 1 \in 1 .. Len(Append(s, n))
  BY <1>1
<1>6. \A x : In(x, s) \/ x = n => In(x, Append(s, n))
  BY <1>1, <1>5 DEF In
<1> QED BY <1>1, <1>3, <1>4, <1>6

\* One more at the front.
LEMMA AtTheFront ==
  ASSUME NEW h \in Seq(Nodes), NEW n \in Nodes, Distinct(h), ~ In(n, h)
  PROVE  /\ <<n>> \o h \in Seq(Nodes) /\ Distinct(<<n>> \o h)
         /\ \A x : In(x, <<n>> \o h) <=> In(x, h) \/ x = n
<1>1. <<n>> \in Seq(Nodes) /\ Len(<<n>>) = 1 /\ <<n>>[1] = n /\ Len(h) \in Nat
  OBVIOUS
<1>2. /\ <<n>> \o h \in Seq(Nodes) /\ Len(<<n>> \o h) = Len(<<n>>) + Len(h)
      /\ \A i \in 1 .. Len(<<n>>) + Len(h) : (<<n>> \o h)[i] = IF i <= Len(<<n>>) THEN <<n>>[i] ELSE h[i - Len(<<n>>)]
  BY <1>1, ConcatProperties
<1>3. Len(<<n>> \o h) = 1 + Len(h) /\ (<<n>> \o h)[1] = n
  BY <1>1, <1>2
<1>4. \A i \in 1 .. Len(<<n>> \o h) : i = 1 \/ (i - 1 \in 1 .. Len(h) /\ (<<n>> \o h)[i] = h[i - 1])
  BY <1>1, <1>2, <1>3
<1>5. \A i \in 1 .. Len(h) : h[i] # n
  BY DEF In
<1> DEFINE r == <<n>> \o h
<1>6. Len(r) = 1 + Len(h) /\ r[1] = n
  BY <1>3
<1>7. \A i \in 1 .. Len(r) : i = 1 \/ (i - 1 \in 1 .. Len(h) /\ r[i] = h[i - 1])
  BY <1>4
<1>8. \A i \in 1 .. Len(h) : i + 1 \in 1 .. Len(r) /\ r[i + 1] = h[i]
  <2> TAKE i \in 1 .. Len(h)
  <2>1. i + 1 \in 1 .. Len(r) /\ i + 1 # 1 /\ (i + 1) - 1 = i
    BY <1>1, <1>6
  <2> QED BY <2>1, <1>7
<1>9. r \in Seq(Nodes)
  BY <1>2
<1> HIDE DEF r
<1>10. Distinct(r)
  BY <1>1, <1>5, <1>6, <1>7 DEF Distinct
<1>11. \A x : In(x, r) => In(x, h) \/ x = n
  BY <1>6, <1>7 DEF In
<1>12. 1 \in 1 .. Len(r)
  BY <1>1, <1>6
<1>13. \A x : In(x, h) \/ x = n => In(x, r)
  BY <1>6, <1>8, <1>12 DEF In
<1> QED BY <1>9, <1>10, <1>11, <1>13 DEF r

\* list_remove.
LEMMA TakeOut ==
  ASSUME NEW s \in Seq(Nodes), NEW n, Distinct(s), In(n, s)
  PROVE  LET r == RemoveAt(s, CHOOSE i \in DOMAIN s : s[i] = n) IN
         /\ r \in Seq(Nodes) /\ Distinct(r)
         /\ \A x : In(x, r) <=> In(x, s) /\ x # n
<1> DEFINE i == CHOOSE j \in DOMAIN s : s[j] = n
           a == SubSeq(s, 1, i - 1)
           b == SubSeq(s, i + 1, Len(s))
           r == a \o b
<1>1. DOMAIN s = 1 .. Len(s) /\ Len(s) \in Nat /\ \A j \in 1 .. Len(s) : s[j] \in Nodes
  OBVIOUS
<1>2. i \in 1 .. Len(s) /\ s[i] = n
  BY <1>1 DEF In
<1>3. RemoveAt(s, i) = r
  BY DEF RemoveAt
<1> HIDE DEF i
<1>4. i \in Int /\ i - 1 \in Int /\ i + 1 \in Int /\ Len(s) \in Int /\ 1 \in Int
  BY <1>1, <1>2
<1>5. /\ \A j \in 1 .. i - 1 : s[j] \in Nodes
      /\ \A j \in i + 1 .. Len(s) : s[j] \in Nodes
  BY <1>1, <1>2, <1>4
<1>6. /\ a \in Seq(Nodes) /\ Len(a) = (IF 1 <= i - 1 THEN i - 1 - 1 + 1 ELSE 0)
      /\ \A j \in 1 .. i - 1 - 1 + 1 : a[j] = s[1 + j - 1]
  BY <1>4, <1>5, SubSeqProperties
<1>7. /\ b \in Seq(Nodes) /\ Len(b) = (IF i + 1 <= Len(s) THEN Len(s) - (i + 1) + 1 ELSE 0)
      /\ \A j \in 1 .. Len(s) - (i + 1) + 1 : b[j] = s[i + 1 + j - 1]
  BY <1>4, <1>5, SubSeqProperties
<1> HIDE DEF a, b
<1>8. /\ r \in Seq(Nodes) /\ Len(r) = Len(a) + Len(b)
      /\ \A j \in 1 .. Len(a) + Len(b) : r[j] = IF j <= Len(a) THEN a[j] ELSE b[j - Len(a)]
  BY <1>6, <1>7, ConcatProperties
<1> HIDE DEF r
<1>9. Len(a) = i - 1 /\ Len(b) = Len(s) - i /\ Len(r) = Len(s) - 1
  <2>1. i \in Nat /\ 1 <= i /\ i <= Len(s) /\ Len(s) \in Nat
    BY <1>1, <1>2
  <2>2. Len(a) = i - 1
    BY <2>1, <1>6
  <2>3. Len(b) = Len(s) - i
    BY <2>1, <1>7
  <2> QED BY <2>1, <2>2, <2>3, <1>8
<1>10. \A j \in 1 .. i - 1 : a[j] = s[j]
  <2> TAKE j \in 1 .. i - 1
  <2>1. j \in 1 .. i - 1 - 1 + 1 /\ 1 + j - 1 = j
    BY <1>2
  <2> QED BY <2>1, <1>6
<1>11. \A j \in 1 .. Len(s) - i : b[j] = s[i + j]
  <2> TAKE j \in 1 .. Len(s) - i
  <2>1. j \in 1 .. Len(s) - (i + 1) + 1 /\ i + 1 + j - 1 = i + j
    BY <1>1, <1>2
  <2> QED BY <2>1, <1>7
<1>12. \A j \in 1 .. Len(r) : r[j] = IF j < i THEN s[j] ELSE s[j + 1]
  <2> TAKE j \in 1 .. Len(r)
  <2>1. r[j] = IF j <= Len(a) THEN a[j] ELSE b[j - Len(a)]
    BY <1>8
  <2>2. CASE j < i
    <3>1. j \in 1 .. i - 1 /\ j <= Len(a)
      BY <2>2, <1>9, <1>2
    <3> QED BY <3>1, <2>1, <2>2, <1>10
  <2>3. CASE ~ j < i
    <3>1. j - Len(a) \in 1 .. Len(s) - i /\ i + (j - Len(a)) = j + 1 /\ ~ j <= Len(a)
      BY <2>3, <1>9, <1>2, <1>1
    <3>2. b[j - Len(a)] = s[i + (j - Len(a))]
      BY <3>1, <1>11
    <3> QED BY <3>1, <3>2, <2>1, <2>3
  <2> QED BY <2>2, <2>3
<1>13. Distinct(r)
  <2> SUFFICES ASSUME NEW j \in 1 .. Len(r), NEW m \in 1 .. Len(r), r[j] = r[m] PROVE j = m
    BY DEF Distinct
  <2> DEFINE o(x) == IF x < i THEN x ELSE x + 1
  <2>1. o(j) \in 1 .. Len(s) /\ o(m) \in 1 .. Len(s)
    BY <1>9, <1>1, <1>2
  <2>2. s[o(j)] = s[o(m)]
    BY <1>12
  <2>3. o(j) = o(m)
    BY <2>1, <2>2 DEF Distinct
  <2> QED BY <2>3, <1>2
<1>14. ASSUME NEW x, In(x, r)
       PROVE  In(x, s) /\ x # n
  <2>1. PICK j \in 1 .. Len(r) : r[j] = x
    BY <1>14 DEF In
  <2>2. PICK o \in 1 .. Len(s) : s[o] = x /\ o # i
    <3>1. CASE j < i
      <4>1. j \in 1 .. Len(s) /\ j # i /\ s[j] = x
        BY <3>1, <2>1, <1>12, <1>9, <1>1, <1>2
      <4> QED BY <4>1
    <3>2. CASE ~ j < i
      <4>1. j + 1 \in 1 .. Len(s) /\ j + 1 # i /\ s[j + 1] = x
        BY <3>2, <2>1, <1>12, <1>9, <1>1, <1>2
      <4> QED BY <4>1
    <3> QED BY <3>1, <3>2
  <2>3. s[o] # s[i]
    BY <2>2, <1>2 DEF Distinct
  <2> QED BY <2>2, <2>3, <1>2 DEF In
<1>15. ASSUME NEW x, In(x, s), x # n
       PROVE  In(x, r)
  <2>1. PICK o \in 1 .. Len(s) : s[o] = x
    BY <1>15 DEF In
  <2>2. o # i
    BY <2>1, <1>15, <1>2
  <2>3. CASE o < i
    <3>1. o \in 1 .. Len(r) /\ r[o] = x
      BY <2>3, <2>1, <1>12, <1>9, <1>1, <1>2
    <3> QED BY <3>1 DEF In
  <2>4. CASE o > i
    <3>1. o - 1 \in 1 .. Len(r) /\ ~ o - 1 < i /\ (o - 1) + 1 = o
      BY <2>4, <2>1, <1>9, <1>1, <1>2
    <3>2. r[o - 1] = x
      BY <3>1, <2>1, <1>12
    <3> QED BY <3>1, <3>2 DEF In
  <2> QED BY <2>2, <2>3, <2>4, <1>2
<1> QED BY <1>3, <1>8, <1>13, <1>14, <1>15 DEF i, r


-----------------------------------------------------------------------------
(* Where a step takes its process *)

\* The process is at m now, the others are where they were.
Goes(p, m) ==
  /\ loc' \in [Procs -> LocType]
  /\ loc'[p] = m
  /\ \A q \in Procs \ {p} : loc'[q] = loc[q]

LEMMA GoesTo ==
  ASSUME loc \in [Procs -> LocType], NEW p \in Procs, NEW m \in LocType, loc' = [loc EXCEPT ![p] = m]
  PROVE  Goes(p, m)
BY DEF Goes

LEMMA Jumps ==
  ASSUME loc \in [Procs -> LocType], NEW p \in Procs, NEW l \in Pcs, NEW k \in Frames \cup {NULL}
  PROVE  /\ jump(p, l) => Goes(p, [loc[p] EXCEPT !.pc = l])
         /\ jumpk(p, l, k) => Goes(p, [loc[p] EXCEPT !.pc = l, !.k = k])
<1>1. loc[p] \in LocType
  OBVIOUS
<1>2. [loc[p] EXCEPT !.pc = l] \in LocType
  BY <1>1 DEF LocType
<1>3. [loc[p] EXCEPT !.pc = l, !.k = k] \in LocType
  BY <1>1 DEF LocType
<1>4. jump(p, l) => loc' = [loc EXCEPT ![p] = [loc[p] EXCEPT !.pc = l]]
  BY DEF jump
<1>5. jumpk(p, l, k) => loc' = [loc EXCEPT ![p] = [loc[p] EXCEPT !.pc = l, !.k = k]]
  BY <1>1 DEF jumpk, LocType
<1> QED BY <1>2, <1>3, <1>4, <1>5, GoesTo

LEMMA CallsIn ==
  ASSUME loc \in [Procs -> LocType], NEW p \in Procs, NEW l \in Pcs, NEW b \in Seq(UPages), NEW r \in Backs,
         call(p, l, b, r)
  PROVE  Goes(p, [loc[p] EXCEPT !.pc = l, !.buf = b, !.back = r])
<1>1. loc[p] \in LocType
  OBVIOUS
<1>2. [loc[p] EXCEPT !.pc = l, !.buf = b, !.back = r] \in LocType
  BY <1>1 DEF LocType
<1>3. loc' = [loc EXCEPT ![p] = [loc[p] EXCEPT !.pc = l, !.buf = b, !.back = r]]
  BY <1>1 DEF call, LocType
<1> QED BY <1>2, <1>3, GoesTo

\* Out of every call.
Out(p, l) ==
  [pc |-> l, buf |-> <<>>, i |-> 1, k |-> NULL, n |-> NULL, s |-> 0, back |-> "user",
   exits |-> loc[p].exits \/ l = "exit"]

LEMMA Home ==
  ASSUME loc \in [Procs -> LocType], NEW p \in Procs, NEW l \in Pcs, home(p, l)
  PROVE  Goes(p, Out(p, l))
<1>1. loc' = [loc EXCEPT ![p] = Out(p, l)]
  BY DEF home, Out
<1>2. (loc[p].exits \/ l = "exit") \in BOOLEAN
  OBVIOUS
<1>3. <<>> \in Seq(UPages) /\ 1 \in Nat /\ "user" \in Backs
  BY DEF Backs
<1>4. Out(p, l) \in LocType
  BY <1>2, <1>3 DEF Out, LocType
<1> QED BY <1>1, <1>4, GoesTo

\* The next page of the buffer, or out of the loop.
LEMMA Advances ==
  ASSUME loc \in [Procs -> LocType], NEW p \in Procs, NEW l \in Pcs, NEW out \in Pcs, NEW r \in Backs,
         advance(p, l, out, r)
  PROVE  Goes(p, IF loc[p].i < Len(loc[p].buf) THEN [loc[p] EXCEPT !.pc = l, !.i = loc[p].i + 1]
                                               ELSE [loc[p] EXCEPT !.pc = out, !.i = 1, !.back = r])
<1>1. loc[p] \in LocType
  OBVIOUS
<1>2. loc[p].i + 1 \in Nat /\ 1 \in Nat
  BY <1>1 DEF LocType
<1>3. [loc[p] EXCEPT !.pc = l, !.i = loc[p].i + 1] \in LocType
  BY <1>1, <1>2 DEF LocType
<1>4. [loc[p] EXCEPT !.pc = out, !.i = 1, !.back = r] \in LocType
  BY <1>1, <1>2 DEF LocType
<1> DEFINE m == IF loc[p].i < Len(loc[p].buf) THEN [loc[p] EXCEPT !.pc = l, !.i = loc[p].i + 1]
                                               ELSE [loc[p] EXCEPT !.pc = out, !.i = 1, !.back = r]
<1>5. m \in LocType
  BY <1>3, <1>4
<1>6. loc' = [loc EXCEPT ![p] = m]
  BY DEF advance
<1> QED BY <1>5, <1>6, GoesTo

\* A step takes its process, and no other, to a place where its locals are well.
Fine(p) ==
  /\ loc' \in [Procs -> LocType]
  /\ \A q \in Procs \ {p} : loc'[q] = loc[q]
  /\ CallOK(loc'[p], spte'[p])

LEMMA FineAt ==
  ASSUME NEW p \in Procs, NEW m, Goes(p, m), CallOK(m, spte'[p])
  PROVE  Fine(p)
BY DEF Goes, Fine

\* Such a step keeps Calls if it unmaps no other's page.
LEMMA CallsKept ==
  ASSUME Types, Calls, NEW p \in Procs, Fine(p),
         \A q \in Procs \ {p} : \A u \in UPages : spte[q][u].status # "NONE" => spte'[q][u].status # "NONE"
  PROVE  Calls'
<1>1. ASSUME NEW q \in Procs \ {p}
      PROVE  CallOK(loc'[q], spte'[q])
  <2>1. loc'[q] = loc[q] /\ CallOK(loc[q], spte[q])
    BY DEF Fine, Calls
  <2>2. loc[q].pc \in Takes => loc[q].buf[loc[q].i] \in UPages
    <3>1. loc[q] \in LocType
      BY DEF Types
    <3> QED BY <2>1, <3>1 DEF CallOK, LocType, Takes, Homes, Ends
  <2>3. CallOK(loc[q], spte'[q])
    BY <2>1, <2>2, PageNames DEF CallOK
  <2> QED BY <2>1, <2>3
<1> QED BY <1>1 DEF Calls, Fine

\* return, from a step of load_page, to a place that may be returned to.
LEMMA Returns ==
  ASSUME Types, Calls, NEW p \in Procs, NEW ok \in BOOLEAN, loc[p].pc \in Loads, return(p, ok),
         spte'[p] = spte[p]
  PROVE  Fine(p)
<1> DEFINE l == loc[p]
<1>0. loc \in [Procs -> LocType] /\ l \in LocType /\ CallOK(l, spte[p])
  BY DEF Types, Calls
<1>1. l.back \in Backs /\ l.pc \notin Homes \cup Ends /\ Backs \subseteq Pcs
  BY <1>0 DEF LocType, Takes, Loads, Homes, Ends, Backs, Pcs
<1>2. CASE home(p, "user") \/ home(p, "exit")
  <2>1. "user" \in Pcs /\ "exit" \in Pcs
    BY DEF Pcs
  <2>2. PICK x \in {"user", "exit"} : home(p, x)
    BY <1>2
  <2>3. Goes(p, Out(p, x))
    BY <2>1, <2>2, <1>0, Home
  <2>4. CallOK(Out(p, x), spte'[p])
    BY <2>2 DEF CallOK, Out, Homes, Ends, Unmaps, Takes
  <2> QED BY <2>3, <2>4, FineAt
<1>3. CASE l.back # "user" /\ jump(p, l.back)
  <2>1. Goes(p, [l EXCEPT !.pc = l.back])
    BY <1>0, <1>1, <1>3, Jumps, PageNames
  <2>2. CallOK([l EXCEPT !.pc = l.back], spte'[p])
    BY <1>0, <1>1, <1>3 DEF CallOK, LocType, Homes, Ends, Unmaps, Takes, Loads, Backs
  <2> QED BY <2>1, <2>2, FineAt
<1>4. CASE UNCHANGED loc
  BY <1>0, <1>4 DEF Fine
<1>5. CASE l.back = "pin" /\ jump(p, "pin")
  BY <1>5, <1>3
<1> QED BY <1>2, <1>3, <1>4, <1>5 DEF return

\* A step keeps Mmaps if it brings back no mapped page, and no node that was in neither list.
LEMMA MmapsKept ==
  ASSUME Mmaps,
         \A q \in Procs, u \in Mapped : spte'[q][u].status # "NONE" => spte[q][u].status # "NONE",
         \A x : In(x, heap') \/ In(x, frame_list') => In(x, heap) \/ In(x, frame_list)
  PROVE  Mmaps'
<1> USE DEF Mmaps
<1> SUFFICES ASSUME NEW q \in Procs, NEW u \in Mapped, spte'[q][u].status # "NONE"
             PROVE  ~ In(mmap_node[<<q, u>>], heap') /\ ~ In(mmap_node[<<q, u>>], frame_list')
  OBVIOUS
<1>1. ~ In(mmap_node[<<q, u>>], heap) /\ ~ In(mmap_node[<<q, u>>], frame_list)
  OBVIOUS
<1> QED BY <1>1

-----------------------------------------------------------------------------
(* What the frame table's operations do to the lists *)

LEMMA PutsNode ==
  ASSUME Lists, heap # <<>>, NEW k \in Frames \cup {NULL},
         heap' = Tail(heap), frame_list' = Append(frame_list, Head(heap)),
         frame_map' = IF frame_map[k] = NULL THEN [frame_map EXCEPT ![k] = Head(heap)] ELSE frame_map
  PROVE  /\ Lists'
         /\ Head(heap) \in Nodes /\ ~ In(Head(heap), frame_list)
         /\ \A x : In(x, heap') \/ In(x, frame_list') => In(x, heap) \/ In(x, frame_list)
         /\ \A x : In(x, frame_list') <=> In(x, frame_list) \/ x = Head(heap)
<1> DEFINE n == Head(heap)
<1>0. heap \in Seq(Nodes) /\ frame_list \in Seq(Nodes) /\ Distinct(heap) /\ Distinct(frame_list)
      /\ MapOK(frame_map, frame_list)
  BY DEF Lists
<1>1. /\ n \in Nodes /\ In(n, heap) /\ heap' \in Seq(Nodes) /\ Distinct(heap')
      /\ \A x : In(x, heap') <=> In(x, heap) /\ x # n
  BY <1>0, Behead
<1>2. \A x : ~ (In(x, heap) /\ In(x, frame_list))
  BY ApartIn DEF Lists
<1>3. ~ In(n, frame_list)
  BY <1>1, <1>2
<1> HIDE DEF n
<1>4. /\ frame_list' \in Seq(Nodes) /\ Distinct(frame_list')
      /\ \A x : In(x, frame_list') <=> In(x, frame_list) \/ x = n
  BY <1>0, <1>1, <1>3, AtTheEnd DEF n
<1>5. Apart(heap', frame_list')
  BY <1>1, <1>2, <1>4, ApartIn
<1>6. MapOK(frame_map', frame_list')
  <2>1. frame_map' = IF frame_map[k] = NULL THEN [frame_map EXCEPT ![k] = n] ELSE frame_map
    BY DEF n
  <2>2. frame_map' \in [Frames \cup {NULL} -> Nodes \cup {NULL}]
    BY <2>1, <1>0, <1>1 DEF MapOK
  <2>3. \A j \in Frames \cup {NULL} : frame_map'[j] = frame_map[j] \/ (j = k /\ frame_map'[j] = n /\ frame_map[j] = NULL)
    BY <2>1, <1>0 DEF MapOK
  <2>4. \A j \in Frames \cup {NULL} : frame_map'[j] # NULL => In(frame_map'[j], frame_list')
    BY <2>3, <1>0, <1>4 DEF MapOK
  <2>5. \A i, j \in Frames \cup {NULL} : frame_map'[i] = frame_map'[j] /\ frame_map'[i] # NULL => i = j
    BY <2>3, <1>0, <1>1, <1>3, PageNames DEF MapOK
  <2> QED BY <2>2, <2>4, <2>5 DEF MapOK
<1>7. Lists'
  BY <1>1, <1>4, <1>5, <1>6 DEF Lists
<1> QED BY <1>1, <1>3, <1>4, <1>7 DEF n

LEMMA Forgets ==
  ASSUME Lists, NEW k \in Frames, frame_map[k] # NULL, forget(k)
  PROVE  /\ frame_list' \in Seq(Nodes) /\ Distinct(frame_list') /\ MapOK(frame_map', frame_list')
         /\ frame_map[k] \in Nodes /\ In(frame_map[k], frame_list)
         /\ \A x : In(x, frame_list') <=> In(x, frame_list) /\ x # frame_map[k]
         /\ \A j \in Frames \cup {NULL} : frame_map'[j] = IF j = k THEN NULL ELSE frame_map[j]
<1> DEFINE n == frame_map[k]
<1>0. frame_list \in Seq(Nodes) /\ Distinct(frame_list) /\ MapOK(frame_map, frame_list)
  BY DEF Lists
<1>1. n \in Nodes /\ In(n, frame_list)
  BY <1>0 DEF MapOK
<1>2. /\ frame_list' = RemoveAt(frame_list, CHOOSE i \in DOMAIN frame_list : frame_list[i] = n)
      /\ frame_map' = [frame_map EXCEPT ![k] = NULL]
  BY DEF forget
<1>3. \A j \in Frames \cup {NULL} : j # k => frame_map[j] # n
  BY <1>0 DEF MapOK
<1> HIDE DEF n
<1>4. /\ frame_list' \in Seq(Nodes) /\ Distinct(frame_list')
      /\ \A x : In(x, frame_list') <=> In(x, frame_list) /\ x # n
  BY <1>0, <1>1, <1>2, TakeOut
<1>5. \A j \in Frames \cup {NULL} : frame_map'[j] = IF j = k THEN NULL ELSE frame_map[j]
  BY <1>2, <1>0 DEF MapOK
<1>6. frame_map' \in [Frames \cup {NULL} -> Nodes \cup {NULL}]
  BY <1>2, <1>0 DEF MapOK
<1>7. MapOK(frame_map', frame_list')
  BY <1>0, <1>3, <1>4, <1>5, <1>6 DEF MapOK
<1> QED BY <1>1, <1>4, <1>5, <1>7 DEF n

\* A node that was in neither list goes to the free ones.
LEMMA FreesNode ==
  ASSUME NEW h \in Seq(Nodes), NEW n \in Nodes, Distinct(h), ~ In(n, h),
         heap' = <<n>> \o h, frame_list' \in Seq(Nodes), Distinct(frame_list'), MapOK(frame_map', frame_list'),
         \A x : ~ (In(x, h) /\ In(x, frame_list')), ~ In(n, frame_list')
  PROVE  Lists' /\ \A x : In(x, heap') <=> In(x, h) \/ x = n
<1>1. /\ heap' \in Seq(Nodes) /\ Distinct(heap')
      /\ \A x : In(x, heap') <=> In(x, h) \/ x = n
  BY AtTheFront
<1>2. Apart(heap', frame_list')
  BY <1>1, ApartIn
<1> QED BY <1>1, <1>2 DEF Lists

LEMMA FreesFrame ==
  ASSUME Lists, NEW k \in Frames, frame_map[k] # NULL, forget(k), heap' = <<frame_map[k]>> \o heap
  PROVE  Lists' /\ \A x : In(x, heap') \/ In(x, frame_list') => In(x, heap) \/ In(x, frame_list)
<1>1. /\ frame_list' \in Seq(Nodes) /\ Distinct(frame_list') /\ MapOK(frame_map', frame_list')
      /\ frame_map[k] \in Nodes /\ In(frame_map[k], frame_list)
      /\ \A x : In(x, frame_list') <=> In(x, frame_list) /\ x # frame_map[k]
  BY Forgets
<1>2. \A x : ~ (In(x, heap) /\ In(x, frame_list))
  BY ApartIn DEF Lists
<1>3. heap \in Seq(Nodes) /\ Distinct(heap)
  BY DEF Lists
<1>4. Lists' /\ \A x : In(x, heap') <=> In(x, heap) \/ x = frame_map[k]
  BY <1>1, <1>2, <1>3, FreesNode
<1> QED BY <1>1, <1>4


-----------------------------------------------------------------------------
(* Every step keeps the types *)

\* Everything a step that only moves its process leaves as it is, but the locks.
Still == UNCHANGED <<free, table, slots, pages>>

LEMMA StillSteps ==
  ASSUME VMInv, NEW p \in Procs, Still, Fine(p),
         frame_lock' \in Procs \cup {NULL}, sys_lock' \in Procs \cup {NULL}
  PROVE  VMInv'
<1>1. /\ UNCHANGED <<free, node, heap, frame_list, frame_map, frame_ptr>>
      /\ UNCHANGED <<swap_map, swap, data, spte, pte, file, written>>
  BY DEF Still, table, slots, pages
<1>2. Types'
  BY <1>1 DEF VMInv, Types, Fine
<1>3. Calls'
  BY <1>1, CallsKept DEF VMInv
<1>4. Lists'
  BY <1>1 DEF VMInv, Lists
<1>5. Mmaps'
  BY <1>1 DEF VMInv, Mmaps
<1> QED BY <1>2, <1>3, <1>4, <1>5 DEF VMInv

\* A process in a call is at a page of it.
LEMMA AtAPage ==
  ASSUME VMInv, NEW p \in Procs, loc[p].pc \notin Homes \cup Ends
  PROVE  /\ page(p) \in UPages /\ entry(p) = spte[p][page(p)] /\ entry(p) \in EntryType
         /\ loc[p].pc \in Takes => entry(p).status # "NONE"
<1>1. loc[p] \in LocType /\ CallOK(loc[p], spte[p]) /\ spte \in [Procs -> [UPages -> EntryType]]
  BY DEF VMInv, Types, Calls
<1>2. loc[p].buf \in Seq(UPages) /\ loc[p].i \in 1 .. Len(loc[p].buf)
  BY <1>1 DEF LocType, CallOK
<1>3. page(p) \in UPages
  BY <1>2 DEF page
<1>4. loc[p].pc \in Takes => entry(p).status # "NONE"
  BY <1>1 DEF CallOK, entry, page
<1> QED BY <1>1, <1>3, <1>4 DEF entry

LEMMA LocTyped ==
  ASSUME VMInv, NEW p \in Procs
  PROVE  loc \in [Procs -> LocType] /\ loc[p] \in LocType /\ CallOK(loc[p], spte[p])
BY DEF VMInv, Types, Calls

\* Where jumps lead that leave the process in its call.
LEMMA JumpInCall ==
  ASSUME VMInv, NEW p \in Procs, NEW l \in Pcs, spte'[p] = spte[p],
         loc[p].pc \notin Homes \cup Ends,
         l \notin Homes \cup Ends \cup {"fill", "evicting", "evicted"},
         l \in Takes => entry(p).status # "NONE",
         l \in Unmaps => loc[p].back = "write_back",
         loc[p].back = "write_back" => l \in Unmaps \cup Loads
  PROVE  /\ jump(p, l) => Fine(p)
         /\ \A k \in Frames \cup {NULL} : jumpk(p, l, k) => Fine(p)
<1>0. loc \in [Procs -> LocType] /\ loc[p] \in LocType /\ CallOK(loc[p], spte[p])
  BY LocTyped
<1>1. CallOK([loc[p] EXCEPT !.pc = l], spte'[p])
  BY <1>0 DEF LocType, CallOK, entry, page
<1>2. ASSUME NEW k \in Frames \cup {NULL}
      PROVE  CallOK([loc[p] EXCEPT !.pc = l, !.k = k], spte'[p])
  BY <1>0 DEF LocType, CallOK, entry, page
<1>3. jump(p, l) => Fine(p)
  BY <1>0, <1>1, PageNames, Jumps, FineAt
<1>4. ASSUME NEW k \in Frames \cup {NULL}, jumpk(p, l, k)
      PROVE  Fine(p)
  BY <1>0, <1>2, <1>4, Jumps, FineAt
<1> QED BY <1>3, <1>4

LEMMA HomeInCall ==
  ASSUME VMInv, NEW p \in Procs, NEW l \in Homes \cup {"dead"}, home(p, l)
  PROVE  Fine(p)
<1>1. l \in Pcs
  BY DEF Homes, Pcs
<1>2. Goes(p, Out(p, l))
  BY <1>1, LocTyped, Home
<1>3. CallOK(Out(p, l), spte'[p])
  BY DEF CallOK, Out, Homes, Ends, Unmaps, Takes
<1> QED BY <1>2, <1>3, FineAt

LEMMA AdvanceInCall ==
  ASSUME VMInv, NEW p \in Procs, NEW l \in Pcs, NEW out \in Pcs, NEW r \in Backs, spte'[p] = spte[p],
         advance(p, l, out, r), loc[p].pc \notin Homes \cup Ends, loc[p].back # "write_back", r # "write_back",
         l \notin Homes \cup Ends \cup Unmaps \cup Takes,
         out \notin Homes \cup Ends \cup Unmaps \cup Takes
  PROVE  Fine(p)
<1>0. loc \in [Procs -> LocType] /\ loc[p] \in LocType /\ CallOK(loc[p], spte[p])
  BY LocTyped
<1>1. loc[p].i \in 1 .. Len(loc[p].buf) /\ Len(loc[p].buf) \in Nat
  BY <1>0 DEF LocType, CallOK
<1>2. CASE loc[p].i < Len(loc[p].buf)
  <2>1. Goes(p, [loc[p] EXCEPT !.pc = l, !.i = loc[p].i + 1])
    BY <1>0, <1>2, Advances
  <2>2. loc[p].i + 1 \in 1 .. Len(loc[p].buf)
    BY <1>1, <1>2
  <2>3. CallOK([loc[p] EXCEPT !.pc = l, !.i = loc[p].i + 1], spte'[p])
    BY <1>0, <2>2 DEF LocType, CallOK, Takes
  <2> QED BY <2>1, <2>3, FineAt
<1>3. CASE ~ loc[p].i < Len(loc[p].buf)
  <2>1. Goes(p, [loc[p] EXCEPT !.pc = out, !.i = 1, !.back = r])
    BY <1>0, <1>3, Advances
  <2>2. 1 \in 1 .. Len(loc[p].buf)
    BY <1>1
  <2>3. CallOK([loc[p] EXCEPT !.pc = out, !.i = 1, !.back = r], spte'[p])
    BY <1>0, <2>2 DEF LocType, CallOK, Takes
  <2> QED BY <2>1, <2>3, FineAt
<1> QED BY <1>2, <1>3

\* The steps that leave the tables as they are.
LEMMA PanicKeeps ==
  ASSUME VMInv, NEW p \in Procs, Panic
  PROVE  VMInv'
<1>1. Still /\ UNCHANGED <<loc, frame_lock, sys_lock>> /\ spte'[p] = spte[p]
  BY DEF Panic, Still, pages
<1>2. Fine(p)
  BY <1>1, LocTyped DEF Fine
<1> QED BY <1>1, <1>2, StillSteps DEF VMInv, Types

LEMMA MovesKeep ==
  ASSUME VMInv, NEW p \in Procs,
         \/ load_page(p) \/ read_kpage(p) \/ sys_locked(p) \/ pin_page(p) \/ unpin_page(p)
         \/ unpinned(p) \/ syscall_returns(p) \/ exit(p) \/ transfer_violates(p)
         \/ \E u \in UPages : rights_violation(p, u) \/ munmap(p, u)
  PROVE  VMInv'
<1>0. loc \in [Procs -> LocType] /\ loc[p] \in LocType /\ CallOK(loc[p], spte[p])
  BY LocTyped
<1>t. /\ spte \in [Procs -> [UPages -> EntryType]] /\ node \in [Nodes -> NodeType] /\ NULL \in Procs \cup {NULL}
      /\ frame_lock \in Procs \cup {NULL} /\ sys_lock \in Procs \cup {NULL}
  BY DEF VMInv, Types
<1> USE DEF at
<1>1. CASE load_page(p)
  <2>1. Still /\ UNCHANGED <<frame_lock, sys_lock>> /\ spte'[p] = spte[p] /\ loc[p].pc = "load"
    BY <1>1 DEF load_page, Still, pages
  <2>2. Fine(p)
    <3>1. ASSUME NEW ok \in BOOLEAN, return(p, ok)
          PROVE  Fine(p)
      BY <2>1, <3>1, Returns DEF VMInv, Takes, Loads
    <3>2. CASE entry(p).status # "NONE" /\ jump(p, "allocate")
      BY <2>1, <3>2, JumpInCall DEF Pcs, Homes, Ends, Unmaps, Takes, Loads
    <3> QED BY <1>1, <3>1, <3>2 DEF load_page
  <2> QED BY <2>1, <2>2, <1>t, StillSteps
<1>2. CASE read_kpage(p)
  <2>1. Still /\ UNCHANGED <<frame_lock, sys_lock>> /\ spte'[p] = spte[p] /\ loc[p].pc = "evicted"
    BY <1>2 DEF read_kpage, Still, pages
  <2>2. node[loc[p].n].kpage \in Frames \cup {NULL}
    BY <1>0, <1>t, <2>1 DEF CallOK, NodeType
  <2>3. Fine(p)
    BY <2>1, <2>2, <1>0, <1>2, AtAPage, JumpInCall DEF read_kpage, Pcs, Homes, Ends, Unmaps, Takes, Loads
  <2> QED BY <2>1, <2>3, <1>t, StillSteps
<1>3. CASE sys_locked(p)
  <2>1. Still /\ UNCHANGED frame_lock /\ sys_lock' = p /\ spte'[p] = spte[p] /\ loc[p].pc = "sys_lock"
    BY <1>3 DEF sys_locked, Still, pages
  <2>2. Fine(p)
    BY <2>1, <1>0, <1>3, JumpInCall DEF sys_locked, Pcs, Homes, Ends, Unmaps, Takes, Loads
  <2> QED BY <2>1, <2>2, <1>t, StillSteps
<1>4. CASE pin_page(p)
  <2>1. Still /\ UNCHANGED <<frame_lock, sys_lock>> /\ spte'[p] = spte[p] /\ loc[p].pc = "pin"
    BY <1>4 DEF pin_page, Still, pages
  <2>2. loc[p].back # "write_back"
    BY <2>1, <1>0 DEF CallOK, Unmaps, Takes, Loads
  <2>3. entry(p).kpage \in Frames \cup {NULL}
    BY <2>1, AtAPage DEF EntryType, Homes, Ends
  <2>4. CASE advance(p, "load", "io", "io")
    <3>1. Fine(p)
      BY <2>1, <2>2, <2>4, AdvanceInCall DEF Pcs, Backs, Homes, Ends, Unmaps, Takes
    <3> QED BY <2>1, <3>1, <1>t, StillSteps
  <2>5. CASE jumpk(p, "set_pinned", entry(p).kpage)
    <3>1. Fine(p)
      BY <2>1, <2>2, <2>3, <2>5, JumpInCall DEF Pcs, Homes, Ends, Unmaps, Takes
    <3> QED BY <2>1, <3>1, <1>t, StillSteps
  <2> QED BY <1>4, <2>4, <2>5 DEF pin_page
<1>5. CASE unpin_page(p)
  <2>1. Still /\ UNCHANGED <<frame_lock, sys_lock>> /\ spte'[p] = spte[p] /\ loc[p].pc = "unpin_page"
    BY <1>5 DEF unpin_page, Still, pages
  <2>2. loc[p].back # "write_back"
    BY <2>1, <1>0 DEF CallOK, Unmaps, Takes, Loads
  <2>3. entry(p).kpage \in Frames \cup {NULL}
    BY <2>1, AtAPage DEF EntryType, Homes, Ends
  <2>4. Fine(p)
    BY <2>1, <2>2, <2>3, <1>5, JumpInCall DEF unpin_page, Pcs, Homes, Ends, Unmaps, Takes
  <2> QED BY <2>1, <2>4, <1>t, StillSteps
<1>6. CASE unpinned(p)
  <2>1. Still /\ UNCHANGED <<frame_lock, sys_lock>> /\ spte'[p] = spte[p] /\ loc[p].pc = "unpinned"
    BY <1>6 DEF unpinned, Still, pages
  <2>2. loc[p].back # "write_back"
    BY <2>1, <1>0 DEF CallOK, Unmaps, Takes, Loads
  <2>3. Fine(p)
    BY <2>1, <2>2, <1>6, AdvanceInCall DEF unpinned, Pcs, Backs, Homes, Ends, Unmaps, Takes
  <2> QED BY <2>1, <2>3, <1>t, StillSteps
<1>7. CASE syscall_returns(p)
  <2>1. Still /\ UNCHANGED frame_lock /\ sys_lock' = NULL /\ home(p, "user")
    BY <1>7 DEF syscall_returns, Still
  <2>2. Fine(p)
    BY <2>1, HomeInCall DEF Homes
  <2> QED BY <2>1, <2>2, <1>t, StillSteps
<1>8. CASE exit(p)
  <2>1. Still /\ UNCHANGED <<frame_lock, sys_lock>> /\ spte'[p] = spte[p]
    BY <1>8 DEF exit, Still, pages
  <2>2. CASE home(p, "exit")
    <3>1. Fine(p)
      BY <2>2, HomeInCall DEF Homes
    <3> QED BY <2>1, <3>1, <1>t, StillSteps
  <2>3. CASE loc[p].pc = "exit" /\ jump(p, "destroy")
    <3>1. Goes(p, [loc[p] EXCEPT !.pc = "destroy"])
      BY <2>3, <1>0, PageNames, Jumps DEF Pcs
    <3>2. CallOK([loc[p] EXCEPT !.pc = "destroy"], spte'[p])
      BY <2>1, <2>3, <1>0 DEF CallOK, LocType, Homes, Ends, Unmaps, Takes, Loads
    <3> QED BY <2>1, <3>1, <3>2, <1>t, FineAt, StillSteps
  <2> QED BY <1>8, <2>2, <2>3 DEF exit
<1>9. CASE transfer_violates(p)
  BY <1>9, PanicKeeps DEF transfer_violates
<1>10. ASSUME NEW u \in UPages, rights_violation(p, u)
       PROVE  VMInv'
  <2>1. Still /\ UNCHANGED <<frame_lock, sys_lock>> /\ home(p, "exit")
    BY <1>10 DEF rights_violation, Still
  <2>2. Fine(p)
    BY <2>1, HomeInCall DEF Homes
  <2> QED BY <2>1, <2>2, <1>t, StillSteps
<1>11. ASSUME NEW u \in UPages, munmap(p, u)
       PROVE  VMInv'
  <2>1. /\ Still /\ UNCHANGED frame_lock /\ sys_lock' = p /\ spte'[p] = spte[p]
        /\ loc[p].pc \in Homes /\ u \in Mapped /\ spte[p][u].status # "NONE"
    BY <1>11 DEF munmap, Still, pages, Homes, mapped
  <2> DEFINE pc == IF spte[p][u].status = "ON_FRAME" THEN "unmap_unpin" ELSE "unmap"
             m  == [loc[p] EXCEPT !.pc = pc, !.buf = <<u>>, !.k = spte[p][u].kpage, !.back = "write_back"]
  <2>2. pc \in {"unmap_unpin", "unmap"} /\ <<u>> \in Seq(UPages) /\ spte[p][u].kpage \in Frames \cup {NULL}
    BY <1>t DEF EntryType
  <2>3. loc' = [loc EXCEPT ![p] = m]
    BY <1>11 DEF munmap
  <2> HIDE DEF pc
  <2>4. m \in LocType
    BY <2>2, <1>0 DEF LocType, Pcs, Backs
  <2>5. m.pc = pc /\ m.buf = <<u>> /\ m.i = loc[p].i /\ m.back = "write_back"
    BY <1>0 DEF LocType
  <2>6. loc[p].i = 1
    BY <2>1, <1>0 DEF CallOK
  <2>7. Goes(p, m)
    BY <2>3, <2>4, <1>0, GoesTo
  <2> HIDE DEF m
  <2>8. CallOK(m, spte'[p])
    BY <2>1, <2>2, <2>5, <2>6 DEF CallOK, Homes, Ends, Unmaps, Takes
  <2> QED BY <2>1, <2>7, <2>8, <1>t, FineAt, StillSteps
<1> QED BY <1>1, <1>2, <1>3, <1>4, <1>5, <1>6, <1>7, <1>8, <1>9, <1>10, <1>11


\* The steps that leave the lists as they are.
LEMMA PageSteps ==
  ASSUME VMInv, NEW p \in Procs, Types', Fine(p), UNCHANGED <<heap, frame_list, frame_map>>,
         \A q \in Procs \ {p} : \A u \in UPages : spte[q][u].status # "NONE" => spte'[q][u].status # "NONE",
         \A q \in Procs, u \in Mapped : spte'[q][u].status # "NONE" => spte[q][u].status # "NONE"
  PROVE  VMInv'
<1>1. Calls'
  BY CallsKept DEF VMInv
<1>2. Lists'
  BY DEF VMInv, Lists
<1>3. Mmaps'
  BY MmapsKept DEF VMInv
<1> QED BY <1>1, <1>2, <1>3 DEF VMInv

LEMMA Touches ==
  ASSUME Types, NEW p \in Procs, NEW u \in UPages, NEW w \in BOOLEAN, touch(p, u, w)
  PROVE  /\ pte' \in [Procs -> [UPages -> PteType]] /\ written' \in [Procs -> [UPages -> Nat]]
         /\ \E V : data' \in [Frames -> V]
         /\ spte' = spte /\ file' = file
<1>1. pte \in [Procs -> [UPages -> PteType]] /\ written \in [Procs -> [UPages -> Nat]]
  BY DEF Types
<1>2. pte[p][u] \in PteType /\ pte[p] \in [UPages -> PteType] /\ written[p][u] \in Nat
  BY <1>1
<1>3. pte' \in [Procs -> [UPages -> PteType]]
  <2> DEFINE x == [pte[p][u] EXCEPT !.accessed = TRUE, !.dirty = @ \/ w]
  <2>1. x \in PteType
    BY <1>2 DEF PteType
  <2>2. pte' = [pte EXCEPT ![p] = [pte[p] EXCEPT ![u] = x]]
    BY <1>1, <1>2 DEF touch, PteType
  <2> HIDE DEF x
  <2> QED BY <1>1, <2>1, <2>2
<1>4. written' \in [Procs -> [UPages -> Nat]]
  <2>1. written[p][u] + 1 \in Nat
    BY <1>2
  <2> DEFINE v == written[p][u] + 1
  <2>2. written' = written \/ written' = [written EXCEPT ![p] = [written[p] EXCEPT ![u] = v]]
    BY DEF touch
  <2>3. v \in Nat
    BY <2>1
  <2> HIDE DEF v
  <2>4. [written[p] EXCEPT ![u] = v] \in [UPages -> Nat]
    BY <1>1, <2>3
  <2>5. [written EXCEPT ![p] = [written[p] EXCEPT ![u] = v]] \in [Procs -> [UPages -> Nat]]
    BY <1>1, <2>4
  <2> QED BY <1>1, <2>2, <2>5
<1>5. \E V : data' \in [Frames -> V]
  <2>1. PICK V : data \in [Frames -> V]
    BY DEF Types
  <2> DEFINE x == <<p, u, written[p][u] + 1>>
  <2>2. data' = data \/ data' = [data EXCEPT ![pte[p][u].frame] = x]
    BY DEF touch
  <2> HIDE DEF x
  <2>3. data' \in [Frames -> V \cup {x}]
    BY <2>1, <2>2
  <2> QED BY <2>3
<1> QED BY <1>3, <1>4, <1>5 DEF touch

LEMMA UserSteps ==
  ASSUME VMInv, NEW p \in Procs,
         \/ \E u \in UPages, w \in BOOLEAN : access(p, u, w)
         \/ \E u \in UPages : page_fault(p, u)
         \/ \E b \in Buffers : syscall(p, b)
         \/ \E w \in BOOLEAN : transfer(p, w)
  PROVE  VMInv'
<1>0. loc \in [Procs -> LocType] /\ loc[p] \in LocType /\ CallOK(loc[p], spte[p])
  BY LocTyped
<1>t. Types /\ spte \in [Procs -> [UPages -> EntryType]]
  BY DEF VMInv, Types
<1> USE DEF at
<1>1. ASSUME NEW u \in UPages, NEW w \in BOOLEAN, access(p, u, w)
      PROVE  VMInv'
  <2>1. /\ pte' \in [Procs -> [UPages -> PteType]] /\ written' \in [Procs -> [UPages -> Nat]]
        /\ \E V : data' \in [Frames -> V]
        /\ spte' = spte /\ file' = file
    BY <1>1, <1>t, Touches DEF access
  <2>2. UNCHANGED <<free, node, heap, frame_list, frame_map, frame_ptr, frame_lock, sys_lock, swap_map, swap, loc>>
    BY <1>1 DEF access, table, slots
  <2>3. Types'
    BY <1>t, <2>1, <2>2 DEF Types
  <2>4. Fine(p)
    BY <1>0, <2>1, <2>2 DEF Fine
  <2> QED BY <2>1, <2>2, <2>3, <2>4, PageSteps
<1>2. ASSUME NEW u \in UPages, page_fault(p, u)
      PROVE  VMInv'
  <2>1. UNCHANGED <<free, node, heap, frame_list, frame_map, frame_ptr, frame_lock, sys_lock, swap_map, swap,
                    data, pte, file, written>>
    BY <1>2 DEF page_fault, table, slots
  <2> DEFINE x == [spte[p][u] EXCEPT !.status = "ALL_ZERO"]
  <2>2. \/ spte' = spte
        \/ u \in Stack /\ spte[p][u].status = "NONE" /\ spte' = [spte EXCEPT ![p] = [spte[p] EXCEPT ![u] = x]]
    BY <1>2 DEF page_fault
  <2>3. x \in EntryType /\ x.status # "NONE"
    <3>1. spte[p][u] \in EntryType
      BY <1>t
    <3> QED BY <3>1 DEF EntryType, Statuses
  <2> HIDE DEF x
  <2>4. spte' \in [Procs -> [UPages -> EntryType]]
    BY <1>t, <2>2, <2>3
  <2>5. \A q \in Procs, v \in UPages : v # u \/ q # p => spte'[q][v] = spte[q][v]
    BY <1>t, <2>2
  <2>6. u \in Mapped => spte' = spte
    BY <2>2, VMAssumption
  <2>7. Fine(p)
    <3>1. loc[p].pc = "user" /\ call(p, "load", <<u>>, "user")
      BY <1>2 DEF page_fault
    <3>2. "load" \in Pcs /\ "user" \in Backs /\ <<u>> \in Seq(UPages)
      BY DEF Pcs, Backs
    <3> DEFINE m == [loc[p] EXCEPT !.pc = "load", !.buf = <<u>>, !.back = "user"]
    <3>3. Goes(p, m)
      BY <1>0, <3>1, <3>2, CallsIn
    <3>4. m.pc = "load" /\ m.buf = <<u>> /\ m.back = "user" /\ m.i = 1
      BY <1>0, <3>1 DEF LocType, CallOK, Homes
    <3> HIDE DEF m
    <3>5. CallOK(m, spte'[p])
      BY <3>4 DEF CallOK, Homes, Ends, Unmaps, Takes
    <3> QED BY <3>3, <3>5, FineAt
  <2>8. Types'
    BY <1>t, <2>1, <2>4, <2>7 DEF Types, Fine
  <2> QED BY <2>1, <2>5, <2>6, <2>7, <2>8, PageSteps, PageNames
<1>3. ASSUME NEW b \in Buffers, syscall(p, b)
      PROVE  VMInv'
  <2>1. b \in Seq(UPages) /\ b # <<>> /\ Len(b) \in Nat /\ Len(b) # 0
    BY VMAssumption
  <2>2. Last(b) \in UPages
    BY <2>1 DEF Last
  <2>3. /\ pte' \in [Procs -> [UPages -> PteType]] /\ written' \in [Procs -> [UPages -> Nat]]
        /\ \E V : data' \in [Frames -> V]
        /\ spte' = spte /\ file' = file
    BY <1>3, <1>t, <2>2, Touches DEF syscall
  <2>4. UNCHANGED <<free, node, heap, frame_list, frame_map, frame_ptr, frame_lock, sys_lock, swap_map, swap>>
    BY <1>3 DEF syscall, table, slots
  <2>5. Fine(p)
    <3>1. loc[p].pc = "user" /\ call(p, "sys_lock", b, "pin")
      BY <1>3 DEF syscall
    <3>2. "sys_lock" \in Pcs /\ "pin" \in Backs
      BY DEF Pcs, Backs
    <3> DEFINE m == [loc[p] EXCEPT !.pc = "sys_lock", !.buf = b, !.back = "pin"]
    <3>3. Goes(p, m)
      BY <1>0, <2>1, <3>1, <3>2, CallsIn
    <3>4. m.pc = "sys_lock" /\ m.buf = b /\ m.back = "pin" /\ m.i = 1
      BY <1>0, <3>1 DEF LocType, CallOK, Homes
    <3> HIDE DEF m
    <3>5. CallOK(m, spte'[p])
      BY <2>1, <3>4 DEF CallOK, Homes, Ends, Unmaps, Takes
    <3> QED BY <3>3, <3>5, FineAt
  <2>6. Types'
    BY <1>t, <2>3, <2>4, <2>5 DEF Types, Fine
  <2> QED BY <2>3, <2>4, <2>5, <2>6, PageSteps
<1>4. ASSUME NEW w \in BOOLEAN, transfer(p, w)
      PROVE  VMInv'
  <2>0. loc[p].pc = "io"
    BY <1>4 DEF transfer
  <2>1. page(p) \in UPages
    BY <2>0, AtAPage DEF Homes, Ends
  <2>2. loc[p].back # "write_back"
    BY <2>0, <1>0 DEF CallOK, Unmaps, Takes, Loads
  <2>3. UNCHANGED <<free, node, heap, frame_list, frame_map, frame_ptr, frame_lock, sys_lock, swap_map, swap>>
    BY <1>4 DEF transfer, table, slots
  <2>4. CASE touch(p, page(p), w) /\ advance(p, "io", "unpin_page", "unpinned")
    <3>1. /\ pte' \in [Procs -> [UPages -> PteType]] /\ written' \in [Procs -> [UPages -> Nat]]
          /\ \E V : data' \in [Frames -> V]
          /\ spte' = spte /\ file' = file
      BY <2>1, <2>4, <1>t, Touches
    <3>2. Fine(p)
      BY <2>0, <2>2, <2>4, <3>1, AdvanceInCall DEF Pcs, Backs, Homes, Ends, Unmaps, Takes
    <3>3. Types'
      BY <1>t, <2>3, <3>1, <3>2 DEF Types, Fine
    <3> QED BY <2>3, <3>1, <3>2, <3>3, PageSteps
  <2>5. CASE jump(p, "load") /\ UNCHANGED pages
    <3>1. UNCHANGED <<data, spte, pte, file, written>>
      BY <2>5 DEF pages
    <3>2. Fine(p)
      BY <2>0, <2>2, <2>5, <3>1, JumpInCall DEF Pcs, Homes, Ends, Unmaps, Takes
    <3>3. Types'
      BY <1>t, <2>3, <3>1, <3>2 DEF Types, Fine
    <3> QED BY <2>3, <3>1, <3>2, <3>3, PageSteps
  <2> QED BY <1>4, <2>4, <2>5 DEF transfer
<1> QED BY <1>1, <1>2, <1>3, <1>4


\* pick_frame finds a node of the list, if it has one that is not pinned.
LEMMA ClockFinds ==
  ASSUME Types, Lists, NEW p \in Procs, ~ lost_hand, evictable # {}
  PROVE  /\ pick(p) \in evictable
         /\ clock[pick(p)] \in Nodes /\ In(clock[pick(p)], frame_list)
<1> DEFINE i    == IF frame_ptr = NULL THEN 0 ELSE CHOOSE j \in DOMAIN frame_list : frame_list[j] = frame_ptr
           a    == SubSeq(frame_list, i + 1, Len(frame_list))
           b    == SubSeq(frame_list, 1, i)
           turn == a \o b
<1>1. /\ frame_list \in Seq(Nodes) /\ DOMAIN frame_list = 1 .. Len(frame_list) /\ Len(frame_list) \in Nat
      /\ \A j \in 1 .. Len(frame_list) : frame_list[j] \in Range(frame_list) /\ frame_list[j] \in Nodes
  BY DEF Lists, Range
<1>2. i \in 0 .. Len(frame_list)
  <2>1. frame_ptr # NULL => \E j \in 1 .. Len(frame_list) : frame_list[j] = frame_ptr
    BY DEF lost_hand, Contains
  <2> QED BY <1>1, <2>1
<1>3. clock = turn \o turn
  BY DEF clock
<1> HIDE DEF i
<1>4. i \in Int /\ i + 1 \in Int /\ Len(frame_list) \in Int /\ 1 \in Int
  BY <1>1, <1>2
<1>5. /\ \A j \in i + 1 .. Len(frame_list) : frame_list[j] \in Range(frame_list)
      /\ \A j \in 1 .. i : frame_list[j] \in Range(frame_list)
  BY <1>1, <1>2
<1>6. a \in Seq(Range(frame_list)) /\ b \in Seq(Range(frame_list))
  BY <1>4, <1>5, SubSeqProperties
<1> HIDE DEF a, b
<1>7. turn \in Seq(Range(frame_list)) /\ Len(turn) \in Nat
  BY <1>6, ConcatProperties
<1> HIDE DEF turn
<1>8. /\ clock \in Seq(Range(frame_list))
      /\ Len(clock) = Len(turn) + Len(turn)
      /\ \A j \in 1 .. Len(turn) + Len(turn) : clock[j] = IF j <= Len(turn) THEN turn[j] ELSE turn[j - Len(turn)]
  BY <1>3, <1>7, ConcatProperties
<1> DEFINE c == clock
           n == Len(turn)
<1>9. DOMAIN c = 1 .. n + n /\ \A j \in 1 .. n + n : c[j] \in Range(frame_list)
  BY <1>7, <1>8
<1>10. \A j \in 1 .. n : j + n \in 1 .. n + n /\ c[j + n] = c[j]
  <2> TAKE j \in 1 .. n
  <2>1. j + n \in 1 .. n + n /\ j \in 1 .. n + n /\ ~ j + n <= n /\ (j + n) - n = j /\ j <= n
    BY <1>7
  <2> QED BY <2>1, <1>8
<1>11. \A j \in 1 .. n + n : j <= n \/ (j - n \in 1 .. n /\ (j - n) + n = j)
  BY <1>7
<1>12. evictable = {j \in 1 .. n + n : ~ node[c[j]].pinned}
  BY <1>9 DEF evictable
<1> HIDE DEF c, n
<1>13. n \in Nat
  BY <1>7 DEF n
<1>14. evictable \in SUBSET Nat
  BY <1>12, <1>13
<1> DEFINE m == lowest(evictable)
<1>15. m \in evictable /\ \A j \in evictable : m <= j
  BY <1>14, Lowest
<1> HIDE DEF m
<1>16. m \in 1 .. n
  <2>1. m \in 1 .. n + n
    BY <1>12, <1>15
  <2>2. ASSUME ~ m <= n
        PROVE  FALSE
    <3>1. m - n \in 1 .. n /\ (m - n) + n = m /\ m - n \in 1 .. n + n
      BY <2>1, <2>2, <1>11, <1>13
    <3>2. c[m] = c[m - n]
      BY <3>1, <1>10
    <3>3. m - n \in evictable
      BY <3>1, <3>2, <1>12, <1>15
    <3>4. m <= m - n
      BY <3>3, <1>15
    <3> QED BY <3>4, <3>1, <1>13, <2>1, <2>2
  <2> QED BY <2>1, <2>2, <1>13
<1>17. m + n \in evictable /\ m < m + n /\ node[c[m]].upage = node[c[m + n]].upage
  <2>1. m + n \in 1 .. n + n /\ c[m + n] = c[m]
    BY <1>10, <1>16
  <2>2. m < m + n
    BY <1>13, <1>16
  <2> QED BY <2>1, <2>2, <1>12, <1>15
<1> DEFINE S == {j \in evictable : \/ ~ pte[p][node[clock[j]].upage].accessed
                                   \/ \E o \in evictable : o < j /\ node[clock[o]].upage = node[clock[j]].upage}
<1>18. pick(p) = lowest(S)
  BY DEF pick
<1>19. m + n \in S
  BY <1>15, <1>17 DEF c
<1>20. S \in SUBSET Nat
  BY <1>14
<1>21. pick(p) \in S
  <2> HIDE DEF S
  <2> QED BY <1>18, <1>19, <1>20, Lowest
<1>22. pick(p) \in evictable
  BY <1>21
<1>23. c[pick(p)] \in Range(frame_list)
  BY <1>9, <1>12, <1>22 DEF c, n
<1>24. PICK j \in 1 .. Len(frame_list) : frame_list[j] = c[pick(p)]
  BY <1>1, <1>23 DEF Range
<1> QED BY <1>1, <1>22, <1>24 DEF In, c

\* A page directory with one present bit cleared.
LEMMA ClearPage ==
  ASSUME NEW pd \in [Procs -> [UPages -> PteType]], NEW t, NEW u
  PROVE  /\ clear_page(pd, t, u) \in [Procs -> [UPages -> PteType]]
         /\ \A q \in Procs, v \in UPages :
              /\ clear_page(pd, t, u)[q][v].present = (pd[q][v].present /\ ~ (q = t /\ v = u))
              /\ clear_page(pd, t, u)[q][v].frame = pd[q][v].frame
              /\ clear_page(pd, t, u)[q][v].dirty = pd[q][v].dirty
<1> DEFINE x == [pd[t][u] EXCEPT !.present = FALSE]
           r == [pd[t] EXCEPT ![u] = x]
           c == clear_page(pd, t, u)
<1>1. c = [pd EXCEPT ![t] = r]
  BY DEF clear_page
<1>2. t \in Procs /\ u \in UPages =>
        x \in PteType /\ ~ x.present /\ x.frame = pd[t][u].frame /\ x.dirty = pd[t][u].dirty
  <2>1. t \in Procs /\ u \in UPages => pd[t][u] \in PteType
    OBVIOUS
  <2> QED BY <2>1 DEF PteType
<1>3. c \in [Procs -> [UPages -> PteType]]
      /\ \A q \in Procs, v \in UPages : c[q][v] = IF q = t /\ v = u THEN x ELSE pd[q][v]
  <2> HIDE DEF x, c
  <2>1. CASE t \in Procs
    <3>1. pd[t] \in [UPages -> PteType]
      BY <2>1
    <3>2. r \in [UPages -> PteType] /\ \A v \in UPages : r[v] = IF v = u THEN x ELSE pd[t][v]
      BY <1>2, <2>1, <3>1
    <3> HIDE DEF r
    <3>3. /\ [pd EXCEPT ![t] = r] \in [Procs -> [UPages -> PteType]]
          /\ \A q \in Procs : [pd EXCEPT ![t] = r][q] = IF q = t THEN r ELSE pd[q]
      BY <2>1, <3>2
    <3> QED BY <1>1, <3>2, <3>3
  <2>2. CASE t \notin Procs
    <3> HIDE DEF r
    <3>1. [pd EXCEPT ![t] = r] = pd
      BY <2>2
    <3> QED BY <1>1, <2>2, <3>1
  <2> QED BY <2>1, <2>2
<1> HIDE DEF x, c
<1>4. ASSUME NEW q \in Procs, NEW v \in UPages
      PROVE  /\ c[q][v].present = (pd[q][v].present /\ ~ (q = t /\ v = u))
             /\ c[q][v].frame = pd[q][v].frame /\ c[q][v].dirty = pd[q][v].dirty
  <2>1. pd[q][v].present \in BOOLEAN /\ c[q][v].present \in BOOLEAN
    <3>1. pd[q][v] \in PteType /\ c[q][v] \in PteType
      BY <1>3
    <3> QED BY <3>1 DEF PteType
  <2> QED BY <1>2, <1>3, <2>1
<1> QED BY <1>3, <1>4 DEF c

\* One entry of a table of tables.
Puts(g, f, a, b, x) == g = [f EXCEPT ![a][b] = x]

LEMMA OneEntry ==
  ASSUME NEW A, NEW B, NEW T, NEW f \in [A -> [B -> T]], NEW a, NEW b, NEW x, NEW g,
         a \in A /\ b \in B => x \in T, Puts(g, f, a, b, x)
  PROVE  /\ g \in [A -> [B -> T]]
         /\ \A q \in A, v \in B : g[q][v] = IF q = a /\ v = b THEN x ELSE f[q][v]
<1> DEFINE r == [f[a] EXCEPT ![b] = x]
<1>1. g = [f EXCEPT ![a] = r]
  BY DEF Puts
<1>2. CASE a \in A
  <2>1. f[a] \in [B -> T]
    BY <1>2
  <2>2. r \in [B -> T] /\ \A v \in B : r[v] = IF v = b THEN x ELSE f[a][v]
    BY <1>2, <2>1
  <2> HIDE DEF r
  <2>3. /\ [f EXCEPT ![a] = r] \in [A -> [B -> T]]
        /\ \A q \in A : [f EXCEPT ![a] = r][q] = IF q = a THEN r ELSE f[q]
    BY <1>2, <2>2
  <2> QED BY <1>1, <2>2, <2>3
<1>3. CASE a \notin A
  <2> HIDE DEF r
  <2>1. [f EXCEPT ![a] = r] = f
    BY <1>3
  <2> QED BY <1>1, <1>3, <2>1
<1> QED BY <1>2, <1>3

LEMMA PutsEntry ==
  ASSUME spte \in [Procs -> [UPages -> EntryType]], NEW t, NEW u, NEW x \in EntryType, Puts(spte', spte, t, u, x)
  PROVE  /\ spte' \in [Procs -> [UPages -> EntryType]]
         /\ \A q \in Procs, v \in UPages : spte'[q][v] = IF q = t /\ v = u THEN x ELSE spte[q][v]
<1>1. spte' \in [Procs -> [UPages -> EntryType]]
  BY OneEntry
<1>2. ASSUME NEW q \in Procs, NEW v \in UPages
      PROVE  spte'[q][v] = IF q = t /\ v = u THEN x ELSE spte[q][v]
  BY DEF Puts
<1> QED BY <1>1, <1>2

LEMMA PutsPte ==
  ASSUME pte \in [Procs -> [UPages -> PteType]], NEW t, NEW u, NEW x \in PteType, Puts(pte', pte, t, u, x)
  PROVE  /\ pte' \in [Procs -> [UPages -> PteType]]
         /\ \A q \in Procs, v \in UPages : pte'[q][v] = IF q = t /\ v = u THEN x ELSE pte[q][v]
<1>1. pte' \in [Procs -> [UPages -> PteType]]
  BY OneEntry
<1>2. ASSUME NEW q \in Procs, NEW v \in UPages
      PROVE  pte'[q][v] = IF q = t /\ v = u THEN x ELSE pte[q][v]
  BY DEF Puts
<1> QED BY <1>1, <1>2

LEMMA EvictKeeps ==
  ASSUME VMInv, NEW p \in Procs, evict(p)
  PROVE  VMInv'
<1> USE DEF at
<1>0. loc \in [Procs -> LocType] /\ loc[p] \in LocType /\ CallOK(loc[p], spte[p]) /\ loc[p].pc = "allocate"
  BY LocTyped DEF evict
<1>t. Types /\ Lists /\ pte \in [Procs -> [UPages -> PteType]] /\ swap_map \in [Slots -> BOOLEAN]
  BY DEF VMInv, Types
<1>1. CASE Panic
  BY <1>1, PanicKeeps
<1>2. CASE ~ Panic
  <2> DEFINE victim == clock[pick(p)]
             used   == {s \in Slots : swap_map[s]}
             gone   == passed(p)
             clear  == [pte EXCEPT ![p] = [x \in UPages |-> [pte[p][x] EXCEPT !.accessed = @ /\ x \notin gone]]]
  <2>1. ~ lost_hand /\ evictable # {} /\ used # {}
    BY <1>2 DEF evict
  <2>2. /\ frame_lock' = p
        /\ frame_ptr' = victim
        /\ pte' = clear_page(clear, node[victim].t, node[victim].upage)
        /\ loc' = [loc EXCEPT ![p].pc = "evicting", ![p].n = victim, ![p].s = lowest(used)]
        /\ UNCHANGED <<free, node, heap, frame_list, frame_map, sys_lock, slots,
                       data, spte, file, written, panic>>
    BY <1>2, <2>1 DEF evict
  <2>3. victim \in Nodes
    BY <2>1, <1>t, ClockFinds
  <2>4. lowest(used) \in Slots
    <3>1. used \in SUBSET Nat
      BY VMAssumption
    <3> HIDE DEF used
    <3>2. lowest(used) \in used
      BY <2>1, <3>1, Lowest
    <3> QED BY <3>2 DEF used
  <2> HIDE DEF victim, used, gone
  <2>5. clear \in [Procs -> [UPages -> PteType]]
    <3> DEFINE row == [x \in UPages |-> [pte[p][x] EXCEPT !.accessed = @ /\ x \notin gone]]
    <3>1. \A x \in UPages : [pte[p][x] EXCEPT !.accessed = @ /\ x \notin gone] \in PteType
      <4> TAKE x \in UPages
      <4>1. pte[p][x] \in PteType
        BY <1>t
      <4>2. (pte[p][x].accessed /\ x \notin gone) \in BOOLEAN
        OBVIOUS
      <4> QED BY <4>1, <4>2 DEF PteType
    <3>2. row \in [UPages -> PteType]
      BY <3>1
    <3> HIDE DEF row
    <3>3. [pte EXCEPT ![p] = row] \in [Procs -> [UPages -> PteType]]
      BY <3>2, <1>t
    <3> QED BY <3>3 DEF row
  <2> HIDE DEF clear
  <2>6. pte' \in [Procs -> [UPages -> PteType]]
    BY <2>2, <2>5, ClearPage
  <2>7. Fine(p)
    <3> DEFINE m == [loc[p] EXCEPT !.pc = "evicting", !.n = victim, !.s = lowest(used)]
    <3>1. loc' = [loc EXCEPT ![p] = m]
      BY <2>2, <1>0 DEF LocType
    <3>2. m \in LocType
      BY <1>0, <2>3, <2>4 DEF LocType, Pcs
    <3>3. /\ m.pc = "evicting" /\ m.n = victim /\ m.s = lowest(used)
          /\ m.buf = loc[p].buf /\ m.i = loc[p].i /\ m.back = loc[p].back
      BY <1>0 DEF LocType
    <3> HIDE DEF m
    <3>4. Goes(p, m)
      BY <1>0, <3>1, <3>2, GoesTo
    <3>5. CallOK(m, spte'[p])
      BY <1>0, <2>2, <2>3, <2>4, <3>3 DEF CallOK, Homes, Ends, Unmaps, Takes, Loads
    <3> QED BY <3>4, <3>5, FineAt
  <2>8. Types'
    BY <1>t, <2>2, <2>3, <2>6, <2>7 DEF Types, Fine, slots
  <2> QED BY <2>2, <2>7, <2>8, PageSteps
<1> QED BY <1>1, <1>2

LEMMA EvictedKeeps ==
  ASSUME VMInv, NEW p \in Procs, evicted(p)
  PROVE  VMInv'
<1> USE DEF at
<1>0. loc \in [Procs -> LocType] /\ loc[p] \in LocType /\ CallOK(loc[p], spte[p]) /\ loc[p].pc = "evicting"
  BY LocTyped DEF evicted
<1>t. Types /\ spte \in [Procs -> [UPages -> EntryType]] /\ swap_map \in [Slots -> BOOLEAN]
  BY DEF VMInv, Types
<1>1. CASE Panic
  BY <1>1, PanicKeeps
<1>2. CASE ~ Panic
  <2> DEFINE v == node[loc[p].n]
             s == loc[p].s
             x == [status |-> "SWAP", kpage |-> NULL, swap_id |-> s, dirty |-> is_dirty(v.t, v.upage)]
  <2>1. spte[v.t][v.upage].status # "NONE"
    BY <1>2 DEF evicted
  <2>2. /\ swap_write(s, v.kpage)
        /\ spte' = [spte EXCEPT ![v.t][v.upage] = x]
        /\ frame_lock' = NULL
        /\ jump(p, "evicted")
        /\ UNCHANGED <<free, table, sys_lock, data, pte, file, written, panic>>
    BY <1>2, <2>1 DEF evicted
  <2>3. s \in Slots
    BY <1>0 DEF CallOK
  <2>4. x \in EntryType /\ x.status = "SWAP"
    <3>1. is_dirty(v.t, v.upage) \in BOOLEAN
      BY DEF is_dirty
    <3> QED BY <2>3, <3>1 DEF EntryType, Statuses
  <2>5. swap_map' \in [Slots -> BOOLEAN] /\ \E V : swap' \in [Slots -> V]
    <3>1. PICK V : swap \in [Slots -> V]
      BY <1>t DEF Types
    <3> DEFINE y == data[v.kpage]
    <3>2. swap' = [swap EXCEPT ![s] = y] /\ swap_map' = [swap_map EXCEPT ![s] = FALSE]
      BY <2>2 DEF swap_write
    <3> HIDE DEF y, s
    <3>3. swap' \in [Slots -> V \cup {y}]
      BY <3>1, <3>2
    <3>4. swap_map' \in [Slots -> BOOLEAN]
      BY <3>2, <1>t
    <3> QED BY <3>3, <3>4
  <2> DEFINE t == v.t
             u == v.upage
  <2>6. Puts(spte', spte, t, u, x)
    BY <2>2 DEF Puts
  <2>7. spte[t][u].status # "NONE"
    BY <2>1
  <2> HIDE DEF x, s, t, u
  <2>8. /\ spte' \in [Procs -> [UPages -> EntryType]]
        /\ \A q \in Procs, w \in UPages : spte'[q][w] = IF q = t /\ w = u THEN x ELSE spte[q][w]
    BY <1>t, <2>4, <2>6, PutsEntry
  <2>9. /\ \A q \in Procs, w \in UPages : spte[q][w].status # "NONE" => spte'[q][w].status # "NONE"
        /\ \A q \in Procs, w \in UPages : spte'[q][w].status # "NONE" => spte[q][w].status # "NONE"
    BY <2>4, <2>7, <2>8
  <2>10. Fine(p)
    <3> DEFINE m == [loc[p] EXCEPT !.pc = "evicted"]
    <3>1. Goes(p, m)
      BY <2>2, <1>0, PageNames, Jumps DEF Pcs
    <3>2. /\ m.pc = "evicted" /\ m.n = loc[p].n
          /\ m.buf = loc[p].buf /\ m.i = loc[p].i /\ m.back = loc[p].back
      BY <1>0 DEF LocType
    <3> HIDE DEF m
    <3>3. loc[p].buf[loc[p].i] \in UPages
      BY <1>0, AtAPage DEF page, Homes, Ends
    <3>4. CallOK(m, spte'[p])
      BY <1>0, <3>2, <3>3, <2>9, PageNames DEF CallOK, Homes, Ends, Unmaps, Takes, Loads
    <3> QED BY <3>1, <3>4, FineAt
  <2>11. Types'
    BY <1>t, <2>2, <2>5, <2>8, <2>10 DEF Types, Fine, table
  <2>12. UNCHANGED <<heap, frame_list, frame_map>>
    BY <2>2 DEF table
  <2> QED BY <2>9, <2>10, <2>11, <2>12, PageSteps, PageNames
<1> QED BY <1>1, <1>2

LEMMA FillKeeps ==
  ASSUME VMInv, NEW p \in Procs, fill(p)
  PROVE  VMInv'
<1> USE DEF at
<1>0. loc \in [Procs -> LocType] /\ loc[p] \in LocType /\ CallOK(loc[p], spte[p]) /\ loc[p].pc = "fill"
  BY LocTyped DEF fill
<1>t. /\ Types /\ spte \in [Procs -> [UPages -> EntryType]] /\ pte \in [Procs -> [UPages -> PteType]]
      /\ swap_map \in [Slots -> BOOLEAN]
  BY DEF VMInv, Types
<1> DEFINE u == page(p)
           k == loc[p].k
           s == entry(p).swap_id
<1>1. u \in UPages /\ k \in Frames /\ entry(p) = spte[p][u] /\ entry(p) \in EntryType
  BY <1>0, AtAPage DEF CallOK, Homes, Ends
<1> DEFINE fresh == [NoPte EXCEPT !.frame = k, !.present = TRUE,
                       !.writable = entry(p).status = "FILE" => u \notin Code]
           x     == [spte[p][u] EXCEPT !.status = "ON_FRAME", !.kpage = k]
<1>2. UNCHANGED <<free, node, heap, frame_list, frame_map, frame_ptr, frame_lock, sys_lock, swap, file, written>>
  BY DEF fill, table
<1>3. \E V : data' \in [Frames -> V]
  <2>1. PICK V : data \in [Frames -> V]
    BY <1>t DEF Types
  <2> DEFINE a == <<p, u, 0>>
             b == <<p, u, file[p][u]>>
             c == swap[s]
  <2>2. \/ data' = data \/ data' = [data EXCEPT ![k] = a]
        \/ data' = [data EXCEPT ![k] = b] \/ data' = [data EXCEPT ![k] = c]
    <3> DEFINE swapped == entry(p).status = "SWAP" /\ ~ swap_map[s]
    <3>1. data' = CASE entry(p).status = "ALL_ZERO" -> [data EXCEPT ![k] = a]
                    [] entry(p).status = "FILE"     -> [data EXCEPT ![k] = b]
                    [] swapped                      -> [data EXCEPT ![k] = c]
                    [] OTHER                        -> data
      BY DEF fill
    <3>2. swapped <=> entry(p).status = "SWAP" /\ ~ swap_map[s]
      OBVIOUS
    <3> HIDE DEF a, b, c, k, swapped
    <3> QED BY <3>1, <3>2
  <2> HIDE DEF a, b, c, k
  <2>3. data' \in [Frames -> V \cup {a, b, c}]
    BY <2>1, <2>2
  <2> QED BY <2>3
<1>4. swap_map' \in [Slots -> BOOLEAN]
  <2>1. swap_map' = swap_map \/ swap_map' = [swap_map EXCEPT ![s] = TRUE]
    BY DEF fill
  <2> HIDE DEF s
  <2> QED BY <2>1, <1>t
<1>5. pte' \in [Procs -> [UPages -> PteType]]
  <2>1. fresh \in PteType
    <3>1. (entry(p).status = "FILE" => u \notin Code) \in BOOLEAN
      OBVIOUS
    <3> QED BY <1>1, <3>1 DEF NoPte, PteType
  <2>2. Puts(pte', pte, p, u, fresh)
    BY DEF fill, Puts
  <2> HIDE DEF fresh, u
  <2> QED BY <2>1, <2>2, <1>t, PutsPte
<1>6. /\ spte' \in [Procs -> [UPages -> EntryType]]
      /\ \A q \in Procs, v \in UPages : spte'[q][v] = IF q = p /\ v = u THEN x ELSE spte[q][v]
  <2>1. x \in EntryType
    BY <1>1 DEF EntryType, Statuses
  <2>2. spte' = [spte EXCEPT ![p][u] = x]
    <3>1. spte' = [spte EXCEPT ![p][u].status = "ON_FRAME", ![p][u].kpage = k]
      BY DEF fill
    <3>2. spte[p] \in [UPages -> EntryType] /\ spte[p][u] \in EntryType
      BY <1>1, <1>t
    <3> HIDE DEF u, k
    <3> QED BY <3>1, <3>2, <1>t, <1>1 DEF EntryType
  <2>3. Puts(spte', spte, p, u, x)
    BY <2>2 DEF Puts
  <2> HIDE DEF x, u
  <2> QED BY <2>1, <2>3, <1>t, PutsEntry
<1>7. x.status = "ON_FRAME" /\ entry(p).status = spte[p][u].status
  BY <1>1 DEF EntryType
<1>8. /\ \A q \in Procs, v \in UPages : spte[q][v].status # "NONE" => spte'[q][v].status # "NONE"
      /\ \A q \in Procs, v \in UPages : spte'[q][v].status # "NONE" => spte[q][v].status # "NONE"
  <2>1. spte[p][u].status # "NONE"
    BY <1>0 DEF CallOK, Takes, page
  <2> HIDE DEF x, u
  <2> QED BY <1>6, <1>7, <2>1
<1>9. Fine(p)
  <2> DEFINE m == [loc[p] EXCEPT !.pc = "unpin"]
  <2>1. jump(p, "unpin")
    BY DEF fill
  <2>2. Goes(p, m)
    BY <2>1, <1>0, PageNames, Jumps DEF Pcs
  <2>3. /\ m.pc = "unpin" /\ m.buf = loc[p].buf /\ m.i = loc[p].i /\ m.back = loc[p].back
    BY <1>0 DEF LocType
  <2> HIDE DEF m
  <2>4. CallOK(m, spte'[p])
    BY <1>0, <2>3, <1>8, PageNames DEF CallOK, Homes, Ends, Unmaps, Takes, Loads
  <2> QED BY <2>2, <2>4, FineAt
<1>10. Types'
  BY <1>t, <1>2, <1>3, <1>4, <1>5, <1>6, <1>9 DEF Types, Fine
<1> QED BY <1>2, <1>8, <1>9, <1>10, PageSteps, PageNames


LEMMA WriteBackKeeps ==
  ASSUME VMInv, NEW p \in Procs, write_back(p)
  PROVE  VMInv'
<1> USE DEF at
<1>0. loc \in [Procs -> LocType] /\ loc[p] \in LocType /\ CallOK(loc[p], spte[p]) /\ loc[p].pc = "write_back"
  BY LocTyped DEF write_back
<1>t. Types /\ pte \in [Procs -> [UPages -> PteType]]
  BY DEF VMInv, Types
<1> DEFINE u == page(p)
<1>1. u \in UPages /\ entry(p).kpage \in Frames \cup {NULL}
  BY <1>0, AtAPage DEF EntryType, Homes, Ends
<1>2. loc[p].back = "write_back"
  BY <1>0 DEF CallOK, Unmaps
<1>3. UNCHANGED <<free, node, heap, frame_list, frame_map, frame_ptr, frame_lock, sys_lock, swap_map, swap,
                  data, spte, written>>
  BY DEF write_back, table, slots
<1>4. Fine(p)
  <2>1. ASSUME jumpk(p, "unmap_free", entry(p).kpage)
        PROVE  Fine(p)
    BY <1>0, <1>1, <1>2, <1>3, <2>1, JumpInCall DEF Pcs, Homes, Ends, Unmaps, Takes, Loads
  <2>2. ASSUME jump(p, "load")
        PROVE  Fine(p)
    BY <1>0, <1>2, <1>3, <2>2, JumpInCall DEF Pcs, Homes, Ends, Unmaps, Takes, Loads
  <2> QED BY <2>1, <2>2 DEF write_back
<1>5. \E V : file' \in [Procs -> [UPages -> V]]
  <2>1. PICK V : file \in [Procs -> [UPages -> V]]
    BY <1>t DEF Types
  <2> DEFINE x == data[pte[p][u].frame][3]
             W == V \cup {x}
  <2>2. file' = file \/ Puts(file', file, p, u, x)
    BY DEF write_back, Puts
  <2>3. file \in [Procs -> [UPages -> W]] /\ x \in W
    BY <2>1
  <2> HIDE DEF x, W, u
  <2>4. file' \in [Procs -> [UPages -> W]]
    BY <2>2, <2>3, OneEntry
  <2> QED BY <2>4
<1>6. pte' \in [Procs -> [UPages -> PteType]]
  <2> DEFINE x == [pte[p][u] EXCEPT !.accessed = TRUE]
  <2>1. pte' = pte \/ Puts(pte', pte, p, u, x)
    BY DEF write_back, Puts
  <2>2. x \in PteType
    <3>1. pte[p][u] \in PteType
      BY <1>t, <1>1
    <3> HIDE DEF u
    <3> QED BY <3>1 DEF PteType
  <2> HIDE DEF x, u
  <2> QED BY <1>t, <2>1, <2>2, PutsPte
<1>7. Types'
  BY <1>t, <1>3, <1>4, <1>5, <1>6 DEF Types, Fine
<1> QED BY <1>3, <1>4, <1>7, PageSteps

LEMMA SpteDestroyKeeps ==
  ASSUME VMInv, NEW p \in Procs, NEW u \in UPages, spte_destroy(p, u)
  PROVE  VMInv'
<1> USE DEF at
<1>0. loc \in [Procs -> LocType] /\ loc[p] \in LocType /\ CallOK(loc[p], spte[p]) /\ loc[p].pc = "destroy"
  BY LocTyped DEF spte_destroy
<1>t. Types /\ spte \in [Procs -> [UPages -> EntryType]]
  BY DEF VMInv, Types
<1>1. UNCHANGED <<free, node, heap, frame_list, frame_map, frame_ptr, frame_lock, sys_lock, swap_map, swap,
                  data, pte, file, written>>
  BY DEF spte_destroy, table, slots
<1>2. NoSpte \in EntryType /\ Puts(spte', spte, p, u, NoSpte)
  BY DEF NoSpte, EntryType, Statuses, spte_destroy, Puts
<1>3. /\ spte' \in [Procs -> [UPages -> EntryType]]
      /\ \A q \in Procs, v \in UPages : spte'[q][v] = IF q = p /\ v = u THEN NoSpte ELSE spte[q][v]
  BY <1>2, <1>t, PutsEntry
<1>4. Fine(p)
  <2>1. spte[p][u].kpage \in Frames \cup {NULL}
    BY <1>t DEF EntryType
  <2>2. loc[p].back # "write_back"
    BY <1>0 DEF CallOK, Unmaps, Takes, Loads
  <2>3. CASE UNCHANGED loc
    <3>1. CallOK(loc[p], spte'[p])
      BY <1>0, <2>2 DEF CallOK, Unmaps, Takes, Homes, Ends
    <3> QED BY <1>0, <2>3, <3>1 DEF Fine
  <2>4. CASE jumpk(p, "destroy_free", spte[p][u].kpage)
    <3> DEFINE m == [loc[p] EXCEPT !.pc = "destroy_free", !.k = spte[p][u].kpage]
    <3>1. Goes(p, m)
      BY <1>0, <2>1, <2>4, Jumps DEF Pcs
    <3>2. m.pc = "destroy_free" /\ m.back = loc[p].back
      BY <1>0 DEF LocType
    <3> HIDE DEF m
    <3>3. CallOK(m, spte'[p])
      BY <2>2, <3>2 DEF CallOK, Unmaps, Takes, Homes, Ends
    <3> QED BY <3>1, <3>3, FineAt
  <2> QED BY <2>3, <2>4 DEF spte_destroy
<1>5. Types'
  BY <1>t, <1>1, <1>3, <1>4 DEF Types, Fine
<1>6. /\ \A q \in Procs \ {p} : \A v \in UPages : spte[q][v].status # "NONE" => spte'[q][v].status # "NONE"
      /\ \A q \in Procs, v \in UPages : spte'[q][v].status # "NONE" => spte[q][v].status # "NONE"
  BY <1>3 DEF NoSpte
<1> QED BY <1>1, <1>4, <1>5, <1>6, PageSteps, PageNames

\* The steps that change the frame table.
LEMMA TableSteps ==
  ASSUME VMInv, NEW p \in Procs, Types', Lists', Fine(p), UNCHANGED spte,
         \A x : In(x, heap') \/ In(x, frame_list') => In(x, heap) \/ In(x, frame_list)
  PROVE  VMInv'
<1>1. Calls'
  BY CallsKept DEF VMInv
<1>2. Mmaps'
  BY MmapsKept DEF VMInv
<1> QED BY <1>1, <1>2 DEF VMInv

LEMMA NewNodeKeeps ==
  ASSUME VMInv, NEW p \in Procs, NEW k \in Frames \cup {NULL}, loc[p].pc \in {"allocate", "again"}, new_node(p, k),
         UNCHANGED <<frame_lock, sys_lock, slots, pages>>
  PROVE  VMInv'
<1>0. loc \in [Procs -> LocType] /\ loc[p] \in LocType /\ CallOK(loc[p], spte[p])
  BY LocTyped
<1>t. Types /\ Calls /\ Lists /\ free \subseteq Frames /\ node \in [Nodes -> NodeType]
  BY DEF VMInv, Types
<1>u. UNCHANGED <<frame_lock, sys_lock, swap_map, swap, data, spte, pte, file, written>>
  BY DEF slots, pages
<1>1. free' \subseteq Frames
  <2>1. free' = free \ {k}
    BY DEF new_node
  <2> QED BY <2>1, <1>t
<1>2. CASE heap = <<>>
  <2>1. UNCHANGED table /\ return(p, FALSE)
    BY <1>2 DEF new_node
  <2>2. Fine(p)
    BY <2>1, <1>t, <1>u, Returns DEF Takes, Loads
  <2>3. UNCHANGED <<node, heap, frame_list, frame_map, frame_ptr>>
    BY <2>1 DEF table
  <2>4. Types'
    BY <1>t, <1>u, <1>1, <2>2, <2>3 DEF Types, Fine
  <2> QED BY <1>u, <2>2, <2>3, <2>4, PageSteps
<1>3. CASE heap # <<>>
  <2> DEFINE n == Head(heap)
             x == [t |-> p, upage |-> page(p), kpage |-> k, pinned |-> TRUE]
  <2>1. /\ IF k = NULL THEN return(p, FALSE) ELSE jumpk(p, "fill", k) /\ UNCHANGED panic
        /\ node' = [node EXCEPT ![n] = x]
        /\ heap' = Tail(heap)
        /\ frame_list' = Append(frame_list, Head(heap))
        /\ frame_map' = IF frame_map[k] = NULL THEN [frame_map EXCEPT ![k] = Head(heap)] ELSE frame_map
        /\ UNCHANGED frame_ptr
    BY <1>3 DEF new_node
  <2>2. page(p) \in UPages /\ entry(p).status # "NONE"
    BY AtAPage DEF Homes, Ends, Takes
  <2>3. /\ Lists' /\ n \in Nodes
        /\ \A y : In(y, heap') \/ In(y, frame_list') => In(y, heap) \/ In(y, frame_list)
    BY <1>t, <1>3, <2>1, PutsNode
  <2>4. x \in NodeType
    BY <2>2 DEF NodeType
  <2> HIDE DEF n, x
  <2>5. node' \in [Nodes -> NodeType]
    BY <2>1, <2>3, <2>4, <1>t
  <2>6. Fine(p)
    <3>1. CASE k = NULL
      BY <3>1, <2>1, <1>t, <1>u, Returns DEF Takes, Loads
    <3>2. CASE k # NULL
      <4> DEFINE m == [loc[p] EXCEPT !.pc = "fill", !.k = k]
      <4>1. Goes(p, m)
        BY <1>0, <2>1, <3>2, Jumps DEF Pcs
      <4>2. /\ m.pc = "fill" /\ m.k = k /\ m.buf = loc[p].buf /\ m.i = loc[p].i /\ m.back = loc[p].back
        BY <1>0 DEF LocType
      <4> HIDE DEF m
      <4>3. CallOK(m, spte'[p])
        BY <1>0, <1>u, <3>2, <4>2 DEF CallOK, Homes, Ends, Unmaps, Takes, Loads
      <4> QED BY <4>1, <4>3, FineAt
    <3> QED BY <3>1, <3>2
  <2>7. Types'
    BY <1>t, <1>u, <1>1, <2>1, <2>5, <2>6 DEF Types, Fine
  <2> QED BY <1>u, <2>3, <2>6, <2>7, TableSteps
<1> QED BY <1>2, <1>3

LEMMA AllocateKeeps ==
  ASSUME VMInv, NEW p \in Procs, frame_allocate(p) \/ frame_allocated(p)
  PROVE  VMInv'
<1>1. free \subseteq Frames /\ free \in SUBSET Nat
  BY VMAssumption DEF VMInv, Types
<1>2. free # {} => lowest(free) \in Frames
  BY <1>1, Lowest
<1>3. CASE frame_allocate(p)
  BY <1>2, <1>3, NewNodeKeeps DEF frame_allocate, at
<1>4. CASE frame_allocated(p)
  <2> DEFINE k == IF free = {} THEN NULL ELSE lowest(free)
  <2>1. k \in Frames \cup {NULL}
    BY <1>2
  <2>2. new_node(p, k) /\ loc[p].pc = "again" /\ UNCHANGED <<frame_lock, sys_lock, slots, pages>>
    BY <1>4 DEF frame_allocated, at
  <2> HIDE DEF k
  <2> QED BY <2>1, <2>2, NewNodeKeeps
<1> QED BY <1>3, <1>4

\* frame_set_pinned.
LEMMA SetPinnedTyped ==
  ASSUME node \in [Nodes -> NodeType], NEW k, NEW pin \in BOOLEAN, set_pinned(k, pin)
  PROVE  /\ node' \in [Nodes -> NodeType]
         /\ \A n \in Nodes : /\ node'[n].t = node[n].t /\ node'[n].upage = node[n].upage
                             /\ node'[n].kpage = node[n].kpage
<1> DEFINE m == frame_map[k]
           x == [node[m] EXCEPT !.pinned = pin]
<1>1. node' = [node EXCEPT ![m] = x]
  BY DEF set_pinned
<1>2. m \in Nodes => x \in NodeType /\ x.t = node[m].t /\ x.upage = node[m].upage /\ x.kpage = node[m].kpage
  <2>1. m \in Nodes => node[m] \in NodeType
    OBVIOUS
  <2> QED BY <2>1 DEF NodeType
<1> HIDE DEF m, x
<1> QED BY <1>1, <1>2

LEMMA PinSteps ==
  ASSUME VMInv, NEW p \in Procs, unpin(p) \/ pinned(p) \/ unmap_unpin(p)
  PROVE  VMInv'
<1> USE DEF at
<1>0. loc \in [Procs -> LocType] /\ loc[p] \in LocType /\ CallOK(loc[p], spte[p])
  BY LocTyped
<1>t. Types /\ Calls /\ node \in [Nodes -> NodeType]
  BY DEF VMInv, Types
<1>1. CASE Panic
  BY <1>1, PanicKeeps
<1>2. CASE ~ Panic
  <2>1. /\ set_pinned(loc[p].k, FALSE) \/ set_pinned(loc[p].k, TRUE)
        /\ UNCHANGED <<free, heap, frame_list, frame_map, frame_ptr, frame_lock, sys_lock, slots, pages>>
        /\ \/ loc[p].pc = "unpin" /\ return(p, TRUE)
           \/ loc[p].pc = "set_pinned" /\ advance(p, "load", "io", "io")
           \/ loc[p].pc = "unmap_unpin" /\ jump(p, "unmap")
    BY <1>2 DEF unpin, pinned, unmap_unpin
  <2>2. UNCHANGED <<swap_map, swap, data, spte, pte, file, written>>
    BY <2>1 DEF slots, pages
  <2>3. node' \in [Nodes -> NodeType]
    BY <2>1, <1>t, SetPinnedTyped
  <2>4. Fine(p)
    <3>1. CASE loc[p].pc = "unpin" /\ return(p, TRUE)
      BY <3>1, <1>t, <2>2, Returns DEF Takes, Loads
    <3>2. CASE loc[p].pc = "set_pinned" /\ advance(p, "load", "io", "io")
      <4>1. loc[p].back # "write_back"
        BY <3>2, <1>0 DEF CallOK, Unmaps, Takes, Loads
      <4> QED BY <3>2, <4>1, <2>2, AdvanceInCall DEF Pcs, Backs, Homes, Ends, Unmaps, Takes
    <3>3. CASE loc[p].pc = "unmap_unpin" /\ jump(p, "unmap")
      BY <3>3, <1>0, <2>2, JumpInCall DEF CallOK, Pcs, Homes, Ends, Unmaps, Takes, Loads
    <3> QED BY <2>1, <3>1, <3>2, <3>3
  <2>5. Types'
    BY <1>t, <2>1, <2>2, <2>3, <2>4 DEF Types, Fine
  <2> QED BY <2>1, <2>2, <2>4, <2>5, PageSteps
<1> QED BY <1>1, <1>2


\* list_remove and free: what frame_free does to the nodes.
LEMMA ForgetTyped ==
  ASSUME node \in [Nodes -> NodeType], NEW k, forget(k)
  PROVE  /\ node' \in [Nodes -> NodeType]
         /\ \A n \in Nodes : node'[n] = IF n = frame_map[k] THEN NoNode ELSE node[n]
<1> DEFINE m == frame_map[k]
<1>1. node' = [node EXCEPT ![m] = NoNode]
  BY DEF forget
<1>2. NoNode \in NodeType
  BY DEF NoNode, NodeType
<1> HIDE DEF m
<1>3. node' \in [Nodes -> NodeType] /\ \A n \in Nodes : node'[n] = IF n = m THEN NoNode ELSE node[n]
  BY <1>1, <1>2
<1> QED BY <1>3 DEF m

LEMMA FreeSteps ==
  ASSUME VMInv, NEW p \in Procs, free_victim(p) \/ destroy_free(p)
  PROVE  VMInv'
<1> USE DEF at
<1>0. loc \in [Procs -> LocType] /\ loc[p] \in LocType /\ CallOK(loc[p], spte[p])
  BY LocTyped
<1>t. Types /\ Calls /\ Lists /\ free \subseteq Frames /\ node \in [Nodes -> NodeType]
  BY DEF VMInv, Types
<1>1. CASE Panic
  BY <1>1, PanicKeeps
<1>2. CASE ~ Panic
  <2> DEFINE k == loc[p].k
  <2>1. PICK free_page \in BOOLEAN :
          /\ k \in Frames /\ frame_map[k] # NULL
          /\ frame_free(k, free_page)
          /\ UNCHANGED <<frame_lock, sys_lock, slots, pages>>
          /\ \/ loc[p].pc = "free_victim" /\ jump(p, "again")
             \/ loc[p].pc = "destroy_free" /\ jump(p, "destroy")
    BY <1>2 DEF free_victim, destroy_free, freeable
  <2>2. UNCHANGED <<swap_map, swap, data, spte, pte, file, written>>
    BY <2>1 DEF slots, pages
  <2>3. Fine(p)
    <3>1. CASE loc[p].pc = "free_victim" /\ jump(p, "again")
      BY <3>1, <1>0, <2>2, AtAPage, JumpInCall DEF CallOK, Pcs, Homes, Ends, Unmaps, Takes, Loads
    <3>2. CASE loc[p].pc = "destroy_free" /\ jump(p, "destroy")
      <4>1. Goes(p, [loc[p] EXCEPT !.pc = "destroy"])
        BY <3>2, <1>0, PageNames, Jumps DEF Pcs
      <4>2. CallOK([loc[p] EXCEPT !.pc = "destroy"], spte'[p])
        BY <1>0, <2>2, <3>2 DEF CallOK, LocType, Homes, Ends, Unmaps, Takes, Loads
      <4> QED BY <4>1, <4>2, FineAt
    <3> QED BY <2>1, <3>1, <3>2
  <2> HIDE DEF k
  <2>4. /\ forget(k) /\ heap' = <<frame_map[k]>> \o heap /\ UNCHANGED frame_ptr
        /\ free' = free \/ free' = free \cup {k}
    BY <2>1 DEF frame_free
  <2>5. node' \in [Nodes -> NodeType] /\ free' \subseteq Frames
    BY <2>1, <2>4, <1>t, ForgetTyped
  <2>6. Lists' /\ \A x : In(x, heap') \/ In(x, frame_list') => In(x, heap) \/ In(x, frame_list)
    BY <2>1, <2>4, <1>t, FreesFrame
  <2>7. Types'
    BY <1>t, <2>1, <2>2, <2>3, <2>4, <2>5 DEF Types, Fine
  <2> QED BY <2>2, <2>3, <2>6, <2>7, TableSteps
<1> QED BY <1>1, <1>2

\* The mmap_node of the page a process unmaps.
LEMMA MmapNode ==
  ASSUME VMInv, NEW p \in Procs, loc[p].pc \in Unmaps
  PROVE  /\ loc[p].back = "write_back" /\ page(p) \in Mapped /\ <<p, page(p)>> \in Mappings
         /\ mmap_node[<<p, page(p)>>] \in Nodes
         /\ ~ In(mmap_node[<<p, page(p)>>], heap) /\ ~ In(mmap_node[<<p, page(p)>>], frame_list)
<1>1. /\ CallOK(loc[p], spte[p]) /\ loc[p] \in LocType
  BY LocTyped
<1>2. /\ loc[p].back = "write_back" /\ Len(loc[p].buf) = 1 /\ loc[p].buf[1] \in Mapped
      /\ spte[p][loc[p].buf[1]].status # "NONE" /\ loc[p].i \in 1 .. Len(loc[p].buf)
  BY <1>1 DEF CallOK, Unmaps, Homes, Ends
<1>3. page(p) \in Mapped /\ spte[p][page(p)].status # "NONE"
  BY <1>2 DEF page
<1>4. <<p, page(p)>> \in Mappings
  BY <1>3 DEF Mappings
<1>5. mmap_node[<<p, page(p)>>] \in Nodes
  BY <1>4, MmapNodes
<1>6. ~ In(mmap_node[<<p, page(p)>>], heap) /\ ~ In(mmap_node[<<p, page(p)>>], frame_list)
  BY <1>3 DEF VMInv, Mmaps
<1> QED BY <1>2, <1>3, <1>4, <1>5, <1>6

\* The end of munmap: h is the heap with the node of the page's frame, if it had one.
LEMMA UnmappedKeeps ==
  ASSUME VMInv, NEW p \in Procs, loc[p].pc \in Unmaps, NEW h \in Seq(Nodes), Distinct(h),
         unmapped(p, h), frame_list' \in Seq(Nodes), Distinct(frame_list'), MapOK(frame_map', frame_list'),
         \A x : ~ (In(x, h) /\ In(x, frame_list')),
         \A x : In(x, h) \/ In(x, frame_list') => In(x, heap) \/ In(x, frame_list)
  PROVE  /\ spte' \in [Procs -> [UPages -> EntryType]] /\ Fine(p)
         /\ sys_lock' = NULL
         /\ \A q \in Procs, v \in UPages : spte'[q][v] = IF q = p /\ v = page(p) THEN NoSpte ELSE spte[q][v]
         /\ Lists' /\ Mmaps'
         /\ \A q \in Procs \ {p} : \A u \in UPages : spte[q][u].status # "NONE" => spte'[q][u].status # "NONE"
<1> DEFINE u == page(p)
           n == mmap_node[<<p, u>>]
<1>1. u \in Mapped /\ <<p, u>> \in Mappings /\ n \in Nodes /\ ~ In(n, heap) /\ ~ In(n, frame_list)
  BY MmapNode
<1>2. /\ heap' = <<n>> \o h /\ sys_lock' = NULL
      /\ Puts(spte', spte, p, u, NoSpte)
      /\ \E l \in Homes : home(p, l)
  BY DEF unmapped, Puts, Homes
<1>3. NoSpte \in EntryType
  BY DEF NoSpte, EntryType, Statuses
<1>4. /\ spte' \in [Procs -> [UPages -> EntryType]]
      /\ \A q \in Procs, v \in UPages : spte'[q][v] = IF q = p /\ v = u THEN NoSpte ELSE spte[q][v]
  <2>1. spte \in [Procs -> [UPages -> EntryType]]
    BY DEF VMInv, Types
  <2> HIDE DEF u
  <2> QED BY <1>2, <1>3, <2>1, PutsEntry
<1>5. Fine(p)
  BY <1>2, HomeInCall
<1> HIDE DEF n
<1>6. Lists' /\ \A x : In(x, heap') <=> In(x, h) \/ x = n
  BY <1>1, <1>2, FreesNode
<1>7. Mmaps'
  <2> SUFFICES ASSUME NEW q \in Procs, NEW v \in Mapped, spte'[q][v].status # "NONE"
               PROVE  ~ In(mmap_node[<<q, v>>], heap') /\ ~ In(mmap_node[<<q, v>>], frame_list')
    BY DEF Mmaps
  <2>1. ~ (q = p /\ v = u) /\ spte[q][v].status # "NONE"
    BY <1>4, PageNames DEF NoSpte
  <2>2. ~ In(mmap_node[<<q, v>>], heap) /\ ~ In(mmap_node[<<q, v>>], frame_list)
    BY <2>1 DEF VMInv, Mmaps
  <2>3. mmap_node[<<q, v>>] # n
    <3>1. <<q, v>> \in Mappings /\ <<q, v>> # <<p, u>>
      BY <2>1 DEF Mappings
    <3> HIDE DEF u
    <3> QED BY <3>1, <1>1, MmapNodes DEF n
  <2> QED BY <2>2, <2>3, <1>6
<1>8. \A q \in Procs \ {p} : \A v \in UPages : spte[q][v].status # "NONE" => spte'[q][v].status # "NONE"
  BY <1>4
<1> QED BY <1>2, <1>4, <1>5, <1>6, <1>7, <1>8

LEMMA SptUnmapKeeps ==
  ASSUME VMInv, NEW p \in Procs, spt_unmap(p)
  PROVE  VMInv'
<1> USE DEF at
<1>0. loc \in [Procs -> LocType] /\ loc[p] \in LocType /\ CallOK(loc[p], spte[p]) /\ loc[p].pc = "unmap"
  BY LocTyped DEF spt_unmap
<1>t. Types /\ Calls /\ Lists /\ swap_map \in [Slots -> BOOLEAN]
  BY DEF VMInv, Types
<1> DEFINE u == page(p)
           e == entry(p)
<1>1. u \in UPages /\ e \in EntryType /\ loc[p].back = "write_back"
  BY <1>0, AtAPage DEF CallOK, Homes, Ends, Unmaps
<1>2. UNCHANGED <<free, node, frame_list, frame_map, frame_ptr, frame_lock, swap, data, pte, written, panic>>
  BY DEF spt_unmap
<1>3. CASE e.status = "ON_FRAME"
  <2>1. /\ UNCHANGED <<heap, spte, sys_lock, swap_map, file>>
        /\ \E l \in {"write_back", "unmap_free"} : jumpk(p, l, e.kpage)
    BY <1>3 DEF spt_unmap
  <2>2. e.kpage \in Frames \cup {NULL}
    BY <1>1 DEF EntryType
  <2>3. Fine(p)
    BY <2>1, <2>2, <1>0, <1>1, JumpInCall DEF Pcs, Homes, Ends, Unmaps, Takes, Loads
  <2>4. Types'
    BY <1>t, <1>2, <2>1, <2>3 DEF Types, Fine
  <2> QED BY <1>2, <2>1, <2>3, <2>4, PageSteps
<1>4. CASE e.status # "ON_FRAME"
  <2> DEFINE x == swap[e.swap_id][3]
  <2>1. /\ unmapped(p, heap)
        /\ file' = file \/ Puts(file', file, p, u, x)
        /\ swap_map' = swap_map \/ swap_map' = [swap_map EXCEPT ![e.swap_id] = TRUE]
    BY <1>4 DEF spt_unmap, Puts
  <2>2. heap \in Seq(Nodes) /\ Distinct(heap) /\ frame_list \in Seq(Nodes) /\ Distinct(frame_list)
        /\ MapOK(frame_map, frame_list) /\ \A y : ~ (In(y, heap) /\ In(y, frame_list))
    BY <1>t, ApartIn DEF Lists
  <2>3. /\ spte' \in [Procs -> [UPages -> EntryType]] /\ Fine(p) /\ sys_lock' = NULL
        /\ Lists' /\ Mmaps'
        /\ \A q \in Procs \ {p} : \A v \in UPages : spte[q][v].status # "NONE" => spte'[q][v].status # "NONE"
    BY <1>0, <1>2, <2>1, <2>2, UnmappedKeeps DEF Unmaps
  <2>4. swap_map' \in [Slots -> BOOLEAN]
    <3> HIDE DEF e
    <3> QED BY <2>1, <1>t
  <2>5. \E V : file' \in [Procs -> [UPages -> V]]
    <3>1. PICK V : file \in [Procs -> [UPages -> V]]
      BY <1>t DEF Types
    <3> DEFINE W == V \cup {x}
    <3>2. file \in [Procs -> [UPages -> W]] /\ x \in W
      BY <3>1
    <3> HIDE DEF x, W, u
    <3>3. file' \in [Procs -> [UPages -> W]]
      BY <2>1, <3>2, OneEntry
    <3> QED BY <3>3
  <2>6. Types'
    BY <1>t, <1>2, <2>3, <2>4, <2>5 DEF Types, Fine
  <2>7. Calls'
    BY <1>t, <2>3, CallsKept
  <2> QED BY <2>3, <2>6, <2>7 DEF VMInv
<1> QED BY <1>3, <1>4

LEMMA UnmapFreeKeeps ==
  ASSUME VMInv, NEW p \in Procs, unmap_free(p)
  PROVE  VMInv'
<1> USE DEF at
<1>0. loc \in [Procs -> LocType] /\ loc[p] \in LocType /\ loc[p].pc = "unmap_free"
  BY LocTyped DEF unmap_free
<1>t. /\ Types /\ Calls /\ Lists /\ free \subseteq Frames /\ node \in [Nodes -> NodeType]
      /\ pte \in [Procs -> [UPages -> PteType]]
  BY DEF VMInv, Types
<1>1. CASE Panic
  BY <1>1, PanicKeeps
<1>2. CASE ~ Panic
  <2> DEFINE k == loc[p].k
             h == <<frame_map[k]>> \o heap
  <2>1. /\ k \in Frames /\ frame_map[k] # NULL
        /\ forget(k)
        /\ free' = free \cup {k}
        /\ unmapped(p, h)
        /\ pte' = clear_page(pte, p, page(p))
        /\ UNCHANGED <<frame_ptr, frame_lock, slots, data, file, written, panic>>
    BY <1>2 DEF unmap_free, freeable
  <2>2. UNCHANGED <<swap_map, swap>>
    BY <2>1 DEF slots
  <2> HIDE DEF k
  <2>3. /\ frame_list' \in Seq(Nodes) /\ Distinct(frame_list') /\ MapOK(frame_map', frame_list')
        /\ frame_map[k] \in Nodes /\ In(frame_map[k], frame_list)
        /\ \A x : In(x, frame_list') <=> In(x, frame_list) /\ x # frame_map[k]
    BY <2>1, <1>t, Forgets
  <2>4. heap \in Seq(Nodes) /\ Distinct(heap) /\ \A x : ~ (In(x, heap) /\ In(x, frame_list))
    BY <1>t, ApartIn DEF Lists
  <2>5. h \in Seq(Nodes) /\ Distinct(h) /\ \A x : In(x, h) <=> In(x, heap) \/ x = frame_map[k]
    BY <2>3, <2>4, AtTheFront
  <2> HIDE DEF h
  <2>6. /\ spte' \in [Procs -> [UPages -> EntryType]] /\ Fine(p) /\ sys_lock' = NULL
        /\ Lists' /\ Mmaps'
        /\ \A q \in Procs \ {p} : \A v \in UPages : spte[q][v].status # "NONE" => spte'[q][v].status # "NONE"
    <3>1. \A x : ~ (In(x, h) /\ In(x, frame_list'))
      BY <2>3, <2>4, <2>5
    <3>2. \A x : In(x, h) \/ In(x, frame_list') => In(x, heap) \/ In(x, frame_list)
      BY <2>3, <2>5
    <3> QED BY <1>0, <2>1, <2>3, <2>5, <3>1, <3>2, UnmappedKeeps DEF Unmaps
  <2>7. pte' \in [Procs -> [UPages -> PteType]] /\ node' \in [Nodes -> NodeType] /\ free' \subseteq Frames
    BY <1>t, <2>1, ClearPage, ForgetTyped
  <2>8. Types'
    BY <1>t, <2>1, <2>2, <2>6, <2>7 DEF Types, Fine
  <2>9. Calls'
    BY <1>t, <2>6, CallsKept
  <2> QED BY <2>6, <2>8, <2>9 DEF VMInv
<1> QED BY <1>1, <1>2

LEMMA PagedirDestroyKeeps ==
  ASSUME VMInv, NEW p \in Procs, pagedir_destroy(p)
  PROVE  VMInv'
<1>t. Types /\ free \subseteq Frames /\ pte \in [Procs -> [UPages -> PteType]]
  BY DEF VMInv, Types
<1>1. CASE Panic
  BY <1>1, PanicKeeps
<1>2. CASE ~ Panic
  <2> DEFINE left == {pte[p][u].frame : u \in {v \in UPages : pte[p][v].present}}
             row  == [u \in UPages |-> NoPte]
  <2>1. /\ free' = free \cup left
        /\ pte' = [pte EXCEPT ![p] = row]
        /\ home(p, "dead")
        /\ UNCHANGED <<table, frame_lock, sys_lock, slots, data, spte, file, written, panic>>
    BY <1>2 DEF pagedir_destroy
  <2>2. UNCHANGED <<node, heap, frame_list, frame_map, frame_ptr, swap_map, swap>>
    BY <2>1 DEF table, slots
  <2>3. left \subseteq Frames
    BY <1>t DEF PteType
  <2>4. row \in [UPages -> PteType]
    <3>1. NoPte \in PteType
      BY DEF NoPte, PteType
    <3> QED BY <3>1
  <2> HIDE DEF left, row
  <2>5. pte' \in [Procs -> [UPages -> PteType]] /\ free' \subseteq Frames
    BY <1>t, <2>1, <2>3, <2>4
  <2>6. Fine(p)
    BY <2>1, HomeInCall
  <2>7. Types'
    BY <1>t, <2>1, <2>2, <2>5, <2>6 DEF Types, Fine
  <2> QED BY <2>1, <2>2, <2>6, <2>7, PageSteps
<1> QED BY <1>1, <1>2


LEMMA VMInit == Init => VMInv
<1> SUFFICES ASSUME Init PROVE VMInv
  OBVIOUS
<1> USE DEF Init
<1>1. Types
  <2>1. data \in [Frames -> {Junk}] /\ swap \in [Slots -> {Junk}] /\ file \in [Procs -> [UPages -> {0}]]
    OBVIOUS
  <2>2. spte \in [Procs -> [UPages -> EntryType]]
    <3>1. NoSpte \in EntryType /\ [NoSpte EXCEPT !.status = "FILE"] \in EntryType
      BY DEF NoSpte, EntryType, Statuses
    <3> HIDE DEF NoSpte
    <3> QED BY <3>1
  <2>3. pte \in [Procs -> [UPages -> PteType]]
    <3>1. NoPte \in PteType
      BY DEF NoPte, PteType
    <3> QED BY <3>1
  <2>4. node \in [Nodes -> NodeType]
    <3>1. NoNode \in NodeType
      BY DEF NoNode, NodeType
    <3> QED BY <3>1
  <2>5. loc \in [Procs -> LocType]
    <3> DEFINE l == [pc |-> "user", buf |-> <<>>, i |-> 1, k |-> NULL, n |-> NULL, s |-> 0, back |-> "user",
                     exits |-> FALSE]
    <3>1. <<>> \in Seq(UPages)
      OBVIOUS
    <3>2. l \in LocType
      BY <3>1 DEF LocType, Pcs, Backs
    <3>3. loc = [p \in Procs |-> l]
      OBVIOUS
    <3> HIDE DEF l
    <3> QED BY <3>2, <3>3
  <2>6. free \subseteq Frames /\ frame_ptr = NULL /\ frame_lock = NULL /\ sys_lock = NULL
        /\ swap_map \in [Slots -> BOOLEAN] /\ written \in [Procs -> [UPages -> Nat]]
    OBVIOUS
  <2> QED BY <2>1, <2>2, <2>3, <2>4, <2>5, <2>6 DEF Types
<1>2. Calls
  BY DEF Calls, CallOK, Homes, Ends, Unmaps, Takes
<1>3. /\ heap \in Seq(Nodes) /\ Len(heap) \in Nat /\ NodeBlocks = 1 .. Len(heap)
      /\ \A i \in 1 .. Len(heap) : heap[i] = i
  <2> DEFINE b == Cardinality(Frames) + Cardinality(Procs)
  <2>1. b \in Nat /\ NodeBlocks = 1 .. b /\ NodeBlocks \subseteq Nodes
    BY MmapNodes DEF NodeBlocks
  <2>2. heap = [i \in 1 .. b |-> i]
    BY DEF NodeBlocks
  <2> HIDE DEF b
  <2>3. heap \in [1 .. b -> Nodes]
    BY <2>1, <2>2
  <2>4. heap \in Seq(Nodes)
    BY <2>1, <2>3, SeqDef
  <2>5. DOMAIN heap = 1 .. b /\ DOMAIN heap = 1 .. Len(heap) /\ Len(heap) \in Nat
    BY <2>2, <2>4, LenProperties
  <2>6. Len(heap) = b
    BY <2>1, <2>5
  <2> QED BY <2>1, <2>2, <2>4, <2>5, <2>6
<1>4. frame_list = <<>> /\ frame_list \in Seq(Nodes) /\ Len(frame_list) = 0
  OBVIOUS
<1>5. Lists
  <2>1. MapOK(frame_map, frame_list)
    BY DEF MapOK
  <2>2. Distinct(heap) /\ Distinct(frame_list) /\ Apart(heap, frame_list)
    BY <1>3, <1>4 DEF Distinct, Apart
  <2> QED BY <1>3, <1>4, <2>1, <2>2 DEF Lists
<1>6. Mmaps
  <2> SUFFICES ASSUME NEW p \in Procs, NEW u \in Mapped
               PROVE  ~ In(mmap_node[<<p, u>>], heap) /\ ~ In(mmap_node[<<p, u>>], frame_list)
    BY DEF Mmaps
  <2>1. <<p, u>> \in Mappings
    BY DEF Mappings
  <2>2. mmap_node[<<p, u>>] \notin NodeBlocks
    BY <2>1, MmapNodes
  <2>3. \A i \in 1 .. Len(heap) : heap[i] \in NodeBlocks
    BY <1>3
  <2> HIDE DEF Init
  <2> QED BY <2>2, <2>3, <1>4 DEF In
<1> QED BY <1>1, <1>2, <1>5, <1>6 DEF VMInv

LEMMA VMStep == VMInv /\ [Next]_vars => VMInv'
<1> SUFFICES ASSUME VMInv, [Next]_vars PROVE VMInv'
  OBVIOUS
<1>1. CASE UNCHANGED vars
  <2>1. /\ UNCHANGED <<free, data, spte, pte, node, heap, frame_list, frame_map, frame_ptr, frame_lock, sys_lock>>
        /\ UNCHANGED <<swap_map, swap, file, loc, written, panic>>
    BY <1>1 DEF vars, table, slots, pages
  <2> QED BY <2>1 DEF VMInv, Types, Calls, Lists, Mmaps
<1>2. ASSUME NEW p \in Procs, Step(p)
      PROVE  VMInv'
  <2>1. CASE \/ load_page(p) \/ read_kpage(p) \/ sys_locked(p) \/ pin_page(p) \/ unpin_page(p)
             \/ unpinned(p) \/ syscall_returns(p) \/ exit(p) \/ transfer_violates(p)
             \/ \E u \in UPages : rights_violation(p, u) \/ munmap(p, u)
    BY <2>1, MovesKeep
  <2>2. CASE \/ \E u \in UPages, w \in BOOLEAN : access(p, u, w)
             \/ \E u \in UPages : page_fault(p, u)
             \/ \E b \in Buffers : syscall(p, b)
             \/ \E w \in BOOLEAN : transfer(p, w)
    BY <2>2, UserSteps
  <2>3. CASE frame_allocate(p) \/ frame_allocated(p)
    BY <2>3, AllocateKeeps
  <2>4. CASE unpin(p) \/ pinned(p) \/ unmap_unpin(p)
    BY <2>4, PinSteps
  <2>5. CASE free_victim(p) \/ destroy_free(p)
    BY <2>5, FreeSteps
  <2>6. CASE evict(p) \/ evicted(p) \/ fill(p)
    BY <2>6, EvictKeeps, EvictedKeeps, FillKeeps
  <2>7. CASE write_back(p) \/ spt_unmap(p) \/ unmap_free(p) \/ pagedir_destroy(p)
    BY <2>7, WriteBackKeeps, SptUnmapKeeps, UnmapFreeKeeps, PagedirDestroyKeeps
  <2>8. CASE \E u \in UPages : spte_destroy(p, u)
    BY <2>8, SpteDestroyKeeps
  <2> QED BY <1>2, <2>1, <2>2, <2>3, <2>4, <2>5, <2>6, <2>7, <2>8 DEF Step
<1> QED BY <1>1, <1>2 DEF Next

LEMMA VMInvariant == Spec => []VMInv
<1> QED BY VMInit, VMStep, PTL DEF Spec

\* The types hold for any number of processes: free frames are frames, a
\* frame_node is in the clock's list or free and never both (frame.c,
\* malloc.c), and no table leads out of its range, whatever two processes do to
\* each other while frame_lock is given up in frame_allocate.
THEOREM VMTypeCorrect == Spec => []VMTypeOK
<1>1. VMInv => VMTypeOK
  <2> SUFFICES ASSUME VMInv PROVE VMTypeOK
    OBVIOUS
  <2>1. Types /\ Lists
    BY DEF VMInv
  <2>2. DOMAIN frame_map = Frames \cup {NULL} /\ Range(frame_map) \subseteq Nodes \cup {NULL}
    BY <2>1 DEF Lists, MapOK, Range
  <2>3. /\ Range(frame_list) = {frame_list[i] : i \in 1 .. Len(frame_list)}
        /\ Range(heap) = {heap[i] : i \in 1 .. Len(heap)}
    BY <2>1, RangeEquality DEF Lists, Range
  <2>4. /\ \A i \in 1 .. Len(frame_list) : frame_list[i] \in Nodes
        /\ \A i \in 1 .. Len(heap) : heap[i] \in Nodes
    BY <2>1 DEF Lists
  <2>5. Range(frame_list) \cup Range(heap) \subseteq Nodes /\ Range(frame_list) \cap Range(heap) = {}
    BY <2>1, <2>3, <2>4 DEF Lists, Apart
  <2>6. \A p \in Procs : loc[p].pc \in Pcs
    BY <2>1 DEF Types, LocType
  <2>7. ASSUME NEW p \in Procs, NEW u \in UPages
        PROVE  /\ spte[p][u].status \in Statuses /\ spte[p][u].swap_id \in Slots \cup {0}
               /\ pte[p][u].frame \in Frames \cup {NULL}
    <3>1. spte[p][u] \in EntryType /\ pte[p][u] \in PteType
      BY <2>1 DEF Types
    <3> QED BY <3>1 DEF EntryType, PteType
  <2>8. free \subseteq Frames /\ frame_lock \in Procs \cup {NULL} /\ sys_lock \in Procs \cup {NULL}
    BY <2>1 DEF Types
  <2> QED BY <2>2, <2>5, <2>6, <2>7, <2>8 DEF VMTypeOK, Statuses
<1> QED BY <1>1, VMInvariant, PTL

-----------------------------------------------------------------------------
(* One process                                                             *)
(*                                                                         *)
(* What follows is about a system in which a single process uses virtual   *)
(* memory: the code keeps its pages apart from nobody else's.              *)

Version(p, u) == <<p, u, written[p][u]>>

\* A page is where its entry says, and what is nowhere but there was not lost.
Saved(p, u) ==
  LET e == spte[p][u]
      x == pte[p][u]
  IN /\ e.status \in {"FILE", "ALL_ZERO"} => written[p][u] = file[p][u]
     /\ e.status = "ALL_ZERO" => u \in Stack
     /\ u \in Stack => file[p][u] = 0
     /\ u \in Mapped /\ e.status = "NONE" => written[p][u] = file[p][u]
     /\ e.status = "SWAP" => /\ e.swap_id \in Slots /\ ~ swap_map[e.swap_id]
                             /\ swap[e.swap_id] = Version(p, u)
                             /\ e.dirty \/ written[p][u] = file[p][u]
     /\ e.status = "ON_FRAME" /\ x.present => data[x.frame] = Version(p, u)
     /\ x.present => x.frame \notin free

\* No two pages are in one slot, or on one frame.
Sole(p) ==
  \A u, v \in UPages :
    /\ spte[p][u].status = "SWAP" /\ spte[p][v].status = "SWAP" /\ spte[p][u].swap_id = spte[p][v].swap_id => u = v
    /\ pte[p][u].present /\ pte[p][v].present /\ pte[p][u].frame = pte[p][v].frame => u = v

\* A page that has a frame is in the frame table, and present unless evict
\* is writing it to swap.
Held(p, u) ==
  LET e == spte[p][u]
      x == pte[p][u]
  IN /\ x.present => e.status = "ON_FRAME"
     /\ e.status = "ON_FRAME" =>
          /\ e.kpage \in Frames \ free /\ e.kpage = x.frame
          /\ frame_map[e.kpage] # NULL /\ node[frame_map[e.kpage]].upage = u
          /\ data[e.kpage] = Version(p, u)
          /\ x.present \/ (loc[p].pc = "evicting" /\ node[loc[p].n].upage = u)
          /\ e.dirty \/ x.dirty \/ written[p][u] = file[p][u]
     /\ e.status = "NONE" /\ u \in Stack => written[p][u] = file[p][u]

Unpooled == \A k \in free : frame_map[k] = NULL

\* The nodes of the list are of pages on their frames, but for the one whose
\* page was swapped out, and the one whose frame is to be filled.
Listed(p, n) ==
  LET x == node[n]
      l == loc[p]
  IN /\ x.t = p /\ x.upage \in UPages /\ x.kpage \in Frames \ free /\ frame_map[x.kpage] = n
     /\ \/ spte[p][x.upage].status = "ON_FRAME" /\ spte[p][x.upage].kpage = x.kpage
        \/ l.pc \in {"evicted", "free_victim"} /\ n = l.n
        \/ l.pc = "fill" /\ x.kpage = l.k

\* What is true of the locals of the process where it is.
At(p) ==
  LET l == loc[p]
      x == node[l.n]
  IN /\ l.pc \in {"evicting", "evicted", "free_victim"} => In(l.n, frame_list)
     /\ l.pc = "evicting" => /\ l.s \in Slots /\ swap_map[l.s]
                             /\ spte[p][x.upage].status = "ON_FRAME" /\ spte[p][x.upage].kpage = x.kpage
                             /\ ~ pte[p][x.upage].present
     /\ l.pc \in {"evicted", "free_victim"} => spte[p][x.upage].status = "SWAP"
     /\ l.pc = "free_victim" => l.k = x.kpage
     /\ l.pc = "again" => free # {}
     /\ l.pc = "fill" => /\ l.k \in Frames \ free /\ frame_map[l.k] # NULL
                         /\ node[frame_map[l.k]].upage = page(p)
                         /\ node[frame_map[l.k]].kpage = l.k
     /\ l.pc \in Takes => entry(p).status \in {"ALL_ZERO", "FILE", "SWAP"}
     /\ l.back = "write_back" => l.pc \in Unmaps
     /\ l.pc \in {"unmap_unpin", "write_back", "unmap_free"} => entry(p).status = "ON_FRAME"
     /\ l.pc = "unmap_free" => l.k = entry(p).kpage /\ written[p][page(p)] = file[p][page(p)]

\* The process may still use its pages, or has begun to give them back.
Lives(p) ==
  /\ \A u \in UPages : Held(p, u)
  /\ Unpooled
  /\ \A n \in Nodes : In(n, frame_list) => Listed(p, n)
  /\ At(p)

OneOK(p) ==
  /\ \A u \in UPages : Saved(p, u)
  /\ Sole(p)
  /\ loc[p].pc \in Ends => \A u \in Mapped : spte[p][u].status = "NONE"
  /\ loc[p].pc \notin Ends => Lives(p)

OneInv == panic \/ \A p \in Procs : OneOK(p)

-----------------------------------------------------------------------------
(* It says what the properties say *)

LEMMA OneSays ==
  ASSUME VMInv, OneInv, \A p, q \in Procs : p = q
  PROVE  PageIntegrity /\ SlotsPrivate /\ FramesPrivate
<1>1. CASE panic
  BY <1>1 DEF PageIntegrity, SlotsPrivate, FramesPrivate
<1>2. CASE ~ panic
  <2>1. \A p \in Procs : Sole(p) /\ \A u \in UPages : Saved(p, u)
    BY <1>2 DEF OneInv, OneOK
  <2>2. PageIntegrity
    BY <2>1 DEF PageIntegrity, Saved, Version
  <2>3. SlotsPrivate
    BY <2>1 DEF SlotsPrivate, Saved, Sole
  <2>4. FramesPrivate
    BY <2>1 DEF FramesPrivate, Saved, Sole
  <2> QED BY <2>2, <2>3, <2>4
<1> QED BY <1>1, <1>2

LEMMA OneInit == Init => OneInv
<1> SUFFICES ASSUME Init, NEW p \in Procs PROVE OneOK(p)
  BY DEF OneInv
<1>1. /\ loc[p].pc = "user" /\ loc[p].back = "user" /\ frame_list = <<>> /\ free = Frames
      /\ \A u \in UPages : written[p][u] = 0 /\ file[p][u] = 0
      /\ \A k \in Frames : frame_map[k] = NULL
  BY DEF Init
<1>2. \A u \in UPages : pte[p][u] = NoPte
  BY DEF Init
<1>3. \A u \in UPages : ~ pte[p][u].present
  BY <1>2 DEF NoPte
<1>4. \A u \in UPages : spte[p][u] = IF u \in Stack THEN NoSpte ELSE [NoSpte EXCEPT !.status = "FILE"]
  BY DEF Init
<1>5. \A u \in UPages : spte[p][u].status = IF u \in Stack THEN "NONE" ELSE "FILE"
  BY <1>4 DEF NoSpte
<1>6. \A u \in UPages : Saved(p, u)
  BY <1>1, <1>3, <1>5 DEF Saved
<1>7. Sole(p)
  BY <1>3, <1>5 DEF Sole
<1>8. \A u \in UPages : Held(p, u)
  BY <1>1, <1>3, <1>5 DEF Held
<1>9. \A n \in Nodes : ~ In(n, frame_list)
  BY <1>1 DEF In
<1>10. At(p)
  BY <1>1 DEF At, Takes, Unmaps
<1> QED BY <1>1, <1>6, <1>7, <1>8, <1>9, <1>10 DEF OneOK, Lives, Unpooled, Ends

-----------------------------------------------------------------------------
(* Steps that only move the process, or pin and unpin a frame *)

\* All that OneOK speaks of but where the process is.
Quiet ==
  /\ UNCHANGED <<free, data, spte, pte, frame_list, frame_map, swap_map, swap, file, written>>
  /\ \A n \in Nodes : node'[n].t = node[n].t /\ node'[n].upage = node[n].upage /\ node'[n].kpage = node[n].kpage

LEMMA ListIn ==
  ASSUME Lists
  PROVE  /\ \A n : In(n, frame_list) => n \in Nodes
         /\ \A k \in Frames \cup {NULL} : frame_map[k] # NULL => frame_map[k] \in Nodes /\ In(frame_map[k], frame_list)
<1>1. frame_list \in Seq(Nodes) /\ MapOK(frame_map, frame_list)
  BY DEF Lists
<1> QED BY <1>1 DEF In, MapOK

LEMMA QuietSteps ==
  ASSUME VMInv, NEW p \in Procs, OneOK(p), Quiet,
         loc[p].pc \notin {"evicting", "evicted", "free_victim", "fill"} \cup Ends,
         loc'[p].pc \notin Ends, At(p)'
  PROVE  OneOK(p)'
<1>0. Lists /\ Lives(p)
  BY DEF VMInv, OneOK
<1>1. \A u \in UPages : Saved(p, u)'
  BY DEF OneOK, Quiet, Saved, Version
<1>2. Sole(p)'
  BY DEF OneOK, Quiet, Sole
<1>3. ASSUME NEW u \in UPages
      PROVE  Held(p, u)'
  <2>1. Held(p, u) /\ loc[p].pc # "evicting"
    BY <1>0 DEF Lives
  <2>2. spte[p][u].kpage \in Frames /\ frame_map[spte[p][u].kpage] # NULL =>
          node'[frame_map[spte[p][u].kpage]].upage = node[frame_map[spte[p][u].kpage]].upage
    BY <1>0, ListIn DEF Quiet
  <2> QED BY <2>1, <2>2 DEF Held, Version, Quiet
<1>4. Unpooled'
  BY <1>0 DEF Lives, Unpooled, Quiet
<1>5. ASSUME NEW n \in Nodes, In(n, frame_list')
      PROVE  Listed(p, n)'
  <2>1. Listed(p, n)
    BY <1>0, <1>5 DEF Lives, Quiet
  <2> QED BY <2>1 DEF Listed, Quiet
<1> QED BY <1>1, <1>2, <1>3, <1>4, <1>5 DEF OneOK, Lives

\* Where little is said of the locals.
LEMMA AtRest ==
  ASSUME NEW p \in Procs, loc'[p].pc \notin Takes \cup Unmaps, loc'[p].back # "write_back"
  PROVE  At(p)'
BY DEF At, Takes, Unmaps

\* Out of munmap, back is not "write_back".
LEMMA NotUnmapping ==
  ASSUME NEW p \in Procs, At(p), loc[p].pc \notin Unmaps
  PROVE  loc[p].back # "write_back"
BY DEF At

LEMMA ReturnRests ==
  ASSUME VMInv, NEW p \in Procs, At(p), loc[p].pc \in Loads, NEW ok \in BOOLEAN, return(p, ok)
  PROVE  panic' \/ (panic' = panic /\ At(p)' /\ loc'[p].pc \notin Ends \cup Takes \cup Unmaps)
<1> DEFINE l == loc[p]
<1>0. loc \in [Procs -> LocType] /\ l \in LocType
  BY LocTyped
<1>1. l.back \in {"user", "pin", "io", "unpinned"}
  BY <1>0, NotUnmapping DEF LocType, Backs, Loads, Takes, Unmaps
<1>2. ASSUME NEW x \in {"user", "exit"}, home(p, x), UNCHANGED panic
      PROVE  panic' = panic /\ At(p)' /\ loc'[p].pc \notin Ends \cup Takes \cup Unmaps
  <2>1. x \in Pcs
    BY DEF Pcs
  <2>2. loc'[p] = Out(p, x)
    BY <2>1, <1>0, <1>2, Home DEF Goes
  <2>3. loc'[p].pc = x /\ loc'[p].back = "user"
    BY <2>2 DEF Out
  <2> QED BY <2>3, <1>2, AtRest DEF Ends, Takes, Unmaps
<1>3. ASSUME jump(p, l.back), l.back # "user", UNCHANGED panic
      PROVE  panic' = panic /\ At(p)' /\ loc'[p].pc \notin Ends \cup Takes \cup Unmaps
  <2>1. l.back \in Pcs
    BY <1>1 DEF Pcs
  <2>2. loc'[p] = [l EXCEPT !.pc = l.back]
    BY <2>1, <1>0, <1>3, Jumps, PageNames DEF Goes
  <2>3. loc'[p].pc = l.back /\ loc'[p].back = l.back
    BY <2>2, <1>0 DEF LocType
  <2> QED BY <2>3, <1>1, <1>3, AtRest DEF Ends, Takes, Unmaps
<1>4. CASE panic' = TRUE
  BY <1>4
<1> QED BY <1>2, <1>3, <1>4 DEF return

\* A jump to where little is said.
LEMMA JumpRests ==
  ASSUME VMInv, NEW p \in Procs, NEW l \in Pcs, NEW k \in Frames \cup {NULL}, jump(p, l) \/ jumpk(p, l, k),
         loc[p].back # "write_back", l \notin Takes \cup Unmaps
  PROVE  At(p)' /\ loc'[p].pc = l
<1>0. loc \in [Procs -> LocType] /\ loc[p] \in LocType
  BY LocTyped
<1>1. loc'[p] = [loc[p] EXCEPT !.pc = l] \/ loc'[p] = [loc[p] EXCEPT !.pc = l, !.k = k]
  BY <1>0, Jumps DEF Goes
<1>2. loc'[p].pc = l /\ loc'[p].back = loc[p].back
  BY <1>0, <1>1 DEF LocType
<1> QED BY <1>2, AtRest

LEMMA AdvanceRests ==
  ASSUME VMInv, NEW p \in Procs, NEW l \in Pcs, NEW out \in Pcs, NEW r \in Backs, advance(p, l, out, r),
         loc[p].back # "write_back", r # "write_back", l \notin Takes \cup Unmaps \cup Ends,
         out \notin Takes \cup Unmaps \cup Ends
  PROVE  At(p)' /\ loc'[p].pc \notin Ends
<1>0. loc \in [Procs -> LocType] /\ loc[p] \in LocType
  BY LocTyped
<1> DEFINE a == [loc[p] EXCEPT !.pc = l, !.i = loc[p].i + 1]
           b == [loc[p] EXCEPT !.pc = out, !.i = 1, !.back = r]
<1>3. Goes(p, IF loc[p].i < Len(loc[p].buf) THEN a ELSE b)
  BY <1>0, Advances
<1> HIDE DEF a, b
<1>4. loc'[p] = a \/ loc'[p] = b
  BY <1>3 DEF Goes
<1>1. \/ loc'[p] = [loc[p] EXCEPT !.pc = l, !.i = loc[p].i + 1]
      \/ loc'[p] = [loc[p] EXCEPT !.pc = out, !.i = 1, !.back = r]
  BY <1>4 DEF a, b
<1>2. loc'[p].pc \in {l, out} /\ loc'[p].back \in {loc[p].back, r}
  BY <1>0, <1>1 DEF LocType
<1> QED BY <1>2, AtRest

LEMMA HomeRests ==
  ASSUME VMInv, NEW p \in Procs, NEW x \in {"user", "exit"}, home(p, x)
  PROVE  At(p)' /\ loc'[p].pc = x
<1>0. loc \in [Procs -> LocType] /\ x \in Pcs
  BY LocTyped DEF Pcs
<1>1. loc'[p] = Out(p, x)
  BY <1>0, Home DEF Goes
<1>2. loc'[p].pc = x /\ loc'[p].back = "user"
  BY <1>1 DEF Out
<1> QED BY <1>2, AtRest DEF Takes, Unmaps

LEMMA AtLoc ==
  ASSUME VMInv, NEW p \in Procs, OneOK(p), loc[p].pc \notin Ends
  PROVE  Lives(p) /\ At(p) /\ (loc[p].pc \notin Unmaps => loc[p].back # "write_back")
BY DEF OneOK, Lives, At

LEMMA OneMoves ==
  ASSUME VMInv, NEW p \in Procs, OneOK(p),
         \/ load_page(p) \/ sys_locked(p) \/ pin_page(p) \/ unpin_page(p)
         \/ unpinned(p) \/ syscall_returns(p) \/ (at(p, "user") /\ exit(p)) \/ transfer_violates(p)
         \/ \E u \in UPages : rights_violation(p, u) \/ munmap(p, u)
  PROVE  panic' \/ OneOK(p)'
<1>0. loc \in [Procs -> LocType] /\ loc[p] \in LocType /\ CallOK(loc[p], spte[p])
  BY LocTyped
<1> USE DEF at
<1>1. /\ loc[p].pc \in {"load", "sys_lock", "pin", "unpin_page", "unpinned", "done", "user", "exit", "io"}
      /\ transfer_violates(p) \/ UNCHANGED <<free, table, slots, pages>>
  BY DEF load_page, sys_locked, pin_page, unpin_page, unpinned, syscall_returns, exit, transfer_violates,
         rights_violation, munmap, pages
<1>2. At(p) /\ loc[p].back # "write_back"
  BY <1>1, AtLoc DEF Ends, Unmaps
<1>3. loc[p].pc \notin {"evicting", "evicted", "free_victim", "fill"} \cup Ends
  BY <1>1 DEF Ends
<1>4. ASSUME At(p)', loc'[p].pc \notin Ends, ~ transfer_violates(p)
      PROVE  OneOK(p)'
  <2>1. Quiet
    BY <1>1, <1>4 DEF Quiet, table, slots, pages
  <2> QED BY <2>1, <1>3, <1>4, QuietSteps
<1>q. CASE transfer_violates(p)
  BY <1>q DEF transfer_violates, Panic
<1>5. ASSUME NEW l \in {"set_pinned", "load", "unpin", "unpinned"}, NEW k \in Frames \cup {NULL},
             jump(p, l) \/ jumpk(p, l, k), ~ transfer_violates(p)
      PROVE  OneOK(p)'
  <2>1. l \in Pcs /\ l \notin Takes \cup Unmaps \cup Ends
    BY DEF Pcs, Takes, Unmaps, Ends
  <2> QED BY <1>2, <1>4, <1>5, <2>1, JumpRests
<1>6. ASSUME NEW l \in {"load", "unpin_page"}, NEW out \in {"io", "done"}, NEW r \in {"io", "user"}, advance(p, l, out, r),
             ~ transfer_violates(p)
      PROVE  OneOK(p)'
  <2>1. l \in Pcs /\ l \notin Takes \cup Unmaps \cup Ends /\ out \in Pcs /\ out \notin Takes \cup Unmaps \cup Ends
        /\ r \in Backs /\ r # "write_back"
    BY DEF Pcs, Takes, Unmaps, Ends, Backs
  <2>2. At(p)' /\ loc'[p].pc \notin Ends
    BY <1>2, <1>6, <2>1, AdvanceRests
  <2> QED BY <1>4, <1>6, <2>2
<1>7. ASSUME NEW x \in {"user", "exit"}, home(p, x), ~ transfer_violates(p)
      PROVE  OneOK(p)'
  <2>1. At(p)' /\ loc'[p].pc \notin Ends
    BY <1>7, HomeRests DEF Ends
  <2> QED BY <1>4, <1>7, <2>1
<1>8. entry(p).kpage \in Frames \cup {NULL} \/ loc[p].pc \in Homes
  BY <1>3, AtAPage DEF EntryType, Homes
<1>9. CASE load_page(p) /\ ~ transfer_violates(p)
  <2>1. CASE \E ok \in BOOLEAN : return(p, ok)
    <3>1. loc[p].pc \in Loads
      BY <1>9 DEF load_page, Loads
    <3>2. panic' \/ (At(p)' /\ loc'[p].pc \notin Ends)
      BY <2>1, <3>1, <1>2, ReturnRests
    <3> QED BY <3>2, <1>9, <1>4
  <2>2. CASE entry(p).status \notin {"NONE", "ON_FRAME"} /\ jump(p, "allocate")
    <3>1. "allocate" \in Pcs
      BY DEF Pcs
    <3>2. loc'[p] = [loc[p] EXCEPT !.pc = "allocate"]
      BY <1>0, <2>2, <3>1, Jumps, PageNames DEF Goes
    <3>3. loc'[p].pc = "allocate" /\ loc'[p].back # "write_back" /\ loc'[p].buf = loc[p].buf /\ loc'[p].i = loc[p].i
      BY <1>0, <1>2, <3>2 DEF LocType
    <3>4. entry(p) \in EntryType /\ spte' = spte
      BY <1>3, <1>9, AtAPage DEF Homes, load_page, pages
    <3>5. entry(p)'.status \in {"ALL_ZERO", "FILE", "SWAP"}
      BY <3>3, <3>4, <2>2 DEF entry, page, EntryType, Statuses
    <3>6. At(p)' /\ loc'[p].pc \notin Ends
      BY <3>3, <3>5 DEF At, Unmaps, Ends
    <3> QED BY <3>6, <1>9, <1>4
  <2> QED BY <1>9, <2>1, <2>2 DEF load_page
<1>10. CASE sys_locked(p) /\ ~ transfer_violates(p)
  BY <1>10, <1>5, PageNames DEF sys_locked
<1>11. CASE pin_page(p) /\ ~ transfer_violates(p)
  BY <1>11, <1>5, <1>6, <1>8 DEF pin_page, Homes
<1>12. CASE unpin_page(p) /\ ~ transfer_violates(p)
  BY <1>12, <1>5, <1>8 DEF unpin_page, Homes
<1>13. CASE unpinned(p) /\ ~ transfer_violates(p)
  BY <1>13, <1>6 DEF unpinned
<1>14. CASE syscall_returns(p) /\ ~ transfer_violates(p)
  BY <1>14, <1>7 DEF syscall_returns
<1>15. CASE at(p, "user") /\ exit(p) /\ ~ transfer_violates(p)
  BY <1>15, <1>7 DEF exit
<1>16. ASSUME NEW u \in UPages, rights_violation(p, u), ~ transfer_violates(p)
       PROVE  OneOK(p)'
  BY <1>16, <1>7 DEF rights_violation
<1>17. ASSUME NEW u \in UPages, munmap(p, u), ~ transfer_violates(p)
       PROVE  OneOK(p)'
  <2> DEFINE l == IF spte[p][u].status = "ON_FRAME" THEN "unmap_unpin" ELSE "unmap"
             m == [loc[p] EXCEPT !.pc = l, !.buf = <<u>>, !.k = spte[p][u].kpage, !.back = "write_back"]
  <2>1. loc' = [loc EXCEPT ![p] = m] /\ spte' = spte /\ loc[p].pc \in Homes
    BY <1>17 DEF munmap, pages, Homes
  <2>2. loc'[p] = m
    BY <2>1, <1>0
  <2>3. m.pc = l /\ m.buf = <<u>> /\ m.i = 1 /\ m.back = "write_back"
    BY <1>0, <2>1 DEF LocType, CallOK
  <2> HIDE DEF m
  <2>4. page(p)' = u /\ loc'[p].pc = l /\ entry(p)' = spte[p][u]
    BY <2>1, <2>2, <2>3 DEF page, entry
  <2>5. At(p)' /\ loc'[p].pc \notin Ends
    BY <2>1, <2>4 DEF At, Unmaps, Ends, Takes
  <2> QED BY <2>5, <1>4, <1>17
<1> QED BY <1>q, <1>9, <1>10, <1>11, <1>12, <1>13, <1>14, <1>15, <1>16, <1>17

LEMMA OnePins ==
  ASSUME VMInv, NEW p \in Procs, OneOK(p), unpin(p) \/ pinned(p) \/ unmap_unpin(p)
  PROVE  panic' \/ OneOK(p)'
<1> USE DEF at
<1>0. loc \in [Procs -> LocType] /\ loc[p] \in LocType
  BY LocTyped
<1>t. node \in [Nodes -> NodeType]
  BY DEF VMInv, Types
<1>1. CASE Panic
  BY <1>1 DEF Panic
<1>2. CASE ~ Panic
  <2>1. /\ set_pinned(loc[p].k, FALSE) \/ set_pinned(loc[p].k, TRUE)
        /\ UNCHANGED <<free, heap, frame_list, frame_map, frame_ptr, frame_lock, sys_lock, slots, pages>>
        /\ \/ loc[p].pc = "unpin" /\ return(p, TRUE)
           \/ loc[p].pc = "set_pinned" /\ advance(p, "load", "io", "io")
           \/ loc[p].pc = "unmap_unpin" /\ jump(p, "unmap")
    BY <1>2 DEF unpin, pinned, unmap_unpin
  <2>2. Quiet
    BY <1>t, <2>1, SetPinnedTyped DEF Quiet, slots, pages
  <2>3. loc[p].pc \notin {"evicting", "evicted", "free_victim", "fill"} \cup Ends
    BY <2>1 DEF Ends
  <2>4. At(p) /\ (loc[p].pc \notin Unmaps => loc[p].back # "write_back")
    BY <2>3, AtLoc
  <2>5. panic' \/ (At(p)' /\ loc'[p].pc \notin Ends)
    <3>1. CASE loc[p].pc = "unpin" /\ return(p, TRUE)
      BY <2>4, <3>1, ReturnRests DEF Loads
    <3>2. CASE loc[p].pc = "set_pinned" /\ advance(p, "load", "io", "io")
      <4>1. {"load", "io"} \subseteq Pcs /\ "io" \in Backs /\ {"load", "io"} \cap (Takes \cup Unmaps \cup Ends) = {}
        BY DEF Pcs, Backs, Takes, Unmaps, Ends
      <4>2. loc[p].back # "write_back"
        BY <2>4, <3>2 DEF Unmaps
      <4> QED BY <3>2, <4>1, <4>2, AdvanceRests
    <3>3. CASE loc[p].pc = "unmap_unpin" /\ jump(p, "unmap")
      <4>1. "unmap" \in Pcs
        BY DEF Pcs
      <4>2. loc'[p] = [loc[p] EXCEPT !.pc = "unmap"]
        BY <1>0, <3>3, <4>1, Jumps, PageNames DEF Goes
      <4>3. loc'[p].pc = "unmap"
        BY <1>0, <4>2 DEF LocType
      <4> QED BY <4>3 DEF At, Unmaps, Takes, Ends
    <3> QED BY <2>1, <3>1, <3>2, <3>3
  <2> QED BY <2>2, <2>3, <2>5, QuietSteps
<1> QED BY <1>1, <1>2

-----------------------------------------------------------------------------
(* The process uses its pages *)

LEMMA TouchDoes ==
  ASSUME VMInv, NEW p \in Procs, NEW u \in UPages, NEW w \in BOOLEAN, touch(p, u, w)
  PROVE  /\ pte[p][u].present /\ spte' = spte /\ file' = file
         /\ \A v \in UPages : /\ pte'[p][v].present = pte[p][v].present /\ pte'[p][v].frame = pte[p][v].frame
                              /\ v # u => pte'[p][v].dirty = pte[p][v].dirty
         /\ pte[p][u].dirty => pte'[p][u].dirty
         /\ w => /\ pte'[p][u].dirty
                 /\ \A v \in UPages : v # u => written'[p][v] = written[p][v]
                 /\ \A j \in Frames : data'[j] = IF j = pte[p][u].frame THEN Version(p, u)' ELSE data[j]
         /\ ~ w => UNCHANGED <<written, data>>
<1>1. pte \in [Procs -> [UPages -> PteType]] /\ written \in [Procs -> [UPages -> Nat]] /\ \E V : data \in [Frames -> V]
  BY DEF VMInv, Types
<1>2. pte[p][u] \in PteType /\ pte[p] \in [UPages -> PteType]
  BY <1>1
<1> DEFINE x == [pte[p][u] EXCEPT !.accessed = TRUE, !.dirty = @ \/ w]
           r == [pte[p] EXCEPT ![u] = x]
<1>3. x.present = pte[p][u].present /\ x.frame = pte[p][u].frame /\ x.dirty = (pte[p][u].dirty \/ w)
  BY <1>2 DEF PteType
<1>4. pte' = [pte EXCEPT ![p] = r]
  BY <1>1, <1>2 DEF touch, PteType
<1> HIDE DEF x
<1>5. r[u] = x /\ \A v \in UPages : v # u => r[v] = pte[p][v]
  BY <1>2
<1> HIDE DEF r
<1>6. pte'[p] = r
  BY <1>1, <1>4
<1>7. pte[p][u].present /\ spte' = spte /\ file' = file /\ (~ w => UNCHANGED <<written, data>>)
  BY DEF touch
<1>8. ASSUME w
      PROVE  /\ \A v \in UPages : v # u => written'[p][v] = written[p][v]
             /\ \A j \in Frames : data'[j] = IF j = pte[p][u].frame THEN Version(p, u)' ELSE data[j]
  <2>1. /\ written' = [written EXCEPT ![p][u] = written[p][u] + 1]
        /\ data' = [data EXCEPT ![pte[p][u].frame] = <<p, u, written[p][u] + 1>>]
    BY <1>8 DEF touch
  <2>2. \A v \in UPages : written'[p][v] = IF v = u THEN written[p][u] + 1 ELSE written[p][v]
    BY <1>1, <2>1
  <2>3. \A j \in Frames : data'[j] = IF j = pte[p][u].frame THEN <<p, u, written[p][u] + 1>> ELSE data[j]
    BY <1>1, <2>1
  <2> QED BY <2>2, <2>3 DEF Version
<1>9. \A v \in UPages : /\ pte'[p][v].present = pte[p][v].present /\ pte'[p][v].frame = pte[p][v].frame
                        /\ v # u => pte'[p][v].dirty = pte[p][v].dirty
  BY <1>3, <1>5, <1>6
<1>10. (pte[p][u].dirty => pte'[p][u].dirty) /\ (w => pte'[p][u].dirty)
  BY <1>3, <1>5, <1>6
<1> QED BY <1>7, <1>8, <1>9, <1>10

LEMMA OneTouches ==
  ASSUME VMInv, NEW p \in Procs, NEW u \in UPages, NEW w \in BOOLEAN, OneOK(p), touch(p, u, w),
         UNCHANGED <<free, node, frame_list, frame_map, swap_map, swap>>,
         loc[p].pc \notin {"evicting", "evicted", "free_victim", "fill"} \cup Ends,
         loc'[p].pc \notin Ends, At(p)'
  PROVE  OneOK(p)'
<1>0. Lists /\ Lives(p) /\ Sole(p) /\ \A v \in UPages : Saved(p, v) /\ Held(p, v)
  BY AtLoc DEF VMInv, Lives, OneOK
<1>p. \A v \in UPages : pte[p][v].present => pte[p][v].frame \in Frames
  <2>1. \A v \in UPages : pte[p][v] \in PteType
    BY DEF VMInv, Types
  <2> QED BY <2>1 DEF PteType
<1>1. /\ pte[p][u].present /\ spte' = spte /\ file' = file
      /\ \A v \in UPages : /\ pte'[p][v].present = pte[p][v].present /\ pte'[p][v].frame = pte[p][v].frame
                           /\ v # u => pte'[p][v].dirty = pte[p][v].dirty
      /\ pte[p][u].dirty => pte'[p][u].dirty
      /\ w => /\ pte'[p][u].dirty
              /\ \A v \in UPages : v # u => written'[p][v] = written[p][v]
              /\ \A j \in Frames : data'[j] = IF j = pte[p][u].frame THEN Version(p, u)' ELSE data[j]
      /\ ~ w => UNCHANGED <<written, data>>
  BY TouchDoes
<1>2. spte[p][u].status = "ON_FRAME"
  BY <1>0, <1>1 DEF Held
<1>v. ASSUME NEW v \in UPages, w, v # u
      PROVE  /\ Version(p, v)' = Version(p, v)
             /\ pte[p][v].present => data'[pte[p][v].frame] = data[pte[p][v].frame]
  <2>1. Version(p, v)' = Version(p, v)
    BY <1>1, <1>v DEF Version
  <2>2. pte[p][v].present => pte[p][v].frame # pte[p][u].frame
    BY <1>0, <1>1, <1>v DEF Sole
  <2> QED BY <1>1, <1>p, <1>v, <2>1, <2>2
<1>3. ASSUME NEW v \in UPages
      PROVE  Saved(p, v)' /\ Held(p, v)'
  <2>1. CASE ~ w
    <3>1. UNCHANGED <<spte, file, written, data>>
      BY <1>1, <2>1
    <3>4. Version(p, v)' = Version(p, v)
      BY <3>1 DEF Version
    <3>5. pte'[p][v].present = pte[p][v].present /\ pte'[p][v].frame = pte[p][v].frame
      BY <1>1
    <3>2. Saved(p, v)'
      <4>1. Saved(p, v)
        BY <1>0
      <4> QED BY <3>1, <3>4, <3>5, <4>1 DEF Saved
    <3>3. Held(p, v)'
      <4>1. pte[p][v].dirty => pte'[p][v].dirty
        BY <1>1
      <4> QED BY <1>0, <1>1, <3>1, <4>1 DEF Held, Version
    <3> QED BY <3>2, <3>3
  <2>2. CASE w /\ v # u
    <3>1. Saved(p, v)'
      BY <1>0, <1>1, <1>v, <2>2 DEF Saved
    <3>2. Held(p, v)'
      BY <1>0, <1>1, <1>v, <2>2 DEF Held
    <3> QED BY <3>1, <3>2
  <2>3. CASE w /\ v = u
    <3>1. data'[pte[p][u].frame] = Version(p, u)'
      BY <1>1, <1>p, <2>3
    <3>2. Saved(p, u)'
      BY <1>0, <1>1, <1>2, <2>3, <3>1 DEF Saved
    <3>3. Held(p, u)'
      BY <1>0, <1>1, <1>2, <2>3, <3>1 DEF Held
    <3> QED BY <2>3, <3>2, <3>3
  <2> QED BY <2>1, <2>2, <2>3
<1>4. Sole(p)'
  BY <1>0, <1>1 DEF Sole
<1>5. Unpooled'
  BY <1>0 DEF Lives, Unpooled
<1>6. ASSUME NEW n \in Nodes, In(n, frame_list')
      PROVE  Listed(p, n)'
  <2>1. Listed(p, n)
    BY <1>0, <1>6 DEF Lives
  <2> QED BY <1>1, <2>1 DEF Listed
<1> QED BY <1>3, <1>4, <1>5, <1>6 DEF OneOK, Lives

LEMMA OneUses ==
  ASSUME VMInv, NEW p \in Procs, OneOK(p),
         \/ \E u \in UPages, w \in BOOLEAN : access(p, u, w)
         \/ \E b \in Buffers : syscall(p, b)
         \/ \E w \in BOOLEAN : transfer(p, w)
  PROVE  OneOK(p)'
<1>0. loc \in [Procs -> LocType] /\ loc[p] \in LocType /\ CallOK(loc[p], spte[p])
  BY LocTyped
<1> USE DEF at
<1>a. loc[p].pc \in {"user", "io"}
  BY DEF access, syscall, transfer
<1>b. loc[p].pc \notin {"evicting", "evicted", "free_victim", "fill"} \cup Ends /\ At(p) /\ loc[p].back # "write_back"
  BY <1>a, AtLoc DEF Ends, Unmaps
<1>1. ASSUME NEW u \in UPages, NEW w \in BOOLEAN, access(p, u, w)
      PROVE  OneOK(p)'
  <2>1. UNCHANGED <<free, node, frame_list, frame_map, swap_map, swap, loc>> /\ touch(p, u, w) /\ loc[p].pc = "user"
    BY <1>1 DEF access, table, slots
  <2>2. At(p)' /\ loc'[p].pc \notin Ends
    BY <1>b, <2>1, AtRest DEF Takes, Unmaps
  <2> QED BY <1>b, <2>1, <2>2, OneTouches
<1>2. ASSUME NEW b \in Buffers, syscall(p, b)
      PROVE  OneOK(p)'
  <2>1. b \in Seq(UPages) /\ b # <<>> /\ Len(b) \in Nat /\ Len(b) # 0
    BY VMAssumption
  <2>2. Last(b) \in UPages
    BY <2>1 DEF Last
  <2>3. UNCHANGED <<free, node, frame_list, frame_map, swap_map, swap>> /\ touch(p, Last(b), FALSE)
        /\ call(p, "sys_lock", b, "pin")
    BY <1>2 DEF syscall, table, slots
  <2>4. "sys_lock" \in Pcs /\ "pin" \in Backs
    BY DEF Pcs, Backs
  <2>6. loc'[p].pc = "sys_lock" /\ loc'[p].back = "pin"
    <3> DEFINE m == [loc[p] EXCEPT !.pc = "sys_lock", !.buf = b, !.back = "pin"]
    <3>1. Goes(p, m)
      BY <1>0, <2>1, <2>3, <2>4, CallsIn
    <3>2. m.pc = "sys_lock" /\ m.back = "pin"
      BY <1>0 DEF LocType
    <3> HIDE DEF m
    <3> QED BY <3>1, <3>2 DEF Goes
  <2>7. At(p)' /\ loc'[p].pc \notin Ends
    BY <2>6, AtRest DEF Takes, Unmaps, Ends
  <2> QED BY <1>b, <2>2, <2>3, <2>7, OneTouches
<1>3. ASSUME NEW w \in BOOLEAN, transfer(p, w)
      PROVE  OneOK(p)'
  <2>1. UNCHANGED <<free, node, frame_list, frame_map, swap_map, swap>> /\ loc[p].pc = "io"
    BY <1>3 DEF transfer, table, slots
  <2>2. page(p) \in UPages
    BY <2>1, AtAPage DEF Homes, Ends
  <2>3. CASE touch(p, page(p), w) /\ advance(p, "io", "unpin_page", "unpinned")
    <3>1. {"io", "unpin_page"} \subseteq Pcs /\ "unpinned" \in Backs /\ {"io", "unpin_page"} \cap (Takes \cup Unmaps \cup Ends) = {}
      BY DEF Pcs, Backs, Takes, Unmaps, Ends
    <3>2. At(p)' /\ loc'[p].pc \notin Ends
      BY <1>b, <2>3, <3>1, AdvanceRests
    <3> QED BY <1>b, <2>1, <2>2, <2>3, <3>2, OneTouches
  <2>4. CASE jump(p, "load") /\ UNCHANGED pages
    <3>1. "load" \in Pcs /\ "load" \notin Takes \cup Unmaps \cup Ends
      BY DEF Pcs, Takes, Unmaps, Ends
    <3>2. At(p)' /\ loc'[p].pc \notin Ends
      BY <1>b, <2>4, <3>1, JumpRests, PageNames
    <3>3. Quiet
      BY <2>1, <2>4 DEF Quiet, pages
    <3> QED BY <1>b, <3>2, <3>3, QuietSteps
  <2> QED BY <1>3, <2>3, <2>4 DEF transfer
<1> QED BY <1>1, <1>2, <1>3

LEMMA OneFaults ==
  ASSUME VMInv, NEW p \in Procs, NEW f \in UPages, OneOK(p), page_fault(p, f)
  PROVE  OneOK(p)'
<1> USE DEF at
<1>0. loc \in [Procs -> LocType] /\ loc[p] \in LocType
  BY LocTyped
<1>1. loc[p].pc = "user" /\ call(p, "load", <<f>>, "user")
      /\ UNCHANGED <<free, node, frame_list, frame_map, swap_map, swap, data, pte, file, written>>
  BY DEF page_fault, table, slots
<1>2. /\ loc[p].pc \notin {"evicting", "evicted", "free_victim", "fill"} \cup Ends
      /\ Lives(p) /\ Sole(p) /\ \A v \in UPages : Saved(p, v) /\ Held(p, v)
  BY <1>1, AtLoc DEF OneOK, Lives, Ends
<1>4. loc'[p].pc = "load" /\ loc'[p].back = "user"
  <2> DEFINE m == [loc[p] EXCEPT !.pc = "load", !.buf = <<f>>, !.back = "user"]
  <2>1. "load" \in Pcs /\ "user" \in Backs /\ <<f>> \in Seq(UPages)
    BY DEF Pcs, Backs
  <2>2. Goes(p, m)
    BY <1>0, <1>1, <2>1, CallsIn
  <2>3. m.pc = "load" /\ m.back = "user"
    BY <1>0 DEF LocType
  <2> HIDE DEF m
  <2> QED BY <2>2, <2>3 DEF Goes
<1>5. At(p)' /\ loc'[p].pc \notin Ends
  BY <1>4, AtRest DEF Takes, Unmaps, Ends
<1>6. CASE f \in Stack /\ spte[p][f].status = "NONE"
  <2>1. spte \in [Procs -> [UPages -> EntryType]]
    BY DEF VMInv, Types
  <2> DEFINE x == [spte[p][f] EXCEPT !.status = "ALL_ZERO"]
  <2>2. x \in EntryType /\ x.status = "ALL_ZERO"
    <3>1. spte[p][f] \in EntryType
      BY <2>1
    <3> QED BY <3>1 DEF EntryType, Statuses
  <2>3. Puts(spte', spte, p, f, x)
    BY <1>6 DEF page_fault, Puts
  <2> HIDE DEF x
  <2>4. \A q \in Procs, v \in UPages : spte'[q][v] = IF q = p /\ v = f THEN x ELSE spte[q][v]
    BY <2>1, <2>2, <2>3, PutsEntry
  <2>5. \A v \in UPages : spte'[p][v] = IF v = f THEN x ELSE spte[p][v]
    BY <2>4
  <2>6. ASSUME NEW v \in UPages
        PROVE  Saved(p, v)' /\ Held(p, v)'
    <3>1. CASE v = f
      <4>1. ~ pte[p][f].present /\ written[p][f] = file[p][f] /\ f \notin Mapped
        BY <1>2, <1>6, VMAssumption DEF Held
      <4>2. spte'[p][f].status = "ALL_ZERO"
        BY <2>2, <2>5
      <4>3. Saved(p, f)'
        BY <1>1, <1>2, <1>6, <4>1, <4>2 DEF Saved
      <4>4. Held(p, f)'
        BY <1>1, <4>1, <4>2 DEF Held
      <4> QED BY <3>1, <4>3, <4>4
    <3>2. CASE v # f
      <4>1. spte'[p][v] = spte[p][v] /\ loc[p].pc # "evicting"
        BY <1>1, <2>5, <3>2
      <4> QED BY <1>1, <1>2, <4>1 DEF Saved, Held, Version
    <3> QED BY <3>1, <3>2
  <2>7. Sole(p)'
    BY <1>1, <1>2, <2>2, <2>5 DEF Sole
  <2>8. Unpooled'
    BY <1>1, <1>2 DEF Lives, Unpooled
  <2>9. ASSUME NEW n \in Nodes, In(n, frame_list')
        PROVE  Listed(p, n)'
    <3>1. Listed(p, n) /\ node[n].upage # f
      BY <1>1, <1>2, <1>6, <2>9 DEF Lives, Listed
    <3> QED BY <1>1, <2>5, <3>1 DEF Listed
  <2> QED BY <1>5, <2>6, <2>7, <2>8, <2>9 DEF OneOK, Lives
<1>7. CASE ~ (f \in Stack /\ spte[p][f].status = "NONE")
  <2>1. Quiet
    BY <1>1, <1>7 DEF page_fault, Quiet
  <2> QED BY <1>2, <1>5, <2>1, QuietSteps
<1> QED BY <1>6, <1>7

-----------------------------------------------------------------------------
(* A frame is given out *)

\* What Lives asks of the entries and of the list, for a page that keeps its
\* entry and its frame: its node and its frame stay what they are.
LEMMA NodeOf ==
  ASSUME VMInv, NEW p \in Procs, Lives(p), NEW u \in UPages, spte[p][u].status = "ON_FRAME"
  PROVE  /\ spte[p][u].kpage \in Frames \ free
         /\ frame_map[spte[p][u].kpage] \in Nodes /\ In(frame_map[spte[p][u].kpage], frame_list)
         /\ node[frame_map[spte[p][u].kpage]].upage = u
<1>1. Held(p, u) /\ Lists
  BY DEF Lives, VMInv
<1> QED BY <1>1, ListIn DEF Held

LEMMA OneNewNode ==
  ASSUME VMInv, NEW p \in Procs, NEW k \in free, OneOK(p), loc[p].pc \in {"allocate", "again"}, ~ panic,
         new_node(p, k), UNCHANGED <<frame_lock, sys_lock, slots, pages>>
  PROVE  panic' \/ OneOK(p)'
<1>0. loc \in [Procs -> LocType] /\ loc[p] \in LocType /\ Lists /\ k \in Frames /\ node \in [Nodes -> NodeType]
  BY LocTyped DEF VMInv, Types
<1>1. UNCHANGED <<swap_map, swap, data, spte, pte, file, written>> /\ free' = free \ {k}
  BY DEF slots, pages, new_node
<1>2. /\ loc[p].pc \notin {"evicting", "evicted", "free_victim", "fill"} \cup Ends
      /\ loc[p].pc \in Takes /\ loc[p].pc \in Loads /\ loc[p].pc \notin Unmaps
  BY DEF Ends, Takes, Loads, Unmaps
<1>3. /\ Lives(p) /\ Sole(p) /\ At(p) /\ loc[p].back # "write_back"
      /\ \A v \in UPages : Saved(p, v) /\ Held(p, v)
  BY <1>2, AtLoc DEF OneOK, Lives
<1>4. ASSUME NEW v \in UPages
      PROVE  Saved(p, v)'
  <2>1. Saved(p, v)
    BY <1>3
  <2> QED BY <1>1, <2>1 DEF Saved, Version
<1>5. Sole(p)'
  BY <1>1, <1>3 DEF Sole
<1>6. CASE heap = <<>>
  <2>1. UNCHANGED <<node, heap, frame_list, frame_map, frame_ptr>> /\ return(p, FALSE)
    BY <1>6 DEF new_node, table
  <2>2. panic' \/ (At(p)' /\ loc'[p].pc \notin Ends)
    BY <1>2, <1>3, <2>1, ReturnRests
  <2>3. ASSUME NEW v \in UPages
        PROVE  Held(p, v)'
    <3>1. Held(p, v) /\ loc[p].pc # "evicting"
      BY <1>2, <1>3
    <3> QED BY <1>1, <2>1, <3>1 DEF Held, Version
  <2>4. Unpooled'
    BY <1>1, <1>3, <2>1 DEF Lives, Unpooled
  <2>5. ASSUME NEW n \in Nodes, In(n, frame_list')
        PROVE  Listed(p, n)'
    <3>1. Listed(p, n)
      BY <1>3, <2>1, <2>5 DEF Lives
    <3> QED BY <1>1, <1>2, <2>1, <3>1 DEF Listed
  <2> QED BY <1>4, <1>5, <2>2, <2>3, <2>4, <2>5 DEF OneOK, Lives
<1>7. CASE heap # <<>>
  <2> DEFINE n == Head(heap)
             x == [t |-> p, upage |-> page(p), kpage |-> k, pinned |-> TRUE]
  <2>1. frame_map[k] = NULL /\ k # NULL
    BY <1>0, <1>3, PageNames DEF Lives, Unpooled
  <2>2. /\ heap' = Tail(heap) /\ frame_list' = Append(frame_list, n) /\ node' = [node EXCEPT ![n] = x]
        /\ frame_map' = [frame_map EXCEPT ![k] = n]
        /\ jumpk(p, "fill", k)
    BY <1>7, <2>1 DEF new_node
  <2>3. /\ n \in Nodes /\ ~ In(n, frame_list)
        /\ \A m : In(m, frame_list') <=> In(m, frame_list) \/ m = n
    BY <1>0, <1>7, <2>1, <2>2, PutsNode
  <2>4. x.t = p /\ x.upage = page(p) /\ x.kpage = k
    OBVIOUS
  <2> HIDE DEF n, x
  <2>5. node'[n] = x /\ \A m \in Nodes : m # n => node'[m] = node[m]
    BY <1>0, <2>2, <2>3
  <2>6. frame_map'[k] = n /\ \A j \in Frames \cup {NULL} : j # k => frame_map'[j] = frame_map[j]
    BY <1>0, <2>2 DEF Lists, MapOK
  <2>7. loc'[p].pc = "fill" /\ loc'[p].k = k /\ page(p)' = page(p) /\ loc'[p].back # "write_back"
    <3> DEFINE m == [loc[p] EXCEPT !.pc = "fill", !.k = k]
    <3>1. "fill" \in Pcs
      BY DEF Pcs
    <3>2. Goes(p, m)
      BY <1>0, <2>2, <3>1, Jumps
    <3>3. m.pc = "fill" /\ m.k = k /\ m.buf = loc[p].buf /\ m.i = loc[p].i /\ m.back = loc[p].back
      BY <1>0 DEF LocType
    <3> HIDE DEF m
    <3> QED BY <1>3, <3>2, <3>3 DEF Goes, page
  <2>8. page(p) \in UPages /\ entry(p)' = entry(p) /\ entry(p).status \in {"ALL_ZERO", "FILE", "SWAP"}
    BY <1>1, <1>2, <1>3, <2>7, AtAPage DEF entry, At, Homes, Ends, Takes
  <2>9. ASSUME NEW v \in UPages
        PROVE  Held(p, v)'
    <3>1. Held(p, v) /\ loc[p].pc # "evicting"
      BY <1>2, <1>3
    <3>2. spte[p][v].status = "ON_FRAME" =>
            /\ frame_map'[spte[p][v].kpage] = frame_map[spte[p][v].kpage]
            /\ node'[frame_map[spte[p][v].kpage]] = node[frame_map[spte[p][v].kpage]]
      BY <1>3, <2>3, <2>5, <2>6, NodeOf
    <3> QED BY <1>1, <3>1, <3>2 DEF Held, Version
  <2>10. Unpooled'
    BY <1>0, <1>1, <1>3, <2>6 DEF Lives, Unpooled, VMInv, Types
  <2>11. ASSUME NEW m \in Nodes, In(m, frame_list')
         PROVE  Listed(p, m)'
    <3>1. CASE m = n
      BY <1>0, <1>1, <2>4, <2>5, <2>6, <2>7, <2>8, <3>1 DEF Listed
    <3>2. CASE m # n
      <4>1. Listed(p, m) /\ node'[m] = node[m]
        BY <1>3, <2>3, <2>5, <2>11, <3>2 DEF Lives
      <4>2. node[m].kpage \in Frames \ free /\ frame_map'[node[m].kpage] = frame_map[node[m].kpage]
        BY <2>6, <4>1 DEF Listed
      <4> QED BY <1>1, <1>2, <4>1, <4>2 DEF Listed
    <3> QED BY <3>1, <3>2
  <2>12. At(p)'
    <3>1. node'[frame_map'[k]] = x /\ frame_map'[k] # NULL /\ k \notin free'
      BY <1>1, <2>3, <2>5, <2>6, PageNames
    <3> QED BY <1>0, <2>4, <2>7, <2>8, <3>1 DEF At, Unmaps
  <2> QED BY <1>4, <1>5, <2>7, <2>9, <2>10, <2>11, <2>12 DEF OneOK, Lives, Ends
<1> QED BY <1>6, <1>7

LEMMA OneAllocates ==
  ASSUME VMInv, NEW p \in Procs, OneOK(p), frame_allocate(p) \/ frame_allocated(p)
  PROVE  panic' \/ OneOK(p)'
<1>1. free \in SUBSET Nat
  BY VMAssumption DEF VMInv, Types
<1>2. free # {}
  <2>1. CASE frame_allocate(p)
    BY <2>1 DEF frame_allocate
  <2>2. CASE frame_allocated(p)
    <3>1. loc[p].pc = "again" /\ At(p)
      BY <2>2, AtLoc DEF frame_allocated, at, Ends
    <3> QED BY <3>1 DEF At
  <2> QED BY <2>1, <2>2
<1>3. lowest(free) \in free
  BY <1>1, <1>2, Lowest
<1> QED BY <1>2, <1>3, OneNewNode DEF frame_allocate, frame_allocated, at

LEMMA OneFills ==
  ASSUME VMInv, NEW p \in Procs, OneOK(p), fill(p)
  PROVE  OneOK(p)'
<1>u. PICK u \in UPages : u = page(p)
  BY AtAPage DEF fill, at, Homes, Ends
<1>k. PICK k \in Frames : k = loc[p].k
  BY LocTyped DEF fill, at, CallOK
<1>e. PICK e \in EntryType : e = entry(p)
  BY AtAPage DEF fill, at, Homes, Ends
<1>s. PICK s \in Slots \cup {0} : s = e.swap_id
  BY DEF EntryType
<1> DEFINE fresh == [NoPte EXCEPT !.frame = k, !.present = TRUE, !.writable = e.status = "FILE" => u \notin Code]
           filled == [e EXCEPT !.status = "ON_FRAME", !.kpage = k]
<1>0. /\ loc \in [Procs -> LocType] /\ loc[p] \in LocType /\ Lists
      /\ spte \in [Procs -> [UPages -> EntryType]] /\ pte \in [Procs -> [UPages -> PteType]]
      /\ swap_map \in [Slots -> BOOLEAN] /\ \E V : data \in [Frames -> V]
  BY LocTyped DEF VMInv, Types
<1>1. loc[p].pc = "fill" /\ jump(p, "unpin")
      /\ UNCHANGED <<free, node, frame_list, frame_map, swap, file, written>>
  BY DEF fill, at, table
<1>2. loc[p].pc \notin Homes \cup Ends /\ loc[p].pc \in Takes /\ loc[p].pc \notin Unmaps /\ loc[p].pc # "evicting"
  BY <1>1 DEF Homes, Ends, Takes, Unmaps
<1>3. /\ Lives(p) /\ Sole(p) /\ At(p) /\ loc[p].back # "write_back"
      /\ \A v \in UPages : Saved(p, v) /\ Held(p, v)
  BY <1>2, AtLoc DEF OneOK, Lives
<1>4. e = spte[p][u]
  BY <1>2, <1>u, <1>e, AtAPage
<1>5. /\ k \in Frames \ free /\ frame_map[k] # NULL /\ node[frame_map[k]].upage = u
      /\ e.status \in {"ALL_ZERO", "FILE", "SWAP"}
  BY <1>1, <1>2, <1>3, <1>u, <1>k, <1>e DEF At
<1>6. ~ pte[p][u].present
  BY <1>3, <1>4, <1>5 DEF Held
<1>7. e.status = "SWAP" => s \in Slots /\ ~ swap_map[s] /\ swap[s] = Version(p, u)
  BY <1>3, <1>4, <1>s DEF Saved
<1>8. \A j \in Frames : data'[j] = IF j = k THEN Version(p, u) ELSE data[j]
  <2>1. CASE e.status = "ALL_ZERO"
    <3>1. Version(p, u) = <<p, u, 0>>
      BY <1>3, <1>4, <2>1 DEF Saved, Version
    <3>2. data' = [data EXCEPT ![k] = <<p, u, 0>>]
      BY <2>1, <1>u, <1>k, <1>e DEF fill
    <3> QED BY <1>0, <3>1, <3>2
  <2>2. CASE e.status = "FILE"
    <3>1. Version(p, u) = <<p, u, file[p][u]>>
      BY <1>3, <1>4, <2>2 DEF Saved, Version
    <3>2. data' = [data EXCEPT ![k] = <<p, u, file[p][u]>>]
      BY <2>2, <1>u, <1>k, <1>e DEF fill
    <3> QED BY <1>0, <3>1, <3>2
  <2>3. CASE e.status = "SWAP"
    <3>1. data' = [data EXCEPT ![k] = swap[s]]
      BY <1>7, <2>3, <1>u, <1>k, <1>e, <1>s DEF fill
    <3> QED BY <1>0, <1>7, <2>3, <3>1
  <2> QED BY <1>5, <2>1, <2>2, <2>3
<1>9. \A i \in Slots : swap_map'[i] = (swap_map[i] \/ (e.status = "SWAP" /\ i = s))
  <2>1. CASE e.status = "SWAP"
    <3>1. swap_map' = [swap_map EXCEPT ![s] = TRUE]
      BY <1>7, <2>1, <1>u, <1>e, <1>s DEF fill
    <3> QED BY <1>0, <2>1, <3>1
  <2>2. CASE e.status # "SWAP"
    BY <2>2, <1>0, <1>e DEF fill
  <2> QED BY <2>1, <2>2
<1>10. fresh \in PteType /\ fresh.frame = k /\ fresh.present /\ ~ fresh.dirty
  BY <1>5 DEF NoPte, PteType
<1>11. filled \in EntryType /\ filled.status = "ON_FRAME" /\ filled.kpage = k /\ filled.dirty = e.dirty
  BY <1>4, <1>5 DEF EntryType, Statuses
<1>12. Puts(pte', pte, p, u, fresh)
  BY <1>u, <1>k, <1>e DEF fill, Puts
<1>13. Puts(spte', spte, p, u, filled)
  BY <1>0, <1>4, <1>u, <1>k DEF fill, Puts, EntryType
<1> HIDE DEF fresh, filled
<1>14. \A v \in UPages : pte'[p][v] = IF v = u THEN fresh ELSE pte[p][v]
  <2>1. \A q \in Procs, v \in UPages : pte'[q][v] = IF q = p /\ v = u THEN fresh ELSE pte[q][v]
    BY <1>0, <1>10, <1>12, PutsPte
  <2> QED BY <2>1
<1>15. \A v \in UPages : spte'[p][v] = IF v = u THEN filled ELSE spte[p][v]
  <2>1. \A q \in Procs, v \in UPages : spte'[q][v] = IF q = p /\ v = u THEN filled ELSE spte[q][v]
    BY <1>0, <1>11, <1>13, PutsEntry
  <2> QED BY <2>1
<1>16. \A v \in UPages : Version(p, v)' = Version(p, v)
  BY <1>1 DEF Version
<1>17. \A v \in UPages : spte[p][v].status = "ON_FRAME" => spte[p][v].kpage # k
  BY <1>3, <1>4, <1>5, NodeOf
<1>18. Saved(p, u)' /\ Held(p, u)'
  <2>1. /\ spte'[p][u].status = "ON_FRAME" /\ spte'[p][u].kpage = k /\ spte'[p][u].dirty = e.dirty
        /\ pte'[p][u].present /\ pte'[p][u].frame = k /\ data'[k] = Version(p, u)'
    BY <1>4, <1>5, <1>8, <1>10, <1>11, <1>14, <1>15, <1>16
  <2>2. u \in Stack => file[p][u] = 0
    BY <1>3, <1>4 DEF Saved
  <2>3. e.dirty \/ written[p][u] = file[p][u]
    BY <1>3, <1>4, <1>5 DEF Saved
  <2>4. Saved(p, u)'
    BY <1>1, <1>5, <2>1, <2>2 DEF Saved
  <2> QED BY <1>1, <1>5, <2>1, <2>3, <2>4 DEF Held
<1>19. ASSUME NEW v \in UPages, v # u
       PROVE  Saved(p, v)' /\ Held(p, v)'
  <2>1. Saved(p, v) /\ Held(p, v) /\ spte'[p][v] = spte[p][v] /\ pte'[p][v] = pte[p][v] /\ Version(p, v)' = Version(p, v)
    BY <1>3, <1>14, <1>15, <1>16, <1>19
  <2>2. pte[p][v].present => spte[p][v].status = "ON_FRAME"
    BY <2>1 DEF Held
  <2>3. spte[p][v].status = "ON_FRAME" => /\ spte[p][v].kpage \in Frames /\ spte[p][v].kpage = pte[p][v].frame
                                          /\ data'[spte[p][v].kpage] = data[spte[p][v].kpage]
    BY <1>8, <1>17, <2>1 DEF Held
  <2>4. spte[p][v].status = "SWAP" => ~ swap_map'[spte[p][v].swap_id]
    BY <1>3, <1>4, <1>9, <1>19, <1>s, <2>1 DEF Saved, Sole
  <2>5. Saved(p, v)'
    BY <1>1, <2>1, <2>2, <2>3, <2>4 DEF Saved
  <2>6. Held(p, v)'
    BY <1>1, <1>2, <2>1, <2>3 DEF Held
  <2> QED BY <2>5, <2>6
<1>20. Sole(p)'
  <2>1. \A v \in UPages : v # u => (pte[p][v].present => pte[p][v].frame # k)
    BY <1>3, <1>17 DEF Held
  <2> QED BY <1>3, <1>10, <1>11, <1>14, <1>15, <2>1 DEF Sole
<1>21. Unpooled'
  BY <1>1, <1>3 DEF Lives, Unpooled
<1>22. loc'[p].pc = "unpin" /\ At(p)'
  <2>1. "unpin" \in Pcs /\ "unpin" \notin Takes \cup Unmaps
    BY DEF Pcs, Takes, Unmaps
  <2> QED BY <1>1, <1>3, <2>1, JumpRests, PageNames
<1>23. ASSUME NEW n \in Nodes, In(n, frame_list')
       PROVE  Listed(p, n)'
  <2>1. Listed(p, n)
    BY <1>1, <1>3, <1>23 DEF Lives
  <2>2. CASE node[n].kpage = k
    <3>1. node[n].upage = u
      BY <1>5, <2>1, <2>2 DEF Listed
    <3> QED BY <1>1, <1>4, <1>11, <1>15, <2>1, <2>2, <3>1 DEF Listed
  <2>3. CASE node[n].kpage # k
    <3>1. spte[p][node[n].upage].status = "ON_FRAME" /\ spte[p][node[n].upage].kpage = node[n].kpage
      BY <1>1, <1>k, <2>1, <2>3 DEF Listed
    <3>2. node[n].upage # u
      BY <1>4, <1>5, <3>1
    <3> QED BY <1>1, <1>15, <2>1, <3>1, <3>2 DEF Listed
  <2> QED BY <2>2, <2>3
<1> QED BY <1>18, <1>19, <1>20, <1>21, <1>22, <1>23 DEF OneOK, Lives, Ends

-----------------------------------------------------------------------------
(* A page is swapped out *)

\* What evict does to the page directory.
LEMMA EvictClears ==
  ASSUME pte \in [Procs -> [UPages -> PteType]], NEW p \in Procs, NEW t, NEW u, NEW gone,
         pte' = clear_page([pte EXCEPT ![p] = [x \in UPages |-> [pte[p][x] EXCEPT !.accessed = @ /\ x \notin gone]]], t, u)
  PROVE  \A v \in UPages : /\ pte'[p][v].present = (pte[p][v].present /\ ~ (p = t /\ v = u))
                           /\ pte'[p][v].frame = pte[p][v].frame /\ pte'[p][v].dirty = pte[p][v].dirty
<1> DEFINE bit(x) == [pte[p][x] EXCEPT !.accessed = @ /\ x \notin gone]
           row == [x \in UPages |-> bit(x)]
           pd  == [pte EXCEPT ![p] = row]
<1>1. \A x \in UPages : /\ bit(x) \in PteType /\ bit(x).present = pte[p][x].present
                        /\ bit(x).frame = pte[p][x].frame /\ bit(x).dirty = pte[p][x].dirty
  <2> TAKE x \in UPages
  <2>1. pte[p][x] \in PteType
    OBVIOUS
  <2>2. (pte[p][x].accessed /\ x \notin gone) \in BOOLEAN
    OBVIOUS
  <2> QED BY <2>1, <2>2 DEF PteType
<1> HIDE DEF bit
<1>2. row \in [UPages -> PteType] /\ \A x \in UPages : row[x] = bit(x)
  BY <1>1
<1> HIDE DEF row
<1>3. pd \in [Procs -> [UPages -> PteType]] /\ pd[p] = row
  BY <1>2
<1>4. pte' = clear_page(pd, t, u)
  BY DEF row, bit
<1> HIDE DEF pd
<1>5. PICK d \in [Procs -> [UPages -> PteType]] : d = pd
  BY <1>3
<1>6. ASSUME NEW v \in UPages
      PROVE  /\ pte'[p][v].present = (pte[p][v].present /\ ~ (p = t /\ v = u))
             /\ pte'[p][v].frame = pte[p][v].frame /\ pte'[p][v].dirty = pte[p][v].dirty
  <2>1. /\ pte'[p][v].present = (d[p][v].present /\ ~ (p = t /\ v = u))
        /\ pte'[p][v].frame = d[p][v].frame /\ pte'[p][v].dirty = d[p][v].dirty
    <3>1. \A q \in Procs, w \in UPages :
            /\ clear_page(d, t, u)[q][w].present = (d[q][w].present /\ ~ (q = t /\ w = u))
            /\ clear_page(d, t, u)[q][w].frame = d[q][w].frame
            /\ clear_page(d, t, u)[q][w].dirty = d[q][w].dirty
      BY ClearPage
    <3>2. pte' = clear_page(d, t, u)
      BY <1>4, <1>5
    <3> QED BY <3>1, <3>2
  <2>2. d[p][v] = bit(v)
    BY <1>2, <1>3, <1>5
  <2> QED BY <1>1, <2>1, <2>2
<1> QED BY <1>6

LEMMA OneEvicts ==
  ASSUME VMInv, NEW p \in Procs, OneOK(p), evict(p)
  PROVE  panic' \/ OneOK(p)'
<1>0. /\ loc \in [Procs -> LocType] /\ loc[p] \in LocType /\ loc[p].pc = "allocate" /\ Types /\ Lists
      /\ pte \in [Procs -> [UPages -> PteType]]
  BY LocTyped DEF evict, at, VMInv, Types
<1>1. CASE Panic
  BY <1>1 DEF Panic
<1>2. CASE ~ Panic
  <2> DEFINE used == {i \in Slots : swap_map[i]}
             gone == passed(p)
  <2>1. ~ lost_hand /\ evictable # {} /\ used # {}
    BY <1>2 DEF evict
  <2>2. PICK n \in Nodes : n = clock[pick(p)] /\ In(n, frame_list)
    BY <1>0, <2>1, ClockFinds
  <2>3. /\ pte' = clear_page([pte EXCEPT ![p] = [x \in UPages |-> [pte[p][x] EXCEPT !.accessed = @ /\ x \notin gone]]],
                             node[n].t, node[n].upage)
        /\ loc' = [loc EXCEPT ![p].pc = "evicting", ![p].n = n, ![p].s = lowest(used)]
        /\ UNCHANGED <<free, node, heap, frame_list, frame_map, sys_lock, slots,
                       data, spte, file, written, panic>>
    BY <1>2, <2>1, <2>2 DEF evict
  <2>4. PICK s \in Slots : s = lowest(used) /\ swap_map[s]
    <3>1. used \in SUBSET Nat
      BY VMAssumption
    <3> HIDE DEF used
    <3>2. lowest(used) \in used
      BY <2>1, <3>1, Lowest
    <3> QED BY <3>2 DEF used
  <2> HIDE DEF used, gone
  <2>5. /\ loc[p].pc \notin {"evicting", "evicted", "free_victim", "fill"} \cup Ends \cup Unmaps
        /\ loc[p].pc \in Takes
    BY <1>0 DEF Ends, Takes, Unmaps
  <2>6. /\ Lives(p) /\ Sole(p) /\ At(p) /\ loc[p].back # "write_back"
        /\ \A v \in UPages : Saved(p, v) /\ Held(p, v)
    BY <2>5, AtLoc DEF OneOK, Lives
  <2>7. Listed(p, n)
    BY <2>2, <2>6 DEF Lives
  <2>8. PICK u \in UPages : u = node[n].upage
    BY <2>7 DEF Listed
  <2>9. spte[p][u].status = "ON_FRAME" /\ spte[p][u].kpage = node[n].kpage /\ node[n].t = p
    BY <2>5, <2>7, <2>8 DEF Listed
  <2>10. \A v \in UPages : /\ pte'[p][v].present = (pte[p][v].present /\ v # u)
                           /\ pte'[p][v].frame = pte[p][v].frame /\ pte'[p][v].dirty = pte[p][v].dirty
    <3>1. pte' = clear_page([pte EXCEPT ![p] = [x \in UPages |-> [pte[p][x] EXCEPT !.accessed = @ /\ x \notin gone]]], p, u)
      BY <2>3, <2>8, <2>9
    <3>2. \A v \in UPages : /\ pte'[p][v].present = (pte[p][v].present /\ ~ (p = p /\ v = u))
                             /\ pte'[p][v].frame = pte[p][v].frame /\ pte'[p][v].dirty = pte[p][v].dirty
      BY <1>0, <3>1, EvictClears
    <3> QED BY <3>2
  <2>11. UNCHANGED <<swap_map, swap>>
    BY <2>3 DEF slots
  <2>12. /\ loc'[p].pc = "evicting" /\ loc'[p].n = n /\ loc'[p].s = s /\ loc'[p].back # "write_back"
         /\ page(p)' = page(p)
    <3> DEFINE m == [loc[p] EXCEPT !.pc = "evicting", !.n = n, !.s = s]
    <3>1. loc' = [loc EXCEPT ![p] = m]
      BY <2>3, <2>4, <1>0 DEF LocType
    <3>2. /\ m.pc = "evicting" /\ m.n = n /\ m.s = s
          /\ m.buf = loc[p].buf /\ m.i = loc[p].i /\ m.back = loc[p].back
      BY <1>0 DEF LocType
    <3> HIDE DEF m
    <3>3. loc'[p] = m
      BY <1>0, <3>1
    <3> QED BY <2>6, <3>2, <3>3 DEF page
  <2>13. ASSUME NEW v \in UPages
         PROVE  Saved(p, v)' /\ Held(p, v)'
    <3>1. Saved(p, v) /\ Held(p, v) /\ Version(p, v)' = Version(p, v)
      BY <2>3, <2>6 DEF Version
    <3>2. /\ pte'[p][v].present = (pte[p][v].present /\ v # u)
          /\ pte'[p][v].frame = pte[p][v].frame /\ pte'[p][v].dirty = pte[p][v].dirty
      BY <2>10
    <3>3. Saved(p, v)'
      BY <2>3, <2>11, <3>1, <3>2 DEF Saved
    <3>4. Held(p, v)'
      BY <2>3, <2>5, <2>8, <2>12, <3>1, <3>2 DEF Held
    <3> QED BY <3>3, <3>4
  <2>14. Sole(p)'
    BY <2>3, <2>6, <2>10 DEF Sole
  <2>15. Unpooled'
    BY <2>3, <2>6 DEF Lives, Unpooled
  <2>16. ASSUME NEW m \in Nodes, In(m, frame_list')
         PROVE  Listed(p, m)'
    <3>1. Listed(p, m)
      BY <2>3, <2>6, <2>16 DEF Lives
    <3> QED BY <2>3, <2>5, <3>1 DEF Listed
  <2>17. At(p)'
    <3>1. entry(p)' = entry(p) /\ entry(p).status \in {"ALL_ZERO", "FILE", "SWAP"}
      BY <2>3, <2>5, <2>6, <2>12 DEF entry, At
    <3>2. ~ pte'[p][u].present
      BY <2>10
    <3> QED BY <2>2, <2>3, <2>4, <2>8, <2>9, <2>11, <2>12, <3>1, <3>2 DEF At, Unmaps
  <2> QED BY <2>12, <2>13, <2>14, <2>15, <2>16, <2>17 DEF OneOK, Lives, Ends
<1> QED BY <1>1, <1>2

LEMMA OneEvicted ==
  ASSUME VMInv, NEW p \in Procs, OneOK(p), evicted(p)
  PROVE  OneOK(p)'
<1>0. /\ loc \in [Procs -> LocType] /\ loc[p] \in LocType /\ loc[p].pc = "evicting" /\ Lists
      /\ spte \in [Procs -> [UPages -> EntryType]] /\ pte \in [Procs -> [UPages -> PteType]]
      /\ swap_map \in [Slots -> BOOLEAN] /\ \E V : swap \in [Slots -> V]
  BY LocTyped DEF evicted, at, VMInv, Types
<1>1. loc[p].pc \notin Ends \cup Unmaps \cup {"evicted", "free_victim", "fill"} /\ loc[p].pc \in Takes
  BY <1>0 DEF Ends, Takes, Unmaps
<1>2. /\ Lives(p) /\ Sole(p) /\ At(p) /\ loc[p].back # "write_back"
      /\ \A v \in UPages : Saved(p, v) /\ Held(p, v)
  BY <1>1, AtLoc DEF OneOK, Lives
<1>n. PICK n \in Nodes : n = loc[p].n /\ In(n, frame_list)
  BY <1>0, <1>2, ListIn DEF At
<1>s. PICK s \in Slots : s = loc[p].s /\ swap_map[s]
  BY <1>0, <1>2 DEF At
<1>3. Listed(p, n)
  BY <1>2, <1>n DEF Lives
<1>u. PICK u \in UPages : u = node[n].upage
  BY <1>3 DEF Listed
<1>k. PICK k \in Frames \ free : k = node[n].kpage
  BY <1>3 DEF Listed
<1>4. /\ node[n].t = p /\ spte[p][u].status = "ON_FRAME" /\ spte[p][u].kpage = k /\ ~ pte[p][u].present
      /\ frame_map[k] = n
  BY <1>0, <1>2, <1>3, <1>n, <1>u, <1>k DEF Listed, At
<1> DEFINE x == [status |-> "SWAP", kpage |-> NULL, swap_id |-> s, dirty |-> is_dirty(p, u)]
<1>5. /\ swap_write(s, k) /\ Puts(spte', spte, p, u, x) /\ jump(p, "evicted")
      /\ UNCHANGED <<free, node, heap, frame_list, frame_map, frame_ptr, sys_lock, data, pte, file, written, panic>>
  BY <1>4, <1>n, <1>s, <1>u, <1>k DEF evicted, Puts, table
<1>6. x \in EntryType /\ x.status = "SWAP" /\ x.swap_id = s /\ x.dirty = (spte[p][u].dirty \/ pte[p][u].dirty)
  <2>1. is_dirty(p, u) \in BOOLEAN
    BY DEF is_dirty
  <2> QED BY <2>1 DEF EntryType, Statuses, is_dirty
<1> HIDE DEF x
<1>7. \A v \in UPages : spte'[p][v] = IF v = u THEN x ELSE spte[p][v]
  <2>1. \A q \in Procs, v \in UPages : spte'[q][v] = IF q = p /\ v = u THEN x ELSE spte[q][v]
    BY <1>0, <1>5, <1>6, PutsEntry
  <2> QED BY <2>1
<1>8. data[k] = Version(p, u) /\ (x.dirty \/ written[p][u] = file[p][u])
  BY <1>2, <1>4, <1>6 DEF Held
<1>9. \A i \in Slots : /\ swap'[i] = IF i = s THEN Version(p, u) ELSE swap[i]
                       /\ swap_map'[i] = (swap_map[i] /\ i # s)
  <2>1. swap' = [swap EXCEPT ![s] = data[k]] /\ swap_map' = [swap_map EXCEPT ![s] = FALSE]
    BY <1>5 DEF swap_write
  <2> QED BY <1>0, <1>8, <2>1
<1>10. \A v \in UPages : Version(p, v)' = Version(p, v)
  BY <1>5 DEF Version
<1>11. /\ loc'[p].pc = "evicted" /\ loc'[p].n = n /\ loc'[p].back # "write_back" /\ page(p)' = page(p)
  <2> DEFINE m == [loc[p] EXCEPT !.pc = "evicted"]
  <2>1. "evicted" \in Pcs
    BY DEF Pcs
  <2>2. Goes(p, m)
    BY <1>0, <1>5, <2>1, Jumps, PageNames
  <2>3. m.pc = "evicted" /\ m.n = loc[p].n /\ m.buf = loc[p].buf /\ m.i = loc[p].i /\ m.back = loc[p].back
    BY <1>0 DEF LocType
  <2> HIDE DEF m
  <2> QED BY <1>2, <1>n, <2>2, <2>3 DEF Goes, page
<1>12. Saved(p, u)' /\ Held(p, u)'
  <2>1. /\ spte'[p][u].status = "SWAP" /\ spte'[p][u].swap_id = s /\ spte'[p][u].dirty = x.dirty
        /\ ~ swap_map'[s] /\ swap'[s] = Version(p, u)' /\ ~ pte'[p][u].present
    BY <1>4, <1>5, <1>6, <1>7, <1>9, <1>10
  <2>2. u \in Stack => file[p][u] = 0
    BY <1>2 DEF Saved
  <2>3. Saved(p, u)'
    BY <1>5, <1>8, <2>1, <2>2 DEF Saved
  <2> QED BY <1>5, <2>1, <2>3 DEF Held
<1>13. ASSUME NEW v \in UPages, v # u
       PROVE  Saved(p, v)' /\ Held(p, v)'
  <2>1. Saved(p, v) /\ Held(p, v) /\ spte'[p][v] = spte[p][v] /\ Version(p, v)' = Version(p, v)
    BY <1>2, <1>7, <1>10, <1>13
  <2>2. spte[p][v].status = "SWAP" => /\ swap'[spte[p][v].swap_id] = swap[spte[p][v].swap_id]
                                      /\ ~ swap_map'[spte[p][v].swap_id]
    BY <1>9, <1>s, <2>1 DEF Saved
  <2>3. Saved(p, v)'
    BY <1>5, <2>1, <2>2 DEF Saved
  <2>4. Held(p, v)'
    BY <1>5, <1>n, <1>u, <1>13, <2>1 DEF Held
  <2> QED BY <2>3, <2>4
<1>14. Sole(p)'
  <2>1. \A v \in UPages : spte[p][v].status = "SWAP" => spte[p][v].swap_id # s
    BY <1>2, <1>s DEF Saved
  <2> QED BY <1>2, <1>5, <1>6, <1>7, <2>1 DEF Sole
<1>15. Unpooled'
  BY <1>2, <1>5 DEF Lives, Unpooled
<1>16. ASSUME NEW m \in Nodes, In(m, frame_list')
       PROVE  Listed(p, m)'
  <2>1. Listed(p, m)
    BY <1>2, <1>5, <1>16 DEF Lives
  <2>2. CASE m = n
    BY <1>5, <1>11, <2>1, <2>2 DEF Listed
  <2>3. CASE m # n
    <3>1. spte[p][node[m].upage].status = "ON_FRAME" /\ spte[p][node[m].upage].kpage = node[m].kpage
      BY <1>1, <2>1 DEF Listed
    <3>2. node[m].upage # u
      BY <1>4, <2>1, <2>3, <3>1 DEF Listed
    <3> QED BY <1>5, <1>7, <2>1, <3>1, <3>2 DEF Listed
  <2> QED BY <2>2, <2>3
<1>17. At(p)'
  <2>1. page(p) \in UPages /\ entry(p) = spte[p][page(p)] /\ entry(p).status \in {"ALL_ZERO", "FILE", "SWAP"}
    BY <1>0, <1>1, <1>2, AtAPage DEF At, Homes
  <2>2. entry(p)' = spte'[p][page(p)]
    BY <1>11 DEF entry
  <2>3. entry(p)'.status \in {"ALL_ZERO", "FILE", "SWAP"}
    BY <1>6, <1>7, <2>1, <2>2
  <2> QED BY <1>5, <1>6, <1>7, <1>11, <1>n, <1>u, <2>3 DEF At, Unmaps
<1> QED BY <1>11, <1>12, <1>13, <1>14, <1>15, <1>16, <1>17 DEF OneOK, Lives, Ends

LEMMA OneReads ==
  ASSUME VMInv, NEW p \in Procs, OneOK(p), read_kpage(p)
  PROVE  OneOK(p)'
<1>0. loc \in [Procs -> LocType] /\ loc[p] \in LocType /\ loc[p].pc = "evicted" /\ Lists
  BY LocTyped DEF read_kpage, at, VMInv
<1>1. /\ loc[p].pc \notin Ends \cup Unmaps \cup {"evicting", "free_victim", "fill"} /\ loc[p].pc \in Takes
      /\ UNCHANGED <<free, node, heap, frame_list, frame_map, frame_ptr, swap_map, swap, data, spte, pte, file, written>>
  BY <1>0 DEF Ends, Takes, Unmaps, read_kpage, table, slots, pages
<1>2. /\ Lives(p) /\ Sole(p) /\ At(p) /\ loc[p].back # "write_back"
      /\ \A v \in UPages : Saved(p, v) /\ Held(p, v)
  BY <1>1, AtLoc DEF OneOK, Lives
<1>3. Listed(p, loc[p].n)
  BY <1>0, <1>2, ListIn DEF Lives, At
<1>4. /\ loc'[p].pc = "free_victim" /\ loc'[p].n = loc[p].n /\ loc'[p].back # "write_back" /\ page(p)' = page(p)
      /\ loc'[p].k = node[loc[p].n].kpage
  <2> DEFINE k == node[loc[p].n].kpage
             m == [loc[p] EXCEPT !.pc = "free_victim", !.k = k]
  <2>1. "free_victim" \in Pcs /\ k \in Frames
    BY <1>3 DEF Pcs, Listed
  <2>2. Goes(p, m)
    BY <1>0, <2>1, Jumps DEF read_kpage
  <2>3. m.pc = "free_victim" /\ m.n = loc[p].n /\ m.buf = loc[p].buf /\ m.i = loc[p].i /\ m.back = loc[p].back /\ m.k = k
    BY <1>0 DEF LocType
  <2> HIDE DEF m
  <2> QED BY <1>2, <2>2, <2>3 DEF Goes, page
<1>5. ASSUME NEW v \in UPages
      PROVE  Saved(p, v)' /\ Held(p, v)'
  <2>1. Saved(p, v) /\ Held(p, v) /\ Version(p, v)' = Version(p, v)
    BY <1>1, <1>2 DEF Version
  <2>2. Saved(p, v)'
    BY <1>1, <2>1 DEF Saved
  <2>3. Held(p, v)'
    BY <1>0, <1>1, <2>1 DEF Held
  <2> QED BY <2>2, <2>3
<1>6. Sole(p)'
  BY <1>1, <1>2 DEF Sole
<1>7. Unpooled'
  BY <1>1, <1>2 DEF Lives, Unpooled
<1>8. ASSUME NEW m \in Nodes, In(m, frame_list')
      PROVE  Listed(p, m)'
  <2>1. Listed(p, m)
    BY <1>1, <1>2, <1>8 DEF Lives
  <2> QED BY <1>0, <1>1, <1>4, <2>1 DEF Listed
<1>9. At(p)'
  <2>1. entry(p)' = entry(p)
    BY <1>1, <1>4 DEF entry
  <2> QED BY <1>0, <1>1, <1>2, <1>4, <2>1 DEF At, Unmaps
<1> QED BY <1>4, <1>5, <1>6, <1>7, <1>8, <1>9 DEF OneOK, Lives, Ends

-----------------------------------------------------------------------------
(* A frame goes back to the pool *)

\* What the others of the frame table keep when the node of frame k leaves it.
LEMMA OthersKept ==
  ASSUME VMInv, NEW p \in Procs, Lives(p), NEW k \in Frames \ free, frame_map[k] # NULL, forget(k),
         free' = free \cup {k}
  PROVE  /\ Unpooled'
         /\ \A j \in Frames : j # k /\ frame_map[j] # NULL =>
              frame_map'[j] = frame_map[j] /\ node'[frame_map[j]] = node[frame_map[j]]
         /\ \A m : In(m, frame_list') =>
              /\ m \in Nodes /\ In(m, frame_list) /\ m # frame_map[k] /\ node'[m] = node[m]
              /\ Listed(p, m) /\ node[m].kpage # k /\ frame_map'[node[m].kpage] = m
<1>0. Lists /\ node \in [Nodes -> NodeType] /\ MapOK(frame_map, frame_list)
  BY DEF VMInv, Types, Lists
<1>1. /\ frame_map[k] \in Nodes
      /\ \A x : In(x, frame_list') <=> In(x, frame_list) /\ x # frame_map[k]
      /\ \A j \in Frames \cup {NULL} : frame_map'[j] = IF j = k THEN NULL ELSE frame_map[j]
  BY <1>0, Forgets
<1>2. \A n \in Nodes : node'[n] = IF n = frame_map[k] THEN NoNode ELSE node[n]
  BY <1>0, ForgetTyped
<1>3. Unpooled'
  BY <1>1 DEF Lives, Unpooled, VMInv, Types
<1>4. \A j \in Frames : j # k /\ frame_map[j] # NULL =>
        frame_map'[j] = frame_map[j] /\ node'[frame_map[j]] = node[frame_map[j]]
  <2>1. \A j \in Frames : j # k /\ frame_map[j] # NULL => frame_map[j] # frame_map[k] /\ frame_map[j] \in Nodes
    BY <1>0 DEF MapOK
  <2> QED BY <1>1, <1>2, <2>1
<1>5. ASSUME NEW m, In(m, frame_list')
      PROVE  /\ m \in Nodes /\ In(m, frame_list) /\ m # frame_map[k] /\ node'[m] = node[m]
             /\ Listed(p, m) /\ node[m].kpage # k /\ frame_map'[node[m].kpage] = m
  <2>1. In(m, frame_list) /\ m # frame_map[k] /\ m \in Nodes
    BY <1>0, <1>1, <1>5, ListIn
  <2>2. Listed(p, m)
    BY <2>1 DEF Lives
  <2>3. node[m].kpage # k /\ node[m].kpage \in Frames
    BY <2>1, <2>2 DEF Listed
  <2>4. frame_map'[node[m].kpage] = m
    BY <1>1, <2>2, <2>3 DEF Listed
  <2> QED BY <1>2, <2>1, <2>2, <2>3, <2>4
<1> QED BY <1>3, <1>4, <1>5

LEMMA OneFreesVictim ==
  ASSUME VMInv, NEW p \in Procs, OneOK(p), free_victim(p)
  PROVE  panic' \/ OneOK(p)'
<1>0. loc \in [Procs -> LocType] /\ loc[p] \in LocType /\ loc[p].pc = "free_victim" /\ Lists
  BY LocTyped DEF free_victim, at, VMInv
<1>1. loc[p].pc \notin Ends \cup Unmaps \cup {"evicting", "evicted", "fill"} /\ loc[p].pc \in Takes
  BY <1>0 DEF Ends, Takes, Unmaps
<1>2. /\ Lives(p) /\ Sole(p) /\ At(p) /\ loc[p].back # "write_back"
      /\ \A v \in UPages : Saved(p, v) /\ Held(p, v)
  BY <1>1, AtLoc DEF OneOK, Lives
<1>3. CASE Panic
  BY <1>3 DEF Panic
<1>4. CASE ~ Panic
  <2>n. PICK n \in Nodes : n = loc[p].n /\ In(n, frame_list)
    BY <1>0, <1>2, ListIn DEF At
  <2>1. Listed(p, n)
    BY <1>2, <2>n DEF Lives
  <2>k. PICK k \in Frames \ free : k = loc[p].k /\ k = node[n].kpage /\ frame_map[k] = n
    BY <1>0, <1>2, <2>n, <2>1 DEF At, Listed
  <2>2. /\ forget(k) /\ free' = free \cup {k} /\ jump(p, "again") /\ frame_map[k] # NULL
        /\ UNCHANGED <<swap_map, swap, data, spte, pte, file, written>>
    BY <1>4, <2>k, PageNames DEF free_victim, frame_free, slots, pages
  <2>3. spte[p][node[n].upage].status = "SWAP"
    BY <1>0, <1>2, <2>n DEF At
  <2>4. /\ Unpooled'
        /\ \A j \in Frames : j # k /\ frame_map[j] # NULL =>
             frame_map'[j] = frame_map[j] /\ node'[frame_map[j]] = node[frame_map[j]]
        /\ \A m : In(m, frame_list') =>
             /\ m \in Nodes /\ In(m, frame_list) /\ m # frame_map[k] /\ node'[m] = node[m]
             /\ Listed(p, m) /\ node[m].kpage # k /\ frame_map'[node[m].kpage] = m
    BY <1>2, <2>2, OthersKept
  <2>5. \A v \in UPages : spte[p][v].status = "ON_FRAME" => spte[p][v].kpage # k
    BY <1>2, <2>k, <2>3, NodeOf
  <2>6. ASSUME NEW v \in UPages
        PROVE  Saved(p, v)' /\ Held(p, v)'
    <3>1. Saved(p, v) /\ Held(p, v) /\ Version(p, v)' = Version(p, v)
      BY <1>2, <2>2 DEF Version
    <3>2. pte[p][v].present => pte[p][v].frame # k
      BY <1>0, <2>5, <3>1 DEF Held
    <3>3. Saved(p, v)'
      BY <2>2, <3>1, <3>2 DEF Saved
    <3>4. spte[p][v].status = "ON_FRAME" =>
            /\ frame_map'[spte[p][v].kpage] = frame_map[spte[p][v].kpage]
            /\ node'[frame_map[spte[p][v].kpage]] = node[frame_map[spte[p][v].kpage]]
      BY <2>4, <2>5, <3>1 DEF Held
    <3>5. Held(p, v)'
      BY <1>0, <2>2, <2>5, <3>1, <3>4 DEF Held
    <3> QED BY <3>3, <3>5
  <2>7. Sole(p)'
    BY <1>2, <2>2 DEF Sole
  <2>8. ASSUME NEW m \in Nodes, In(m, frame_list')
        PROVE  Listed(p, m)'
    BY <1>1, <2>2, <2>4, <2>8, <2>k, <2>n DEF Listed
  <2>9. loc'[p].pc = "again" /\ page(p)' = page(p) /\ loc'[p].back # "write_back"
    <3> DEFINE l == [loc[p] EXCEPT !.pc = "again"]
    <3>1. "again" \in Pcs
      BY DEF Pcs
    <3>2. Goes(p, l)
      BY <1>0, <2>2, <3>1, Jumps, PageNames
    <3>3. l.pc = "again" /\ l.buf = loc[p].buf /\ l.i = loc[p].i /\ l.back = loc[p].back
      BY <1>0 DEF LocType
    <3> HIDE DEF l
    <3> QED BY <1>2, <3>2, <3>3 DEF Goes, page
  <2>10. At(p)'
    <3>1. entry(p)' = entry(p)
      BY <2>2, <2>9 DEF entry
    <3> QED BY <1>1, <1>2, <2>2, <2>9, <3>1 DEF At, Unmaps
  <2> QED BY <2>4, <2>6, <2>7, <2>8, <2>9, <2>10 DEF OneOK, Lives, Ends
<1> QED BY <1>3, <1>4

-----------------------------------------------------------------------------
(* A page is unmapped *)

LEMMA OneWritesBack ==
  ASSUME VMInv, NEW p \in Procs, OneOK(p), write_back(p)
  PROVE  OneOK(p)'
<1>0. /\ loc \in [Procs -> LocType] /\ loc[p] \in LocType /\ loc[p].pc = "write_back" /\ Lists
      /\ pte \in [Procs -> [UPages -> PteType]] /\ \E V : file \in [Procs -> [UPages -> V]]
  BY LocTyped DEF write_back, at, VMInv, Types
<1>1. /\ loc[p].pc \notin Ends \cup Homes \cup Takes \cup {"evicting", "evicted", "free_victim", "fill"}
      /\ loc[p].pc \in Unmaps
  BY <1>0 DEF Ends, Homes, Takes, Unmaps
<1>2. /\ Lives(p) /\ Sole(p) /\ At(p)
      /\ \A v \in UPages : Saved(p, v) /\ Held(p, v)
  BY <1>1, AtLoc DEF OneOK, Lives
<1>u. PICK u \in Mapped : u = page(p)
  BY <1>1, MmapNode
<1>3. u \in UPages /\ u \notin Stack /\ entry(p) = spte[p][u] /\ entry(p).status = "ON_FRAME"
  BY <1>0, <1>1, <1>2, <1>u, AtAPage, PageNames, VMAssumption DEF At
<1>4. /\ pte[p][u].present /\ data[pte[p][u].frame] = Version(p, u)
      /\ entry(p).kpage \in Frames
  BY <1>0, <1>2, <1>3 DEF Held
<1> DEFINE x == [pte[p][u] EXCEPT !.accessed = TRUE]
<1>5. /\ file' = [file EXCEPT ![p][u] = written[p][u]] /\ Puts(pte', pte, p, u, x)
      /\ jumpk(p, "unmap_free", entry(p).kpage)
      /\ UNCHANGED <<free, node, heap, frame_list, frame_map, swap_map, swap, data, spte, written>>
  BY <1>4, <1>u DEF write_back, Version, Puts, table, slots
<1>6. \A v \in UPages : file'[p][v] = IF v = u THEN written[p][u] ELSE file[p][v]
  BY <1>0, <1>3, <1>5
<1>7. x \in PteType /\ x.present = pte[p][u].present /\ x.frame = pte[p][u].frame /\ x.dirty = pte[p][u].dirty
  <2>1. pte[p][u] \in PteType
    BY <1>0, <1>3
  <2> QED BY <2>1 DEF PteType
<1> HIDE DEF x
<1>8. \A v \in UPages : /\ pte'[p][v].present = pte[p][v].present /\ pte'[p][v].frame = pte[p][v].frame
                        /\ pte'[p][v].dirty = pte[p][v].dirty
  <2>1. \A q \in Procs, v \in UPages : pte'[q][v] = IF q = p /\ v = u THEN x ELSE pte[q][v]
    BY <1>0, <1>5, <1>7, PutsPte
  <2>2. \A v \in UPages : pte'[p][v] = IF v = u THEN x ELSE pte[p][v]
    BY <2>1
  <2> QED BY <1>7, <2>2
<1>9. ASSUME NEW v \in UPages
      PROVE  Saved(p, v)' /\ Held(p, v)'
  <2>1. /\ Saved(p, v) /\ Held(p, v) /\ Version(p, v)' = Version(p, v)
        /\ pte'[p][v].present = pte[p][v].present /\ pte'[p][v].frame = pte[p][v].frame
        /\ pte'[p][v].dirty = pte[p][v].dirty
        /\ file'[p][v] = IF v = u THEN written[p][u] ELSE file[p][v]
    BY <1>2, <1>5, <1>6, <1>8 DEF Version
  <2>2. Saved(p, v)'
    BY <1>3, <1>5, <2>1 DEF Saved
  <2>3. Held(p, v)'
    BY <1>0, <1>3, <1>5, <2>1 DEF Held
  <2> QED BY <2>2, <2>3
<1>10. Sole(p)'
  BY <1>2, <1>5, <1>8 DEF Sole
<1>11. Unpooled'
  BY <1>2, <1>5 DEF Lives, Unpooled
<1>12. ASSUME NEW m \in Nodes, In(m, frame_list')
       PROVE  Listed(p, m)'
  <2>1. Listed(p, m)
    BY <1>2, <1>5, <1>12 DEF Lives
  <2> QED BY <1>1, <1>5, <2>1 DEF Listed
<1>13. loc'[p].pc = "unmap_free" /\ page(p)' = u /\ loc'[p].k = entry(p).kpage
  <2> DEFINE k == entry(p).kpage
             l == [loc[p] EXCEPT !.pc = "unmap_free", !.k = k]
  <2>1. "unmap_free" \in Pcs
    BY DEF Pcs
  <2>2. Goes(p, l)
    BY <1>0, <1>4, <1>5, <2>1, Jumps
  <2>3. l.pc = "unmap_free" /\ l.buf = loc[p].buf /\ l.i = loc[p].i /\ l.k = k
    BY <1>0 DEF LocType
  <2> HIDE DEF l
  <2> QED BY <1>u, <2>2, <2>3 DEF Goes, page
<1>14. At(p)'
  <2>1. entry(p)' = spte[p][u] /\ entry(p)' = entry(p)
    BY <1>3, <1>5, <1>13 DEF entry
  <2>2. written'[p][u] = file'[p][u]
    BY <1>3, <1>5, <1>6
  <2> QED BY <1>3, <1>13, <2>1, <2>2 DEF At, Unmaps, Takes
<1> QED BY <1>9, <1>10, <1>11, <1>12, <1>13, <1>14 DEF OneOK, Lives, Ends

\* Where the end of munmap leaves the process and the entry of its page.
LEMMA Unmapped ==
  ASSUME VMInv, NEW p \in Procs, loc[p].pc \in Unmaps, NEW h, unmapped(p, h)
  PROVE  /\ \A v \in UPages : spte'[p][v] = IF v = page(p) THEN NoSpte ELSE spte[p][v]
         /\ At(p)' /\ loc'[p].pc \in Homes
<1>1. spte \in [Procs -> [UPages -> EntryType]] /\ NoSpte \in EntryType
  BY DEF VMInv, Types, NoSpte, EntryType, Statuses
<1>2. Puts(spte', spte, p, page(p), NoSpte)
  BY DEF unmapped, Puts
<1>3. \A q \in Procs, v \in UPages : spte'[q][v] = IF q = p /\ v = page(p) THEN NoSpte ELSE spte[q][v]
  BY <1>1, <1>2, PutsEntry
<1>4. PICK x \in {"user", "exit"} : home(p, x)
  BY DEF unmapped
<1>5. At(p)' /\ loc'[p].pc = x
  BY <1>4, HomeRests
<1> QED BY <1>3, <1>5 DEF Homes

LEMMA OneUnmaps ==
  ASSUME VMInv, NEW p \in Procs, OneOK(p), spt_unmap(p)
  PROVE  OneOK(p)'
<1>0. /\ loc \in [Procs -> LocType] /\ loc[p] \in LocType /\ loc[p].pc = "unmap" /\ Lists
      /\ CallOK(loc[p], spte[p])
      /\ swap_map \in [Slots -> BOOLEAN] /\ \E V : file \in [Procs -> [UPages -> V]]
  BY LocTyped DEF spt_unmap, at, VMInv, Types
<1>1. /\ loc[p].pc \notin Ends \cup Homes \cup Takes \cup {"evicting", "evicted", "free_victim", "fill"}
      /\ loc[p].pc \in Unmaps
  BY <1>0 DEF Ends, Homes, Takes, Unmaps
<1>2. /\ Lives(p) /\ Sole(p) /\ At(p)
      /\ \A v \in UPages : Saved(p, v) /\ Held(p, v)
  BY <1>1, AtLoc DEF OneOK, Lives
<1>u. PICK u \in Mapped : u = page(p)
  BY <1>1, MmapNode
<1>e. PICK e \in EntryType : e = entry(p) /\ e = spte[p][u]
  BY <1>1, <1>u, AtAPage
<1>3. u \in UPages /\ u \notin Stack
  BY <1>u, PageNames, VMAssumption
<1>4. UNCHANGED <<free, node, frame_list, frame_map, swap, data, pte, written>>
  BY DEF spt_unmap
<1>d. e.dirty \in BOOLEAN /\ pte[p][u].dirty \in BOOLEAN /\ is_dirty(p, u) = (e.dirty \/ pte[p][u].dirty)
  <2>1. pte[p][u] \in PteType
    BY <1>3 DEF VMInv, Types
  <2> QED BY <1>e, <2>1 DEF EntryType, PteType, is_dirty
<1>5. CASE e.status = "ON_FRAME"
  <2>1. UNCHANGED <<spte, swap_map, file>> /\ Quiet
    BY <1>4, <1>5, <1>e DEF spt_unmap, Quiet
  <2> DEFINE l == IF is_dirty(p, u) THEN "write_back" ELSE "unmap_free"
             m == [loc[p] EXCEPT !.pc = l, !.k = e.kpage]
  <2>2. jumpk(p, l, e.kpage) /\ l \in Pcs /\ e.kpage \in Frames \cup {NULL}
    BY <1>5, <1>e, <1>u DEF spt_unmap, Pcs, EntryType
  <2>3. Goes(p, m)
    BY <1>0, <2>2, Jumps
  <2>4. m.pc = l /\ m.buf = loc[p].buf /\ m.i = loc[p].i /\ m.k = e.kpage
    BY <1>0 DEF LocType
  <2> HIDE DEF m
  <2>5. loc'[p].pc = l /\ page(p)' = u /\ loc'[p].k = e.kpage /\ entry(p)' = e
    BY <1>u, <1>e, <2>1, <2>3, <2>4 DEF Goes, page, entry
  <2>6. ~ is_dirty(p, u) => written[p][u] = file[p][u]
    BY <1>2, <1>3, <1>5, <1>d, <1>e DEF Held
  <2>7. At(p)' /\ loc'[p].pc \notin Ends
    BY <1>4, <1>5, <2>1, <2>5, <2>6 DEF At, Unmaps, Takes, Ends
  <2> QED BY <1>1, <2>1, <2>7, QuietSteps
<1>6. CASE e.status # "ON_FRAME"
  <2>1. unmapped(p, heap)
    BY <1>6, <1>e DEF spt_unmap
  <2>2. /\ \A v \in UPages : spte'[p][v] = IF v = u THEN NoSpte ELSE spte[p][v]
        /\ At(p)' /\ loc'[p].pc \in Homes
    BY <1>1, <1>u, <2>1, Unmapped
  <2>3. e.status \in {"FILE", "ALL_ZERO", "SWAP"}
    <3>1. e.status # "NONE"
      <4>1. Len(loc[p].buf) = 1 /\ spte[p][loc[p].buf[1]].status # "NONE" /\ loc[p].i \in 1 .. Len(loc[p].buf)
        BY <1>0, <1>1 DEF CallOK
      <4>2. loc[p].i = 1
        BY <4>1
      <4> QED BY <4>1, <4>2, <1>e, <1>u DEF page
    <3> QED BY <1>6, <1>e, <3>1 DEF EntryType, Statuses
  <2>4. ~ pte[p][u].present
    BY <1>2, <1>3, <1>6, <1>e DEF Held
  <2> DEFINE saved == e.status = "SWAP" /\ is_dirty(p, u)
  <2>5. /\ file' = IF saved THEN [file EXCEPT ![p][u] = swap[e.swap_id][3]] ELSE file
        /\ swap_map' = IF saved THEN [swap_map EXCEPT ![e.swap_id] = TRUE] ELSE swap_map
    BY <1>6, <1>e, <1>u DEF spt_unmap
  <2>6. e.status = "SWAP" => e.swap_id \in Slots /\ swap[e.swap_id][3] = written[p][u]
    <3>1. e.status = "SWAP" => e.swap_id \in Slots /\ swap[e.swap_id] = Version(p, u)
      BY <1>2, <1>3, <1>e DEF Saved
    <3>2. Version(p, u)[3] = written[p][u]
      BY DEF Version
    <3> QED BY <3>1, <3>2
  <2>7. file'[p][u] = written[p][u] /\ \A v \in UPages : v # u => file'[p][v] = file[p][v]
    <3>1. CASE saved
      <4>1. file' = [file EXCEPT ![p][u] = written[p][u]]
        BY <2>5, <2>6, <3>1
      <4> HIDE DEF saved
      <4> QED BY <1>0, <1>3, <4>1
    <3>2. CASE ~ saved
      <4>1. file' = file
        BY <2>5, <3>2
      <4>2. written[p][u] = file[p][u]
        BY <1>2, <1>3, <1>d, <1>e, <2>3, <3>2 DEF Saved
      <4> QED BY <4>1, <4>2
    <3> QED BY <3>1, <3>2
  <2>8. \A i \in Slots : e.status # "SWAP" \/ i # e.swap_id => swap_map'[i] = swap_map[i]
    BY <1>0, <2>5
  <2>9. /\ spte'[p][u].status = "NONE"
        /\ \A v \in UPages : v # u => spte'[p][v] = spte[p][v]
    BY <1>3, <2>2 DEF NoSpte
  <2>10. Saved(p, u)' /\ Held(p, u)'
    <3>1. Saved(p, u)'
      BY <1>3, <1>4, <2>4, <2>7, <2>9 DEF Saved
    <3> QED BY <1>3, <1>4, <2>4, <2>9, <3>1 DEF Held
  <2>11. ASSUME NEW v \in UPages, v # u
         PROVE  Saved(p, v)' /\ Held(p, v)'
    <3>1. /\ Saved(p, v) /\ Held(p, v) /\ Version(p, v)' = Version(p, v) /\ spte'[p][v] = spte[p][v]
          /\ file'[p][v] = file[p][v]
      BY <1>2, <1>4, <2>7, <2>9, <2>11 DEF Version
    <3>2. spte[p][v].status = "SWAP" => ~ swap_map'[spte[p][v].swap_id]
      BY <1>2, <1>3, <1>e, <2>8, <2>11, <3>1 DEF Saved, Sole
    <3>3. Saved(p, v)'
      BY <1>4, <3>1, <3>2 DEF Saved
    <3>4. Held(p, v)'
      BY <1>0, <1>4, <3>1 DEF Held
    <3> QED BY <3>3, <3>4
  <2>12. Sole(p)'
    BY <1>2, <1>4, <2>9 DEF Sole
  <2>13. Unpooled'
    BY <1>2, <1>4 DEF Lives, Unpooled
  <2>14. ASSUME NEW m \in Nodes, In(m, frame_list')
         PROVE  Listed(p, m)'
    <3>1. Listed(p, m)
      BY <1>2, <1>4, <2>14 DEF Lives
    <3>2. spte[p][node[m].upage].status = "ON_FRAME" /\ spte[p][node[m].upage].kpage = node[m].kpage
      BY <1>1, <3>1 DEF Listed
    <3>3. node[m].upage # u
      BY <1>6, <1>e, <3>2
    <3> QED BY <1>4, <2>9, <3>1, <3>2, <3>3 DEF Listed
  <2> QED BY <2>2, <2>10, <2>11, <2>12, <2>13, <2>14 DEF OneOK, Lives, Homes, Ends
<1> QED BY <1>5, <1>6

LEMMA OneUnmapFrees ==
  ASSUME VMInv, NEW p \in Procs, OneOK(p), unmap_free(p)
  PROVE  panic' \/ OneOK(p)'
<1>0. /\ loc \in [Procs -> LocType] /\ loc[p] \in LocType /\ loc[p].pc = "unmap_free" /\ Lists
      /\ pte \in [Procs -> [UPages -> PteType]]
  BY LocTyped DEF unmap_free, at, VMInv, Types
<1>1. /\ loc[p].pc \notin Ends \cup Homes \cup Takes \cup {"evicting", "evicted", "free_victim", "fill"}
      /\ loc[p].pc \in Unmaps
  BY <1>0 DEF Ends, Homes, Takes, Unmaps
<1>2. /\ Lives(p) /\ Sole(p) /\ At(p)
      /\ \A v \in UPages : Saved(p, v) /\ Held(p, v)
  BY <1>1, AtLoc DEF OneOK, Lives
<1>3. CASE Panic
  BY <1>3 DEF Panic
<1>4. CASE ~ Panic
  <2>u. PICK u \in Mapped : u = page(p)
    BY <1>1, MmapNode
  <2>1. /\ u \in UPages /\ u \notin Stack /\ spte[p][u].status = "ON_FRAME" /\ written[p][u] = file[p][u]
        /\ loc[p].k = spte[p][u].kpage
    BY <1>0, <1>1, <1>2, <2>u, AtAPage, PageNames, VMAssumption DEF At
  <2>k. PICK k \in Frames \ free : k = loc[p].k /\ frame_map[k] # NULL /\ node[frame_map[k]].upage = u
    BY <1>2, <2>1 DEF Held
  <2>2. /\ forget(k) /\ free' = free \cup {k} /\ unmapped(p, <<frame_map[k]>> \o heap)
        /\ pte' = clear_page(pte, p, u)
        /\ UNCHANGED <<swap_map, swap, data, file, written>>
    BY <1>4, <2>k, <2>u DEF unmap_free, slots
  <2>3. /\ \A v \in UPages : spte'[p][v] = IF v = u THEN NoSpte ELSE spte[p][v]
        /\ At(p)' /\ loc'[p].pc \in Homes
    BY <1>1, <2>2, <2>u, Unmapped
  <2>4. /\ Unpooled'
        /\ \A j \in Frames : j # k /\ frame_map[j] # NULL =>
             frame_map'[j] = frame_map[j] /\ node'[frame_map[j]] = node[frame_map[j]]
        /\ \A m : In(m, frame_list') =>
             /\ m \in Nodes /\ In(m, frame_list) /\ m # frame_map[k] /\ node'[m] = node[m]
             /\ Listed(p, m) /\ node[m].kpage # k /\ frame_map'[node[m].kpage] = m
    BY <1>2, <2>2, <2>k, OthersKept
  <2>5. \A v \in UPages : v # u /\ spte[p][v].status = "ON_FRAME" => spte[p][v].kpage # k
    BY <1>2, <2>k, NodeOf
  <2>6. /\ spte'[p][u].status = "NONE"
        /\ \A v \in UPages : v # u => spte'[p][v] = spte[p][v]
    BY <2>1, <2>3 DEF NoSpte
  <2>7. /\ ~ pte'[p][u].present
        /\ \A v \in UPages : v # u => /\ pte'[p][v].present = pte[p][v].present /\ pte'[p][v].frame = pte[p][v].frame
                                      /\ pte'[p][v].dirty = pte[p][v].dirty
    <3>1. \A q \in Procs, v \in UPages :
            /\ clear_page(pte, p, u)[q][v].present = (pte[q][v].present /\ ~ (q = p /\ v = u))
            /\ clear_page(pte, p, u)[q][v].frame = pte[q][v].frame
            /\ clear_page(pte, p, u)[q][v].dirty = pte[q][v].dirty
      BY <1>0, ClearPage
    <3>2. \A v \in UPages :
            /\ pte'[p][v].present = (pte[p][v].present /\ v # u)
            /\ pte'[p][v].frame = pte[p][v].frame /\ pte'[p][v].dirty = pte[p][v].dirty
      BY <2>2, <3>1
    <3>3. \A v \in UPages : pte[p][v].present \in BOOLEAN
      <4>1. \A v \in UPages : pte[p][v] \in PteType
        BY <1>0
      <4> QED BY <4>1 DEF PteType
    <3> QED BY <2>1, <3>2, <3>3
  <2>8. Saved(p, u)' /\ Held(p, u)'
    <3>1. Saved(p, u)'
      BY <2>1, <2>2, <2>6, <2>7 DEF Saved
    <3> QED BY <2>1, <2>6, <2>7, <3>1 DEF Held
  <2>9. ASSUME NEW v \in UPages, v # u
        PROVE  Saved(p, v)' /\ Held(p, v)'
    <3>1. /\ Saved(p, v) /\ Held(p, v) /\ Version(p, v)' = Version(p, v) /\ spte'[p][v] = spte[p][v]
          /\ pte'[p][v].present = pte[p][v].present /\ pte'[p][v].frame = pte[p][v].frame
          /\ pte'[p][v].dirty = pte[p][v].dirty
      BY <1>2, <2>2, <2>6, <2>7, <2>9 DEF Version
    <3>2. pte[p][v].present => pte[p][v].frame # k
      BY <1>0, <2>5, <2>9, <3>1 DEF Held
    <3>3. Saved(p, v)'
      BY <2>2, <3>1, <3>2 DEF Saved
    <3>4. spte[p][v].status = "ON_FRAME" =>
            /\ spte[p][v].kpage # k /\ frame_map'[spte[p][v].kpage] = frame_map[spte[p][v].kpage]
            /\ node'[frame_map[spte[p][v].kpage]] = node[frame_map[spte[p][v].kpage]]
      BY <2>4, <2>5, <2>9, <3>1 DEF Held
    <3>5. Held(p, v)'
      BY <1>0, <2>2, <3>1, <3>4 DEF Held
    <3> QED BY <3>3, <3>5
  <2>10. Sole(p)'
    BY <1>2, <2>6, <2>7 DEF Sole
  <2>11. ASSUME NEW m \in Nodes, In(m, frame_list')
         PROVE  Listed(p, m)'
    <3>1. /\ Listed(p, m) /\ node'[m] = node[m] /\ node[m].kpage # k /\ frame_map'[node[m].kpage] = m
      BY <2>4, <2>11
    <3>2. spte[p][node[m].upage].status = "ON_FRAME" /\ spte[p][node[m].upage].kpage = node[m].kpage
      BY <1>1, <3>1 DEF Listed
    <3>3. node[m].upage # u
      BY <2>1, <2>k, <3>1, <3>2
    <3> QED BY <2>2, <2>6, <3>1, <3>2, <3>3 DEF Listed
  <2> QED BY <2>3, <2>4, <2>8, <2>9, <2>10, <2>11 DEF OneOK, Lives, Homes, Ends
<1> QED BY <1>3, <1>4

-----------------------------------------------------------------------------
(* The end of the process *)

\* Only where the process is and what it has left matters now.
LEMMA EndSteps ==
  ASSUME VMInv, NEW p \in Procs, OneOK(p), loc'[p].pc \in Ends, \A u \in Mapped : spte[p][u].status = "NONE",
         UNCHANGED <<data, swap_map, swap, file, written>>,
         \A u \in UPages : spte'[p][u] = spte[p][u] \/ (u \notin Mapped /\ spte'[p][u].status = "NONE"),
         \/ UNCHANGED <<pte, free>>
         \/ \A u \in UPages : ~ pte'[p][u].present
  PROVE  OneOK(p)'
<1>0. Sole(p) /\ \A v \in UPages : Saved(p, v)
  BY DEF OneOK
<1>1. ASSUME NEW u \in UPages
      PROVE  Saved(p, u)'
  <2>1. Saved(p, u) /\ Version(p, u)' = Version(p, u)
    BY <1>0 DEF Version
  <2>2. CASE spte'[p][u] = spte[p][u]
    BY <2>1, <2>2 DEF Saved
  <2>3. CASE u \notin Mapped /\ spte'[p][u].status = "NONE"
    BY <2>1, <2>3 DEF Saved
  <2> QED BY <2>2, <2>3
<1>2. Sole(p)'
  BY <1>0 DEF Sole
<1>3. \A u \in Mapped : spte'[p][u].status = "NONE"
  BY PageNames
<1> QED BY <1>1, <1>2, <1>3 DEF OneOK

LEMMA OneEnds ==
  ASSUME VMInv, NEW p \in Procs, OneOK(p),
         (at(p, "exit") /\ exit(p)) \/ (\E u \in UPages : spte_destroy(p, u)) \/ destroy_free(p) \/ pagedir_destroy(p)
  PROVE  panic' \/ OneOK(p)'
<1> USE DEF at
<1>0. /\ loc \in [Procs -> LocType] /\ loc[p] \in LocType /\ Types
      /\ spte \in [Procs -> [UPages -> EntryType]] /\ pte \in [Procs -> [UPages -> PteType]]
      /\ {"destroy", "destroy_free", "dead"} \subseteq Pcs
  BY LocTyped DEF VMInv, Types, Pcs
<1>1. loc[p].pc \in Ends => \A u \in Mapped : spte[p][u].status = "NONE"
  BY DEF OneOK
<1>j. ASSUME NEW l \in Ends, NEW k \in Frames \cup {NULL}, jump(p, l) \/ jumpk(p, l, k)
      PROVE  loc'[p].pc = l
  <2>1. l \in Pcs
    BY DEF Ends, Pcs
  <2> DEFINE a == [loc[p] EXCEPT !.pc = l]
             b == [loc[p] EXCEPT !.pc = l, !.k = k]
  <2>2. Goes(p, a) \/ Goes(p, b)
    BY <1>0, <1>j, <2>1, Jumps
  <2>3. a.pc = l /\ b.pc = l
    BY <1>0 DEF LocType
  <2> HIDE DEF a, b
  <2>4. loc'[p] = a \/ loc'[p] = b
    BY <2>2 DEF Goes
  <2> QED BY <2>3, <2>4
<1>2. CASE at(p, "exit") /\ exit(p)
  <2>1. /\ mapped(p) = {} /\ jump(p, "destroy")
        /\ UNCHANGED <<free, swap_map, swap, data, spte, pte, file, written>>
    BY <1>2 DEF exit, slots, pages
  <2>2. \A u \in Mapped : spte[p][u].status = "NONE"
    BY <2>1 DEF mapped
  <2>3. loc'[p].pc \in Ends
    BY <1>j, <2>1, PageNames DEF Ends
  <2> QED BY <2>1, <2>2, <2>3, EndSteps
<1>3. ASSUME NEW u \in UPages, spte_destroy(p, u)
      PROVE  OneOK(p)'
  <2>1. /\ loc[p].pc \in Ends /\ Puts(spte', spte, p, u, NoSpte) /\ spte[p][u].status # "NONE"
        /\ UNCHANGED <<free, swap_map, swap, data, pte, file, written>>
    BY <1>3 DEF spte_destroy, slots, Puts, Ends
  <2>2. NoSpte \in EntryType /\ NoSpte.status = "NONE"
    BY DEF NoSpte, EntryType, Statuses
  <2>3. \A q \in Procs, v \in UPages : spte'[q][v] = IF q = p /\ v = u THEN NoSpte ELSE spte[q][v]
    BY <1>0, <2>1, <2>2, PutsEntry
  <2>4. u \notin Mapped
    BY <1>1, <2>1
  <2>5. \A v \in UPages : spte'[p][v] = spte[p][v] \/ (v \notin Mapped /\ spte'[p][v].status = "NONE")
    BY <2>2, <2>3, <2>4
  <2>6. loc'[p].pc \in Ends
    <3>1. spte[p][u].kpage \in Frames \cup {NULL}
      <4>1. spte[p][u] \in EntryType
        BY <1>0
      <4> QED BY <4>1 DEF EntryType
    <3> QED BY <1>3, <1>j, <2>1, <3>1 DEF spte_destroy, Ends
  <2> QED BY <1>1, <2>1, <2>5, <2>6, EndSteps
<1>4. CASE destroy_free(p) \/ pagedir_destroy(p)
  <2>1. CASE Panic
    BY <2>1 DEF Panic
  <2>2. CASE destroy_free(p) /\ ~ Panic
    <3>1. /\ loc[p].pc \in Ends /\ jump(p, "destroy")
          /\ UNCHANGED <<free, swap_map, swap, data, spte, pte, file, written>>
      BY <2>2 DEF destroy_free, frame_free, slots, pages, Ends
    <3>2. loc'[p].pc \in Ends
      BY <1>j, <3>1, PageNames DEF Ends
    <3> QED BY <1>1, <3>1, <3>2, EndSteps
  <2>3. CASE pagedir_destroy(p) /\ ~ Panic
    <3>1. /\ loc[p].pc \in Ends /\ home(p, "dead") /\ pte' = [pte EXCEPT ![p] = [u \in UPages |-> NoPte]]
          /\ UNCHANGED <<swap_map, swap, data, spte, file, written>>
      BY <2>3 DEF pagedir_destroy, slots, Ends
    <3>2. loc'[p].pc \in Ends
      <4>1. loc'[p] = Out(p, "dead")
        BY <1>0, <3>1, Home DEF Goes
      <4> QED BY <4>1 DEF Out, Ends
    <3>3. \A u \in UPages : pte'[p][u] = NoPte
      BY <1>0, <3>1
    <3>4. \A u \in UPages : ~ pte'[p][u].present
      BY <3>3 DEF NoPte
    <3> QED BY <1>1, <3>1, <3>2, <3>4, EndSteps
  <2> QED BY <1>4, <2>1, <2>2, <2>3
<1> QED BY <1>2, <1>3, <1>4

-----------------------------------------------------------------------------
(* The theorems about one process *)

LEMMA NoStepAfterPanic ==
  ASSUME NEW p \in Procs, Step(p)
  PROVE  ~ panic
<1> USE DEF at
<1>1. CASE load_page(p) \/ frame_allocate(p) \/ evict(p) \/ evicted(p) \/ read_kpage(p)
           \/ free_victim(p) \/ frame_allocated(p) \/ fill(p) \/ unpin(p)
  BY <1>1 DEF load_page, frame_allocate, evict, evicted, read_kpage, free_victim, frame_allocated, fill, unpin
<1>2. CASE sys_locked(p) \/ pin_page(p) \/ pinned(p) \/ transfer_violates(p) \/ unpin_page(p) \/ unpinned(p)
           \/ syscall_returns(p) \/ unmap_unpin(p) \/ spt_unmap(p) \/ write_back(p) \/ unmap_free(p)
  BY <1>2 DEF sys_locked, pin_page, pinned, transfer_violates, unpin_page, unpinned, syscall_returns, unmap_unpin,
              spt_unmap, write_back, unmap_free
<1>3. CASE exit(p) \/ destroy_free(p) \/ pagedir_destroy(p)
  BY <1>3 DEF exit, destroy_free, pagedir_destroy
<1>4. CASE (\E w \in BOOLEAN : transfer(p, w)) \/ (\E b \in Buffers : syscall(p, b))
  BY <1>4 DEF transfer, syscall
<1>5. CASE \E u \in UPages :
             \/ page_fault(p, u) \/ rights_violation(p, u)
             \/ munmap(p, u) \/ spte_destroy(p, u)
             \/ \E w \in BOOLEAN : access(p, u, w)
  BY <1>5 DEF page_fault, rights_violation, munmap, spte_destroy, access
<1> QED BY <1>1, <1>2, <1>3, <1>4, <1>5 DEF Step

LEMMA OneStep ==
  ASSUME \A p, q \in Procs : p = q
  PROVE  VMInv /\ OneInv /\ [Next]_vars => OneInv'
<1> SUFFICES ASSUME VMInv, OneInv, [Next]_vars PROVE OneInv'
  OBVIOUS
<1>1. CASE UNCHANGED vars
  <2>1. /\ UNCHANGED <<free, data, spte, pte, node, frame_list, frame_map>>
        /\ UNCHANGED <<swap_map, swap, file, loc, written, panic>>
    BY <1>1 DEF vars, table, slots, pages
  <2>2. CASE panic
    BY <2>1, <2>2 DEF OneInv
  <2>3. ASSUME ~ panic, NEW p \in Procs
        PROVE  OneOK(p)'
    <3>1. OneOK(p)
      BY <2>3 DEF OneInv
    <3>2. \A u \in UPages : Saved(p, u)'
      BY <2>1, <3>1 DEF OneOK, Saved, Version
    <3>3. Sole(p)'
      BY <2>1, <3>1 DEF OneOK, Sole
    <3>4. Lives(p) => Lives(p)'
      <4>1. At(p) => At(p)'
        BY <2>1 DEF At, entry, page
      <4>2. \A n \in Nodes : Listed(p, n) => Listed(p, n)'
        BY <2>1 DEF Listed
      <4>3. \A u \in UPages : Held(p, u) => Held(p, u)'
        BY <2>1 DEF Held, Version
      <4> QED BY <2>1, <4>1, <4>2, <4>3 DEF Lives, Unpooled
    <3> QED BY <2>1, <3>1, <3>2, <3>3, <3>4 DEF OneOK
  <2> QED BY <2>2, <2>3 DEF OneInv
<1>2. ASSUME NEW p \in Procs, Step(p)
      PROVE  OneInv'
  <2>0. OneOK(p)
    BY <1>2, NoStepAfterPanic DEF OneInv
  <2>1. panic' \/ OneOK(p)'
    <3>1. CASE \/ load_page(p) \/ sys_locked(p) \/ pin_page(p) \/ unpin_page(p)
               \/ unpinned(p) \/ syscall_returns(p) \/ transfer_violates(p)
               \/ \E u \in UPages : rights_violation(p, u) \/ munmap(p, u)
      BY <2>0, <3>1, OneMoves
    <3>2. CASE exit(p)
      BY <2>0, <3>2, OneMoves, OneEnds DEF exit
    <3>3. CASE unpin(p) \/ pinned(p) \/ unmap_unpin(p)
      BY <2>0, <3>3, OnePins
    <3>4. CASE \/ \E u \in UPages, w \in BOOLEAN : access(p, u, w)
               \/ \E b \in Buffers : syscall(p, b)
               \/ \E w \in BOOLEAN : transfer(p, w)
      BY <2>0, <3>4, OneUses
    <3>5. CASE \E u \in UPages : page_fault(p, u)
      BY <2>0, <3>5, OneFaults
    <3>6. CASE frame_allocate(p) \/ frame_allocated(p)
      BY <2>0, <3>6, OneAllocates
    <3>7. CASE fill(p) \/ evict(p) \/ evicted(p) \/ read_kpage(p) \/ free_victim(p)
      BY <2>0, <3>7, OneFills, OneEvicts, OneEvicted, OneReads, OneFreesVictim
    <3>8. CASE write_back(p) \/ spt_unmap(p) \/ unmap_free(p)
      BY <2>0, <3>8, OneWritesBack, OneUnmaps, OneUnmapFrees
    <3>9. CASE (\E u \in UPages : spte_destroy(p, u)) \/ destroy_free(p) \/ pagedir_destroy(p)
      BY <2>0, <3>9, OneEnds
    <3> QED BY <1>2, <3>1, <3>2, <3>3, <3>4, <3>5, <3>6, <3>7, <3>8, <3>9 DEF Step
  <2>2. \A q \in Procs : q = p
    BY <1>2
  <2> QED BY <2>1, <2>2 DEF OneInv
<1> QED BY <1>1, <1>2 DEF Next

LEMMA OneInvariant ==
  ASSUME \A p, q \in Procs : p = q
  PROVE  Spec => [](PageIntegrity /\ SlotsPrivate /\ FramesPrivate)
<1>1. VMInv /\ OneInv /\ [Next]_vars => OneInv'
  BY OneStep
<1>2. VMInv /\ OneInv => PageIntegrity /\ SlotsPrivate /\ FramesPrivate
  BY OneSays
<1> QED BY <1>1, <1>2, OneInit, VMInvariant, PTL DEF Spec

\* Of one process, the last version written to a page is where its entry says
\* the page is, through load_page, the clock, swap_write and swap_read, munmap
\* and process_exit (page.c, frame.c, swap.c).
THEOREM OnePageIntegrity ==
  ASSUME \A p, q \in Procs : p = q
  PROVE  Spec => []PageIntegrity
BY OneInvariant, PTL

\* Of one process, a slot that an entry names is in use, and named by no other entry.
THEOREM OneSlotsPrivate ==
  ASSUME \A p, q \in Procs : p = q
  PROVE  Spec => []SlotsPrivate
BY OneInvariant, PTL

\* Of one process, no two pages present are on one frame, and none is on a frame
\* that palloc_get_page gives out.
THEOREM OneFramesPrivate ==
  ASSUME \A p, q \in Procs : p = q
  PROVE  Spec => []FramesPrivate
BY OneInvariant, PTL

=============================================================================
