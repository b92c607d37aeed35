--------------------------- MODULE FileSysProofs ---------------------------
(***************************************************************************)
(* Theorems about FileSys for any number of files and processes, any disk  *)
(* and any sizes of a sector and of the index: the types; that every       *)
(* sector of a file is in use, is of that file alone and in one place of   *)
(* it; that while no call has failed no sector is lost; and that the calls *)
(* keep what FileStore promises of the bytes of files.                     *)
(*                                                                         *)
(* A file's index is taken as a function from its places (the inode, the   *)
(* blocks of the index, the sectors of its bytes) to sectors.  FSInv says  *)
(* that no sector is in two places; what is shown of register_sector, of   *)
(* one turn of inode_update_file_length and of all of them is how the      *)
(* places change.                                                          *)
(***************************************************************************)
EXTENDS FileSys, TLAPS, FiniteSetTheorems, WellFoundedInduction

-----------------------------------------------------------------------------
(* Types *)

IndexType == [0 .. IndirectEntries - 1 -> Sectors]
DataType  == [0 .. SectorSize - 1 -> {0, 1}]
InodeType == [length : Nat, direct : [0 .. DirectEntries - 1 -> Sectors], indirect : Sectors, double : Sectors]
DiskType  == [used : SUBSET Sectors, inode : [Sectors -> InodeType], index : [Sectors -> IndexType],
              data : [Sectors -> DataType]]
GrowingType == [fs : DiskType, di : InodeType, ok : BOOLEAN]

-----------------------------------------------------------------------------
(* Arithmetic of the index *)

\* The sectors the index of a file has room for.
Room == DirectEntries + IndirectEntries * (IndirectEntries + 1)

LEMMA Counts ==
  /\ LastSector \in Nat /\ LastSector > 1
  /\ SectorSize \in Nat /\ SectorSize > 0
  /\ DirectEntries \in Nat /\ DirectEntries > 0
  /\ IndirectEntries \in Nat /\ IndirectEntries > 0
  /\ 0 \in Sectors /\ Sectors \subseteq Nat
BY FileSysAssumption DEF Sectors

LEMMA LeastNat ==
  ASSUME NEW S, S \subseteq Nat, S # {}
  PROVE  \E m \in S : \A t \in S : m <= t
<1> DEFINE R == {x \in Nat \X Nat : x[1] < x[2]}
<1>1. IsWellFoundedOn(R, Nat)
  BY NatLessThanWellFounded DEF OpToRel
<1>2. PICK m \in S : \A t \in S : <<t, m>> \notin R
  <2> HIDE DEF R
  <2> QED BY <1>1, WFMin
<1>3. ASSUME NEW t \in S
      PROVE  m <= t
  <2>1. t \in Nat /\ m \in Nat /\ <<t, m>> \notin R
    BY <1>2
  <2>2. ~ (t < m)
    BY <2>1
  <2> QED BY <2>1, <2>2
<1> QED BY <1>3

LEMMA Divides ==
  ASSUME NEW a \in Nat, NEW b \in Nat, b > 0
  PROVE  /\ a \div b \in Nat /\ a % b \in 0 .. b - 1
         /\ a = b * (a \div b) + (a % b)
OBVIOUS

\* A quotient and a remainder tell a number.
LEMMA OneQuotient ==
  ASSUME NEW b \in Nat, b > 0, NEW q \in Nat, NEW r \in Nat, NEW m \in 0 .. b - 1, NEW n \in 0 .. b - 1,
         b * q + m = b * r + n
  PROVE  q = r /\ m = n
<1>1. ASSUME NEW x \in Nat, NEW y \in Nat, x < y
      PROVE  b * x + b <= b * y
  <2>1. PICK d \in Nat : y = x + 1 + d
    <3>1. y - x - 1 \in Nat /\ y = x + 1 + (y - x - 1)
      BY <1>1
    <3> QED BY <3>1
  <2>2. b * y = b * x + b + b * d
    BY <2>1
  <2>3. b * d >= 0
    OBVIOUS
  <2>4. b * x \in Nat /\ b * d \in Nat /\ b * y \in Nat
    OBVIOUS
  <2> QED BY <2>2, <2>3, <2>4
<1>2. b * q \in Nat /\ b * r \in Nat
  OBVIOUS
<1>3. CASE q < r
  <2>1. b * q + b <= b * r
    BY <1>1, <1>3
  <2> QED BY <2>1, <1>2
<1>4. CASE r < q
  <2>1. b * r + b <= b * q
    BY <1>1, <1>4
  <2> QED BY <2>1, <1>2
<1>5. CASE q = r
  BY <1>2, <1>5
<1> QED BY <1>3, <1>4, <1>5

\* Each sector number below Room is of one level, and has its own place there.
LEMMA Levels ==
  ASSUME NEW i \in 0 .. Room - 1
  PROVE  /\ isDirect(i) \/ isIndirect(i) \/ isDouble(i)
         /\ isDirect(i) => i \in 0 .. DirectEntries - 1 /\ ~ isIndirect(i) /\ ~ isDouble(i)
         /\ isIndirect(i) => /\ ~ isDirect(i) /\ ~ isDouble(i)
                             /\ index0(i) \in 0 .. IndirectEntries - 1 /\ i = DirectEntries + index0(i)
         /\ isDouble(i) => /\ ~ isDirect(i) /\ ~ isIndirect(i)
                           /\ index1(i) \in 0 .. IndirectEntries - 1 /\ index2(i) \in 0 .. IndirectEntries - 1
                           /\ i = DirectEntries + IndirectEntries + (IndirectEntries * index1(i) + index2(i))
<1> DEFINE D == DirectEntries
           E == IndirectEntries
           k == i - D - E
<1>1. D \in Nat /\ D > 0 /\ E \in Nat /\ E > 0
  BY Counts
<1>2. E * (E + 1) = E * E + E /\ E * E \in Nat
  BY <1>1
<1>3. i \in Nat /\ i < D + (E * E + E)
  BY <1>1, <1>2 DEF Room
<1>4. isDirect(i) \/ isIndirect(i) \/ isDouble(i)
  BY <1>1, <1>2, <1>3 DEF isDirect, isIndirect, isDouble
<1>5. isDouble(i) => /\ index1(i) \in 0 .. E - 1 /\ index2(i) \in 0 .. E - 1
                     /\ i = D + E + (E * index1(i) + index2(i))
  <2> SUFFICES ASSUME isDouble(i)
               PROVE  /\ index1(i) \in 0 .. E - 1 /\ index2(i) \in 0 .. E - 1
                      /\ i = D + E + (E * index1(i) + index2(i))
    OBVIOUS
  <2>1. k \in Nat /\ k < E * E
    BY <1>1, <1>2, <1>3 DEF isDirect, isIndirect, isDouble
  <2>2. /\ k \div E \in Nat /\ k % E \in 0 .. E - 1
        /\ k = E * (k \div E) + (k % E)
    BY <1>1, <2>1, Divides
  <2>3. index1(i) = k \div E /\ index2(i) = k % E
    BY DEF index1, index2
  <2> DEFINE q == k \div E
             r == k % E
  <2> HIDE DEF q, r
  <2>4. q \in Nat /\ r \in 0 .. E - 1 /\ k = E * q + r
    BY <2>2 DEF q, r
  <2>5. q < E
    <3>1. CASE q >= E
      <4>1. PICK d \in Nat : q = E + d
        <5>1. q - E \in Nat /\ q = E + (q - E)
          BY <1>1, <2>4, <3>1
        <5> QED BY <5>1
      <4>2. E * q = E * E + E * d /\ E * d \in Nat
        BY <1>1, <4>1
      <4> QED BY <1>1, <1>2, <2>1, <2>4, <4>2
    <3> QED BY <1>1, <2>4, <3>1
  <2>6. i = D + E + k
    BY <1>1, <1>3
  <2> HIDE DEF k
  <2>7. index1(i) = q /\ index2(i) = r
    BY <2>3 DEF q, r
  <2>8. q \in 0 .. E - 1
    BY <1>1, <2>4, <2>5
  <2> QED BY <2>4, <2>6, <2>7, <2>8
<1>6. isIndirect(i) => index0(i) \in 0 .. E - 1 /\ i = D + index0(i)
  BY <1>1, <1>3 DEF isDirect, isIndirect, index0
<1>7. isDirect(i) => i \in 0 .. D - 1
  BY <1>1, <1>3 DEF isDirect
<1> QED BY <1>4, <1>5, <1>6, <1>7 DEF isDirect, isIndirect, isDouble

LEMMA OnePlace ==
  ASSUME NEW i \in 0 .. Room - 1, NEW k \in 0 .. Room - 1
  PROVE  /\ isIndirect(i) /\ isIndirect(k) /\ index0(i) = index0(k) => i = k
         /\ isDouble(i) /\ isDouble(k) /\ index1(i) = index1(k) /\ index2(i) = index2(k) => i = k
BY Levels

\* Beyond Room there is no place.
LEMMA NoRoom ==
  ASSUME NEW i \in Nat, i >= Room
  PROVE  ~ isDirect(i) /\ ~ isIndirect(i) /\ ~ isDouble(i)
<1> DEFINE E == IndirectEntries
<1>1. DirectEntries \in Nat /\ E \in Nat /\ E * (E + 1) = E * E + E /\ E * E \in Nat
  BY Counts
<1>2. Room = DirectEntries + (E * E + E)
  BY <1>1 DEF Room
<1> QED BY <1>1, <1>2 DEF isDirect, isIndirect, isDouble

-----------------------------------------------------------------------------
(* The places of a file, and the sector in each                              *)

\* The sector an index block names, or none where there is no block.
via(f, block, j) == IF block = 0 THEN 0 ELSE f.index[block][j]

\* The sector number i of a file, as far as its index goes.
place(f, di, i) ==
  IF isDirect(i) THEN di.direct[i]
  ELSE IF isIndirect(i) THEN via(f, di.indirect, index0(i))
  ELSE via(f, via(f, di.double, index1(i)), index2(i))

Inode     == <<"inode", 0>>
Indirect  == <<"indirect", 0>>
Double    == <<"double", 0>>
Second(j) == <<"second", j>>
Data(i)   == <<"data", i>>

Blocks == {Indirect, Double} \cup {Second(j) : j \in 0 .. IndirectEntries - 1}
Roles  == {Inode} \cup Blocks \cup {Data(i) : i \in 0 .. Room - 1}

\* The sector in place r of the file whose inode di is in sector s.
ptr(f, di, s, r) ==
  CASE r[1] = "inode"    -> s
    [] r[1] = "indirect" -> di.indirect
    [] r[1] = "double"   -> di.double
    [] r[1] = "second"   -> via(f, di.double, r[2])
    [] r[1] = "data"     -> place(f, di, r[2])

LEMMA RoleIs ==
  ASSUME NEW r \in Roles
  PROVE  \/ r = Inode \/ r = Indirect \/ r = Double
         \/ \E j \in 0 .. IndirectEntries - 1 : r = Second(j)
         \/ \E i \in 0 .. Room - 1 : r = Data(i)
BY DEF Roles, Blocks

LEMMA RolesDiffer ==
  /\ Inode \in Roles /\ Indirect \in Roles /\ Double \in Roles
  /\ Inode # Indirect /\ Inode # Double /\ Indirect # Double
BY DEF Roles, Blocks, Inode, Indirect, Double

LEMMA RoleAt ==
  ASSUME NEW i
  PROVE  /\ Second(i) \notin {Inode, Indirect, Double} /\ Data(i) \notin {Inode, Indirect, Double}
         /\ i \in 0 .. IndirectEntries - 1 => Second(i) \in Roles
         /\ i \in 0 .. Room - 1 => Data(i) \in Roles
BY DEF Roles, Blocks, Inode, Indirect, Double, Second, Data

LEMMA RolesAt ==
  ASSUME NEW i, NEW j
  PROVE  /\ Data(i) # Second(j)
         /\ Data(i) = Data(j) => i = j
         /\ Second(i) = Second(j) => i = j
BY DEF Second, Data

LEMMA PtrOf ==
  ASSUME NEW f, NEW di, NEW s
  PROVE  /\ ptr(f, di, s, Inode) = s
         /\ ptr(f, di, s, Indirect) = di.indirect
         /\ ptr(f, di, s, Double) = di.double
BY DEF ptr, Inode, Indirect, Double

LEMMA PtrAt ==
  ASSUME NEW f, NEW di, NEW s, NEW i
  PROVE  /\ ptr(f, di, s, Second(i)) = via(f, di.double, i)
         /\ ptr(f, di, s, Data(i)) = place(f, di, i)
BY DEF ptr, Second, Data

LEMMA ViaTyped ==
  ASSUME NEW f \in DiskType, NEW b \in Sectors, NEW j \in 0 .. IndirectEntries - 1
  PROVE  via(f, b, j) \in Sectors
BY Counts DEF via, DiskType, IndexType

LEMMA PtrTyped ==
  ASSUME NEW f \in DiskType, NEW di \in InodeType, NEW s \in Sectors, NEW r \in Roles
  PROVE  ptr(f, di, s, r) \in Sectors
<1>1. \A b \in Sectors, j \in 0 .. IndirectEntries - 1 : via(f, b, j) \in Sectors
  BY ViaTyped
<1>2. di.indirect \in Sectors /\ di.double \in Sectors /\ \A i \in 0 .. DirectEntries - 1 : di.direct[i] \in Sectors
  BY DEF InodeType
<1>3. ASSUME NEW i \in 0 .. Room - 1
      PROVE  place(f, di, i) \in Sectors
  <2>1. CASE isDirect(i)
    BY <1>2, <2>1, Levels DEF place
  <2>2. CASE isIndirect(i)
    BY <1>1, <1>2, <2>2, Levels DEF place
  <2>3. CASE isDouble(i)
    <3>1. via(f, di.double, index1(i)) \in Sectors
      BY <1>1, <1>2, <2>3, Levels
    <3>2. place(f, di, i) = via(f, via(f, di.double, index1(i)), index2(i))
      BY <2>3, Levels DEF place
    <3>3. index2(i) \in 0 .. IndirectEntries - 1
      BY <2>3, Levels
    <3> QED BY <1>1, <3>1, <3>2, <3>3
  <2> QED BY <2>1, <2>2, <2>3, Levels
<1>4. CASE r \in {Inode, Indirect, Double}
  BY <1>2, <1>4, PtrOf
<1>5. ASSUME NEW j \in 0 .. IndirectEntries - 1, r = Second(j)
      PROVE  ptr(f, di, s, r) \in Sectors
  BY <1>1, <1>2, <1>5, PtrAt
<1>6. ASSUME NEW i \in 0 .. Room - 1, r = Data(i)
      PROVE  ptr(f, di, s, r) \in Sectors
  BY <1>3, <1>6, PtrAt
<1> QED BY <1>4, <1>5, <1>6, RoleIs

\* No sector is in two places, and those in a place are in use.
Private(f, I, F) ==
  \A s \in F, r \in Roles :
    LET x == ptr(f, I[s], s, r) IN
    x # 0 => /\ x \in f.used \ System
             /\ \A t \in F, q \in Roles : ptr(f, I[t], t, q) = x => t = s /\ q = r

-----------------------------------------------------------------------------
(* What register_sector does to the places of the file *)

\* The sectors in the places of one file, each in one place.
Apart(f, di, s) ==
  \A q, r \in Roles : ptr(f, di, s, q) # 0 /\ ptr(f, di, s, q) = ptr(f, di, s, r) => q = r

\* The blocks of a file, where it has them, are three sorts.
LEMMA BlocksApart ==
  ASSUME NEW f, NEW di, NEW s, Apart(f, di, s), NEW i \in 0 .. IndirectEntries - 1
  PROVE  /\ di.indirect # 0 => di.indirect # di.double /\ di.indirect # via(f, di.double, i)
         /\ di.double # 0 => di.double # via(f, di.double, i)
         /\ \A j \in 0 .. IndirectEntries - 1 :
              via(f, di.double, i) # 0 /\ via(f, di.double, i) = via(f, di.double, j) => i = j
<1>1. ptr(f, di, s, Indirect) = di.indirect /\ ptr(f, di, s, Double) = di.double
  BY PtrOf
<1>2. \A j \in 0 .. IndirectEntries - 1 : Second(j) \in Roles /\ ptr(f, di, s, Second(j)) = via(f, di.double, j)
  BY RoleAt, PtrAt
<1>3. Second(i) # Indirect /\ Second(i) # Double /\ Indirect # Double /\ Indirect \in Roles /\ Double \in Roles
  BY RolesDiffer, RoleAt
<1>4. \A j \in 0 .. IndirectEntries - 1 : Second(i) = Second(j) => i = j
  BY RolesAt
<1> QED BY <1>1, <1>2, <1>3, <1>4 DEF Apart

LEMMA ViaPut ==
  ASSUME NEW f \in DiskType, NEW h, NEW b \in Sectors, b # 0, NEW j \in 0 .. IndirectEntries - 1, NEW x \in Sectors,
         \A i \in 0 .. IndirectEntries - 1 : h.index[b][i] = IF i = j THEN x ELSE f.index[b][i]
  PROVE  \A i \in 0 .. IndirectEntries - 1 : via(h, b, i) = IF i = j THEN x ELSE via(f, b, i)
BY DEF via

\* The places of a file whose blocks are where they were, index by index.
LEMMA PlacesSame ==
  ASSUME NEW f, NEW di, NEW h, NEW ei, NEW s, NEW k \in 0 .. Room - 1, NEW x \in Sectors,
         ei.indirect = di.indirect /\ ei.double = di.double,
         \A i \in 0 .. IndirectEntries - 1 : via(h, di.double, i) = via(f, di.double, i),
         \A i \in 0 .. Room - 1 : place(h, ei, i) = IF i = k THEN x ELSE place(f, di, i),
         NEW q \in Roles
  PROVE  ptr(h, ei, s, q) = IF q = Data(k) THEN x ELSE ptr(f, di, s, q)
<1>1. CASE q \in {Inode, Indirect, Double}
  BY <1>1, PtrOf, RoleAt
<1>2. ASSUME NEW j \in 0 .. IndirectEntries - 1, q = Second(j)
      PROVE  ptr(h, ei, s, q) = IF q = Data(k) THEN x ELSE ptr(f, di, s, q)
  BY <1>2, PtrAt, RolesAt
<1>3. ASSUME NEW i \in 0 .. Room - 1, q = Data(i)
      PROVE  ptr(h, ei, s, q) = IF q = Data(k) THEN x ELSE ptr(f, di, s, q)
  BY <1>3, PtrAt, RolesAt
<1> QED BY <1>1, <1>2, <1>3, RoleIs

LEMMA PutDirect ==
  ASSUME NEW f, NEW di \in InodeType, NEW ei, NEW s, NEW x \in Sectors, NEW k \in 0 .. Room - 1, isDirect(k),
         ei.indirect = di.indirect, ei.double = di.double, ei.direct = [di.direct EXCEPT ![k] = x],
         NEW q \in Roles
  PROVE  ptr(f, ei, s, q) = IF q = Data(k) THEN x ELSE ptr(f, di, s, q)
<1>1. \A i \in 0 .. DirectEntries - 1 : ei.direct[i] = IF i = k THEN x ELSE di.direct[i]
  BY DEF InodeType
<1>2. ASSUME NEW i \in 0 .. Room - 1
      PROVE  place(f, ei, i) = IF i = k THEN x ELSE place(f, di, i)
  <2>1. CASE isDirect(i)
    BY <1>1, <2>1, Levels DEF place
  <2>2. CASE ~ isDirect(i)
    BY <1>1, <2>2, Levels DEF place
  <2> QED BY <2>1, <2>2
<1>3. \A i \in 0 .. IndirectEntries - 1 : via(f, di.double, i) = via(f, di.double, i)
  OBVIOUS
<1> QED BY <1>2, <1>3, PlacesSame

LEMMA PutIndirect ==
  ASSUME NEW f \in DiskType, NEW di \in InodeType, NEW h, NEW s, Apart(f, di, s),
         NEW x \in Sectors, NEW k \in 0 .. Room - 1, isIndirect(k), di.indirect # 0,
         \A c \in Sectors \ {di.indirect} : h.index[c] = f.index[c],
         \A i \in 0 .. IndirectEntries - 1 : h.index[di.indirect][i] = IF i = index0(k) THEN x ELSE f.index[di.indirect][i],
         NEW q \in Roles
  PROVE  ptr(h, di, s, q) = IF q = Data(k) THEN x ELSE ptr(f, di, s, q)
<1>0. di.indirect \in Sectors /\ di.double \in Sectors /\ index0(k) \in 0 .. IndirectEntries - 1
  BY Levels DEF InodeType
<1>1. /\ \A c \in Sectors : c # di.indirect => h.index[c] = f.index[c]
      /\ \A i \in 0 .. IndirectEntries - 1 : via(h, di.indirect, i) = IF i = index0(k) THEN x ELSE via(f, di.indirect, i)
  BY <1>0, ViaPut
<1>2. \A i \in 0 .. IndirectEntries - 1 : via(h, di.double, i) = via(f, di.double, i)
  BY <1>0, <1>1, BlocksApart DEF via
<1>3. ASSUME NEW i \in 0 .. Room - 1
      PROVE  place(h, di, i) = IF i = k THEN x ELSE place(f, di, i)
  <2>1. CASE isDirect(i)
    BY <2>1, Levels DEF place
  <2>2. CASE isIndirect(i)
    <3>1. index0(i) \in 0 .. IndirectEntries - 1 /\ (index0(i) = index0(k) => i = k) /\ ~ isDirect(i)
      BY <2>2, Levels, OnePlace
    <3> QED BY <1>1, <2>2, <3>1 DEF place
  <2>3. CASE isDouble(i)
    <3>1. /\ index1(i) \in 0 .. IndirectEntries - 1 /\ ~ isDirect(i) /\ ~ isIndirect(i) /\ i # k
      BY <2>3, Levels
    <3> DEFINE b == via(f, di.double, index1(i))
    <3>2. b \in Sectors
      BY <3>1, <1>0, ViaTyped
    <3>3. b # di.indirect
      BY <3>1, BlocksApart
    <3>4. via(h, b, index2(i)) = via(f, b, index2(i))
      BY <1>1, <3>2, <3>3 DEF via
    <3> QED BY <1>2, <3>1, <3>4 DEF place
  <2> QED BY <2>1, <2>2, <2>3, Levels
<1> QED BY <1>2, <1>3, PlacesSame

\* Wherever the blocks are, the places are told by them.
LEMMA PlacesBut ==
  ASSUME NEW f, NEW di, NEW h, NEW ei, NEW s, NEW k \in 0 .. Room - 1, NEW x \in Sectors, NEW N,
         Data(k) \in N,
         Indirect \notin N => ei.indirect = di.indirect,
         Double \notin N => ei.double = di.double,
         \A i \in 0 .. IndirectEntries - 1 : Second(i) \notin N => via(h, ei.double, i) = via(f, di.double, i),
         \A i \in 0 .. Room - 1 : place(h, ei, i) = IF i = k THEN x ELSE place(f, di, i),
         NEW q \in Roles
  PROVE  /\ q \notin N => ptr(h, ei, s, q) = ptr(f, di, s, q)
         /\ q = Data(k) => ptr(h, ei, s, q) = x
<1>1. CASE q \in {Inode, Indirect, Double}
  <2>1. q # Data(k) /\ (q # Inode => q \in Blocks)
    BY <1>1, RoleAt DEF Blocks
  <2> QED BY <1>1, <2>1, PtrOf
<1>2. ASSUME NEW j \in 0 .. IndirectEntries - 1, q = Second(j)
      PROVE  /\ q \notin N => ptr(h, ei, s, q) = ptr(f, di, s, q)
             /\ q # Data(k) /\ q \in Blocks
  BY <1>2, PtrAt, RolesAt DEF Blocks
<1>3. ASSUME NEW i \in 0 .. Room - 1, q = Data(i)
      PROVE  /\ q \notin N => ptr(h, ei, s, q) = ptr(f, di, s, q)
             /\ q = Data(k) => ptr(h, ei, s, q) = x
             /\ q # Data(k) => ptr(h, ei, s, q) = ptr(f, di, s, q)
  <2>1. ptr(h, ei, s, q) = place(h, ei, i) /\ ptr(f, di, s, q) = place(f, di, i)
    BY <1>3, PtrAt
  <2>2. Data(i) = Data(k) => i = k
    BY RolesAt
  <2> QED BY <1>3, <2>1, <2>2
<1> QED BY <1>1, <1>2, <1>3, RoleIs

LEMMA NewIndirect ==
  ASSUME NEW f \in DiskType, NEW di \in InodeType, NEW h, NEW ei, NEW s, Apart(f, di, s),
         NEW x \in Sectors, NEW k \in 0 .. Room - 1, isIndirect(k), di.indirect = 0,
         NEW y \in Sectors, y # 0, \A r \in Roles : ptr(f, di, s, r) # y,
         ei.indirect = y, ei.double = di.double, ei.direct = di.direct,
         \A c \in Sectors \ {y} : h.index[c] = f.index[c],
         h.index[y] = [NoPointers EXCEPT ![index0(k)] = x],
         NEW q \in Roles
  PROVE  /\ q \notin {Indirect, Data(k)} => ptr(h, ei, s, q) = ptr(f, di, s, q)
         /\ q = Data(k) => ptr(h, ei, s, q) = x
<1> DEFINE N == {Indirect, Data(k)}
<1>0. di.indirect \in Sectors /\ di.double \in Sectors /\ index0(k) \in 0 .. IndirectEntries - 1
  BY Levels DEF InodeType
<1>1. /\ \A c \in Sectors : c # y => h.index[c] = f.index[c]
      /\ h.index[y] = [NoPointers EXCEPT ![index0(k)] = x]
  OBVIOUS
<1>2. \A i \in 0 .. IndirectEntries - 1 : via(h, y, i) = IF i = index0(k) THEN x ELSE 0
  BY <1>1 DEF via, NoPointers
<1>3. di.double # y /\ \A i \in 0 .. IndirectEntries - 1 : via(f, di.double, i) # y
  <2>1. di.double # y
    BY RolesDiffer, PtrOf
  <2>2. ASSUME NEW i \in 0 .. IndirectEntries - 1 PROVE via(f, di.double, i) # y
    BY RoleAt, PtrAt
  <2> QED BY <2>1, <2>2
<1>4. \A i \in 0 .. IndirectEntries - 1 : via(h, di.double, i) = via(f, di.double, i)
  BY <1>0, <1>1, <1>3 DEF via
<1>5. ASSUME NEW i \in 0 .. Room - 1
      PROVE  place(h, ei, i) = IF i = k THEN x ELSE place(f, di, i)
  <2>1. CASE isDirect(i)
    BY <2>1, Levels DEF place
  <2>2. CASE isIndirect(i)
    <3>1. index0(i) \in 0 .. IndirectEntries - 1 /\ (index0(i) = index0(k) => i = k) /\ ~ isDirect(i)
      BY <2>2, Levels, OnePlace
    <3>2. via(f, di.indirect, index0(i)) = 0
      BY DEF via
    <3> QED BY <1>2, <2>2, <3>1, <3>2 DEF place
  <2>3. CASE isDouble(i)
    <3>1. /\ index1(i) \in 0 .. IndirectEntries - 1 /\ ~ isDirect(i) /\ ~ isIndirect(i) /\ i # k
      BY <2>3, Levels
    <3> DEFINE b == via(f, di.double, index1(i))
    <3>2. b \in Sectors /\ b # y
      BY <3>1, <1>0, <1>3, ViaTyped
    <3>3. via(h, b, index2(i)) = via(f, b, index2(i))
      BY <1>1, <3>2 DEF via
    <3> QED BY <1>4, <3>1, <3>3 DEF place
  <2> QED BY <2>1, <2>2, <2>3, Levels
<1>6. Data(k) \in N /\ Indirect \in N
  OBVIOUS
<1>7. \A i \in 0 .. IndirectEntries - 1 : via(h, ei.double, i) = via(f, di.double, i)
  BY <1>4
<1> HIDE DEF N
<1>8. (q \notin N => ptr(h, ei, s, q) = ptr(f, di, s, q)) /\ (q = Data(k) => ptr(h, ei, s, q) = x)
  BY <1>5, <1>6, <1>7, PlacesBut
<1> QED BY <1>8 DEF N

LEMMA PutSecond ==
  ASSUME NEW f \in DiskType, NEW di \in InodeType, NEW h, NEW s, Apart(f, di, s),
         NEW x \in Sectors, NEW k \in 0 .. Room - 1, isDouble(k),
         NEW b \in Sectors, b # 0, b = via(f, di.double, index1(k)), di.double # 0,
         \A c \in Sectors \ {b} : h.index[c] = f.index[c],
         \A i \in 0 .. IndirectEntries - 1 : h.index[b][i] = IF i = index2(k) THEN x ELSE f.index[b][i],
         NEW q \in Roles
  PROVE  ptr(h, di, s, q) = IF q = Data(k) THEN x ELSE ptr(f, di, s, q)
<1>0. /\ di.indirect \in Sectors /\ di.double \in Sectors
      /\ index1(k) \in 0 .. IndirectEntries - 1 /\ index2(k) \in 0 .. IndirectEntries - 1
  BY Levels DEF InodeType
<1>1. /\ \A c \in Sectors : c # b => h.index[c] = f.index[c]
      /\ \A i \in 0 .. IndirectEntries - 1 : via(h, b, i) = IF i = index2(k) THEN x ELSE via(f, b, i)
  BY <1>0, ViaPut
<1>2. di.double # b /\ di.indirect # b
  BY <1>0, BlocksApart
<1>3. /\ \A i \in 0 .. IndirectEntries - 1 : via(h, di.double, i) = via(f, di.double, i)
      /\ \A i \in 0 .. IndirectEntries - 1 : via(h, di.indirect, i) = via(f, di.indirect, i)
  BY <1>0, <1>1, <1>2 DEF via
<1>4. ASSUME NEW i \in 0 .. Room - 1
      PROVE  place(h, di, i) = IF i = k THEN x ELSE place(f, di, i)
  <2>1. CASE isDirect(i)
    BY <2>1, Levels DEF place
  <2>2. CASE isIndirect(i)
    BY <1>3, <2>2, Levels DEF place
  <2>3. CASE isDouble(i)
    <3>1. /\ index1(i) \in 0 .. IndirectEntries - 1 /\ index2(i) \in 0 .. IndirectEntries - 1
          /\ ~ isDirect(i) /\ ~ isIndirect(i)
      BY <2>3, Levels
    <3>2. index1(i) = index1(k) /\ index2(i) = index2(k) => i = k
      BY <2>3, OnePlace
    <3> DEFINE c == via(f, di.double, index1(i))
    <3>3. c \in Sectors
      BY <3>1, <1>0, ViaTyped
    <3>4. place(h, di, i) = via(h, c, index2(i)) /\ place(f, di, i) = via(f, c, index2(i))
      BY <1>3, <3>1 DEF place
    <3>5. CASE index1(i) = index1(k)
      <4>1. c = b
        BY <3>5
      <4>2. index2(i) = index2(k) <=> i = k
        BY <3>2, <3>5
      <4> QED BY <1>1, <3>1, <3>4, <4>1, <4>2
    <3>6. CASE index1(i) # index1(k)
      <4>1. c # b
        BY <1>0, <3>1, <3>6, BlocksApart
      <4>2. via(h, c, index2(i)) = via(f, c, index2(i))
        BY <1>1, <3>3, <4>1 DEF via
      <4> QED BY <3>4, <3>6, <4>2
    <3> QED BY <3>5, <3>6
  <2> QED BY <2>1, <2>2, <2>3, Levels
<1> QED BY <1>3, <1>4, PlacesSame

\* A new second-level block y.
LEMMA NewSecond ==
  ASSUME NEW f \in DiskType, NEW di \in InodeType, NEW h, NEW s, Apart(f, di, s),
         NEW x \in Sectors, NEW k \in 0 .. Room - 1, isDouble(k), via(f, di.double, index1(k)) = 0,
         NEW y \in Sectors, y # 0, \A r \in Roles : ptr(f, di, s, r) # y,
         di.double # 0,
         \A c \in Sectors \ {y, di.double} : h.index[c] = f.index[c],
         h.index[y] = [NoPointers EXCEPT ![index2(k)] = x],
         \A i \in 0 .. IndirectEntries - 1 : h.index[di.double][i] = IF i = index1(k) THEN y ELSE f.index[di.double][i],
         NEW q \in Roles
  PROVE  /\ q \notin {Second(index1(k)), Data(k)} => ptr(h, di, s, q) = ptr(f, di, s, q)
         /\ q = Data(k) => ptr(h, di, s, q) = x
<1> DEFINE N == {Second(index1(k)), Data(k)}
<1>0. /\ di.indirect \in Sectors /\ di.double \in Sectors
      /\ index1(k) \in 0 .. IndirectEntries - 1 /\ index2(k) \in 0 .. IndirectEntries - 1
  BY Levels DEF InodeType
<1>1. \A i \in 0 .. IndirectEntries - 1 : via(h, y, i) = IF i = index2(k) THEN x ELSE 0
  BY DEF via, NoPointers
<1>2. \A i \in 0 .. IndirectEntries - 1 : via(h, di.double, i) = IF i = index1(k) THEN y ELSE via(f, di.double, i)
  BY DEF via
<1>3. di.indirect # 0 => di.indirect # y /\ di.indirect # di.double
  BY <1>0, RolesDiffer, PtrOf, BlocksApart
<1>4. ASSUME NEW i \in 0 .. IndirectEntries - 1
      PROVE  via(f, di.double, i) # y /\ via(f, di.double, i) # di.double
  <2>1. via(f, di.double, i) # y
    BY RoleAt, PtrAt
  <2> QED BY <1>0, <2>1, BlocksApart
<1>5. \A i \in 0 .. IndirectEntries - 1 : via(h, di.indirect, i) = via(f, di.indirect, i)
  BY <1>0, <1>3 DEF via
<1>6. ASSUME NEW i \in 0 .. Room - 1
      PROVE  place(h, di, i) = IF i = k THEN x ELSE place(f, di, i)
  <2>1. CASE isDirect(i)
    BY <2>1, Levels DEF place
  <2>2. CASE isIndirect(i)
    BY <1>5, <2>2, Levels DEF place
  <2>3. CASE isDouble(i)
    <3>1. /\ index1(i) \in 0 .. IndirectEntries - 1 /\ index2(i) \in 0 .. IndirectEntries - 1
          /\ ~ isDirect(i) /\ ~ isIndirect(i)
      BY <2>3, Levels
    <3>2. index1(i) = index1(k) /\ index2(i) = index2(k) => i = k
      BY <2>3, OnePlace
    <3> DEFINE c == via(f, di.double, index1(i))
               d == via(h, di.double, index1(i))
    <3>3. c \in Sectors /\ c # y /\ c # di.double
      BY <3>1, <1>0, <1>4, ViaTyped
    <3>4. place(h, di, i) = via(h, d, index2(i)) /\ place(f, di, i) = via(f, c, index2(i))
      BY <3>1 DEF place
    <3>5. CASE index1(i) = index1(k)
      <4>1. d = y /\ c = 0
        BY <1>2, <3>1, <3>5
      <4>2. index2(i) = index2(k) <=> i = k
        BY <3>2, <3>5
      <4>3. via(f, c, index2(i)) = 0
        BY <4>1 DEF via
      <4>4. via(h, d, index2(i)) = IF i = k THEN x ELSE 0
        BY <1>1, <3>1, <4>1, <4>2
      <4> QED BY <3>4, <4>3, <4>4
    <3>6. CASE index1(i) # index1(k)
      <4>1. d = c
        BY <1>2, <3>1, <3>6
      <4>2. via(h, c, index2(i)) = via(f, c, index2(i))
        BY <3>3 DEF via
      <4> QED BY <3>4, <3>6, <4>1, <4>2
    <3> QED BY <3>5, <3>6
  <2> QED BY <2>1, <2>2, <2>3, Levels
<1>7. Data(k) \in N
  OBVIOUS
<1>8. \A i \in 0 .. IndirectEntries - 1 : Second(i) \notin N => via(h, di.double, i) = via(f, di.double, i)
  BY <1>2
<1> HIDE DEF N
<1>9. (q \notin N => ptr(h, di, s, q) = ptr(f, di, s, q)) /\ (q = Data(k) => ptr(h, di, s, q) = x)
  BY <1>6, <1>7, <1>8, PlacesBut
<1> QED BY <1>9 DEF N

\* A new doubly indirect block with nothing in it.
LEMMA NewDouble ==
  ASSUME NEW f \in DiskType, NEW di \in InodeType, NEW h, NEW ei, NEW s,
         di.double = 0,
         NEW e \in Sectors, e # 0, \A r \in Roles : ptr(f, di, s, r) # e,
         ei.indirect = di.indirect, ei.double = e, ei.direct = di.direct,
         h.index[e] = NoPointers, \A c \in Sectors \ {e} : h.index[c] = f.index[c],
         NEW q \in Roles, q # Double
  PROVE  ptr(h, ei, s, q) = ptr(f, di, s, q)
<1>1. di.indirect \in Sectors /\ h.index[e] = NoPointers /\ \A c \in Sectors : c # e => h.index[c] = f.index[c]
  BY DEF InodeType
<1>2. di.indirect # e
  BY RolesDiffer, PtrOf
<1>3. \A i \in 0 .. IndirectEntries - 1 : via(h, e, i) = 0 /\ via(f, di.double, i) = 0
  BY <1>1 DEF via, NoPointers
<1>4. \A i \in 0 .. IndirectEntries - 1 : via(h, di.indirect, i) = via(f, di.indirect, i)
  BY <1>1, <1>2 DEF via
<1>5. CASE q \in {Inode, Indirect}
  BY <1>5, PtrOf
<1>6. ASSUME NEW j \in 0 .. IndirectEntries - 1, q = Second(j)
      PROVE  ptr(h, ei, s, q) = ptr(f, di, s, q)
  BY <1>3, <1>6, PtrAt
<1>7. ASSUME NEW i \in 0 .. Room - 1, q = Data(i)
      PROVE  ptr(h, ei, s, q) = ptr(f, di, s, q)
  <2>1. CASE isDirect(i)
    BY <2>1, <1>7, PtrAt DEF place
  <2>2. CASE isIndirect(i)
    <3>1. place(h, ei, i) = place(f, di, i)
      BY <1>4, <2>2, Levels DEF place
    <3> QED BY <3>1, <1>7, PtrAt
  <2>3. CASE isDouble(i)
    <3>1. index1(i) \in 0 .. IndirectEntries - 1 /\ ~ isDirect(i) /\ ~ isIndirect(i)
      BY <2>3, Levels
    <3>2. via(h, ei.double, index1(i)) = 0 /\ via(f, di.double, index1(i)) = 0
      BY <1>3, <3>1
    <3>3. place(h, ei, i) = via(h, 0, index2(i)) /\ place(f, di, i) = via(f, 0, index2(i))
      BY <3>1, <3>2 DEF place
    <3>4. place(h, ei, i) = place(f, di, i)
      BY <3>3 DEF via
    <3> QED BY <3>4, <1>7, PtrAt
  <2> QED BY <2>1, <2>2, <2>3, Levels
<1> QED BY <1>5, <1>6, <1>7, RoleIs

-----------------------------------------------------------------------------
(* The free map *)

LEMMA FirstFree ==
  ASSUME NEW f \in DiskType, available(f) # {}
  PROVE  first_free(f) \in Sectors \ f.used
<1>1. available(f) \subseteq Nat
  BY DEF available, Sectors
<1>2. PICK m \in available(f) : \A t \in available(f) : m <= t
  BY <1>1, LeastNat
<1>3. first_free(f) \in available(f)
  BY <1>2 DEF first_free
<1> QED BY <1>3 DEF available

LEMMA Allocates ==
  ASSUME NEW f \in DiskType, available(f) # {}
  PROVE  /\ allocate(f) \in DiskType
         /\ allocate(f).used = f.used \cup {first_free(f)}
         /\ allocate(f).inode = f.inode /\ allocate(f).index = f.index /\ allocate(f).data = f.data
BY FirstFree DEF allocate, DiskType

LEMMA Releases ==
  ASSUME NEW f \in DiskType, NEW ss
  PROVE  /\ release(f, ss) \in DiskType
         /\ release(f, ss).used = f.used \ ss
         /\ release(f, ss).inode = f.inode /\ release(f, ss).index = f.index /\ release(f, ss).data = f.data
BY DEF release, DiskType

LEMMA NewBlock ==
  ASSUME NEW f \in DiskType, available(f) # {}, NEW b \in IndexType
  PROVE  /\ new_block(f, b) \in DiskType
         /\ new_block(f, b).used = f.used \cup {first_free(f)}
         /\ new_block(f, b).inode = f.inode /\ new_block(f, b).data = f.data
         /\ new_block(f, b).index[first_free(f)] = b
         /\ \A c \in Sectors \ {first_free(f)} : new_block(f, b).index[c] = f.index[c]
BY FirstFree, Allocates DEF new_block, DiskType

-----------------------------------------------------------------------------
(* register_sector, as seen from the places of the file *)

\* r is g with sector x in place Data(k), if it went well; whatever else is new is a
\* block of the file that was not there, in a sector that was free.
Registers(g, r, s, k, x) ==
  /\ r \in GrowingType
  /\ r.fs.inode = g.fs.inode /\ r.fs.data = g.fs.data /\ g.fs.used \subseteq r.fs.used
  /\ r.di.length = g.di.length
  /\ \A j \in 0 .. DirectEntries - 1 : j # k => r.di.direct[j] = g.di.direct[j]
  /\ r.di.indirect = g.di.indirect \/ isIndirect(k)
  /\ r.di.double = g.di.double \/ isDouble(k)
  /\ \A c \in g.fs.used : (\A q \in Blocks : ptr(g.fs, g.di, s, q) # c) => r.fs.index[c] = g.fs.index[c]
  /\ \A q \in Roles : q # Data(k) =>
       \/ ptr(r.fs, r.di, s, q) = ptr(g.fs, g.di, s, q)
       \/ /\ q \in Blocks /\ ptr(g.fs, g.di, s, q) = 0
          /\ ptr(r.fs, r.di, s, q) \in r.fs.used \ g.fs.used
          /\ \A p \in Roles : ptr(r.fs, r.di, s, p) = ptr(r.fs, r.di, s, q) => p = q
  /\ k \in 0 .. Room - 1 => ptr(r.fs, r.di, s, Data(k)) = IF r.ok THEN x ELSE ptr(g.fs, g.di, s, Data(k))
  /\ r.ok => /\ k \in 0 .. Room - 1
             /\ \A y \in r.fs.used \ g.fs.used : \E q \in Roles : ptr(r.fs, r.di, s, q) = y

\* What it starts from: x is in use, and in no place of the file.
Registering(g, s, x) ==
  /\ g \in GrowingType /\ g.ok
  /\ s \in Sectors /\ x \in g.fs.used /\ 0 \in g.fs.used
  /\ Apart(g.fs, g.di, s)
  /\ \A q \in Roles : ptr(g.fs, g.di, s, q) \in g.fs.used \ {x}

LEMMA RegistersNothing ==
  ASSUME NEW g, NEW s, NEW k, NEW x, Registering(g, s, x)
  PROVE  Registers(g, [g EXCEPT !.ok = FALSE], s, k, x)
BY DEF Registering, Registers, GrowingType

LEMMA RegistersDirect ==
  ASSUME NEW g, NEW s, NEW x, Registering(g, s, x), NEW k \in 0 .. Room - 1, isDirect(k)
  PROVE  Registers(g, register_direct(g, k, x), s, k, x)
<1> DEFINE r == register_direct(g, k, x)
<1>0. g \in GrowingType /\ g.ok /\ x \in Sectors /\ k \in 0 .. DirectEntries - 1 /\ g.di \in InodeType
  BY Levels DEF Registering, GrowingType, DiskType
<1>1. /\ r \in GrowingType /\ r.fs = g.fs /\ r.ok = g.ok /\ r.di.length = g.di.length
      /\ r.di.indirect = g.di.indirect /\ r.di.double = g.di.double /\ r.di.direct = [g.di.direct EXCEPT ![k] = x]
  BY <1>0 DEF register_direct, GrowingType, InodeType
<1>2. \A j \in 0 .. DirectEntries - 1 : j # k => r.di.direct[j] = g.di.direct[j]
  BY <1>0, <1>1 DEF InodeType
<1> HIDE DEF r
<1>3. \A q \in Roles : ptr(g.fs, r.di, s, q) = IF q = Data(k) THEN x ELSE ptr(g.fs, g.di, s, q)
  BY <1>0, <1>1, PutDirect
<1>4. Data(k) \in Roles
  BY RoleAt
<1>5. Registers(g, r, s, k, x)
  BY <1>0, <1>1, <1>2, <1>3, <1>4 DEF Registers
<1> QED BY <1>5 DEF r

LEMMA RegistersIndirect ==
  ASSUME NEW g, NEW s, NEW x, Registering(g, s, x), NEW k \in 0 .. Room - 1, isIndirect(k)
  PROVE  Registers(g, register_indirect(g, k, x), s, k, x)
<1> DEFINE r == register_indirect(g, k, x)
           y == first_free(g.fs)
           b == [NoPointers EXCEPT ![index0(k)] = x]
<1>0. /\ g \in GrowingType /\ g.ok = TRUE /\ x \in Sectors /\ x \in g.fs.used /\ 0 \in g.fs.used
      /\ g.di \in InodeType /\ g.fs \in DiskType
      /\ index0(k) \in 0 .. IndirectEntries - 1 /\ ~ isDirect(k)
  BY Levels DEF Registering, GrowingType, DiskType
<1>1. /\ \A q \in Roles : ptr(g.fs, g.di, s, q) \in g.fs.used /\ ptr(g.fs, g.di, s, q) # x
      /\ Apart(g.fs, g.di, s)
  BY DEF Registering
<1>2. Data(k) \in Roles /\ Indirect \in Roles /\ Indirect \in Blocks /\ Data(k) # Indirect
  BY RoleAt, RolesDiffer DEF Blocks
<1>3. CASE g.di.indirect # 0
  <2>1. r = [g EXCEPT !.fs.index[g.di.indirect][index0(k)] = x]
    BY <1>3 DEF register_indirect
  <2>2. g.di.indirect \in Sectors /\ ptr(g.fs, g.di, s, Indirect) = g.di.indirect
    BY <1>0, PtrOf DEF InodeType
  <2>3. /\ r \in GrowingType /\ r.di = g.di /\ r.ok = g.ok /\ r.fs.used = g.fs.used
        /\ r.fs.inode = g.fs.inode /\ r.fs.data = g.fs.data
        /\ \A c \in Sectors \ {g.di.indirect} : r.fs.index[c] = g.fs.index[c]
        /\ \A i \in 0 .. IndirectEntries - 1 :
             r.fs.index[g.di.indirect][i] = IF i = index0(k) THEN x ELSE g.fs.index[g.di.indirect][i]
    <3> HIDE DEF r
    <3> QED BY <1>0, <2>1, <2>2 DEF GrowingType, DiskType, IndexType
  <2> HIDE DEF r
  <2>4. \A q \in Roles : ptr(r.fs, g.di, s, q) = IF q = Data(k) THEN x ELSE ptr(g.fs, g.di, s, q)
    <3> DEFINE f == g.fs
               h == r.fs
               di == g.di
    <3>1. /\ f \in DiskType /\ di \in InodeType /\ Apart(f, di, s) /\ di.indirect # 0
          /\ \A c \in Sectors \ {di.indirect} : h.index[c] = f.index[c]
          /\ \A i \in 0 .. IndirectEntries - 1 : h.index[di.indirect][i] = IF i = index0(k) THEN x ELSE f.index[di.indirect][i]
      BY <1>0, <1>1, <1>3, <2>3
    <3> HIDE DEF f, h, di
    <3>2. ASSUME NEW q \in Roles
          PROVE  ptr(h, di, s, q) = IF q = Data(k) THEN x ELSE ptr(f, di, s, q)
      <4>1. x \in Sectors /\ isIndirect(k)
        BY <1>0
      <4>2. di.indirect # 0
        BY <3>1
      <4>3. \A c \in Sectors \ {di.indirect} : h.index[c] = f.index[c]
        BY <3>1
      <4> QED BY <3>1, <4>1, <4>2, <4>3, PutIndirect
    <3> QED BY <3>2 DEF f, h, di
  <2>6. \A c \in g.fs.used : (\A q \in Blocks : ptr(g.fs, g.di, s, q) # c) => r.fs.index[c] = g.fs.index[c]
    BY <1>0, <1>2, <2>2, <2>3 DEF DiskType
  <2> QED BY <1>0, <1>2, <2>3, <2>4, <2>6 DEF Registers, r
<1>4. CASE g.di.indirect = 0 /\ available(g.fs) = {}
  <2>1. r = [g EXCEPT !.ok = FALSE]
    BY <1>4 DEF register_indirect
  <2> QED BY <2>1, RegistersNothing
<1>5. CASE g.di.indirect = 0 /\ available(g.fs) # {}
  <2>1. r = [g EXCEPT !.fs = new_block(g.fs, b), !.di.indirect = y]
    BY <1>5 DEF register_indirect
  <2>2. y \in Sectors \ g.fs.used /\ b \in IndexType
    BY <1>0, <1>5, FirstFree, Counts DEF NoPointers, IndexType
  <2>3. /\ new_block(g.fs, b) \in DiskType
        /\ new_block(g.fs, b).used = g.fs.used \cup {y}
        /\ new_block(g.fs, b).inode = g.fs.inode /\ new_block(g.fs, b).data = g.fs.data
        /\ new_block(g.fs, b).index[y] = b
        /\ \A c \in Sectors \ {y} : new_block(g.fs, b).index[c] = g.fs.index[c]
    <3> HIDE DEF b
    <3> QED BY <1>0, <1>5, <2>2, NewBlock
  <2>4. /\ r \in GrowingType /\ r.ok = g.ok /\ r.fs = new_block(g.fs, b)
        /\ r.di.length = g.di.length /\ r.di.direct = g.di.direct /\ r.di.double = g.di.double /\ r.di.indirect = y
    <3> HIDE DEF b, y, r
    <3> QED BY <1>0, <2>1, <2>2, <2>3 DEF GrowingType, InodeType
  <2>5. r.fs.index[y] = [NoPointers EXCEPT ![index0(k)] = x] /\ \A c \in Sectors \ {y} : r.fs.index[c] = g.fs.index[c]
    BY <2>3, <2>4
  <2> HIDE DEF r, y, b
  <2>6. y # 0 /\ \A q \in Roles : ptr(g.fs, g.di, s, q) # y
    BY <1>0, <1>1, <2>2
  <2>7. \A q \in Roles : /\ q \notin {Indirect, Data(k)} => ptr(r.fs, r.di, s, q) = ptr(g.fs, g.di, s, q)
                         /\ q = Data(k) => ptr(r.fs, r.di, s, q) = x
    <3> DEFINE f == g.fs
               h == r.fs
               di == g.di
               ei == r.di
    <3>1. /\ f \in DiskType /\ di \in InodeType /\ Apart(f, di, s) /\ di.indirect = 0
          /\ y \in Sectors /\ y # 0 /\ \A q \in Roles : ptr(f, di, s, q) # y
          /\ ei.indirect = y /\ ei.double = di.double /\ ei.direct = di.direct
          /\ \A c \in Sectors \ {y} : h.index[c] = f.index[c]
          /\ h.index[y] = [NoPointers EXCEPT ![index0(k)] = x]
      BY <1>0, <1>1, <1>5, <2>2, <2>4, <2>5, <2>6
    <3> HIDE DEF f, h, di, ei
    <3>2. \A q \in Roles : /\ q \notin {Indirect, Data(k)} => ptr(h, ei, s, q) = ptr(f, di, s, q)
                           /\ q = Data(k) => ptr(h, ei, s, q) = x
      BY <1>0, <3>1, NewIndirect
    <3> QED BY <3>2 DEF f, h, di, ei
  <2>8. ptr(r.fs, r.di, s, Indirect) = y /\ ptr(g.fs, g.di, s, Indirect) = 0
    BY <1>5, <2>4, PtrOf
  <2>9. \A c \in g.fs.used : r.fs.index[c] = g.fs.index[c]
    BY <1>0, <2>2, <2>5 DEF DiskType
  <2>10. \A p \in Roles : ptr(r.fs, r.di, s, p) = y => p = Indirect
    BY <1>0, <1>1, <2>2, <2>7
  <2>11. r.fs.used = g.fs.used \cup {y} /\ r.fs.inode = g.fs.inode /\ r.fs.data = g.fs.data
    BY <2>3, <2>4
  <2>12. Registers(g, r, s, k, x)
    BY <1>0, <1>2, <2>2, <2>4, <2>7, <2>8, <2>9, <2>10, <2>11 DEF Registers
  <2> QED BY <2>12 DEF r
<1> QED BY <1>3, <1>4, <1>5

LEMMA RegistersSecond ==
  ASSUME NEW g, NEW s, NEW x, Registering(g, s, x), NEW k \in 0 .. Room - 1, isDouble(k), g.di.double # 0
  PROVE  Registers(g, register_second(g, k, x), s, k, x)
<1> DEFINE r == register_second(g, k, x)
           y == first_free(g.fs)
           b == [NoPointers EXCEPT ![index2(k)] = x]
           e == g.di.double
           z == g.fs.index[e][index1(k)]
<1>0. /\ g \in GrowingType /\ g.ok = TRUE /\ x \in Sectors /\ x \in g.fs.used /\ 0 \in g.fs.used
      /\ g.di \in InodeType /\ g.fs \in DiskType /\ e \in Sectors
      /\ index1(k) \in 0 .. IndirectEntries - 1 /\ index2(k) \in 0 .. IndirectEntries - 1 /\ ~ isDirect(k)
  BY Levels DEF Registering, GrowingType, DiskType, InodeType
<1>1. /\ \A q \in Roles : ptr(g.fs, g.di, s, q) \in g.fs.used /\ ptr(g.fs, g.di, s, q) # x
      /\ Apart(g.fs, g.di, s)
  BY DEF Registering
<1>2. /\ Data(k) \in Roles /\ Data(k) # Double /\ Double \in Roles /\ Double \in Blocks
      /\ Second(index1(k)) \in Roles /\ Second(index1(k)) \in Blocks /\ Data(k) # Second(index1(k))
  BY <1>0, RoleAt, RolesAt, RolesDiffer DEF Blocks
<1>3. /\ z = via(g.fs, e, index1(k)) /\ z \in Sectors
      /\ ptr(g.fs, g.di, s, Second(index1(k))) = z /\ ptr(g.fs, g.di, s, Double) = e
  BY <1>0, PtrAt, PtrOf, ViaTyped DEF via
<1>4. CASE z # 0
  <2>1. r = [g EXCEPT !.fs.index[z][index2(k)] = x]
    BY <1>4 DEF register_second
  <2> HIDE DEF z
  <2>2. /\ r \in GrowingType /\ r.di = g.di /\ r.ok = g.ok /\ r.fs.used = g.fs.used
        /\ r.fs.inode = g.fs.inode /\ r.fs.data = g.fs.data
        /\ \A c \in Sectors \ {z} : r.fs.index[c] = g.fs.index[c]
        /\ \A i \in 0 .. IndirectEntries - 1 : r.fs.index[z][i] = IF i = index2(k) THEN x ELSE g.fs.index[z][i]
    <3> HIDE DEF r
    <3> QED BY <1>0, <1>3, <2>1 DEF GrowingType, DiskType, IndexType
  <2> HIDE DEF r
  <2>3. \A q \in Roles : ptr(r.fs, g.di, s, q) = IF q = Data(k) THEN x ELSE ptr(g.fs, g.di, s, q)
    <3> DEFINE f == g.fs
               h == r.fs
               di == g.di
    <3>1. /\ f \in DiskType /\ di \in InodeType /\ Apart(f, di, s) /\ di.double # 0
          /\ z \in Sectors /\ z # 0 /\ z = via(f, di.double, index1(k))
          /\ \A c \in Sectors \ {z} : h.index[c] = f.index[c]
          /\ \A i \in 0 .. IndirectEntries - 1 : h.index[z][i] = IF i = index2(k) THEN x ELSE f.index[z][i]
      BY <1>0, <1>1, <1>3, <1>4, <2>2
    <3> HIDE DEF f, h, di
    <3>2. ASSUME NEW q \in Roles
          PROVE  ptr(h, di, s, q) = IF q = Data(k) THEN x ELSE ptr(f, di, s, q)
      <4>1. x \in Sectors
        BY <1>0
      <4> QED BY <3>1, <4>1, PutSecond
    <3> QED BY <3>2 DEF f, h, di
  <2>4. \A c \in g.fs.used : (\A q \in Blocks : ptr(g.fs, g.di, s, q) # c) => r.fs.index[c] = g.fs.index[c]
    BY <1>0, <1>2, <1>3, <2>2 DEF DiskType
  <2>5. Registers(g, r, s, k, x)
    BY <1>0, <1>2, <2>2, <2>3, <2>4 DEF Registers
  <2> QED BY <2>5 DEF r
<1>5. CASE z = 0 /\ available(g.fs) = {}
  <2>1. r = [g EXCEPT !.ok = FALSE]
    BY <1>5 DEF register_second
  <2> QED BY <2>1, RegistersNothing
<1>6. CASE z = 0 /\ available(g.fs) # {}
  <2>1. r = [g EXCEPT !.fs = [new_block(g.fs, b) EXCEPT !.index[e][index1(k)] = y]]
    BY <1>6 DEF register_second
  <2>2. y \in Sectors \ g.fs.used /\ b \in IndexType
    BY <1>0, <1>6, FirstFree, Counts DEF NoPointers, IndexType
  <2>3. /\ new_block(g.fs, b) \in DiskType
        /\ new_block(g.fs, b).used = g.fs.used \cup {y}
        /\ new_block(g.fs, b).inode = g.fs.inode /\ new_block(g.fs, b).data = g.fs.data
        /\ new_block(g.fs, b).index[y] = b
        /\ \A c \in Sectors \ {y} : new_block(g.fs, b).index[c] = g.fs.index[c]
    <3> HIDE DEF b
    <3> QED BY <1>0, <1>6, <2>2, NewBlock
  <2>4. y # e
    BY <1>1, <1>2, <1>3, <2>2
  <2>5. /\ r \in GrowingType /\ r.ok = g.ok /\ r.di = g.di
        /\ r.fs.used = g.fs.used \cup {y} /\ r.fs.inode = g.fs.inode /\ r.fs.data = g.fs.data
        /\ r.fs.index[y] = b
        /\ \A c \in Sectors \ {y, e} : r.fs.index[c] = g.fs.index[c]
        /\ \A i \in 0 .. IndirectEntries - 1 : r.fs.index[e][i] = IF i = index1(k) THEN y ELSE g.fs.index[e][i]
    <3> DEFINE h == new_block(g.fs, b)
               h2 == [h EXCEPT !.index[e][index1(k)] = y]
    <3>1. h \in DiskType /\ h.index[e] = g.fs.index[e]
      BY <1>0, <2>3, <2>4
    <3> HIDE DEF h, b, y, e
    <3>2. /\ h2 \in DiskType /\ h2.used = h.used /\ h2.inode = h.inode /\ h2.data = h.data
          /\ \A c \in Sectors \ {e} : h2.index[c] = h.index[c]
          /\ \A i \in 0 .. IndirectEntries - 1 : h2.index[e][i] = IF i = index1(k) THEN y ELSE h.index[e][i]
      BY <1>0, <2>2, <3>1 DEF DiskType, IndexType
    <3>3. r = [g EXCEPT !.fs = h2]
      BY <2>1 DEF h
    <3> HIDE DEF h2, r
    <3>4. r \in GrowingType /\ r.ok = g.ok /\ r.di = g.di /\ r.fs = h2
      BY <1>0, <3>2, <3>3 DEF GrowingType
    <3> QED BY <2>2, <2>3, <2>4, <3>1, <3>2, <3>4 DEF h
  <2> HIDE DEF r, y, z
  <2>6. y # 0 /\ \A q \in Roles : ptr(g.fs, g.di, s, q) # y
    BY <1>0, <1>1, <2>2
  <2>7. \A q \in Roles : /\ q \notin {Second(index1(k)), Data(k)} => ptr(r.fs, r.di, s, q) = ptr(g.fs, g.di, s, q)
                         /\ q = Data(k) => ptr(r.fs, r.di, s, q) = x
    <3> DEFINE f == g.fs
               h == r.fs
               di == g.di
    <3>1. /\ f \in DiskType /\ di \in InodeType /\ Apart(f, di, s) /\ di.double # 0
          /\ via(f, di.double, index1(k)) = 0
          /\ y \in Sectors /\ y # 0 /\ \A q \in Roles : ptr(f, di, s, q) # y
          /\ \A c \in Sectors \ {y, di.double} : h.index[c] = f.index[c]
          /\ h.index[y] = [NoPointers EXCEPT ![index2(k)] = x]
          /\ \A i \in 0 .. IndirectEntries - 1 : h.index[di.double][i] = IF i = index1(k) THEN y ELSE f.index[di.double][i]
      BY <1>0, <1>1, <1>3, <1>6, <2>2, <2>5, <2>6
    <3>2. r.di = di
      BY <2>5
    <3> HIDE DEF f, h, di
    <3>3. ASSUME NEW q \in Roles
          PROVE  /\ q \notin {Second(index1(k)), Data(k)} => ptr(h, di, s, q) = ptr(f, di, s, q)
                 /\ q = Data(k) => ptr(h, di, s, q) = x
      <4>1. x \in Sectors /\ k \in 0 .. Room - 1 /\ isDouble(k) /\ q \in Roles
        BY <1>0
      <4>2. /\ f \in DiskType /\ di \in InodeType /\ Apart(f, di, s) /\ di.double # 0
            /\ y \in Sectors /\ y # 0 /\ via(f, di.double, index1(k)) = 0
        BY <3>1
      <4>3. \A p \in Roles : ptr(f, di, s, p) # y
        BY <3>1
      <4>4. \A c \in Sectors \ {y, di.double} : h.index[c] = f.index[c]
        BY <3>1
      <4>5. h.index[y] = [NoPointers EXCEPT ![index2(k)] = x]
        BY <3>1
      <4>6. \A i \in 0 .. IndirectEntries - 1 : h.index[di.double][i] = IF i = index1(k) THEN y ELSE f.index[di.double][i]
        BY <3>1
      <4> QED BY ONLY <4>1, <4>2, <4>3, <4>4, <4>5, <4>6, NewSecond
    <3> QED BY <3>2, <3>3 DEF f, h, di
  <2>8. ptr(r.fs, r.di, s, Second(index1(k))) = y /\ ptr(g.fs, g.di, s, Second(index1(k))) = 0
    BY <1>0, <1>3, <1>6, <2>5, PtrAt DEF via
  <2>9. \A c \in g.fs.used : (\A q \in Blocks : ptr(g.fs, g.di, s, q) # c) => r.fs.index[c] = g.fs.index[c]
    BY <1>0, <1>2, <1>3, <2>2, <2>5 DEF DiskType
  <2> HIDE DEF b, e
  <2>10. \A p \in Roles : ptr(r.fs, r.di, s, p) = y => p = Second(index1(k))
    BY <1>0, <1>1, <2>2, <2>7
  <2>11. Registers(g, r, s, k, x)
    BY <1>0, <1>2, <2>2, <2>5, <2>7, <2>8, <2>9, <2>10 DEF Registers
  <2> QED BY <2>11 DEF r
<1> QED BY <1>4, <1>5, <1>6

\* A new doubly indirect block comes first, where there was none.
LEMMA RegistersDouble ==
  ASSUME NEW g, NEW s, NEW x, Registering(g, s, x), NEW k \in 0 .. Room - 1, isDouble(k)
  PROVE  Registers(g, register_double(g, k, x), s, k, x)
<1> DEFINE r == register_double(g, k, x)
           e == first_free(g.fs)
           n == [g EXCEPT !.fs = new_block(g.fs, NoPointers), !.di.double = e]
<1>0. /\ g \in GrowingType /\ g.ok = TRUE /\ x \in Sectors /\ x \in g.fs.used /\ 0 \in g.fs.used /\ s \in Sectors
      /\ g.di \in InodeType /\ g.fs \in DiskType
  BY Levels DEF Registering, GrowingType, DiskType, InodeType
<1>1. /\ \A q \in Roles : ptr(g.fs, g.di, s, q) \in g.fs.used /\ ptr(g.fs, g.di, s, q) # x
      /\ Apart(g.fs, g.di, s)
  BY DEF Registering
<1>2. Data(k) \in Roles /\ Data(k) # Double /\ Double \in Roles /\ Double \in Blocks
  BY RoleAt, RolesDiffer DEF Blocks
<1>3. CASE g.di.double # 0
  BY <1>3, RegistersSecond DEF register_double
<1>4. CASE g.di.double = 0 /\ available(g.fs) = {}
  <2>1. r = [g EXCEPT !.ok = FALSE]
    BY <1>4 DEF register_double
  <2> QED BY <2>1, RegistersNothing
<1>5. CASE g.di.double = 0 /\ available(g.fs) # {}
  <2>1. r = register_second(n, k, x)
    BY <1>5 DEF register_double
  <2>2. e \in Sectors \ g.fs.used /\ NoPointers \in IndexType
    BY <1>0, <1>5, FirstFree, Counts DEF NoPointers, IndexType
  <2>3. /\ new_block(g.fs, NoPointers) \in DiskType
        /\ new_block(g.fs, NoPointers).used = g.fs.used \cup {e}
        /\ new_block(g.fs, NoPointers).inode = g.fs.inode /\ new_block(g.fs, NoPointers).data = g.fs.data
        /\ new_block(g.fs, NoPointers).index[e] = NoPointers
        /\ \A c \in Sectors \ {e} : new_block(g.fs, NoPointers).index[c] = g.fs.index[c]
    BY <1>0, <1>5, <2>2, NewBlock
  <2>4. /\ n \in GrowingType /\ n.ok = g.ok /\ n.fs = new_block(g.fs, NoPointers)
        /\ n.di.length = g.di.length /\ n.di.direct = g.di.direct /\ n.di.double = e /\ n.di.indirect = g.di.indirect
    <3> DEFINE h == new_block(g.fs, NoPointers)
    <3> HIDE DEF h, e
    <3>1. h \in DiskType /\ e \in Sectors
      BY <2>2, <2>3 DEF h
    <3>2. /\ n \in GrowingType /\ n.ok = g.ok /\ n.fs = h
          /\ n.di.length = g.di.length /\ n.di.direct = g.di.direct /\ n.di.double = e /\ n.di.indirect = g.di.indirect
      BY <1>0, <3>1 DEF GrowingType, InodeType, h
    <3> QED BY <3>2 DEF h
  <2> HIDE DEF n, e
  <2>5. e # 0 /\ \A q \in Roles : ptr(g.fs, g.di, s, q) # e
    BY <1>0, <1>1, <2>2
  <2>6. \A q \in Roles : q # Double => ptr(n.fs, n.di, s, q) = ptr(g.fs, g.di, s, q)
    <3> DEFINE f == g.fs
               h == n.fs
               di == g.di
               ei == n.di
    <3>1. /\ f \in DiskType /\ di \in InodeType /\ di.double = 0
          /\ e \in Sectors /\ e # 0 /\ \A p \in Roles : ptr(f, di, s, p) # e
          /\ ei.indirect = di.indirect /\ ei.double = e /\ ei.direct = di.direct
          /\ h.index[e] = NoPointers
      BY <1>0, <1>5, <2>2, <2>3, <2>4, <2>5
    <3>2. \A c \in Sectors \ {e} : h.index[c] = f.index[c]
      BY <2>3, <2>4
    <3> HIDE DEF f, h, di, ei
    <3>3. ASSUME NEW q \in Roles, q # Double
          PROVE  ptr(h, ei, s, q) = ptr(f, di, s, q)
      BY <3>1, <3>2, <3>3, NewDouble
    <3> QED BY <3>3 DEF f, h, di, ei
  <2>7. ptr(n.fs, n.di, s, Double) = e /\ ptr(g.fs, g.di, s, Double) = 0
    BY <1>5, <2>4, PtrOf
  <2>8. n.fs.used = g.fs.used \cup {e} /\ n.fs.inode = g.fs.inode /\ n.fs.data = g.fs.data
    BY <2>3, <2>4
  <2>9. \A q, p \in Roles : ptr(n.fs, n.di, s, q) # 0 /\ ptr(n.fs, n.di, s, q) = ptr(n.fs, n.di, s, p) => q = p
    BY <1>1, <2>5, <2>6, <2>7 DEF Apart
  <2>10. Registering(n, s, x) /\ n.di.double # 0
    <3>1. \A q \in Roles : ptr(n.fs, n.di, s, q) \in n.fs.used \ {x}
      BY <1>0, <1>1, <2>2, <2>6, <2>7, <2>8
    <3>2. Apart(n.fs, n.di, s)
      BY <2>9 DEF Apart
    <3> QED BY <1>0, <2>4, <2>5, <2>8, <3>1, <3>2 DEF Registering
  <2>11. Registers(n, r, s, k, x)
    BY <2>1, <2>10, RegistersSecond
  <2> HIDE DEF r
  <2>12. /\ r \in GrowingType /\ r.fs.inode = g.fs.inode /\ r.fs.data = g.fs.data
         /\ g.fs.used \subseteq r.fs.used /\ e \in r.fs.used /\ n.fs.used \subseteq r.fs.used
         /\ r.di.length = g.di.length
         /\ r.di.indirect = g.di.indirect \/ isIndirect(k)
         /\ \A j \in 0 .. DirectEntries - 1 : j # k => r.di.direct[j] = g.di.direct[j]
    BY <2>4, <2>8, <2>11 DEF Registers
  <2>13. \A c \in g.fs.used : (\A q \in Blocks : ptr(g.fs, g.di, s, q) # c) => r.fs.index[c] = g.fs.index[c]
    <3> SUFFICES ASSUME NEW c \in g.fs.used, \A q \in Blocks : ptr(g.fs, g.di, s, q) # c
                 PROVE  r.fs.index[c] = g.fs.index[c]
      OBVIOUS
    <3>1. c \in Sectors \ {e} /\ c \in n.fs.used
      BY <1>0, <2>2, <2>8 DEF DiskType
    <3>2. \A q \in Blocks : ptr(n.fs, n.di, s, q) # c
      BY <2>6, <2>7, <3>1 DEF Roles
    <3>3. r.fs.index[c] = n.fs.index[c]
      BY <2>11, <3>1, <3>2 DEF Registers
    <3> QED BY <2>3, <2>4, <3>1, <3>3
  <2>14. \A q \in Roles : q # Data(k) =>
           \/ ptr(r.fs, r.di, s, q) = ptr(n.fs, n.di, s, q)
           \/ /\ q \in Blocks /\ ptr(n.fs, n.di, s, q) = 0
              /\ ptr(r.fs, r.di, s, q) \in r.fs.used \ n.fs.used
              /\ \A p \in Roles : ptr(r.fs, r.di, s, p) = ptr(r.fs, r.di, s, q) => p = q
    BY <2>11 DEF Registers
  <2>15. ptr(r.fs, r.di, s, Data(k)) = IF r.ok THEN x ELSE ptr(n.fs, n.di, s, Data(k))
    BY <2>11 DEF Registers
  <2>16. ptr(r.fs, r.di, s, Double) = e
    BY <1>2, <2>5, <2>7, <2>14
  <2>17. \A p \in Roles : ptr(r.fs, r.di, s, p) = e => p = Double
    <3>1. x # e /\ ptr(n.fs, n.di, s, Data(k)) # e
      BY <1>0, <1>2, <2>2, <2>5, <2>6
    <3>2. ptr(r.fs, r.di, s, Data(k)) # e
      BY <2>15, <3>1
    <3>3. \A p \in Roles : p # Data(k) /\ ptr(r.fs, r.di, s, p) = e => ptr(n.fs, n.di, s, p) = e
      BY <2>8, <2>14
    <3> QED BY <2>5, <2>6, <3>2, <3>3
  <2>18. \A q \in Roles : q # Data(k) =>
           \/ ptr(r.fs, r.di, s, q) = ptr(g.fs, g.di, s, q)
           \/ /\ q \in Blocks /\ ptr(g.fs, g.di, s, q) = 0
              /\ ptr(r.fs, r.di, s, q) \in r.fs.used \ g.fs.used
              /\ \A p \in Roles : ptr(r.fs, r.di, s, p) = ptr(r.fs, r.di, s, q) => p = q
    <3> SUFFICES ASSUME NEW q \in Roles, q # Data(k)
                 PROVE  \/ ptr(r.fs, r.di, s, q) = ptr(g.fs, g.di, s, q)
                        \/ /\ q \in Blocks /\ ptr(g.fs, g.di, s, q) = 0
                           /\ ptr(r.fs, r.di, s, q) \in r.fs.used \ g.fs.used
                           /\ \A p \in Roles : ptr(r.fs, r.di, s, p) = ptr(r.fs, r.di, s, q) => p = q
      OBVIOUS
    <3>1. CASE q = Double
      BY <1>2, <2>2, <2>7, <2>12, <2>16, <2>17, <3>1
    <3>2. CASE q # Double
      BY <2>6, <2>8, <2>14, <3>2
    <3> QED BY <3>1, <3>2
  <2>19. ptr(r.fs, r.di, s, Data(k)) = IF r.ok THEN x ELSE ptr(g.fs, g.di, s, Data(k))
    BY <1>2, <2>6, <2>15
  <2>20. r.ok => \A y \in r.fs.used \ g.fs.used : \E q \in Roles : ptr(r.fs, r.di, s, q) = y
    <3>1. r.ok => \A y \in r.fs.used \ n.fs.used : \E q \in Roles : ptr(r.fs, r.di, s, q) = y
      BY <2>11 DEF Registers
    <3> QED BY <1>2, <2>8, <2>16, <3>1
  <2>21. Registers(g, r, s, k, x)
    BY <2>12, <2>13, <2>18, <2>19, <2>20 DEF Registers
  <2> QED BY <2>21 DEF r
<1> QED BY <1>3, <1>4, <1>5

LEMMA RegistersSector ==
  ASSUME NEW g, NEW s, NEW x, Registering(g, s, x), NEW k \in Nat
  PROVE  Registers(g, register_sector(g, k, x), s, k, x)
<1>0. Room \in Nat
  BY Counts DEF Room
<1>1. CASE k < Room
  <2>1. k \in 0 .. Room - 1
    BY <1>0, <1>1
  <2>2. /\ isDirect(k) \/ isIndirect(k) \/ isDouble(k)
        /\ isDirect(k) => ~ isIndirect(k) /\ ~ isDouble(k)
        /\ isIndirect(k) => ~ isDirect(k) /\ ~ isDouble(k)
    BY <2>1, Levels
  <2>3. CASE isDirect(k)
    BY <2>1, <2>2, <2>3, RegistersDirect DEF register_sector
  <2>4. CASE isIndirect(k)
    BY <2>1, <2>2, <2>4, RegistersIndirect DEF register_sector
  <2>5. CASE isDouble(k)
    BY <2>1, <2>2, <2>5, RegistersDouble DEF register_sector
  <2> QED BY <2>2, <2>3, <2>4, <2>5
<1>2. CASE k >= Room
  <2>1. register_sector(g, k, x) = [g EXCEPT !.ok = FALSE]
    BY <1>2, NoRoom DEF register_sector
  <2> QED BY <2>1, RegistersNothing
<1> QED BY <1>0, <1>1, <1>2

-----------------------------------------------------------------------------
(* Growth leaves every sector with one owner *)

\* One file gets other sectors: those it had, none, or ones nobody had.
LEMMA OneFileChanges ==
  ASSUME NEW f, NEW I, NEW F, NEW h, NEW J, NEW s \in F, Private(f, I, F),
         System \subseteq f.used, f.used \subseteq h.used,
         \A t \in F, q \in Roles : t # s => ptr(h, J[t], t, q) = ptr(f, I[t], t, q),
         \A q \in Roles :
           \/ ptr(h, J[s], s, q) = 0
           \/ ptr(h, J[s], s, q) = ptr(f, I[s], s, q)
           \/ /\ ptr(h, J[s], s, q) \in h.used \ f.used
              /\ \A p \in Roles : ptr(h, J[s], s, p) = ptr(h, J[s], s, q) => p = q
  PROVE  Private(h, J, F)
<1> DEFINE New(t, q) == t = s /\ ptr(h, J[s], s, q) \in h.used \ f.used
<1>1. ASSUME NEW t \in F, NEW q \in Roles, ptr(h, J[t], t, q) # 0
      PROVE  /\ ptr(h, J[t], t, q) \in h.used \ System
             /\ New(t, q) \/ (ptr(h, J[t], t, q) = ptr(f, I[t], t, q) /\ ptr(f, I[t], t, q) \in f.used)
  <2>1. CASE t = s /\ ptr(h, J[s], s, q) \in h.used \ f.used
    BY <2>1
  <2>2. CASE ptr(h, J[t], t, q) = ptr(f, I[t], t, q)
    <3>1. ptr(f, I[t], t, q) \in f.used \ System
      BY <1>1, <2>2 DEF Private
    <3> QED BY <2>2, <3>1
  <2> QED BY <1>1, <2>1, <2>2
<1>2. ASSUME NEW t \in F, NEW q \in Roles, NEW u \in F, NEW p \in Roles,
             ptr(h, J[t], t, q) # 0, ptr(h, J[u], u, p) = ptr(h, J[t], t, q)
      PROVE  u = t /\ p = q
  <2>1. /\ New(t, q) \/ (ptr(h, J[t], t, q) = ptr(f, I[t], t, q) /\ ptr(f, I[t], t, q) \in f.used)
        /\ New(u, p) \/ (ptr(h, J[u], u, p) = ptr(f, I[u], u, p) /\ ptr(f, I[u], u, p) \in f.used)
    BY <1>1, <1>2
  <2>2. CASE New(t, q)
    <3>1. New(u, p)
      BY <1>2, <2>1, <2>2
    <3>2. ptr(h, J[s], s, q) # 0 /\ t = s /\ u = s
      BY <1>2, <2>2, <3>1
    <3>3. \/ ptr(h, J[s], s, q) = ptr(f, I[s], s, q)
          \/ \A o \in Roles : ptr(h, J[s], s, o) = ptr(h, J[s], s, q) => o = q
      BY <3>2
    <3>4. ptr(h, J[s], s, q) # ptr(f, I[s], s, q)
      BY <2>2, <3>2 DEF Private
    <3> QED BY <1>2, <3>2, <3>3, <3>4
  <2>3. CASE ~ New(t, q)
    <3>1. ptr(h, J[t], t, q) = ptr(f, I[t], t, q) /\ ptr(h, J[u], u, p) = ptr(f, I[u], u, p)
      BY <1>2, <2>1, <2>3
    <3> QED BY <1>2, <3>1 DEF Private
  <2> QED BY <2>2, <2>3
<1> QED BY <1>1, <1>2 DEF Private

\* The sectors of a file are told by its inode and its index blocks alone.
LEMMA IndexTells ==
  ASSUME NEW f, NEW h, NEW di, NEW s,
         \A q \in Blocks : ptr(f, di, s, q) # 0 => h.index[ptr(f, di, s, q)] = f.index[ptr(f, di, s, q)],
         NEW q \in Roles
  PROVE  ptr(h, di, s, q) = ptr(f, di, s, q)
<1>1. /\ di.indirect # 0 => h.index[di.indirect] = f.index[di.indirect]
      /\ di.double # 0 => h.index[di.double] = f.index[di.double]
  BY PtrOf DEF Blocks
<1>2. /\ \A j : via(h, di.indirect, j) = via(f, di.indirect, j)
      /\ \A j : via(h, di.double, j) = via(f, di.double, j)
  BY <1>1 DEF via
<1>3. ASSUME NEW j \in 0 .. IndirectEntries - 1, via(f, di.double, j) # 0
      PROVE  h.index[via(f, di.double, j)] = f.index[via(f, di.double, j)]
  <2>1. Second(j) \in Blocks
    BY DEF Blocks
  <2> QED BY <1>3, <2>1, PtrAt
<1>4. ASSUME NEW i \in 0 .. Room - 1
      PROVE  place(h, di, i) = place(f, di, i)
  <2>1. CASE isDirect(i) \/ isIndirect(i)
    BY <1>2, <2>1 DEF place
  <2>2. CASE isDouble(i)
    <3>1. index1(i) \in 0 .. IndirectEntries - 1 /\ ~ isDirect(i) /\ ~ isIndirect(i)
      BY <2>2, Levels
    <3> DEFINE c == via(f, di.double, index1(i))
    <3>2. via(h, di.double, index1(i)) = c /\ (c # 0 => h.index[c] = f.index[c])
      BY <1>2, <1>3, <3>1
    <3>3. place(h, di, i) = via(h, c, index2(i)) /\ place(f, di, i) = via(f, c, index2(i))
      BY <3>1, <3>2 DEF place
    <3> QED BY <3>2, <3>3 DEF via
  <2> QED BY <2>1, <2>2, Levels
<1>5. CASE q \in {Inode, Indirect, Double}
  BY <1>5, PtrOf
<1>6. ASSUME NEW j \in 0 .. IndirectEntries - 1, q = Second(j)
      PROVE  ptr(h, di, s, q) = ptr(f, di, s, q)
  BY <1>2, <1>6, PtrAt
<1>7. ASSUME NEW i \in 0 .. Room - 1, q = Data(i)
      PROVE  ptr(h, di, s, q) = ptr(f, di, s, q)
  BY <1>4, <1>7, PtrAt
<1> QED BY <1>5, <1>6, <1>7, RoleIs

\* What growth starts from: files that share nothing, among them the one in sector
\* s, with its first sectors all there and no direct ones beyond them.
Starts(a, I, F, s, first) ==
  /\ a \in GrowingType /\ a.ok
  /\ I \in [Sectors -> InodeType] /\ I[s] = a.di
  /\ F \subseteq Sectors /\ s \in F
  /\ System \subseteq a.fs.used
  /\ Private(a.fs, I, F)
  /\ first \in 0 .. Room
  /\ \A i \in 0 .. Room - 1 : i < first => place(a.fs, a.di, i) # 0
  /\ \A j \in 0 .. DirectEntries - 1 : j >= first => a.di.direct[j] = 0
  /\ a.di.double # 0 => a.di.indirect # 0
  /\ a.di.indirect # 0 => first > DirectEntries

\* Nothing is left over: no sector is named beyond the first m.
Neat(f, di, m) == \A i \in 0 .. Room - 1 : i >= m => place(f, di, i) = 0

\* What it has come to, when the sectors up to m have had their turn.
Grown(a, I, F, s, first, m, g) ==
  /\ g \in GrowingType
  /\ a.fs.used \subseteq g.fs.used /\ g.fs.inode = a.fs.inode /\ g.di.length = a.di.length
  /\ Private(g.fs, [I EXCEPT ![s] = g.di], F)
  /\ \A t \in F, q \in Roles : t # s => ptr(g.fs, I[t], t, q) = ptr(a.fs, I[t], t, q)
  /\ \A j \in 0 .. DirectEntries - 1 : j >= m => g.di.direct[j] = 0
  /\ a.di.indirect \in {0, g.di.indirect} /\ a.di.double \in {0, g.di.double}
  /\ \A i \in 0 .. Room - 1 : i < first => place(g.fs, g.di, i) = place(a.fs, a.di, i)
  /\ \A c \in a.fs.used : g.fs.data[c] = a.fs.data[c]
  /\ g.ok =>
       /\ m <= Room
       /\ \A i \in 0 .. Room - 1 : i < m => place(g.fs, g.di, i) # 0
       /\ \A i \in 0 .. Room - 1 : first <= i /\ i < m => g.fs.data[place(g.fs, g.di, i)] = Zeros
       /\ g.di.double # 0 => g.di.indirect # 0
       /\ g.di.indirect # 0 => m > DirectEntries
       /\ Neat(a.fs, a.di, first) =>
            /\ Neat(g.fs, g.di, m)
            /\ \A y \in g.fs.used \ a.fs.used : \E q \in Roles : ptr(g.fs, g.di, s, q) = y
            /\ \A q \in Roles : ptr(a.fs, a.di, s, q) \in {0, ptr(g.fs, g.di, s, q)}

\* What one turn, for sector number k, does to the file in sector s.
Turned(g, h, s, k) ==
  /\ h \in GrowingType
  /\ g.fs.used \subseteq h.fs.used /\ h.fs.inode = g.fs.inode /\ h.di.length = g.di.length
  /\ \A c \in g.fs.used : h.fs.data[c] = g.fs.data[c]
  /\ \A j \in 0 .. DirectEntries - 1 : j # k => h.di.direct[j] = g.di.direct[j]
  /\ h.di.indirect = g.di.indirect \/ isIndirect(k)
  /\ h.di.double = g.di.double \/ isDouble(k)
  /\ \A c \in g.fs.used : (\A q \in Blocks : ptr(g.fs, g.di, s, q) # c) => h.fs.index[c] = g.fs.index[c]
  /\ \A q \in Roles :
       \/ ptr(h.fs, h.di, s, q) = ptr(g.fs, g.di, s, q)
       \/ /\ (q \in Blocks /\ ptr(g.fs, g.di, s, q) = 0) \/ (q = Data(k) /\ h.ok)
          /\ ptr(h.fs, h.di, s, q) \in h.fs.used \ g.fs.used
          /\ \A p \in Roles : ptr(h.fs, h.di, s, p) = ptr(h.fs, h.di, s, q) => p = q
  /\ h.ok =>
       /\ g.ok
       /\ k \in 0 .. Room - 1
       /\ ptr(h.fs, h.di, s, Data(k)) \in h.fs.used \ g.fs.used
       /\ h.fs.data[ptr(h.fs, h.di, s, Data(k))] = Zeros
       /\ \A y \in h.fs.used \ g.fs.used : \E q \in Roles : ptr(h.fs, h.di, s, q) = y

LEMMA Turns ==
  ASSUME NEW g \in GrowingType, NEW s \in Sectors, NEW k \in Nat, 0 \in g.fs.used,
         Apart(g.fs, g.di, s), \A q \in Roles : ptr(g.fs, g.di, s, q) \in g.fs.used
  PROVE  Turned(g, grow_by(g, k), s, k)
<1> DEFINE h == grow_by(g, k)
           x == first_free(g.fs)
           n == [g EXCEPT !.fs = allocate(g.fs)]
           r == register_sector(n, k, x)
<1>1. CASE ~ g.ok \/ available(g.fs) = {}
  <2>1. h = [g EXCEPT !.ok = FALSE]
    BY <1>1 DEF grow_by
  <2> HIDE DEF h
  <2>2. h \in GrowingType /\ h.fs = g.fs /\ h.di = g.di /\ ~ h.ok
    BY <2>1 DEF GrowingType
  <2>3. Turned(g, h, s, k)
    BY <2>2 DEF Turned
  <2> QED BY <2>3 DEF h
<1>2. CASE g.ok /\ available(g.fs) # {}
  <2>1. h = IF r.ok THEN [r EXCEPT !.fs.data[x] = Zeros] ELSE [r EXCEPT !.fs = release(r.fs, {x})]
    BY <1>2 DEF grow_by
  <2>2. g.fs \in DiskType /\ x \in Sectors \ g.fs.used
    BY <1>2, FirstFree DEF GrowingType
  <2>3. /\ allocate(g.fs) \in DiskType /\ allocate(g.fs).used = g.fs.used \cup {x}
        /\ allocate(g.fs).inode = g.fs.inode /\ allocate(g.fs).index = g.fs.index /\ allocate(g.fs).data = g.fs.data
    BY <1>2, <2>2, Allocates
  <2>4. n \in GrowingType /\ n.ok /\ n.di = g.di /\ n.fs = allocate(g.fs)
    <3> DEFINE f == allocate(g.fs)
    <3>1. f \in DiskType
      BY <2>3
    <3> HIDE DEF f
    <3>2. n = [g EXCEPT !.fs = f]
      BY DEF f
    <3>3. n \in GrowingType /\ n.ok /\ n.di = g.di /\ n.fs = f
      BY <1>2, <3>1, <3>2 DEF GrowingType
    <3> QED BY <3>3 DEF f
  <2> HIDE DEF n, r, x
  <2>5. \A q \in Roles : ptr(n.fs, n.di, s, q) = ptr(g.fs, g.di, s, q)
    <3>1. n.fs.index = g.fs.index
      BY <2>3, <2>4
    <3>2. \A q \in Roles : ptr(n.fs, g.di, s, q) = ptr(g.fs, g.di, s, q)
      BY <3>1, IndexTells
    <3> QED BY <2>4, <3>2
  <2>6. Registering(n, s, x)
    <3>1. Apart(n.fs, n.di, s)
      BY <2>5 DEF Apart
    <3>2. \A q \in Roles : ptr(n.fs, n.di, s, q) \in n.fs.used \ {x}
      BY <2>2, <2>3, <2>4, <2>5
    <3> QED BY <2>2, <2>3, <2>4, <3>1, <3>2 DEF Registering
  <2>7. Registers(n, r, s, k, x)
    BY <2>6, RegistersSector DEF r
  <2>8. /\ r \in GrowingType /\ r.fs.inode = g.fs.inode /\ r.fs.data = g.fs.data
        /\ g.fs.used \subseteq r.fs.used /\ x \in r.fs.used
        /\ r.di.length = g.di.length
        /\ \A j \in 0 .. DirectEntries - 1 : j # k => r.di.direct[j] = g.di.direct[j]
        /\ r.di.indirect = g.di.indirect \/ isIndirect(k)
        /\ r.di.double = g.di.double \/ isDouble(k)
    BY <2>3, <2>4, <2>7 DEF Registers
  <2>9. \A c \in g.fs.used : (\A q \in Blocks : ptr(g.fs, g.di, s, q) # c) => r.fs.index[c] = g.fs.index[c]
    BY <2>3, <2>4, <2>5, <2>7 DEF Registers, Roles
  <2>10. \A q \in Roles : q # Data(k) =>
           \/ ptr(r.fs, r.di, s, q) = ptr(g.fs, g.di, s, q)
           \/ /\ q \in Blocks /\ ptr(g.fs, g.di, s, q) = 0
              /\ ptr(r.fs, r.di, s, q) \in r.fs.used \ n.fs.used
              /\ \A p \in Roles : ptr(r.fs, r.di, s, p) = ptr(r.fs, r.di, s, q) => p = q
    BY <2>5, <2>7 DEF Registers
  <2>11. n.fs.used = g.fs.used \cup {x}
    BY <2>3, <2>4
  <2>12. k \in 0 .. Room - 1 => ptr(r.fs, r.di, s, Data(k)) = IF r.ok THEN x ELSE ptr(g.fs, g.di, s, Data(k))
    BY <2>5, <2>7, RoleAt DEF Registers
  <2>13. r.ok => /\ k \in 0 .. Room - 1
                 /\ \A y \in r.fs.used \ n.fs.used : \E q \in Roles : ptr(r.fs, r.di, s, q) = y
    BY <2>7 DEF Registers
  <2>14. \A q \in Roles : q # Data(k) => ptr(r.fs, r.di, s, q) # x
    BY <2>2, <2>10, <2>11
  <2>15. Data(k) \in Roles => k \in 0 .. Room - 1
    <3> SUFFICES ASSUME Data(k) \in Roles, k \notin 0 .. Room - 1 PROVE FALSE
      OBVIOUS
    <3>1. PICK i \in 0 .. Room - 1 : Data(k) = Data(i)
      BY RoleIs, RoleAt, RolesAt
    <3> QED BY <3>1, RolesAt
  <2>16. CASE r.ok
    <3>1. /\ h \in GrowingType /\ h.di = r.di /\ h.ok /\ h.fs.used = r.fs.used
          /\ h.fs.inode = r.fs.inode /\ h.fs.index = r.fs.index
          /\ h.fs.data[x] = Zeros /\ \A c \in Sectors \ {x} : h.fs.data[c] = r.fs.data[c]
      <4> HIDE DEF h
      <4>1. h = [r EXCEPT !.fs.data[x] = Zeros] /\ Zeros \in DataType /\ x \in Sectors
        BY <2>1, <2>2, <2>16 DEF Zeros, DataType
      <4> QED BY <2>8, <2>16, <4>1 DEF GrowingType, DiskType
    <3> HIDE DEF h
    <3>2. \A q \in Roles : ptr(h.fs, h.di, s, q) = ptr(r.fs, r.di, s, q)
      BY <3>1, IndexTells
    <3>3. \A c \in g.fs.used : h.fs.data[c] = g.fs.data[c]
      BY <2>2, <2>8, <3>1 DEF DiskType
    <3>4. k \in 0 .. Room - 1 /\ Data(k) \in Roles /\ ptr(h.fs, h.di, s, Data(k)) = x
      BY <2>12, <2>13, <2>16, <3>2, RoleAt
    <3>5. \A q \in Roles :
       \/ ptr(h.fs, h.di, s, q) = ptr(g.fs, g.di, s, q)
       \/ /\ (q \in Blocks /\ ptr(g.fs, g.di, s, q) = 0) \/ (q = Data(k) /\ h.ok)
          /\ ptr(h.fs, h.di, s, q) \in h.fs.used \ g.fs.used
          /\ \A p \in Roles : ptr(h.fs, h.di, s, p) = ptr(h.fs, h.di, s, q) => p = q
      BY <2>2, <2>8, <2>10, <2>11, <2>14, <3>1, <3>2, <3>4
    <3>6. \A y \in h.fs.used \ g.fs.used : \E q \in Roles : ptr(h.fs, h.di, s, q) = y
      BY <2>11, <2>13, <2>16, <3>1, <3>2, <3>4
    <3>7. \A c \in g.fs.used : (\A q \in Blocks : ptr(g.fs, g.di, s, q) # c) => h.fs.index[c] = g.fs.index[c]
      BY <2>9, <3>1
    <3>8. Turned(g, h, s, k)
      BY <1>2, <2>2, <2>8, <3>1, <3>3, <3>4, <3>5, <3>6, <3>7 DEF Turned
    <3> QED BY <3>8 DEF h
  <2>17. CASE ~ r.ok
    <3>1. /\ h \in GrowingType /\ h.di = r.di /\ ~ h.ok /\ h.fs.used = r.fs.used \ {x}
          /\ h.fs.inode = r.fs.inode /\ h.fs.index = r.fs.index /\ h.fs.data = r.fs.data
      <4> DEFINE f == release(r.fs, {x})
      <4>1. /\ f \in DiskType /\ f.used = r.fs.used \ {x}
            /\ f.inode = r.fs.inode /\ f.index = r.fs.index /\ f.data = r.fs.data
        BY <2>8, Releases DEF GrowingType
      <4>2. h = [r EXCEPT !.fs = f]
        BY <2>1, <2>17
      <4> HIDE DEF f, h
      <4>3. h \in GrowingType /\ h.di = r.di /\ ~ h.ok /\ h.fs = f
        BY <2>8, <2>17, <4>1, <4>2 DEF GrowingType
      <4> QED BY <4>1, <4>3
    <3> HIDE DEF h
    <3>2. \A q \in Roles : ptr(h.fs, h.di, s, q) = ptr(r.fs, r.di, s, q)
      BY <3>1, IndexTells
    <3>3. \A q \in Roles :
       \/ ptr(h.fs, h.di, s, q) = ptr(g.fs, g.di, s, q)
       \/ /\ q \in Blocks /\ ptr(g.fs, g.di, s, q) = 0
          /\ ptr(h.fs, h.di, s, q) \in h.fs.used \ g.fs.used
          /\ \A p \in Roles : ptr(h.fs, h.di, s, p) = ptr(h.fs, h.di, s, q) => p = q
      <4> SUFFICES ASSUME NEW q \in Roles
                   PROVE  \/ ptr(h.fs, h.di, s, q) = ptr(g.fs, g.di, s, q)
                          \/ /\ q \in Blocks /\ ptr(g.fs, g.di, s, q) = 0
                             /\ ptr(h.fs, h.di, s, q) \in h.fs.used \ g.fs.used
                             /\ \A p \in Roles : ptr(h.fs, h.di, s, p) = ptr(h.fs, h.di, s, q) => p = q
        OBVIOUS
      <4>1. CASE q = Data(k)
        BY <2>12, <2>15, <2>17, <3>2, <4>1
      <4>2. CASE q # Data(k)
        BY <2>10, <2>11, <3>1, <3>2, <4>2
      <4> QED BY <4>1, <4>2
    <3>4. g.fs.used \subseteq h.fs.used
      BY <2>2, <2>8, <3>1
    <3>5. \A c \in g.fs.used : (\A q \in Blocks : ptr(g.fs, g.di, s, q) # c) => h.fs.index[c] = g.fs.index[c]
      BY <2>9, <3>1
    <3>6. Turned(g, h, s, k)
      BY <2>8, <3>1, <3>3, <3>4, <3>5 DEF Turned
    <3> QED BY <3>6 DEF h
  <2> QED BY <2>16, <2>17
<1> QED BY <1>1, <1>2

LEMMA BlocksAreRoles ==
  /\ Blocks \subseteq Roles /\ Indirect \in Blocks /\ Double \in Blocks
  /\ \A i \in 0 .. Room - 1 : Data(i) \in Roles /\ Data(i) \notin Blocks
BY RoleAt, RolesAt DEF Roles, Blocks

LEMMA GrownOn ==
  ASSUME NEW a, NEW I, NEW F, NEW s, NEW first, Starts(a, I, F, s, first),
         NEW m \in Nat, first <= m, NEW g, Grown(a, I, F, s, first, m, g)
  PROVE  Grown(a, I, F, s, first, m + 1, grow_by(g, m))
<1> DEFINE h == grow_by(g, m)
           J == [I EXCEPT ![s] = g.di]
           K == [I EXCEPT ![s] = h.di]
<1>1. /\ a \in GrowingType /\ a.ok /\ I \in [Sectors -> InodeType] /\ I[s] = a.di
      /\ F \subseteq Sectors /\ s \in F /\ s \in Sectors /\ System \subseteq a.fs.used /\ 0 \in a.fs.used
      /\ first \in Nat /\ first <= Room /\ Room \in Nat
      /\ DirectEntries \in Nat /\ IndirectEntries \in Nat /\ IndirectEntries > 0
  BY Counts DEF Starts, System, FREE_MAP_SECTOR, Room
<1>2. /\ g \in GrowingType /\ g.fs \in DiskType /\ g.di \in InodeType
      /\ a.fs.used \subseteq g.fs.used /\ g.fs.inode = a.fs.inode /\ g.di.length = a.di.length
      /\ Private(g.fs, J, F)
  BY DEF Grown, GrowingType
<1>3. J[s] = g.di /\ K[s] = h.di /\ \A t \in F : t # s => J[t] = I[t] /\ K[t] = I[t]
  BY <1>1
<1> HIDE DEF h, J, K
<1>4. \A q \in Roles : LET X == ptr(g.fs, g.di, s, q) IN
        X # 0 => /\ X \in g.fs.used
                 /\ \A t \in F, p \in Roles : ptr(g.fs, J[t], t, p) = X => t = s /\ p = q
  BY <1>1, <1>2, <1>3 DEF Private
<1>5. Turned(g, h, s, m)
  <2>1. Apart(g.fs, g.di, s)
    BY <1>1, <1>3, <1>4 DEF Apart
  <2>2. 0 \in g.fs.used
    BY <1>1, <1>2
  <2>3. \A q \in Roles : ptr(g.fs, g.di, s, q) \in g.fs.used
    BY <1>4, <2>2
  <2> QED BY <1>1, <1>2, <2>1, <2>2, <2>3, Turns DEF h
<1>6. /\ h \in GrowingType
      /\ g.fs.used \subseteq h.fs.used /\ h.fs.inode = g.fs.inode /\ h.di.length = g.di.length
      /\ \A c \in g.fs.used : h.fs.data[c] = g.fs.data[c]
      /\ \A j \in 0 .. DirectEntries - 1 : j # m => h.di.direct[j] = g.di.direct[j]
      /\ h.di.indirect = g.di.indirect \/ isIndirect(m)
      /\ h.di.double = g.di.double \/ isDouble(m)
  BY <1>5 DEF Turned
<1>7. \A q \in Roles :
       \/ ptr(h.fs, h.di, s, q) = ptr(g.fs, g.di, s, q)
       \/ /\ (q \in Blocks /\ ptr(g.fs, g.di, s, q) = 0) \/ (q = Data(m) /\ h.ok)
          /\ ptr(h.fs, h.di, s, q) \in h.fs.used \ g.fs.used
          /\ \A p \in Roles : ptr(h.fs, h.di, s, p) = ptr(h.fs, h.di, s, q) => p = q
  BY <1>5 DEF Turned
<1>8. \A t \in F, q \in Roles : t # s => ptr(h.fs, I[t], t, q) = ptr(g.fs, I[t], t, q)
  <2> SUFFICES ASSUME NEW t \in F, t # s
               PROVE  \A q \in Roles : ptr(h.fs, I[t], t, q) = ptr(g.fs, I[t], t, q)
    OBVIOUS
  <2>1. ASSUME NEW q \in Blocks, ptr(g.fs, I[t], t, q) # 0
        PROVE  h.fs.index[ptr(g.fs, I[t], t, q)] = g.fs.index[ptr(g.fs, I[t], t, q)]
    <3> DEFINE X == ptr(g.fs, I[t], t, q)
    <3>1. X \in g.fs.used /\ \A u \in F, p \in Roles : ptr(g.fs, J[u], u, p) = X => u = t
      BY <1>2, <1>3, <2>1, BlocksAreRoles DEF Private
    <3>2. \A p \in Blocks : ptr(g.fs, g.di, s, p) # X
      BY <1>1, <1>3, <3>1, BlocksAreRoles
    <3> HIDE DEF X
    <3>3. h.fs.index[X] = g.fs.index[X]
      BY <1>5, <3>1, <3>2 DEF Turned
    <3> QED BY <3>3 DEF X
  <2> QED BY <2>1, IndexTells
<1>9. Private(h.fs, K, F)
  <2>1. System \subseteq g.fs.used
    BY <1>1, <1>2
  <2>2. \A t \in F, q \in Roles : t # s => ptr(h.fs, K[t], t, q) = ptr(g.fs, J[t], t, q)
    BY <1>3, <1>8
  <2>3. \A q \in Roles :
           \/ ptr(h.fs, K[s], s, q) = 0
           \/ ptr(h.fs, K[s], s, q) = ptr(g.fs, J[s], s, q)
           \/ /\ ptr(h.fs, K[s], s, q) \in h.fs.used \ g.fs.used
              /\ \A p \in Roles : ptr(h.fs, K[s], s, p) = ptr(h.fs, K[s], s, q) => p = q
    BY <1>3, <1>7
  <2>4. s \in F /\ Private(g.fs, J, F) /\ g.fs.used \subseteq h.fs.used
    BY <1>1, <1>2, <1>6
  <2> DEFINE G == g.fs
             H == h.fs
  <2> HIDE DEF G, H
  <2>5. Private(H, K, F)
    <3>1. \A t \in F, q \in Roles : t # s => ptr(H, K[t], t, q) = ptr(G, J[t], t, q)
      BY <2>2 DEF G, H
    <3>2. \A q \in Roles :
           \/ ptr(H, K[s], s, q) = 0
           \/ ptr(H, K[s], s, q) = ptr(G, J[s], s, q)
           \/ /\ ptr(H, K[s], s, q) \in H.used \ G.used
              /\ \A p \in Roles : ptr(H, K[s], s, p) = ptr(H, K[s], s, q) => p = q
      BY <2>3 DEF G, H
    <3>3. s \in F /\ Private(G, J, F) /\ G.used \subseteq H.used /\ System \subseteq G.used
      BY <2>1, <2>4 DEF G, H
    <3> QED BY <3>1, <3>2, <3>3, OneFileChanges
  <2> QED BY <2>5 DEF H
<1>10. \A t \in F, q \in Roles : t # s => ptr(h.fs, I[t], t, q) = ptr(a.fs, I[t], t, q)
  BY <1>8 DEF Grown
<1>11. \A j \in 0 .. DirectEntries - 1 : j >= m + 1 => h.di.direct[j] = 0
  <2>1. \A j \in 0 .. DirectEntries - 1 : j >= m => g.di.direct[j] = 0
    BY DEF Grown
  <2> QED BY <1>1, <1>6, <2>1
<1>12. g.di.indirect \in {0, h.di.indirect} /\ g.di.double \in {0, h.di.double}
  BY <1>7, PtrOf, BlocksAreRoles, RoleAt
<1>13. a.di.indirect \in {0, h.di.indirect} /\ a.di.double \in {0, h.di.double}
  <2>1. a.di.indirect \in {0, g.di.indirect} /\ a.di.double \in {0, g.di.double}
    BY DEF Grown
  <2> QED BY <1>12, <2>1
<1>14. ASSUME NEW i \in 0 .. Room - 1, i # m
       PROVE  place(h.fs, h.di, i) = place(g.fs, g.di, i)
  <2>1. Data(i) \in Roles /\ Data(i) \notin Blocks /\ Data(i) # Data(m)
    BY <1>14, BlocksAreRoles, RolesAt
  <2> QED BY <1>7, <2>1, PtrAt
<1>15. \A i \in 0 .. Room - 1 : i < first => place(h.fs, h.di, i) = place(a.fs, a.di, i)
  <2>1. \A i \in 0 .. Room - 1 : i < first => place(g.fs, g.di, i) = place(a.fs, a.di, i)
    BY DEF Grown
  <2>2. \A i \in 0 .. Room - 1 : i < first => i # m
    BY <1>1
  <2> QED BY <1>14, <2>1, <2>2
<1>16. \A c \in a.fs.used : h.fs.data[c] = a.fs.data[c]
  BY <1>2, <1>6 DEF Grown
<1>17. ASSUME h.ok
       PROVE  /\ m + 1 <= Room
              /\ \A i \in 0 .. Room - 1 : i < m + 1 => place(h.fs, h.di, i) # 0
              /\ \A i \in 0 .. Room - 1 : first <= i /\ i < m + 1 => h.fs.data[place(h.fs, h.di, i)] = Zeros
              /\ h.di.double # 0 => h.di.indirect # 0
              /\ h.di.indirect # 0 => m + 1 > DirectEntries
              /\ Neat(a.fs, a.di, first) =>
                   /\ Neat(h.fs, h.di, m + 1)
                   /\ \A y \in h.fs.used \ a.fs.used : \E q \in Roles : ptr(h.fs, h.di, s, q) = y
                   /\ \A q \in Roles : ptr(a.fs, a.di, s, q) \in {0, ptr(h.fs, h.di, s, q)}
  <2>1. /\ g.ok /\ m \in 0 .. Room - 1
        /\ place(h.fs, h.di, m) \in h.fs.used \ g.fs.used
        /\ h.fs.data[place(h.fs, h.di, m)] = Zeros
        /\ \A y \in h.fs.used \ g.fs.used : \E q \in Roles : ptr(h.fs, h.di, s, q) = y
    BY <1>5, <1>17, PtrAt DEF Turned
  <2>2. /\ \A i \in 0 .. Room - 1 : i < m => place(g.fs, g.di, i) # 0
        /\ \A i \in 0 .. Room - 1 : first <= i /\ i < m => g.fs.data[place(g.fs, g.di, i)] = Zeros
        /\ g.di.double # 0 => g.di.indirect # 0
        /\ g.di.indirect # 0 => m > DirectEntries
        /\ Neat(a.fs, a.di, first) =>
             /\ Neat(g.fs, g.di, m)
             /\ \A y \in g.fs.used \ a.fs.used : \E q \in Roles : ptr(g.fs, g.di, s, q) = y
             /\ \A q \in Roles : ptr(a.fs, a.di, s, q) \in {0, ptr(g.fs, g.di, s, q)}
    BY <2>1 DEF Grown
  <2>3. m + 1 <= Room
    BY <1>1, <2>1
  <2>4. \A i \in 0 .. Room - 1 : i < m + 1 => i = m \/ (i < m /\ i # m)
    OBVIOUS
  <2>5. \A i \in 0 .. Room - 1 : i < m + 1 => place(h.fs, h.di, i) # 0
    BY <1>1, <1>2, <1>14, <2>1, <2>2, <2>4
  <2>6. ASSUME NEW i \in 0 .. Room - 1, first <= i, i < m + 1
        PROVE  h.fs.data[place(h.fs, h.di, i)] = Zeros
    <3>1. CASE i = m
      BY <2>1, <3>1
    <3>2. CASE i < m /\ i # m
      <4>1. place(h.fs, h.di, i) = place(g.fs, g.di, i) /\ place(g.fs, g.di, i) # 0
        BY <1>14, <2>2, <3>2
      <4>2. place(g.fs, g.di, i) \in g.fs.used
        BY <1>4, <4>1, BlocksAreRoles, PtrAt
      <4> QED BY <1>6, <2>2, <2>6, <3>2, <4>1, <4>2
    <3> QED BY <2>4, <2>6, <3>1, <3>2
  <2>7. h.di.double # 0 => h.di.indirect # 0
    <3>1. CASE h.di.double = g.di.double
      BY <1>12, <2>2, <3>1
    <3>2. CASE isDouble(m)
      <4> DEFINE D == DirectEntries
      <4>1. D \in 0 .. Room - 1 /\ D < m /\ isIndirect(D) /\ ~ isDirect(D)
        BY <1>1, <2>1, <3>2 DEF isDouble, isIndirect, isDirect
      <4>2. place(g.fs, g.di, D) # 0
        BY <2>2, <4>1
      <4>3. g.di.indirect # 0
        BY <4>1, <4>2 DEF place, via
      <4> QED BY <1>12, <4>3
    <3> QED BY <1>6, <3>1, <3>2
  <2>8. h.di.indirect # 0 => m + 1 > DirectEntries
    <3>1. CASE h.di.indirect = g.di.indirect
      BY <1>1, <2>2, <3>1
    <3>2. CASE isIndirect(m)
      BY <1>1, <3>2 DEF isIndirect, isDirect
    <3> QED BY <1>6, <3>1, <3>2
  <2>9. ASSUME Neat(a.fs, a.di, first)
        PROVE  /\ Neat(h.fs, h.di, m + 1)
               /\ \A y \in h.fs.used \ a.fs.used : \E q \in Roles : ptr(h.fs, h.di, s, q) = y
               /\ \A q \in Roles : ptr(a.fs, a.di, s, q) \in {0, ptr(h.fs, h.di, s, q)}
    <3>1. \A i \in 0 .. Room - 1 : i >= m => place(g.fs, g.di, i) = 0
      BY <2>2, <2>9 DEF Neat
    <3>2. Neat(h.fs, h.di, m + 1)
      <4>1. \A i \in 0 .. Room - 1 : i >= m + 1 => i >= m /\ i # m
        OBVIOUS
      <4> QED BY <1>14, <3>1, <4>1 DEF Neat
    <3>3. ptr(g.fs, g.di, s, Data(m)) = 0
      BY <2>1, <3>1, PtrAt
    <3>4. \A q \in Roles : ptr(g.fs, g.di, s, q) \in {0, ptr(h.fs, h.di, s, q)}
      BY <1>7, <3>3
    <3>5. \A y \in g.fs.used \ a.fs.used : \E q \in Roles : ptr(g.fs, g.di, s, q) = y
      BY <2>2, <2>9
    <3>6. \A y \in h.fs.used \ a.fs.used : \E q \in Roles : ptr(h.fs, h.di, s, q) = y
      BY <1>1, <2>1, <3>4, <3>5
    <3>7. \A q \in Roles : ptr(a.fs, a.di, s, q) \in {0, ptr(g.fs, g.di, s, q)}
      BY <2>2, <2>9
    <3> QED BY <3>2, <3>4, <3>6, <3>7
  <2> QED BY <2>3, <2>5, <2>6, <2>7, <2>8, <2>9
<1>18. Grown(a, I, F, s, first, m + 1, h)
  <2>1. a.fs.used \subseteq h.fs.used /\ h.fs.inode = a.fs.inode /\ h.di.length = a.di.length
    BY <1>2, <1>6
  <2>2. Private(h.fs, [I EXCEPT ![s] = h.di], F)
    BY <1>9 DEF K
  <2> QED BY <1>6, <1>10, <1>11, <1>13, <1>15, <1>16, <1>17, <2>1, <2>2 DEF Grown
<1> QED BY <1>18 DEF h

-----------------------------------------------------------------------------
(* All the turns                                                            *)

Trace(g, first, n, f) == f = [k \in 0 .. n |-> IF k = 0 THEN g ELSE grow_by(f[k - 1], first + k - 1)]

LEMMA HasTrace ==
  ASSUME NEW g, NEW first, NEW n \in Nat
  PROVE  \E f : Trace(g, first, n, f)
<1> DEFINE S == {m \in Nat : ~ \E f : Trace(g, first, m, f)}
<1> SUFFICES ASSUME S # {} PROVE FALSE
  OBVIOUS
<1>1. PICK m \in S : \A t \in S : m <= t
  <2> HIDE DEF S
  <2>1. S \subseteq Nat
    BY DEF S
  <2> QED BY <2>1, LeastNat
<1>2. m \in Nat /\ ~ \E f : Trace(g, first, m, f)
  OBVIOUS
<1>3. CASE m = 0
  <2> DEFINE f == [k \in 0 .. 0 |-> g]
  <2>1. f = [k \in 0 .. 0 |-> IF k = 0 THEN g ELSE grow_by(f[k - 1], first + k - 1)]
    OBVIOUS
  <2> QED BY <1>2, <1>3, <2>1 DEF Trace
<1>4. CASE m > 0
  <2>1. m - 1 \in Nat /\ m - 1 \notin S
    BY <1>1, <1>2, <1>4
  <2>2. PICK f : Trace(g, first, m - 1, f)
    BY <2>1
  <2> DEFINE h == [k \in 0 .. m |-> IF k = m THEN grow_by(f[m - 1], first + m - 1) ELSE f[k]]
  <2>3. ASSUME NEW k \in 0 .. m
        PROVE  h[k] = IF k = 0 THEN g ELSE grow_by(h[k - 1], first + k - 1)
    <3>1. CASE k = 0
      BY <1>4, <2>2, <3>1 DEF Trace
    <3>2. CASE k = m
      <4>1. h[m - 1] = f[m - 1]
        BY <1>2, <1>4
      <4> QED BY <1>4, <3>2, <4>1
    <3>3. CASE k > 0 /\ k < m
      <4>1. h[k] = f[k] /\ h[k - 1] = f[k - 1] /\ k \in 0 .. m - 1
        BY <1>2, <3>3
      <4>2. f[k] = grow_by(f[k - 1], first + k - 1)
        BY <2>2, <3>3, <4>1 DEF Trace
      <4> QED BY <3>3, <4>1, <4>2
    <3> QED BY <1>2, <3>1, <3>2, <3>3
  <2>4. Trace(g, first, m, h)
    <3> DEFINE H == [k \in 0 .. m |-> IF k = 0 THEN g ELSE grow_by(h[k - 1], first + k - 1)]
    <3>1. \A k \in 0 .. m : h[k] = H[k]
      BY <2>3
    <3>2. h = H
      <4>1. h = [k \in 0 .. m |-> h[k]] /\ H = [k \in 0 .. m |-> H[k]]
        OBVIOUS
      <4> HIDE DEF h, H
      <4> QED BY <3>1, <4>1
    <3> QED BY <3>2 DEF Trace
  <2> QED BY <1>2, <2>4
<1> QED BY <1>2, <1>3, <1>4

LEMMA TurnsTrace ==
  ASSUME NEW g, NEW first, NEW n \in Nat
  PROVE  \E f : /\ turns(g, first, n) = f[n] /\ f[0] = g
                /\ \A k \in 1 .. n : f[k] = grow_by(f[k - 1], first + k - 1)
<1>0. PICK f : Trace(g, first, n, f)
  BY HasTrace
<1> DEFINE e == CHOOSE e : Trace(g, first, n, e)
<1>1. Trace(g, first, n, e)
  BY <1>0
<1>2. turns(g, first, n) = e[n]
  BY DEF turns, Trace
<1> HIDE DEF e
<1>3. e[0] = g /\ \A k \in 1 .. n : e[k] = grow_by(e[k - 1], first + k - 1)
  BY <1>1 DEF Trace
<1> QED BY <1>2, <1>3

LEMMA AllTurns ==
  ASSUME NEW a, NEW I, NEW F, NEW s, NEW first, Starts(a, I, F, s, first), NEW n \in Nat
  PROVE  Grown(a, I, F, s, first, first + n, turns(a, first, n))
<1>1. PICK f : /\ turns(a, first, n) = f[n] /\ f[0] = a
               /\ \A k \in 1 .. n : f[k] = grow_by(f[k - 1], first + k - 1)
  BY TurnsTrace
<1>2. first \in Nat /\ first <= Room /\ Room \in Nat
  BY Counts DEF Starts, Room
<1>3. Grown(a, I, F, s, first, first, a)
  <2>1. I = [I EXCEPT ![s] = a.di]
    BY DEF Starts
  <2>2. Private(a.fs, [I EXCEPT ![s] = a.di], F)
    BY <2>1 DEF Starts
  <2> QED BY <1>2, <2>2 DEF Starts, Grown
<1> DEFINE S == {k \in 0 .. n : ~ Grown(a, I, F, s, first, first + k, f[k])}
<1>4. S = {}
  <2> SUFFICES ASSUME S # {} PROVE FALSE
    OBVIOUS
  <2>1. PICK m \in S : \A t \in S : m <= t
    <3>1. S \subseteq Nat
      OBVIOUS
    <3> HIDE DEF S
    <3> QED BY <3>1, LeastNat
  <2>2. m \in 0 .. n /\ ~ Grown(a, I, F, s, first, first + m, f[m])
    OBVIOUS
  <2>3. CASE m = 0
    <3>1. first + m = first
      BY <1>2, <2>3
    <3> QED BY <1>1, <1>3, <2>2, <2>3, <3>1
  <2>4. CASE m # 0
    <3>1. m - 1 \in 0 .. n /\ m - 1 \notin S /\ m \in 1 .. n
      BY <2>1, <2>2, <2>4
    <3>2. Grown(a, I, F, s, first, first + (m - 1), f[m - 1])
      BY <3>1
    <3>3. f[m] = grow_by(f[m - 1], first + m - 1)
      BY <1>1, <3>1
    <3> DEFINE k == first + (m - 1)
    <3>4. k \in Nat /\ first <= k /\ k + 1 = first + m /\ first + m - 1 = k
      BY <1>2, <3>1
    <3> HIDE DEF k, S
    <3>5. Grown(a, I, F, s, first, k, f[m - 1])
      BY <3>2 DEF k
    <3>6. Grown(a, I, F, s, first, k + 1, grow_by(f[m - 1], k))
      BY <3>4, <3>5, GrownOn
    <3> QED BY <2>2, <3>3, <3>4, <3>6
  <2> QED BY <2>3, <2>4
<1> QED BY <1>1, <1>4

LEMMA MoreQuotient ==
  ASSUME NEW a \in Nat, NEW b \in Nat, a <= b, NEW n \in Nat, n > 0
  PROVE  a \div n <= b \div n
<1> DEFINE p == a \div n
           q == b \div n
<1>1. /\ p \in Nat /\ q \in Nat /\ a % n \in 0 .. n - 1 /\ b % n \in 0 .. n - 1
      /\ a = n * p + (a % n) /\ b = n * q + (b % n)
  BY Divides
<1> HIDE DEF p, q
<1>2. CASE p > q
  <2>1. PICK d \in Nat : p = q + 1 + d
    <3>1. p - q - 1 \in Nat /\ p = q + 1 + (p - q - 1)
      BY <1>1, <1>2
    <3> QED BY <3>1
  <2>2. n * p = n * q + n + n * d /\ n * d \in Nat /\ n * q \in Nat /\ n * p \in Nat
    BY <1>1, <2>1
  <2> QED BY <1>1, <2>2
<1> QED BY <1>1, <1>2 DEF p, q

\* The sectors that len bytes take.
count(len) == (len + SectorSize - 1) \div SectorSize

\* The loop over the new sectors goes from the first beyond the old ones to the last.
LEMMA NewSectors ==
  ASSUME NEW start \in Nat, NEW end \in Nat, start < end
  PROVE  /\ count(start) \in Nat /\ count(end) \in Nat /\ count(start) <= count(end)
         /\ (end - 1) \div SectorSize = count(end) - 1
<1> DEFINE S == SectorSize
           q == (end - 1) \div S
           r == (end - 1) % S
<1>1. S \in Nat /\ S > 0 /\ start + S - 1 \in Nat /\ end + S - 1 \in Nat /\ end - 1 \in Nat
  BY Counts
<1>2. start + S - 1 <= end + S - 1
  BY <1>1
<1>3. count(start) \in Nat /\ count(end) \in Nat /\ count(start) <= count(end)
  BY <1>1, <1>2, Divides, MoreQuotient DEF count
<1>4. q \in Nat /\ r \in 0 .. S - 1 /\ end - 1 = S * q + r
  BY <1>1, Divides
<1>5. count(end) = q + 1
  <2> DEFINE c == count(end)
             m == (end + S - 1) % S
  <2>1. m \in 0 .. S - 1 /\ end + S - 1 = S * c + m
    BY <1>1, Divides DEF count
  <2> HIDE DEF c, m, q, r
  <2>2. S * (q + 1) = S * q + S
    BY <1>1, <1>4
  <2>3. S * c + m = S * (q + 1) + r
    <3>1. end + S - 1 = (end - 1) + S
      BY <1>1
    <3>2. S * q \in Nat /\ S * c \in Nat
      BY <1>1, <1>3, <1>4 DEF c
    <3> QED BY <1>1, <1>4, <2>1, <2>2, <3>1, <3>2
  <2>4. c = q + 1
    <3>1. q + 1 \in Nat /\ c \in Nat
      BY <1>3, <1>4 DEF c
    <3> QED BY <1>1, <1>4, <2>1, <2>3, <3>1, OneQuotient
  <2> QED BY <2>4 DEF c
<1> QED BY <1>3, <1>4, <1>5

-----------------------------------------------------------------------------
(* inode_update_file_length                                                 *)

\* What is true of the inode of a file: as many sectors as its length needs, and
\* index blocks only where there are sectors for them.
Whole(f, di) ==
  /\ count(di.length) <= Room
  /\ \A i \in 0 .. Room - 1 : i < count(di.length) => place(f, di, i) # 0
  /\ \A j \in 0 .. DirectEntries - 1 : j >= count(di.length) => di.direct[j] = 0
  /\ di.double # 0 => di.indirect # 0
  /\ di.indirect # 0 => count(di.length) > DirectEntries

\* byte_to_sector finds what is in the place.
LEMMA ByteInPlace ==
  ASSUME NEW f, NEW di, NEW pos \in Nat, pos < di.length, di.length \in Nat,
         pos \div SectorSize \in 0 .. Room - 1, place(f, di, pos \div SectorSize) # 0
  PROVE  byte_to_sector(f, di, pos) = place(f, di, pos \div SectorSize)
<1> DEFINE i == pos \div SectorSize
<1>1. i \in 0 .. Room - 1 /\ place(f, di, i) # 0 /\ ~ (pos >= di.length)
  OBVIOUS
<1>2. byte_to_sector(f, di, pos) =
        CASE isDirect(i)   -> di.direct[i]
          [] isIndirect(i) -> f.index[di.indirect][index0(i)]
          [] isDouble(i)   -> f.index[f.index[di.double][index1(i)]][index2(i)]
          [] OTHER         -> 0
  BY <1>1 DEF byte_to_sector
<1> HIDE DEF i
<1>3. CASE isDirect(i)
  BY <1>1, <1>2, <1>3, Levels DEF place, i
<1>4. CASE isIndirect(i)
  BY <1>1, <1>2, <1>4, Levels DEF place, via, i
<1>5. CASE isDouble(i)
  BY <1>1, <1>2, <1>5, Levels DEF place, via, i
<1> QED BY <1>1, <1>3, <1>4, <1>5, Levels

\* The place of a byte of the file.
LEMMA PlaceOfByte ==
  ASSUME NEW len \in Nat, NEW pos \in Nat, pos < len, count(len) <= Room
  PROVE  pos \div SectorSize \in 0 .. Room - 1 /\ pos \div SectorSize < count(len)
<1>1. len > 0 /\ len - 1 \in Nat /\ pos <= len - 1
  OBVIOUS
<1>2. (len - 1) \div SectorSize = count(len) - 1 /\ count(len) \in Nat
  BY <1>1, NewSectors
<1>3. pos \div SectorSize <= (len - 1) \div SectorSize
  BY <1>1, Counts, MoreQuotient
<1>4. pos \div SectorSize \in Nat
  BY Counts, Divides
<1>5. Room \in Nat
  BY Counts DEF Room
<1> QED BY <1>2, <1>3, <1>4, <1>5

\* The length of a file does not tell its sectors.
LEMMA LengthAside ==
  ASSUME NEW f, NEW di, NEW ei, ei.direct = di.direct, ei.indirect = di.indirect, ei.double = di.double
  PROVE  /\ \A i : place(f, ei, i) = place(f, di, i)
         /\ \A s, q : ptr(f, ei, s, q) = ptr(f, di, s, q)
<1>1. \A i : place(f, ei, i) = place(f, di, i)
  BY DEF place
<1>2. \A s, q : ptr(f, ei, s, q) = ptr(f, di, s, q)
  BY <1>1 DEF ptr
<1> QED BY <1>1, <1>2

\* The last sector of a file that does not fill it.
LEMMA LastSectorOf ==
  ASSUME NEW len \in Nat, len % SectorSize # 0
  PROVE  /\ len > 0 /\ count(len) \in Nat
         /\ len \div SectorSize = count(len) - 1
<1> DEFINE S == SectorSize
           q == len \div S
           m == len % S
           p == (len - 1) \div S
           r == (len - 1) % S
<1>1. S \in Nat /\ S > 0
  BY Counts
<1>2. q \in Nat /\ m \in 0 .. S - 1 /\ len = S * q + m /\ m # 0
  BY <1>1, Divides
<1> HIDE DEF q, m
<1>3. S * q \in Nat
  BY <1>1, <1>2
<1>4. len > 0 /\ len - 1 \in Nat
  BY <1>2, <1>3
<1>5. p \in Nat /\ r \in 0 .. S - 1 /\ len - 1 = S * p + r
  BY <1>1, <1>4, Divides
<1>6. p = count(len) - 1 /\ count(len) \in Nat
  BY <1>4, NewSectors
<1> HIDE DEF p, r
<1>7. S * p + r = S * q + (m - 1) /\ m - 1 \in 0 .. S - 1
  BY <1>1, <1>2, <1>3, <1>5
<1>8. p = q
  <2> DEFINE n == m - 1
  <2>1. n \in 0 .. S - 1 /\ S * p + r = S * q + n
    BY <1>7
  <2> HIDE DEF n
  <2> QED BY <1>1, <1>2, <1>5, <2>1, OneQuotient
<1> QED BY <1>4, <1>6, <1>8 DEF q

LEMMA Clears ==
  ASSUME NEW g \in GrowingType, NEW start \in Nat, start < g.di.length, count(start) <= Room,
         \A i \in 0 .. Room - 1 : i < count(start) => place(g.fs, g.di, i) # 0
  PROVE  LET a == clear_rest(g, start)
             c == place(g.fs, g.di, start \div SectorSize)
         IN /\ a \in GrowingType /\ a.di = g.di /\ a.ok = g.ok
            /\ a.fs.used = g.fs.used /\ a.fs.inode = g.fs.inode /\ a.fs.index = g.fs.index
            /\ start % SectorSize = 0 => a = g
            /\ start % SectorSize # 0 =>
                 /\ \A e \in Sectors \ {c} : a.fs.data[e] = g.fs.data[e]
                 /\ \A b \in 0 .. SectorSize - 1 :
                      a.fs.data[c][b] = IF b >= start % SectorSize THEN 0 ELSE g.fs.data[c][b]
<1> DEFINE a == clear_rest(g, start)
           c == place(g.fs, g.di, start \div SectorSize)
<1>1. CASE start % SectorSize = 0
  BY <1>1 DEF clear_rest
<1>2. CASE start % SectorSize # 0
  <2>1. start \div SectorSize \in 0 .. Room - 1 /\ c # 0
    <3>1. start \div SectorSize = count(start) - 1 /\ count(start) \in Nat /\ start \div SectorSize \in Nat /\ Room \in Nat
      <4>1. start \div SectorSize \in Nat
        BY Divides, Counts
      <4>2. Room \in Nat
        BY Counts DEF Room
      <4> QED BY <1>2, <4>1, <4>2, LastSectorOf
    <3> QED BY <3>1
  <2>2. byte_to_sector(g.fs, g.di, start) = c
    BY <2>1, ByteInPlace DEF GrowingType, InodeType
  <2>3. c \in Sectors
    BY <2>1, PtrTyped, PtrAt, RoleAt, Counts DEF GrowingType
  <2> DEFINE D == [b \in 0 .. SectorSize - 1 |-> IF b >= start % SectorSize THEN 0 ELSE g.fs.data[c][b]]
  <2>4. a = [g EXCEPT !.fs.data[c] = D]
    BY <1>2, <2>2 DEF clear_rest
  <2>5. D \in DataType /\ \A b \in 0 .. SectorSize - 1 : D[b] = IF b >= start % SectorSize THEN 0 ELSE g.fs.data[c][b]
    <3> DEFINE d == g.fs.data[c]
               m == start % SectorSize
    <3>1. d \in [0 .. SectorSize - 1 -> {0, 1}]
      BY <2>3 DEF DataType, GrowingType, DiskType
    <3> HIDE DEF d, m
    <3>2. [b \in 0 .. SectorSize - 1 |-> IF b >= m THEN 0 ELSE d[b]] \in [0 .. SectorSize - 1 -> {0, 1}]
      BY <3>1
    <3>3. D = [b \in 0 .. SectorSize - 1 |-> IF b >= m THEN 0 ELSE d[b]]
      BY DEF d, m
    <3>4. D \in DataType
      BY <3>2, <3>3, Zenon DEF DataType
    <3> QED BY <3>4
  <2> HIDE DEF a, c, D
  <2>6. /\ a \in GrowingType /\ a.di = g.di /\ a.ok = g.ok
        /\ a.fs.used = g.fs.used /\ a.fs.inode = g.fs.inode /\ a.fs.index = g.fs.index
        /\ a.fs.data[c] = D /\ \A e \in Sectors \ {c} : a.fs.data[e] = g.fs.data[e]
    BY <2>3, <2>4, <2>5 DEF GrowingType, DiskType
  <2> QED BY <1>2, <2>5, <2>6 DEF a, c
<1> QED BY <1>1, <1>2

\* An inode that names no more than another.
LEMMA NamesLess ==
  ASSUME NEW f, NEW di, NEW ei, NEW s,
         di.indirect \in {0, ei.indirect}, di.double \in {0, ei.double},
         \A j \in 0 .. DirectEntries - 1 : di.direct[j] \in {0, ei.direct[j]}
  PROVE  /\ \A i \in 0 .. Room - 1 : place(f, di, i) \in {0, place(f, ei, i)}
         /\ \A q \in Roles : ptr(f, di, s, q) \in {0, ptr(f, ei, s, q)}
<1>1. /\ \A j : via(f, di.indirect, j) \in {0, via(f, ei.indirect, j)}
      /\ \A j : via(f, di.double, j) \in {0, via(f, ei.double, j)}
  BY DEF via
<1>2. ASSUME NEW i \in 0 .. Room - 1
      PROVE  place(f, di, i) \in {0, place(f, ei, i)}
  <2>1. CASE isDirect(i)
    BY <2>1, Levels DEF place
  <2>2. CASE isIndirect(i)
    BY <1>1, <2>2, Levels DEF place
  <2>3. CASE isDouble(i)
    <3>1. ~ isDirect(i) /\ ~ isIndirect(i)
      BY <2>3, Levels
    <3> DEFINE c == via(f, di.double, index1(i))
               d == via(f, ei.double, index1(i))
    <3>2. c \in {0, d}
      BY <1>1
    <3>3. place(f, di, i) = via(f, c, index2(i)) /\ place(f, ei, i) = via(f, d, index2(i))
      BY <3>1 DEF place
    <3> QED BY <3>2, <3>3 DEF via
  <2> QED BY <2>1, <2>2, <2>3, Levels
<1>3. ASSUME NEW q \in Roles
      PROVE  ptr(f, di, s, q) \in {0, ptr(f, ei, s, q)}
  <2>1. CASE q \in {Inode, Indirect, Double}
    BY <2>1, PtrOf
  <2>2. ASSUME NEW j \in 0 .. IndirectEntries - 1, q = Second(j)
        PROVE  ptr(f, di, s, q) \in {0, ptr(f, ei, s, q)}
    BY <1>1, <2>2, PtrAt
  <2>3. ASSUME NEW i \in 0 .. Room - 1, q = Data(i)
        PROVE  ptr(f, di, s, q) \in {0, ptr(f, ei, s, q)}
    BY <1>2, <2>3, PtrAt
  <2> QED BY <2>1, <2>2, <2>3, RoleIs
<1> QED BY <1>2, <1>3

\* Growth to end bytes, from what the file in sector s is.
GrowsFrom(f, I, F, s, end) ==
  /\ f \in DiskType /\ I \in [Sectors -> InodeType] /\ F \subseteq Sectors /\ s \in F
  /\ System \subseteq f.used
  /\ Private(f, I, F)
  /\ Whole(f, I[s])
  /\ end \in Nat /\ I[s].length < end

LEMMA Grows ==
  ASSUME NEW f, NEW I, NEW F, NEW s, NEW end, GrowsFrom(f, I, F, s, end)
  PROVE  LET a == clear_rest([fs |-> f, di |-> [I[s] EXCEPT !.length = end], ok |-> TRUE], I[s].length)
         IN  Grown(a, [I EXCEPT ![s] = a.di], F, s, count(I[s].length), count(end),
                   update_file_length(f, I[s], I[s].length, end))
<1> DEFINE di == I[s]
           start == di.length
           ei == [di EXCEPT !.length = end]
           b == [fs |-> f, di |-> ei, ok |-> TRUE]
           a == clear_rest(b, start)
           J == [I EXCEPT ![s] = a.di]
           n == count(end) - count(start)
<1>1. /\ f \in DiskType /\ I \in [Sectors -> InodeType] /\ F \subseteq Sectors /\ s \in F /\ s \in Sectors
      /\ System \subseteq f.used /\ Private(f, I, F) /\ Whole(f, di) /\ end \in Nat /\ start < end
      /\ di \in InodeType /\ start \in Nat
  BY DEF GrowsFrom, InodeType
<1> HIDE DEF di, start
<1>2. ei \in InodeType /\ ei.length = end /\ ei.indirect = di.indirect /\ ei.double = di.double /\ ei.direct = di.direct
  BY <1>1 DEF InodeType
<1>3. /\ \A q \in Roles : ptr(f, ei, s, q) = ptr(f, di, s, q)
      /\ \A i \in 0 .. Room - 1 : place(f, ei, i) = place(f, di, i)
  <2> HIDE DEF ei
  <2> QED BY <1>2, LengthAside
<1> HIDE DEF ei
<1>4. b \in GrowingType /\ b.fs = f /\ b.di = ei /\ b.ok
  BY <1>1, <1>2 DEF GrowingType
<1> HIDE DEF b
<1>5. count(start) <= Room /\ \A i \in 0 .. Room - 1 : i < count(start) => place(f, di, i) # 0
  BY <1>1 DEF Whole, start
<1>6. /\ a \in GrowingType /\ a.di = ei /\ a.ok = TRUE
      /\ a.fs.used = f.used /\ a.fs.inode = f.inode /\ a.fs.index = f.index
  BY <1>1, <1>2, <1>3, <1>4, <1>5, Clears
<1> HIDE DEF a
<1>7. /\ count(start) \in Nat /\ count(end) \in Nat /\ count(start) <= count(end)
      /\ (end - 1) \div SectorSize = count(end) - 1
  BY <1>1, NewSectors
<1>8. update_file_length(f, di, start, end) = turns(a, count(start), n)
  <2>1. clear_rest([fs |-> f, di |-> [di EXCEPT !.length = end], ok |-> TRUE], start) = a
    BY DEF a, b, ei
  <2>2. update_file_length(f, di, start, end) = turns(a, count(start), ((end - 1) \div SectorSize) - count(start) + 1)
    BY <2>1 DEF update_file_length, count
  <2>3. ((end - 1) \div SectorSize) - count(start) + 1 = n
    BY <1>7
  <2> QED BY <2>2, <2>3
<1>9. n \in Nat /\ count(start) + n = count(end)
  BY <1>7
<1> HIDE DEF n
<1>10. Starts(a, J, F, s, count(start))
  <2>1. J \in [Sectors -> InodeType] /\ J[s] = a.di /\ \A t \in F : t # s => J[t] = I[t]
    BY <1>1, <1>2, <1>6
  <2> HIDE DEF J
  <2>2. \A t \in F, q \in Roles : ptr(a.fs, J[t], t, q) = ptr(f, I[t], t, q)
    <3>1. \A t, q : q \in Roles => ptr(a.fs, I[t], t, q) = ptr(f, I[t], t, q) /\ ptr(a.fs, ei, t, q) = ptr(f, ei, t, q)
      BY <1>6, IndexTells
    <3> QED BY <1>3, <1>6, <2>1, <3>1 DEF di
  <2>3. Private(a.fs, J, F)
    BY <1>1, <1>6, <2>2 DEF Private
  <2>4. \A i \in 0 .. Room - 1 : place(a.fs, a.di, i) = place(f, di, i)
    <3>1. \A i \in 0 .. Room - 1 : place(a.fs, ei, i) = place(f, ei, i)
      <4> SUFFICES ASSUME NEW i \in 0 .. Room - 1
                   PROVE  place(a.fs, ei, i) = place(f, ei, i)
        OBVIOUS
      <4>1. ptr(a.fs, ei, s, Data(i)) = ptr(f, ei, s, Data(i))
        BY <1>6, IndexTells, BlocksAreRoles
      <4> QED BY <4>1, PtrAt
    <3> QED BY <1>3, <1>6, <3>1
  <2>5. count(start) \in 0 .. Room
    BY <1>5, <1>7, Counts DEF Room
  <2>6. /\ \A j \in 0 .. DirectEntries - 1 : j >= count(start) => di.direct[j] = 0
        /\ di.double # 0 => di.indirect # 0
        /\ di.indirect # 0 => count(start) > DirectEntries
    BY <1>1 DEF Whole, start
  <2>7. \A i \in 0 .. Room - 1 : i < count(start) => place(a.fs, a.di, i) # 0
    BY <1>5, <2>4
  <2>8. /\ \A j \in 0 .. DirectEntries - 1 : j >= count(start) => a.di.direct[j] = 0
        /\ a.di.double # 0 => a.di.indirect # 0
        /\ a.di.indirect # 0 => count(start) > DirectEntries
    BY <1>2, <1>6, <2>6
  <2> QED BY <1>1, <1>6, <2>1, <2>3, <2>5, <2>7, <2>8 DEF Starts
<1>11. Grown(a, J, F, s, count(start), count(start) + n, turns(a, count(start), n))
  BY <1>9, <1>10, AllTurns
<1>12. Grown(a, J, F, s, count(start), count(end), update_file_length(f, di, start, end))
  BY <1>8, <1>9, <1>11
<1> QED BY <1>12 DEF J, a, b, ei, di, start

\* What it comes to for the files, whether it goes well or not.
LEMMA Growth ==
  ASSUME NEW f, NEW I, NEW F, NEW s, NEW end, GrowsFrom(f, I, F, s, end)
  PROVE  LET di == I[s]
             g  == update_file_length(f, di, di.length, end)
         IN /\ g \in GrowingType /\ f.used \subseteq g.fs.used /\ g.fs.inode = f.inode /\ g.di.length = end
            /\ \A t \in F, q \in Roles : t # s => ptr(g.fs, I[t], t, q) = ptr(f, I[t], t, q)
            /\ Private(g.fs, I, F) /\ Whole(g.fs, di)
            /\ \A i \in 0 .. Room - 1 : i < count(di.length) =>
                 place(g.fs, di, i) = place(f, di, i) /\ place(g.fs, g.di, i) = place(f, di, i)
            /\ g.ok => /\ Private(g.fs, [I EXCEPT ![s] = g.di], F)
                       /\ Whole(g.fs, g.di)
                       /\ Neat(f, di, count(di.length)) =>
                            /\ Neat(g.fs, g.di, count(end))
                            /\ \A y \in g.fs.used \ f.used : \E q \in Roles : ptr(g.fs, g.di, s, q) = y
                            /\ \A q \in Roles : ptr(f, di, s, q) \in {0, ptr(g.fs, g.di, s, q)}
<1> DEFINE di == I[s]
           g == update_file_length(f, di, di.length, end)
           first == count(di.length)
           b == [fs |-> f, di |-> [di EXCEPT !.length = end], ok |-> TRUE]
           a == clear_rest(b, di.length)
           J == [I EXCEPT ![s] = a.di]
<1>1. /\ f \in DiskType /\ I \in [Sectors -> InodeType] /\ F \subseteq Sectors /\ s \in F /\ s \in Sectors
      /\ System \subseteq f.used /\ Private(f, I, F) /\ Whole(f, di) /\ end \in Nat /\ di.length < end
      /\ di \in InodeType /\ di.length \in Nat
  BY DEF GrowsFrom, InodeType
<1>2. Grown(a, J, F, s, first, count(end), g)
  BY Grows
<1>3. /\ first <= Room
      /\ \A i \in 0 .. Room - 1 : i < first => place(f, di, i) # 0
      /\ \A j \in 0 .. DirectEntries - 1 : j >= first => di.direct[j] = 0
      /\ di.double # 0 => di.indirect # 0
      /\ di.indirect # 0 => first > DirectEntries
  BY <1>1 DEF Whole
<1>4. /\ a \in GrowingType /\ a.di.length = end
      /\ a.di.indirect = di.indirect /\ a.di.double = di.double /\ a.di.direct = di.direct
      /\ a.fs.used = f.used /\ a.fs.inode = f.inode /\ a.fs.index = f.index
  <2> DEFINE ei == [di EXCEPT !.length = end]
  <2>1. /\ ei \in InodeType /\ ei.length = end
        /\ ei.indirect = di.indirect /\ ei.double = di.double /\ ei.direct = di.direct
    BY <1>1 DEF InodeType
  <2> HIDE DEF ei, di
  <2>2. b \in GrowingType /\ b.fs = f /\ b.di = ei
    BY <1>1, <2>1 DEF GrowingType, ei
  <2> HIDE DEF b
  <2>3. \A i \in 0 .. Room - 1 : i < first => place(f, ei, i) # 0
    BY <1>3, <2>1, LengthAside
  <2> QED BY <1>1, <1>3, <2>1, <2>2, <2>3, Clears
<1>5. J[s] = a.di /\ \A t \in F : t # s => J[t] = I[t]
  BY <1>1
<1>6. [J EXCEPT ![s] = g.di] = [I EXCEPT ![s] = g.di]
  BY <1>1
<1> HIDE DEF di, g, a, b, J, first
<1>7. /\ \A q \in Roles, t \in Sectors : ptr(a.fs, I[t], t, q) = ptr(f, I[t], t, q)
      /\ \A q \in Roles : ptr(a.fs, a.di, s, q) = ptr(f, di, s, q)
      /\ \A i \in 0 .. Room - 1 : place(a.fs, a.di, i) = place(f, di, i)
  <2>1. \A q \in Roles, t \in Sectors : ptr(a.fs, I[t], t, q) = ptr(f, I[t], t, q)
    BY <1>4, IndexTells
  <2>2. \A q \in Roles : ptr(a.fs, a.di, s, q) = ptr(f, di, s, q)
    BY <1>1, <1>4, <2>1, LengthAside DEF di
  <2>3. ASSUME NEW i \in 0 .. Room - 1
        PROVE  place(a.fs, a.di, i) = place(f, di, i)
    BY <2>2, BlocksAreRoles, PtrAt
  <2> QED BY <2>1, <2>2, <2>3
<1>8. /\ g \in GrowingType /\ g.fs \in DiskType /\ g.di \in InodeType
      /\ f.used \subseteq g.fs.used /\ g.fs.inode = f.inode /\ g.di.length = end
  BY <1>2, <1>4 DEF Grown, GrowingType
<1>9. \A t \in F, q \in Roles : t # s => ptr(g.fs, I[t], t, q) = ptr(f, I[t], t, q)
  <2>1. \A t \in F, q \in Roles : t # s => ptr(g.fs, J[t], t, q) = ptr(a.fs, J[t], t, q)
    BY <1>2 DEF Grown
  <2> QED BY <1>1, <1>5, <1>7, <2>1
<1>10. Private(g.fs, [I EXCEPT ![s] = g.di], F)
  BY <1>2, <1>6 DEF Grown
<1>11. /\ di.indirect \in {0, g.di.indirect} /\ di.double \in {0, g.di.double}
       /\ \A i \in 0 .. Room - 1 : i < first => place(g.fs, g.di, i) = place(f, di, i)
  BY <1>2, <1>4, <1>7 DEF Grown
<1>12. \A j \in 0 .. DirectEntries - 1 : di.direct[j] \in {0, g.di.direct[j]}
  <2> SUFFICES ASSUME NEW j \in 0 .. DirectEntries - 1
               PROVE  di.direct[j] \in {0, g.di.direct[j]}
    OBVIOUS
  <2>1. CASE j >= first
    BY <1>3, <2>1
  <2>2. CASE j < first
    <3>1. j \in 0 .. Room - 1 /\ isDirect(j)
      BY <1>1, <1>3, <2>2, NewSectors, Counts DEF Room, isDirect, first
    <3> QED BY <1>11, <2>2, <3>1 DEF place
  <2>3. first \in Nat
    BY <1>1, NewSectors DEF first
  <2> QED BY <2>1, <2>2, <2>3
<1>13. /\ \A i \in 0 .. Room - 1 : place(g.fs, di, i) \in {0, place(g.fs, g.di, i)}
       /\ \A q \in Roles : ptr(g.fs, di, s, q) \in {0, ptr(g.fs, g.di, s, q)}
  BY <1>11, <1>12, NamesLess
<1>14. Private(g.fs, I, F)
  <2> DEFINE K == [I EXCEPT ![s] = g.di]
             G == g.fs
  <2>1. K[s] = g.di /\ \A t \in F : t # s => K[t] = I[t]
    BY <1>1
  <2>2. s \in F /\ System \subseteq G.used /\ G.used \subseteq G.used /\ Private(G, K, F)
    BY <1>1, <1>8, <1>10
  <2>3. \A t \in F, q \in Roles : t # s => ptr(G, I[t], t, q) = ptr(G, K[t], t, q)
    BY <2>1
  <2>4. \A q \in Roles : ptr(G, I[s], s, q) = 0 \/ ptr(G, I[s], s, q) = ptr(G, K[s], s, q)
    BY <1>13, <2>1 DEF di
  <2> HIDE DEF G, K
  <2>5. Private(G, I, F)
    BY <2>2, <2>3, <2>4, OneFileChanges
  <2> QED BY <2>5 DEF G
<1>15. /\ Whole(g.fs, di)
       /\ \A i \in 0 .. Room - 1 : i < first => place(g.fs, di, i) = place(f, di, i)
  <2>1. ASSUME NEW i \in 0 .. Room - 1, i < first
        PROVE  place(g.fs, di, i) # 0 /\ place(g.fs, di, i) = place(f, di, i)
    <3>1. place(f, di, i) # 0 /\ place(g.fs, g.di, i) = place(f, di, i)
      BY <1>3, <1>11, <2>1
    <3>2. CASE isDirect(i)
      BY <3>1, <3>2 DEF place
    <3>3. CASE isIndirect(i)
      <4>1. di.indirect # 0
        BY <3>1, <3>3, Levels DEF place, via
      <4>2. di.indirect = g.di.indirect
        BY <1>11, <4>1
      <4> QED BY <3>1, <3>3, <4>2, Levels DEF place
    <3>4. CASE isDouble(i)
      <4>1. di.double # 0
        BY <3>1, <3>4, Levels DEF place, via
      <4>2. di.double = g.di.double
        BY <1>11, <4>1
      <4> QED BY <3>1, <3>4, <4>2, Levels DEF place
    <3> QED BY <3>2, <3>3, <3>4, Levels
  <2> QED BY <1>3, <2>1 DEF Whole, first
<1>16. ASSUME g.ok
       PROVE  /\ Whole(g.fs, g.di)
              /\ Neat(f, di, first) =>
                   /\ Neat(g.fs, g.di, count(end))
                   /\ \A y \in g.fs.used \ f.used : \E q \in Roles : ptr(g.fs, g.di, s, q) = y
                   /\ \A q \in Roles : ptr(f, di, s, q) \in {0, ptr(g.fs, g.di, s, q)}
  <2>1. /\ count(end) <= Room
        /\ \A i \in 0 .. Room - 1 : i < count(end) => place(g.fs, g.di, i) # 0
        /\ \A j \in 0 .. DirectEntries - 1 : j >= count(end) => g.di.direct[j] = 0
        /\ g.di.double # 0 => g.di.indirect # 0
        /\ g.di.indirect # 0 => count(end) > DirectEntries
    BY <1>2, <1>16 DEF Grown
  <2>2. Whole(g.fs, g.di)
    BY <1>8, <2>1 DEF Whole
  <2>3. Neat(a.fs, a.di, first) =>
          /\ Neat(g.fs, g.di, count(end))
          /\ \A y \in g.fs.used \ a.fs.used : \E q \in Roles : ptr(g.fs, g.di, s, q) = y
          /\ \A q \in Roles : ptr(a.fs, a.di, s, q) \in {0, ptr(g.fs, g.di, s, q)}
    BY <1>2, <1>16 DEF Grown
  <2>4. Neat(f, di, first) => Neat(a.fs, a.di, first)
    BY <1>7 DEF Neat
  <2> QED BY <1>4, <1>7, <2>2, <2>3, <2>4
<1> QED BY <1>8, <1>9, <1>10, <1>11, <1>14, <1>15, <1>16 DEF g, di, first

-----------------------------------------------------------------------------
(* The invariant *)

Typed ==
  /\ fs \in DiskType
  /\ dir \in [Names -> Sectors]
  /\ opened \subseteq Procs \X Sectors
  /\ extend_lock \in [Sectors -> Procs \cup {NULL}]
  /\ failed \in BOOLEAN /\ stopped \in BOOLEAN
  /\ calls \in 0 .. MaxCalls

\* No two names stand for one file.
OneName == \A n, m \in Names : dir[n] # 0 /\ dir[n] = dir[m] => n = m

\* Files G on disk f, their inodes those of I.
Sound(f, I, G) ==
  /\ System \subseteq f.used
  /\ G \subseteq Sectors \ {0}
  /\ Private(f, I, G)
  /\ \A s \in G : Whole(f, I[s])

\* Every sector in use is the system's or has a place in a file.
Full(f, I, G) ==
  /\ \A s \in G : Neat(f, I[s], count(I[s].length))
  /\ \A y \in f.used \ System : \E s \in G, q \in Roles : ptr(f, I[s], s, q) = y

FSInv ==
  /\ Typed
  /\ OneName
  /\ Sound(fs, fs.inode, Files)
  /\ ~ failed => Full(fs, fs.inode, Files)

LEMMA FilesAre ==
  ASSUME Typed
  PROVE  /\ \A s : s \in Files <=> \/ s # 0 /\ \E n \in Names : dir[n] = s
                                   \/ \E p \in Procs : <<p, s>> \in opened
         /\ Files \subseteq Sectors
<1>1. \A s : s \in {x[2] : x \in opened} <=> \E p \in Procs : <<p, s>> \in opened
  <2>1. \A x \in opened : x[1] \in Procs /\ x[2] \in Sectors /\ x = <<x[1], x[2]>>
    BY DEF Typed
  <2> QED BY <2>1
<1>2. \A s : s \in named <=> s # 0 /\ \E n \in Names : dir[n] = s
  BY DEF named
<1>3. Files \subseteq Sectors
  BY DEF Typed, Files, named
<1> QED BY <1>1, <1>2, <1>3 DEF Files

\* What the index of a file names, where it has its index blocks.
LEMMA PlacesKept ==
  ASSUME NEW f, NEW h, h.index = f.index
  PROVE  /\ \A di, s : \A q \in Roles : ptr(h, di, s, q) = ptr(f, di, s, q)
         /\ \A di : \A i \in 0 .. Room - 1 : place(h, di, i) = place(f, di, i)
<1>1. \A di, s : \A q \in Roles : ptr(h, di, s, q) = ptr(f, di, s, q)
  BY IndexTells
<1>2. ASSUME NEW di, NEW i \in 0 .. Room - 1
      PROVE  place(h, di, i) = place(f, di, i)
  BY <1>1, BlocksAreRoles, PtrAt
<1> QED BY <1>1, <1>2

\* Fewer files on a disk that keeps their sectors and their index.
LEMMA SoundWithFewer ==
  ASSUME NEW f, NEW I, NEW F, Sound(f, I, F), NEW h, NEW J, NEW G, G \subseteq F,
         h.index = f.index, \A t \in G : J[t] = I[t],
         System \subseteq h.used,
         \A t \in G, q \in Roles : ptr(f, I[t], t, q) \in f.used => ptr(f, I[t], t, q) \in h.used
  PROVE  Sound(h, J, G)
<1>1. \A t \in G, q \in Roles : ptr(h, J[t], t, q) = ptr(f, I[t], t, q)
  BY PlacesKept
<1>2. Private(h, J, G)
  BY <1>1 DEF Sound, Private
<1>3. \A t \in G : Whole(h, J[t])
  BY PlacesKept DEF Sound, Whole
<1> QED BY <1>2, <1>3 DEF Sound

\* The direct sectors of a file are in places of it.
LEMMA DirectSectors ==
  ASSUME NEW f, NEW di \in InodeType, NEW s
  PROVE  /\ direct_sectors(di) \subseteq Sectors \ {0}
         /\ \A y \in direct_sectors(di) : \E q \in Roles : ptr(f, di, s, q) = y
<1> SUFFICES ASSUME NEW y \in direct_sectors(di)
             PROVE  y \in Sectors \ {0} /\ \E q \in Roles : ptr(f, di, s, q) = y
  OBVIOUS
<1>1. PICK j \in 0 .. DirectEntries - 1 : y = di.direct[j] /\ \A k \in 0 .. j : di.direct[k] > 0
  BY DEF direct_sectors, InodeType
<1>2. y \in Sectors \ {0}
  <2>1. j \in 0 .. j /\ di.direct[j] \in Sectors
    BY Counts DEF InodeType
  <2> QED BY <1>1, <2>1, Counts
<1>3. j \in 0 .. Room - 1 /\ isDirect(j)
  BY Counts DEF Room, isDirect
<1>4. \E q \in Roles : ptr(f, di, s, q) = y
  BY <1>1, <1>3, PtrAt, BlocksAreRoles DEF place
<1> QED BY <1>2, <1>4

\* A file that is freed gives back no sector of another.
LEMMA SoundWhenFreed ==
  ASSUME NEW f, NEW I, NEW F, Sound(f, I, F), I \in [Sectors -> InodeType], NEW s \in F
  PROVE  Sound(release(f, direct_sectors(I[s]) \cup {s}), I, F \ {s})
<1> DEFINE di == I[s]
           ss == direct_sectors(di) \cup {s}
           h == release(f, ss)
<1>1. h.used = f.used \ ss /\ h.index = f.index
  BY DEF release
<1>2. di \in InodeType /\ s # 0
  BY DEF Sound
<1>3. ptr(f, di, s, Inode) = s /\ Inode \in Roles
  BY PtrOf, RolesDiffer
<1> HIDE DEF di
<1>4. \A y \in direct_sectors(di) : \E q \in Roles : ptr(f, di, s, q) = y
  <2>1. di \in InodeType
    BY <1>2
  <2> QED BY ONLY <2>1, DirectSectors
<1>5. 0 \notin ss
  BY <1>2, DirectSectors
<1>6. \A y \in ss : \E q \in Roles : ptr(f, di, s, q) = y
  BY <1>3, <1>4
<1> HIDE DEF ss, h
<1>7. \A y \in ss : y \notin System /\ \A t \in F, q \in Roles : ptr(f, I[t], t, q) = y => t = s
  BY <1>5, <1>6 DEF Sound, Private, di
<1>8. System \subseteq h.used
  BY <1>1, <1>7 DEF Sound
<1>9. Sound(h, I, F \ {s})
  BY <1>1, <1>7, <1>8, SoundWithFewer
<1> QED BY <1>9 DEF h, ss, di

-----------------------------------------------------------------------------
(* Growth, as the calls use it *)

\* The file in sector s has grown from I[s] on disk f to g.di on disk g.fs.
Grew(f, I, F, s, g) ==
  /\ g \in GrowingType /\ f.used \subseteq g.fs.used /\ g.fs.inode = f.inode
  /\ Sound(g.fs, I, F)
  /\ g.ok => /\ Sound(g.fs, [I EXCEPT ![s] = g.di], F)
             /\ Full(f, I, F) => Full(g.fs, [I EXCEPT ![s] = g.di], F)

LEMMA GrewAlready ==
  ASSUME NEW f \in DiskType, NEW I \in [Sectors -> InodeType], NEW F, NEW s \in F, Sound(f, I, F)
  PROVE  Grew(f, I, F, s, [fs |-> f, di |-> I[s], ok |-> TRUE])
<1> DEFINE g == [fs |-> f, di |-> I[s], ok |-> TRUE]
<1>1. s \in Sectors /\ I[s] \in InodeType
  BY DEF Sound
<1>2. g \in GrowingType /\ g.fs = f /\ g.di = I[s] /\ g.ok
  BY <1>1 DEF GrowingType
<1> HIDE DEF g
<1>3. [I EXCEPT ![s] = g.di] = I
  BY <1>1, <1>2
<1>4. Grew(f, I, F, s, g)
  BY <1>2, <1>3 DEF Grew
<1> QED BY <1>4 DEF g

LEMMA GrewBy ==
  ASSUME NEW f \in DiskType, NEW I \in [Sectors -> InodeType], NEW F, NEW s \in F, Sound(f, I, F),
         NEW end \in Nat, I[s].length < end
  PROVE  Grew(f, I, F, s, update_file_length(f, I[s], I[s].length, end))
<1> DEFINE g == update_file_length(f, I[s], I[s].length, end)
           di == I[s]
           K == [I EXCEPT ![s] = g.di]
<1>1. GrowsFrom(f, I, F, s, end)
  BY DEF GrowsFrom, Sound
<1>2. /\ g \in GrowingType /\ f.used \subseteq g.fs.used /\ g.fs.inode = f.inode /\ g.di.length = end
      /\ \A t \in F, q \in Roles : t # s => ptr(g.fs, I[t], t, q) = ptr(f, I[t], t, q)
      /\ Private(g.fs, I, F) /\ Whole(g.fs, di)
      /\ \A i \in 0 .. Room - 1 : i < count(di.length) =>
           place(g.fs, di, i) = place(f, di, i) /\ place(g.fs, g.di, i) = place(f, di, i)
      /\ g.ok => /\ Private(g.fs, K, F)
                 /\ Whole(g.fs, g.di)
                 /\ Neat(f, di, count(di.length)) =>
                      /\ Neat(g.fs, g.di, count(end))
                      /\ \A y \in g.fs.used \ f.used : \E q \in Roles : ptr(g.fs, g.di, s, q) = y
                      /\ \A q \in Roles : ptr(f, di, s, q) \in {0, ptr(g.fs, g.di, s, q)}
  BY <1>1, Growth
<1> HIDE DEF g
<1>3. s \in Sectors /\ F \subseteq Sectors \ {0} /\ System \subseteq f.used /\ \A t \in F : Whole(f, I[t])
  BY DEF Sound
<1>4. K[s] = g.di /\ \A t \in F : t # s => K[t] = I[t]
  BY <1>3
<1> HIDE DEF K, di
<1>5. \A t \in F, i \in 0 .. Room - 1 : t # s => place(g.fs, I[t], i) = place(f, I[t], i)
  BY <1>2, BlocksAreRoles, PtrAt
<1>6. \A t \in F : t # s => Whole(g.fs, I[t])
  BY <1>3, <1>5 DEF Whole
<1>7. Sound(g.fs, I, F)
  BY <1>2, <1>3, <1>6 DEF Sound, di
<1>8. g.ok => Sound(g.fs, K, F)
  BY <1>2, <1>3, <1>4, <1>6 DEF Sound
<1>9. ASSUME g.ok, Full(f, I, F)
      PROVE  Full(g.fs, K, F)
  <2>1. \A t \in F : Neat(f, I[t], count(I[t].length))
    BY <1>9 DEF Full
  <2>2. /\ Neat(g.fs, g.di, count(end))
        /\ \A y \in g.fs.used \ f.used : \E q \in Roles : ptr(g.fs, g.di, s, q) = y
        /\ \A q \in Roles : ptr(f, di, s, q) \in {0, ptr(g.fs, g.di, s, q)}
    BY <1>2, <1>9, <2>1 DEF di
  <2>3. \A t \in F : Neat(g.fs, K[t], count(K[t].length))
    <3>1. \A t \in F : t # s => Neat(g.fs, I[t], count(I[t].length))
      BY <1>5, <2>1 DEF Neat
    <3> QED BY <1>2, <1>4, <2>2, <3>1
  <2>4. ASSUME NEW y \in g.fs.used \ System
        PROVE  \E t \in F, q \in Roles : ptr(g.fs, K[t], t, q) = y
    <3>1. CASE y \notin f.used
      <4>1. \E q \in Roles : ptr(g.fs, g.di, s, q) = y
        BY <2>2, <2>4, <3>1
      <4> QED BY <1>4, <4>1
    <3>2. CASE y \in f.used
      <4>1. PICK t \in F, q \in Roles : ptr(f, I[t], t, q) = y
        BY <1>9, <2>4, <3>2 DEF Full
      <4>2. y # 0
        BY <2>4 DEF System, FREE_MAP_SECTOR
      <4>3. CASE t = s
        BY <1>4, <2>2, <4>1, <4>2, <4>3 DEF di
      <4>4. CASE t # s
        BY <1>2, <1>4, <4>1, <4>4
      <4> QED BY <4>3, <4>4
    <3> QED BY <3>1, <3>2
  <2> QED BY <2>3, <2>4 DEF Full
<1>10. Grew(f, I, F, s, g)
  BY <1>2, <1>7, <1>8, <1>9 DEF Grew, K
<1> QED BY <1>10 DEF g

\* A disk with the same index and the same sectors in use.
LEMMA SoundAlike ==
  ASSUME NEW f, NEW I, NEW F, NEW h, h.index = f.index, h.used = f.used
  PROVE  /\ Sound(f, I, F) => Sound(h, I, F)
         /\ Full(f, I, F) => Full(h, I, F)
<1>1. Sound(f, I, F) => Sound(h, I, F)
  BY SoundWithFewer DEF Sound
<1>2. /\ \A t \in F, q \in Roles : ptr(h, I[t], t, q) = ptr(f, I[t], t, q)
      /\ \A t \in F, i \in 0 .. Room - 1 : place(h, I[t], i) = place(f, I[t], i)
  BY PlacesKept
<1>3. Full(f, I, F) => Full(h, I, F)
  BY <1>2 DEF Full, Neat
<1> QED BY <1>1, <1>3

\* filesys_create's new inode, in a free sector.
LEMMA NewFile ==
  ASSUME NEW f \in DiskType, NEW I \in [Sectors -> InodeType], NEW F, Sound(f, I, F), available(f) # {}
  PROVE  LET s == first_free(f)
             J == [I EXCEPT ![s] = EmptyInode]
         IN /\ s \in Sectors \ f.used /\ s \notin F /\ s # 0
            /\ EmptyInode \in InodeType /\ J \in [Sectors -> InodeType]
            /\ Sound(allocate(f), J, F \cup {s})
            /\ Full(f, I, F) => Full(allocate(f), J, F \cup {s})
<1> DEFINE s == first_free(f)
           J == [I EXCEPT ![s] = EmptyInode]
           h == allocate(f)
           G == F \cup {s}
<1>1. s \in Sectors \ f.used
  BY FirstFree
<1>2. h.used = f.used \cup {s} /\ h.index = f.index
  BY Allocates
<1>3. EmptyInode \in InodeType
  BY Counts DEF EmptyInode, InodeType
<1>4. /\ System \subseteq f.used /\ F \subseteq Sectors \ {0}
      /\ Private(f, I, F) /\ \A t \in F : Whole(f, I[t])
  BY DEF Sound
<1>5. s # 0 /\ s \notin System
  BY <1>1, <1>4 DEF System, FREE_MAP_SECTOR
<1> HIDE DEF s, h
<1>6. s \notin F
  <2>1. \A t \in F : ptr(f, I[t], t, Inode) = t /\ Inode \in Roles /\ t # 0
    BY <1>4, PtrOf, RolesDiffer
  <2>2. \A t \in F : t \in f.used
    BY <1>4, <2>1 DEF Private
  <2> QED BY <1>1, <2>2
<1>7. J \in [Sectors -> InodeType] /\ J[s] = EmptyInode /\ \A t \in F : J[t] = I[t]
  BY <1>1, <1>3, <1>4, <1>6
<1> HIDE DEF J
<1>8. /\ \A i \in 0 .. Room - 1 : place(h, EmptyInode, i) = 0
      /\ \A q \in Roles : ptr(h, EmptyInode, s, q) \in {0, s}
      /\ \A q \in Roles : ptr(h, EmptyInode, s, q) = s => q = Inode
  <2>1. \A j \in 0 .. DirectEntries - 1 : EmptyInode.direct[j] = 0
    BY DEF EmptyInode
  <2>2. EmptyInode.indirect = 0 /\ EmptyInode.double = 0
    BY DEF EmptyInode
  <2>3. \A i \in 0 .. Room - 1 : place(h, EmptyInode, i) = 0
    BY <2>1, <2>2, Levels DEF place, via
  <2>4. \A j : via(h, EmptyInode.double, j) = 0
    BY <2>2 DEF via
  <2>5. ASSUME NEW q \in Roles
        PROVE  q = Inode \/ ptr(h, EmptyInode, s, q) = 0
    BY <2>2, <2>3, <2>4, RoleIs, PtrOf, PtrAt
  <2> QED BY <1>5, <2>3, <2>5, PtrOf
<1>9. \A t \in F, q \in Roles : ptr(h, J[t], t, q) = ptr(f, I[t], t, q)
  BY <1>2, <1>7, PlacesKept
<1>10. Private(h, J, G)
  <2>1. ASSUME NEW t \in G, NEW q \in Roles, ptr(h, J[t], t, q) # 0
        PROVE  /\ ptr(h, J[t], t, q) \in h.used \ System
               /\ ptr(h, J[t], t, q) = s <=> t = s
               /\ t = s => q = Inode
    <3>1. CASE t = s
      BY <1>2, <1>5, <1>7, <1>8, <2>1, <3>1
    <3>2. CASE t # s
      <4>1. t \in F /\ ptr(f, I[t], t, q) \in f.used \ System
        BY <1>4, <1>9, <2>1, <3>2 DEF Private
      <4> QED BY <1>1, <1>2, <1>9, <3>2, <4>1
    <3> QED BY <3>1, <3>2
  <2>2. ASSUME NEW t \in G, NEW q \in Roles, ptr(h, J[t], t, q) # 0,
               NEW u \in G, NEW p \in Roles, ptr(h, J[u], u, p) = ptr(h, J[t], t, q)
        PROVE  u = t /\ p = q
    <3>1. CASE t = s
      BY <2>1, <2>2, <3>1
    <3>2. CASE t # s
      <4>1. u # s
        BY <2>1, <2>2, <3>2
      <4>2. t \in F /\ u \in F
        BY <3>2, <4>1
      <4> QED BY <1>4, <1>9, <2>2, <4>2 DEF Private
    <3> QED BY <3>1, <3>2
  <2> QED BY <2>1, <2>2 DEF Private
<1>11. count(0) = 0
  <2>1. SectorSize \in Nat /\ SectorSize > 0
    BY Counts
  <2> DEFINE c == count(0)
             m == (SectorSize - 1) % SectorSize
  <2>2. c \in Nat /\ m \in 0 .. SectorSize - 1 /\ SectorSize - 1 = SectorSize * c + m
    BY <2>1, Divides DEF count
  <2> HIDE DEF c, m
  <2>3. SectorSize * c + m = SectorSize * 0 + (SectorSize - 1)
    BY <2>1, <2>2
  <2>4. SectorSize - 1 \in 0 .. SectorSize - 1 /\ 0 \in Nat
    BY <2>1
  <2>5. c = 0
    <3> DEFINE r == SectorSize - 1
               z == 0
    <3>1. z \in Nat /\ r \in 0 .. SectorSize - 1 /\ SectorSize * c + m = SectorSize * z + r
      BY <2>3, <2>4
    <3> HIDE DEF r, z
    <3>2. c = z
      BY <2>1, <2>2, <3>1, OneQuotient
    <3> QED BY <3>2 DEF z
  <2> QED BY <2>5 DEF c
<1>12. EmptyInode.length = 0 /\ EmptyInode.double = 0 /\ EmptyInode.indirect = 0
  BY DEF EmptyInode
<1>13. Whole(h, EmptyInode)
  <2>1. 0 <= Room
    BY Counts DEF Room
  <2>2. \A j \in 0 .. DirectEntries - 1 : EmptyInode.direct[j] = 0
    BY DEF EmptyInode
  <2>3. \A i \in 0 .. Room - 1 : ~ (i < 0)
    OBVIOUS
  <2> QED BY <1>11, <1>12, <2>1, <2>2, <2>3 DEF Whole
<1>14. \A t \in F : Whole(h, J[t])
  BY <1>2, <1>4, <1>7, PlacesKept DEF Whole
<1>15. Sound(h, J, G)
  BY <1>1, <1>2, <1>4, <1>5, <1>7, <1>10, <1>13, <1>14 DEF Sound
<1>16. ASSUME Full(f, I, F)
       PROVE  Full(h, J, G)
  <2>1. \A t \in F : Neat(h, J[t], count(J[t].length))
    BY <1>2, <1>7, <1>16, PlacesKept DEF Full, Neat
  <2>2. Neat(h, J[s], count(J[s].length))
    BY <1>7, <1>8 DEF Neat
  <2>3. ASSUME NEW y \in h.used \ System
        PROVE  \E t \in G, q \in Roles : ptr(h, J[t], t, q) = y
    <3>1. CASE y = s
      BY <1>7, <3>1, PtrOf, RolesDiffer
    <3>2. CASE y # s
      <4>1. PICK t \in F, q \in Roles : ptr(f, I[t], t, q) = y
        BY <1>2, <1>16, <2>3, <3>2 DEF Full
      <4> QED BY <1>9, <4>1
    <3> QED BY <3>1, <3>2
  <2> QED BY <2>1, <2>2, <2>3 DEF Full
<1> QED BY <1>1, <1>3, <1>5, <1>6, <1>7, <1>15, <1>16 DEF s, J, h

-----------------------------------------------------------------------------
(* The calls keep the invariant *)

LEMMA CreateKeeps ==
  ASSUME FSInv, NEW n \in Names, NEW len \in Lengths, filesys_create(n, len)
  PROVE  FSInv'
<1> DEFINE s == first_free(fs)
           f == allocate(fs)
           g == IF len > 0 THEN update_file_length(f, EmptyInode, 0, len) ELSE [fs |-> f, di |-> EmptyInode, ok |-> TRUE]
           created == [g.fs EXCEPT !.inode[s] = g.di]
           I == fs.inode
           J == [I EXCEPT ![s] = EmptyInode]
           F == Files
           G == F \cup {s}
           K == [J EXCEPT ![s] = g.di]
<1>1. /\ fs \in DiskType /\ I \in [Sectors -> InodeType] /\ dir \in [Names -> Sectors]
      /\ opened \subseteq Procs \X Sectors /\ extend_lock \in [Sectors -> Procs \cup {NULL}]
      /\ failed \in BOOLEAN /\ stopped \in BOOLEAN /\ calls \in 0 .. MaxCalls
      /\ OneName /\ Sound(fs, I, F) /\ (~ failed => Full(fs, I, F))
  BY DEF FSInv, Typed, DiskType
<1>2. calls < MaxCalls /\ calls' = calls + 1 /\ UNCHANGED <<opened, extend_lock, stopped>>
  BY DEF filesys_create
<1>3. calls' \in 0 .. MaxCalls
  BY <1>1, <1>2, FileSysAssumption
<1>4. CASE available(fs) = {} /\ failed' = TRUE /\ UNCHANGED <<fs, dir>>
  <2>1. Files' = Files
    BY <1>2, <1>4 DEF Files, named
  <2> QED BY <1>1, <1>2, <1>3, <1>4, <2>1 DEF FSInv, Typed, OneName
<1>5. ASSUME available(fs) # {}
      PROVE  /\ s \in Sectors \ fs.used /\ s \notin F /\ s # 0
             /\ J \in [Sectors -> InodeType] /\ J[s] = EmptyInode /\ EmptyInode \in InodeType
             /\ g \in GrowingType /\ fs.used \subseteq g.fs.used /\ s \in g.fs.used /\ g.fs.inode = I
             /\ Sound(g.fs, J, G)
             /\ g.ok => Sound(g.fs, K, G) /\ (Full(fs, I, F) => Full(g.fs, K, G))
  <2>1. /\ s \in Sectors \ fs.used /\ s \notin F /\ s # 0
        /\ EmptyInode \in InodeType /\ J \in [Sectors -> InodeType]
        /\ Sound(f, J, G) /\ (Full(fs, I, F) => Full(f, J, G))
    BY <1>1, <1>5, NewFile
  <2>2. f \in DiskType /\ f.used = fs.used \cup {s} /\ f.inode = I
    BY <1>1, <1>5, Allocates
  <2>3. J[s] = EmptyInode /\ J[s].length = 0
    BY <1>1, <2>1 DEF EmptyInode
  <2> HIDE DEF f, J, s, F, I
  <2>4. Grew(f, J, G, s, g)
    <3>1. CASE len > 0
      <4>1. len \in Nat /\ g = update_file_length(f, J[s], J[s].length, len)
        BY <2>3, <3>1, FileSysAssumption
      <4> QED BY <2>1, <2>2, <2>3, <3>1, <4>1, GrewBy
    <3>2. CASE ~ (len > 0)
      <4>1. g = [fs |-> f, di |-> J[s], ok |-> TRUE]
        BY <2>3, <3>2
      <4> QED BY <2>1, <2>2, <4>1, GrewAlready
    <3> QED BY <3>1, <3>2
  <2> HIDE DEF g
  <2> QED BY <2>1, <2>2, <2>3, <2>4 DEF Grew
<1> HIDE DEF g, s, I, J
<1>6. CASE /\ available(fs) # {} /\ g.ok /\ dir[n] = 0
           /\ fs' = created /\ dir' = [dir EXCEPT ![n] = s] /\ failed' = failed
  <2>1. /\ s \in Sectors \ fs.used /\ s \notin F /\ s # 0
        /\ J \in [Sectors -> InodeType] /\ EmptyInode \in InodeType
        /\ g \in GrowingType /\ g.fs.inode = I
        /\ Sound(g.fs, K, G) /\ (Full(fs, I, F) => Full(g.fs, K, G))
    BY <1>5, <1>6
  <2>2. /\ created \in DiskType /\ created.used = g.fs.used /\ created.index = g.fs.index
        /\ created.inode = [I EXCEPT ![s] = g.di]
    BY <2>1 DEF GrowingType, DiskType
  <2>3. K = created.inode
    BY <1>1, <2>1, <2>2 DEF J
  <2>4. Files' = G
    <3>1. \A t : t \in named' <=> t \in named \cup {s}
      BY <1>1, <1>6, <2>1 DEF named
    <3> QED BY <1>2, <3>1 DEF Files
  <2> HIDE DEF created, K, F
  <2>5. Sound(created, created.inode, G) /\ (Full(fs, I, F) => Full(created, created.inode, G))
    BY <2>1, <2>2, <2>3, SoundAlike
  <2>6. OneName'
    <3>1. \A m \in Names : dir[m] # s
      BY <2>1, <1>1, FilesAre DEF FSInv, F
    <3> QED BY <1>1, <1>6, <3>1 DEF OneName
  <2>7. Typed'
    <3>1. dir' \in [Names -> Sectors]
      BY <1>1, <1>6, <2>1
    <3> QED BY <1>1, <1>2, <1>3, <1>6, <2>2, <3>1 DEF Typed
  <2>8. Sound(fs, fs.inode, Files)' /\ (~ failed' => Full(fs, fs.inode, Files)')
    BY <1>1, <1>6, <2>4, <2>5
  <2> QED BY <2>6, <2>7, <2>8 DEF FSInv
<1>7. CASE /\ available(fs) # {} /\ fs' = release(IF g.ok THEN created ELSE g.fs, {s})
           /\ failed' = TRUE /\ UNCHANGED dir
  <2> DEFINE h == IF g.ok THEN created ELSE g.fs
  <2>1. /\ s \in Sectors \ fs.used /\ s \notin F /\ s # 0
        /\ J \in [Sectors -> InodeType] /\ EmptyInode \in InodeType
        /\ g \in GrowingType /\ g.fs.inode = I /\ Sound(g.fs, J, G)
    BY <1>5, <1>7
  <2>2. /\ h \in DiskType /\ h.used = g.fs.used /\ h.index = g.fs.index
        /\ \A t \in Sectors \ {s} : h.inode[t] = I[t]
    BY <2>1 DEF GrowingType, DiskType
  <2>3. \A t \in F : J[t] = I[t] /\ t \in Sectors \ {s}
    BY <1>1, <2>1 DEF J, Sound
  <2> HIDE DEF h, F, created
  <2>4. /\ release(h, {s}) \in DiskType /\ release(h, {s}).used = h.used \ {s}
        /\ release(h, {s}).inode = h.inode /\ release(h, {s}).index = h.index
    BY <2>2, Releases
  <2>5. fs' = release(h, {s})
    BY <1>7 DEF h
  <2>6. \A t \in F, q \in Roles : ptr(g.fs, J[t], t, q) # s
    <3>1. ptr(g.fs, J[s], s, Inode) = s /\ Inode \in Roles /\ s \in G
      BY PtrOf, RolesDiffer
    <3>2. \A t \in F, q \in Roles : ptr(g.fs, J[t], t, q) = s => t = s
      BY <2>1, <3>1 DEF Sound, Private
    <3> QED BY <2>3, <3>2
  <2>7. System \subseteq release(h, {s}).used
    <3>1. System \subseteq fs.used /\ System \subseteq g.fs.used
      BY <1>1, <2>1 DEF Sound
    <3> QED BY <2>1, <2>2, <2>4, <3>1
  <2>8. Sound(release(h, {s}), h.inode, F)
    <3> DEFINE r == release(h, {s})
               gf == g.fs
               hi == h.inode
    <3>1. /\ Sound(gf, J, G) /\ F \subseteq G /\ r.index = gf.index
          /\ \A t \in F : hi[t] = J[t]
          /\ System \subseteq r.used
      BY <2>1, <2>2, <2>3, <2>4, <2>7
    <3>2. \A t \in F, q \in Roles : ptr(gf, J[t], t, q) \in gf.used => ptr(gf, J[t], t, q) \in r.used
      BY <2>2, <2>4, <2>6
    <3> HIDE DEF r, gf, hi, G
    <3>3. Sound(r, hi, F)
      BY <3>1, <3>2, SoundWithFewer
    <3> QED BY <3>3 DEF r, hi
  <2>9. Files' = F
    BY <1>2, <1>7 DEF Files, named, F
  <2>10. Typed'
    BY <1>1, <1>2, <1>3, <1>7, <2>4, <2>5 DEF Typed
  <2>11. Sound(fs, fs.inode, Files)'
    BY <2>4, <2>5, <2>8, <2>9
  <2>12. OneName'
    BY <1>1, <1>7 DEF OneName
  <2> QED BY <1>7, <2>10, <2>11, <2>12 DEF FSInv
<1>8. \/ available(fs) = {} /\ failed' = TRUE /\ UNCHANGED <<fs, dir>>
      \/ /\ available(fs) # {} /\ g.ok /\ dir[n] = 0
         /\ fs' = created /\ dir' = [dir EXCEPT ![n] = s] /\ failed' = failed
      \/ /\ available(fs) # {} /\ fs' = release(IF g.ok THEN created ELSE g.fs, {s})
         /\ failed' = TRUE /\ UNCHANGED dir
  BY DEF filesys_create, g, s
<1> QED BY <1>4, <1>6, <1>7, <1>8

\* A file without index blocks gives all its sectors back.
LEMMA FullWhenFreed ==
  ASSUME NEW f, NEW I, NEW F, Sound(f, I, F), I \in [Sectors -> InodeType], Full(f, I, F),
         NEW s \in F, ~ misread(I[s])
  PROVE  Full(release(f, direct_sectors(I[s]) \cup {s}), I, F \ {s})
<1> DEFINE di == I[s]
           ss == direct_sectors(di) \cup {s}
           h == release(f, ss)
<1>1. h.used = f.used \ ss /\ h.index = f.index
  BY DEF release
<1>2. di \in InodeType /\ Whole(f, di) /\ di.indirect = 0
  BY DEF Sound, misread
<1> HIDE DEF di, ss, h
<1>3. di.double = 0 /\ \A j : via(f, di.double, j) = 0 /\ via(f, di.indirect, j) = 0
  BY <1>2 DEF Whole, via
<1>4. ASSUME NEW i \in 0 .. Room - 1, place(f, di, i) # 0
      PROVE  place(f, di, i) \in direct_sectors(di)
  <2>1. isDirect(i)
    <3>1. ~ isIndirect(i)
      BY <1>3, <1>4, Levels DEF place
    <3>2. CASE isDouble(i)
      <4>1. place(f, di, i) = via(f, 0, index2(i))
        BY <1>3, <3>2, Levels DEF place
      <4> QED BY <1>4, <4>1 DEF via
    <3> QED BY <3>1, <3>2, Levels
  <2>2. place(f, di, i) = di.direct[i] /\ i \in 0 .. DirectEntries - 1
    BY <2>1, Levels DEF place
  <2>3. count(di.length) \in Nat
    <3>1. SectorSize \in Nat /\ SectorSize > 0 /\ di.length + SectorSize - 1 \in Nat
      BY <1>2, Counts DEF InodeType
    <3> QED BY <3>1, Divides DEF count
  <2>4. i < count(di.length)
    BY <1>2, <1>4, <2>2, <2>3 DEF Whole
  <2>5. ASSUME NEW k \in 0 .. i
        PROVE  di.direct[k] > 0
    <3>1. k \in 0 .. Room - 1 /\ k \in 0 .. DirectEntries - 1 /\ k < count(di.length) /\ isDirect(k)
      BY <2>2, <2>3, <2>4, Counts DEF Room, isDirect
    <3>2. place(f, di, k) # 0
      BY <1>2, <3>1 DEF Whole
    <3>3. di.direct[k] # 0 /\ di.direct[k] \in Sectors
      BY <1>2, <3>1, <3>2 DEF place, InodeType
    <3> QED BY <3>3, Counts
  <2>6. DOMAIN di.direct = 0 .. DirectEntries - 1
    BY <1>2 DEF InodeType
  <2> QED BY <2>2, <2>5, <2>6 DEF direct_sectors
<1>5. \A q \in Roles : ptr(f, di, s, q) \in ss \cup {0}
  <2> SUFFICES ASSUME NEW q \in Roles PROVE ptr(f, di, s, q) \in ss \cup {0}
    OBVIOUS
  <2>1. CASE q \in {Inode, Indirect, Double}
    BY <1>2, <1>3, <2>1, PtrOf DEF ss
  <2>2. ASSUME NEW j \in 0 .. IndirectEntries - 1, q = Second(j)
        PROVE  ptr(f, di, s, q) \in ss \cup {0}
    BY <1>3, <2>2, PtrAt
  <2>3. ASSUME NEW i \in 0 .. Room - 1, q = Data(i)
        PROVE  ptr(f, di, s, q) \in ss \cup {0}
    BY <1>4, <2>3, PtrAt DEF ss
  <2> QED BY <2>1, <2>2, <2>3, RoleIs
<1>6. \A t \in F \ {s} : Neat(h, I[t], count(I[t].length))
  BY <1>1, PlacesKept DEF Full, Neat
<1>7. ASSUME NEW y \in h.used \ System
      PROVE  \E t \in F \ {s}, q \in Roles : ptr(h, I[t], t, q) = y
  <2>1. PICK t \in F, q \in Roles : ptr(f, I[t], t, q) = y
    BY <1>1, <1>7 DEF Full
  <2>2. y # 0 /\ y \notin ss
    BY <1>1, <1>7 DEF System, FREE_MAP_SECTOR
  <2>3. t # s
    BY <1>5, <2>1, <2>2 DEF di
  <2> QED BY <1>1, <2>1, <2>3, PlacesKept
<1>8. Full(h, I, F \ {s})
  BY <1>6, <1>7 DEF Full
<1> QED BY <1>8 DEF h, ss, di

LEMMA Unpack ==
  ASSUME FSInv
  PROVE  /\ fs \in DiskType /\ fs.inode \in [Sectors -> InodeType] /\ dir \in [Names -> Sectors]
         /\ opened \subseteq Procs \X Sectors /\ extend_lock \in [Sectors -> Procs \cup {NULL}]
         /\ failed \in BOOLEAN /\ stopped \in BOOLEAN /\ calls \in 0 .. MaxCalls
         /\ OneName /\ Sound(fs, fs.inode, Files) /\ (~ failed => Full(fs, fs.inode, Files))
BY DEF FSInv, Typed, DiskType

\* free_inode, of a file that is gone.
LEMMA FreeKeeps ==
  ASSUME FSInv, NEW s \in Files, ~ misread(fs.inode[s]), free_inode(s),
         Files' = Files \ {s}, UNCHANGED failed
  PROVE  fs' \in DiskType /\ Sound(fs, fs.inode, Files)' /\ (~ failed' => Full(fs, fs.inode, Files)')
<1> DEFINE I == fs.inode
           F == Files
           ss == direct_sectors(I[s]) \cup {s}
           h == release(fs, ss)
<1>1. fs \in DiskType /\ I \in [Sectors -> InodeType] /\ Sound(fs, I, F) /\ (~ failed => Full(fs, I, F))
  BY Unpack
<1>2. h \in DiskType /\ h.inode = I
  BY <1>1, Releases
<1>3. Sound(h, I, F \ {s}) /\ (Full(fs, I, F) => Full(h, I, F \ {s}))
  BY <1>1, SoundWhenFreed, FullWhenFreed
<1>4. fs' = h
  BY DEF free_inode
<1> QED BY <1>1, <1>2, <1>3, <1>4

LEMMA OpenKeeps ==
  ASSUME FSInv, NEW p \in Procs, NEW n \in Names, filesys_open(p, n)
  PROVE  FSInv'
<1>1. /\ dir[n] # 0 /\ opened' = opened \cup {<<p, dir[n]>>}
      /\ UNCHANGED <<fs, dir, extend_lock, calls, failed, stopped>>
  BY DEF filesys_open
<1>2. dir[n] \in Sectors /\ opened' \subseteq Procs \X Sectors
  BY <1>1, Unpack
<1>3. Files' = Files
  <2>1. {x[2] : x \in opened'} = {x[2] : x \in opened} \cup {dir[n]}
    <3> DEFINE y == <<p, dir[n]>>
    <3>1. y[2] = dir[n] /\ opened' = opened \cup {y}
      BY <1>1
    <3> HIDE DEF y
    <3> QED BY <3>1
  <2>2. dir[n] \in named /\ named' = named
    BY <1>1 DEF named
  <2> QED BY <2>1, <2>2 DEF Files
<1> QED BY <1>1, <1>2, <1>3, Unpack DEF FSInv, Typed, OneName

LEMMA StopKeeps ==
  ASSUME FSInv, stop
  PROVE  FSInv'
<1>1. Files' = Files
  BY DEF stop, Files, named
<1> QED BY <1>1 DEF stop, FSInv, Typed, OneName

LEMMA RemoveKeeps ==
  ASSUME FSInv, NEW n \in Names, filesys_remove(n)
  PROVE  FSInv'
<1> DEFINE s == dir[n]
<1>1. CASE stop
  BY <1>1, StopKeeps
<1>2. CASE ~ stop
  <2>1. /\ s # 0 /\ dir' = [dir EXCEPT ![n] = 0]
        /\ UNCHANGED <<opened, extend_lock, calls, failed, stopped>>
        /\ openers(s) = {} => ~ misread(fs.inode[s]) /\ free_inode(s)
        /\ openers(s) # {} => UNCHANGED fs
    BY <1>2 DEF filesys_remove
  <2>2. dir' \in [Names -> Sectors] /\ 0 \in Sectors
    BY <2>1, Unpack, Counts
  <2>3. OneName'
    BY <2>1, Unpack DEF OneName
  <2>4. named' = named \ {s}
    <3>1. \A t : t \in named' <=> t \in named /\ t # s
      BY <2>1, Unpack DEF named, OneName
    <3> QED BY <3>1
  <2>5. s \in Files
    BY <2>1 DEF Files, named
  <2>6. s \in {x[2] : x \in opened} <=> openers(s) # {}
    <3>1. \A x \in opened : x[1] \in Procs /\ x = <<x[1], x[2]>>
      BY Unpack
    <3> QED BY <3>1 DEF openers
  <2>7. CASE openers(s) = {}
    <3>1. Files' = Files \ {s}
      BY <2>1, <2>4, <2>6, <2>7 DEF Files
    <3>2. fs' \in DiskType /\ Sound(fs, fs.inode, Files)' /\ (~ failed' => Full(fs, fs.inode, Files)')
      BY <2>1, <2>5, <2>7, <3>1, FreeKeeps
    <3> QED BY <2>1, <2>2, <2>3, <3>2, Unpack DEF FSInv, Typed
  <2>8. CASE openers(s) # {}
    <3>1. Files' = Files
      BY <2>1, <2>4, <2>6, <2>8 DEF Files
    <3> QED BY <2>1, <2>2, <2>3, <2>8, <3>1, Unpack DEF FSInv, Typed
  <2> QED BY <2>7, <2>8
<1> QED BY <1>1, <1>2

LEMMA CloseKeeps ==
  ASSUME FSInv, NEW p \in Procs, NEW s \in Sectors, file_close(p, s)
  PROVE  FSInv'
<1> DEFINE gone == openers(s) = {p} /\ s \notin named
<1>1. CASE stop
  BY <1>1, StopKeeps
<1>2. CASE ~ stop
  <2>1. /\ <<p, s>> \in opened /\ opened' = opened \ {<<p, s>>}
        /\ extend_lock' = extend_lock \/ extend_lock' = [extend_lock EXCEPT ![s] = NULL]
        /\ UNCHANGED <<dir, calls, failed, stopped>>
        /\ gone => ~ misread(fs.inode[s]) /\ free_inode(s)
        /\ ~ gone => UNCHANGED fs
    BY <1>2 DEF file_close
  <2>2. opened' \subseteq Procs \X Sectors /\ extend_lock' \in [Sectors -> Procs \cup {NULL}]
    BY <2>1, Unpack
  <2>3. OneName' /\ named' = named
    BY <2>1, Unpack DEF OneName, named
  <2>4. s \in Files
    BY <2>1 DEF Files
  <2>5. \A x \in opened : x[1] \in Procs /\ x = <<x[1], x[2]>>
    BY Unpack
  <2>6. \A t : t \in {x[2] : x \in opened'} <=> \E x \in opened : x[2] = t /\ x # <<p, s>>
    BY <2>1
  <2>7. \A t : t # s => (t \in {x[2] : x \in opened'} <=> t \in {x[2] : x \in opened})
    BY <2>6
  <2>8. s \in {x[2] : x \in opened'} <=> openers(s) # {p}
    <3>1. s \in {x[2] : x \in opened'} => \E o \in Procs : o # p /\ <<o, s>> \in opened
      BY <2>5, <2>6
    <3>2. \A o \in Procs : o # p /\ <<o, s>> \in opened => s \in {x[2] : x \in opened'}
      BY <2>6
    <3>3. p \in openers(s)
      BY <2>1 DEF openers
    <3> QED BY <3>1, <3>2, <3>3 DEF openers
  <2>9. CASE gone
    <3>1. Files' = Files \ {s}
      BY <2>3, <2>7, <2>8, <2>9 DEF Files
    <3>2. fs' \in DiskType /\ Sound(fs, fs.inode, Files)' /\ (~ failed' => Full(fs, fs.inode, Files)')
      BY <2>1, <2>4, <2>9, <3>1, FreeKeeps
    <3> QED BY <2>1, <2>2, <2>3, <3>2, Unpack DEF FSInv, Typed
  <2>10. CASE ~ gone
    <3>1. Files' = Files
      BY <2>3, <2>4, <2>7, <2>8, <2>10 DEF Files
    <3> QED BY <2>1, <2>2, <2>3, <2>10, <3>1, Unpack DEF FSInv, Typed
  <2> QED BY <2>9, <2>10
<1> QED BY <1>1, <1>2

LEMMA Writes ==
  ASSUME NEW f \in DiskType, NEW di, NEW off, NEW size, NEW s \in Sectors, NEW ei \in InodeType
  PROVE  LET h == [written(f, di, off, size) EXCEPT !.inode[s] = ei]
         IN /\ h \in DiskType /\ h.used = f.used /\ h.index = f.index
            /\ h.inode = [f.inode EXCEPT ![s] = ei]
<1> DEFINE d == [c \in Sectors |-> [b \in 0 .. SectorSize - 1 |->
                  IF \E pos \in off .. off + size - 1 : pos % SectorSize = b /\ byte_to_sector(f, di, pos) = c
                  THEN 1 ELSE f.data[c][b]]]
           w == written(f, di, off, size)
<1>1. d \in [Sectors -> DataType]
  <2> SUFFICES ASSUME NEW c \in Sectors
               PROVE  d[c] \in DataType
    OBVIOUS
  <2>1. f.data[c] \in DataType
    BY DEF DiskType
  <2>2. \A b \in 0 .. SectorSize - 1 : d[c][b] \in {0, 1}
    BY <2>1 DEF DataType
  <2>3. d[c] = [b \in 0 .. SectorSize - 1 |-> d[c][b]]
    OBVIOUS
  <2> HIDE DEF d
  <2> QED BY <2>2, <2>3 DEF DataType
<1>2. w = [f EXCEPT !.data = d]
  BY DEF written
<1> HIDE DEF d, w
<1>3. w \in DiskType /\ w.used = f.used /\ w.index = f.index /\ w.inode = f.inode
  BY <1>1, <1>2 DEF DiskType
<1> DEFINE h == [w EXCEPT !.inode[s] = ei]
<1>4. /\ h \in DiskType /\ h.used = f.used /\ h.index = f.index
      /\ h.inode = [f.inode EXCEPT ![s] = ei]
  BY <1>3 DEF DiskType
<1> QED BY <1>4 DEF w

LEMMA WriteKeeps ==
  ASSUME FSInv, NEW p \in Procs, NEW s \in Sectors, NEW off \in Offsets, NEW size \in Sizes,
         inode_write_at(p, s, off, size)
  PROVE  FSInv'
<1> DEFINE I == fs.inode
           di == I[s]
           end == off + size
           g == IF end > di.length THEN update_file_length(fs, di, di.length, end)
                                   ELSE [fs |-> fs, di |-> di, ok |-> TRUE]
           F == Files
           K == [I EXCEPT ![s] = g.di]
           h == [written(g.fs, g.di, off, size) EXCEPT !.inode[s] = g.di]
<1>1. /\ fs \in DiskType /\ I \in [Sectors -> InodeType] /\ Sound(fs, I, F) /\ (~ failed => Full(fs, I, F))
      /\ calls \in 0 .. MaxCalls /\ opened \subseteq Procs \X Sectors
      /\ extend_lock \in [Sectors -> Procs \cup {NULL}]
  BY Unpack
<1>2. <<p, s>> \in opened /\ calls < MaxCalls /\ s \in F
  <2>1. <<p, s>> \in opened /\ calls < MaxCalls
    BY DEF inode_write_at
  <2> QED BY <2>1 DEF Files
<1>3. calls + 1 \in 0 .. MaxCalls
  BY <1>1, <1>2, FileSysAssumption
<1>4. Grew(fs, I, F, s, g)
  <2>1. end \in Nat /\ di.length \in Nat
    <3>1. off \in Nat /\ size \in Nat
      BY FileSysAssumption
    <3>2. di \in InodeType
      BY <1>1
    <3> QED BY <3>1, <3>2 DEF InodeType
  <2> HIDE DEF end, F
  <2>2. CASE end > di.length
    <3>1. g = update_file_length(fs, I[s], I[s].length, end)
      BY <2>2
    <3> HIDE DEF I, g
    <3> QED BY <1>1, <1>2, <2>1, <2>2, <3>1, GrewBy
  <2>3. CASE ~ (end > di.length)
    <3>1. g = [fs |-> fs, di |-> I[s], ok |-> TRUE]
      BY <2>3
    <3> HIDE DEF I, g
    <3> QED BY <1>1, <1>2, <3>1, GrewAlready
  <2> QED BY <2>2, <2>3
<1>5. \/ stop
      \/ /\ g.ok /\ fs' = h /\ calls' = calls + 1
         /\ UNCHANGED <<dir, opened, extend_lock, failed, stopped>>
      \/ /\ fs' = g.fs /\ calls' = calls + 1 /\ failed' = TRUE
         /\ extend_lock' = [extend_lock EXCEPT ![s] = p]
         /\ UNCHANGED <<dir, opened, stopped>>
  BY DEF inode_write_at
<1> HIDE DEF g
<1>6. /\ g \in GrowingType /\ g.fs \in DiskType /\ g.di \in InodeType /\ g.fs.inode = I
      /\ Sound(g.fs, I, F)
      /\ g.ok => Sound(g.fs, K, F) /\ (Full(fs, I, F) => Full(g.fs, K, F))
  BY <1>4 DEF Grew, GrowingType
<1>7. CASE stop
  BY <1>7, StopKeeps
<1>8. CASE /\ g.ok /\ fs' = h /\ calls' = calls + 1
           /\ UNCHANGED <<dir, opened, extend_lock, failed, stopped>>
  <2>1. h \in DiskType /\ h.used = g.fs.used /\ h.index = g.fs.index /\ h.inode = K
    BY <1>6, Writes
  <2> HIDE DEF h, K
  <2>2. Sound(h, K, F) /\ (Full(fs, I, F) => Full(h, K, F))
    BY <1>6, <1>8, <2>1, SoundAlike
  <2>3. Files' = F
    BY <1>8 DEF Files, named
  <2> QED BY <1>1, <1>3, <1>8, <2>1, <2>2, <2>3, Unpack DEF FSInv, Typed, OneName
<1>9. CASE /\ fs' = g.fs /\ calls' = calls + 1 /\ failed' = TRUE
           /\ extend_lock' = [extend_lock EXCEPT ![s] = p]
           /\ UNCHANGED <<dir, opened, stopped>>
  <2>1. Files' = F
    BY <1>9 DEF Files, named
  <2>2. extend_lock' \in [Sectors -> Procs \cup {NULL}]
    BY <1>1, <1>9
  <2> QED BY <1>1, <1>3, <1>6, <1>9, <2>1, <2>2, Unpack DEF FSInv, Typed, OneName
<1> QED BY <1>5, <1>7, <1>8, <1>9

LEMMA FSInitially ==
  ASSUME Init
  PROVE  FSInv
<1>1. /\ fs = [used |-> System, inode |-> [s \in Sectors |-> EmptyInode],
               index |-> [s \in Sectors |-> NoPointers], data |-> [s \in Sectors |-> Zeros]]
      /\ dir = [n \in Names |-> 0] /\ opened = {} /\ extend_lock = [s \in Sectors |-> NULL]
      /\ calls = 0 /\ failed = FALSE /\ stopped = FALSE
  BY DEF Init
<1>2. fs \in DiskType
  <2>1. EmptyInode \in InodeType
    BY Counts DEF EmptyInode, InodeType
  <2>2. NoPointers \in IndexType /\ Zeros \in DataType
    BY Counts DEF NoPointers, IndexType, Zeros, DataType
  <2>3. System \subseteq Sectors
    BY Counts DEF System, FREE_MAP_SECTOR, ROOT_DIR_SECTOR, Sectors
  <2> QED BY <1>1, <2>1, <2>2, <2>3 DEF DiskType
<1>3. Typed
  <2>1. dir \in [Names -> Sectors]
    <3>1. 0 \in Sectors
      BY Counts
    <3> QED BY <1>1, <3>1
  <2>2. extend_lock \in [Sectors -> Procs \cup {NULL}]
    BY <1>1
  <2>3. calls \in 0 .. MaxCalls
    BY <1>1, FileSysAssumption
  <2>4. opened \subseteq Procs \X Sectors /\ failed \in BOOLEAN /\ stopped \in BOOLEAN
    BY <1>1
  <2> QED BY <1>2, <2>1, <2>2, <2>3, <2>4 DEF Typed
<1>4. Files = {}
  BY <1>1 DEF Files, named
<1>5. fs.used = System
  BY <1>1
<1>6. Sound(fs, fs.inode, Files) /\ Full(fs, fs.inode, Files)
  BY <1>4, <1>5 DEF Sound, Full, Private
<1>7. OneName
  BY <1>1 DEF OneName
<1> QED BY <1>3, <1>6, <1>7 DEF FSInv

\* FSInv is inductive.
LEMMA FSInvAlways == Spec => []FSInv
<1>1. Init => FSInv
  BY FSInitially
<1>2. FSInv /\ [Next]_vars => FSInv'
  <2> SUFFICES ASSUME FSInv, [Next]_vars
               PROVE  FSInv'
    OBVIOUS
  <2>1. ASSUME NEW n \in Names, filesys_remove(n)
        PROVE  FSInv'
    BY <2>1, RemoveKeeps
  <2>2. ASSUME NEW n \in Names, NEW len \in Lengths, filesys_create(n, len)
        PROVE  FSInv'
    BY <2>2, CreateKeeps
  <2>3. ASSUME NEW p \in Procs, NEW n \in Names, filesys_open(p, n)
        PROVE  FSInv'
    BY <2>3, OpenKeeps
  <2>4. ASSUME NEW p \in Procs, NEW s \in Sectors, file_close(p, s)
        PROVE  FSInv'
    BY <2>4, CloseKeeps
  <2>5. ASSUME NEW p \in Procs, NEW s \in Sectors, NEW off \in Offsets, NEW size \in Sizes,
               inode_write_at(p, s, off, size)
        PROVE  FSInv'
    BY <2>5, WriteKeeps
  <2>6. CASE UNCHANGED vars
    <3>1. Files' = Files
      BY <2>6 DEF vars, Files, named
    <3> QED BY <2>6, <3>1 DEF vars, FSInv, Typed, OneName
  <2> QED BY <2>1, <2>2, <2>3, <2>4, <2>5, <2>6 DEF Next
<1> QED BY <1>1, <1>2, PTL DEF Spec

-----------------------------------------------------------------------------
(* What FSInv says of the sectors of a file                                 *)

\* The type invariant of the disk, the directory, who has which file open and
\* who holds which extend_lock: filesys_create, inode_write_at and the rest keep it.
THEOREM FSTypeCorrect == Spec => []FSTypeOK
<1>1. FSInv => FSTypeOK
  <2> SUFFICES ASSUME FSInv
               PROVE  FSTypeOK
    OBVIOUS
  <2>1. fs.used \subseteq Sectors
    BY Unpack DEF DiskType
  <2>2. ASSUME NEW s \in Sectors
        PROVE  /\ fs.inode[s].length \in Nat /\ Range(fs.inode[s].direct) \subseteq Sectors
               /\ Range(fs.index[s]) \subseteq Sectors /\ Range(fs.data[s]) \subseteq {0, 1}
    <3>1. fs.inode[s] \in InodeType /\ fs.index[s] \in IndexType /\ fs.data[s] \in DataType
      BY Unpack DEF DiskType
    <3>2. fs.inode[s].direct \in [0 .. DirectEntries - 1 -> Sectors] /\ fs.inode[s].length \in Nat
      BY <3>1 DEF InodeType
    <3> QED BY <3>1, <3>2 DEF Range, IndexType, DataType
  <2> QED BY <2>1, <2>2, Unpack DEF FSTypeOK
<1> QED BY <1>1, FSInvAlways, PTL

\* The first byte of each sector that the bytes of a file take.
LEMMA FirstByte ==
  ASSUME NEW len \in Nat, NEW i \in 0 .. count(len) - 1
  PROVE  i * SectorSize \in Nat /\ i * SectorSize < len /\ (i * SectorSize) \div SectorSize = i
<1> DEFINE S == SectorSize
           q == (len - 1) \div S
           r == (len - 1) % S
<1>1. S \in Nat /\ S > 0 /\ i \in Nat
  BY Counts
<1>2. i * S \in Nat /\ i * S = S * i
  BY <1>1
<1>3. (i * S) \div S = i
  <2> DEFINE a == i * S
             c == a \div S
             m == a % S
  <2>1. c \in Nat /\ m \in 0 .. S - 1 /\ a = S * c + m
    BY <1>1, <1>2, Divides
  <2> HIDE DEF c, m
  <2>2. S * c + m = S * i + 0
    BY <1>1, <1>2, <2>1
  <2>3. 0 \in 0 .. S - 1
    BY <1>1
  <2>4. c = i
    BY <1>1, <2>1, <2>2, <2>3, OneQuotient
  <2> QED BY <2>4 DEF c
<1>4. len > 0
  <2>1. CASE len = 0
    <3> DEFINE c == count(len)
               m == (S - 1) % S
    <3>1. S - 1 \in Nat /\ len + S - 1 = S - 1
      BY <1>1, <2>1
    <3>2. c \in Nat /\ m \in 0 .. S - 1 /\ S - 1 = S * c + m
      BY <1>1, <3>1, Divides DEF count
    <3> HIDE DEF c, m
    <3>3. S * c + m = S * 0 + (S - 1) /\ S - 1 \in 0 .. S - 1
      BY <1>1, <3>2
    <3>4. c = 0
      BY <1>1, <3>2, <3>3, OneQuotient
    <3> QED BY <3>4 DEF c
  <2> QED BY <2>1
<1>5. q \in Nat /\ r \in 0 .. S - 1 /\ len - 1 = S * q + r
  BY <1>1, <1>4, Divides
<1>6. q = count(len) - 1 /\ count(len) \in Nat
  BY <1>4, NewSectors
<1> HIDE DEF q, r
<1>7. i <= q
  BY <1>1, <1>5, <1>6
<1>8. PICK d \in Nat : q = i + d
  <2>1. q - i \in Nat /\ q = i + (q - i)
    BY <1>1, <1>5, <1>7
  <2> QED BY <2>1
<1>9. S * q = S * i + S * d /\ S * d \in Nat /\ S * i \in Nat /\ S * q \in Nat
  BY <1>1, <1>8
<1> QED BY <1>1, <1>2, <1>3, <1>5, <1>9

\* The sectors of a file are what is in the places of its inode, of its index
\* blocks and of the bytes it has.
LEMMA SectorsInPlaces ==
  ASSUME FSInv, NEW s \in Files
  PROVE  LET di == fs.inode[s] IN
         /\ sector_count(s) \in 0 .. Room
         /\ \A i \in 0 .. sector_count(s) - 1 :
              byte_to_sector(fs, di, i * SectorSize) = place(fs, di, i) /\ place(fs, di, i) # 0
         /\ \A x : x \in index_blocks(s) <=> x # 0 /\ \E q \in Blocks : ptr(fs, di, s, q) = x
         /\ \A x : x \in data_sectors(s) <=> \E i \in 0 .. sector_count(s) - 1 : place(fs, di, i) = x
<1> DEFINE di == fs.inode[s]
           n == sector_count(s)
           E == IndirectEntries
<1>1. /\ s \in Sectors /\ di \in InodeType /\ Whole(fs, di) /\ fs \in DiskType
  <2>1. s \in Sectors /\ Sound(fs, fs.inode, Files) /\ fs.inode \in [Sectors -> InodeType] /\ fs \in DiskType
    BY Unpack DEF Sound
  <2> QED BY <2>1 DEF Sound
<1>2. n = count(di.length) /\ di.length \in Nat /\ di.double \in Sectors /\ di.indirect \in Sectors
  BY <1>1 DEF sector_count, count, InodeType
<1>3. n \in 0 .. Room
  <2>1. di.length + SectorSize - 1 \in Nat
    BY <1>2, Counts
  <2>2. n \in Nat
    BY <1>2, <2>1, Counts, Divides DEF count
  <2>3. Room \in Nat
    BY Counts DEF Room
  <2> QED BY <1>1, <1>2, <2>2, <2>3 DEF Whole
<1>4. ASSUME NEW i \in 0 .. n - 1
      PROVE  byte_to_sector(fs, di, i * SectorSize) = place(fs, di, i) /\ place(fs, di, i) # 0
  <2>0. Room \in Nat
    BY Counts DEF Room
  <2>1. i \in 0 .. Room - 1 /\ i < n
    <3> HIDE DEF n
    <3> QED BY <1>3, <2>0
  <2>2. place(fs, di, i) # 0
    BY <1>1, <1>2, <2>1 DEF Whole
  <2>3. i \in 0 .. count(di.length) - 1
    BY <1>2
  <2>4. i * SectorSize \in Nat /\ i * SectorSize < di.length /\ (i * SectorSize) \div SectorSize = i
    BY <1>2, <2>3, FirstByte
  <2> DEFINE pos == i * SectorSize
  <2> HIDE DEF pos, di, n
  <2>5. pos \in Nat /\ pos < di.length /\ pos \div SectorSize = i
    BY <2>4 DEF pos
  <2>6. byte_to_sector(fs, di, pos) = place(fs, di, i)
    BY <1>2, <2>1, <2>2, <2>5, ByteInPlace
  <2> QED BY <2>2, <2>6 DEF pos
<1>5. ASSUME NEW x
      PROVE  x \in index_blocks(s) <=> x # 0 /\ \E q \in Blocks : ptr(fs, di, s, q) = x
  <2>1. x \in second_blocks(s) <=> x # 0 /\ \E j \in 0 .. E - 1 : via(fs, di.double, j) = x
    <3>1. CASE di.double = 0
      BY <3>1 DEF second_blocks, via
    <3>2. CASE di.double # 0
      <4>1. fs.index[di.double] \in [0 .. E - 1 -> Sectors]
        BY <1>1, <1>2 DEF DiskType, IndexType
      <4>2. x \in second_blocks(s) <=> x \in Range(fs.index[di.double]) /\ x # 0
        BY <3>2 DEF second_blocks
      <4> HIDE DEF di
      <4>3. x \in Range(fs.index[di.double]) <=> \E j \in 0 .. E - 1 : fs.index[di.double][j] = x
        BY <4>1 DEF Range
      <4>4. \A j \in 0 .. E - 1 : via(fs, di.double, j) = fs.index[di.double][j]
        BY <3>2 DEF via
      <4> QED BY <4>2, <4>3, <4>4
    <3> QED BY <3>1, <3>2
  <2>2. x \in index_blocks(s) <=> \/ x # 0 /\ (x = di.indirect \/ x = di.double)
                                  \/ x \in second_blocks(s)
    BY DEF index_blocks
  <2>3. ptr(fs, di, s, Indirect) = di.indirect /\ ptr(fs, di, s, Double) = di.double
    BY PtrOf
  <2>4. \A j \in 0 .. E - 1 : ptr(fs, di, s, Second(j)) = via(fs, di.double, j)
    BY PtrAt
  <2> HIDE DEF di
  <2>5. (\E q \in Blocks : ptr(fs, di, s, q) = x)
        <=> \/ x = di.indirect \/ x = di.double
            \/ \E j \in 0 .. E - 1 : via(fs, di.double, j) = x
    BY <2>3, <2>4 DEF Blocks
  <2> QED BY <2>1, <2>2, <2>5
<1>6. ASSUME NEW x
      PROVE  x \in data_sectors(s) <=> \E i \in 0 .. n - 1 : place(fs, di, i) = x
  BY <1>4 DEF data_sectors
<1> QED BY <1>3, <1>4, <1>5, <1>6

\* Each sector of a file is in a place of it, its sort told by the place.
LEMMA SectorsHavePlaces ==
  ASSUME FSInv, NEW s \in Files
  PROVE  /\ s # 0 /\ Inode \in Roles /\ ptr(fs, fs.inode[s], s, Inode) = s
         /\ \A x \in index_blocks(s) : x # 0 /\ \E q \in Blocks : ptr(fs, fs.inode[s], s, q) = x
         /\ \A x \in data_sectors(s) : x # 0 /\ \E i \in 0 .. Room - 1 : ptr(fs, fs.inode[s], s, Data(i)) = x
         /\ \A x \in sectors(s) : x # 0 /\ \E q \in Roles : ptr(fs, fs.inode[s], s, q) = x
<1> DEFINE di == fs.inode[s]
           n == sector_count(s)
<1>1. s # 0 /\ Inode \in Roles /\ ptr(fs, di, s, Inode) = s
  BY Unpack, RolesDiffer, PtrOf DEF Sound
<1>2. \A x \in index_blocks(s) : x # 0 /\ \E q \in Blocks : ptr(fs, di, s, q) = x
  BY SectorsInPlaces
<1>3. ASSUME NEW x \in data_sectors(s)
      PROVE  x # 0 /\ \E i \in 0 .. Room - 1 : ptr(fs, di, s, Data(i)) = x
  <2>1. PICK i \in 0 .. n - 1 : place(fs, di, i) = x
    BY SectorsInPlaces
  <2>2. x # 0 /\ n \in 0 .. Room
    BY <2>1, SectorsInPlaces
  <2>3. Room \in Nat
    BY Counts DEF Room
  <2>4. i \in 0 .. Room - 1
    <3> HIDE DEF n
    <3> QED BY <2>2, <2>3
  <2>5. ptr(fs, di, s, Data(i)) = x
    BY <2>1, PtrAt
  <2> QED BY <2>2, <2>4, <2>5
<1>4. \A i \in 0 .. Room - 1 : Data(i) \in Roles
  BY RoleAt
<1>5. Blocks \subseteq Roles
  BY DEF Roles
<1>6. \A x : x \in sectors(s) <=> x = s \/ x \in index_blocks(s) \/ x \in data_sectors(s)
  BY DEF sectors
<1> HIDE DEF di
<1>7. ASSUME NEW x \in sectors(s)
      PROVE  x # 0 /\ \E q \in Roles : ptr(fs, di, s, q) = x
  BY <1>1, <1>2, <1>3, <1>4, <1>5, <1>6
<1> QED BY <1>1, <1>2, <1>3, <1>7 DEF di

\* As many different sectors as the length of the file needs.
LEMMA AllItsSectors ==
  ASSUME FSInv, NEW s \in Files
  PROVE  Cardinality(data_sectors(s)) = sector_count(s)
<1> DEFINE di == fs.inode[s]
           n == sector_count(s)
           D == data_sectors(s)
           M == [k \in 1 .. n |-> place(fs, di, k - 1)]
<1>1. n \in 0 .. Room /\ Room \in Nat
  BY SectorsInPlaces, Counts DEF Room
<1>2. \A i \in 0 .. n - 1 : place(fs, di, i) # 0
  BY SectorsInPlaces
<1>3. \A x : x \in D <=> \E i \in 0 .. n - 1 : place(fs, di, i) = x
  BY SectorsInPlaces
<1>4. ASSUME NEW i \in 0 .. Room - 1, NEW j \in 0 .. Room - 1,
             place(fs, di, i) # 0, place(fs, di, i) = place(fs, di, j)
      PROVE  i = j
  <2>1. Data(i) \in Roles /\ Data(j) \in Roles
    BY RoleAt
  <2>2. ptr(fs, di, s, Data(i)) = place(fs, di, i) /\ ptr(fs, di, s, Data(j)) = place(fs, di, j)
    BY PtrAt
  <2>3. Data(j) = Data(i)
    BY <1>4, <2>1, <2>2, Unpack DEF Sound, Private
  <2> QED BY <2>3, RolesAt
<1> HIDE DEF n, di, D
<1>5. n \in Nat /\ \A k \in 1 .. n : k - 1 \in 0 .. n - 1 /\ k - 1 \in 0 .. Room - 1
  BY <1>1
<1>6. M \in [1 .. n -> D]
  BY <1>3, <1>5
<1>7. ASSUME NEW j \in 1 .. n, NEW k \in 1 .. n, M[j] = M[k]
      PROVE  j = k
  <2>1. place(fs, di, j - 1) = place(fs, di, k - 1)
    BY <1>7
  <2>2. j - 1 = k - 1
    BY <1>2, <1>4, <1>5, <2>1
  <2> QED BY <1>5, <2>2
<1>8. ASSUME NEW x \in D
      PROVE  \E k \in 1 .. n : M[k] = x
  <2>1. PICK i \in 0 .. n - 1 : place(fs, di, i) = x
    BY <1>3
  <2>2. i + 1 \in 1 .. n /\ i + 1 - 1 = i
    BY <1>5
  <2>3. M[i + 1] = x
    BY <2>1, <2>2
  <2> QED BY <2>2, <2>3
<1>9. M \in Bijection(1 .. n, D)
  <2> HIDE DEF M
  <2> QED BY <1>6, <1>7, <1>8 DEF Bijection, Injection, IsInjective, Surjection
<1>10. ExistsBijection(1 .. n, D)
  BY <1>9 DEF ExistsBijection
<1>11. Cardinality(D) = n
  BY <1>5, <1>10, FS_CountingElements
<1> QED BY <1>11 DEF D, n

\* Places apart are sectors apart.
LEMMA SectorsOwn ==
  ASSUME FSInv
  PROVE  SectorsPrivate
<1> DEFINE P(s, q) == ptr(fs, fs.inode[s], s, q)
<1>1. ASSUME NEW s \in Files, NEW q \in Roles, P(s, q) # 0
      PROVE  /\ P(s, q) \in fs.used \ System
             /\ \A t \in Files, r \in Roles : P(t, r) = P(s, q) => t = s /\ r = q
  BY <1>1, Unpack DEF Sound, Private
<1>2. ASSUME NEW s \in Files
      PROVE  /\ s # 0 /\ Inode \in Roles /\ P(s, Inode) = s
             /\ \A x \in index_blocks(s) : x # 0 /\ \E q \in Blocks : P(s, q) = x
             /\ \A x \in data_sectors(s) : x # 0 /\ \E i \in 0 .. Room - 1 : P(s, Data(i)) = x
             /\ \A x \in sectors(s) : x # 0 /\ \E q \in Roles : P(s, q) = x
  BY SectorsHavePlaces
<1> HIDE DEF P
<1>3. \A q \in Blocks : q \in Roles /\ q # Inode /\ \A i \in 0 .. Room - 1 : q # Data(i)
  <2> SUFFICES ASSUME NEW q \in Blocks
               PROVE  q \in Roles /\ q # Inode /\ \A i \in 0 .. Room - 1 : q # Data(i)
    OBVIOUS
  <2>1. \/ q = Indirect \/ q = Double
        \/ \E j \in 0 .. IndirectEntries - 1 : q = Second(j)
    BY DEF Blocks
  <2>2. q \in Roles
    BY DEF Roles
  <2> QED BY <2>1, <2>2, RolesDiffer, RoleAt, RolesAt
<1>4. \A i \in 0 .. Room - 1 : Data(i) \in Roles /\ Data(i) # Inode
  BY RoleAt
<1>5. ASSUME NEW s \in Files
      PROVE  /\ sectors(s) \subseteq fs.used \ System
             /\ Cardinality(data_sectors(s)) = sector_count(s)
             /\ data_sectors(s) \cap ({s} \cup index_blocks(s)) = {} /\ s \notin index_blocks(s)
  <2>1. sectors(s) \subseteq fs.used \ System
    BY <1>1, <1>2
  <2>2. Cardinality(data_sectors(s)) = sector_count(s)
    BY AllItsSectors
  <2>3. s \notin index_blocks(s)
    BY <1>1, <1>2, <1>3
  <2>4. s \notin data_sectors(s)
    BY <1>1, <1>2, <1>4
  <2>5. ASSUME NEW x \in data_sectors(s), x \in index_blocks(s)
        PROVE  FALSE
    BY <1>1, <1>2, <1>3, <1>4, <2>5
  <2> QED BY <2>1, <2>2, <2>3, <2>4, <2>5
<1>6. ASSUME NEW s \in Files, NEW t \in Files, s # t
      PROVE  sectors(s) \cap sectors(t) = {}
  <2> SUFFICES ASSUME NEW x \in sectors(s), x \in sectors(t)
               PROVE  FALSE
    OBVIOUS
  <2> QED BY <1>1, <1>2, <1>6
<1> QED BY <1>5, <1>6 DEF SectorsPrivate

\* The sectors of a file are in use and its own, whatever calls have come in what
\* order: free_map_allocate while inode_update_file_length extends it or fails
\* half way, the index blocks register_sector allocates, inode_close and a file
\* created where another was.
THEOREM FilesApart == Spec => []SectorsPrivate
<1>1. FSInv => SectorsPrivate
  BY SectorsOwn
<1> QED BY <1>1, FSInvAlways, PTL

\* Until a call has failed, what is in use is the system's or a file's: dir_remove,
\* inode_close and the growth that succeeded leave no sector to nobody.
THEOREM NothingLeaks == Spec => []NoLeak
<1>1. FSInv => NoLeak
  <2> SUFFICES ASSUME FSInv, ~ failed
               PROVE  fs.used = System \cup UNION {sectors(s) : s \in Files}
    BY DEF NoLeak
  <2>1. System \subseteq fs.used /\ \A s \in Files : sectors(s) \subseteq fs.used
    BY Unpack, SectorsOwn DEF Sound, SectorsPrivate
  <2>2. ASSUME NEW y \in fs.used \ System
        PROVE  \E s \in Files : y \in sectors(s)
    <3>1. PICK s \in Files, q \in Roles : ptr(fs, fs.inode[s], s, q) = y
      BY Unpack DEF Full
    <3> DEFINE di == fs.inode[s]
               n == sector_count(s)
    <3>2. y # 0
      BY DEF System, FREE_MAP_SECTOR
    <3>3. CASE q = Inode
      BY <3>1, <3>3, PtrOf DEF sectors
    <3>4. CASE q \in Blocks
      <4>1. y \in index_blocks(s)
        BY <3>1, <3>2, <3>4, SectorsInPlaces
      <4> QED BY <4>1 DEF sectors
    <3>5. ASSUME NEW i \in 0 .. Room - 1, q = Data(i)
          PROVE  y \in sectors(s)
      <4>1. place(fs, di, i) = y
        BY <3>1, <3>5, PtrAt
      <4>2. Neat(fs, di, count(di.length))
        BY Unpack DEF Full
      <4>3. ~ (i >= count(di.length)) /\ n = count(di.length)
        BY <3>2, <4>1, <4>2 DEF Neat, sector_count, count
      <4>4. n \in Nat
        BY SectorsInPlaces, Counts DEF Room
      <4> HIDE DEF n
      <4>5. i \in 0 .. n - 1
        BY <4>3, <4>4
      <4>6. y \in data_sectors(s)
        BY <4>1, <4>5, SectorsInPlaces DEF n
      <4> QED BY <4>6 DEF sectors
    <3>6. q = Inode \/ q \in Blocks \/ \E i \in 0 .. Room - 1 : q = Data(i)
      BY DEF Roles
    <3> QED BY <3>3, <3>4, <3>5, <3>6
  <2> QED BY <2>1, <2>2
<1> QED BY <1>1, FSInvAlways, PTL

-----------------------------------------------------------------------------
(* The bytes of a file *)

\* Byte pos of the file with inode di, through the places of its index.
at(f, di, pos) == f.data[place(f, di, pos \div SectorSize)][pos % SectorSize]

\* contents, of a file with inode di on disk f.
content(f, di) == [i \in 1 .. di.length |-> f.data[byte_to_sector(f, di, i - 1)][(i - 1) % SectorSize]]

LEMMA ContentAt ==
  ASSUME NEW f, NEW di \in InodeType, Whole(f, di)
  PROVE  content(f, di) = [i \in 1 .. di.length |-> at(f, di, i - 1)]
<1>1. di.length \in Nat /\ count(di.length) <= Room
      /\ \A i \in 0 .. Room - 1 : i < count(di.length) => place(f, di, i) # 0
  BY DEF Whole, InodeType
<1>2. ASSUME NEW i \in 1 .. di.length
      PROVE  f.data[byte_to_sector(f, di, i - 1)][(i - 1) % SectorSize] = at(f, di, i - 1)
  <2> DEFINE pos == i - 1
  <2>1. pos \in Nat /\ pos < di.length
    BY <1>1
  <2> HIDE DEF pos
  <2>2. pos \div SectorSize \in 0 .. Room - 1 /\ pos \div SectorSize < count(di.length)
    BY <1>1, <2>1, PlaceOfByte
  <2>3. place(f, di, pos \div SectorSize) # 0
    BY <1>1, <2>2
  <2>4. byte_to_sector(f, di, pos) = place(f, di, pos \div SectorSize)
    BY <1>1, <2>1, <2>2, <2>3, ByteInPlace
  <2>5. f.data[byte_to_sector(f, di, pos)][pos % SectorSize] = at(f, di, pos)
    BY <2>4 DEF at
  <2> QED BY <2>5 DEF pos
<1> QED BY <1>2 DEF content

\* The same bytes, the same content.
LEMMA SameContent ==
  ASSUME NEW f, NEW di \in InodeType, Whole(f, di), NEW h, NEW ei \in InodeType, Whole(h, ei),
         ei.length = di.length,
         \A pos \in Nat : pos < di.length => at(h, ei, pos) = at(f, di, pos)
  PROVE  content(h, ei) = content(f, di)
<1>1. di.length \in Nat
  BY DEF InodeType
<1>2. \A i \in 1 .. di.length : i - 1 \in Nat /\ i - 1 < di.length
  BY <1>1
<1>3. \A i \in 1 .. di.length : at(h, ei, i - 1) = at(f, di, i - 1)
  BY <1>2
<1>4. content(f, di) = [i \in 1 .. di.length |-> at(f, di, i - 1)]
  BY ContentAt
<1>5. content(h, ei) = [i \in 1 .. di.length |-> at(h, ei, i - 1)]
  BY ContentAt
<1> QED BY <1>3, <1>4, <1>5

\* A disk with the same index and the same data.
LEMMA SameDisk ==
  ASSUME NEW f, NEW h, NEW di, h.index = f.index, h.data = f.data
  PROVE  content(h, di) = content(f, di)
BY DEF content, byte_to_sector

\* Where bytes lie by an end that is inside a sector.
LEMMA BytesByEnd ==
  ASSUME NEW start \in Nat, NEW pos \in Nat
  PROVE  /\ pos < start /\ pos \div SectorSize = start \div SectorSize => pos % SectorSize < start % SectorSize
         /\ pos >= start /\ pos \div SectorSize < count(start) =>
              /\ start % SectorSize # 0 /\ pos \div SectorSize = start \div SectorSize
              /\ pos % SectorSize >= start % SectorSize
<1> DEFINE S == SectorSize
           q == start \div S
           m == start % S
           p == pos \div S
           n == pos % S
<1>1. S \in Nat /\ S > 0
  BY Counts
<1>2. /\ q \in Nat /\ m \in 0 .. S - 1 /\ start = S * q + m
      /\ p \in Nat /\ n \in 0 .. S - 1 /\ pos = S * p + n
  BY <1>1, Divides
<1>3. start <= pos => q <= p
  BY <1>1, MoreQuotient
<1>4. m # 0 => count(start) = q + 1
  <2>1. m # 0 => q = count(start) - 1 /\ count(start) \in Nat
    BY LastSectorOf
  <2> HIDE DEF q, m
  <2> QED BY <1>2, <2>1
<1>5. m = 0 => count(start) = q
  <2> SUFFICES ASSUME m = 0
               PROVE  count(start) = q
    OBVIOUS
  <2> DEFINE c == count(start)
             d == (start + S - 1) % S
             e == S - 1
  <2>1. start + S - 1 \in Nat
    BY <1>1
  <2>2. c \in Nat /\ d \in 0 .. S - 1 /\ start + S - 1 = S * c + d
    BY <1>1, <2>1, Divides DEF count
  <2> HIDE DEF c, d, q, m
  <2>3. S * q \in Nat /\ S * c \in Nat
    BY <1>1, <1>2, <2>2
  <2>4. S * c + d = S * q + e /\ e \in 0 .. S - 1
    BY <1>1, <1>2, <2>2, <2>3
  <2> HIDE DEF e
  <2>5. c = q
    BY <1>1, <1>2, <2>2, <2>4, OneQuotient
  <2> QED BY <2>5 DEF c
<1> HIDE DEF q, m, p, n
<1>6. pos < start /\ p = q => n < m
  <2>1. S * q \in Nat
    BY <1>1, <1>2
  <2> QED BY <1>1, <1>2, <2>1
<1>7. pos >= start /\ p < count(start) => m # 0 /\ p = q /\ n >= m
  <2> SUFFICES ASSUME pos >= start, p < count(start)
               PROVE  m # 0 /\ p = q /\ n >= m
    OBVIOUS
  <2>1. q <= p
    BY <1>3
  <2>2. m # 0
    BY <1>2, <1>5, <2>1
  <2>3. p = q
    BY <1>2, <1>4, <2>1, <2>2
  <2>4. S * q \in Nat
    BY <1>1, <1>2
  <2> QED BY <1>1, <1>2, <2>2, <2>3, <2>4
<1> QED BY <1>6, <1>7 DEF q, m, p, n

\* What growth does to the sectors in use: nothing but clearing the rest of the last.
LEMMA GrowthData ==
  ASSUME NEW f, NEW I, NEW F, NEW s, NEW end, GrowsFrom(f, I, F, s, end)
  PROVE  LET di == I[s]
             g  == update_file_length(f, di, di.length, end)
             m  == di.length % SectorSize
         IN /\ \A e \in f.used, b \in 0 .. SectorSize - 1 :
                 g.fs.data[e][b] = IF m # 0 /\ e = place(f, di, di.length \div SectorSize) /\ b >= m
                                   THEN 0 ELSE f.data[e][b]
            /\ g.ok => \A i \in 0 .. Room - 1 : count(di.length) <= i /\ i < count(end) =>
                         g.fs.data[place(g.fs, g.di, i)] = Zeros
<1> DEFINE di == I[s]
           start == di.length
           g == update_file_length(f, di, start, end)
           ei == [di EXCEPT !.length = end]
           b0 == [fs |-> f, di |-> ei, ok |-> TRUE]
           a == clear_rest(b0, start)
           J == [I EXCEPT ![s] = a.di]
           m == start % SectorSize
           c == place(f, di, start \div SectorSize)
<1>1. /\ f \in DiskType /\ s \in Sectors /\ end \in Nat /\ start < end /\ Whole(f, di)
      /\ di \in InodeType /\ start \in Nat
  BY DEF GrowsFrom, InodeType
<1>2. Grown(a, J, F, s, count(start), count(end), g)
  BY Grows
<1> HIDE DEF di, start, g, J, m, c
<1>3. /\ ei \in InodeType /\ ei.length = end
      /\ ei.indirect = di.indirect /\ ei.double = di.double /\ ei.direct = di.direct
  BY <1>1 DEF InodeType
<1> HIDE DEF ei
<1>4. b0 \in GrowingType /\ b0.fs = f /\ b0.di = ei
  BY <1>1, <1>3 DEF GrowingType
<1> HIDE DEF b0
<1>5. \A i : place(f, ei, i) = place(f, di, i)
  BY <1>3, LengthAside
<1>6. count(start) <= Room /\ \A i \in 0 .. Room - 1 : i < count(start) => place(f, ei, i) # 0
  BY <1>1, <1>5 DEF Whole, start
<1>7. /\ a.fs.used = f.used
      /\ m = 0 => a = b0
      /\ m # 0 =>
           /\ \A e \in Sectors \ {c} : a.fs.data[e] = f.data[e]
           /\ \A b \in 0 .. SectorSize - 1 : a.fs.data[c][b] = IF b >= m THEN 0 ELSE f.data[c][b]
  <2> DEFINE c2 == place(b0.fs, b0.di, start \div SectorSize)
             m2 == start % SectorSize
  <2>1. /\ start < b0.di.length
        /\ \A i \in 0 .. Room - 1 : i < count(start) => place(b0.fs, b0.di, i) # 0
    BY <1>1, <1>3, <1>4, <1>6
  <2>2. /\ a.fs.used = b0.fs.used
        /\ m2 = 0 => a = b0
        /\ m2 # 0 =>
             /\ \A e \in Sectors \ {c2} : a.fs.data[e] = b0.fs.data[e]
             /\ \A b \in 0 .. SectorSize - 1 : a.fs.data[c2][b] = IF b >= m2 THEN 0 ELSE b0.fs.data[c2][b]
    BY <1>1, <1>4, <1>6, <2>1, Clears
  <2>3. c2 = c /\ m2 = m
    BY <1>4, <1>5 DEF c, m
  <2> HIDE DEF c2, m2, a
  <2> QED BY <1>4, <2>2, <2>3
<1> HIDE DEF a
<1>8. \A e \in f.used : g.fs.data[e] = a.fs.data[e]
  BY <1>2, <1>7 DEF Grown
<1>9. ASSUME NEW e \in f.used, NEW b \in 0 .. SectorSize - 1
      PROVE  g.fs.data[e][b] = IF m # 0 /\ e = c /\ b >= m THEN 0 ELSE f.data[e][b]
  <2>1. e \in Sectors
    BY <1>1 DEF DiskType
  <2> QED BY <1>4, <1>7, <1>8, <2>1
<1>10. g.ok => \A i \in 0 .. Room - 1 : count(start) <= i /\ i < count(end) =>
                 g.fs.data[place(g.fs, g.di, i)] = Zeros
  BY <1>2 DEF Grown
<1> QED BY <1>9, <1>10 DEF g, di, start, m, c

\* The bytes of the files before and after growth, whether it goes well or not.
LEMMA GrowthBytes ==
  ASSUME NEW f, NEW I, NEW F, NEW s, NEW end, GrowsFrom(f, I, F, s, end), \A t \in F : Whole(f, I[t])
  PROVE  LET di == I[s]
             g  == update_file_length(f, di, di.length, end)
         IN /\ \A t \in F : \A pos \in Nat : t # s /\ pos < I[t].length => at(g.fs, I[t], pos) = at(f, I[t], pos)
            /\ \A pos \in Nat : pos < di.length => at(g.fs, di, pos) = at(f, di, pos)
            /\ g.ok => \A pos \in Nat : pos < end =>
                         at(g.fs, g.di, pos) = IF pos < di.length THEN at(f, di, pos) ELSE 0
<1> DEFINE di == I[s]
           start == di.length
           g == update_file_length(f, di, start, end)
           m == start % SectorSize
           c == place(f, di, start \div SectorSize)
           S == SectorSize
<1>1. /\ f \in DiskType /\ s \in Sectors /\ s \in F /\ end \in Nat /\ start < end /\ Whole(f, di)
      /\ di \in InodeType /\ start \in Nat /\ Private(f, I, F) /\ F \subseteq Sectors /\ I \in [Sectors -> InodeType]
  BY DEF GrowsFrom, InodeType
<1>2. /\ g.di.length = end
      /\ \A t \in F, q \in Roles : t # s => ptr(g.fs, I[t], t, q) = ptr(f, I[t], t, q)
      /\ \A i \in 0 .. Room - 1 : i < count(start) =>
                 place(g.fs, di, i) = place(f, di, i) /\ place(g.fs, g.di, i) = place(f, di, i)
      /\ g.ok => Whole(g.fs, g.di)
  <2> DEFINE h == update_file_length(f, I[s], I[s].length, end)
             d == I[s]
             K == [I EXCEPT ![s] = h.di]
  <2>1. /\ h \in GrowingType /\ f.used \subseteq h.fs.used /\ h.fs.inode = f.inode /\ h.di.length = end
        /\ \A t \in F, q \in Roles : t # s => ptr(h.fs, I[t], t, q) = ptr(f, I[t], t, q)
        /\ Private(h.fs, I, F) /\ Whole(h.fs, d)
        /\ \A i \in 0 .. Room - 1 : i < count(d.length) =>
             place(h.fs, d, i) = place(f, d, i) /\ place(h.fs, h.di, i) = place(f, d, i)
        /\ h.ok => /\ Private(h.fs, K, F)
                   /\ Whole(h.fs, h.di)
                   /\ Neat(f, d, count(d.length)) =>
                        /\ Neat(h.fs, h.di, count(end))
                        /\ \A y \in h.fs.used \ f.used : \E q \in Roles : ptr(h.fs, h.di, s, q) = y
                        /\ \A q \in Roles : ptr(f, d, s, q) \in {0, ptr(h.fs, h.di, s, q)}
    BY Growth
  <2> HIDE DEF h
  <2>2. /\ h.di.length = end
        /\ \A t \in F, q \in Roles : t # s => ptr(h.fs, I[t], t, q) = ptr(f, I[t], t, q)
        /\ \A i \in 0 .. Room - 1 : i < count(start) =>
             place(h.fs, di, i) = place(f, di, i) /\ place(h.fs, h.di, i) = place(f, di, i)
        /\ h.ok => Whole(h.fs, h.di)
    BY <2>1
  <2> QED BY <2>2 DEF h
<1>3. /\ \A e \in f.used, b \in 0 .. S - 1 : g.fs.data[e][b] = IF m # 0 /\ e = c /\ b >= m THEN 0 ELSE f.data[e][b]
      /\ g.ok => \A i \in 0 .. Room - 1 : count(start) <= i /\ i < count(end) =>
                   g.fs.data[place(g.fs, g.di, i)] = Zeros
  BY GrowthData
<1>4. S \in Nat /\ S > 0 /\ Room \in Nat
  BY Counts DEF Room
<1>5. m # 0 => start \div S \in 0 .. Room - 1 /\ start \div S < count(start)
  <2> SUFFICES ASSUME m # 0
               PROVE  start \div S \in 0 .. Room - 1 /\ start \div S < count(start)
    OBVIOUS
  <2>1. start \div S \in Nat
    BY <1>1, <1>4, Divides
  <2>2. start \div S = count(start) - 1 /\ count(start) \in Nat /\ count(start) <= Room
    BY <1>1, LastSectorOf DEF Whole
  <2> QED BY <1>4, <2>1, <2>2
<1> HIDE DEF di, g, m, start
<1>6. \A t \in F, i \in 0 .. Room - 1 : t # s => place(g.fs, I[t], i) = place(f, I[t], i)
  BY <1>2, BlocksAreRoles, PtrAt
<1>7. \A t \in F, i \in 0 .. Room - 1 : i < count(I[t].length) =>
         /\ place(f, I[t], i) \in f.used
         /\ \A u \in F, k \in 0 .. Room - 1 : place(f, I[u], k) = place(f, I[t], i) => u = t /\ k = i
  <2> SUFFICES ASSUME NEW t \in F, NEW i \in 0 .. Room - 1, i < count(I[t].length)
               PROVE  /\ place(f, I[t], i) \in f.used
                      /\ \A u \in F, k \in 0 .. Room - 1 : place(f, I[u], k) = place(f, I[t], i) => u = t /\ k = i
    OBVIOUS
  <2>1. place(f, I[t], i) # 0
    BY DEF Whole
  <2>2. \A u \in F, k \in 0 .. Room - 1 : Data(k) \in Roles /\ ptr(f, I[u], u, Data(k)) = place(f, I[u], k)
    BY BlocksAreRoles, PtrAt
  <2>3. \A k \in 0 .. Room - 1 : Data(k) = Data(i) => k = i
    BY RolesAt
  <2> QED BY <1>1, <2>1, <2>2, <2>3 DEF Private
<1>8. ASSUME NEW len \in Nat, NEW pos \in Nat, pos < len, count(len) <= Room
      PROVE  pos \div S \in 0 .. Room - 1 /\ pos \div S < count(len) /\ pos % S \in 0 .. S - 1
  BY <1>4, <1>8, PlaceOfByte, Divides
<1>9. \A t \in F : I[t].length \in Nat /\ count(I[t].length) <= Room
  BY <1>1 DEF Whole, InodeType
<1>10. ASSUME NEW t \in F, NEW pos \in Nat, t # s, pos < I[t].length
       PROVE  at(g.fs, I[t], pos) = at(f, I[t], pos)
  <2> DEFINE i == pos \div S
             b == pos % S
             e == place(f, I[t], i)
  <2>1. i \in 0 .. Room - 1 /\ i < count(I[t].length) /\ b \in 0 .. S - 1
    BY <1>8, <1>9, <1>10
  <2> HIDE DEF i, b
  <2>2. e \in f.used /\ \A u \in F, k \in 0 .. Room - 1 : place(f, I[u], k) = e => u = t
    BY <1>7, <2>1
  <2>3. m # 0 => e # c
    BY <1>1, <1>5, <1>10, <2>2 DEF di
  <2>4. g.fs.data[e][b] = f.data[e][b]
    BY <1>3, <2>1, <2>2, <2>3
  <2>5. place(g.fs, I[t], i) = e
    BY <1>6, <1>10, <2>1
  <2> HIDE DEF e
  <2>6. at(g.fs, I[t], pos) = g.fs.data[place(g.fs, I[t], i)][b] /\ at(f, I[t], pos) = f.data[e][b]
    BY DEF at, e, i, b
  <2> QED BY <2>4, <2>5, <2>6
<1>11. ASSUME NEW pos \in Nat, pos < start
       PROVE  g.fs.data[place(f, di, pos \div S)][pos % S] = at(f, di, pos)
  <2> DEFINE i == pos \div S
             b == pos % S
             e == place(f, di, i)
  <2>1. i \in 0 .. Room - 1 /\ i < count(start) /\ b \in 0 .. S - 1
    BY <1>1, <1>8, <1>9, <1>11 DEF di, start
  <2>2. i = start \div S => b < m
    BY <1>1, <1>11, BytesByEnd DEF m
  <2>3. at(f, di, pos) = f.data[e][b]
    BY DEF at
  <2> HIDE DEF i, b
  <2>4. e \in f.used /\ \A k \in 0 .. Room - 1 : place(f, di, k) = e => k = i
    BY <1>1, <1>7, <2>1 DEF di, start
  <2>5. m # 0 /\ e = c => b < m
    BY <1>5, <2>2, <2>4
  <2>6. m \in Nat /\ b \in Nat
    BY <1>1, <1>4, <2>1, Divides DEF m
  <2>7. g.fs.data[e][b] = f.data[e][b]
    BY <1>3, <2>1, <2>4, <2>5, <2>6
  <2> QED BY <2>3, <2>7 DEF i, b
<1>12. ASSUME NEW pos \in Nat, pos < start
       PROVE  /\ at(g.fs, di, pos) = at(f, di, pos)
              /\ at(g.fs, g.di, pos) = at(f, di, pos)
  <2>1. pos \div S \in 0 .. Room - 1 /\ pos \div S < count(start)
    BY <1>1, <1>8, <1>9, <1>12 DEF di, start
  <2>2. place(g.fs, di, pos \div S) = place(f, di, pos \div S) /\ place(g.fs, g.di, pos \div S) = place(f, di, pos \div S)
    BY <1>2, <2>1
  <2> QED BY <1>11, <1>12, <2>2 DEF at
<1>13. ASSUME g.ok, NEW pos \in Nat, pos < end, pos >= start
       PROVE  at(g.fs, g.di, pos) = 0
  <2> DEFINE i == pos \div S
             b == pos % S
  <2>1. count(end) <= Room
    BY <1>2, <1>13 DEF Whole
  <2>2. i \in 0 .. Room - 1 /\ i < count(end) /\ b \in 0 .. S - 1
    BY <1>1, <1>8, <1>13, <2>1
  <2>3. i < count(start) => m # 0 /\ i = start \div S /\ b >= m
    BY <1>1, <1>13, BytesByEnd DEF m
  <2>4. at(g.fs, g.di, pos) = g.fs.data[place(g.fs, g.di, i)][b]
    BY DEF at
  <2> HIDE DEF i, b
  <2>5. CASE i < count(start)
    <3>1. place(g.fs, g.di, i) = c /\ c \in f.used
      BY <1>1, <1>2, <1>7, <2>2, <2>3, <2>5 DEF di, start
    <3> QED BY <1>3, <2>2, <2>3, <2>4, <2>5, <3>1
  <2>6. CASE count(start) <= i
    <3>1. g.fs.data[place(g.fs, g.di, i)] = Zeros
      BY <1>3, <1>13, <2>2, <2>6
    <3> QED BY <2>2, <2>4, <3>1 DEF Zeros
  <2>7. count(start) \in Nat
    BY <1>1, NewSectors
  <2> QED BY <2>2, <2>5, <2>6, <2>7
<1>14. g.ok => \A pos \in Nat : pos < end => at(g.fs, g.di, pos) = IF pos < start THEN at(f, di, pos) ELSE 0
  BY <1>1, <1>12, <1>13
<1> QED BY <1>10, <1>12, <1>14 DEF g, di, start

\* What growth that may have happened leaves of the contents: those of the other
\* files, and of this one as its inode on disk says; if it went well, followed by zeros.
Kept(f, I, F, s, end, g) ==
  /\ \A t \in F : content(g.fs, I[t]) = content(f, I[t])
  /\ g.ok => /\ g.di.length \in Nat /\ end <= g.di.length
             /\ end >= I[s].length => g.di.length = end
             /\ end <= I[s].length => g.di.length = I[s].length
             /\ \A pos \in Nat : pos < g.di.length =>
                  at(g.fs, g.di, pos) = IF pos < I[s].length THEN at(f, I[s], pos) ELSE 0

LEMMA KeptAlready ==
  ASSUME NEW f \in DiskType, NEW I \in [Sectors -> InodeType], NEW F, NEW s \in F, Sound(f, I, F),
         NEW end \in Nat, end <= I[s].length
  PROVE  Kept(f, I, F, s, end, [fs |-> f, di |-> I[s], ok |-> TRUE])
<1> DEFINE g == [fs |-> f, di |-> I[s], ok |-> TRUE]
<1>1. g.fs = f /\ g.di = I[s]
  OBVIOUS
<1>2. I[s].length \in Nat
  BY DEF Sound, InodeType
<1> HIDE DEF g
<1>3. Kept(f, I, F, s, end, g)
  BY <1>1, <1>2 DEF Kept
<1> QED BY <1>3 DEF g

LEMMA KeptBy ==
  ASSUME NEW f \in DiskType, NEW I \in [Sectors -> InodeType], NEW F, NEW s \in F, Sound(f, I, F),
         NEW end \in Nat, I[s].length < end
  PROVE  Kept(f, I, F, s, end, update_file_length(f, I[s], I[s].length, end))
<1> DEFINE di == I[s]
           g == update_file_length(f, di, di.length, end)
<1>1. GrowsFrom(f, I, F, s, end) /\ \A t \in F : Whole(f, I[t])
  BY DEF GrowsFrom, Sound
<1>2. /\ \A t \in F : \A pos \in Nat : t # s /\ pos < I[t].length => at(g.fs, I[t], pos) = at(f, I[t], pos)
      /\ \A pos \in Nat : pos < di.length => at(g.fs, di, pos) = at(f, di, pos)
      /\ g.ok => \A pos \in Nat : pos < end =>
                   at(g.fs, g.di, pos) = IF pos < di.length THEN at(f, di, pos) ELSE 0
  BY <1>1, GrowthBytes
<1>3. Grew(f, I, F, s, g)
  BY GrewBy
<1>4. g.di.length = end
  <2> DEFINE K == [I EXCEPT ![s] = g.di]
  <2>1. /\ g \in GrowingType /\ f.used \subseteq g.fs.used /\ g.fs.inode = f.inode /\ g.di.length = end
        /\ \A t \in F, q \in Roles : t # s => ptr(g.fs, I[t], t, q) = ptr(f, I[t], t, q)
        /\ Private(g.fs, I, F) /\ Whole(g.fs, di)
        /\ \A i \in 0 .. Room - 1 : i < count(di.length) =>
             place(g.fs, di, i) = place(f, di, i) /\ place(g.fs, g.di, i) = place(f, di, i)
        /\ g.ok => /\ Private(g.fs, K, F)
                   /\ Whole(g.fs, g.di)
                   /\ Neat(f, di, count(di.length)) =>
                        /\ Neat(g.fs, g.di, count(end))
                        /\ \A y \in g.fs.used \ f.used : \E q \in Roles : ptr(g.fs, g.di, s, q) = y
                        /\ \A q \in Roles : ptr(f, di, s, q) \in {0, ptr(g.fs, g.di, s, q)}
    BY <1>1, Growth
  <2> HIDE DEF g
  <2> QED BY <2>1
<1> HIDE DEF g
<1>5. \A t \in F : Whole(g.fs, I[t]) /\ Whole(f, I[t]) /\ I[t] \in InodeType
  BY <1>1, <1>3 DEF Grew, Sound
<1>6. \A t \in F : \A pos \in Nat : pos < I[t].length => at(g.fs, I[t], pos) = at(f, I[t], pos)
  BY <1>2
<1>7. ASSUME NEW t \in F
      PROVE  content(g.fs, I[t]) = content(f, I[t])
  <2> DEFINE h == g.fs
             ei == I[t]
  <2>1. /\ ei \in InodeType /\ Whole(f, ei) /\ Whole(h, ei)
        /\ \A pos \in Nat : pos < ei.length => at(h, ei, pos) = at(f, ei, pos)
    BY <1>5, <1>6
  <2> HIDE DEF h, ei
  <2>2. content(h, ei) = content(f, ei)
    BY <2>1, SameContent
  <2> QED BY <2>2 DEF h, ei
<1>8. di.length \in Nat
  BY <1>5 DEF InodeType
<1>9. Kept(f, I, F, s, end, g)
  BY <1>2, <1>4, <1>7, <1>8 DEF Kept
<1> QED BY <1>9 DEF g

\* The loop of inode_write_at puts its bytes in the file written and in no other.
LEMMA WrittenBytes ==
  ASSUME NEW f \in DiskType, NEW I, NEW F, NEW s \in F, Sound(f, I, F), NEW off \in Nat, NEW size \in Nat,
         \A t \in F : I[t] \in InodeType, off + size <= I[s].length,
         NEW t \in F, NEW pos \in Nat, pos < I[t].length
  PROVE  at(written(f, I[s], off, size), I[t], pos) =
           IF t = s /\ off <= pos /\ pos < off + size THEN 1 ELSE at(f, I[t], pos)
<1> DEFINE h == written(f, I[s], off, size)
           S == SectorSize
           i == pos \div S
           b == pos % S
           e == place(f, I[t], i)
<1>1. h.index = f.index
      /\ \A d \in Sectors, c \in 0 .. S - 1 : h.data[d][c] =
           IF \E x \in off .. off + size - 1 : x % S = c /\ byte_to_sector(f, I[s], x) = d THEN 1 ELSE f.data[d][c]
  BY DEF written, DiskType
<1> HIDE DEF h
<1>2. S \in Nat /\ S > 0
  BY Counts
<1>3. \A u \in F : Whole(f, I[u]) /\ I[u].length \in Nat /\ count(I[u].length) <= Room
  BY DEF Sound, Whole, InodeType
<1>4. ASSUME NEW u \in F, NEW x \in Nat, x < I[u].length
      PROVE  /\ x \div S \in 0 .. Room - 1 /\ x % S \in 0 .. S - 1
             /\ place(f, I[u], x \div S) # 0
             /\ byte_to_sector(f, I[u], x) = place(f, I[u], x \div S)
  <2>1. x \div S \in 0 .. Room - 1 /\ x \div S < count(I[u].length) /\ x % S \in 0 .. S - 1
    BY <1>2, <1>3, <1>4, PlaceOfByte, Divides
  <2>2. place(f, I[u], x \div S) # 0
    BY <1>3, <2>1 DEF Whole
  <2>3. byte_to_sector(f, I[u], x) = place(f, I[u], x \div S)
    BY <1>3, <1>4, <2>1, <2>2, ByteInPlace
  <2> QED BY <2>1, <2>2, <2>3
<1>5. i \in 0 .. Room - 1 /\ b \in 0 .. S - 1 /\ e # 0
  BY <1>4
<1>6. \A u \in F, k \in 0 .. Room - 1 : place(f, I[u], k) = e => u = t /\ k = i
  <2> HIDE DEF i
  <2>1. \A u \in F, k \in 0 .. Room - 1 : Data(k) \in Roles /\ ptr(f, I[u], u, Data(k)) = place(f, I[u], k)
    BY BlocksAreRoles, PtrAt
  <2>2. \A k \in 0 .. Room - 1 : Data(k) = Data(i) => k = i
    BY RolesAt
  <2> QED BY <1>5, <2>1, <2>2 DEF Sound, Private
<1>7. e \in Sectors
  <2> HIDE DEF i
  <2>1. ptr(f, I[t], t, Data(i)) = e /\ Data(i) \in Roles
    BY <1>5, PtrAt, BlocksAreRoles
  <2> QED BY <2>1, PtrTyped DEF Sound
<1>8. place(h, I[t], i) = e
  BY <1>1, <1>5, PlacesKept
<1>9. (\E x \in off .. off + size - 1 : x % S = b /\ byte_to_sector(f, I[s], x) = e)
      <=> (t = s /\ off <= pos /\ pos < off + size)
  <2>1. ASSUME NEW x \in off .. off + size - 1, x % S = b, byte_to_sector(f, I[s], x) = e
        PROVE  t = s /\ x = pos
    <3>1. x \in Nat /\ x < I[s].length
      BY <1>3
    <3>2. x \div S \in 0 .. Room - 1 /\ place(f, I[s], x \div S) = e
      BY <1>4, <2>1, <3>1
    <3>3. t = s /\ x \div S = i
      BY <1>6, <3>2
    <3>4. x = S * (x \div S) + (x % S) /\ pos = S * i + b
      BY <1>2, <3>1, Divides
    <3> QED BY <2>1, <3>3, <3>4
  <2>2. ASSUME t = s, off <= pos, pos < off + size
        PROVE  pos \in off .. off + size - 1 /\ pos % S = b /\ byte_to_sector(f, I[s], pos) = e
    BY <1>4, <2>2
  <2> HIDE DEF e, b
  <2>3. \A x \in off .. off + size - 1 : x = pos => off <= pos /\ pos < off + size
    OBVIOUS
  <2> QED BY <2>1, <2>2, <2>3
<1>10. h.data[e][b] = IF t = s /\ off <= pos /\ pos < off + size THEN 1 ELSE f.data[e][b]
  <2> HIDE DEF e, b
  <2> QED BY <1>1, <1>5, <1>7, <1>9
<1>11. at(h, I[t], pos) = h.data[e][b] /\ at(f, I[t], pos) = f.data[e][b]
  BY <1>8 DEF at
<1> QED BY <1>10, <1>11 DEF h

-----------------------------------------------------------------------------
(* The calls as FileStore has them *)

\* What FileStore sees of the disk.
stored(f, I, F) == [s \in Sectors \ System |-> IF s \in F THEN content(f, I[s]) ELSE <<>>]
Stored == stored(fs, fs.inode, Files)

LEMMA StoredIs ==
  /\ Stored  = [s \in Sectors \ System |-> IF s \in Files THEN contents(s) ELSE <<>>]
  /\ Stored' = [s \in Sectors \ System |-> IF s \in Files THEN contents(s) ELSE <<>>]'
<1>1. \A s : contents(s) = content(fs, fs.inode[s])
  BY DEF contents, content
<1>2. \A s : (contents(s))' = (content(fs, fs.inode[s]))'
  BY DEF contents, content
<1> QED BY <1>1, <1>2 DEF Stored, stored

\* The files are those FileStore takes to live, and none of them is the system's.
LEMMA FilesLive ==
  ASSUME FSInv
  PROVE  /\ \A s : Store!Live(s) <=> s \in Files
         /\ Files \subseteq Sectors \ System
<1>1. Typed /\ Sound(fs, fs.inode, Files)
  BY DEF FSInv
<1>2. Files \subseteq Sectors \ {0}
  BY <1>1 DEF Sound
<1>3. \A s : Store!Live(s) <=> s \in Files
  <2>1. \A s : s \in {dir[n] : n \in Names} <=> \E n \in Names : dir[n] = s
    OBVIOUS
  <2> QED BY <1>1, <1>2, <2>1, FilesAre DEF Store!Live, Store!NoId
<1>4. \A s \in Files : s \notin System
  <2>1. \A s \in Files : ptr(fs, fs.inode[s], s, Inode) = s /\ Inode \in Roles /\ s # 0
    BY <1>2, PtrOf, RolesDiffer
  <2> QED BY <1>1, <2>1 DEF Sound, Private
<1> QED BY <1>2, <1>3, <1>4

LEMMA FilesLiveNext ==
  FSInv' => /\ \A s : (Store!Live(s))' <=> s \in Files'
            /\ Files' \subseteq Sectors \ System
<1>1. FSInv => (\A s : Store!Live(s) <=> s \in Files) /\ Files \subseteq Sectors \ System
  BY FilesLive
<1>2. FSInv' => ((\A s : Store!Live(s) <=> s \in Files) /\ Files \subseteq Sectors \ System)'
  BY <1>1, PTL
<1> QED BY <1>2

\* A step that changes the contents of file x, to c, and of no other.
LEMMA KeepBy ==
  ASSUME FSInv, FSInv', NEW x, NEW c,
         \A t \in Files' : t # x => t \in Files /\ content(fs', fs'.inode[t]) = content(fs, fs.inode[t]),
         x \in Files' => content(fs', fs'.inode[x]) = c
  PROVE  Store!Keep(x, c)
<1>1. \A s : (Store!Live(s))' <=> s \in Files'
  BY FilesLiveNext
<1>2. Stored' = [s \in Sectors \ System |-> IF s \in Files' THEN content(fs', fs'.inode[s]) ELSE <<>>]
  BY DEF Stored, stored, content, byte_to_sector
<1>3. Stored' = [s \in Sectors \ System |-> IF ~ (Store!Live(s))' THEN <<>> ELSE IF s = x THEN c ELSE Stored[s]]
  <2>1. ASSUME NEW s \in Sectors \ System, s \in Files'
        PROVE  content(fs', fs'.inode[s]) = IF s = x THEN c ELSE Stored[s]
    BY <2>1 DEF Stored, stored
  <2> QED BY <1>1, <1>2, <2>1
<1> QED BY <1>3, StoredIs DEF Store!Keep

\* A step that changes neither the files nor what is in them.
LEMMA StoredSame ==
  ASSUME Files' = Files,
         \A t \in Files : content(fs', fs'.inode[t]) = content(fs, fs.inode[t])
  PROVE  Stored' = Stored
<1>1. Stored' = [s \in Sectors \ System |-> IF s \in Files' THEN content(fs', fs'.inode[s]) ELSE <<>>]
  BY DEF Stored, stored, content, byte_to_sector
<1> QED BY <1>1 DEF Stored, stored

LEMMA FilesThen ==
  ASSUME FSInv, FSInv'
  PROVE  /\ \A s : s \in Files <=> \/ s # 0 /\ \E n \in Names : dir[n] = s
                                   \/ \E p \in Procs : <<p, s>> \in opened
         /\ \A s : s \in Files' <=> \/ s # 0 /\ \E n \in Names : dir'[n] = s
                                    \/ \E p \in Procs : <<p, s>> \in opened'
<1>1. Typed /\ Typed'
  BY DEF FSInv
<1>2. Typed => \A s : s \in Files <=> \/ s # 0 /\ \E n \in Names : dir[n] = s
                                      \/ \E p \in Procs : <<p, s>> \in opened
  BY FilesAre
<1>3. Typed' => (\A s : s \in Files <=> \/ s # 0 /\ \E n \in Names : dir[n] = s
                                        \/ \E p \in Procs : <<p, s>> \in opened)'
  BY FilesAre, PTL
<1> QED BY <1>1, <1>2, <1>3

\* A step of FileStore, or none.
Stores == Store!Next \/ UNCHANGED <<dir, opened, Stored>>

LEMMA OpenStores ==
  ASSUME FSInv, FSInv', NEW p \in Procs, NEW n \in Names, filesys_open(p, n)
  PROVE  Stores
<1>1. dir[n] # 0 /\ opened' = opened \cup {<<p, dir[n]>>} /\ UNCHANGED <<fs, dir>>
  BY DEF filesys_open
<1>2. Files' = Files
  <2>1. \A s : (\E q \in Procs : <<q, s>> \in opened') <=> s = dir[n] \/ \E q \in Procs : <<q, s>> \in opened
    BY <1>1
  <2>2. \A s : s \in Files' <=> s \in Files
    BY <1>1, <2>1, FilesThen
  <2>3. \A s \in Files' : s \in Sectors
    BY <2>2, FilesLive
  <2> QED BY <2>2
<1>3. Stored' = Stored
  BY <1>1, <1>2, StoredSame
<1>4. Store!Open(p, n)
  BY <1>1, <1>3, StoredIs DEF Store!Open, Store!NoId
<1> QED BY <1>4 DEF Stores, Store!Next

LEMMA StopStores ==
  ASSUME stop
  PROVE  Stores
<1>1. Files' = Files /\ UNCHANGED <<fs, dir, opened>>
  BY DEF stop, Files, named
<1>2. Stored' = Stored
  BY <1>1, StoredSame
<1> QED BY <1>1, <1>2 DEF Stores

\* A step after which there are fewer files, with what was in them.
LEMMA FewerStored ==
  ASSUME FSInv, FSInv', \A s : s \in Files' => s \in Files,
         fs'.inode = fs.inode, fs'.index = fs.index, fs'.data = fs.data
  PROVE  Store!Keep(0, <<>>)
<1>1. \A t : content(fs', fs'.inode[t]) = content(fs, fs.inode[t])
  BY SameDisk
<1>2. 0 \notin Files'
  <2>1. (Sound(fs, fs.inode, Files))'
    BY DEF FSInv
  <2> QED BY <2>1 DEF Sound
<1> QED BY <1>1, <1>2, KeepBy

LEMMA RemoveStores ==
  ASSUME FSInv, FSInv', NEW n \in Names, filesys_remove(n)
  PROVE  Stores
<1>1. CASE stop
  BY <1>1, StopStores
<1>2. CASE ~ stop
  <2>1. /\ dir[n] # 0 /\ dir' = [dir EXCEPT ![n] = 0] /\ opened' = opened
        /\ fs' = fs \/ free_inode(dir[n])
    BY <1>2 DEF filesys_remove
  <2>2. fs'.inode = fs.inode /\ fs'.index = fs.index /\ fs'.data = fs.data
    BY <2>1, Unpack, Releases DEF free_inode
  <2>3. \A s : s \in Files' => s \in Files
    BY <2>1, Unpack, FilesThen
  <2>4. Store!Keep(0, <<>>)
    BY <2>2, <2>3, FewerStored
  <2>5. Store!Remove(n)
    BY <2>1, <2>4 DEF Store!Remove, Store!NoId
  <2> QED BY <2>5 DEF Stores, Store!Next
<1> QED BY <1>1, <1>2

LEMMA CloseStores ==
  ASSUME FSInv, FSInv', NEW p \in Procs, NEW s \in Sectors, file_close(p, s)
  PROVE  Stores
<1>1. CASE stop
  BY <1>1, StopStores
<1>2. CASE ~ stop
  <2>1. /\ <<p, s>> \in opened /\ opened' = opened \ {<<p, s>>} /\ dir' = dir
        /\ fs' = fs \/ free_inode(s)
    BY <1>2 DEF file_close
  <2>2. fs'.inode = fs.inode /\ fs'.index = fs.index /\ fs'.data = fs.data
    BY <2>1, Unpack, Releases DEF free_inode
  <2>3. \A t : t \in Files' => t \in Files
    BY <2>1, FilesThen
  <2>4. Store!Keep(0, <<>>)
    BY <2>2, <2>3, FewerStored
  <2>5. Store!Close(p, s)
    BY <2>1, <2>4 DEF Store!Close, Store!NoId
  <2>6. s \in Sectors \ System
    BY <2>1, FilesThen, FilesLive
  <2> QED BY <2>5, <2>6 DEF Stores, Store!Next
<1> QED BY <1>1, <1>2

LEMMA ContentLen ==
  ASSUME NEW f, NEW di \in InodeType
  PROVE  Len(content(f, di)) = di.length
<1> DEFINE c == content(f, di)
           n == di.length
           S == {c[i] : i \in 1 .. n}
<1>1. n \in Nat
  BY DEF InodeType
<1>2. DOMAIN c = 1 .. n /\ c = [i \in 1 .. n |-> c[i]]
  BY DEF content
<1> HIDE DEF c, n
<1>3. c \in [1 .. n -> S]
  BY <1>2
<1> HIDE DEF S
<1>4. c \in Seq(S)
  BY <1>1, <1>3
<1>5. Len(c) \in Nat /\ DOMAIN c = 1 .. Len(c)
  BY <1>4
<1>6. Len(c) = n
  BY <1>1, <1>2, <1>5
<1> QED BY <1>6 DEF c, n

\* No file is longer than the index has room for.
LEMMA LengthFits ==
  ASSUME NEW len \in Nat, count(len) <= Room
  PROVE  len <= Largest
<1> DEFINE S == SectorSize
           c == count(len)
           m == (len + S - 1) % S
           d == Room - c
<1>1. S \in Nat /\ S > 0 /\ Room \in Nat
  BY Counts DEF Room
<1>2. len + S - 1 \in Nat
  BY <1>1
<1>3. c \in Nat /\ m \in 0 .. S - 1 /\ len + S - 1 = S * c + m
  BY <1>1, <1>2, Divides DEF count
<1>4. d \in Nat /\ Room = c + d
  BY <1>1, <1>3
<1> HIDE DEF c, m, d
<1>5. S * (c + d) = S * c + S * d /\ S * c \in Nat /\ S * d \in Nat
  BY <1>1, <1>3, <1>4
<1>6. len <= S * (c + d)
  BY <1>1, <1>3, <1>5
<1>7. Largest = S * Room
  BY DEF Largest, Room
<1> QED BY <1>4, <1>6, <1>7

\* Disk h is disk f with bytes written where there is room for them in file s.
Writing(f, K, F, s, off, size, h) ==
  /\ f \in DiskType /\ K \in [Sectors -> InodeType] /\ s \in F /\ Sound(f, K, F)
  /\ off \in Nat /\ size \in Nat /\ off + size <= K[s].length
  /\ h = written(f, K[s], off, size)

LEMMA WrittenContents ==
  ASSUME NEW f, NEW K, NEW F, NEW s, NEW off, NEW size, NEW h, Writing(f, K, F, s, off, size, h)
  PROVE  /\ \A t \in F : t # s => content(h, K[t]) = content(f, K[t])
         /\ content(h, K[s]) =
              [i \in 1 .. K[s].length |-> IF i \in off + 1 .. off + size THEN 1 ELSE at(f, K[s], i - 1)]
<1>0. /\ f \in DiskType /\ K \in [Sectors -> InodeType] /\ s \in F /\ Sound(f, K, F)
      /\ off \in Nat /\ size \in Nat /\ off + size <= K[s].length
      /\ h = written(f, K[s], off, size)
  BY DEF Writing
<1>1. h.index = f.index /\ h.used = f.used
  BY <1>0 DEF written, DiskType
<1>2. F \subseteq Sectors /\ \A t \in F : K[t] \in InodeType
  BY <1>0 DEF Sound
<1>3. \A t \in F, pos \in Nat : pos < K[t].length =>
        at(h, K[t], pos) = IF t = s /\ off <= pos /\ pos < off + size THEN 1 ELSE at(f, K[t], pos)
  BY <1>0, <1>2, WrittenBytes
<1>4. \A t \in F : Whole(h, K[t]) /\ Whole(f, K[t])
  <2>1. Sound(f, K, F)
    BY <1>0
  <2>2. Sound(h, K, F)
    BY ONLY <1>1, <2>1, SoundAlike
  <2> QED BY <2>1, <2>2 DEF Sound
<1>5. ASSUME NEW t \in F, t # s
      PROVE  content(h, K[t]) = content(f, K[t])
  <2> DEFINE ei == K[t]
  <2>1. /\ ei \in InodeType /\ Whole(f, ei) /\ Whole(h, ei)
        /\ \A pos \in Nat : pos < ei.length => at(h, ei, pos) = at(f, ei, pos)
    BY <1>2, <1>3, <1>4, <1>5
  <2> HIDE DEF ei
  <2>2. content(h, ei) = content(f, ei)
    BY <2>1, SameContent
  <2> QED BY <2>2 DEF ei
<1>6. content(h, K[s]) = [i \in 1 .. K[s].length |-> at(h, K[s], i - 1)]
  BY <1>0, <1>2, <1>4, ContentAt
<1>7. ASSUME NEW i \in 1 .. K[s].length
      PROVE  at(h, K[s], i - 1) = IF i \in off + 1 .. off + size THEN 1 ELSE at(f, K[s], i - 1)
  <2>1. K[s].length \in Nat
    BY <1>0, <1>2 DEF InodeType
  <2>2. i - 1 \in Nat /\ i - 1 < K[s].length /\ (i \in off + 1 .. off + size <=> off <= i - 1 /\ i - 1 < off + size)
    BY <1>0, <2>1
  <2> QED BY <1>0, <1>3, <2>2
<1> QED BY <1>5, <1>6, <1>7

\* A write that goes well is FileStore's, one that does not changes nothing.
LEMMA WriteStores ==
  ASSUME FSInv, FSInv', NEW p \in Procs, NEW s \in Sectors, NEW off \in Offsets, NEW size \in Sizes,
         inode_write_at(p, s, off, size)
  PROVE  Stores
<1> DEFINE I == fs.inode
           di == I[s]
           end == off + size
           g == IF end > di.length THEN update_file_length(fs, di, di.length, end)
                                   ELSE [fs |-> fs, di |-> di, ok |-> TRUE]
           F == Files
           K == [I EXCEPT ![s] = g.di]
           w == written(g.fs, g.di, off, size)
           h == [written(g.fs, g.di, off, size) EXCEPT !.inode[s] = g.di]
<1>1. fs \in DiskType /\ I \in [Sectors -> InodeType] /\ Sound(fs, I, F)
  BY Unpack
<1>2. <<p, s>> \in opened /\ s \in F
  <2>1. <<p, s>> \in opened
    BY DEF inode_write_at
  <2> QED BY <2>1 DEF Files
<1>3. off \in Nat /\ size \in Nat /\ end \in Nat /\ di \in InodeType /\ di.length \in Nat
  <2>1. off \in Nat /\ size \in Nat
    BY FileSysAssumption
  <2>2. di \in InodeType
    BY <1>1
  <2> QED BY <2>1, <2>2 DEF InodeType
<1>4. Grew(fs, I, F, s, g) /\ Kept(fs, I, F, s, end, g)
  <2> HIDE DEF end, F
  <2>1. CASE end > di.length
    <3>1. g = update_file_length(fs, I[s], I[s].length, end)
      BY <2>1
    <3> HIDE DEF I, g
    <3> QED BY <1>1, <1>2, <1>3, <2>1, <3>1, GrewBy, KeptBy
  <2>2. CASE ~ (end > di.length)
    <3>1. g = [fs |-> fs, di |-> I[s], ok |-> TRUE] /\ end <= I[s].length
      BY <1>3, <2>2
    <3> HIDE DEF I, g
    <3> QED BY <1>1, <1>2, <1>3, <3>1, GrewAlready, KeptAlready
  <2> QED BY <2>1, <2>2
<1>5. \/ stop
      \/ g.ok /\ fs' = h /\ UNCHANGED <<dir, opened>>
      \/ fs' = g.fs /\ UNCHANGED <<dir, opened>>
  BY DEF inode_write_at
<1> HIDE DEF g
<1>6. /\ g \in GrowingType /\ g.fs \in DiskType /\ g.di \in InodeType /\ g.fs.inode = I
      /\ g.ok => Sound(g.fs, K, F)
  BY <1>4 DEF Grew, GrowingType
<1>7. \A t \in F : content(g.fs, I[t]) = content(fs, I[t])
  BY <1>4 DEF Kept
<1>8. CASE stop
  BY <1>8, StopStores
<1>9. CASE fs' = g.fs /\ UNCHANGED <<dir, opened>>
  <2>1. Files' = F
    BY <1>9 DEF Files, named
  <2>2. Stored' = Stored
    BY <1>6, <1>7, <1>9, <2>1, StoredSame
  <2> QED BY <1>9, <2>2 DEF Stores
<1>10. CASE g.ok /\ fs' = h /\ UNCHANGED <<dir, opened>>
  <2> DEFINE len == g.di.length
             old == content(fs, di)
             c == [i \in 1 .. len |-> IF i \in off + 1 .. end THEN 1 ELSE IF i <= di.length THEN old[i] ELSE 0]
  <2>1. Files' = F
    BY <1>10 DEF Files, named
  <2>2. h.index = w.index /\ h.data = w.data /\ h.inode = K
    <3> DEFINE gf == g.fs
               ei == g.di
    <3>0. gf \in DiskType /\ ei \in InodeType
      BY <1>6
    <3> HIDE DEF gf, ei
    <3>1. h.inode = [gf.inode EXCEPT ![s] = ei]
      <4>1. h = [written(gf, ei, off, size) EXCEPT !.inode[s] = ei]
        BY DEF gf, ei
      <4>2. DOMAIN gf = {"used", "inode", "index", "data"}
        BY <3>0 DEF DiskType
      <4>3. written(gf, ei, off, size).inode = gf.inode /\ "inode" \in DOMAIN written(gf, ei, off, size)
        BY <4>2 DEF written
      <4> HIDE DEF h
      <4> QED BY <4>1, <4>3
    <3>2. h.index = w.index /\ h.data = w.data
      BY DEF written
    <3> QED BY <1>6, <3>1, <3>2 DEF gf, ei
  <2>3. K \in [Sectors -> InodeType] /\ K[s] = g.di /\ (\A t \in F : t # s => K[t] = I[t]) /\ Sound(g.fs, K, F)
    <3>1. F \subseteq Sectors
      BY <1>1 DEF Sound
    <3> QED BY <1>1, <1>6, <1>10, <3>1
  <2>4. /\ len \in Nat /\ end <= len
        /\ len = IF end > di.length THEN end ELSE di.length
        /\ \A pos \in Nat : pos < len =>
             at(g.fs, g.di, pos) = IF pos < di.length THEN at(fs, di, pos) ELSE 0
    BY <1>3, <1>4, <1>10 DEF Kept
  <2>5. /\ \A t \in F : t # s => content(w, K[t]) = content(g.fs, K[t])
        /\ content(w, g.di) = [i \in 1 .. len |-> IF i \in off + 1 .. end THEN 1 ELSE at(g.fs, g.di, i - 1)]
    <3> DEFINE gf == g.fs
    <3>1. gf \in DiskType /\ Sound(gf, K, F) /\ off + size <= K[s].length /\ K \in [Sectors -> InodeType]
      BY <1>6, <2>3, <2>4
    <3> HIDE DEF gf, K, F, w, I
    <3>3. s \in F /\ off \in Nat /\ size \in Nat
      BY <1>2, <1>3
    <3>2. w = written(gf, K[s], off, size)
      BY <2>3 DEF gf, w
    <3>5. Writing(gf, K, F, s, off, size, w)
      BY <3>1, <3>2, <3>3 DEF Writing
    <3>4. /\ \A t \in F : t # s => content(w, K[t]) = content(gf, K[t])
          /\ content(w, K[s]) =
               [i \in 1 .. K[s].length |-> IF i \in off + 1 .. off + size THEN 1 ELSE at(gf, K[s], i - 1)]
      BY ONLY <3>5, WrittenContents
    <3> QED BY <2>3, <3>4 DEF gf
  <2>6. old = [i \in 1 .. di.length |-> at(fs, di, i - 1)] /\ Len(old) = di.length
    BY <1>1, <1>2, <1>3, ContentAt, ContentLen DEF Sound
  <2> HIDE DEF old
  <2>7. content(w, g.di) = c
    <3>1. ASSUME NEW i \in 1 .. len
          PROVE  at(g.fs, g.di, i - 1) = IF i <= di.length THEN old[i] ELSE 0
      <4>1. i - 1 \in Nat /\ i - 1 < len /\ (i - 1 < di.length <=> i <= di.length)
        BY <1>3, <2>4
      <4> QED BY <1>3, <2>4, <2>6, <4>1
    <3> QED BY <2>5, <3>1
  <2> HIDE DEF w, c, K, F, len, h
  <2>8. \A t \in Files' : t # s => t \in Files /\ content(fs', fs'.inode[t]) = content(fs, fs.inode[t])
    <3> SUFFICES ASSUME NEW t \in F, t # s
                 PROVE  content(fs', fs'.inode[t]) = content(fs, I[t])
      BY <2>1 DEF F
    <3>1. fs'.inode[t] = I[t] /\ K[t] = I[t]
      BY <1>10, <2>2, <2>3
    <3>2. content(fs', I[t]) = content(w, I[t])
      BY <1>10, <2>2, SameDisk
    <3> QED BY <1>7, <2>5, <3>1, <3>2
  <2>9. content(fs', fs'.inode[s]) = c
    <3>1. fs'.inode[s] = g.di
      BY <1>10, <2>2, <2>3
    <3>2. content(fs', g.di) = content(w, g.di)
      BY <1>10, <2>2, SameDisk
    <3> QED BY <2>7, <3>1, <3>2
  <2>10. Store!Keep(s, c)
    <3> SUFFICES ASSUME NEW e, e = c PROVE Store!Keep(s, e)
      BY DEF Store!Keep
    <3>1. content(fs', fs'.inode[s]) = e
      BY <2>9
    <3> QED BY <2>8, <3>1, KeepBy
  <2>11. s \in Sectors \ System /\ Stored[s] = old
    BY <1>2, FilesLive DEF F, Stored, stored, old
  <2>12. off \in 0 .. Largest /\ size \in 0 .. Largest
    <3>1. len <= Largest
      <4>1. count(len) <= Room
        BY <1>2, <2>3 DEF Sound, Whole, len
      <4> QED BY <2>4, <4>1, LengthFits
    <3>2. Largest \in Nat
      BY Counts DEF Largest
    <3> QED BY <1>3, <2>4, <3>1, <3>2
  <2>13. Store!Write(p, s, off, size)
    <3> DEFINE bar == [t \in Sectors \ System |-> IF t \in Files THEN contents(t) ELSE <<>>]
    <3>1. bar[s] = old
      BY <2>11, StoredIs
    <3> DEFINE n == IF off + size > Len(bar[s]) THEN off + size ELSE Len(bar[s])
               d == [i \in 1 .. n |-> IF i \in off + 1 .. off + size THEN 1 ELSE IF i <= Len(bar[s]) THEN bar[s][i] ELSE 0]
    <3>2. c = d
      BY <2>4, <2>6, <3>1 DEF c, len
    <3>3. Store!Keep(s, d)
      BY ONLY <2>10, <3>2 DEF Store!Keep
    <3> QED BY <1>2, <1>10, <3>3 DEF Store!Write, Store!Keep
  <2> QED BY <2>11, <2>12, <2>13 DEF Stores, Store!Next
<1> QED BY <1>5, <1>8, <1>9, <1>10

\* A file that is created holds as many zeros as were asked for; where that
\* fails, nothing has changed in any file.
LEMMA CreateStores ==
  ASSUME FSInv, FSInv', NEW n \in Names, NEW len \in Lengths, filesys_create(n, len)
  PROVE  Stores
<1> DEFINE s == first_free(fs)
           f == allocate(fs)
           g == IF len > 0 THEN update_file_length(f, EmptyInode, 0, len) ELSE [fs |-> f, di |-> EmptyInode, ok |-> TRUE]
           created == [g.fs EXCEPT !.inode[s] = g.di]
           I == fs.inode
           J == [I EXCEPT ![s] = EmptyInode]
           F == Files
           G == F \cup {s}
<1>1. fs \in DiskType /\ I \in [Sectors -> InodeType] /\ dir \in [Names -> Sectors] /\ Sound(fs, I, F)
  BY Unpack
<1>2. opened' = opened /\ len \in Nat
  BY FileSysAssumption DEF filesys_create
<1>3. CASE UNCHANGED <<fs, dir>>
  <2>1. Files' = Files
    BY <1>2, <1>3 DEF Files, named
  <2>2. Stored' = Stored
    BY <1>3, <2>1, StoredSame
  <2> QED BY <1>2, <1>3, <2>2 DEF Stores
<1>4. ASSUME available(fs) # {}
      PROVE  /\ s \in Sectors \ fs.used /\ s \notin F /\ s # 0
             /\ J \in [Sectors -> InodeType] /\ J[s] = EmptyInode /\ EmptyInode.length = 0
             /\ f.index = fs.index /\ f.data = fs.data /\ f.inode = I
             /\ Grew(f, J, G, s, g) /\ Kept(f, J, G, s, len, g)
  <2>1. /\ s \in Sectors \ fs.used /\ s \notin F /\ s # 0
        /\ J \in [Sectors -> InodeType] /\ Sound(f, J, G)
    BY <1>1, <1>4, NewFile
  <2>2. f \in DiskType /\ f.index = fs.index /\ f.data = fs.data /\ f.inode = I
    BY <1>1, <1>4, Allocates
  <2>3. J[s] = EmptyInode /\ J[s].length = 0
    BY <1>1, <2>1 DEF EmptyInode
  <2> HIDE DEF f, J, s, F, I
  <2>4. CASE len > 0
    <3>1. g = update_file_length(f, J[s], J[s].length, len)
      BY <2>3, <2>4
    <3> HIDE DEF g
    <3>2. Grew(f, J, G, s, g)
      BY <1>2, <2>1, <2>2, <2>3, <2>4, <3>1, GrewBy
    <3>3. Kept(f, J, G, s, len, g)
      BY <1>2, <2>1, <2>2, <2>3, <2>4, <3>1, KeptBy
    <3> QED BY <2>1, <2>2, <2>3, <3>2, <3>3
  <2>5. CASE ~ (len > 0)
    <3>1. g = [fs |-> f, di |-> J[s], ok |-> TRUE] /\ len <= J[s].length
      BY <1>2, <2>3, <2>5
    <3> HIDE DEF g
    <3>2. Grew(f, J, G, s, g)
      BY <2>1, <2>2, <3>1, GrewAlready
    <3>3. Kept(f, J, G, s, len, g)
      BY <1>2, <2>1, <2>2, <3>1, KeptAlready
    <3> QED BY <2>1, <2>2, <2>3, <3>2, <3>3
  <2> QED BY <2>4, <2>5
<1> HIDE DEF g, s, f, I, J
<1>5. ASSUME available(fs) # {}
      PROVE  \A t \in F : J[t] = I[t] /\ content(g.fs, I[t]) = content(fs, I[t])
  <2>1. \A t \in F : J[t] = I[t] /\ t \in G
    BY <1>1, <1>4, <1>5 DEF J, Sound
  <2>2. \A t \in F : content(g.fs, J[t]) = content(f, J[t])
    BY <1>4, <1>5, <2>1 DEF Kept
  <2>3. \A t \in F : content(f, J[t]) = content(fs, J[t])
    BY <1>4, <1>5, SameDisk
  <2> QED BY <2>1, <2>2, <2>3
<1>6. CASE /\ available(fs) # {} /\ fs' = release(IF g.ok THEN created ELSE g.fs, {s}) /\ UNCHANGED dir
  <2>1. Files' = F
    BY <1>2, <1>6 DEF Files, named
  <2>2. /\ g \in GrowingType /\ g.fs.inode = I /\ s \notin F /\ F \subseteq Sectors
    BY <1>1, <1>4, <1>6 DEF Grew, Sound
  <2>3. /\ fs'.index = g.fs.index /\ fs'.data = g.fs.data
        /\ \A t \in F : fs'.inode[t] = I[t]
    <3>1. g.fs \in DiskType
      BY <2>2 DEF GrowingType
    <3>2. /\ created.index = g.fs.index /\ created.data = g.fs.data
          /\ \A t \in F : created.inode[t] = I[t]
      BY <2>2, <3>1 DEF DiskType
    <3> DEFINE h == IF g.ok THEN created ELSE g.fs
    <3>3. h.index = g.fs.index /\ h.data = g.fs.data /\ \A t \in F : h.inode[t] = I[t]
      BY <2>2, <3>2
    <3>4. fs' = release(h, {s})
      BY <1>6
    <3> HIDE DEF h
    <3>5. fs'.inode = h.inode /\ fs'.index = h.index /\ fs'.data = h.data
      BY <3>4 DEF release
    <3> QED BY <3>3, <3>5
  <2>4. \A t \in F : content(fs', fs'.inode[t]) = content(fs, fs.inode[t])
    <3>1. \A t \in F : content(fs', I[t]) = content(g.fs, I[t])
      BY <2>3, SameDisk
    <3> QED BY <1>5, <1>6, <2>3, <3>1 DEF I
  <2>5. Stored' = Stored
    BY <2>1, <2>4, StoredSame DEF F
  <2> QED BY <1>2, <1>6, <2>5 DEF Stores
<1>7. CASE /\ available(fs) # {} /\ g.ok /\ dir[n] = 0
           /\ fs' = created /\ dir' = [dir EXCEPT ![n] = s]
  <2>1. /\ s \in Sectors \ fs.used /\ s \notin F /\ s # 0 /\ EmptyInode.length = 0 /\ J[s] = EmptyInode
        /\ g \in GrowingType /\ g.fs.inode = I /\ F \subseteq Sectors /\ System \subseteq fs.used
        /\ Sound(g.fs, [J EXCEPT ![s] = g.di], G)
    BY <1>1, <1>4, <1>7 DEF Grew, Sound
  <2>2. /\ fs'.index = g.fs.index /\ fs'.data = g.fs.data /\ fs'.inode[s] = g.di
        /\ \A t \in F : fs'.inode[t] = I[t]
    <3>1. g.fs \in DiskType
      BY <2>1 DEF GrowingType
    <3> QED BY <1>7, <2>1, <3>1 DEF DiskType
  <2>3. /\ g.di.length = len
        /\ \A pos \in Nat : pos < len => at(g.fs, g.di, pos) = 0
    BY <1>2, <1>4, <1>7, <2>1 DEF Kept
  <2>4. g.di \in InodeType /\ Whole(g.fs, g.di)
    <3>1. J \in [Sectors -> InodeType] /\ s \in G
      BY <1>4, <1>7
    <3>2. [J EXCEPT ![s] = g.di][s] = g.di
      BY <2>1, <3>1
    <3> QED BY <2>1, <3>1, <3>2 DEF Sound, GrowingType
  <2>5. \A t \in Files' : t # s => t \in Files /\ content(fs', fs'.inode[t]) = content(fs, fs.inode[t])
    <3>1. \A t \in Files' : t # s => t \in F
      BY <1>1, <1>2, <1>7, FilesThen DEF F
    <3>2. \A t \in F : content(fs', I[t]) = content(g.fs, I[t])
      BY <2>2, SameDisk
    <3> QED BY <1>5, <1>7, <2>2, <3>1, <3>2 DEF I, F
  <2>6. content(fs', fs'.inode[s]) = [i \in 1 .. len |-> 0]
    <3>1. content(fs', g.di) = content(g.fs, g.di)
      BY <2>2, SameDisk
    <3>2. content(g.fs, g.di) = [i \in 1 .. len |-> at(g.fs, g.di, i - 1)]
      BY <2>3, <2>4, ContentAt
    <3>3. \A i \in 1 .. len : at(g.fs, g.di, i - 1) = 0
      <4>1. \A i \in 1 .. len : i - 1 \in Nat /\ i - 1 < len
        BY <1>2
      <4> QED BY <2>3, <4>1
    <3> QED BY <2>2, <3>1, <3>2, <3>3
  <2>7. ~ Store!Live(s)
    BY <2>1, FilesLive DEF F
  <2>8. PICK x : x = s
    OBVIOUS
  <2>9. Store!Create(n, x, len)
    <3>1. /\ \A t \in Files' : t # x => t \in Files /\ content(fs', fs'.inode[t]) = content(fs, fs.inode[t])
          /\ content(fs', fs'.inode[x]) = [i \in 1 .. len |-> 0]
      BY <2>5, <2>6, <2>8
    <3>2. Store!Keep(x, [i \in 1 .. len |-> 0])
      BY <3>1, KeepBy
    <3>3. ~ Store!Live(x)
      BY <2>7, <2>8 DEF Store!Live
    <3> QED BY <1>2, <1>7, <2>8, <3>2, <3>3 DEF Store!Create, Store!NoId
  <2>10. len \in 0 .. Largest
    <3>1. count(len) <= Room
      BY <2>3, <2>4 DEF Whole
    <3>2. Largest \in Nat
      BY Counts DEF Largest
    <3> QED BY <1>2, <3>1, <3>2, LengthFits
  <2>11. x \in Sectors \ System
    BY <2>1, <2>8
  <2> QED BY <2>9, <2>10, <2>11 DEF Stores, Store!Next
<1>8. \/ UNCHANGED <<fs, dir>>
      \/ /\ available(fs) # {} /\ g.ok /\ dir[n] = 0
         /\ fs' = created /\ dir' = [dir EXCEPT ![n] = s]
      \/ available(fs) # {} /\ fs' = release(IF g.ok THEN created ELSE g.fs, {s}) /\ UNCHANGED dir
  BY DEF filesys_create, g, s, f
<1> QED BY <1>3, <1>6, <1>7, <1>8

LEMMA StoreStep ==
  ASSUME FSInv, FSInv', [Next]_vars
  PROVE  Stores
<1>1. ASSUME NEW n \in Names, filesys_remove(n)
      PROVE  Stores
  BY <1>1, RemoveStores
<1>2. ASSUME NEW n \in Names, NEW len \in Lengths, filesys_create(n, len)
      PROVE  Stores
  BY <1>2, CreateStores
<1>3. ASSUME NEW p \in Procs, NEW n \in Names, filesys_open(p, n)
      PROVE  Stores
  BY <1>3, OpenStores
<1>4. ASSUME NEW p \in Procs, NEW s \in Sectors, file_close(p, s)
      PROVE  Stores
  BY <1>4, CloseStores
<1>5. ASSUME NEW p \in Procs, NEW s \in Sectors, NEW off \in Offsets, NEW size \in Sizes,
             inode_write_at(p, s, off, size)
      PROVE  Stores
  BY <1>5, WriteStores
<1>6. CASE UNCHANGED vars
  <2>1. Files' = Files /\ UNCHANGED <<fs, dir, opened>>
    BY <1>6 DEF vars, Files, named
  <2>2. Stored' = Stored
    BY <2>1, StoredSame
  <2> QED BY <2>1, <2>2 DEF Stores
<1> QED BY <1>1, <1>2, <1>3, <1>4, <1>5, <1>6 DEF Next

LEMMA StoreInit ==
  ASSUME Init
  PROVE  Store!Init
<1>1. dir = [n \in Names |-> 0] /\ opened = {}
  BY DEF Init
<1>2. Files = {}
  BY <1>1 DEF Files, named
<1> QED BY <1>1, <1>2 DEF Store!Init, Store!NoId

\* The calls keep what FileStore promises, on a disk of any size, with an index of
\* any shape: a file holds the bytes that were written to it and zeros
\* elsewhere, whatever other files grow, fail to grow or are removed
\* meanwhile; and a call of filesys_create or inode_write_at that runs out of
\* sectors half way changes nothing a reader of any file can tell.
THEOREM FilesAreStored == Spec => ImplementsFileStore
<1>1. Init => Store!Init
  BY StoreInit
<1>2. FSInv /\ FSInv' /\ [Next]_vars
        => [Store!Next]_<<dir, opened, [s \in Sectors \ System |-> IF s \in Files THEN contents(s) ELSE <<>>]>>
  BY StoreStep, StoredIs DEF Stores
<1> QED BY <1>1, <1>2, FSInvAlways, PTL DEF Spec, ImplementsFileStore, Store!Spec

=============================================================================
