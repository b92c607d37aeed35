----------------------------- MODULE MCFileSys -----------------------------
(* Instance of FileSys for TLC.                                            *)
EXTENDS FileSys, TLC

CONSTANTS p1, p2, n1, n2

TwoProcs == {p1, p2}
TwoNames == {n1, n2}

\* Lengths of none, of part of a sector and of one into the indirect sectors;
\* writes inside the file, across the levels of the index, and past a gap.
SomeLengths == {0, 3}
SomeOffsets == {0, 1, 5}
SomeSizes   == {1, 4}

\* Nothing tells one process, or one name, from another.
Symmetry == Permutations(TwoProcs) \cup Permutations(TwoNames)

=============================================================================
