-------------------------------- MODULE MCVM --------------------------------
(* Instances of VM for TLC.                                                *)
EXTENDS VM, TLC

CONSTANTS p1, p2, u1, u2, u3

OneProc   == {p1}
TwoProcs  == {p1, p2}
PageOne   == {u1}
PageTwo   == {u2}
PageThree == {u3}
NoPage    == {}
Pages2    == {u1, u2}
Buffers1  == {<<u1>>, <<u2, u3>>}
Buffers2  == {<<u1>>}
Frames2   == {1, 2}
Slots3    == 1 .. 3
Slots4    == 1 .. 4

=============================================================================
