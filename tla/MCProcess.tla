----------------------------- MODULE MCProcess -----------------------------
(* Instance of Process for TLC: main and pages for the processes.          *)
EXTENDS Process, TLC

CONSTANTS p1, p2

ThreePages == {main, p1, p2}

=============================================================================
