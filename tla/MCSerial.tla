------------------------------ MODULE MCSerial ------------------------------
(* Instance of Serial for TLC.                                             *)
EXTENDS Serial, TLC

CONSTANTS r1, r2, w1, b1, b2

TwoReaders == {r1, r2}
OneWriter  == {w1}
ByteOne    == {b1}
ByteTwo    == {b2}

=============================================================================
