--------------------------- MODULE MCShmTransfer ---------------------------
(* Instances of ShmTransfer.  w1's file has full blocks, the others' only a *)
(* short (possibly empty) one.                                              *)
EXTENDS ShmInductive, TLC

CONSTANTS r1, r2, r3, w1, w2

ThreeReaders == {r1, r2, r3}
TwoWriters   == {w1, w2}
Everybody    == Readers \cup Writers

TwoAndNone == [w \in Writers |-> IF w = w1 THEN 2 ELSE 0]
=============================================================================
