------------------------------- MODULE MCFifo -------------------------------
(* Instances of Fifo.                                                       *)
EXTENDS Fifo, TLC

CONSTANTS r1, r2, w1, w2

TwoReaders == {r1, r2}
TwoWriters == {w1, w2}
\* More buffers than a fifo holds, and one.
LongAndShort == w1 :> 3 @@ w2 :> 1
OnlyFirst == {r1, w1}
AllFaults == {"mkfifo", "fcntl", "file"}
=============================================================================
