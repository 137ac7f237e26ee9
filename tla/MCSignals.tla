----------------------------- MODULE MCSignals -----------------------------
(* Instances of Signals.                                                    *)
EXTENDS Signals

\* As many bits as in the code; every pair of neighbours occurs.
ThreeBytes ==
  <<<<0, 1, 1, 0, 0, 0, 1, 0>>, <<1, 1, 1, 1, 1, 0, 1, 1>>, <<0, 0, 0, 0, 1, 1, 0, 1>>>>

Everybody == Procs
Nobody == {}
AllFaults == {"open", "read"}
=============================================================================
