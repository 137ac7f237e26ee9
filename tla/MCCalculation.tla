--------------------------- MODULE MCCalculation ---------------------------
(* Instances of Calculation.                                               *)
EXTENDS Calculation

\* malloc() aligns to 16 bytes.
Places == {16, 64, 112}
FreshOrUsed == {[t \in Thread |-> 0], [t \in Thread |-> t % 2]}
Everything == AllFaults
=============================================================================
