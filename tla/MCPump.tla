------------------------------ MODULE MCPump ------------------------------
(* Instances of Pump; the unit is 1024 bytes, the size of the last buffer. *)
EXTENDS Pump

MCByte == 0..Length

\* getSizeBuffer in units: a power of three.
Powers == [c \in Children |-> 3^(num_children - c - 1)]

Everybody == Children

\* To the others the death of child 0 is the end of a shorter file.
AllButFirst == Children \ {0}
=============================================================================
