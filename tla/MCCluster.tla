------------------------------ MODULE MCCluster ------------------------------
(* Instances of Cluster.                                                    *)
EXTENDS Cluster, TLC

CONSTANTS w1, w2, stdin

TwoWorkers == {w1, w2}
Both == w1 :> 1 @@ w2 :> 2

Everybody == Worker \cup {stdin}
=============================================================================
