---------------------------- MODULE MCBinTree ----------------------------
(* Instances of BinTree.  NO_VALUE is a key too: test_tree.c adds -1.       *)
EXTENDS BinTreeWalk

FourKeys == {-1, 0, 1, 2}

\* Arguments of changeNumberIncrease, one of them refused.
OneIncrease   == {0, 2}
SomeIncreases == {0, 1, 2}
=============================================================================
