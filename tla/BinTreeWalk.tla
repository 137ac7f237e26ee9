---------------------------- MODULE BinTreeWalk ----------------------------
(***************************************************************************)
(* forEachTree of sem4/task_1/tree.c, and what a BinTree promises as a set *)
(* of ints: a walk visits, in ascending order, the keys that were added    *)
(* and not deleted.                                                        *)
(***************************************************************************)
EXTENDS BinTree

\* goRoundTree: the indexes that the consumer is called with, in order, for the
\* subtree of each node.
GoRoundTree[i \in Used \cup {NO_VALUE}] ==
  IF i = NO_VALUE THEN <<>>
  ELSE GoRoundTree[array_nodes[i].left] \o <<i>> \o GoRoundTree[array_nodes[i].right]

ForEachTree == GoRoundTree[root]

Visited == [j \in DOMAIN ForEachTree |-> array_nodes[ForEachTree[j]].data]

Elements(s) == {s[j] : j \in DOMAIN s}

\* Nodes in use that no walk reaches, but for the one that addInTree is placing.
Lost == Used \ (Elements(ForEachTree) \cup {call.index})

----------------------------------------------------------------------------
(* Properties                                                              *)

Ascending(s) == \A i, j \in DOMAIN s : i < j => s[i] < s[j]

\* Until a deletion damages it, the tree is the sorted set of the keys added
\* and not deleted, whatever calls failed for want of memory, and after every
\* single step of a call.
WalkIsSorted ==
  ~ damaged => Ascending(Visited) /\ Elements(Visited) = keys

\* Until then a search answers right: delInTreeByData returns -1 only for a key
\* that is absent, addInTree refuses only one that is present.
AnswersAreRight ==
  [][~ damaged => /\ Miss => call.data \notin keys
                  /\ RefuseDuplicate => call.data \in keys]_vars

\* Until then nothing but refusing a duplicate makes a node unreachable.
OnlyDuplicatesAreLost ==
  [][~ damaged' /\ ~ (Lost' \subseteq Lost) => RefuseDuplicate]_vars

\* What the tests ask of delInTreeByData (test_tree.c:135-141: after adding
\* keys, "ret = delInTreeByData (tree, 7); if (ret != 0) PRINT_ERROR;"): a key
\* that was added and not deleted is found.
DeleteFindsKey == [][Miss => call.data \notin keys]_vars

\* The data of the nodes that a walk visits.
Contents == {array_nodes[n].data : n \in Elements(ForEachTree)}

Operation ==
  IF At("idle") THEN "idle" ELSE IF At("grow") THEN "allocate"
  ELSE IF At("create") \/ At("place") THEN "add" ELSE "delete"

Abs == INSTANCE IntSet
         WITH contents <- Contents, operation <- Operation, key <- call.data

\* The array, its links and its free list are as good as a set of ints, and a
\* walk shows it: each call does to what a walk visits what it says of the set,
\* and a deletion that goes wrong (tree.c:406, 426, 439) only loses keys.
ImplementsIntSet == Abs!Spec

----------------------------------------------------------------------------
(* The inductive invariant of a tree that no deletion has damaged          *)

Closed(S) ==
  \A n \in S : /\ array_nodes[n].left \in S \cup {NO_VALUE}
               /\ array_nodes[n].right \in S \cup {NO_VALUE}

\* The subtree of node n: what every set with n has that no link leads out of.
Below(n) ==
  {m \in Used : \A S \in SUBSET Used :
                  n \in S \cup {NO_VALUE} /\ Closed(S) => m \in S}

InTree == Below(root)

\* Smaller data on the left of a node, greater on the right.
Ordered ==
  \A n \in InTree :
    /\ \A m \in Below(array_nodes[n].left) : array_nodes[m].data < array_nodes[n].data
    /\ \A m \in Below(array_nodes[n].right) : array_nodes[n].data < array_nodes[m].data

Distinct == \A m, n \in InTree : array_nodes[m].data = array_nodes[n].data => m = n

HoldsKeys == keys = {array_nodes[n].data : n \in InTree}

\* A search for k stands on n: k is nowhere but below n, and would be in order there.
OnPath(n, k) ==
  /\ n \in InTree
  /\ \A m \in InTree : array_nodes[m].data = k => m \in Below(n)
  /\ \A a \in InTree : /\ n \in Below(array_nodes[a].left) => k < array_nodes[a].data
                       /\ n \in Below(array_nodes[a].right) => array_nodes[a].data < k

\* The loop for the minimum stands on n: all on the right of i that is not below
\* n is greater than n.
MinIsBelow(i, n) ==
  /\ n \in Below(array_nodes[i].right)
  /\ \A m \in Below(array_nodes[i].right) :
       m \in Below(n) \/ array_nodes[n].data < array_nodes[m].data

\* What the call in progress knows.
CallKnows ==
  /\ At("place") \/ At("search") => OnPath(call.node, call.data)
  /\ At("delete") \/ At("min") =>
       call.index \in InTree /\ array_nodes[call.index].data = call.data
  /\ At("min") => MinIsBelow(call.index, call.node)

\* What it knows of a damaged tree, too: it stands in the tree, and deletes from it.
CallInTree ==
  /\ At("place") \/ At("search") \/ At("min") => call.node \in InTree
  /\ At("delete") \/ At("min") =>
       call.index \in InTree /\ array_nodes[call.index].data = call.data

SearchTree == ~ damaged => Ordered /\ Distinct /\ HoldsKeys /\ CallKnows

\* A call has no index before addInTree takes a node or a deletion finds one, and
\* there is nothing left of it when it has returned.
IndexUnset ==
  /\ call.step \in {"idle", "grow", "create", "search"} => call.index = NO_VALUE
  /\ At("idle") => call = Idle
=============================================================================
