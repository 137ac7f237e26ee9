------------------------------ MODULE BinTree ------------------------------
(***************************************************************************)
(* sem4/task_1/tree.c: a binary search tree of ints kept in one growing    *)
(* array.  A node names its children and its parent by their indexes; the  *)
(* unused nodes form a free list through their field right.                *)
(*                                                                         *)
(* A call of the library is a sequence of steps: the recursive searches    *)
(* and the loop that looks for a minimum move a cursor, one node a step,   *)
(* and everything between two of them is one step.  Calls do not overlap.  *)
(***************************************************************************)
EXTENDS Integers, Sequences, FiniteSets

CONSTANTS
  Keys,             \* the ints that the caller uses
  DefaultCapacity,  \* DEFAULT_CAPACITY
  DefaultIncrease,  \* number_increase_capacity of a new tree
  Increases,        \* arguments of changeNumberIncrease
  MaxCapacity       \* an allocation of more nodes than this fails

ASSUME KeysAssumption == Keys \subseteq Int

ASSUME CapacityAssumption ==
  /\ DefaultCapacity \in Nat \ {0}
  /\ DefaultIncrease \in Nat \ {0}
  /\ Increases \subseteq Int
  /\ MaxCapacity \in Nat

NO_VALUE == -1

VARIABLES
  live,        \* the caller has a tree: createTree returned it
  array_nodes, capacity, used, root, free_node, number_increase_capacity,
  call,        \* the call in progress: its step, argument, node and cursor
  ret,         \* what the last call returned; 0 while one is in progress
  keys,        \* history: keys added and not deleted since
  chain,       \* history: the free list, from free_node on
  damaged      \* history: a deletion has moved or dropped a subtree

store == <<array_nodes, capacity, used, root, free_node>>
history == <<keys, chain, damaged>>
vars == <<live, store, number_increase_capacity, call, ret, history>>

Indexes == 0..(capacity - 1)

Free == {chain[i] : i \in 1..Len(chain)}

Used == Indexes \ Free

NoNodes == [i \in {} |-> NO_VALUE]

Blank(next) == [data |-> NO_VALUE, left |-> NO_VALUE, right |-> next,
                parent |-> NO_VALUE]

\* Every 50th call of calloc() or realloc() fails (UNIT_TEST_MODE): which one
\* of the calls here that is depends on what else the program has allocated.
Allocates == BOOLEAN

----------------------------------------------------------------------------
(* Calls                                                                   *)

Idle == [step |-> "idle", data |-> NO_VALUE, index |-> NO_VALUE, node |-> NO_VALUE]

At(step) == call.step = step

Return(v) == call' = Idle /\ ret' = v

\* A call on NULL returns -1 and has no effect.
Begin(step, k) ==
  /\ At("idle") /\ live
  /\ call' = [Idle EXCEPT !.step = step, !.data = k]
  /\ ret' = 0

----------------------------------------------------------------------------
(* createTree, delTree, changeNumberIncrease                               *)

\* fillDefaulValueNodes: the nodes from..from+n-1 become the free list.
FillDefault(old, from, n) ==
  [i \in 0..(from + n - 1) |->
     IF i < from THEN old[i]
     ELSE Blank(IF i = from + n - 1 THEN NO_VALUE ELSE i + 1)]

InOrder(from, n) == [i \in 1..n |-> from + i - 1]

CreateTree ==
  /\ At("idle") /\ ~ live
  /\ \E first, second \in Allocates :
       IF first /\ second
       THEN /\ live' = TRUE
            /\ array_nodes' = FillDefault(array_nodes, 0, DefaultCapacity)
            /\ capacity' = DefaultCapacity
            /\ free_node' = 0
            /\ chain' = InOrder(0, DefaultCapacity)
       ELSE UNCHANGED <<live, array_nodes, capacity, free_node, chain>>
  /\ used' = 0
  /\ root' = NO_VALUE
  /\ number_increase_capacity' = DefaultIncrease
  /\ keys' = {} /\ damaged' = FALSE
  /\ UNCHANGED <<call, ret>>

DelTree ==
  /\ At("idle") /\ live
  /\ live' = FALSE
  /\ array_nodes' = NoNodes
  /\ capacity' = 0 /\ used' = 0 /\ root' = NO_VALUE
  /\ free_node' = NO_VALUE /\ chain' = <<>>
  /\ keys' = {} /\ damaged' = FALSE
  /\ Return(0)
  /\ UNCHANGED number_increase_capacity

ChangeNumberIncrease(n) ==
  /\ At("idle") /\ live
  /\ IF n <= 0
     THEN Return(-1) /\ UNCHANGED number_increase_capacity
     ELSE Return(0) /\ number_increase_capacity' = n
  /\ UNCHANGED <<live, store, history>>

----------------------------------------------------------------------------
(* addInTree                                                               *)

AddInTree(k) ==
  /\ Begin(IF capacity = used THEN "grow" ELSE "create", k)
  /\ UNCHANGED <<live, store, number_increase_capacity, history>>

IncreaseCapacity ==
  /\ At("grow")
  /\ \E ok \in Allocates :
       LET n == number_increase_capacity IN
       IF ok /\ capacity + n <= MaxCapacity
       THEN /\ array_nodes' = FillDefault(array_nodes, capacity, n)
            /\ free_node' = capacity
            /\ chain' = InOrder(capacity, n)
            /\ capacity' = capacity + n
            /\ call' = [call EXCEPT !.step = "create"]
            /\ UNCHANGED ret
       ELSE Return(-1) /\ UNCHANGED <<array_nodes, free_node, chain, capacity>>
  /\ UNCHANGED <<live, used, root, number_increase_capacity, keys, damaged>>

\* createNode takes free_node; the first node of a tree becomes its root.
CreateNode ==
  /\ At("create")
  /\ used' = used + 1
  /\ free_node' = array_nodes[free_node].right
  /\ chain' = Tail(chain)
  /\ IF root = NO_VALUE
     THEN /\ root' = free_node
          /\ array_nodes' = [array_nodes EXCEPT ![free_node].right = NO_VALUE,
                                                ![free_node].data = call.data]
          /\ keys' = keys \cup {call.data}
          /\ Return(0)
     ELSE /\ array_nodes' = [array_nodes EXCEPT ![free_node].right = NO_VALUE]
          /\ call' = [call EXCEPT !.step = "place", !.index = free_node,
                                  !.node = root]
          /\ UNCHANGED <<root, keys, ret>>
  /\ UNCHANGED <<live, capacity, number_increase_capacity, damaged>>

Here == array_nodes[call.node]

MoveTo(n) == call' = [call EXCEPT !.node = n] /\ UNCHANGED ret

\* The side on which a search goes on from the cursor.
Towards(k, n) == IF k < array_nodes[n].data THEN array_nodes[n].left
                                            ELSE array_nodes[n].right

\* Names with an underscore are slips a programmer could have made at the
\* definition that follows them; no action uses them.
Descend_FromRoot(step) ==
  /\ At(step)
  /\ Here.data # call.data
  /\ Towards(call.data, call.node) # NO_VALUE
  /\ MoveTo(Towards(call.data, root))
  /\ UNCHANGED <<live, store, number_increase_capacity, history>>

Descend(step) ==
  /\ At(step)
  /\ Here.data # call.data
  /\ Towards(call.data, call.node) # NO_VALUE
  /\ MoveTo(Towards(call.data, call.node))
  /\ UNCHANGED <<live, store, number_increase_capacity, history>>

PlaceNode ==
  /\ At("place")
  /\ Here.data # call.data
  /\ Towards(call.data, call.node) = NO_VALUE
  /\ array_nodes' =
       IF call.data < Here.data
       THEN [array_nodes EXCEPT ![call.node].left = call.index,
                                ![call.index].parent = call.node,
                                ![call.index].data = call.data]
       ELSE [array_nodes EXCEPT ![call.node].right = call.index,
                                ![call.index].parent = call.node,
                                ![call.index].data = call.data]
  /\ keys' = keys \cup {call.data}
  /\ Return(0)
  /\ UNCHANGED <<live, capacity, used, root, free_node,
                 number_increase_capacity, chain, damaged>>

\* The key is there already: the new node stays taken, linked to nothing.
RefuseDuplicate ==
  /\ At("place")
  /\ Here.data = call.data
  /\ Return(-1)
  /\ UNCHANGED <<live, store, number_increase_capacity, history>>

----------------------------------------------------------------------------
(* delInTreeByData                                                         *)

DelInTreeByData(k) ==
  /\ At("idle") /\ live
  /\ IF root = NO_VALUE
     THEN Return(-1)
     ELSE /\ call' = [Idle EXCEPT !.step = "search", !.data = k, !.node = root]
          /\ ret' = 0
  /\ UNCHANGED <<live, store, number_increase_capacity, history>>

Miss ==
  /\ At("search")
  /\ Here.data # call.data
  /\ Towards(call.data, call.node) = NO_VALUE
  /\ Return(-1)
  /\ UNCHANGED <<live, store, number_increase_capacity, history>>

Hit ==
  /\ At("search")
  /\ Here.data = call.data
  /\ call' = [call EXCEPT !.step = "delete", !.index = call.node]
  /\ UNCHANGED <<live, store, number_increase_capacity, ret, history>>

\* eraseIndex: i leaves its parent and becomes the head of the free list.
Unlinked(i) ==
  LET p == array_nodes[i].parent IN
  IF p = NO_VALUE THEN array_nodes
  ELSE IF array_nodes[p].left = i
       THEN [array_nodes EXCEPT ![p].left = NO_VALUE]
       ELSE [array_nodes EXCEPT ![p].right = NO_VALUE]

EraseIndex(i) == [Unlinked(i) EXCEPT ![i] = Blank(free_node)]

\* The other effects of eraseIndex, and the return that follows.
Erased_UsedKept(i) ==
  /\ free_node' = i
  /\ chain' = <<i>> \o chain
  /\ used' = used
  /\ keys' = keys \ {call.data}
  /\ Return(0)
  /\ UNCHANGED <<live, capacity, number_increase_capacity>>

Erased(i) ==
  /\ free_node' = i
  /\ chain' = <<i>> \o chain
  /\ used' = used - 1
  /\ keys' = keys \ {call.data}
  /\ Return(0)
  /\ UNCHANGED <<live, capacity, number_increase_capacity>>

DeleteLeaf ==
  /\ At("delete")
  /\ Here.left = NO_VALUE /\ Here.right = NO_VALUE
  /\ root' = IF call.index = root THEN NO_VALUE ELSE root
  /\ array_nodes' = EraseIndex(call.index)
  /\ Erased(call.index)
  /\ UNCHANGED damaged

OnlyChild == IF Here.left = NO_VALUE THEN Here.right ELSE Here.left

DeleteRoot_KeepsParent ==
  /\ At("delete")
  /\ call.index = root
  /\ Here.left = NO_VALUE \/ Here.right = NO_VALUE
  /\ OnlyChild # NO_VALUE
  /\ array_nodes' = EraseIndex(root)
  /\ root' = OnlyChild
  /\ Erased(call.index)
  /\ UNCHANGED damaged

\* The root has one child, on either side.
DeleteRoot ==
  /\ At("delete")
  /\ call.index = root
  /\ Here.left = NO_VALUE \/ Here.right = NO_VALUE
  /\ OnlyChild # NO_VALUE
  /\ array_nodes' = [EraseIndex(root) EXCEPT ![OnlyChild].parent = NO_VALUE]
  /\ root' = OnlyChild
  /\ Erased(call.index)
  /\ UNCHANGED damaged

DeleteWithRight_NoRelink ==
  /\ At("delete")
  /\ call.index # root
  /\ Here.left = NO_VALUE /\ Here.right # NO_VALUE
  /\ LET p == Here.parent
         child == Here.right IN
       /\ array_nodes' = [EraseIndex(call.index) EXCEPT ![child].parent = p]
       /\ damaged' = (damaged \/ array_nodes[p].left = call.index)
  /\ Erased(call.index)
  /\ UNCHANGED root

\* Only a right child: it always becomes the right child of the parent.
DeleteWithRight ==
  /\ At("delete")
  /\ call.index # root
  /\ Here.left = NO_VALUE /\ Here.right # NO_VALUE
  /\ LET p == Here.parent
         child == Here.right IN
       /\ array_nodes' = [EraseIndex(call.index) EXCEPT ![p].right = child,
                                                        ![child].parent = p]
       /\ damaged' = (damaged \/ array_nodes[p].left = call.index)
  /\ Erased(call.index)
  /\ UNCHANGED root

\* Only a left child: it always becomes the left child of the parent.
DeleteWithLeft ==
  /\ At("delete")
  /\ call.index # root
  /\ Here.left # NO_VALUE /\ Here.right = NO_VALUE
  /\ LET p == Here.parent
         child == Here.left IN
       /\ array_nodes' = [EraseIndex(call.index) EXCEPT ![p].left = child,
                                                        ![child].parent = p]
       /\ damaged' = (damaged \/ array_nodes[p].right = call.index)
  /\ Erased(call.index)
  /\ UNCHANGED root

\* Two children: look for the minimum on the right.
DeleteWithBoth ==
  /\ At("delete")
  /\ Here.left # NO_VALUE /\ Here.right # NO_VALUE
  /\ call' = [call EXCEPT !.step = "min", !.node = Here.right]
  /\ UNCHANGED <<live, store, number_increase_capacity, ret, history>>

DescendToMin ==
  /\ At("min")
  /\ Here.left # NO_VALUE
  /\ MoveTo(Here.left)
  /\ UNCHANGED <<live, store, number_increase_capacity, history>>

EraseMin_DataKept ==
  /\ At("min")
  /\ Here.left = NO_VALUE
  /\ array_nodes' = EraseIndex(call.node)
  /\ damaged' = (damaged \/ Here.right # NO_VALUE)
  /\ Erased(call.node)
  /\ UNCHANGED root

\* The minimum's data moves up and its node is erased: a right child of the
\* minimum goes with it.
EraseMin ==
  /\ At("min")
  /\ Here.left = NO_VALUE
  /\ array_nodes' = [EraseIndex(call.node) EXCEPT ![call.index].data = Here.data]
  /\ damaged' = (damaged \/ Here.right # NO_VALUE)
  /\ Erased(call.node)
  /\ UNCHANGED root

----------------------------------------------------------------------------
\* No tree; the fields have the values that an empty one would have.
Init ==
  /\ live = FALSE
  /\ array_nodes = NoNodes
  /\ capacity = 0 /\ used = 0 /\ root = NO_VALUE /\ free_node = NO_VALUE
  /\ number_increase_capacity = DefaultIncrease
  /\ call = Idle /\ ret = 0
  /\ keys = {} /\ chain = <<>> /\ damaged = FALSE

Caller ==
  \/ CreateTree \/ DelTree
  \/ \E n \in Increases : ChangeNumberIncrease(n)
  \/ \E k \in Keys : AddInTree(k) \/ DelInTreeByData(k)

Library ==
  \/ IncreaseCapacity \/ CreateNode \/ Descend("place") \/ PlaceNode
  \/ RefuseDuplicate
  \/ Descend("search") \/ Miss \/ Hit
  \/ DeleteLeaf \/ DeleteRoot \/ DeleteWithRight \/ DeleteWithLeft
  \/ DeleteWithBoth \/ DescendToMin \/ EraseMin

Next == Caller \/ Library

Spec == Init /\ [][Next]_vars

\* The caller waits for its call: the library's code runs on.
FairSpec == Spec /\ WF_vars(Library)

----------------------------------------------------------------------------
(* Properties                                                              *)

Steps == {"idle", "grow", "create", "place", "search", "delete", "min"}

Links == Indexes \cup {NO_VALUE}

Node == [data: Keys \cup {NO_VALUE}, left: Links, right: Links, parent: Links]

\* Type invariant; the links of every node, the root and the cursor are
\* indexes of the array or NO_VALUE.
TypeOK ==
  /\ live \in BOOLEAN
  /\ capacity \in Nat /\ used \in Nat
  /\ array_nodes \in [Indexes -> Node]
  /\ root \in Links /\ free_node \in Links
  /\ number_increase_capacity \in Nat \ {0}
  /\ call \in [step: Steps, data: Keys \cup {NO_VALUE}, index: Links, node: Links]
  /\ ret \in {0, -1}
  /\ keys \subseteq Keys
  /\ chain \in Seq(Indexes)
  /\ damaged \in BOOLEAN

\* tree.c:260 "Index 'free_node' always have valid right branch with next free
\* node": the free list runs from free_node through the fields right, meets no
\* node twice, ends in NO_VALUE, and holds exactly what used does not count; so
\* createNode never takes array_nodes[NO_VALUE] and no slot gets lost.
FreeListSound ==
  /\ used = Cardinality(Used)
  /\ used + Len(chain) = capacity
  /\ free_node = (IF chain = <<>> THEN NO_VALUE ELSE chain[1])
  /\ \A i, j \in 1..Len(chain) : chain[i] = chain[j] => i = j
  /\ \A i \in 1..Len(chain) :
       array_nodes[chain[i]] =
         Blank(IF i = Len(chain) THEN NO_VALUE ELSE chain[i + 1])

\* A child of a node in use is in use, knows its parent, and is not its
\* sibling; the root is in use and has no parent: following left and right
\* from the root never meets a free node, and never one node from two sides.
LinksSound ==
  /\ root # NO_VALUE => root \in Used /\ array_nodes[root].parent = NO_VALUE
  /\ \A n \in Used :
       LET l == array_nodes[n].left
           r == array_nodes[n].right IN
       /\ l # NO_VALUE => l \in Used /\ array_nodes[l].parent = n
       /\ r # NO_VALUE => r \in Used /\ array_nodes[r].parent = n
       /\ l = r => l = NO_VALUE

\* No links run round a cycle, not even in a tree that a deletion has damaged:
\* every set of nodes in use has one whose children are outside it.  It is why
\* goRoundTree, the searches and the loop for the minimum end.
Acyclic ==
  \A S \in SUBSET Used : S # {} =>
    \E n \in S : array_nodes[n].left \notin S /\ array_nodes[n].right \notin S

Referred(n) ==
  LET p == array_nodes[n].parent IN
  p \in Used /\ n \in {array_nodes[p].left, array_nodes[p].right}

\* A node that a search may stand on: eraseIndex finds the link that leads to it.
Cursor(n) == n \in Used /\ (n = root \/ Referred(n))

\* What a call in progress knows of the tree.  A search stands on the root or on
\* a node that its parent refers to, so the eraseIndex that may follow undoes the
\* link that leads there; addInTree takes a node (tree.c:131) while there is one,
\* and keeps it apart from the tree until it has found the place.
CallSound ==
  /\ ~ live => capacity = 0 /\ root = NO_VALUE /\ At("idle")
  /\ ~ At("idle") => call.data \in Keys
  /\ At("grow") => used = capacity
  /\ At("create") => used < capacity
  /\ At("place") =>
       /\ call.index \in Used
       /\ call.index # root
       /\ array_nodes[call.index].parent = NO_VALUE
       /\ array_nodes[call.index].left = NO_VALUE
       /\ array_nodes[call.index].right = NO_VALUE
       /\ Cursor(call.node)
  /\ At("search") => Cursor(call.node)
  /\ At("delete") => Cursor(call.node) /\ call.index = call.node
  /\ At("min") =>
       /\ call.index \in Used
       /\ array_nodes[call.index].left # NO_VALUE
       /\ call.node \in Used /\ Referred(call.node)

\* The inductive invariant: the memory safety of tree.c.
IInv == TypeOK /\ FreeListSound /\ LinksSound /\ Acyclic /\ CallSound

\* Every call returns: no search runs round a cycle, not even in a tree that a
\* deletion has damaged.
CallsReturn == ~ At("idle") ~> At("idle")
=============================================================================
