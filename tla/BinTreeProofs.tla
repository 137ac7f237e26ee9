--------------------------- MODULE BinTreeProofs ---------------------------
(***************************************************************************)
(* Proofs about BinTree and BinTreeWalk, for any keys, capacities and      *)
(* increases.  First the memory: the free list and the links of the array  *)
(* stay sound, and without cycles, through every step of every call, also  *)
(* after a deletion has damaged the order.  Then the tree: until that      *)
(* happens, a walk is the sorted set of the keys, answers are right, and   *)
(* nodes are lost to duplicates alone.                                     *)
(***************************************************************************)
EXTENDS BinTreeWalk, FiniteSetTheorems, TLAPS

----------------------------------------------------------------------------
(* The free list                                                           *)

\* NO_VALUE is no index, and the nodes in use are finitely many.
LEMMA IndexFacts ==
  ASSUME capacity \in Nat
  PROVE  /\ NO_VALUE \notin Indexes
         /\ NO_VALUE \notin Used
         /\ IsFiniteSet(Used)
<1>1. IsFiniteSet(Indexes)
  BY FS_Interval DEF Indexes
<1>2. NO_VALUE \notin Indexes
  BY DEF Indexes, NO_VALUE
<1>3. Used \subseteq Indexes
  BY DEF Used
<1> QED
  BY <1>1, <1>2, <1>3, FS_Subset

\* eraseIndex puts a node that was in use before the free list.
LEMMA Pushed ==
  ASSUME TypeOK, FreeListSound,
         NEW i \in Used,
         free_node' = i, chain' = <<i>> \o chain, used' = used - 1,
         capacity' = capacity,
         array_nodes' \in [Indexes -> Node],
         array_nodes'[i] = Blank(free_node),
         \A n \in Free : array_nodes'[n] = array_nodes[n]
  PROVE  /\ chain' \in Seq(Indexes')
         /\ Used' = Used \ {i}
         /\ FreeListSound'
         /\ used' \in Nat
         /\ free_node' \in Links'
<1>1. chain \in Seq(Indexes) /\ used \in Nat /\ capacity \in Nat
  BY DEF TypeOK
<1>2. Indexes' = Indexes
  BY DEF Indexes
<1>3. i \in Indexes /\ i \notin Free
  BY DEF Used
<1>4. /\ chain' \in Seq(Indexes)
      /\ Len(chain') = Len(chain) + 1
      /\ chain'[1] = i
      /\ \A j \in 1..Len(chain) : chain'[j + 1] = chain[j]
      /\ \A j \in 2..Len(chain') : j - 1 \in 1..Len(chain) /\ chain'[j] = chain[j - 1]
  BY <1>1, <1>3
<1>5. Free' = Free \cup {i}
  <2>1. Free' \subseteq Free \cup {i}
    <3> SUFFICES ASSUME NEW j \in 1..Len(chain')
                 PROVE  chain'[j] \in Free \cup {i}
      BY DEF Free
    <3>1. CASE j = 1
      BY <3>1, <1>4
    <3>2. CASE j # 1
      <4>1. j \in 2..Len(chain')
        BY <3>2, <1>4, <1>1
      <4> QED
        BY <4>1, <1>4 DEF Free
    <3> QED
      BY <3>1, <3>2
  <2>2. i \in Free'
    <3>1. 1 \in 1..Len(chain')
      BY <1>4, <1>1
    <3> QED
      BY <3>1, <1>4 DEF Free
  <2>3. Free \subseteq Free'
    <3> SUFFICES ASSUME NEW j \in 1..Len(chain)
                 PROVE  chain[j] \in Free'
      BY DEF Free
    <3>1. j + 1 \in 1..Len(chain') /\ chain'[j + 1] = chain[j]
      BY <1>4, <1>1
    <3> QED
      BY <3>1 DEF Free
  <2> QED
    BY <2>1, <2>2, <2>3
<1>6. Used' = Used \ {i}
  BY <1>5, <1>2 DEF Used
<1>7. used = Cardinality(Used) /\ IsFiniteSet(Used)
  BY IndexFacts, <1>1 DEF FreeListSound
<1>8. Cardinality(Used \ {i}) = used - 1 /\ used - 1 \in Nat
  <2>1. IsFiniteSet(Used \ {i}) /\ Cardinality(Used \ {i}) = Cardinality(Used) - 1
    BY <1>7, FS_RemoveElement
  <2> QED
    BY <2>1, <1>7, FS_CardinalityType
<1>9. FreeListSound'
  <2>1. used' = Cardinality(Used')
    BY <1>6, <1>8
  <2>2. used' + Len(chain') = capacity'
    BY <1>1, <1>4 DEF FreeListSound
  <2>3. free_node' = (IF chain' = <<>> THEN NO_VALUE ELSE chain'[1])
    BY <1>1, <1>4
  <2>4. \A j, k \in 1..Len(chain') : chain'[j] = chain'[k] => j = k
    <3> SUFFICES ASSUME NEW j \in 1..Len(chain'), NEW k \in 1..Len(chain'),
                        chain'[j] = chain'[k], j < k
                 PROVE  FALSE
      BY <1>1, <1>4
    <3>1. k \in 2..Len(chain')
      BY <1>1, <1>4
    <3>2. k - 1 \in 1..Len(chain) /\ chain'[k] = chain[k - 1]
      BY <3>1, <1>4
    <3>3. CASE j = 1
      BY <3>2, <3>3, <1>4, <1>3 DEF Free
    <3>4. CASE j # 1
      <4>1. j \in 2..Len(chain')
        BY <3>4, <1>4, <1>1
      <4>2. j - 1 \in 1..Len(chain) /\ chain'[j] = chain[j - 1]
        BY <4>1, <1>4
      <4>3. j - 1 = k - 1
        BY <4>2, <3>2 DEF FreeListSound
      <4> QED
        BY <4>3
    <3> QED
      BY <3>3, <3>4
  <2>5. \A j \in 1..Len(chain') :
          array_nodes'[chain'[j]] =
            Blank(IF j = Len(chain') THEN NO_VALUE ELSE chain'[j + 1])
    <3> SUFFICES ASSUME NEW j \in 1..Len(chain')
                 PROVE  array_nodes'[chain'[j]] =
                          Blank(IF j = Len(chain') THEN NO_VALUE ELSE chain'[j + 1])
      OBVIOUS
    <3>1. CASE j = 1
      <4>1. CASE chain = <<>>
        <5>1. Len(chain') = 1 /\ free_node = NO_VALUE
          BY <4>1, <1>4 DEF FreeListSound
        <5> QED
          BY <5>1, <3>1, <1>4
      <4>2. CASE chain # <<>>
        <5>1. Len(chain) >= 1 /\ free_node = chain[1]
          BY <4>2, <1>1 DEF FreeListSound
        <5>2. Len(chain') # 1 /\ chain'[2] = free_node
          BY <5>1, <1>1, <1>4
        <5> QED
          BY <5>2, <3>1, <1>4
      <4> QED
        BY <4>1, <4>2
    <3>2. CASE j # 1
      <4>1. j - 1 \in 1..Len(chain) /\ chain'[j] = chain[j - 1]
        BY <3>2, <1>1, <1>4
      <4>2. array_nodes'[chain'[j]] =
              Blank(IF j - 1 = Len(chain) THEN NO_VALUE ELSE chain[(j - 1) + 1])
        BY <4>1 DEF FreeListSound, Free
      <4>3. j - 1 = Len(chain) <=> j = Len(chain')
        BY <1>1, <1>4
      <4>4. ASSUME j # Len(chain') PROVE chain'[j + 1] = chain[(j - 1) + 1]
        BY <4>4, <4>1, <1>1, <1>4
      <4> QED
        BY <4>2, <4>3, <4>4
    <3> QED
      BY <3>1, <3>2
  <2> QED
    BY <2>1, <2>2, <2>3, <2>4, <2>5 DEF FreeListSound
<1> QED
  BY <1>2, <1>3, <1>4, <1>6, <1>8, <1>9 DEF Links
\* What is left of a sequence without its first element.
LEMMA TailFacts ==
  ASSUME NEW X, NEW s \in Seq(X), s # <<>>
  PROVE  /\ Tail(s) \in Seq(X)
         /\ Len(Tail(s)) = Len(s) - 1
         /\ \A j \in 1..Len(Tail(s)) : Tail(s)[j] = s[j + 1]
OBVIOUS

\* createNode takes the first node of the free list.
LEMMA Popped ==
  ASSUME TypeOK, FreeListSound, used < capacity,
         free_node' = array_nodes[free_node].right,
         chain' \in Seq(Indexes), Len(chain') = Len(chain) - 1,
         \A j \in 1..Len(chain') : chain'[j] = chain[j + 1],
         used' = used + 1, capacity' = capacity,
         array_nodes' \in [Indexes -> Node],
         \A n \in Free : n # free_node => array_nodes'[n] = array_nodes[n]
  PROVE  /\ free_node \in Free
         /\ array_nodes[free_node].left = NO_VALUE
         /\ array_nodes[free_node].parent = NO_VALUE
         /\ array_nodes[free_node].right \in Links
         /\ chain' \in Seq(Indexes')
         /\ Used' = Used \cup {free_node}
         /\ FreeListSound'
         /\ used' \in Nat
         /\ free_node' \in Links'
<1>1. chain \in Seq(Indexes) /\ used \in Nat /\ capacity \in Nat
  BY DEF TypeOK
<1>2. Indexes' = Indexes
  BY DEF Indexes
<1>3. Len(chain) \in Nat \ {0} /\ chain # <<>> /\ free_node = chain[1]
  BY <1>1 DEF FreeListSound
<1>4. /\ Len(chain') = Len(chain) - 1
      /\ \A j \in 1..Len(chain') : j + 1 \in 1..Len(chain) /\ chain'[j] = chain[j + 1]
      /\ \A j \in 2..Len(chain) : j - 1 \in 1..Len(chain') /\ chain'[j - 1] = chain[j]
  BY <1>1, <1>3
<1>5. 1 \in 1..Len(chain)
  BY <1>3
<1>6. free_node \in Free /\ free_node \in Indexes
  <2>1. chain[1] \in Free
    BY <1>5 DEF Free
  <2>2. chain[1] \in Indexes
    BY <1>1, <1>5
  <2> QED
    BY <2>1, <2>2, <1>3
<1>7. array_nodes[free_node] = Blank(IF Len(chain) = 1 THEN NO_VALUE ELSE chain[2])
  <2>1. array_nodes[chain[1]] =
          Blank(IF 1 = Len(chain) THEN NO_VALUE ELSE chain[1 + 1])
    BY <1>5 DEF FreeListSound
  <2>2. 1 + 1 = 2
    OBVIOUS
  <2> QED
    BY <2>1, <2>2, <1>3
<1>8. Len(chain) # 1 => 2 \in 1..Len(chain) /\ chain[2] \in Indexes
  BY <1>1, <1>3
<1>9. Free' = Free \ {free_node}
  <2>1. Free' \subseteq Free
    <3> SUFFICES ASSUME NEW j \in 1..Len(chain')
                 PROVE  chain'[j] \in Free
      BY DEF Free
    <3> QED
      BY <1>4 DEF Free
  <2>2. free_node \notin Free'
    <3> SUFFICES ASSUME NEW j \in 1..Len(chain'), chain'[j] = chain[1]
                 PROVE  FALSE
      BY <1>3 DEF Free
    <3>1. j + 1 \in 1..Len(chain) /\ chain[j + 1] = chain[1]
      BY <1>4
    <3>2. j + 1 = 1
      BY <3>1, <1>5 DEF FreeListSound
    <3> QED
      BY <3>2
  <2>3. Free \ {free_node} \subseteq Free'
    <3> SUFFICES ASSUME NEW j \in 1..Len(chain), chain[j] # chain[1]
                 PROVE  chain[j] \in Free'
      BY <1>3 DEF Free
    <3>1. j \in 2..Len(chain)
      BY <1>3
    <3> QED
      BY <3>1, <1>4 DEF Free
  <2> QED
    BY <2>1, <2>2, <2>3
<1>10. Used' = Used \cup {free_node}
  BY <1>9, <1>6, <1>2 DEF Used
<1>11. used + 1 = Cardinality(Used \cup {free_node})
  <2>1. used = Cardinality(Used) /\ IsFiniteSet(Used)
    BY IndexFacts, <1>1 DEF FreeListSound
  <2>2. free_node \notin Used
    BY <1>6 DEF Used
  <2> QED
    BY <2>1, <2>2, FS_AddElement
<1>12. free_node' = (IF chain' = <<>> THEN NO_VALUE ELSE chain'[1])
  <2>1. CASE Len(chain) = 1
    <3>1. chain' = <<>>
      BY <2>1, <1>4
    <3> QED
      BY <3>1, <2>1, <1>7 DEF Blank
  <2>2. CASE Len(chain) # 1
    <3>1. 1 \in 1..Len(chain') /\ 1 + 1 = 2
      BY <2>2, <1>3, <1>4
    <3>2. chain'[1] = chain[2]
      BY <3>1, <1>4
    <3>3. chain' # <<>>
      BY <3>1
    <3> QED
      BY <3>2, <3>3, <2>2, <1>7 DEF Blank
  <2> QED
    BY <2>1, <2>2
<1>13. FreeListSound'
  <2>1. used' + Len(chain') = capacity'
    BY <1>1, <1>3, <1>4 DEF FreeListSound
  <2>2. \A j, k \in 1..Len(chain') : chain'[j] = chain'[k] => j = k
    <3> SUFFICES ASSUME NEW j \in 1..Len(chain'), NEW k \in 1..Len(chain'),
                        chain'[j] = chain'[k]
                 PROVE  j = k
      OBVIOUS
    <3>1. /\ j + 1 \in 1..Len(chain) /\ k + 1 \in 1..Len(chain)
          /\ chain[j + 1] = chain[k + 1]
      BY <1>4
    <3>2. j + 1 = k + 1
      BY <3>1 DEF FreeListSound
    <3> QED
      BY <3>2
  <2>3. \A j \in 1..Len(chain') :
          array_nodes'[chain'[j]] =
            Blank(IF j = Len(chain') THEN NO_VALUE ELSE chain'[j + 1])
    <3> SUFFICES ASSUME NEW j \in 1..Len(chain')
                 PROVE  array_nodes'[chain'[j]] =
                          Blank(IF j = Len(chain') THEN NO_VALUE ELSE chain'[j + 1])
      OBVIOUS
    <3>1. j + 1 \in 1..Len(chain) /\ chain'[j] = chain[j + 1]
      BY <1>4
    <3>2. chain[j + 1] # free_node
      <4>1. j + 1 # 1
        OBVIOUS
      <4> QED
        BY <4>1, <3>1, <1>3, <1>5 DEF FreeListSound
    <3>3. array_nodes'[chain'[j]] = array_nodes[chain[j + 1]]
      BY <3>1, <3>2 DEF Free
    <3>4. array_nodes[chain[j + 1]] =
            Blank(IF j + 1 = Len(chain) THEN NO_VALUE ELSE chain[(j + 1) + 1])
      BY <3>1 DEF FreeListSound
    <3>5. j + 1 = Len(chain) <=> j = Len(chain')
      BY <1>3, <1>4
    <3>6. ASSUME j # Len(chain') PROVE chain'[j + 1] = chain[(j + 1) + 1]
      <4>1. j + 1 \in 1..Len(chain')
        BY <3>6, <1>3, <1>4
      <4> QED
        BY <4>1, <1>4
    <3> QED
      BY <3>3, <3>4, <3>5, <3>6
  <2> QED
    BY <1>10, <1>11, <1>12, <2>1, <2>2, <2>3 DEF FreeListSound
<1> QED
  BY <1>1, <1>2, <1>4, <1>6, <1>7, <1>8, <1>10, <1>13 DEF Links, Blank

----------------------------------------------------------------------------
(* Links                                                                   *)

\* Cycles do not come from nodes that lose links.
LEMMA AcyclicLess ==
  ASSUME Acyclic, NO_VALUE \notin Used, Used' \subseteq Used,
         \A n \in Used' :
           /\ array_nodes'[n].left \in {array_nodes[n].left, NO_VALUE}
           /\ array_nodes'[n].right \in {array_nodes[n].right, NO_VALUE}
  PROVE  Acyclic'
<1> SUFFICES ASSUME NEW S \in SUBSET Used', S # {}
             PROVE  \E n \in S : /\ array_nodes'[n].left \notin S
                                 /\ array_nodes'[n].right \notin S
  BY DEF Acyclic
<1>1. PICK n \in S : array_nodes[n].left \notin S /\ array_nodes[n].right \notin S
  BY DEF Acyclic
<1> QED
  BY <1>1

\* Nor when a node i leaves and its parent p takes over its child.
LEMMA AcyclicRelink ==
  ASSUME Acyclic, NO_VALUE \notin Used,
         NEW i \in Used, NEW p \in Used, NEW child \in Used,
         Used' = Used \ {i},
         i \in {array_nodes[p].left, array_nodes[p].right},
         child \in {array_nodes[i].left, array_nodes[i].right},
         \A n \in Used' :
           LET C == {array_nodes[n].left, array_nodes[n].right, NO_VALUE} \cup
                    (IF n = p THEN {child} ELSE {}) IN
           array_nodes'[n].left \in C /\ array_nodes'[n].right \in C
  PROVE  Acyclic'
<1> SUFFICES ASSUME NEW S \in SUBSET Used', S # {}
             PROVE  \E n \in S : /\ array_nodes'[n].left \notin S
                                 /\ array_nodes'[n].right \notin S
  BY DEF Acyclic
<1>1. CASE p \in S /\ child \in S
  <2>1. PICK n \in S \cup {i} : /\ array_nodes[n].left \notin S \cup {i}
                               /\ array_nodes[n].right \notin S \cup {i}
    BY DEF Acyclic
  <2>2. n # i /\ n # p
    BY <2>1, <1>1
  <2> QED
    BY <2>1, <2>2
<1>2. CASE ~ (p \in S /\ child \in S)
  <2>1. PICK n \in S : array_nodes[n].left \notin S /\ array_nodes[n].right \notin S
    BY DEF Acyclic
  <2> QED
    BY <2>1, <1>2
<1> QED
  BY <1>1, <1>2

\* Nor when a node in use gets a child that has none.
LEMMA AcyclicLeaf ==
  ASSUME Acyclic, NO_VALUE \notin Used, NO_VALUE \notin Used',
         NEW i \in Used',
         Used' \subseteq Used \cup {i},
         array_nodes'[i].left = NO_VALUE, array_nodes'[i].right = NO_VALUE,
         \A n \in Used' \ {i} :
           /\ array_nodes'[n].left \in {array_nodes[n].left, i}
           /\ array_nodes'[n].right \in {array_nodes[n].right, i}
  PROVE  Acyclic'
<1> SUFFICES ASSUME NEW S \in SUBSET Used', S # {}
             PROVE  \E n \in S : /\ array_nodes'[n].left \notin S
                                 /\ array_nodes'[n].right \notin S
  BY DEF Acyclic
<1>1. CASE i \in S
  BY <1>1
<1>2. CASE i \notin S
  <2>1. PICK n \in S : array_nodes[n].left \notin S /\ array_nodes[n].right \notin S
    BY <1>2 DEF Acyclic
  <2> QED
    BY <2>1, <1>2
<1> QED
  BY <1>1, <1>2

\* No node in use is its own child.
LEMMA NoLoop ==
  ASSUME Acyclic, NEW n \in Used
  PROVE  array_nodes[n].left # n /\ array_nodes[n].right # n
<1>1. {n} \in SUBSET Used /\ {n} # {}
  OBVIOUS
<1> QED
  BY <1>1 DEF Acyclic

\* Nor its own grandchild.
LEMMA NoLoopOfTwo ==
  ASSUME Acyclic, NEW n \in Used, NEW m \in Used,
         m \in {array_nodes[n].left, array_nodes[n].right}
  PROVE  n \notin {array_nodes[m].left, array_nodes[m].right}
<1>1. {n, m} \in SUBSET Used /\ {n, m} # {}
  OBVIOUS
<1> QED
  BY <1>1 DEF Acyclic

\* eraseIndex: what becomes of the array when a node that a search stands on is
\* erased.
LEMMA EraseFacts ==
  ASSUME TypeOK, LinksSound, NEW i \in Used, Cursor(i)
  PROVE  /\ EraseIndex(i) \in [Indexes -> Node]
         /\ EraseIndex(i)[i] = Blank(free_node)
         /\ \A n \in Free : EraseIndex(i)[n] = array_nodes[n]
         /\ \A n \in Used \ {i} :
              /\ EraseIndex(i)[n].data = array_nodes[n].data
              /\ EraseIndex(i)[n].parent = array_nodes[n].parent
              /\ EraseIndex(i)[n].left =
                   IF array_nodes[n].left = i THEN NO_VALUE ELSE array_nodes[n].left
              /\ EraseIndex(i)[n].right =
                   IF array_nodes[n].right = i THEN NO_VALUE ELSE array_nodes[n].right
<1> DEFINE p == array_nodes[i].parent
<1>1. /\ array_nodes \in [Indexes -> Node] /\ free_node \in Links
      /\ capacity \in Nat
  BY DEF TypeOK
<1>2. Used \subseteq Indexes /\ Free \cap Used = {}
  BY DEF Used
<1>3. NO_VALUE \notin Indexes /\ NO_VALUE \notin Used
  BY <1>1, IndexFacts
<1>4. Blank(free_node) \in Node
  BY <1>1 DEF Blank, Node, Links
<1>5. \A n \in Used : array_nodes[n].left = i \/ array_nodes[n].right = i => n = p
  BY <1>3 DEF LinksSound
<1>6. \A n \in Used : array_nodes[n].left = array_nodes[n].right =>
        array_nodes[n].left = NO_VALUE
  BY DEF LinksSound
<1>7. CASE p = NO_VALUE
  <2>1. EraseIndex(i) = [array_nodes EXCEPT ![i] = Blank(free_node)]
    BY <1>7 DEF EraseIndex, Unlinked
  <2>2. \A n \in Used : array_nodes[n].left # i /\ array_nodes[n].right # i
    BY <1>5, <1>7, <1>3
  <2>3. EraseIndex(i) \in [Indexes -> Node] /\ EraseIndex(i)[i] = Blank(free_node)
    BY <2>1, <1>1, <1>2, <1>4
  <2>4. \A n \in Indexes \ {i} : EraseIndex(i)[n] = array_nodes[n]
    BY <2>1, <1>1
  <2>5. Free \subseteq Indexes \ {i}
    BY <1>2 DEF Free, TypeOK
  <2> QED
    BY <2>2, <2>3, <2>4, <2>5, <1>2
<1>8. CASE p # NO_VALUE
  <2>1. p \in Used /\ i \in {array_nodes[p].left, array_nodes[p].right}
    BY <1>3, <1>8 DEF Cursor, Referred, LinksSound
  <2>2. Free \subseteq Indexes \ {i, p}
    BY <1>2, <2>1 DEF Free, TypeOK
  <2>3. CASE array_nodes[p].left = i
    <3>1. EraseIndex(i) = [[array_nodes EXCEPT ![p].left = NO_VALUE]
                             EXCEPT ![i] = Blank(free_node)]
      BY <1>8, <2>3 DEF EraseIndex, Unlinked
    <3>2. [array_nodes EXCEPT ![p].left = NO_VALUE] \in [Indexes -> Node]
      BY <1>1, <1>2, <2>1 DEF Node, Links
    <3>3. EraseIndex(i) \in [Indexes -> Node] /\ EraseIndex(i)[i] = Blank(free_node)
      BY <3>1, <3>2, <1>2, <1>4
    <3>4. \A n \in Indexes \ {i} :
            EraseIndex(i)[n] = IF n = p THEN [array_nodes[p] EXCEPT !.left = NO_VALUE]
                                        ELSE array_nodes[n]
      BY <3>1, <3>2, <1>1
    <3>5. array_nodes[p].right # i
      BY <2>1, <2>3, <1>6, <1>2, <1>3
    <3>6. array_nodes[p] \in Node
      BY <1>1, <1>2, <2>1
    <3> QED
      BY <3>3, <3>4, <3>5, <3>6, <2>2, <2>3, <1>2, <1>5 DEF Node
  <2>4. CASE array_nodes[p].left # i
    <3>1. EraseIndex(i) = [[array_nodes EXCEPT ![p].right = NO_VALUE]
                             EXCEPT ![i] = Blank(free_node)]
      BY <1>8, <2>4 DEF EraseIndex, Unlinked
    <3>2. [array_nodes EXCEPT ![p].right = NO_VALUE] \in [Indexes -> Node]
      BY <1>1, <1>2, <2>1 DEF Node, Links
    <3>3. EraseIndex(i) \in [Indexes -> Node] /\ EraseIndex(i)[i] = Blank(free_node)
      BY <3>1, <3>2, <1>2, <1>4
    <3>4. \A n \in Indexes \ {i} :
            EraseIndex(i)[n] = IF n = p THEN [array_nodes[p] EXCEPT !.right = NO_VALUE]
                                        ELSE array_nodes[n]
      BY <3>1, <3>2, <1>1
    <3>5. array_nodes[p].right = i
      BY <2>1, <2>4
    <3>6. array_nodes[p] \in Node
      BY <1>1, <1>2, <2>1
    <3> QED
      BY <3>3, <3>4, <3>5, <3>6, <2>2, <2>4, <1>2, <1>5 DEF Node
  <2> QED
    BY <2>3, <2>4
<1> QED
  BY <1>7, <1>8
\* fillDefaulValueNodes appends n free nodes to an array without any.
LEMMA Filled ==
  ASSUME TypeOK, FreeListSound, used = capacity,
         NEW n \in Nat \ {0},
         capacity' = capacity + n, used' = used, free_node' = capacity,
         array_nodes' = FillDefault(array_nodes, capacity, n),
         chain' = InOrder(capacity, n)
  PROVE  /\ Used' = Used
         /\ Links \subseteq Links'
         /\ array_nodes' \in [Indexes' -> Node']
         /\ \A i \in Used : array_nodes'[i] = array_nodes[i]
         /\ chain' \in Seq(Indexes')
         /\ free_node' \in Links'
         /\ FreeListSound'
<1>1. /\ chain \in Seq(Indexes) /\ used \in Nat /\ capacity \in Nat
      /\ array_nodes \in [Indexes -> Node]
  BY DEF TypeOK
<1>2. Indexes' = 0..(capacity + n - 1) /\ Indexes = 0..(capacity - 1)
  BY <1>1 DEF Indexes
<1>3. Indexes \subseteq Indexes' /\ Links \subseteq Links'
  BY <1>1, <1>2 DEF Links
<1>4. Len(chain) = 0
  BY <1>1 DEF FreeListSound
<1>5. Used = Indexes
  BY <1>4 DEF Used, Free
<1>6. /\ chain' \in Seq(Indexes') /\ Len(chain') = n
      /\ \A j \in 1..n : chain'[j] = capacity + j - 1
  BY <1>1, <1>2 DEF InOrder
<1>7. Free' = capacity..(capacity + n - 1)
  <2>1. Free' = {capacity + j - 1 : j \in 1..n}
    BY <1>6 DEF Free
  <2>2. ASSUME NEW i \in capacity..(capacity + n - 1)
        PROVE  i \in {capacity + j - 1 : j \in 1..n}
    <3>1. i - capacity + 1 \in 1..n /\ i = capacity + (i - capacity + 1) - 1
      BY <1>1
    <3> QED
      BY <3>1
  <2>3. {capacity + j - 1 : j \in 1..n} \subseteq capacity..(capacity + n - 1)
    BY <1>1
  <2> QED
    BY <2>1, <2>2, <2>3
<1>8. Used' = Used
  BY <1>1, <1>2, <1>5, <1>7 DEF Used
<1>9. /\ \A i \in Indexes : array_nodes'[i] = array_nodes[i]
      /\ \A i \in capacity..(capacity + n - 1) :
           array_nodes'[i] = Blank(IF i = capacity + n - 1 THEN NO_VALUE ELSE i + 1)
      /\ DOMAIN array_nodes' = Indexes'
  BY <1>1, <1>2 DEF FillDefault
<1>10. array_nodes' \in [Indexes' -> Node']
  <2>1. ASSUME NEW i \in Indexes PROVE array_nodes'[i] \in Node'
    <3>1. array_nodes[i] \in Node
      BY <1>1, <2>1
    <3> QED
      BY <3>1, <1>3, <1>9, <2>1 DEF Node
  <2>2. ASSUME NEW i \in capacity..(capacity + n - 1) PROVE array_nodes'[i] \in Node'
    <3>1. (IF i = capacity + n - 1 THEN NO_VALUE ELSE i + 1) \in Links'
      BY SMTT(30), <1>1, <1>2 DEF Links
    <3>2. NO_VALUE \in Links'
      BY DEF Links
    <3>3. array_nodes'[i] = Blank(IF i = capacity + n - 1 THEN NO_VALUE ELSE i + 1)
      BY <1>9
    <3> QED
      BY <3>1, <3>2, <3>3 DEF Blank, Node
  <2>3. Indexes' = Indexes \cup (capacity..(capacity + n - 1))
    BY <1>1, <1>2
  <2>4. \A i \in Indexes' : array_nodes'[i] \in Node'
    BY <2>1, <2>2, <2>3
  <2>5. array_nodes' = [i \in Indexes' |-> array_nodes'[i]]
    BY <1>1, <1>2 DEF FillDefault
  <2> QED
    BY <2>4, <2>5
<1>11. FreeListSound'
  <2>1. used' = Cardinality(Used')
    BY <1>8 DEF FreeListSound
  <2>2. used' + Len(chain') = capacity'
    BY <1>1, <1>6
  <2>3. free_node' = (IF chain' = <<>> THEN NO_VALUE ELSE chain'[1])
    <3>1. chain' # <<>> /\ chain'[1] = capacity + 1 - 1
      BY <1>6
    <3> QED
      BY <3>1, <1>1
  <2>4. \A j, k \in 1..Len(chain') : chain'[j] = chain'[k] => j = k
    BY SMTT(30), <1>1, <1>6
  <2>5. ASSUME NEW j \in 1..Len(chain')
        PROVE  array_nodes'[chain'[j]] =
                 Blank(IF j = Len(chain') THEN NO_VALUE ELSE chain'[j + 1])
    <3>1. chain'[j] = capacity + j - 1 /\ capacity + j - 1 \in capacity..(capacity + n - 1)
      BY <1>1, <1>6
    <3>2. array_nodes'[chain'[j]] =
            Blank(IF capacity + j - 1 = capacity + n - 1 THEN NO_VALUE
                                                         ELSE capacity + j - 1 + 1)
      BY <3>1, <1>9
    <3>3. capacity + j - 1 = capacity + n - 1 <=> j = Len(chain')
      BY <1>1, <1>6
    <3>4. ASSUME j # Len(chain') PROVE chain'[j + 1] = capacity + j - 1 + 1
      <4>1. j + 1 \in 1..n
        BY <3>4, <1>6
      <4>2. chain'[j + 1] = capacity + (j + 1) - 1
        BY <4>1, <1>6
      <4> QED
        BY <4>2, <1>1
    <3> QED
      BY <3>2, <3>3, <3>4
  <2> QED
    BY <2>1, <2>2, <2>3, <2>4, <2>5 DEF FreeListSound
<1>12. free_node' \in Links'
  BY <1>1, <1>2 DEF Links
<1> QED
  BY <1>3, <1>5, <1>6, <1>8, <1>9, <1>10, <1>11, <1>12

\* A step that leaves the array and the free list alone keeps them sound, and
\* every node what it is.
LEMMA StoreKept ==
  ASSUME FreeListSound, LinksSound, Acyclic, UNCHANGED <<store, chain>>
  PROVE  /\ Indexes' = Indexes /\ Links' = Links /\ Node' = Node /\ Used' = Used
         /\ FreeListSound' /\ LinksSound' /\ Acyclic'
         /\ \A n : Referred(n)' = Referred(n) /\ Cursor(n)' = Cursor(n)
<1>1. /\ array_nodes' = array_nodes /\ capacity' = capacity /\ used' = used
      /\ root' = root /\ free_node' = free_node /\ chain' = chain
  BY DEF store
<1>2. Indexes' = Indexes /\ Free' = Free
  BY <1>1 DEF Indexes, Free
<1>3. Links' = Links /\ Used' = Used
  BY <1>2 DEF Links, Used
<1>4. Node' = Node
  BY <1>3 DEF Node
<1>5. FreeListSound'
  BY <1>1, <1>3 DEF FreeListSound
<1>6. LinksSound'
  BY <1>1, <1>3 DEF LinksSound
<1>7. Acyclic'
  BY <1>1, <1>3 DEF Acyclic
<1>8. \A n : Referred(n)' = Referred(n)
  BY <1>1, <1>3 DEF Referred
<1>9. \A n : Cursor(n)' = Cursor(n)
  BY <1>1, <1>3, <1>8 DEF Cursor
<1> QED
  BY <1>2, <1>3, <1>4, <1>5, <1>6, <1>7, <1>8, <1>9
----------------------------------------------------------------------------
(* Deletions                                                               *)

\* Node i leaves, and whoever referred to it refers to c now.
Spliced(i, c) ==
  /\ Used' = Used \ {i}
  /\ \A n \in Used \ {i} :
       /\ array_nodes'[n].left =
            IF array_nodes[n].left = i THEN c ELSE array_nodes[n].left
       /\ array_nodes'[n].right =
            IF array_nodes[n].right = i THEN c ELSE array_nodes[n].right

\* Node i leaves, and no other gets a link that is not a link to c.
Relinked(i, c) ==
  /\ Used' = Used \ {i}
  /\ \A n \in Used \ {i} :
       /\ array_nodes'[n].left \in {array_nodes[n].left, c, NO_VALUE}
       /\ array_nodes'[n].right \in {array_nodes[n].right, c, NO_VALUE}

DataKept(S) == \A n \in S : array_nodes'[n].data = array_nodes[n].data

\* What every deletion has in common: node i leaves the tree.
LEMMA Deleted ==
  ASSUME IInv, NEW i, Cursor(i), At("delete") \/ At("min"), Erased(i),
         array_nodes' \in [Indexes -> Node],
         array_nodes'[i] = Blank(free_node),
         \A n \in Free : array_nodes'[n] = array_nodes[n],
         root' \in Links, damaged' \in BOOLEAN
  PROVE  Used' = Used \ {i} /\ TypeOK' /\ FreeListSound' /\ CallSound'
<1>1. TypeOK /\ FreeListSound /\ i \in Used /\ capacity \in Nat
  BY DEF IInv, Cursor, TypeOK
<1>2. /\ free_node' = i /\ chain' = <<i>> \o chain /\ used' = used - 1
      /\ keys' = keys \ {call.data}
      /\ call' = Idle /\ ret' = 0
      /\ live' = live /\ capacity' = capacity
      /\ number_increase_capacity' = number_increase_capacity
  BY DEF Erased, Return
<1>3. /\ chain' \in Seq(Indexes') /\ Used' = Used \ {i} /\ FreeListSound'
      /\ used' \in Nat /\ free_node' \in Links'
  BY <1>1, <1>2, Pushed
<1>4. Indexes' = Indexes /\ Links' = Links
  BY <1>2 DEF Indexes, Links
<1>5. Node' = Node
  BY <1>4 DEF Node
<1>6. call' \in [step: Steps, data: Keys \cup {NO_VALUE}, index: Links', node: Links']
  BY <1>2 DEF Idle, Steps, Links
<1>7. /\ live' \in BOOLEAN /\ capacity' \in Nat
      /\ number_increase_capacity' \in Nat \ {0} /\ ret' \in {0, -1}
      /\ keys' \subseteq Keys
  BY <1>1, <1>2 DEF TypeOK
<1>8. TypeOK'
  BY <1>3, <1>4, <1>5, <1>6, <1>7 DEF TypeOK
<1>9. live /\ live' /\ call'.step = "idle"
  <2>1. live
    BY DEF IInv, CallSound, At
  <2> QED
    BY <2>1, <1>2 DEF Idle
<1>10. CallSound'
  BY <1>9 DEF CallSound, At
<1> QED
  BY <1>3, <1>8, <1>10

\* Links stay sound when a node leaves and no other gains a link.
LEMMA LinksLess ==
  ASSUME IInv, NEW i, Cursor(i), Used' = Used \ {i},
         \A n \in Used \ {i} :
           /\ array_nodes'[n].left = EraseIndex(i)[n].left
           /\ array_nodes'[n].right = EraseIndex(i)[n].right
           /\ array_nodes[n].parent # i => array_nodes'[n].parent = array_nodes[n].parent,
         root' # NO_VALUE => root' \in Used \ {i} /\ array_nodes'[root'].parent = NO_VALUE
  PROVE  LinksSound' /\ Acyclic'
<1>1. TypeOK /\ LinksSound /\ Acyclic /\ i \in Used
  BY DEF IInv, Cursor
<1>2. NO_VALUE \notin Used
  BY <1>1, IndexFacts DEF TypeOK
<1>3. \A n \in Used \ {i} :
        /\ array_nodes'[n].left =
             IF array_nodes[n].left = i THEN NO_VALUE ELSE array_nodes[n].left
        /\ array_nodes'[n].right =
             IF array_nodes[n].right = i THEN NO_VALUE ELSE array_nodes[n].right
  BY <1>1, EraseFacts
<1>4. ASSUME NEW n \in Used \ {i},
             NEW m \in {array_nodes'[n].left, array_nodes'[n].right}, m # NO_VALUE
      PROVE  m \in Used \ {i} /\ array_nodes'[m].parent = n
  <2>1. m \in {array_nodes[n].left, array_nodes[n].right} /\ m # i
    BY <1>3, <1>4
  <2>2. m \in Used /\ array_nodes[m].parent = n
    BY <1>1, <1>4, <2>1 DEF LinksSound
  <2> QED
    BY <2>1, <2>2
<1>5. \A n \in Used \ {i} :
        array_nodes'[n].left = array_nodes'[n].right => array_nodes'[n].left = NO_VALUE
  BY <1>1, <1>3 DEF LinksSound
<1>6. LinksSound'
  BY <1>4, <1>5 DEF LinksSound
<1>7. Acyclic'
  BY <1>1, <1>2, <1>3, AcyclicLess
<1> QED
  BY <1>6, <1>7

LEMMA DeleteLeafStep ==
  ASSUME IInv, DeleteLeaf
  PROVE  /\ IInv'
         /\ Spliced(call.index, NO_VALUE) /\ DataKept(Used \ {call.index})
<1> DEFINE i == call.index
<1>1. TypeOK /\ LinksSound /\ CallSound /\ At("delete")
  BY DEF IInv, DeleteLeaf
<1>2. Cursor(i) /\ i \in Used
  BY <1>1 DEF CallSound, Cursor
<1>3. array_nodes' = EraseIndex(i) /\ Erased(i) /\ damaged' = damaged
  BY DEF DeleteLeaf
<1>4. root' = IF i = root THEN NO_VALUE ELSE root
  BY DEF DeleteLeaf
<1>5. root \in Links /\ root' \in Links /\ damaged' \in BOOLEAN
  BY <1>1, <1>3, <1>4 DEF TypeOK, Links
<1>6. /\ array_nodes' \in [Indexes -> Node]
      /\ array_nodes'[i] = Blank(free_node)
      /\ \A n \in Free : array_nodes'[n] = array_nodes[n]
      /\ \A n \in Used \ {i} : array_nodes'[n].parent = array_nodes[n].parent
  BY <1>1, <1>2, <1>3, EraseFacts
<1>7. Used' = Used \ {i} /\ TypeOK' /\ FreeListSound' /\ CallSound'
  BY <1>1, <1>2, <1>3, <1>5, <1>6, Deleted
<1>8. root' # NO_VALUE => root' \in Used \ {i} /\ array_nodes'[root'].parent = NO_VALUE
  BY <1>1, <1>4, <1>6 DEF LinksSound
<1>9. LinksSound' /\ Acyclic'
  BY <1>2, <1>3, <1>6, <1>7, <1>8, LinksLess
<1>10. Spliced(i, NO_VALUE) /\ DataKept(Used \ {i})
  BY <1>1, <1>2, <1>3, <1>7, EraseFacts DEF Spliced, DataKept
<1> QED
  BY <1>7, <1>9, <1>10 DEF IInv

LEMMA DeleteRootStep ==
  ASSUME IInv, DeleteRoot
  PROVE  /\ IInv'
         /\ Spliced(call.index, OnlyChild) /\ DataKept(Used \ {call.index})
<1> DEFINE i == call.index
           child == OnlyChild
<1>1. TypeOK /\ LinksSound /\ CallSound /\ At("delete") /\ Acyclic
  BY DEF IInv, DeleteRoot
<1>2. Cursor(i) /\ i \in Used /\ i = root /\ call.node = i
  BY <1>1 DEF CallSound, Cursor, DeleteRoot
<1>3. /\ array_nodes' = [EraseIndex(i) EXCEPT ![child].parent = NO_VALUE]
      /\ Erased(i) /\ damaged' = damaged /\ root' = child /\ child # NO_VALUE
  BY <1>2 DEF DeleteRoot
<1>4. child \in {array_nodes[i].left, array_nodes[i].right}
  BY <1>2 DEF OnlyChild, Here
<1>5. child \in Used /\ array_nodes[child].parent = i
  BY <1>1, <1>2, <1>3, <1>4 DEF LinksSound
<1>6. child # i
  BY <1>1, <1>2, <1>4, NoLoop
<1>7. /\ EraseIndex(i) \in [Indexes -> Node]
      /\ EraseIndex(i)[i] = Blank(free_node)
      /\ \A n \in Free : EraseIndex(i)[n] = array_nodes[n]
      /\ \A n \in Used \ {i} : EraseIndex(i)[n].parent = array_nodes[n].parent
  BY <1>1, <1>2, EraseFacts
<1>8. Used \subseteq Indexes /\ Free \cap Used = {} /\ Free \subseteq Indexes
  BY <1>1 DEF Used, Free, TypeOK
<1>9. /\ array_nodes' \in [Indexes -> Node]
      /\ \A n \in Indexes \ {child} : array_nodes'[n] = EraseIndex(i)[n]
      /\ array_nodes'[child] = [EraseIndex(i)[child] EXCEPT !.parent = NO_VALUE]
  BY <1>3, <1>5, <1>7, <1>8 DEF Node, Links
<1>10. EraseIndex(i)[child] \in Node
  BY <1>5, <1>7, <1>8
<1>11. /\ array_nodes'[child].left = EraseIndex(i)[child].left
       /\ array_nodes'[child].right = EraseIndex(i)[child].right
       /\ array_nodes'[child].parent = NO_VALUE
  BY <1>9, <1>10 DEF Node
<1>12. /\ array_nodes'[i] = Blank(free_node)
       /\ \A n \in Free : array_nodes'[n] = array_nodes[n]
  BY <1>2, <1>5, <1>6, <1>7, <1>8, <1>9
<1>13. root' \in Links /\ damaged' \in BOOLEAN
  BY <1>1, <1>3, <1>5, <1>8 DEF TypeOK, Links
<1>14. Used' = Used \ {i} /\ TypeOK' /\ FreeListSound' /\ CallSound'
  BY <1>1, <1>2, <1>3, <1>9, <1>12, <1>13, Deleted
<1>15. \A n \in Used \ {i} :
         /\ array_nodes'[n].left = EraseIndex(i)[n].left
         /\ array_nodes'[n].right = EraseIndex(i)[n].right
         /\ array_nodes[n].parent # i => array_nodes'[n].parent = array_nodes[n].parent
  BY <1>5, <1>7, <1>8, <1>9, <1>11
<1>16. root' # NO_VALUE => root' \in Used \ {i} /\ array_nodes'[root'].parent = NO_VALUE
  BY <1>3, <1>5, <1>6, <1>11
<1>17. LinksSound' /\ Acyclic'
  BY <1>2, <1>14, <1>15, <1>16, LinksLess
<1>18. DataKept(Used \ {i})
  <2>1. \A n \in Used \ {i} : EraseIndex(i)[n].data = array_nodes[n].data
    BY <1>1, <1>2, EraseFacts
  <2>2. array_nodes'[child].data = EraseIndex(i)[child].data
    BY <1>9, <1>10 DEF Node
  <2> HIDE DEF child
  <2> QED
    BY <1>8, <1>9, <2>1, <2>2 DEF DataKept
<1>19. \A n \in Used \ {i} : array_nodes[n].left # i /\ array_nodes[n].right # i
  <2>1. NO_VALUE \notin Used /\ array_nodes[i].parent = NO_VALUE
    BY <1>1, <1>2, IndexFacts DEF TypeOK, LinksSound
  <2> QED
    BY <1>1, <1>2, <2>1 DEF LinksSound
<1>20. Spliced(i, child)
  <2>1. \A n \in Used \ {i} : /\ EraseIndex(i)[n].left = array_nodes[n].left
                              /\ EraseIndex(i)[n].right = array_nodes[n].right
    BY <1>1, <1>2, <1>19, EraseFacts
  <2> QED
    BY <1>14, <1>15, <1>19, <2>1 DEF Spliced
<1> QED
  BY <1>14, <1>17, <1>18, <1>20 DEF IInv

LEMMA EraseMinStep ==
  ASSUME IInv, EraseMin
  PROVE  /\ IInv'
         /\ Spliced(call.node, NO_VALUE) /\ DataKept(Used \ {call.node, call.index})
         /\ array_nodes'[call.index].data = array_nodes[call.node].data
         /\ call.index \in Used /\ call.index # call.node
<1> DEFINE i == call.node
           top == call.index
<1>1. TypeOK /\ LinksSound /\ CallSound /\ At("min")
  BY DEF IInv, EraseMin
<1>2. i \in Used /\ Referred(i) /\ Cursor(i)
  BY <1>1 DEF CallSound, Cursor
<1>3. /\ array_nodes' = [EraseIndex(i) EXCEPT ![top].data = array_nodes[i].data]
      /\ Erased(i) /\ root' = root
      /\ array_nodes[i].left = NO_VALUE
      /\ damaged' \in BOOLEAN
  BY <1>1 DEF EraseMin, Here, TypeOK
<1>4. top \in Used /\ top # i
  BY <1>1, <1>3 DEF CallSound
<1>5. /\ EraseIndex(i) \in [Indexes -> Node]
      /\ EraseIndex(i)[i] = Blank(free_node)
      /\ \A n \in Free : EraseIndex(i)[n] = array_nodes[n]
      /\ \A n \in Used \ {i} : EraseIndex(i)[n].parent = array_nodes[n].parent
  BY <1>1, <1>2, EraseFacts
<1>6. Used \subseteq Indexes /\ Free \cap Used = {} /\ Free \subseteq Indexes
  BY <1>1 DEF Used, Free, TypeOK
<1>7. array_nodes[i].data \in Keys \cup {NO_VALUE}
  <2>1. array_nodes[i] \in Node
    BY <1>1, <1>2, <1>6 DEF TypeOK
  <2> QED
    BY <2>1 DEF Node
<1>8. /\ array_nodes' \in [Indexes -> Node]
      /\ \A n \in Indexes \ {top} : array_nodes'[n] = EraseIndex(i)[n]
      /\ array_nodes'[top] = [EraseIndex(i)[top] EXCEPT !.data = array_nodes[i].data]
  BY <1>3, <1>4, <1>5, <1>6, <1>7 DEF Node
<1>9. EraseIndex(i)[top] \in Node
  BY <1>4, <1>5, <1>6
<1>10. /\ array_nodes'[top].left = EraseIndex(i)[top].left
       /\ array_nodes'[top].right = EraseIndex(i)[top].right
       /\ array_nodes'[top].parent = EraseIndex(i)[top].parent
  BY <1>8, <1>9 DEF Node
<1>11. /\ array_nodes'[i] = Blank(free_node)
       /\ \A n \in Free : array_nodes'[n] = array_nodes[n]
  BY <1>2, <1>4, <1>5, <1>6, <1>8
<1>12. root' \in Links
  BY <1>1, <1>3 DEF TypeOK
<1>13. Used' = Used \ {i} /\ TypeOK' /\ FreeListSound' /\ CallSound'
  BY <1>1, <1>2, <1>3, <1>8, <1>11, <1>12, Deleted
<1>14. \A n \in Used \ {i} :
         /\ array_nodes'[n].left = EraseIndex(i)[n].left
         /\ array_nodes'[n].right = EraseIndex(i)[n].right
         /\ array_nodes'[n].parent = array_nodes[n].parent
  BY <1>5, <1>6, <1>8, <1>10
<1>15. root' # NO_VALUE => root' \in Used \ {i} /\ array_nodes'[root'].parent = NO_VALUE
  <2>1. NO_VALUE \notin Used
    BY <1>1, IndexFacts DEF TypeOK
  <2>2. array_nodes[i].parent # NO_VALUE
    BY <1>2, <2>1 DEF Referred
  <2> QED
    BY <1>1, <1>3, <1>14, <2>2 DEF LinksSound
<1>16. LinksSound' /\ Acyclic'
  BY <1>2, <1>13, <1>14, <1>15, LinksLess
<1>17. DataKept(Used \ {i, top}) /\ array_nodes'[top].data = array_nodes[i].data
  <2>1. \A n \in Used \ {i} : EraseIndex(i)[n].data = array_nodes[n].data
    BY <1>1, <1>2, EraseFacts
  <2>2. array_nodes'[top].data = array_nodes[i].data
    BY <1>8, <1>9 DEF Node
  <2> QED
    BY <1>6, <1>8, <2>1, <2>2 DEF DataKept
<1>18. Spliced(i, NO_VALUE)
  BY <1>1, <1>2, <1>13, <1>14, EraseFacts DEF Spliced
<1> QED
  BY <1>4, <1>13, <1>16, <1>17, <1>18 DEF IInv
LEMMA DeleteWithRightStep ==
  ASSUME IInv, DeleteWithRight
  PROVE  /\ IInv' /\ DataKept(Used \ {call.index})
         /\ Relinked(call.index, array_nodes[call.index].right)
         /\ ~ damaged' => Spliced(call.index, array_nodes[call.index].right)
<1> DEFINE i == call.index
           p == array_nodes[i].parent
           child == array_nodes[i].right
<1>1. TypeOK /\ LinksSound /\ CallSound /\ At("delete") /\ Acyclic
  BY DEF IInv, DeleteWithRight
<1>2. Cursor(i) /\ i \in Used /\ i # root /\ call.node = i
  BY <1>1 DEF CallSound, Cursor, DeleteWithRight
<1>3. /\ array_nodes' = [EraseIndex(i) EXCEPT ![p].right = child, ![child].parent = p]
      /\ Erased(i) /\ root' = root /\ child # NO_VALUE /\ damaged' \in BOOLEAN
  BY <1>1, <1>2 DEF DeleteWithRight, Here, TypeOK
<1>4. child \in Used /\ array_nodes[child].parent = i
  BY <1>1, <1>2, <1>3 DEF LinksSound
<1>5. p \in Used /\ i \in {array_nodes[p].left, array_nodes[p].right}
  BY <1>2 DEF Cursor, Referred
<1>6. child # i /\ p # i /\ child # p
  <2>1. child # i /\ i \notin {array_nodes[i].left, array_nodes[i].right}
    BY <1>1, <1>2, NoLoop
  <2>2. i \notin {array_nodes[child].left, array_nodes[child].right}
    BY <1>1, <1>2, <1>4, NoLoopOfTwo
  <2> QED
    BY <2>1, <2>2, <1>5
<1>7. /\ EraseIndex(i) \in [Indexes -> Node]
      /\ EraseIndex(i)[i] = Blank(free_node)
      /\ \A n \in Free : EraseIndex(i)[n] = array_nodes[n]
      /\ \A n \in Used \ {i} :
           /\ EraseIndex(i)[n].parent = array_nodes[n].parent
           /\ EraseIndex(i)[n].left =
                IF array_nodes[n].left = i THEN NO_VALUE ELSE array_nodes[n].left
           /\ EraseIndex(i)[n].right =
                IF array_nodes[n].right = i THEN NO_VALUE ELSE array_nodes[n].right
  BY <1>1, <1>2, EraseFacts
<1>8. Used \subseteq Indexes /\ Free \cap Used = {} /\ Free \subseteq Indexes
  BY <1>1 DEF Used, Free, TypeOK
<1>9. /\ array_nodes' \in [Indexes -> Node]
      /\ \A n \in Indexes \ {child, p} : array_nodes'[n] = EraseIndex(i)[n]
      /\ array_nodes'[child] = [EraseIndex(i)[child] EXCEPT !.parent = p]
      /\ array_nodes'[p] = [EraseIndex(i)[p] EXCEPT !.right = child]
  <2> DEFINE mid == [EraseIndex(i) EXCEPT ![p].right = child]
  <2>1. child \in Links /\ p \in Links
    BY <1>4, <1>5, <1>8 DEF Links
  <2>2. /\ mid \in [Indexes -> Node]
        /\ \A n \in Indexes \ {p} : mid[n] = EraseIndex(i)[n]
        /\ mid[p] = [EraseIndex(i)[p] EXCEPT !.right = child]
    BY SMTT(30), <1>5, <1>7, <1>8, <2>1 DEF Node
  <2>3. array_nodes' = [mid EXCEPT ![child].parent = p]
    BY <1>3
  <2>4. /\ array_nodes' \in [Indexes -> Node]
        /\ \A n \in Indexes \ {child} : array_nodes'[n] = mid[n]
        /\ array_nodes'[child] = [mid[child] EXCEPT !.parent = p]
    <3> HIDE DEF mid
    <3>1. child \in Indexes
      BY <1>4, <1>8
    <3>2. mid \in [Indexes -> Node] /\ mid[child] \in Node /\ p \in Links
      BY <2>1, <2>2, <3>1
    <3>3. [mid[child] EXCEPT !.parent = p] \in Node
      BY <3>2 DEF Node
    <3>4. array_nodes' = [mid EXCEPT ![child] = [mid[child] EXCEPT !.parent = p]]
      BY <2>3
    <3> QED
      BY <3>1, <3>2, <3>3, <3>4
  <2> HIDE DEF mid
  <2> QED
    BY <1>4, <1>5, <1>6, <1>8, <2>2, <2>4
<1>10. EraseIndex(i)[child] \in Node /\ EraseIndex(i)[p] \in Node
  BY <1>4, <1>5, <1>7, <1>8
<1>11. /\ array_nodes'[child].left = EraseIndex(i)[child].left
       /\ array_nodes'[child].right = EraseIndex(i)[child].right
       /\ array_nodes'[child].parent = p
       /\ array_nodes'[p].left = EraseIndex(i)[p].left
       /\ array_nodes'[p].right = child
       /\ array_nodes'[p].parent = EraseIndex(i)[p].parent
  BY <1>9, <1>10 DEF Node
<1>12. /\ array_nodes'[i] = Blank(free_node)
       /\ \A n \in Free : array_nodes'[n] = array_nodes[n]
  BY <1>2, <1>4, <1>5, <1>6, <1>7, <1>8, <1>9
<1>13. root' \in Links
  BY <1>1, <1>3 DEF TypeOK
<1>14. Used' = Used \ {i} /\ TypeOK' /\ FreeListSound' /\ CallSound'
  BY <1>1, <1>2, <1>3, <1>9, <1>12, <1>13, Deleted
<1>15. NO_VALUE \notin Used
  BY <1>1, IndexFacts DEF TypeOK
<1>16. \A n \in Used \ {i} :
         /\ array_nodes'[n].parent = IF n = child THEN p ELSE array_nodes[n].parent
         /\ array_nodes'[n].left =
              IF array_nodes[n].left = i THEN NO_VALUE ELSE array_nodes[n].left
         /\ array_nodes'[n].right =
              IF n = p THEN child
              ELSE IF array_nodes[n].right = i THEN NO_VALUE ELSE array_nodes[n].right
  <2>1. ASSUME NEW n \in Used \ {i, child, p}
        PROVE  array_nodes'[n] = EraseIndex(i)[n]
    BY <1>8, <1>9
  <2>2. p \in Used \ {i} /\ child \in Used \ {i}
    BY <1>4, <1>5, <1>6
  <2> QED
    BY SMTT(30), <1>6, <1>7, <1>11, <2>1, <2>2
<1>17. \A n \in Used \ {i} :
         /\ array_nodes[n].left # child /\ array_nodes[n].right # child
         /\ array_nodes[n].left = i \/ array_nodes[n].right = i => n = p
  BY <1>1, <1>2, <1>3, <1>4, <1>15 DEF LinksSound
<1>18. ASSUME NEW n \in Used \ {i},
              NEW m \in {array_nodes'[n].left, array_nodes'[n].right}, m # NO_VALUE
       PROVE  m \in Used \ {i} /\ array_nodes'[m].parent = n
  <2>1. CASE m = child
    BY <2>1, <1>4, <1>6, <1>16, <1>17, <1>18, <1>3
  <2>2. CASE m # child
    <3>1. m \in {array_nodes[n].left, array_nodes[n].right} /\ m # i
      BY <2>2, <1>16, <1>18
    <3>2. m \in Used /\ array_nodes[m].parent = n
      BY <1>1, <1>18, <3>1 DEF LinksSound
    <3> QED
      BY <3>1, <3>2, <2>2, <1>16
  <2> QED
    BY <2>1, <2>2
<1>19. \A n \in Used \ {i} :
         array_nodes'[n].left = array_nodes'[n].right => array_nodes'[n].left = NO_VALUE
  <2> SUFFICES ASSUME NEW n \in Used \ {i}, array_nodes'[n].left = array_nodes'[n].right
               PROVE  array_nodes'[n].left = NO_VALUE
    OBVIOUS
  <2>1. n # p
    <3>1. p \in Used \ {i} /\ child # NO_VALUE
      BY <1>3, <1>5, <1>6
    <3>2. array_nodes'[p].right = child
      BY <1>11
    <3>3. array_nodes'[p].left \in {NO_VALUE, array_nodes[p].left}
      BY <3>1, <1>16
    <3>4. array_nodes[p].left # child
      BY <3>1, <1>17
    <3> QED
      BY <3>1, <3>2, <3>3, <3>4
  <2>2. array_nodes[n].left # i /\ array_nodes[n].right # i
    BY <2>1, <1>17
  <2>3. array_nodes[n].left = array_nodes[n].right
    BY <2>1, <2>2, <1>16
  <2> QED
    BY <2>1, <2>2, <2>3, <1>1, <1>16 DEF LinksSound
<1>20. root' # NO_VALUE => root' \in Used \ {i} /\ array_nodes'[root'].parent = NO_VALUE
  <2>1. root # NO_VALUE => root \in Used /\ array_nodes[root].parent = NO_VALUE
    BY <1>1 DEF LinksSound
  <2>2. root # child
    BY <2>1, <1>2, <1>4, <1>15
  <2> QED
    BY <2>1, <2>2, <1>2, <1>3, <1>16
<1>21. LinksSound'
  BY <1>14, <1>18, <1>19, <1>20 DEF LinksSound
<1>22. Acyclic'
  <2>1. \A n \in Used' :
          LET C == {array_nodes[n].left, array_nodes[n].right, NO_VALUE} \cup
                   (IF n = p THEN {child} ELSE {}) IN
          array_nodes'[n].left \in C /\ array_nodes'[n].right \in C
    BY <1>14, <1>16
  <2> QED
    BY <2>1, <1>1, <1>2, <1>4, <1>5, <1>14, <1>15, AcyclicRelink
<1>23. DataKept(Used \ {i})
  <2>1. \A n \in Used \ {i} : EraseIndex(i)[n].data = array_nodes[n].data
    BY <1>1, <1>2, EraseFacts
  <2>2. /\ array_nodes'[child].data = EraseIndex(i)[child].data
        /\ array_nodes'[p].data = EraseIndex(i)[p].data
    BY <1>9, <1>10 DEF Node
  <2> QED
    BY <1>8, <1>9, <2>1, <2>2 DEF DataKept
<1>24. ASSUME ~ damaged' PROVE Spliced(i, child)
  <2>1. array_nodes[p].left # i /\ array_nodes[p].right = i
    BY <1>2, <1>5, <1>24 DEF DeleteWithRight, Here
  <2>2. \A n \in Used \ {i} : array_nodes[n].left # i
    BY <1>17, <2>1
  <2>3. \A n \in Used \ {i} : array_nodes[n].right = i <=> n = p
    BY <1>17, <2>1
  <2> QED
    BY <1>14, <1>16, <2>2, <2>3 DEF Spliced
<1>25. Relinked(i, child)
  BY <1>14, <1>16 DEF Relinked
<1> QED
  BY <1>14, <1>21, <1>22, <1>23, <1>24, <1>25 DEF IInv

LEMMA DeleteWithLeftStep ==
  ASSUME IInv, DeleteWithLeft
  PROVE  /\ IInv' /\ DataKept(Used \ {call.index})
         /\ Relinked(call.index, array_nodes[call.index].left)
         /\ ~ damaged' => Spliced(call.index, array_nodes[call.index].left)
<1> DEFINE i == call.index
           p == array_nodes[i].parent
           child == array_nodes[i].left
<1>1. TypeOK /\ LinksSound /\ CallSound /\ At("delete") /\ Acyclic
  BY DEF IInv, DeleteWithLeft
<1>2. Cursor(i) /\ i \in Used /\ i # root /\ call.node = i
  BY <1>1 DEF CallSound, Cursor, DeleteWithLeft
<1>3. /\ array_nodes' = [EraseIndex(i) EXCEPT ![p].left = child, ![child].parent = p]
      /\ Erased(i) /\ root' = root /\ child # NO_VALUE /\ damaged' \in BOOLEAN
  BY <1>1, <1>2 DEF DeleteWithLeft, Here, TypeOK
<1>4. child \in Used /\ array_nodes[child].parent = i
  BY <1>1, <1>2, <1>3 DEF LinksSound
<1>5. p \in Used /\ i \in {array_nodes[p].left, array_nodes[p].right}
  BY <1>2 DEF Cursor, Referred
<1>6. child # i /\ p # i /\ child # p
  <2>1. child # i /\ i \notin {array_nodes[i].left, array_nodes[i].right}
    BY <1>1, <1>2, NoLoop
  <2>2. i \notin {array_nodes[child].left, array_nodes[child].right}
    BY <1>1, <1>2, <1>4, NoLoopOfTwo
  <2> QED
    BY <2>1, <2>2, <1>5
<1>7. /\ EraseIndex(i) \in [Indexes -> Node]
      /\ EraseIndex(i)[i] = Blank(free_node)
      /\ \A n \in Free : EraseIndex(i)[n] = array_nodes[n]
      /\ \A n \in Used \ {i} :
           /\ EraseIndex(i)[n].parent = array_nodes[n].parent
           /\ EraseIndex(i)[n].left =
                IF array_nodes[n].left = i THEN NO_VALUE ELSE array_nodes[n].left
           /\ EraseIndex(i)[n].right =
                IF array_nodes[n].right = i THEN NO_VALUE ELSE array_nodes[n].right
  BY <1>1, <1>2, EraseFacts
<1>8. Used \subseteq Indexes /\ Free \cap Used = {} /\ Free \subseteq Indexes
  BY <1>1 DEF Used, Free, TypeOK
<1>9. /\ array_nodes' \in [Indexes -> Node]
      /\ \A n \in Indexes \ {child, p} : array_nodes'[n] = EraseIndex(i)[n]
      /\ array_nodes'[child] = [EraseIndex(i)[child] EXCEPT !.parent = p]
      /\ array_nodes'[p] = [EraseIndex(i)[p] EXCEPT !.left = child]
  <2> DEFINE mid == [EraseIndex(i) EXCEPT ![p].left = child]
  <2>1. child \in Links /\ p \in Links
    BY <1>4, <1>5, <1>8 DEF Links
  <2>2. /\ mid \in [Indexes -> Node]
        /\ \A n \in Indexes \ {p} : mid[n] = EraseIndex(i)[n]
        /\ mid[p] = [EraseIndex(i)[p] EXCEPT !.left = child]
    BY SMTT(30), <1>5, <1>7, <1>8, <2>1 DEF Node
  <2>3. array_nodes' = [mid EXCEPT ![child].parent = p]
    BY <1>3
  <2>4. /\ array_nodes' \in [Indexes -> Node]
        /\ \A n \in Indexes \ {child} : array_nodes'[n] = mid[n]
        /\ array_nodes'[child] = [mid[child] EXCEPT !.parent = p]
    <3> HIDE DEF mid
    <3>1. child \in Indexes
      BY <1>4, <1>8
    <3>2. mid \in [Indexes -> Node] /\ mid[child] \in Node /\ p \in Links
      BY <2>1, <2>2, <3>1
    <3>3. [mid[child] EXCEPT !.parent = p] \in Node
      BY <3>2 DEF Node
    <3>4. array_nodes' = [mid EXCEPT ![child] = [mid[child] EXCEPT !.parent = p]]
      BY <2>3
    <3> QED
      BY <3>1, <3>2, <3>3, <3>4
  <2> HIDE DEF mid
  <2> QED
    BY <1>4, <1>5, <1>6, <1>8, <2>2, <2>4
<1>10. EraseIndex(i)[child] \in Node /\ EraseIndex(i)[p] \in Node
  BY <1>4, <1>5, <1>7, <1>8
<1>11. /\ array_nodes'[child].left = EraseIndex(i)[child].left
       /\ array_nodes'[child].right = EraseIndex(i)[child].right
       /\ array_nodes'[child].parent = p
       /\ array_nodes'[p].right = EraseIndex(i)[p].right
       /\ array_nodes'[p].left = child
       /\ array_nodes'[p].parent = EraseIndex(i)[p].parent
  BY <1>9, <1>10 DEF Node
<1>12. /\ array_nodes'[i] = Blank(free_node)
       /\ \A n \in Free : array_nodes'[n] = array_nodes[n]
  BY <1>2, <1>4, <1>5, <1>6, <1>7, <1>8, <1>9
<1>13. root' \in Links
  BY <1>1, <1>3 DEF TypeOK
<1>14. Used' = Used \ {i} /\ TypeOK' /\ FreeListSound' /\ CallSound'
  BY <1>1, <1>2, <1>3, <1>9, <1>12, <1>13, Deleted
<1>15. NO_VALUE \notin Used
  BY <1>1, IndexFacts DEF TypeOK
<1>16. \A n \in Used \ {i} :
         /\ array_nodes'[n].parent = IF n = child THEN p ELSE array_nodes[n].parent
         /\ array_nodes'[n].right =
              IF array_nodes[n].right = i THEN NO_VALUE ELSE array_nodes[n].right
         /\ array_nodes'[n].left =
              IF n = p THEN child
              ELSE IF array_nodes[n].left = i THEN NO_VALUE ELSE array_nodes[n].left
  <2>1. ASSUME NEW n \in Used \ {i, child, p}
        PROVE  array_nodes'[n] = EraseIndex(i)[n]
    BY <1>8, <1>9
  <2>2. p \in Used \ {i} /\ child \in Used \ {i}
    BY <1>4, <1>5, <1>6
  <2> QED
    BY SMTT(30), <1>6, <1>7, <1>11, <2>1, <2>2
<1>17. \A n \in Used \ {i} :
         /\ array_nodes[n].left # child /\ array_nodes[n].right # child
         /\ array_nodes[n].left = i \/ array_nodes[n].right = i => n = p
  BY <1>1, <1>2, <1>3, <1>4, <1>15 DEF LinksSound
<1>18. ASSUME NEW n \in Used \ {i},
              NEW m \in {array_nodes'[n].left, array_nodes'[n].right}, m # NO_VALUE
       PROVE  m \in Used \ {i} /\ array_nodes'[m].parent = n
  <2>1. CASE m = child
    BY <2>1, <1>4, <1>6, <1>16, <1>17, <1>18, <1>3
  <2>2. CASE m # child
    <3>1. m \in {array_nodes[n].left, array_nodes[n].right} /\ m # i
      BY <2>2, <1>16, <1>18
    <3>2. m \in Used /\ array_nodes[m].parent = n
      BY <1>1, <1>18, <3>1 DEF LinksSound
    <3> QED
      BY <3>1, <3>2, <2>2, <1>16
  <2> QED
    BY <2>1, <2>2
<1>19. \A n \in Used \ {i} :
         array_nodes'[n].left = array_nodes'[n].right => array_nodes'[n].left = NO_VALUE
  <2> SUFFICES ASSUME NEW n \in Used \ {i}, array_nodes'[n].left = array_nodes'[n].right
               PROVE  array_nodes'[n].left = NO_VALUE
    OBVIOUS
  <2>1. n # p
    <3>1. p \in Used \ {i} /\ child # NO_VALUE
      BY <1>3, <1>5, <1>6
    <3>2. array_nodes'[p].left = child
      BY <1>11
    <3>3. array_nodes'[p].right \in {NO_VALUE, array_nodes[p].right}
      BY <3>1, <1>16
    <3>4. array_nodes[p].right # child
      BY <3>1, <1>17
    <3> QED
      BY <3>1, <3>2, <3>3, <3>4
  <2>2. array_nodes[n].left # i /\ array_nodes[n].right # i
    BY <2>1, <1>17
  <2>3. array_nodes[n].left = array_nodes[n].right
    BY <2>1, <2>2, <1>16
  <2> QED
    BY <2>1, <2>2, <2>3, <1>1, <1>16 DEF LinksSound
<1>20. root' # NO_VALUE => root' \in Used \ {i} /\ array_nodes'[root'].parent = NO_VALUE
  <2>1. root # NO_VALUE => root \in Used /\ array_nodes[root].parent = NO_VALUE
    BY <1>1 DEF LinksSound
  <2>2. root # child
    BY <2>1, <1>2, <1>4, <1>15
  <2> QED
    BY <2>1, <2>2, <1>2, <1>3, <1>16
<1>21. LinksSound'
  BY <1>14, <1>18, <1>19, <1>20 DEF LinksSound
<1>22. Acyclic'
  <2>1. \A n \in Used' :
          LET C == {array_nodes[n].left, array_nodes[n].right, NO_VALUE} \cup
                   (IF n = p THEN {child} ELSE {}) IN
          array_nodes'[n].left \in C /\ array_nodes'[n].right \in C
    BY <1>14, <1>16
  <2> QED
    BY <2>1, <1>1, <1>2, <1>4, <1>5, <1>14, <1>15, AcyclicRelink
<1>23. DataKept(Used \ {i})
  <2>1. \A n \in Used \ {i} : EraseIndex(i)[n].data = array_nodes[n].data
    BY <1>1, <1>2, EraseFacts
  <2>2. /\ array_nodes'[child].data = EraseIndex(i)[child].data
        /\ array_nodes'[p].data = EraseIndex(i)[p].data
    BY <1>9, <1>10 DEF Node
  <2> QED
    BY <1>8, <1>9, <2>1, <2>2 DEF DataKept
<1>24. ASSUME ~ damaged' PROVE Spliced(i, child)
  <2>1. array_nodes[p].right # i /\ array_nodes[p].left = i
    BY <1>2, <1>5, <1>24 DEF DeleteWithLeft, Here
  <2>2. \A n \in Used \ {i} : array_nodes[n].right # i
    BY <1>17, <2>1
  <2>3. \A n \in Used \ {i} : array_nodes[n].left = i <=> n = p
    BY <1>17, <2>1
  <2> QED
    BY <1>14, <1>16, <2>2, <2>3 DEF Spliced
<1>25. Relinked(i, child)
  BY <1>14, <1>16 DEF Relinked
<1> QED
  BY <1>14, <1>21, <1>22, <1>23, <1>24, <1>25 DEF IInv
----------------------------------------------------------------------------
(* Additions                                                               *)

LEMMA IncreaseCapacityStep ==
  ASSUME IInv, IncreaseCapacity
  PROVE  /\ IInv' /\ Used' = Used
         /\ \A n \in Used : array_nodes'[n] = array_nodes[n]
<1> DEFINE n == number_increase_capacity
<1>1. TypeOK /\ FreeListSound /\ LinksSound /\ Acyclic /\ CallSound /\ At("grow")
  BY DEF IInv, IncreaseCapacity
<1>2. /\ used = capacity /\ live /\ call.data \in Keys
      /\ n \in Nat \ {0} /\ capacity \in Nat
  BY <1>1 DEF CallSound, At, TypeOK
<1>3. /\ used' = used /\ live' = live /\ root' = root /\ keys' = keys
      /\ damaged' = damaged /\ number_increase_capacity' = n
  BY DEF IncreaseCapacity
<1>4. CASE /\ array_nodes' = FillDefault(array_nodes, capacity, n)
           /\ free_node' = capacity
           /\ chain' = InOrder(capacity, n)
           /\ capacity' = capacity + n
           /\ call' = [call EXCEPT !.step = "create"]
           /\ UNCHANGED ret
  <2>1. /\ Used' = Used
        /\ Links \subseteq Links'
        /\ array_nodes' \in [Indexes' -> Node']
        /\ \A i \in Used : array_nodes'[i] = array_nodes[i]
        /\ chain' \in Seq(Indexes')
        /\ free_node' \in Links'
        /\ FreeListSound'
    BY <1>1, <1>2, <1>3, <1>4, Filled
  <2>2. call \in [step: Steps, data: Keys \cup {NO_VALUE}, index: Links, node: Links]
    BY <1>1 DEF TypeOK
  <2>3. call' \in [step: Steps, data: Keys \cup {NO_VALUE}, index: Links', node: Links']
    BY <1>4, <2>1, <2>2 DEF Steps
  <2>4. capacity' \in Nat
    BY <1>2, <1>4
  <2>5. /\ live' \in BOOLEAN /\ used' \in Nat /\ root' \in Links'
        /\ number_increase_capacity' \in Nat \ {0}
        /\ ret' \in {0, -1} /\ keys' \subseteq Keys /\ damaged' \in BOOLEAN
    BY <1>1, <1>3, <1>4, <2>1 DEF TypeOK
  <2>6. TypeOK'
    BY <2>1, <2>3, <2>4, <2>5 DEF TypeOK
  <2>7. LinksSound'
    BY <1>1, <1>3, <2>1 DEF LinksSound
  <2>8. Acyclic'
    BY <1>1, <2>1 DEF Acyclic
  <2>9. call'.step = "create" /\ call'.data = call.data
    BY <1>4, <2>2
  <2>10. used' < capacity'
    BY <1>2, <1>3, <1>4
  <2>11. CallSound'
    BY <1>2, <1>3, <2>9, <2>10 DEF CallSound, At
  <2> QED
    BY <2>1, <2>6, <2>7, <2>8, <2>11 DEF IInv
<1>5. CASE Return(-1) /\ UNCHANGED <<array_nodes, free_node, chain, capacity>>
  <2>1. UNCHANGED <<store, chain>>
    BY <1>3, <1>5 DEF store
  <2>2. /\ Indexes' = Indexes /\ Links' = Links /\ Node' = Node /\ Used' = Used
        /\ FreeListSound' /\ LinksSound' /\ Acyclic'
    BY <1>1, <2>1, StoreKept
  <2>3. call' = Idle /\ ret' = -1
    BY <1>5 DEF Return
  <2>4. call' \in [step: Steps, data: Keys \cup {NO_VALUE}, index: Links', node: Links']
    BY <2>3 DEF Idle, Steps, Links
  <2>5. TypeOK'
    BY <1>1, <1>3, <2>1, <2>2, <2>3, <2>4 DEF TypeOK, store
  <2>6. CallSound'
    BY <1>2, <1>3, <2>3 DEF CallSound, At, Idle
  <2> QED
    BY <1>5, <2>2, <2>5, <2>6 DEF IInv
<1> QED
  BY <1>4, <1>5 DEF IncreaseCapacity

LEMMA CreateNodeStep ==
  ASSUME IInv, CreateNode
  PROVE  /\ IInv' /\ free_node \notin Used /\ Used' = Used \cup {free_node}
         /\ NO_VALUE \notin Used'
         /\ \A n \in Used : array_nodes'[n] = array_nodes[n]
         /\ array_nodes'[free_node].left = NO_VALUE
         /\ array_nodes'[free_node].right = NO_VALUE
         /\ root = NO_VALUE => array_nodes'[free_node].data = call.data
<1> DEFINE i == free_node
<1>1. TypeOK /\ FreeListSound /\ LinksSound /\ Acyclic /\ CallSound /\ At("create")
  BY DEF IInv, CreateNode
<1>2. /\ used < capacity /\ live /\ call.data \in Keys
      /\ capacity \in Nat /\ used \in Nat
      /\ chain \in Seq(Indexes)
      /\ array_nodes \in [Indexes -> Node]
  BY <1>1 DEF CallSound, At, TypeOK
<1>3. /\ used' = used + 1 /\ free_node' = array_nodes[i].right /\ chain' = Tail(chain)
      /\ live' = live /\ capacity' = capacity /\ damaged' = damaged
      /\ number_increase_capacity' = number_increase_capacity
  BY DEF CreateNode
<1>4. i \in Free /\ i \in Indexes /\ chain # <<>>
  <2>1. Len(chain) \in Nat \ {0}
    BY <1>1, <1>2 DEF FreeListSound
  <2>2. chain # <<>> /\ 1 \in 1..Len(chain) /\ chain[1] = i
    BY <1>1, <2>1 DEF FreeListSound
  <2>3. chain[1] \in Indexes
    BY <1>2, <2>2
  <2> QED
    BY <2>2, <2>3 DEF Free
<1>5. /\ chain' \in Seq(Indexes) /\ Len(chain') = Len(chain) - 1
      /\ \A j \in 1..Len(chain') : chain'[j] = chain[j + 1]
  BY <1>2, <1>3, <1>4, TailFacts
<1>6. /\ \/ array_nodes' = [[array_nodes EXCEPT ![i].right = NO_VALUE]
                              EXCEPT ![i].data = call.data]
         \/ array_nodes' = [array_nodes EXCEPT ![i].right = NO_VALUE]
  BY DEF CreateNode
<1>7. /\ array_nodes' \in [Indexes -> Node]
      /\ \A n \in Indexes \ {i} : array_nodes'[n] = array_nodes[n]
      /\ array_nodes'[i].right = NO_VALUE
      /\ array_nodes'[i].left = array_nodes[i].left
      /\ array_nodes'[i].parent = array_nodes[i].parent
  <2> DEFINE mid == [array_nodes EXCEPT ![i].right = NO_VALUE]
  <2>1. array_nodes[i] \in Node
    BY <1>2, <1>4
  <2>2. /\ mid \in [Indexes -> Node]
        /\ \A n \in Indexes \ {i} : mid[n] = array_nodes[n]
        /\ mid[i] = [array_nodes[i] EXCEPT !.right = NO_VALUE]
    BY <1>2, <1>4 DEF Node, Links
  <2>3. /\ mid[i].right = NO_VALUE
        /\ mid[i].left = array_nodes[i].left
        /\ mid[i].parent = array_nodes[i].parent
        /\ mid[i] \in Node
    BY <2>1, <2>2, <1>4 DEF Node
  <2>4. CASE array_nodes' = mid
    BY <2>2, <2>3, <2>4
  <2>5. CASE array_nodes' = [mid EXCEPT ![i].data = call.data]
    <3> HIDE DEF mid
    <3>1. /\ array_nodes' \in [Indexes -> Node]
          /\ \A n \in Indexes \ {i} : array_nodes'[n] = mid[n]
          /\ array_nodes'[i] = [mid[i] EXCEPT !.data = call.data]
      BY ZenonT(40), <1>2, <1>4, <2>2, <2>5 DEF Node
    <3>2. /\ array_nodes'[i].right = mid[i].right
          /\ array_nodes'[i].left = mid[i].left
          /\ array_nodes'[i].parent = mid[i].parent
      BY <3>1, <2>3 DEF Node
    <3> QED
      BY <3>1, <3>2, <2>2, <2>3
  <2> QED
    BY <1>6, <2>4, <2>5
<1>8. \A n \in Free : n # i => array_nodes'[n] = array_nodes[n]
  BY <1>2, <1>7 DEF Free
<1>9. /\ array_nodes[i].left = NO_VALUE
      /\ array_nodes[i].parent = NO_VALUE
      /\ Used' = Used \cup {i}
      /\ FreeListSound'
      /\ used' \in Nat
      /\ free_node' \in Links'
      /\ chain' \in Seq(Indexes')
  BY <1>1, <1>2, <1>3, <1>5, <1>7, <1>8, Popped
<1>10. Indexes' = Indexes /\ Links' = Links /\ Node' = Node
  BY <1>3 DEF Indexes, Links, Node
<1>11. NO_VALUE \notin Used /\ NO_VALUE \notin Used' /\ i \notin Used /\ Used \subseteq Indexes
  BY <1>2, <1>4, <1>9, IndexFacts DEF Used
<1>12. \A n \in Used : array_nodes'[n] = array_nodes[n]
  BY <1>7, <1>11
<1>13. Acyclic'
  <2>1. array_nodes'[i].left = NO_VALUE /\ array_nodes'[i].right = NO_VALUE
    BY <1>7, <1>9
  <2>2. i \in Used' /\ Used' \subseteq Used \cup {i}
    BY <1>4, <1>9, <1>11
  <2>3. \A n \in Used' \ {i} :
          /\ array_nodes'[n].left \in {array_nodes[n].left, i}
          /\ array_nodes'[n].right \in {array_nodes[n].right, i}
    BY <1>9, <1>12
  <2> QED
    BY <1>1, <1>11, <2>1, <2>2, <2>3, AcyclicLeaf
<1>14. /\ live' \in BOOLEAN /\ capacity' \in Nat
       /\ number_increase_capacity' \in Nat \ {0} /\ damaged' \in BOOLEAN
  BY <1>1, <1>3 DEF TypeOK
<1>15. \A n \in Used' :
         LET l == array_nodes'[n].left
             r == array_nodes'[n].right IN
         /\ l # NO_VALUE => l \in Used' /\ array_nodes'[l].parent = n
         /\ r # NO_VALUE => r \in Used' /\ array_nodes'[r].parent = n
         /\ l = r => l = NO_VALUE
  BY <1>1, <1>7, <1>9, <1>12 DEF LinksSound
<1>16. CASE root = NO_VALUE
  <2>1. /\ root' = i /\ keys' = keys \cup {call.data}
        /\ call' = Idle /\ ret' = 0
    BY <1>16 DEF CreateNode, Return
  <2>2. call' \in [step: Steps, data: Keys \cup {NO_VALUE}, index: Links', node: Links']
    BY <2>1 DEF Idle, Steps, Links
  <2>3. root' \in Links' /\ ret' \in {0, -1} /\ keys' \subseteq Keys
    BY <1>1, <1>2, <1>4, <1>10, <2>1 DEF TypeOK, Links
  <2>4. TypeOK'
    BY <1>7, <1>9, <1>10, <1>14, <2>2, <2>3 DEF TypeOK
  <2>5. LinksSound'
    BY <1>7, <1>9, <1>15, <2>1 DEF LinksSound
  <2>6. CallSound'
    BY <1>2, <1>3, <2>1 DEF CallSound, At, Idle
  <2>7. array_nodes'[i].data = call.data
    <3>1. array_nodes' = [[array_nodes EXCEPT ![i].right = NO_VALUE]
                            EXCEPT ![i].data = call.data]
      BY <1>16 DEF CreateNode
    <3>2. array_nodes'[i] = [[array_nodes[i] EXCEPT !.right = NO_VALUE]
                               EXCEPT !.data = call.data]
      BY <1>2, <1>4, <3>1
    <3>3. array_nodes[i] \in Node
      BY <1>2, <1>4
    <3> QED
      BY <3>2, <3>3 DEF Node
  <2> QED
    BY <1>7, <1>9, <1>11, <1>12, <1>13, <2>4, <2>5, <2>6, <2>7 DEF IInv
<1>17. CASE root # NO_VALUE
  <2>1. /\ root' = root /\ keys' = keys /\ ret' = ret
        /\ call' = [call EXCEPT !.step = "place", !.index = i, !.node = root]
    BY <1>17 DEF CreateNode
  <2>2. call \in [step: Steps, data: Keys \cup {NO_VALUE}, index: Links, node: Links]
    BY <1>1 DEF TypeOK
  <2>3. root \in Used /\ root \in Links /\ array_nodes[root].parent = NO_VALUE
    BY <1>1, <1>17 DEF LinksSound, TypeOK
  <2>4. call' \in [step: Steps, data: Keys \cup {NO_VALUE}, index: Links', node: Links']
    BY <1>4, <1>10, <2>1, <2>2, <2>3 DEF Steps, Links
  <2>5. TypeOK'
    BY <1>1, <1>7, <1>9, <1>10, <1>14, <2>1, <2>4 DEF TypeOK
  <2>6. LinksSound'
    BY <1>9, <1>12, <1>15, <2>1, <2>3 DEF LinksSound
  <2>7. /\ call'.step = "place" /\ call'.index = i /\ call'.node = root
        /\ call'.data = call.data
    BY <2>1, <2>2
  <2>8. Cursor(call.node)'
    BY <1>9, <2>1, <2>3, <2>7 DEF Cursor
  <2>9. CallSound'
    BY <1>2, <1>3, <1>7, <1>9, <1>11, <2>1, <2>3, <2>7, <2>8 DEF CallSound, At
  <2> QED
    BY <1>7, <1>9, <1>11, <1>12, <1>13, <1>17, <2>5, <2>6, <2>9 DEF IInv
<1> QED
  BY <1>16, <1>17

LEMMA PlaceNodeStep ==
  ASSUME IInv, PlaceNode
  PROVE  /\ IInv' /\ Used' = Used /\ call.node \in Used
         /\ call.index \in Used /\ call.index # call.node
         /\ \A n \in Used : /\ array_nodes[n].left # call.index
                            /\ array_nodes[n].right # call.index
         /\ \A n \in Used \ {call.index, call.node} : array_nodes'[n] = array_nodes[n]
         /\ array_nodes'[call.index].left = NO_VALUE
         /\ array_nodes'[call.index].right = NO_VALUE
         /\ array_nodes'[call.index].data = call.data
         /\ array_nodes'[call.node].data = array_nodes[call.node].data
         /\ IF call.data < array_nodes[call.node].data
            THEN /\ array_nodes[call.node].left = NO_VALUE
                 /\ array_nodes'[call.node].left = call.index
                 /\ array_nodes'[call.node].right = array_nodes[call.node].right
            ELSE /\ array_nodes[call.node].right = NO_VALUE
                 /\ array_nodes'[call.node].right = call.index
                 /\ array_nodes'[call.node].left = array_nodes[call.node].left
<1> DEFINE i == call.index
           p == call.node
<1>1. TypeOK /\ FreeListSound /\ LinksSound /\ Acyclic /\ CallSound /\ At("place")
  BY DEF IInv, PlaceNode
<1>2. /\ live /\ call.data \in Keys /\ i \in Used /\ i # root
      /\ array_nodes[i].parent = NO_VALUE
      /\ array_nodes[i].left = NO_VALUE
      /\ array_nodes[i].right = NO_VALUE
      /\ Cursor(p) /\ p \in Used
  BY <1>1 DEF CallSound, At, Cursor
<1>3. /\ array_nodes \in [Indexes -> Node] /\ capacity \in Nat
      /\ Used \subseteq Indexes /\ Free \subseteq Indexes /\ Free \cap Used = {}
      /\ NO_VALUE \notin Used
  BY <1>1, IndexFacts DEF TypeOK, Used, Free
<1>4. i # p
  BY <1>2, <1>3 DEF Cursor, Referred
<1>5. /\ live' = live /\ capacity' = capacity /\ used' = used /\ root' = root
      /\ free_node' = free_node /\ chain' = chain /\ damaged' = damaged
      /\ number_increase_capacity' = number_increase_capacity
      /\ keys' = keys \cup {call.data} /\ call' = Idle /\ ret' = 0
  BY DEF PlaceNode, Return
<1>6. /\ Indexes' = Indexes /\ Links' = Links /\ Node' = Node
      /\ Free' = Free /\ Used' = Used
  BY <1>5 DEF Indexes, Links, Node, Free, Used
<1>7. /\ array_nodes' \in [Indexes -> Node]
      /\ \A n \in Indexes \ {i, p} : array_nodes'[n] = array_nodes[n]
      /\ array_nodes'[i].parent = p
      /\ array_nodes'[i].left = NO_VALUE /\ array_nodes'[i].right = NO_VALUE
      /\ array_nodes'[p].parent = array_nodes[p].parent
      /\ array_nodes'[i].data = call.data
      /\ array_nodes'[p].data = array_nodes[p].data
      /\ IF call.data < array_nodes[p].data
         THEN /\ array_nodes[p].left = NO_VALUE /\ array_nodes'[p].left = i
              /\ array_nodes'[p].right = array_nodes[p].right
         ELSE /\ array_nodes[p].right = NO_VALUE /\ array_nodes'[p].right = i
              /\ array_nodes'[p].left = array_nodes[p].left
  <2>1. /\ array_nodes[i] \in Node /\ array_nodes[p] \in Node
        /\ i \in Links /\ p \in Links /\ i \in Indexes /\ p \in Indexes
    BY <1>2, <1>3 DEF Links
  <2> DEFINE leaf == [array_nodes[i] EXCEPT !.parent = p, !.data = call.data]
  <2>2. /\ leaf \in Node /\ leaf.parent = p /\ leaf.data = call.data
        /\ leaf.left = NO_VALUE /\ leaf.right = NO_VALUE
    BY <1>2, <2>1 DEF Node
  <2>3. CASE call.data < Here.data
    <3>1. array_nodes' = [array_nodes EXCEPT ![p].left = i, ![i].parent = p,
                                             ![i].data = call.data]
      BY <2>3 DEF PlaceNode
    <3>2. array_nodes[p].left = NO_VALUE
      BY <2>3 DEF PlaceNode, Towards, Here
    <3> DEFINE mid == [array_nodes EXCEPT ![p].left = i]
    <3>3. /\ mid \in [Indexes -> Node]
          /\ \A n \in Indexes \ {p} : mid[n] = array_nodes[n]
          /\ mid[p] = [array_nodes[p] EXCEPT !.left = i]
      BY <1>3, <2>1 DEF Node
    <3>4. array_nodes' = [mid EXCEPT ![i].parent = p, ![i].data = call.data]
      BY <3>1
    <3> HIDE DEF mid
    <3>5. /\ \A n \in Indexes \ {i} : array_nodes'[n] = mid[n]
          /\ array_nodes'[i] = leaf
          /\ DOMAIN array_nodes' = Indexes
          /\ array_nodes' = [n \in Indexes |-> array_nodes'[n]]
      BY <1>4, <2>1, <3>3, <3>4
    <3> HIDE DEF leaf
    <3>6. array_nodes' \in [Indexes -> Node]
      BY <2>1, <2>2, <3>3, <3>5
    <3>7. array_nodes'[p] = [array_nodes[p] EXCEPT !.left = i]
      BY <1>4, <2>1, <3>3, <3>5
    <3>8. /\ array_nodes'[p].left = i
          /\ array_nodes'[p].data = array_nodes[p].data
          /\ array_nodes'[p].right = array_nodes[p].right
          /\ array_nodes'[p].parent = array_nodes[p].parent
      BY <2>1, <3>7 DEF Node
    <3> QED
      BY <2>2, <2>3, <3>2, <3>3, <3>5, <3>6, <3>8 DEF Here
  <2>4. CASE ~ (call.data < Here.data)
    <3>1. array_nodes' = [array_nodes EXCEPT ![p].right = i, ![i].parent = p,
                                             ![i].data = call.data]
      BY <2>4 DEF PlaceNode
    <3>2. array_nodes[p].right = NO_VALUE
      BY <2>4 DEF PlaceNode, Towards, Here
    <3> DEFINE mid == [array_nodes EXCEPT ![p].right = i]
    <3>3. /\ mid \in [Indexes -> Node]
          /\ \A n \in Indexes \ {p} : mid[n] = array_nodes[n]
          /\ mid[p] = [array_nodes[p] EXCEPT !.right = i]
      BY <1>3, <2>1 DEF Node
    <3>4. array_nodes' = [mid EXCEPT ![i].parent = p, ![i].data = call.data]
      BY <3>1
    <3> HIDE DEF mid
    <3>5. /\ \A n \in Indexes \ {i} : array_nodes'[n] = mid[n]
          /\ array_nodes'[i] = leaf
          /\ DOMAIN array_nodes' = Indexes
          /\ array_nodes' = [n \in Indexes |-> array_nodes'[n]]
      BY <1>4, <2>1, <3>3, <3>4
    <3> HIDE DEF leaf
    <3>6. array_nodes' \in [Indexes -> Node]
      BY <2>1, <2>2, <3>3, <3>5
    <3>7. array_nodes'[p] = [array_nodes[p] EXCEPT !.right = i]
      BY <1>4, <2>1, <3>3, <3>5
    <3>8. /\ array_nodes'[p].right = i
          /\ array_nodes'[p].data = array_nodes[p].data
          /\ array_nodes'[p].left = array_nodes[p].left
          /\ array_nodes'[p].parent = array_nodes[p].parent
      BY <2>1, <3>7 DEF Node
    <3> QED
      BY <2>2, <2>4, <3>2, <3>3, <3>5, <3>6, <3>8 DEF Here
  <2> QED
    BY <2>3, <2>4
<1>8. call' \in [step: Steps, data: Keys \cup {NO_VALUE}, index: Links', node: Links']
  BY <1>5 DEF Idle, Steps, Links
<1>9. TypeOK'
  BY <1>1, <1>2, <1>5, <1>6, <1>7, <1>8 DEF TypeOK
<1>10. FreeListSound'
  <2>1. \A n \in Free : array_nodes'[n] = array_nodes[n]
    BY <1>2, <1>3, <1>7
  <2>2. \A j \in 1..Len(chain) :
          array_nodes'[chain[j]] =
            Blank(IF j = Len(chain) THEN NO_VALUE ELSE chain[j + 1])
    BY <1>1, <2>1 DEF FreeListSound, Free
  <2> QED
    BY <1>1, <1>5, <1>6, <2>2 DEF FreeListSound
<1>11. \A n \in Used : array_nodes[n].left # i /\ array_nodes[n].right # i
  BY <1>1, <1>2, <1>3 DEF LinksSound
<1>12. ASSUME NEW n \in Used,
              NEW m \in {array_nodes'[n].left, array_nodes'[n].right}, m # NO_VALUE
       PROVE  m \in Used /\ array_nodes'[m].parent = n
  <2>1. CASE m = i
    BY <2>1, <1>2, <1>3, <1>7, <1>11, <1>12
  <2>2. CASE m # i
    <3>1. n # i /\ m \in {array_nodes[n].left, array_nodes[n].right}
      BY <2>2, <1>3, <1>7, <1>12
    <3>2. m \in Used /\ array_nodes[m].parent = n
      BY <1>1, <1>12, <3>1 DEF LinksSound
    <3> QED
      BY <3>2, <2>2, <1>3, <1>7
  <2> QED
    BY <2>1, <2>2
<1>13. ASSUME NEW n \in Used, array_nodes'[n].left = array_nodes'[n].right
       PROVE  array_nodes'[n].left = NO_VALUE
  <2>1. n # p
    BY <1>2, <1>7, <1>11, <1>13
  <2>2. CASE n = i
    BY <2>2, <1>7
  <2>3. CASE n # i
    BY <2>1, <2>3, <1>1, <1>3, <1>7, <1>13 DEF LinksSound
  <2> QED
    BY <2>2, <2>3
<1>14. root # NO_VALUE => root \in Used /\ array_nodes'[root].parent = NO_VALUE
  BY <1>1, <1>2, <1>3, <1>7 DEF LinksSound
<1>15. LinksSound'
  BY <1>5, <1>6, <1>12, <1>13, <1>14 DEF LinksSound
<1>16. Acyclic'
  <2>1. NO_VALUE \notin Used' /\ i \in Used' /\ Used' \subseteq Used \cup {i}
    BY <1>2, <1>3, <1>6
  <2>2. \A n \in Used' \ {i} :
          /\ array_nodes'[n].left \in {array_nodes[n].left, i}
          /\ array_nodes'[n].right \in {array_nodes[n].right, i}
    <3>1. \A n \in Used' \ {i, p} : array_nodes'[n] = array_nodes[n]
      BY <1>3, <1>6, <1>7
    <3> QED
      BY <3>1, <1>7
  <2> QED
    BY <1>1, <1>3, <1>7, <2>1, <2>2, AcyclicLeaf
<1>17. CallSound'
  BY <1>2, <1>5 DEF CallSound, At, Idle
<1> QED
  BY <1>2, <1>3, <1>4, <1>6, <1>7, <1>9, <1>10, <1>11, <1>15, <1>16, <1>17 DEF IInv
----------------------------------------------------------------------------
(* Steps that leave the array alone, and the life of a tree                *)

\* Such a step keeps everything but for what it makes of call and ret.
LEMMA CallStep ==
  ASSUME IInv, UNCHANGED <<live, store, history>>,
         number_increase_capacity' \in Nat \ {0}, ret' \in {0, -1},
         call' \in [step: Steps, data: Keys \cup {NO_VALUE}, index: Links, node: Links],
         CallSound'
  PROVE  IInv'
<1>1. TypeOK /\ FreeListSound /\ LinksSound /\ Acyclic
  BY DEF IInv
<1>2. UNCHANGED <<store, chain>>
  BY DEF history
<1>3. /\ Indexes' = Indexes /\ Links' = Links /\ Node' = Node
      /\ FreeListSound' /\ LinksSound' /\ Acyclic'
  BY <1>1, <1>2, StoreKept
<1>4. TypeOK'
  BY <1>1, <1>2, <1>3 DEF TypeOK, store, history
<1> QED
  BY <1>3, <1>4 DEF IInv

\* A call ends without a change to the tree.
LEMMA ReturnStep ==
  ASSUME IInv, UNCHANGED <<live, store, history>>, live,
         number_increase_capacity' \in Nat \ {0},
         NEW v \in {0, -1}, Return(v)
  PROVE  IInv'
<1>1. call' = Idle /\ ret' = v /\ live' = live
  BY DEF Return
<1>2. call' \in [step: Steps, data: Keys \cup {NO_VALUE}, index: Links, node: Links]
  BY <1>1 DEF Idle, Steps, Links
<1>3. CallSound'
  BY <1>1 DEF CallSound, At, Idle
<1> QED
  BY <1>1, <1>2, <1>3, CallStep

\* A call in progress, or about to begin, takes a step that changes only call, or
\* forgets what the call before has returned.
LEMMA CursorStep ==
  ASSUME IInv, live, NEW step \in Steps \ {"idle"}, NEW k \in Keys,
         NEW index \in Links, NEW node \in Links,
         UNCHANGED <<live, store, number_increase_capacity, history>>,
         ret' \in {0, ret},
         call' = [step |-> step, data |-> k, index |-> index, node |-> node],
         step = "grow" => used = capacity,
         step = "create" => used < capacity,
         step = "place" =>
           /\ index \in Used /\ index # root
           /\ array_nodes[index].parent = NO_VALUE
           /\ array_nodes[index].left = NO_VALUE
           /\ array_nodes[index].right = NO_VALUE
           /\ Cursor(node),
         step = "search" => Cursor(node),
         step = "delete" => Cursor(node) /\ index = node,
         step = "min" =>
           /\ index \in Used /\ array_nodes[index].left # NO_VALUE
           /\ node \in Used /\ Referred(node)
  PROVE  IInv'
<1>1. TypeOK /\ FreeListSound /\ LinksSound /\ Acyclic
  BY DEF IInv
<1>2. /\ live' = live /\ number_increase_capacity' = number_increase_capacity
      /\ ret' \in {0, ret} /\ UNCHANGED <<live, store, history>>
      /\ UNCHANGED <<store, chain>>
  BY DEF history
<1>3. Used' = Used /\ \A n : Referred(n)' = Referred(n) /\ Cursor(n)' = Cursor(n)
  BY <1>1, <1>2, StoreKept
<1>4. /\ array_nodes' = array_nodes /\ capacity' = capacity /\ used' = used
      /\ root' = root
  BY <1>2 DEF store
<1>5. /\ call'.step = step /\ call'.data = k /\ call'.index = index
      /\ call'.node = node
  OBVIOUS
<1>6. CallSound'
  <2>1. step = "place" => Cursor(call.node)'
    BY <1>3, <1>5 DEF Cursor, Referred
  <2>2. step = "search" \/ step = "delete" => Cursor(call.node)'
    BY <1>3, <1>5 DEF Cursor, Referred
  <2>3. step = "min" => Referred(call.node)'
    BY <1>3, <1>5 DEF Referred
  <2> QED
    BY <1>2, <1>3, <1>4, <1>5, <2>1, <2>2, <2>3 DEF CallSound, At
<1>7. call' \in [step: Steps, data: Keys \cup {NO_VALUE}, index: Links, node: Links]
  OBVIOUS
<1>8. number_increase_capacity' \in Nat \ {0} /\ ret' \in {0, -1}
  BY <1>1, <1>2 DEF TypeOK
<1> QED
  BY <1>2, <1>6, <1>7, <1>8, CallStep

\* A search that goes on stands on a child of where it stood.
LEMMA ChildIsCursor ==
  ASSUME TypeOK, LinksSound, NEW n \in Used,
         NEW m \in {array_nodes[n].left, array_nodes[n].right}, m # NO_VALUE
  PROVE  m \in Links /\ m \in Used /\ Referred(m) /\ Cursor(m)
<1>1. m \in Used /\ array_nodes[m].parent = n
  BY DEF LinksSound
<1> QED
  BY <1>1 DEF Referred, Cursor, Used, Links

\* The fields of a call in progress.
LEMMA CallFacts ==
  ASSUME IInv, ~ At("idle")
  PROVE  /\ TypeOK /\ LinksSound /\ CallSound
         /\ live /\ call.data \in Keys /\ call.index \in Links /\ call.node \in Links
         /\ call = [step |-> call.step, data |-> call.data,
                    index |-> call.index, node |-> call.node]
         /\ number_increase_capacity \in Nat \ {0}
<1>1. call \in [step: Steps, data: Keys \cup {NO_VALUE}, index: Links, node: Links]
  BY DEF IInv, TypeOK
<1> QED
  BY <1>1 DEF IInv, TypeOK, CallSound, At

LEMMA DescendStep ==
  ASSUME IInv, NEW step \in {"place", "search"}, Descend(step)
  PROVE  IInv'
<1> DEFINE m == Towards(call.data, call.node)
<1>1. ~ At("idle") /\ call.step = step
  BY DEF Descend, At
<1>2. /\ TypeOK /\ LinksSound /\ CallSound
      /\ live /\ call.data \in Keys /\ call.index \in Links
      /\ call = [step |-> step, data |-> call.data,
                 index |-> call.index, node |-> call.node]
  BY <1>1, CallFacts
<1>3. call.node \in Used
  BY <1>1, <1>2 DEF CallSound, At, Cursor
<1>4. m \in {array_nodes[call.node].left, array_nodes[call.node].right} /\ m # NO_VALUE
  BY DEF Descend, Towards
<1>5. m \in Links /\ Cursor(m)
  BY <1>2, <1>3, <1>4, ChildIsCursor
<1>6. call' = [step |-> step, data |-> call.data, index |-> call.index, node |-> m]
  BY <1>2 DEF Descend, MoveTo
<1>7. UNCHANGED <<live, store, number_increase_capacity, ret, history>>
  BY DEF Descend, MoveTo
<1>8. step \in Steps \ {"idle"}
  BY DEF Steps
<1>9. step = "place" =>
        /\ call.index \in Used /\ call.index # root
        /\ array_nodes[call.index].parent = NO_VALUE
        /\ array_nodes[call.index].left = NO_VALUE
        /\ array_nodes[call.index].right = NO_VALUE
  BY <1>1, <1>2 DEF CallSound, At
<1> HIDE DEF m
<1> QED
  BY <1>2, <1>5, <1>6, <1>7, <1>8, <1>9, CursorStep

LEMMA HitStep ==
  ASSUME IInv, Hit
  PROVE  IInv'
<1>1. ~ At("idle") /\ call.step = "search"
  BY DEF Hit, At
<1>2. /\ CallSound /\ live /\ call.data \in Keys /\ call.node \in Links
      /\ call = [step |-> "search", data |-> call.data,
                 index |-> call.index, node |-> call.node]
  BY <1>1, CallFacts
<1>3. Cursor(call.node)
  BY <1>1, <1>2 DEF CallSound, At
<1>4. call' = [step |-> "delete", data |-> call.data,
               index |-> call.node, node |-> call.node]
  BY <1>2 DEF Hit
<1>5. UNCHANGED <<live, store, number_increase_capacity, ret, history>>
  BY DEF Hit
<1>6. "delete" \in Steps \ {"idle"}
  BY DEF Steps
<1> QED
  BY <1>2, <1>3, <1>4, <1>5, <1>6, CursorStep

LEMMA ToMinStep ==
  ASSUME IInv, DeleteWithBoth \/ DescendToMin
  PROVE  IInv'
<1> DEFINE m == IF At("delete") THEN Here.right ELSE Here.left
<1>1. ~ At("idle") /\ call.step \in {"delete", "min"}
  BY DEF DeleteWithBoth, DescendToMin, At
<1>2. /\ TypeOK /\ LinksSound /\ CallSound
      /\ live /\ call.data \in Keys /\ call.index \in Links
      /\ call = [step |-> call.step, data |-> call.data,
                 index |-> call.index, node |-> call.node]
  BY <1>1, CallFacts
<1>3. /\ call.node \in Used /\ call.index \in Used
      /\ array_nodes[call.index].left # NO_VALUE
  BY <1>1, <1>2 DEF CallSound, At, Cursor, DeleteWithBoth, DescendToMin, Here
<1>4. m \in {array_nodes[call.node].left, array_nodes[call.node].right} /\ m # NO_VALUE
  BY <1>1 DEF DeleteWithBoth, DescendToMin, At, Here
<1>5. m \in Links /\ m \in Used /\ Referred(m)
  BY <1>2, <1>3, <1>4, ChildIsCursor
<1>6. call' = [step |-> "min", data |-> call.data, index |-> call.index, node |-> m]
  BY <1>2 DEF DeleteWithBoth, DescendToMin, MoveTo, At
<1>7. UNCHANGED <<live, store, number_increase_capacity, ret, history>>
  BY DEF DeleteWithBoth, DescendToMin, MoveTo
<1>8. "min" \in Steps \ {"idle"}
  BY DEF Steps
<1> HIDE DEF m
<1> QED
  BY <1>2, <1>3, <1>5, <1>6, <1>7, <1>8, CursorStep

LEMMA AddInTreeStep ==
  ASSUME IInv, NEW k \in Keys, AddInTree(k)
  PROVE  IInv'
<1> DEFINE step == IF capacity = used THEN "grow" ELSE "create"
<1>1. live /\ UNCHANGED <<live, store, number_increase_capacity, history>> /\ ret' = 0
  BY DEF AddInTree, Begin
<1>2. call' = [step |-> step, data |-> k, index |-> NO_VALUE, node |-> NO_VALUE]
  BY DEF AddInTree, Begin, Idle
<1>3. step \in Steps \ {"idle"} /\ NO_VALUE \in Links
  BY DEF Steps, Links
<1>4. step = "create" => used < capacity
  <2>1. used \in Nat /\ capacity \in Nat /\ chain \in Seq(Indexes)
    BY DEF IInv, TypeOK
  <2>2. used + Len(chain) = capacity /\ Len(chain) \in Nat
    BY <2>1 DEF IInv, FreeListSound
  <2> QED
    BY <2>1, <2>2
<1>5. step = "grow" => used = capacity
  OBVIOUS
<1>6. step \in {"grow", "create"}
  OBVIOUS
<1> HIDE DEF step
<1> QED
  BY <1>1, <1>2, <1>3, <1>4, <1>5, <1>6, CursorStep

LEMMA DelInTreeByDataStep ==
  ASSUME IInv, NEW k \in Keys, DelInTreeByData(k)
  PROVE  IInv'
<1>1. live /\ UNCHANGED <<live, store, number_increase_capacity, history>>
  BY DEF DelInTreeByData
<1>2. CASE root = NO_VALUE
  <2>1. Return(-1)
    BY <1>2 DEF DelInTreeByData
  <2>2. number_increase_capacity' \in Nat \ {0} /\ -1 \in {0, -1}
    BY <1>1 DEF IInv, TypeOK
  <2> QED
    BY <1>1, <2>1, <2>2, ReturnStep
<1>3. CASE root # NO_VALUE
  <2>1. ret' = 0 /\ call' = [step |-> "search", data |-> k,
                             index |-> NO_VALUE, node |-> root]
    BY <1>3 DEF DelInTreeByData, Idle
  <2>2. Cursor(root) /\ root \in Links /\ NO_VALUE \in Links
    BY <1>3 DEF IInv, LinksSound, Cursor, TypeOK, Links
  <2>3. "search" \in Steps \ {"idle"}
    BY DEF Steps
  <2> QED
    BY <1>1, <2>1, <2>2, <2>3, CursorStep
<1> QED
  BY <1>2, <1>3

LEMMA MissStep ==
  ASSUME IInv, Miss \/ RefuseDuplicate
  PROVE  IInv'
<1>1. /\ Return(-1) /\ UNCHANGED <<live, store, number_increase_capacity, history>>
      /\ ~ At("idle")
  BY DEF Miss, RefuseDuplicate, At
<1>2. live /\ number_increase_capacity' \in Nat \ {0} /\ -1 \in {0, -1}
  BY <1>1, CallFacts
<1> QED
  BY <1>1, <1>2, ReturnStep

LEMMA ChangeNumberIncreaseStep ==
  ASSUME IInv, NEW n \in Increases, ChangeNumberIncrease(n)
  PROVE  IInv'
<1>1. live /\ UNCHANGED <<live, store, history>>
  BY DEF ChangeNumberIncrease
<1>2. n \in Int
  BY CapacityAssumption
<1>3. /\ number_increase_capacity' \in Nat \ {0}
      /\ \E v \in {0, -1} : Return(v)
  BY <1>2 DEF ChangeNumberIncrease, IInv, TypeOK
<1> QED
  BY <1>1, <1>3, ReturnStep

\* An empty array, and no tree.
EmptyTree ==
  /\ capacity = 0 /\ used = 0 /\ root = NO_VALUE /\ free_node = NO_VALUE
  /\ chain = <<>> /\ array_nodes = NoNodes
  /\ call = Idle /\ ret \in {0, -1} /\ keys = {} /\ damaged = FALSE /\ live = FALSE
  /\ number_increase_capacity \in Nat \ {0}

LEMMA Empty == EmptyTree => IInv
<1> SUFFICES ASSUME EmptyTree PROVE IInv
  OBVIOUS
<1>1. Indexes = {} /\ Used = {} /\ Links = {NO_VALUE}
  BY DEF Indexes, Used, Links, EmptyTree
<1>2. array_nodes \in [Indexes -> Node]
  BY <1>1 DEF NoNodes, EmptyTree
<1>3. call \in [step: Steps, data: Keys \cup {NO_VALUE}, index: Links, node: Links]
  BY <1>1 DEF Idle, Steps, EmptyTree
<1>4. chain \in Seq(Indexes) /\ Len(chain) = 0
  BY DEF EmptyTree
<1>5. TypeOK
  BY <1>1, <1>2, <1>3, <1>4 DEF TypeOK, EmptyTree
<1>6. FreeListSound
  BY <1>1, <1>4, FS_EmptySet DEF FreeListSound, EmptyTree
<1>7. LinksSound /\ Acyclic
  BY <1>1 DEF LinksSound, Acyclic, EmptyTree
<1>8. CallSound
  BY DEF CallSound, At, Idle, EmptyTree
<1> QED
  BY <1>5, <1>6, <1>7, <1>8 DEF IInv

LEMMA DelTreeStep ==
  ASSUME IInv, DelTree
  PROVE  IInv'
<1>1. number_increase_capacity \in Nat \ {0}
  BY DEF IInv, TypeOK
<1>2. EmptyTree'
  BY <1>1 DEF EmptyTree, DelTree, Return
<1>3. EmptyTree' => IInv'
  BY Empty, PTL
<1> QED
  BY <1>2, <1>3

LEMMA CreateTreeStep ==
  ASSUME IInv, CreateTree
  PROVE  IInv'
<1>1. TypeOK /\ FreeListSound /\ LinksSound /\ Acyclic /\ CallSound
  BY DEF IInv
<1>2. /\ ~ live /\ capacity = 0 /\ root = NO_VALUE /\ call.step = "idle"
      /\ call' = call /\ ret' = ret /\ used' = 0 /\ root' = NO_VALUE
      /\ keys' = {} /\ damaged' = FALSE
      /\ number_increase_capacity' = DefaultIncrease
  BY <1>1 DEF CreateTree, CallSound, At
<1>3. used = 0
  <2>1. used \in Nat /\ Len(chain) \in Nat
    BY <1>1 DEF TypeOK
  <2> QED
    BY <2>1, <1>1, <1>2 DEF FreeListSound
<1>4. /\ call \in [step: Steps, data: Keys \cup {NO_VALUE}, index: Links, node: Links]
      /\ ret' \in {0, -1} /\ damaged' \in BOOLEAN /\ keys' \subseteq Keys
      /\ number_increase_capacity' \in Nat \ {0} /\ used' \in Nat
  BY <1>1, <1>2, CapacityAssumption DEF TypeOK
<1>5. Used = {}
  BY <1>2 DEF Used, Indexes
<1>6. CASE /\ live' = TRUE
           /\ array_nodes' = FillDefault(array_nodes, 0, DefaultCapacity)
           /\ capacity' = DefaultCapacity
           /\ free_node' = 0
           /\ chain' = InOrder(0, DefaultCapacity)
  <2>1. capacity' = capacity + DefaultCapacity /\ DefaultCapacity \in Nat \ {0}
    BY <1>2, <1>6, CapacityAssumption
  <2>2. /\ array_nodes' = FillDefault(array_nodes, capacity, DefaultCapacity)
        /\ chain' = InOrder(capacity, DefaultCapacity)
        /\ free_node' = capacity /\ used' = used /\ used = capacity
    BY <1>2, <1>3, <1>6
  <2>3. /\ Used' = Used
        /\ Links \subseteq Links'
        /\ array_nodes' \in [Indexes' -> Node']
        /\ chain' \in Seq(Indexes')
        /\ free_node' \in Links'
        /\ FreeListSound'
    BY <1>1, <2>1, <2>2, Filled
  <2>4. call' \in [step: Steps, data: Keys \cup {NO_VALUE}, index: Links', node: Links']
    BY <1>2, <1>4, <2>3
  <2>5. TypeOK'
    <3>1. root' \in Links' /\ live' \in BOOLEAN /\ capacity' \in Nat
      BY <1>2, <1>6, CapacityAssumption DEF Links
    <3> QED
      BY <1>4, <2>3, <2>4, <3>1 DEF TypeOK
  <2>6. LinksSound' /\ Acyclic'
    BY <1>2, <1>5, <2>3 DEF LinksSound, Acyclic
  <2>7. CallSound'
    BY <1>2, <1>6 DEF CallSound, At
  <2> QED
    BY <2>3, <2>5, <2>6, <2>7 DEF IInv
<1>7. CASE UNCHANGED <<live, array_nodes, capacity, free_node, chain>>
  <2>1. UNCHANGED <<store, chain>>
    BY <1>2, <1>3, <1>7 DEF store
  <2>2. /\ Indexes' = Indexes /\ Links' = Links /\ Node' = Node
        /\ FreeListSound' /\ LinksSound' /\ Acyclic'
    BY <1>1, <2>1, StoreKept
  <2>3. TypeOK'
    BY <1>1, <1>2, <1>3, <1>4, <1>7, <2>2 DEF TypeOK
  <2>4. CallSound'
    BY <1>2, <1>7 DEF CallSound, At
  <2> QED
    BY <2>2, <2>3, <2>4 DEF IInv
<1> QED
  BY <1>6, <1>7 DEF CreateTree

----------------------------------------------------------------------------
(* The theorems                                                            *)

LEMMA InitHolds == Init => IInv
<1> SUFFICES ASSUME Init PROVE IInv
  OBVIOUS
<1>1. EmptyTree
  BY CapacityAssumption DEF Init, EmptyTree
<1> QED
  BY <1>1, Empty

LEMMA NextKeeps == IInv /\ [Next]_vars => IInv'
<1> SUFFICES ASSUME IInv, [Next]_vars PROVE IInv'
  OBVIOUS
<1>1. CASE Caller
  BY <1>1, CreateTreeStep, DelTreeStep, ChangeNumberIncreaseStep, AddInTreeStep,
     DelInTreeByDataStep DEF Caller
<1>2. CASE IncreaseCapacity \/ CreateNode \/ PlaceNode \/ RefuseDuplicate
  BY <1>2, IncreaseCapacityStep, CreateNodeStep, PlaceNodeStep, MissStep
<1>3. CASE Descend("place") \/ Descend("search") \/ Miss \/ Hit
  BY <1>3, DescendStep, MissStep, HitStep
<1>4. CASE \/ DeleteLeaf \/ DeleteRoot \/ DeleteWithRight \/ DeleteWithLeft
           \/ DeleteWithBoth \/ DescendToMin \/ EraseMin
  BY <1>4, DeleteLeafStep, DeleteRootStep, DeleteWithRightStep, DeleteWithLeftStep,
     ToMinStep, EraseMinStep
<1>5. CASE UNCHANGED vars
  <2>1. /\ UNCHANGED <<live, store, history>> /\ call' = call /\ ret' = ret
        /\ number_increase_capacity' = number_increase_capacity
        /\ UNCHANGED <<store, chain>>
    BY <1>5 DEF vars, history
  <2>2. /\ Used' = Used
        /\ \A n : Referred(n)' = Referred(n) /\ Cursor(n)' = Cursor(n)
    BY <2>1, StoreKept DEF IInv
  <2>3. CallSound'
    <3>1. CallSound
      BY DEF IInv
    <3>2. /\ array_nodes' = array_nodes /\ capacity' = capacity /\ used' = used
          /\ root' = root /\ live' = live
      BY <2>1 DEF store
    <3>3. Cursor(call.node)' = Cursor(call.node) /\ Referred(call.node)' = Referred(call.node)
      BY <2>1, <2>2, <3>2 DEF Cursor, Referred
    <3> QED
      BY <2>1, <2>2, <3>1, <3>2, <3>3 DEF CallSound, At
  <2>4. /\ number_increase_capacity' \in Nat \ {0} /\ ret' \in {0, -1}
        /\ call' \in [step: Steps, data: Keys \cup {NO_VALUE}, index: Links, node: Links]
    BY <2>1 DEF IInv, TypeOK
  <2> QED
    BY <2>1, <2>3, <2>4, CallStep
<1> QED
  BY <1>1, <1>2, <1>3, <1>4, <1>5 DEF Next, Library

\* The inductive invariant holds in every state of every behaviour of tree.c.
THEOREM Invariance == Spec => []IInv
<1> QED
  BY InitHolds, NextKeeps, PTL DEF Spec

\* Every link that tree.c follows or stores is an index of its array or
\* NO_VALUE, whatever calls its caller makes and whatever allocations fail.
THEOREM TypeCorrect == Spec => []TypeOK
<1>1. IInv => TypeOK
  BY DEF IInv
<1> QED
  BY <1>1, Invariance, PTL

\* tree.c:260: the free list is what its comment says, no node is both free and
\* in use, and createNode always finds the node that it takes.
THEOREM FreeList == Spec => []FreeListSound
<1>1. IInv => FreeListSound
  BY DEF IInv
<1> QED
  BY <1>1, Invariance, PTL

\* The links from nodes in use lead to nodes in use and back, so neither a
\* search nor a walk from the root meets an erased node.
THEOREM Linked == Spec => []LinksSound
<1>1. IInv => LinksSound
  BY DEF IInv
<1> QED
  BY <1>1, Invariance, PTL

\* The links never form a cycle, also after deletions have moved subtrees to
\* the wrong side: the recursions of tree.c are finite.
THEOREM NoCycle == Spec => []Acyclic
<1>1. IInv => Acyclic
  BY DEF IInv
<1> QED
  BY <1>1, Invariance, PTL

\* A search never stands on a node that eraseIndex could not unlink, and
\* createNode is never called when all nodes are taken.
THEOREM Cursors == Spec => []CallSound
<1>1. IInv => CallSound
  BY DEF IInv
<1> QED
  BY <1>1, Invariance, PTL

----------------------------------------------------------------------------
(* Subtrees                                                                *)

\* A subtree is closed, holds its root and the subtrees of its nodes.
LEMMA BelowSelf ==
  ASSUME NO_VALUE \notin Used, NEW n \in Used PROVE n \in Below(n)
BY DEF Below

\* There is none where a link ends.
LEMMA BelowNothing ==
  Below(NO_VALUE) = {} /\ Below(NO_VALUE)' = {}
<1>1. {} \in SUBSET Used /\ Closed({}) /\ {} \in SUBSET Used' /\ Closed({})'
  BY DEF Closed
<1> QED BY <1>1 DEF Below

LEMMA BelowClosed ==
  ASSUME LinksSound, NEW n, NEW m \in Below(n)
  PROVE  /\ array_nodes[m].left \in Below(n) \cup {NO_VALUE}
         /\ array_nodes[m].right \in Below(n) \cup {NO_VALUE}
<1>1. m \in Used /\ Below(n) \subseteq Used
  BY DEF Below
<1>2. ASSUME NEW c \in {array_nodes[m].left, array_nodes[m].right}, c # NO_VALUE
      PROVE  c \in Below(n)
  <2>1. c \in Used
    BY <1>1, <1>2 DEF LinksSound
  <2>2. ASSUME NEW S \in SUBSET Used, n \in S \cup {NO_VALUE}, Closed(S)
        PROVE  c \in S
    <3>1. m \in S
      BY <2>2 DEF Below
    <3> QED BY <3>1, <2>2, <1>2 DEF Closed
  <2> QED BY <2>1, <2>2 DEF Below
<1> QED BY <1>2

LEMMA BelowLeast ==
  ASSUME NEW n, NEW S \in SUBSET Used, n \in S \cup {NO_VALUE}, Closed(S)
  PROVE  Below(n) \subseteq S
BY DEF Below

LEMMA BelowUsed ==
  ASSUME LinksSound, NEW n
  PROVE  Below(n) \in SUBSET Used /\ Closed(Below(n))
BY BelowClosed DEF Below, Closed

LEMMA BelowBelow ==
  ASSUME LinksSound, NEW n, NEW m \in Below(n)
  PROVE  Below(m) \subseteq Below(n)
BY BelowUsed, BelowLeast

\* A subtree is its root and the subtrees on both sides.
LEMMA BelowSplit ==
  ASSUME LinksSound, NO_VALUE \notin Used, NEW n \in Used
  PROVE  Below(n) = {n} \cup Below(array_nodes[n].left) \cup Below(array_nodes[n].right)
<1> DEFINE l == array_nodes[n].left
           r == array_nodes[n].right
           T == {n} \cup Below(l) \cup Below(r)
<1>1. l # NO_VALUE => l \in Used /\ l \in Below(l)
  BY BelowSelf DEF LinksSound
<1>2. r # NO_VALUE => r \in Used /\ r \in Below(r)
  BY BelowSelf DEF LinksSound
<1>3. T \in SUBSET Used
  BY BelowUsed
<1>4. Closed(T)
  <2> SUFFICES ASSUME NEW m \in T
               PROVE  /\ array_nodes[m].left \in T \cup {NO_VALUE}
                      /\ array_nodes[m].right \in T \cup {NO_VALUE}
    BY DEF Closed
  <2>1. CASE m = n
    BY <2>1, <1>1, <1>2
  <2>2. CASE m \in Below(l)
    BY <2>2, BelowClosed
  <2>3. CASE m \in Below(r)
    BY <2>3, BelowClosed
  <2> QED BY <2>1, <2>2, <2>3
<1>5. Below(n) \subseteq T
  BY <1>3, <1>4, BelowLeast
<1>6. n \in Below(n)
  BY BelowSelf
<1>7. l \in Below(n) \cup {NO_VALUE} /\ r \in Below(n) \cup {NO_VALUE}
  BY <1>6, BelowClosed
<1>8. Below(l) \subseteq Below(n) /\ Below(r) \subseteq Below(n)
  BY <1>7, BelowBelow, BelowNothing
<1> QED BY <1>5, <1>6, <1>8

\* Every node of a subtree but its root is a child of a node of it.
LEMMA BelowParent ==
  ASSUME LinksSound, NO_VALUE \notin Used,
         NEW n \in Used, NEW m \in Below(n), m # n
  PROVE  /\ array_nodes[m].parent \in Below(n)
         /\ m \in {array_nodes[array_nodes[m].parent].left,
                   array_nodes[array_nodes[m].parent].right}
<1> DEFINE S == Below(n) \ {m}
<1>1. Below(n) \in SUBSET Used /\ Closed(Below(n))
  BY BelowUsed
<1>2. n \in Below(n)
  BY BelowSelf
<1>3. PICK q \in S : m \in {array_nodes[q].left, array_nodes[q].right}
  <2> SUFFICES ASSUME \A q \in S : m \notin {array_nodes[q].left, array_nodes[q].right}
               PROVE  FALSE
    OBVIOUS
  <2>1. Closed(S) /\ S \in SUBSET Used /\ n \in S
    BY <1>1, <1>2 DEF Closed
  <2> QED BY <2>1, BelowLeast
<1>4. m # NO_VALUE /\ q \in Used
  BY <1>1, <1>3
<1>5. array_nodes[m].parent = q
  BY <1>3, <1>4 DEF LinksSound
<1> QED BY <1>3, <1>5

\* No node is below its own children.
LEMMA NotBelowItself ==
  ASSUME LinksSound, Acyclic, NO_VALUE \notin Used, NEW n \in Used
  PROVE  n \notin Below(array_nodes[n].left) /\ n \notin Below(array_nodes[n].right)
<1> SUFFICES ASSUME NEW c \in {array_nodes[n].left, array_nodes[n].right}, n \in Below(c)
             PROVE  FALSE
  OBVIOUS
<1> DEFINE S == {m \in Used : n \in Below(m)} \cap Below(n)
<1>1. c \in Used
  BY BelowNothing DEF LinksSound
<1>2. n \in S
  BY BelowSelf
<1>3. PICK m \in S : array_nodes[m].left \notin S /\ array_nodes[m].right \notin S
  BY <1>2 DEF Acyclic
<1>4. /\ array_nodes[m].left \in Below(n) \cup {NO_VALUE}
      /\ array_nodes[m].right \in Below(n) \cup {NO_VALUE}
      /\ Below(n) \subseteq Used
  BY <1>3, BelowClosed, BelowUsed
<1>5. CASE m = n
  BY <1>1, <1>3, <1>4, <1>5
<1>6. CASE m # n
  <2>1. n \in Below(array_nodes[m].left) \/ n \in Below(array_nodes[m].right)
    BY <1>3, <1>6, BelowSplit
  <2> QED BY <2>1, <1>3, <1>4, BelowNothing
<1> QED BY <1>5, <1>6

\* A set that no link of the next state leads out of holds a subtree of that state.
LEMMA BelowNext ==
  ASSUME NEW n, NEW T \in SUBSET Used', n \in T \cup {NO_VALUE},
         \A m \in T : /\ array_nodes'[m].left \in T \cup {NO_VALUE}
                     /\ array_nodes'[m].right \in T \cup {NO_VALUE}
  PROVE  \A m \in Below(n)' : m \in T
BY DEF Below, Closed

\* The subtrees when nodes are added that no node in use refers to.
LEMMA BelowSame ==
  ASSUME LinksSound, Used \subseteq Used',
         \A n \in Used : /\ array_nodes'[n].left = array_nodes[n].left
                         /\ array_nodes'[n].right = array_nodes[n].right
  PROVE  \A n \in Used \cup {NO_VALUE} : Below(n)' = Below(n)
<1> SUFFICES ASSUME NEW n \in Used \cup {NO_VALUE} PROVE Below(n)' = Below(n)
  OBVIOUS
<1>1. ASSUME NEW m \in Below(n)' PROVE m \in Below(n)
  <2>1. /\ Below(n) \in SUBSET Used'
        /\ \A q \in Below(n) : /\ array_nodes'[q].left \in Below(n) \cup {NO_VALUE}
                               /\ array_nodes'[q].right \in Below(n) \cup {NO_VALUE}
    BY BelowUsed DEF Closed
  <2>2. n \in Below(n) \cup {NO_VALUE}
    BY DEF Below
  <2> QED BY <2>1, <2>2, <1>1, BelowNext
<1>2. ASSUME NEW m \in Below(n) PROVE m \in Below(n)'
  <2>1. m \in Used'
    BY <1>2 DEF Below
  <2>2. ASSUME NEW S \in SUBSET Used', n \in S \cup {NO_VALUE}, Closed(S)'
        PROVE  m \in S
    <3>1. Closed(S \cap Used)
      <4> SUFFICES ASSUME NEW q \in S \cap Used
                   PROVE  /\ array_nodes[q].left \in (S \cap Used) \cup {NO_VALUE}
                          /\ array_nodes[q].right \in (S \cap Used) \cup {NO_VALUE}
        BY DEF Closed
      <4>1. /\ array_nodes[q].left \in S \cup {NO_VALUE}
            /\ array_nodes[q].right \in S \cup {NO_VALUE}
        BY <2>2 DEF Closed
      <4> QED BY <4>1 DEF LinksSound
    <3>2. n \in (S \cap Used) \cup {NO_VALUE}
      BY <2>2
    <3> QED BY <3>1, <3>2, <1>2, BelowLeast
  <2> QED BY <2>1, <2>2 DEF Below
<1> QED BY <1>1, <1>2

\* The subtrees when node p gets the child i, which nobody refers to.
LEMMA BelowLeaf ==
  ASSUME LinksSound, NO_VALUE \notin Used, Used' = Used,
         NEW i \in Used, NEW p \in Used, i # p,
         \A n \in Used : array_nodes[n].left # i /\ array_nodes[n].right # i,
         array_nodes'[i].left = NO_VALUE, array_nodes'[i].right = NO_VALUE,
         \A n \in Used \ {i, p} : /\ array_nodes'[n].left = array_nodes[n].left
                                  /\ array_nodes'[n].right = array_nodes[n].right,
         \/ /\ array_nodes[p].left = NO_VALUE /\ array_nodes'[p].left = i
            /\ array_nodes'[p].right = array_nodes[p].right
         \/ /\ array_nodes[p].right = NO_VALUE /\ array_nodes'[p].right = i
            /\ array_nodes'[p].left = array_nodes[p].left
  PROVE  /\ \A n \in Used \ {i} :
              Below(n)' = Below(n) \cup (IF p \in Below(n) THEN {i} ELSE {})
         /\ Below(i)' = {i}
<1>1. ASSUME NEW n \in Used \ {i}
      PROVE  Below(n)' = Below(n) \cup (IF p \in Below(n) THEN {i} ELSE {})
  <2> DEFINE T == Below(n) \cup (IF p \in Below(n) THEN {i} ELSE {})
  <2>1. Below(n) \subseteq Used /\ n \in Below(n)
    BY BelowUsed, BelowSelf
  <2>2. i \notin Below(n)
    <3> SUFFICES ASSUME i \in Below(n) PROVE FALSE
      OBVIOUS
    <3>1. array_nodes[i].parent \in Below(n)
          /\ i \in {array_nodes[array_nodes[i].parent].left,
                    array_nodes[array_nodes[i].parent].right}
      BY BelowParent
    <3> QED BY <3>1, <2>1
  <2>3. T \in SUBSET Used'
    BY <2>1
  <2>4. \A m \in T : /\ array_nodes'[m].left \in T \cup {NO_VALUE}
                       /\ array_nodes'[m].right \in T \cup {NO_VALUE}
    <3> SUFFICES ASSUME NEW m \in T
                 PROVE  /\ array_nodes'[m].left \in T \cup {NO_VALUE}
                        /\ array_nodes'[m].right \in T \cup {NO_VALUE}
      OBVIOUS
    <3>1. CASE m = i
      BY <3>1
    <3>2. CASE m # i
      <4>1. m \in Below(n)
        BY <3>2
      <4>2. /\ array_nodes[m].left \in Below(n) \cup {NO_VALUE}
            /\ array_nodes[m].right \in Below(n) \cup {NO_VALUE}
        BY <4>1, BelowClosed
      <4>3. CASE m = p
        BY <4>1, <4>2, <4>3
      <4>4. CASE m # p
        BY <4>1, <4>2, <4>4, <3>2, <2>1
      <4> QED BY <4>3, <4>4
    <3> QED BY <3>1, <3>2
  <2>5. ASSUME NEW S \in SUBSET Used', n \in S \cup {NO_VALUE}, Closed(S)'
        PROVE  T \subseteq S
    <3>1. Closed(S \ {i})
      <4> SUFFICES ASSUME NEW m \in S \ {i}
                   PROVE  /\ array_nodes[m].left \in (S \ {i}) \cup {NO_VALUE}
                          /\ array_nodes[m].right \in (S \ {i}) \cup {NO_VALUE}
        BY DEF Closed
      <4>1. /\ array_nodes'[m].left \in S \cup {NO_VALUE}
            /\ array_nodes'[m].right \in S \cup {NO_VALUE}
        BY <2>5 DEF Closed
      <4> QED BY <4>1
    <3>2. Below(n) \subseteq S \ {i}
      BY <3>1, <2>5, BelowLeast
    <3>3. p \in S => i \in S
      BY <2>5 DEF Closed
    <3> QED BY <3>2, <3>3
  <2>6. n \in T
    BY <2>1
  <2>7. \A m \in Below(n)' : m \in T
    <3> HIDE DEF T
    <3> QED BY <2>3, <2>4, <2>6, BelowNext
  <2>8. ASSUME NEW m \in T PROVE m \in Below(n)'
    BY <2>3, <2>5 DEF Below
  <2> QED BY <2>7, <2>8
<1>2. Below(i)' = {i}
  <2>1. Closed({i})' /\ {i} \in SUBSET Used'
    BY DEF Closed
  <2> QED BY <2>1 DEF Below
<1> QED BY <1>1, <1>2

\* The subtrees when node i leaves and its only child c, if any, takes its place.
LEMMA BelowSpliced ==
  ASSUME LinksSound, Acyclic, NO_VALUE \notin Used,
         NEW i \in Used, Used' = Used \ {i},
         NEW c, {array_nodes[i].left, array_nodes[i].right} = {c, NO_VALUE},
         \A n \in Used \ {i} :
           /\ array_nodes'[n].left =
                IF array_nodes[n].left = i THEN c ELSE array_nodes[n].left
           /\ array_nodes'[n].right =
                IF array_nodes[n].right = i THEN c ELSE array_nodes[n].right
  PROVE  /\ \A n \in (Used \ {i}) \cup {NO_VALUE} : Below(n)' = Below(n) \ {i}
         /\ c # i /\ Below(i) \ {i} = Below(c) \ {i} /\ c \in Used \cup {NO_VALUE}
<1>1. c \in Used \cup {NO_VALUE}
  BY DEF LinksSound
<1>2. c # i
  BY NoLoop
<1>3. Below(i) = {i} \cup Below(c)
  BY BelowSplit, BelowNothing
<1>4. ASSUME NEW n \in Used \ {i} PROVE Below(n)' = Below(n) \ {i}
  <2> DEFINE T == Below(n) \ {i}
  <2>1. Below(n) \subseteq Used /\ n \in Below(n)
    BY BelowUsed, BelowSelf
  <2>2. \A m \in T : /\ array_nodes'[m].left \in T \cup {NO_VALUE}
                       /\ array_nodes'[m].right \in T \cup {NO_VALUE}
    <3> SUFFICES ASSUME NEW m \in T
                 PROVE  /\ array_nodes'[m].left \in T \cup {NO_VALUE}
                        /\ array_nodes'[m].right \in T \cup {NO_VALUE}
      OBVIOUS
    <3>1. m \in Used \ {i}
      BY <2>1
    <3>2. /\ array_nodes[m].left \in Below(n) \cup {NO_VALUE}
          /\ array_nodes[m].right \in Below(n) \cup {NO_VALUE}
      BY BelowClosed
    <3>3. i \in Below(n) => c \in T \cup {NO_VALUE}
      BY <1>2, BelowClosed
    <3> QED BY <3>1, <3>2, <3>3
  <2>3. ASSUME NEW S \in SUBSET Used', n \in S \cup {NO_VALUE}, Closed(S)'
        PROVE  T \subseteq S
    <3> DEFINE R == {q \in S : i \in {array_nodes[q].left, array_nodes[q].right}}
               S2 == S \cup (IF R # {} THEN {i} ELSE {})
    <3>1. R # {} => c \in S \cup {NO_VALUE}
      BY <2>3 DEF Closed
    <3>2. Closed(S2)
      <4> SUFFICES ASSUME NEW m \in S2
                   PROVE  /\ array_nodes[m].left \in S2 \cup {NO_VALUE}
                          /\ array_nodes[m].right \in S2 \cup {NO_VALUE}
        BY DEF Closed
      <4>1. CASE m = i
        <5>1. R # {}
          BY <4>1, <2>3
        <5>2. c \in S2 \cup {NO_VALUE}
          BY <5>1, <3>1
        <5>3. array_nodes[m].left \in {c, NO_VALUE} /\ array_nodes[m].right \in {c, NO_VALUE}
          BY <4>1
        <5> QED BY <5>2, <5>3
      <4>2. CASE m # i
        <5>1. m \in S
          BY <4>2
        <5>2. /\ array_nodes'[m].left \in S \cup {NO_VALUE}
              /\ array_nodes'[m].right \in S \cup {NO_VALUE}
          BY <5>1, <2>3 DEF Closed
        <5> QED BY <5>1, <5>2, <2>3
      <4> QED BY <4>1, <4>2
    <3>3. S2 \in SUBSET Used /\ n \in S2 \cup {NO_VALUE}
      BY <2>3
    <3>4. Below(n) \subseteq S2
      BY <3>2, <3>3, BelowLeast
    <3> QED BY <3>4
  <2>4. T \in SUBSET Used' /\ n \in T
    BY <2>1
  <2>5. \A m \in Below(n)' : m \in T
    <3> HIDE DEF T
    <3> QED BY <2>2, <2>4, BelowNext
  <2>6. ASSUME NEW m \in T PROVE m \in Below(n)'
    BY <2>4, <2>3 DEF Below
  <2> QED BY <2>5, <2>6
<1> QED BY <1>1, <1>2, <1>3, <1>4, BelowNothing

----------------------------------------------------------------------------
(* The order of the tree                                                   *)

\* What a tree is made of, in a state that IInv describes.
LEMMA TreeFacts ==
  ASSUME IInv
  PROVE  /\ TypeOK /\ LinksSound /\ Acyclic /\ CallSound
         /\ NO_VALUE \notin Used
         /\ root \in Used \cup {NO_VALUE}
         /\ InTree \in SUBSET Used
         /\ root # NO_VALUE => root \in InTree
         /\ root = NO_VALUE => InTree = {}
         /\ \A n \in Used : array_nodes[n].data \in Int
         /\ \A n \in InTree :
              /\ Below(n) \subseteq InTree /\ n \in Below(n)
              /\ Below(array_nodes[n].left) \subseteq InTree
              /\ Below(array_nodes[n].right) \subseteq InTree
<1>1. TypeOK /\ LinksSound /\ Acyclic /\ CallSound
  BY DEF IInv
<1>2. NO_VALUE \notin Used
  BY <1>1, IndexFacts DEF TypeOK
<1>3. root \in Used \cup {NO_VALUE}
  BY <1>1 DEF LinksSound
<1>4. InTree \in SUBSET Used
  BY <1>1, BelowUsed DEF InTree
<1>5. root # NO_VALUE => root \in InTree
  BY <1>2, <1>3, BelowSelf DEF InTree
<1>6. root = NO_VALUE => InTree = {}
  BY BelowNothing DEF InTree
<1>7. ASSUME NEW n \in Used PROVE array_nodes[n].data \in Int
  <2>1. array_nodes[n] \in Node
    BY <1>1, <1>7 DEF TypeOK, Used
  <2>2. NO_VALUE \in Int
    BY DEF NO_VALUE
  <2> QED
    BY <2>1, <2>2, KeysAssumption DEF Node
<1>8. ASSUME NEW n \in InTree
      PROVE  /\ Below(n) \subseteq InTree /\ n \in Below(n)
             /\ Below(array_nodes[n].left) \subseteq InTree
             /\ Below(array_nodes[n].right) \subseteq InTree
  <2>1. n \in Used /\ Below(n) \subseteq InTree /\ n \in Below(n)
    BY <1>1, <1>2, <1>4, BelowBelow, BelowSelf DEF InTree
  <2> QED
    BY <1>1, <1>2, <2>1, BelowSplit
<1> QED
  BY <1>1, <1>2, <1>3, <1>4, <1>5, <1>6, <1>7, <1>8

\* A step that only adds nodes that nobody refers to changes nothing in the tree.
LEMMA TreeKept ==
  ASSUME IInv, Used \subseteq Used',
         \A n \in Used : array_nodes'[n] = array_nodes[n],
         root' = root
  PROVE  /\ InTree' = InTree
         /\ \A n \in Used \cup {NO_VALUE} : Below(n)' = Below(n)
         /\ Ordered => Ordered'
         /\ Distinct => Distinct'
         /\ HoldsKeys /\ keys' = keys => HoldsKeys'
         /\ \A n, k : OnPath(n, k) => OnPath(n, k)'
         /\ \A i \in Used, n \in Used : MinIsBelow(i, n) => MinIsBelow(i, n)'
<1>1. /\ LinksSound /\ root \in Used \cup {NO_VALUE} /\ InTree \in SUBSET Used
      /\ NO_VALUE \notin Used
  BY TreeFacts
<1>2. \A n \in Used \cup {NO_VALUE} : Below(n)' = Below(n)
  BY <1>1, BelowSame
<1>3. InTree' = InTree
  BY <1>1, <1>2 DEF InTree
<1>4. \A n \in Used :
        /\ array_nodes'[n] = array_nodes[n]
        /\ array_nodes[n].left \in Used \cup {NO_VALUE}
        /\ array_nodes[n].right \in Used \cup {NO_VALUE}
        /\ Below(array_nodes[n].left) \subseteq Used
        /\ Below(array_nodes[n].right) \subseteq Used
  BY <1>1, BelowUsed DEF LinksSound
<1>5. \A n \in Used : /\ Below(array_nodes[n].left)' = Below(array_nodes[n].left)
                      /\ Below(array_nodes[n].right)' = Below(array_nodes[n].right)
  BY <1>2, <1>4
<1>6. Ordered => Ordered'
  BY <1>1, <1>3, <1>4, <1>5 DEF Ordered
<1>7. Distinct => Distinct'
  BY <1>1, <1>3, <1>4 DEF Distinct
<1>8. HoldsKeys /\ keys' = keys => HoldsKeys'
  <2>1. \A n \in InTree : array_nodes'[n].data = array_nodes[n].data
    BY <1>1, <1>4
  <2> QED
    BY <1>3, <2>1 DEF HoldsKeys
<1>9. ASSUME NEW n, NEW k, OnPath(n, k) PROVE OnPath(n, k)'
  <2>1. n \in Used /\ Below(n)' = Below(n)
    BY <1>1, <1>2, <1>9 DEF OnPath
  <2> QED
    BY <1>1, <1>3, <1>4, <1>5, <1>9, <2>1 DEF OnPath
<1>10. ASSUME NEW i \in Used, NEW n \in Used, MinIsBelow(i, n) PROVE MinIsBelow(i, n)'
  BY <1>2, <1>4, <1>5, <1>10 DEF MinIsBelow
<1> QED
  BY <1>2, <1>3, <1>6, <1>7, <1>8, <1>9, <1>10

\* When a node that is not above its parent leaves, each subtree loses just that
\* node, whichever way its parent refers to it.
LEMMA SplicedTree ==
  ASSUME IInv, NEW i \in InTree, NEW c, Spliced(i, c),
         {array_nodes[i].left, array_nodes[i].right} = {c, NO_VALUE},
         root' = IF i = root THEN c ELSE root
  PROVE  /\ InTree' = InTree \ {i}
         /\ \A n \in Used \ {i} :
              /\ Below(array_nodes[n].left)' = Below(array_nodes[n].left) \ {i}
              /\ Below(array_nodes[n].right)' = Below(array_nodes[n].right) \ {i}
<1>1. /\ LinksSound /\ Acyclic /\ root \in Used \cup {NO_VALUE} /\ i \in Used
      /\ NO_VALUE \notin Used
  BY TreeFacts
<1>2. /\ \A n \in (Used \ {i}) \cup {NO_VALUE} : Below(n)' = Below(n) \ {i}
      /\ c # i /\ Below(i) \ {i} = Below(c) \ {i} /\ c \in Used \cup {NO_VALUE}
  BY <1>1, BelowSpliced DEF Spliced
<1>3. Below(c)' = Below(i) \ {i}
  BY <1>2
<1>4. InTree' = InTree \ {i}
  <2>1. CASE i = root
    BY <1>3, <2>1 DEF InTree
  <2>2. CASE i # root
    BY <1>1, <1>2, <2>2 DEF InTree
  <2> QED
    BY <2>1, <2>2
<1>5. ASSUME NEW n \in Used \ {i}
      PROVE  /\ Below(array_nodes[n].left)' = Below(array_nodes[n].left) \ {i}
             /\ Below(array_nodes[n].right)' = Below(array_nodes[n].right) \ {i}
  <2>1. /\ array_nodes[n].left \in Used \cup {NO_VALUE}
        /\ array_nodes[n].right \in Used \cup {NO_VALUE}
    BY <1>1 DEF LinksSound
  <2>2. /\ array_nodes'[n].left = IF array_nodes[n].left = i THEN c ELSE array_nodes[n].left
        /\ array_nodes'[n].right = IF array_nodes[n].right = i THEN c ELSE array_nodes[n].right
    BY DEF Spliced
  <2>3. Below(array_nodes[n].left)' = Below(array_nodes[n].left) \ {i}
    BY <1>2, <1>3, <2>1, <2>2
  <2>4. Below(array_nodes[n].right)' = Below(array_nodes[n].right) \ {i}
    BY <1>2, <1>3, <2>1, <2>2
  <2> QED
    BY <2>3, <2>4
<1> QED
  BY <1>4, <1>5

\* A tree without one of its nodes is the sorted set without that node's data.
LEMMA OrderWithout ==
  ASSUME IInv, NEW i \in InTree, NEW c, Spliced(i, c),
         {array_nodes[i].left, array_nodes[i].right} = {c, NO_VALUE},
         root' = IF i = root THEN c ELSE root,
         DataKept(Used \ {i}), keys' = keys \ {array_nodes[i].data},
         Ordered, Distinct, HoldsKeys
  PROVE  Ordered' /\ Distinct' /\ HoldsKeys'
<1>1. /\ InTree' = InTree \ {i} /\ InTree \in SUBSET Used
      /\ \A n \in Used \ {i} :
           /\ Below(array_nodes[n].left)' = Below(array_nodes[n].left) \ {i}
           /\ Below(array_nodes[n].right)' = Below(array_nodes[n].right) \ {i}
  BY SplicedTree, TreeFacts
<1>2. \A n \in InTree \ {i} : array_nodes'[n].data = array_nodes[n].data
  BY <1>1 DEF DataKept
<1>3. Ordered'
  <2> SUFFICES ASSUME NEW n \in InTree \ {i}
               PROVE  /\ \A m \in Below(array_nodes[n].left) \ {i} :
                           array_nodes'[m].data < array_nodes'[n].data
                      /\ \A m \in Below(array_nodes[n].right) \ {i} :
                           array_nodes'[n].data < array_nodes'[m].data
    BY <1>1 DEF Ordered
  <2>1. /\ Below(array_nodes[n].left) \subseteq InTree
        /\ Below(array_nodes[n].right) \subseteq InTree
    BY TreeFacts
  <2> QED
    BY <1>2, <2>1 DEF Ordered
<1>4. Distinct'
  BY <1>1, <1>2 DEF Distinct
<1>5. HoldsKeys'
  <2>1. HoldsKeys' <=> keys' = {array_nodes'[n].data : n \in InTree \ {i}}
    BY <1>1 DEF HoldsKeys
  <2>2. {array_nodes'[n].data : n \in InTree \ {i}} = {array_nodes[n].data : n \in InTree \ {i}}
    BY <1>2
  <2>3. {array_nodes[n].data : n \in InTree \ {i}} = keys \ {array_nodes[i].data}
    BY DEF HoldsKeys, Distinct
  <2> QED
    BY <2>1, <2>2, <2>3
<1> QED
  BY <1>3, <1>4, <1>5

\* So is a tree where the minimum i on the right of a node, top, has moved there:
\* it is without the data of top.
LEMMA OrderWithMinimum ==
  ASSUME IInv, NEW top \in InTree, NEW i \in Used, top # i,
         Spliced(i, NO_VALUE), root' = root,
         array_nodes[i].left = NO_VALUE, array_nodes[i].right = NO_VALUE,
         MinIsBelow(top, i),
         DataKept(Used \ {i, top}), array_nodes'[top].data = array_nodes[i].data,
         keys' = keys \ {array_nodes[top].data},
         Ordered, Distinct, HoldsKeys
  PROVE  Ordered' /\ Distinct' /\ HoldsKeys' /\ InTree' = InTree \ {i}
<1>1. /\ LinksSound /\ Acyclic /\ InTree \in SUBSET Used /\ NO_VALUE \notin Used
      /\ root \in InTree
      /\ \A n \in InTree : /\ n \in Below(n) /\ array_nodes[n].data \in Int
                           /\ Below(n) \subseteq InTree
                           /\ Below(array_nodes[n].left) \subseteq InTree
                           /\ Below(array_nodes[n].right) \subseteq InTree
  BY TreeFacts
<1>2. /\ i \in Below(array_nodes[top].right) /\ i \in InTree
      /\ array_nodes[top].data < array_nodes[i].data
  BY <1>1 DEF MinIsBelow, Ordered
<1>3. i # root
  <2>1. i \in Below(top) /\ top \in Used
    BY <1>1, <1>2, BelowSplit
  <2>2. array_nodes[i].parent \in Below(top)
    BY <1>1, <2>1, BelowParent
  <2>3. array_nodes[i].parent # NO_VALUE
    BY <1>1, <2>1, <2>2, BelowUsed
  <2> QED
    BY <1>1, <2>3 DEF LinksSound
<1>4. /\ InTree' = InTree \ {i}
      /\ \A n \in Used \ {i} :
           /\ Below(array_nodes[n].left)' = Below(array_nodes[n].left) \ {i}
           /\ Below(array_nodes[n].right)' = Below(array_nodes[n].right) \ {i}
  BY <1>2, <1>3, SplicedTree
<1>5. /\ \A n \in InTree \ {i, top} : array_nodes'[n].data = array_nodes[n].data
      /\ array_nodes'[top].data = array_nodes[i].data
  BY <1>1 DEF DataKept
<1>6. Below(i) = {i}
  BY <1>1, BelowSplit, BelowNothing
<1>7. Ordered'
  <2> SUFFICES ASSUME NEW n \in InTree \ {i}
               PROVE  /\ \A m \in Below(array_nodes[n].left) \ {i} :
                           array_nodes'[m].data < array_nodes'[n].data
                      /\ \A m \in Below(array_nodes[n].right) \ {i} :
                           array_nodes'[n].data < array_nodes'[m].data
    BY <1>1, <1>4 DEF Ordered
  <2>1. CASE n = top
    <3>1. /\ top \notin Below(array_nodes[top].left)
          /\ top \notin Below(array_nodes[top].right)
      BY <1>1, NotBelowItself
    <3>2. ASSUME NEW m \in Below(array_nodes[top].left) \ {i}
          PROVE  array_nodes'[m].data < array_nodes'[top].data
      <4>1. m \in InTree \ {i, top} /\ array_nodes[m].data < array_nodes[top].data
        BY <1>1, <3>1, <3>2 DEF Ordered
      <4>2. array_nodes[m].data \in Int /\ array_nodes[top].data \in Int /\ array_nodes[i].data \in Int
        BY <1>1, <1>2, <4>1
      <4> QED
        BY <1>2, <1>5, <4>1, <4>2
    <3>3. ASSUME NEW m \in Below(array_nodes[top].right) \ {i}
          PROVE  array_nodes'[top].data < array_nodes'[m].data
      <4>1. m \in InTree \ {i, top} /\ array_nodes[i].data < array_nodes[m].data
        BY <1>1, <1>6, <3>1, <3>3 DEF MinIsBelow
      <4> QED
        BY <1>5, <4>1
    <3> QED
      BY <2>1, <3>2, <3>3
  <2>2. CASE n # top
    <3>1. array_nodes'[n].data = array_nodes[n].data
      BY <1>5, <2>2
    <3>2. ASSUME NEW S, S \in {Below(array_nodes[n].left), Below(array_nodes[n].right)},
                 top \in S
          PROVE  i \in S
      <4>1. top \in Used /\ i \in Below(top)
        BY <1>1, <1>2, BelowSplit
      <4> QED
        BY <1>1, <3>2, <4>1, BelowBelow
    <3>3. ASSUME NEW m \in Below(array_nodes[n].left) \ {i}
          PROVE  array_nodes'[m].data < array_nodes[n].data
      <4>1. m \in InTree \ {i}
        BY <1>1, <3>3
      <4>2. CASE m = top
        BY <1>1, <1>5, <3>2, <3>3, <4>2 DEF Ordered
      <4>3. CASE m # top
        BY <1>5, <3>3, <4>1, <4>3 DEF Ordered
      <4> QED
        BY <4>2, <4>3
    <3>4. ASSUME NEW m \in Below(array_nodes[n].right) \ {i}
          PROVE  array_nodes[n].data < array_nodes'[m].data
      <4>1. m \in InTree \ {i}
        BY <1>1, <3>4
      <4>2. CASE m = top
        BY <1>1, <1>5, <3>2, <3>4, <4>2 DEF Ordered
      <4>3. CASE m # top
        BY <1>5, <3>4, <4>1, <4>3 DEF Ordered
      <4> QED
        BY <4>2, <4>3
    <3> QED
      BY <3>1, <3>3, <3>4
  <2> QED
    BY <2>1, <2>2
<1>8. Distinct'
  <2> SUFFICES ASSUME NEW m \in InTree \ {i}, NEW n \in InTree \ {i},
                      array_nodes'[m].data = array_nodes'[n].data
               PROVE  m = n
    BY <1>4 DEF Distinct
  <2> DEFINE from(x) == IF x = top THEN i ELSE x
  <2>1. /\ array_nodes'[m].data = array_nodes[from(m)].data
        /\ array_nodes'[n].data = array_nodes[from(n)].data
        /\ from(m) \in InTree /\ from(n) \in InTree
    BY <1>2, <1>5
  <2>2. from(m) = from(n)
    BY <2>1 DEF Distinct
  <2> QED
    BY <2>2
<1>9. HoldsKeys'
  <2>1. HoldsKeys' <=> keys' = {array_nodes'[n].data : n \in InTree \ {i}}
    BY <1>4 DEF HoldsKeys
  <2>2. ASSUME NEW n \in InTree \ {i}
        PROVE  array_nodes'[n].data \in keys'
    <3>1. CASE n = top
      BY <1>1, <1>2, <1>5, <3>1 DEF HoldsKeys, Distinct
    <3>2. CASE n # top
      BY <1>5, <3>2 DEF HoldsKeys, Distinct
    <3> QED
      BY <3>1, <3>2
  <2>3. ASSUME NEW k \in keys' PROVE k \in {array_nodes'[n].data : n \in InTree \ {i}}
    <3>1. PICK n \in InTree : k = array_nodes[n].data /\ n # top
      BY <2>3 DEF HoldsKeys
    <3>2. CASE n = i
      BY <1>5, <3>1, <3>2
    <3>3. CASE n # i
      BY <1>5, <3>1, <3>3
    <3> QED
      BY <3>2, <3>3
  <2> QED
    BY <2>1, <2>2, <2>3
<1> QED
  BY <1>4, <1>7, <1>8, <1>9

----------------------------------------------------------------------------
(* Searches                                                                *)

\* A search begins at the root.
LEMMA OnPathAtRoot ==
  ASSUME IInv, root # NO_VALUE
  PROVE  \A k : OnPath(root, k)
<1>1. /\ LinksSound /\ root \in Used /\ root \in InTree /\ InTree \in SUBSET Used
      /\ NO_VALUE \notin Used /\ array_nodes[root].parent = NO_VALUE
  BY TreeFacts DEF LinksSound
<1>2. ASSUME NEW a \in InTree, NEW c \in {array_nodes[a].left, array_nodes[a].right},
             root \in Below(c)
      PROVE  FALSE
  <2>1. c \in Used /\ array_nodes[c].parent = a
    BY <1>1, <1>2, BelowNothing DEF LinksSound
  <2>2. c # root
    BY <1>1, <2>1
  <2>3. array_nodes[root].parent \in Below(c)
    BY <1>1, <1>2, <2>1, <2>2, BelowParent
  <2> QED
    BY <1>1, <2>3, BelowUsed
<1> QED
  BY <1>1, <1>2 DEF OnPath, InTree

\* It goes on where its key must be.
LEMMA OnPathDown ==
  ASSUME IInv, Ordered, NEW k \in Int, NEW n, OnPath(n, k),
         array_nodes[n].data # k, Towards(k, n) # NO_VALUE
  PROVE  OnPath(Towards(k, n), k)
<1> DEFINE l == array_nodes[n].left
           r == array_nodes[n].right
           m == Towards(k, n)
<1>1. /\ LinksSound /\ n \in InTree /\ n \in Used /\ NO_VALUE \notin Used
      /\ array_nodes[n].data \in Int /\ InTree \in SUBSET Used
      /\ Below(l) \subseteq InTree /\ Below(r) \subseteq InTree
  BY TreeFacts DEF OnPath
<1>2. IF k < array_nodes[n].data THEN m = l ELSE m = r
  BY DEF Towards
<1>3. m \in Used /\ array_nodes[m].parent = n /\ (l = r => l = NO_VALUE)
  BY <1>1, <1>2 DEF LinksSound
<1>4. m \in Below(m) /\ m \in InTree
  BY <1>1, <1>2, <1>3, BelowSelf
<1>5. ASSUME NEW q \in InTree, array_nodes[q].data = k PROVE q \in Below(m)
  <2>1. q \in Below(l) \/ q \in Below(r)
    BY <1>1, <1>5, BelowSplit DEF OnPath
  <2>2. q \in Below(l) => k < array_nodes[n].data
    BY <1>1, <1>5 DEF Ordered
  <2>3. q \in Below(r) => array_nodes[n].data < k
    BY <1>1, <1>5 DEF Ordered
  <2> QED
    BY <1>1, <1>2, <2>1, <2>2, <2>3
<1>6. ASSUME NEW a \in InTree, NEW c \in {array_nodes[a].left, array_nodes[a].right},
             m \in Below(c)
      PROVE  n \in Below(c) \/ (a = n /\ c = m)
  <2>1. c \in Used /\ array_nodes[c].parent = a
    BY <1>1, <1>6, BelowNothing DEF LinksSound
  <2> QED
    BY <1>1, <1>3, <1>6, <2>1, BelowParent
<1>7. ASSUME NEW a \in InTree, m \in Below(array_nodes[a].left) PROVE k < array_nodes[a].data
  <2>1. n \in Below(array_nodes[a].left) \/ (a = n /\ l = m)
    BY <1>6, <1>7
  <2> QED
    BY <1>2, <1>3, <2>1 DEF OnPath
<1>8. ASSUME NEW a \in InTree, m \in Below(array_nodes[a].right) PROVE array_nodes[a].data < k
  <2>1. n \in Below(array_nodes[a].right) \/ (a = n /\ r = m)
    BY <1>6, <1>8
  <2> QED
    BY <1>1, <1>2, <1>3, <2>1 DEF OnPath
<1> QED
  BY <1>4, <1>5, <1>7, <1>8 DEF OnPath

\* Where it cannot go on, there is no such key.
LEMMA Absent ==
  ASSUME IInv, Ordered, NEW k \in Int, NEW n, OnPath(n, k),
         array_nodes[n].data # k, Towards(k, n) = NO_VALUE
  PROVE  \A q \in InTree : array_nodes[q].data # k
<1> SUFFICES ASSUME NEW q \in InTree, array_nodes[q].data = k PROVE FALSE
  OBVIOUS
<1> DEFINE l == array_nodes[n].left
           r == array_nodes[n].right
<1>1. /\ LinksSound /\ n \in InTree /\ n \in Used /\ NO_VALUE \notin Used
      /\ array_nodes[n].data \in Int
  BY TreeFacts DEF OnPath
<1>2. q \in Below(l) \/ q \in Below(r)
  BY <1>1, BelowSplit DEF OnPath
<1>3. q \in Below(l) => k < array_nodes[n].data
  BY <1>1 DEF Ordered
<1>4. q \in Below(r) => array_nodes[n].data < k
  BY <1>1 DEF Ordered
<1>5. IF k < array_nodes[n].data THEN l = NO_VALUE ELSE r = NO_VALUE
  BY DEF Towards
<1> QED
  BY <1>1, <1>2, <1>3, <1>4, <1>5, BelowNothing

\* The loop for the minimum goes on where it must be.
LEMMA MinIsLeft ==
  ASSUME IInv, Ordered, NEW i \in InTree, NEW n, MinIsBelow(i, n),
         array_nodes[n].left # NO_VALUE
  PROVE  MinIsBelow(i, array_nodes[n].left)
<1> DEFINE l == array_nodes[n].left
           r == array_nodes[n].right
<1>1. /\ LinksSound /\ InTree \in SUBSET Used /\ NO_VALUE \notin Used
      /\ \A q \in InTree : array_nodes[q].data \in Int /\ Below(array_nodes[q].right) \subseteq InTree
                           /\ Below(array_nodes[q].left) \subseteq InTree
  BY TreeFacts
<1>2. n \in InTree /\ n \in Below(array_nodes[i].right)
  BY <1>1 DEF MinIsBelow
<1>3. l \in Below(array_nodes[i].right) /\ l \in Used
  BY <1>1, <1>2, BelowClosed, BelowUsed
<1>4. l \in Below(l) /\ l \in InTree /\ array_nodes[l].data < array_nodes[n].data
  BY <1>1, <1>2, <1>3, BelowSelf DEF Ordered
<1>5. ASSUME NEW m \in Below(array_nodes[i].right)
      PROVE  m \in Below(l) \/ array_nodes[l].data < array_nodes[m].data
  <2>1. m \in InTree
    BY <1>1
  <2>2. m \in {n} \cup Below(l) \cup Below(r) \/ array_nodes[n].data < array_nodes[m].data
    BY <1>1, <1>2, BelowSplit DEF MinIsBelow
  <2>3. m \in Below(r) => array_nodes[n].data < array_nodes[m].data
    BY <1>2 DEF Ordered
  <2> QED
    BY <1>1, <1>2, <1>4, <2>1, <2>2, <2>3
<1> QED
  BY <1>3, <1>5 DEF MinIsBelow

----------------------------------------------------------------------------
(* The order through every step                                            *)

\* A call that has returned knows nothing.
LEMMA IdleKnows ==
  ASSUME call' = Idle PROVE CallKnows'
BY DEF CallKnows, At, Idle

\* A step that only moves the call in progress keeps the tree.
LEMMA CallOrder ==
  ASSUME IInv, SearchTree, UNCHANGED <<live, store, history>>,
         ~ damaged /\ Ordered /\ Distinct /\ HoldsKeys /\ CallKnows => CallKnows'
  PROVE  SearchTree'
<1> SUFFICES ASSUME ~ damaged' PROVE Ordered' /\ Distinct' /\ HoldsKeys' /\ CallKnows'
  BY DEF SearchTree
<1>1. UNCHANGED <<store, chain>> /\ array_nodes' = array_nodes /\ root' = root
      /\ damaged' = damaged /\ keys' = keys
  BY DEF store, history
<1>2. Ordered /\ Distinct /\ HoldsKeys /\ CallKnows
  BY <1>1 DEF SearchTree
<1>3. Used' = Used
  BY <1>1, StoreKept DEF IInv
<1> QED
  BY <1>1, <1>2, <1>3, TreeKept

\* What such a step leaves as it is, for what a call knows.
LEMMA CallTree ==
  ASSUME IInv, UNCHANGED <<live, store, history>>
  PROVE  /\ InTree' = InTree /\ array_nodes' = array_nodes
         /\ \A n, k : OnPath(n, k) => OnPath(n, k)'
         /\ \A i \in Used, n \in Used : MinIsBelow(i, n) => MinIsBelow(i, n)'
<1>1. UNCHANGED <<store, chain>> /\ array_nodes' = array_nodes /\ root' = root
  BY DEF store, history
<1>2. Used' = Used
  BY <1>1, StoreKept DEF IInv
<1> QED
  BY <1>1, <1>2, TreeKept

\* The key of a search stays where it was sought.
LEMMA CallOnPath ==
  ASSUME IInv, UNCHANGED <<live, store, history>>,
         NEW n, NEW k, OnPath(n, k), call'.node = n, call'.data = k
  PROVE  OnPath(call.node, call.data)'
<1>1. OnPath(n, k)'
  BY CallTree
<1> QED
  BY <1>1 DEF OnPath

LEMMA DescendOrder ==
  ASSUME IInv, SearchTree, NEW step \in {"place", "search"}, Descend(step)
  PROVE  SearchTree'
<1> DEFINE m == Towards(call.data, call.node)
<1>1. UNCHANGED <<live, store, history>>
  BY DEF Descend
<1>2. ~ At("idle") /\ call.step = step
  BY DEF Descend, At
<1>3. call.data \in Int /\ call = [step |-> call.step, data |-> call.data,
                                  index |-> call.index, node |-> call.node]
  BY <1>2, CallFacts, KeysAssumption
<1>4. call'.step = step /\ call'.data = call.data /\ call'.node = m
  BY <1>2, <1>3 DEF Descend, MoveTo
<1>5. ASSUME Ordered, CallKnows PROVE CallKnows'
  <2>1. OnPath(call.node, call.data)
    BY <1>2, <1>5 DEF CallKnows, At
  <2>2. OnPath(m, call.data)
    BY <1>3, <1>5, <2>1, OnPathDown DEF Descend, Here
  <2>3. OnPath(call.node, call.data)'
    <3> HIDE DEF m
    <3> QED BY <1>1, <1>4, <2>2, CallOnPath
  <2> QED
    BY <1>4, <2>3 DEF CallKnows, At
<1> QED
  BY <1>1, <1>5, CallOrder

LEMMA HitOrder ==
  ASSUME IInv, SearchTree, Hit
  PROVE  SearchTree'
<1>1. UNCHANGED <<live, store, history>> /\ ~ At("idle") /\ call.step = "search"
  BY DEF Hit, At
<1>2. call = [step |-> call.step, data |-> call.data,
              index |-> call.index, node |-> call.node]
  BY <1>1, CallFacts
<1>3. /\ call'.step = "delete" /\ call'.data = call.data /\ call'.index = call.node
      /\ array_nodes[call.node].data = call.data
  BY <1>2 DEF Hit, Here
<1>4. ASSUME CallKnows PROVE CallKnows'
  BY <1>1, <1>3, <1>4, CallTree DEF CallKnows, At, OnPath
<1> QED
  BY <1>1, <1>4, CallOrder

LEMMA ToMinOrder ==
  ASSUME IInv, SearchTree, DeleteWithBoth \/ DescendToMin
  PROVE  SearchTree'
<1> DEFINE i == call.index
           n == IF At("delete") THEN Here.right ELSE Here.left
<1>1. /\ UNCHANGED <<live, store, history>> /\ ~ At("idle")
      /\ call.step \in {"delete", "min"}
  BY DEF DeleteWithBoth, DescendToMin, At
<1>2. /\ call = [step |-> call.step, data |-> call.data,
                 index |-> call.index, node |-> call.node]
      /\ CallSound /\ LinksSound /\ NO_VALUE \notin Used
  BY <1>1, CallFacts, TreeFacts
<1>3. call'.step = "min" /\ call'.data = call.data /\ call'.index = i /\ call'.node = n
  BY <1>2 DEF DeleteWithBoth, DescendToMin, MoveTo, At
<1>4. ASSUME Ordered, CallKnows PROVE CallKnows'
  <2>1. i \in InTree /\ array_nodes[i].data = call.data /\ i \in Used
    BY <1>1, <1>4, TreeFacts DEF CallKnows, At
  <2>2. CASE DeleteWithBoth
    <3>1. n = array_nodes[i].right /\ n # NO_VALUE
      BY <1>2, <2>2 DEF DeleteWithBoth, CallSound, At, Here
    <3>2. n \in Used /\ n \in Below(n)
      BY <1>2, <2>1, <3>1, BelowSelf DEF LinksSound
    <3>3. MinIsBelow(i, n)
      BY <3>1, <3>2 DEF MinIsBelow
    <3>4. MinIsBelow(call.index, call.node)'
      BY <1>1, <1>3, <2>1, <3>2, <3>3, CallTree DEF MinIsBelow
    <3> QED
      BY <1>1, <1>3, <2>1, <3>4, CallTree DEF CallKnows, At
  <2>3. CASE DescendToMin
    <3>1. n = array_nodes[call.node].left /\ n # NO_VALUE /\ call.node \in Used
      BY <1>2, <2>3 DEF DescendToMin, CallSound, At, Here
    <3>2. n \in Used
      BY <1>2, <3>1 DEF LinksSound
    <3>3. MinIsBelow(i, n)
      BY <1>4, <2>1, <2>3, <3>1, MinIsLeft DEF CallKnows, DescendToMin
    <3>4. MinIsBelow(call.index, call.node)'
      BY <1>1, <1>3, <2>1, <3>2, <3>3, CallTree DEF MinIsBelow
    <3> QED
      BY <1>1, <1>3, <2>1, <3>4, CallTree DEF CallKnows, At
  <2> QED
    BY <2>2, <2>3
<1> QED
  BY <1>1, <1>4, CallOrder

LEMMA BeginOrder ==
  ASSUME IInv, SearchTree, NEW k \in Keys, AddInTree(k) \/ DelInTreeByData(k)
  PROVE  SearchTree'
<1>1. UNCHANGED <<live, store, history>>
  BY DEF AddInTree, DelInTreeByData
<1>2. CASE call'.step \in {"grow", "create", "idle"}
  BY <1>1, <1>2, CallOrder DEF CallKnows, At
<1>3. CASE DelInTreeByData(k) /\ root # NO_VALUE
  <2>1. call'.step = "search" /\ call'.data = k /\ call'.node = root
    BY <1>3 DEF DelInTreeByData, Idle
  <2>2. OnPath(root, k)
    BY <1>3, OnPathAtRoot
  <2>3. OnPath(call.node, call.data)'
    BY <1>1, <2>1, <2>2, CallOnPath
  <2>4. CallKnows'
    BY <2>1, <2>3 DEF CallKnows, At
  <2> QED
    BY <1>1, <2>4, CallOrder
<1>4. CASE AddInTree(k)
  <2>1. call'.step \in {"grow", "create"}
    BY <1>4 DEF AddInTree, Begin, Idle
  <2> QED
    BY <2>1, <1>2
<1>5. CASE DelInTreeByData(k) /\ root = NO_VALUE
  <2>1. call'.step = "idle"
    BY <1>5 DEF DelInTreeByData, Return, Idle
  <2> QED
    BY <2>1, <1>2
<1> QED
  BY <1>3, <1>4, <1>5

LEMMA ReturnOrder ==
  ASSUME IInv, SearchTree, UNCHANGED <<live, store, history>>, call' = Idle
  PROVE  SearchTree'
BY IdleKnows, CallOrder

LEMMA IncreaseCapacityOrder ==
  ASSUME IInv, SearchTree, IncreaseCapacity
  PROVE  SearchTree'
<1>1. /\ Used' = Used /\ \A n \in Used : array_nodes'[n] = array_nodes[n]
      /\ root' = root /\ keys' = keys /\ damaged' = damaged
  BY IncreaseCapacityStep DEF IncreaseCapacity
<1>2. CallKnows'
  <2>1. ~ At("idle")
    BY DEF IncreaseCapacity, At
  <2>2. call = [step |-> call.step, data |-> call.data,
                index |-> call.index, node |-> call.node]
    BY <2>1, CallFacts
  <2>3. call'.step \in {"create", "idle"}
    BY <2>2 DEF IncreaseCapacity, Return, Idle
  <2> QED
    BY <2>3 DEF CallKnows, At
<1> QED
  BY <1>1, <1>2, TreeKept DEF SearchTree

\* The first node of a tree is its root.
LEMMA FirstNode ==
  ASSUME IInv, CreateNode, root = NO_VALUE
  PROVE  InTree' = {free_node} /\ array_nodes'[free_node].data = call.data
<1> PICK i : i = free_node
  OBVIOUS
<1>1. /\ i \notin Used /\ Used' = Used \cup {i} /\ NO_VALUE \notin Used'
      /\ array_nodes'[i].left = NO_VALUE /\ array_nodes'[i].right = NO_VALUE
      /\ array_nodes'[i].data = call.data /\ root' = i
  BY CreateNodeStep DEF CreateNode
<1>2. i \in {i} \cup {NO_VALUE} /\ {i} \in SUBSET Used'
  BY <1>1
<1>3. \A m \in Below(i)' : m \in {i}
  BY <1>1, <1>2, BelowNext
<1>4. i \in Below(i)'
  BY <1>1, <1>2 DEF Below
<1> QED
  BY <1>1, <1>3, <1>4 DEF InTree

LEMMA CreateNodeOrder ==
  ASSUME IInv, SearchTree, CreateNode, ~ damaged'
  PROVE  /\ Ordered' /\ Distinct' /\ HoldsKeys' /\ CallKnows'
         /\ InTree' = IF root = NO_VALUE THEN {free_node} ELSE InTree
<1> PICK i : i = free_node
  OBVIOUS
<1>1. Ordered /\ Distinct /\ HoldsKeys
  BY DEF SearchTree, CreateNode
<1>2. /\ i \notin Used /\ Used' = Used \cup {i}
      /\ \A n \in Used : array_nodes'[n] = array_nodes[n]
      /\ array_nodes'[i].left = NO_VALUE /\ array_nodes'[i].right = NO_VALUE
      /\ root = NO_VALUE => array_nodes'[i].data = call.data
      /\ IInv' /\ NO_VALUE \notin Used'
  BY CreateNodeStep
<1>3. CASE root = NO_VALUE
  <2>1. root' = i /\ keys' = keys \cup {call.data} /\ call' = Idle
    BY <1>3 DEF CreateNode, Return
  <2>2. InTree' = {i}
    BY <1>3, FirstNode
  <2>3. keys = {}
    BY <1>1, <1>3, TreeFacts DEF HoldsKeys
  <2>4. Ordered' /\ Distinct' /\ HoldsKeys'
    BY <1>2, <1>3, <2>1, <2>2, <2>3, BelowNothing DEF Ordered, Distinct, HoldsKeys
  <2> QED
    BY <1>3, <2>1, <2>2, <2>4, IdleKnows
<1>4. CASE root # NO_VALUE
  <2>1. /\ root' = root /\ keys' = keys /\ ~ At("idle")
        /\ call' = [call EXCEPT !.step = "place", !.index = i, !.node = root]
    BY <1>4 DEF CreateNode, At
  <2>2. Ordered' /\ Distinct' /\ HoldsKeys'
    BY <1>1, <1>2, <2>1, TreeKept
  <2>7. InTree' = InTree
    BY <1>2, <2>1, TreeKept
  <2>3. call = [step |-> call.step, data |-> call.data,
                index |-> call.index, node |-> call.node]
    BY <2>1, CallFacts
  <2>4. call'.step = "place" /\ call'.data = call.data /\ call'.node = root
    BY <2>1, <2>3
  <2>5. OnPath(root, call.data)
    BY <1>4, OnPathAtRoot
  <2>6. OnPath(call.node, call.data)'
    BY <1>2, <2>1, <2>4, <2>5, TreeKept DEF OnPath
  <2> QED
    BY <1>4, <2>2, <2>4, <2>6, <2>7 DEF CallKnows, At
<1> QED
  BY <1>3, <1>4

\* The node that addInTree places joins the tree, and each subtree with the place.
LEMMA Placed ==
  ASSUME IInv, PlaceNode, NEW i, NEW p, i = call.index, p = call.node, p \in InTree
  PROVE  /\ i \notin InTree /\ InTree' = InTree \cup {i}
         /\ \A n \in Used \ {i} :
              Below(n)' = Below(n) \cup (IF p \in Below(n) THEN {i} ELSE {})
         /\ Below(i)' = {i}
         /\ \A n \in InTree : array_nodes'[n].data = array_nodes[n].data
         /\ array_nodes'[i].data = call.data
<1>1. /\ LinksSound /\ NO_VALUE \notin Used /\ InTree \in SUBSET Used
      /\ root \in Used /\ p \in InTree /\ p \in Used
  BY TreeFacts
<1>2. /\ Used' = Used /\ i \in Used /\ i # p
      /\ \A n \in Used : array_nodes[n].left # i /\ array_nodes[n].right # i
      /\ \A n \in Used \ {i, p} : array_nodes'[n] = array_nodes[n]
      /\ array_nodes'[i].left = NO_VALUE /\ array_nodes'[i].right = NO_VALUE
      /\ array_nodes'[i].data = call.data /\ array_nodes'[p].data = array_nodes[p].data
      /\ IF call.data < array_nodes[p].data
         THEN /\ array_nodes[p].left = NO_VALUE /\ array_nodes'[p].left = i
              /\ array_nodes'[p].right = array_nodes[p].right
         ELSE /\ array_nodes[p].right = NO_VALUE /\ array_nodes'[p].right = i
              /\ array_nodes'[p].left = array_nodes[p].left
  BY PlaceNodeStep
<1>3. i # root /\ root' = root
  BY DEF PlaceNode, IInv, CallSound
<1>4. i \notin InTree
  <2> SUFFICES ASSUME i \in InTree PROVE FALSE
    OBVIOUS
  <2>1. /\ array_nodes[i].parent \in InTree
        /\ i \in {array_nodes[array_nodes[i].parent].left,
                  array_nodes[array_nodes[i].parent].right}
    BY <1>1, <1>3, BelowParent DEF InTree
  <2> QED
    BY <2>1, <1>1, <1>2
<1>5. /\ \A n \in Used \ {i} :
           Below(n)' = Below(n) \cup (IF p \in Below(n) THEN {i} ELSE {})
      /\ Below(i)' = {i}
  BY <1>1, <1>2, BelowLeaf
<1>6. InTree' = InTree \cup {i}
  BY <1>1, <1>3, <1>5 DEF InTree
<1>7. \A n \in InTree : array_nodes'[n].data = array_nodes[n].data
  BY <1>1, <1>2, <1>4
<1> QED
  BY <1>2, <1>4, <1>5, <1>6, <1>7

\* addInTree hangs a node with a new key where a search for the key has ended.
LEMMA PlaceNodeOrder ==
  ASSUME IInv, SearchTree, PlaceNode, ~ damaged'
  PROVE  /\ Ordered' /\ Distinct' /\ HoldsKeys' /\ CallKnows'
         /\ Used' = Used /\ InTree' = InTree \cup {call.index}
<1> PICK i, p, k : i = call.index /\ p = call.node /\ k = call.data
  OBVIOUS
<1>1. /\ Ordered /\ Distinct /\ HoldsKeys /\ OnPath(p, k)
      /\ root' = root /\ keys' = keys \cup {k} /\ call' = Idle
      /\ array_nodes[p].data # k /\ Towards(k, p) = NO_VALUE
  BY DEF SearchTree, CallKnows, PlaceNode, Return, Here
<1>2. k \in Int
  <2>1. ~ At("idle")
    BY DEF PlaceNode, At
  <2> QED
    BY <2>1, CallFacts, KeysAssumption
<1>3. /\ LinksSound /\ Acyclic /\ NO_VALUE \notin Used /\ InTree \in SUBSET Used
      /\ root \in Used /\ root \in InTree /\ p \in InTree /\ p \in Used
      /\ \A n \in InTree : /\ array_nodes[n].data \in Int
                           /\ Below(array_nodes[n].left) \subseteq InTree
                           /\ Below(array_nodes[n].right) \subseteq InTree
  BY <1>1, TreeFacts DEF OnPath
<1>4. /\ Used' = Used /\ i \in Used /\ i # p
      /\ \A n \in Used : array_nodes[n].left # i /\ array_nodes[n].right # i
      /\ \A n \in Used \ {i, p} : array_nodes'[n] = array_nodes[n]
      /\ array_nodes'[i].left = NO_VALUE /\ array_nodes'[i].right = NO_VALUE
      /\ array_nodes'[i].data = k /\ array_nodes'[p].data = array_nodes[p].data
      /\ IF k < array_nodes[p].data
         THEN /\ array_nodes[p].left = NO_VALUE /\ array_nodes'[p].left = i
              /\ array_nodes'[p].right = array_nodes[p].right
         ELSE /\ array_nodes[p].right = NO_VALUE /\ array_nodes'[p].right = i
              /\ array_nodes'[p].left = array_nodes[p].left
  BY PlaceNodeStep
<1>6. i \notin InTree /\ InTree' = InTree \cup {i}
  BY <1>3, Placed
<1>7. /\ \A n \in Used \ {i} :
           Below(n)' = Below(n) \cup (IF p \in Below(n) THEN {i} ELSE {})
      /\ Below(i)' = {i}
  BY <1>3, Placed
<1>8. InTree' = InTree \cup {i}
  BY <1>6
<1>9. /\ \A n \in InTree : array_nodes'[n].data = array_nodes[n].data
      /\ array_nodes'[i].data = k
      /\ \A n \in InTree : array_nodes[n].data # k
  BY <1>1, <1>2, <1>3, <1>4, <1>6, Absent
<1>10. ASSUME NEW n \in InTree,
              NEW c, c \in {array_nodes[n].left, array_nodes[n].right}
       PROVE  Below(c)' \subseteq Below(c) \cup {i} /\ (p \notin Below(c) => Below(c)' = Below(c))
  <2>1. c = NO_VALUE \/ c \in Used \ {i}
    BY <1>3, <1>4, <1>10 DEF LinksSound
  <2> QED
    BY <2>1, <1>7, BelowNothing
<1>11. ASSUME NEW n \in InTree, n # p,
              NEW m \in Below(array_nodes[n].left)'
       PROVE  array_nodes'[m].data < array_nodes[n].data
  <2>1. array_nodes'[n].left = array_nodes[n].left
    BY <1>3, <1>4, <1>6, <1>11
  <2>2. CASE m = i
    BY <1>1, <1>3, <1>6, <1>9, <1>10, <1>11, <2>1, <2>2 DEF OnPath
  <2>3. CASE m # i
    BY <1>1, <1>3, <1>9, <1>10, <1>11, <2>1, <2>3 DEF Ordered
  <2> QED
    BY <2>2, <2>3
<1>12. ASSUME NEW n \in InTree, n # p,
              NEW m \in Below(array_nodes[n].right)'
       PROVE  array_nodes[n].data < array_nodes'[m].data
  <2>1. array_nodes'[n].right = array_nodes[n].right
    BY <1>3, <1>4, <1>6, <1>12
  <2>2. CASE m = i
    BY <1>1, <1>3, <1>6, <1>9, <1>10, <1>12, <2>1, <2>2 DEF OnPath
  <2>3. CASE m # i
    BY <1>1, <1>3, <1>9, <1>10, <1>12, <2>1, <2>3 DEF Ordered
  <2> QED
    BY <2>2, <2>3
<1>13. /\ \A m \in Below(array_nodes[p].left)' : array_nodes'[m].data < array_nodes[p].data
       /\ \A m \in Below(array_nodes[p].right)' : array_nodes[p].data < array_nodes'[m].data
  <2>1. p \notin Below(array_nodes[p].left) /\ p \notin Below(array_nodes[p].right)
    BY <1>3, NotBelowItself
  <2>2. /\ \A m \in Below(array_nodes[p].left) : array_nodes'[m].data < array_nodes[p].data
        /\ \A m \in Below(array_nodes[p].right) : array_nodes[p].data < array_nodes'[m].data
    BY <1>1, <1>3, <1>9 DEF Ordered
  <2>3. CASE k < array_nodes[p].data
    <3>1. /\ Below(array_nodes[p].left)' = {i}
          /\ Below(array_nodes[p].right)' = Below(array_nodes[p].right)
      BY <1>3, <1>4, <1>7, <1>10, <2>1, <2>3
    <3> QED
      BY <1>9, <2>2, <2>3, <3>1
  <2>4. CASE array_nodes[p].data < k
    <3>1. /\ Below(array_nodes[p].right)' = {i}
          /\ Below(array_nodes[p].left)' = Below(array_nodes[p].left)
      BY <1>2, <1>3, <1>4, <1>7, <1>10, <2>1, <2>4
    <3> QED
      BY <1>9, <2>2, <2>4, <3>1
  <2> QED
    BY <1>1, <1>2, <1>3, <2>3, <2>4
<1>14. Ordered'
  <2> SUFFICES ASSUME NEW n \in InTree \cup {i}
               PROVE  /\ \A m \in Below(array_nodes[n].left)' :
                           array_nodes'[m].data < array_nodes'[n].data
                      /\ \A m \in Below(array_nodes[n].right)' :
                           array_nodes'[n].data < array_nodes'[m].data
    BY <1>8 DEF Ordered
  <2>1. CASE n = i
    BY <1>4, <2>1, BelowNothing
  <2>2. CASE n # i
    BY <1>9, <1>11, <1>12, <1>13, <2>2
  <2> QED
    BY <2>1, <2>2
<1>15. Distinct'
  BY <1>1, <1>8, <1>9 DEF Distinct
<1>16. HoldsKeys'
  BY <1>1, <1>6, <1>8, <1>9 DEF HoldsKeys
<1> QED
  BY <1>1, <1>4, <1>8, <1>14, <1>15, <1>16, IdleKnows

\* A deletion that does no damage keeps the order.
LEMMA DeleteOrder ==
  ASSUME IInv, SearchTree, ~ damaged',
         DeleteLeaf \/ DeleteRoot \/ DeleteWithRight \/ DeleteWithLeft
  PROVE  /\ Ordered' /\ Distinct' /\ HoldsKeys' /\ CallKnows'
         /\ Used' = Used \ {call.index} /\ InTree' = InTree \ {call.index}
<1> PICK i : i = call.index
  OBVIOUS
<1>1. /\ At("delete") /\ Erased(i) /\ call.node = i /\ ~ damaged
  <2>1. At("delete")
    BY DEF DeleteLeaf, DeleteRoot, DeleteWithRight, DeleteWithLeft
  <2>2. Erased(i)
    BY DEF DeleteLeaf, DeleteRoot, DeleteWithRight, DeleteWithLeft
  <2>3. ~ damaged
    BY DEF DeleteLeaf, DeleteRoot, DeleteWithRight, DeleteWithLeft
  <2>4. call.node = i
    BY <2>1 DEF IInv, CallSound
  <2> QED
    BY <2>1, <2>2, <2>3, <2>4
<1>2. /\ Ordered /\ Distinct /\ HoldsKeys /\ i \in InTree
      /\ array_nodes[i].data = call.data
  BY <1>1 DEF SearchTree, CallKnows
<1>3. keys' = keys \ {array_nodes[i].data} /\ call' = Idle
  BY <1>1, <1>2 DEF Erased, Return
<1>4. \E c : /\ Spliced(i, c) /\ DataKept(Used \ {i})
             /\ {array_nodes[i].left, array_nodes[i].right} = {c, NO_VALUE}
             /\ root' = IF i = root THEN c ELSE root
  <2>1. CASE DeleteLeaf
    <3>1. Spliced(i, NO_VALUE) /\ DataKept(Used \ {i})
      BY <2>1, DeleteLeafStep
    <3> QED
      BY <1>1, <2>1, <3>1 DEF DeleteLeaf, Here
  <2>2. CASE DeleteRoot
    <3>1. Spliced(i, OnlyChild) /\ DataKept(Used \ {i})
      BY <2>2, DeleteRootStep
    <3>2. {array_nodes[i].left, array_nodes[i].right} = {OnlyChild, NO_VALUE}
      BY <1>1, <2>2 DEF DeleteRoot, OnlyChild, Here
    <3>3. root' = IF i = root THEN OnlyChild ELSE root
      BY <2>2 DEF DeleteRoot
    <3> QED
      BY <3>1, <3>2, <3>3
  <2>3. CASE DeleteWithRight
    <3>1. Spliced(i, array_nodes[i].right) /\ DataKept(Used \ {i})
      BY <2>3, DeleteWithRightStep
    <3>2. {array_nodes[i].left, array_nodes[i].right} = {array_nodes[i].right, NO_VALUE}
      BY <1>1, <2>3 DEF DeleteWithRight, Here
    <3>3. root' = root /\ i # root
      BY <2>3 DEF DeleteWithRight
    <3> QED
      BY <3>1, <3>2, <3>3
  <2>4. CASE DeleteWithLeft
    <3>1. Spliced(i, array_nodes[i].left) /\ DataKept(Used \ {i})
      BY <2>4, DeleteWithLeftStep
    <3>2. {array_nodes[i].left, array_nodes[i].right} = {array_nodes[i].left, NO_VALUE}
      BY <1>1, <2>4 DEF DeleteWithLeft, Here
    <3>3. root' = root /\ i # root
      BY <2>4 DEF DeleteWithLeft
    <3> QED
      BY <3>1, <3>2, <3>3
  <2> QED
    BY <2>1, <2>2, <2>3, <2>4
<1>5. Ordered' /\ Distinct' /\ HoldsKeys'
  BY <1>2, <1>3, <1>4, OrderWithout
<1>6. Used' = Used \ {i} /\ InTree' = InTree \ {i}
  <2>1. PICK c : /\ Spliced(i, c)
                 /\ {array_nodes[i].left, array_nodes[i].right} = {c, NO_VALUE}
                 /\ root' = IF i = root THEN c ELSE root
    BY <1>4
  <2>2. InTree' = InTree \ {i}
    BY <1>2, <2>1, SplicedTree
  <2> QED
    BY <2>1, <2>2 DEF Spliced
<1> QED
  BY <1>3, <1>5, <1>6, IdleKnows

LEMMA EraseMinOrder ==
  ASSUME IInv, SearchTree, EraseMin, ~ damaged'
  PROVE  /\ Ordered' /\ Distinct' /\ HoldsKeys' /\ CallKnows'
         /\ Used' = Used \ {call.node} /\ InTree' = InTree \ {call.node}
<1> PICK i, top : i = call.node /\ top = call.index
  OBVIOUS
<1>1. /\ At("min") /\ Erased(i) /\ root' = root /\ ~ damaged
      /\ array_nodes[i].left = NO_VALUE /\ array_nodes[i].right = NO_VALUE
  BY DEF EraseMin, Here
<1>2. /\ Ordered /\ Distinct /\ HoldsKeys /\ top \in InTree /\ MinIsBelow(top, i)
      /\ array_nodes[top].data = call.data
  BY <1>1 DEF SearchTree, CallKnows
<1>3. keys' = keys \ {array_nodes[top].data} /\ call' = Idle
  BY <1>1, <1>2 DEF Erased, Return
<1>4. i \in Used
  BY <1>1 DEF IInv, CallSound
<1>5. /\ Spliced(i, NO_VALUE) /\ DataKept(Used \ {i, top}) /\ top # i
      /\ array_nodes'[top].data = array_nodes[i].data
  BY EraseMinStep
<1>6. Ordered' /\ Distinct' /\ HoldsKeys' /\ InTree' = InTree \ {i}
  BY <1>1, <1>2, <1>3, <1>4, <1>5, OrderWithMinimum
<1>7. Used' = Used \ {i} /\ InTree' = InTree \ {i}
  BY <1>5, <1>6 DEF Spliced
<1> QED
  BY <1>3, <1>6, <1>7, IdleKnows

\* An empty tree is in order.
LEMMA EmptyOrder ==
  (root = NO_VALUE /\ keys = {} /\ At("idle")) => SearchTree
<1> SUFFICES ASSUME root = NO_VALUE, keys = {}, At("idle") PROVE SearchTree
  OBVIOUS
<1>1. InTree = {}
  BY BelowNothing DEF InTree
<1> QED
  BY <1>1 DEF SearchTree, Ordered, Distinct, HoldsKeys, CallKnows, At

LEMMA LifeOrder ==
  ASSUME CreateTree \/ DelTree
  PROVE  SearchTree'
<1>1. (root = NO_VALUE /\ keys = {} /\ At("idle"))'
  BY DEF CreateTree, DelTree, Return, Idle, At
<1>2. (root = NO_VALUE /\ keys = {} /\ At("idle"))' => SearchTree'
  BY EmptyOrder, PTL
<1> QED
  BY <1>1, <1>2

LEMMA OrderKept == IInv /\ SearchTree /\ [Next]_vars => SearchTree'
<1> SUFFICES ASSUME IInv, SearchTree, [Next]_vars PROVE SearchTree'
  OBVIOUS
<1>1. CASE CreateTree \/ DelTree
  BY <1>1, LifeOrder
<1>2. CASE \E n \in Increases : ChangeNumberIncrease(n)
  BY <1>2, ReturnOrder DEF ChangeNumberIncrease, Return
<1>3. CASE \E k \in Keys : AddInTree(k) \/ DelInTreeByData(k)
  BY <1>3, BeginOrder
<1>4. CASE IncreaseCapacity \/ CreateNode \/ PlaceNode
  BY <1>4, IncreaseCapacityOrder, CreateNodeOrder, PlaceNodeOrder DEF SearchTree
<1>5. CASE Descend("place") \/ Descend("search") \/ Hit \/ DeleteWithBoth \/ DescendToMin
  BY <1>5, DescendOrder, HitOrder, ToMinOrder
<1>6. CASE RefuseDuplicate \/ Miss
  BY <1>6, ReturnOrder DEF RefuseDuplicate, Miss, Return
<1>7. CASE DeleteLeaf \/ DeleteRoot \/ DeleteWithRight \/ DeleteWithLeft \/ EraseMin
  BY <1>7, DeleteOrder, EraseMinOrder DEF SearchTree
<1>8. CASE UNCHANGED vars
  <2>1. UNCHANGED <<live, store, history>> /\ call' = call
    BY <1>8 DEF vars
  <2>2. CallKnows => CallKnows'
    <3> SUFFICES ASSUME CallKnows PROVE CallKnows'
      OBVIOUS
    <3>1. /\ At("place") \/ At("search") => OnPath(call.node, call.data)'
          /\ At("delete") \/ At("min") =>
               call.index \in InTree' /\ array_nodes'[call.index].data = call.data
      BY <2>1, CallOnPath, CallTree DEF CallKnows
    <3>2. At("min") => MinIsBelow(call.index, call.node)'
      <4> SUFFICES ASSUME At("min") PROVE MinIsBelow(call.index, call.node)'
        OBVIOUS
      <4> PICK i, n : i = call.index /\ n = call.node
        OBVIOUS
      <4>1. i \in Used /\ n \in Used /\ MinIsBelow(i, n)
        BY DEF CallKnows, IInv, CallSound
      <4>2. MinIsBelow(i, n)'
        BY <2>1, <4>1, CallTree
      <4> QED
        BY <2>1, <4>2 DEF MinIsBelow
    <3> QED
      BY <2>1, <3>1, <3>2 DEF CallKnows, At
  <2> QED
    BY <2>1, <2>2, CallOrder
<1> QED
  BY <1>1, <1>2, <1>3, <1>4, <1>5, <1>6, <1>7, <1>8 DEF Next, Caller, Library

----------------------------------------------------------------------------
(* What a call answers, and what it loses                                  *)

\* Where a search ends without the key, the key is not in the tree.
LEMMA KeyIsAbsent ==
  ASSUME IInv, SearchTree, ~ damaged, At("place") \/ At("search"),
         Here.data # call.data, Towards(call.data, call.node) = NO_VALUE
  PROVE  \A n \in InTree : array_nodes[n].data # call.data
<1>1. Ordered /\ OnPath(call.node, call.data)
  BY DEF SearchTree, CallKnows
<1>2. call.data \in Int
  BY CallFacts, KeysAssumption DEF At
<1> QED
  BY <1>1, <1>2, Absent DEF Here

LEMMA MissRight ==
  ASSUME IInv, SearchTree, ~ damaged, Miss
  PROVE  call.data \notin keys
BY KeyIsAbsent DEF SearchTree, HoldsKeys, Miss

LEMMA RefusalRight ==
  ASSUME IInv, SearchTree, ~ damaged, RefuseDuplicate
  PROVE  call.data \in keys
<1>1. HoldsKeys /\ OnPath(call.node, call.data) /\ array_nodes[call.node].data = call.data
  BY DEF SearchTree, CallKnows, RefuseDuplicate, Here
<1> QED
  BY <1>1 DEF HoldsKeys, OnPath

LEMMA IndexStep ==
  ASSUME IInv, IndexUnset, [Next]_vars
  PROVE  IndexUnset'
<1>1. call \in [step: Steps, data: Keys \cup {NO_VALUE}, index: Links, node: Links]
  BY DEF IInv, TypeOK
<1>2. CASE call' = call
  BY <1>2 DEF IndexUnset, At, Idle
<1>3. CASE call' = Idle
  BY <1>3 DEF IndexUnset, At, Idle
<1>4. CASE Caller
  BY <1>2, <1>3, <1>4 DEF IndexUnset, Caller, CreateTree, DelTree, ChangeNumberIncrease,
     AddInTree, DelInTreeByData, Begin, Return, At, Idle
<1>5. CASE IncreaseCapacity \/ CreateNode
  BY <1>1, <1>3, <1>5 DEF IndexUnset, IncreaseCapacity, CreateNode, Return, At
<1>6. CASE Descend("place") \/ Descend("search") \/ DescendToMin
  BY <1>1, <1>6 DEF IndexUnset, Descend, DescendToMin, MoveTo, At
<1>7. CASE Hit \/ DeleteWithBoth
  BY <1>1, <1>7 DEF IndexUnset, Hit, DeleteWithBoth, At
<1>8. CASE \/ PlaceNode \/ RefuseDuplicate \/ Miss
           \/ DeleteLeaf \/ DeleteRoot \/ DeleteWithRight \/ DeleteWithLeft \/ EraseMin
  BY <1>3, <1>8 DEF PlaceNode, RefuseDuplicate, Miss, DeleteLeaf, DeleteRoot,
     DeleteWithRight, DeleteWithLeft, EraseMin, Erased, Return
<1> QED
  BY <1>2, <1>4, <1>5, <1>6, <1>7, <1>8 DEF Next, Library, vars

\* The nodes in use that are neither in the tree nor being placed there.
Stray == Used \ (InTree \cup {call.index})

LEMMA NoneUsed == IInv /\ used = 0 => Used = {}
<1> SUFFICES ASSUME IInv, used = 0 PROVE Used = {}
  OBVIOUS
<1>1. IsFiniteSet(Used) /\ Cardinality(Used) = 0
  BY IndexFacts DEF IInv, TypeOK, FreeListSound
<1> QED
  BY <1>1, FS_EmptySet

LEMMA StrayStep ==
  ASSUME IInv, SearchTree, IndexUnset, [Next]_vars, ~ damaged'
  PROVE  Stray' \subseteq Stray \/ RefuseDuplicate
<1>1. /\ call \in [step: Steps, data: Keys \cup {NO_VALUE}, index: Links, node: Links]
      /\ NO_VALUE \notin Used
  BY TreeFacts DEF IInv, TypeOK
<1>2. CASE CreateTree \/ DelTree
  <2>1. IInv' /\ used' = 0
    BY <1>2, CreateTreeStep, DelTreeStep DEF CreateTree, DelTree
  <2>2. (IInv /\ used = 0)' => (Used = {})'
    BY NoneUsed, PTL
  <2> QED
    BY <2>1, <2>2 DEF Stray
<1>3. ASSUME UNCHANGED <<live, store, history>>,
             call'.index = call.index \/ call.index = NO_VALUE
             \/ call.index \in InTree
      PROVE  Stray' \subseteq Stray
  <2>1. UNCHANGED <<store, chain>>
    BY <1>3 DEF history
  <2>2. Used' = Used
    BY <2>1, StoreKept DEF IInv
  <2>3. InTree' = InTree
    BY <1>3, CallTree
  <2> QED
    BY <1>1, <1>3, <2>2, <2>3 DEF Stray
<1>4. CASE (\E n \in Increases : ChangeNumberIncrease(n))
           \/ (\E k \in Keys : AddInTree(k) \/ DelInTreeByData(k))
  <2>1. UNCHANGED <<live, store, history>>
    BY <1>4 DEF ChangeNumberIncrease, AddInTree, DelInTreeByData
  <2>2. call.index = NO_VALUE
    BY <1>4 DEF ChangeNumberIncrease, AddInTree, DelInTreeByData, Begin, At, IndexUnset
  <2> QED
    BY <2>1, <2>2, <1>3
<1>5. CASE Hit \/ Miss
  <2>1. UNCHANGED <<live, store, history>> /\ call.index = NO_VALUE
    BY <1>5 DEF Hit, Miss, At, IndexUnset
  <2> QED
    BY <2>1, <1>3
<1>6. CASE Descend("place") \/ Descend("search") \/ DeleteWithBoth \/ DescendToMin
  <2>1. UNCHANGED <<live, store, history>>
    BY <1>6 DEF Descend, DeleteWithBoth, DescendToMin
  <2>2. call'.index = call.index
    BY <1>1, <1>6 DEF Descend, DeleteWithBoth, DescendToMin, MoveTo
  <2> QED
    BY <2>1, <2>2, <1>3
<1>7. CASE UNCHANGED vars
  <2>1. UNCHANGED <<live, store, history>> /\ call'.index = call.index
    BY <1>7 DEF vars
  <2> QED
    BY <2>1, <1>3
<1>8. CASE IncreaseCapacity
  <2>1. call.index = NO_VALUE
    BY <1>8 DEF IncreaseCapacity, At, IndexUnset
  <2>2. /\ Used' = Used /\ \A n \in Used : array_nodes'[n] = array_nodes[n]
        /\ root' = root
    BY <1>8, IncreaseCapacityStep DEF IncreaseCapacity
  <2>3. InTree' = InTree
    BY <2>2, TreeKept
  <2> QED
    BY <1>1, <2>1, <2>2, <2>3 DEF Stray
<1>9. CASE CreateNode
  <2>1. call.index = NO_VALUE
    BY <1>9 DEF CreateNode, At, IndexUnset
  <2>2. Used' = Used \cup {free_node}
    BY <1>9, CreateNodeStep
  <2>3. InTree' = IF root = NO_VALUE THEN {free_node} ELSE InTree
    BY <1>9, CreateNodeOrder
  <2>4. CASE root = NO_VALUE
    <3>1. InTree = {}
      BY <2>4, TreeFacts
    <3> QED
      BY <1>1, <2>1, <2>2, <2>3, <2>4, <3>1 DEF Stray
  <2>5. CASE root # NO_VALUE
    <3>1. call'.index = free_node
      BY <1>1, <1>9, <2>5 DEF CreateNode
    <3> QED
      BY <1>1, <2>1, <2>2, <2>3, <2>5, <3>1 DEF Stray
  <2> QED
    BY <2>4, <2>5
<1>10. CASE PlaceNode
  BY <1>10, PlaceNodeOrder DEF Stray
<1>11. CASE DeleteLeaf \/ DeleteRoot \/ DeleteWithRight \/ DeleteWithLeft
  <2>1. Used' = Used \ {call.index} /\ InTree' = InTree \ {call.index}
    BY <1>11, DeleteOrder
  <2> QED
    BY <2>1 DEF Stray
<1>12. CASE EraseMin
  <2>1. Used' = Used \ {call.node} /\ InTree' = InTree \ {call.node}
    BY <1>12, EraseMinOrder
  <2>2. call.index \in InTree /\ call'.index = NO_VALUE
    BY <1>12 DEF EraseMin, SearchTree, CallKnows, Erased, Return, Idle
  <2> QED
    BY <2>1, <2>2 DEF Stray
<1> QED
  BY <1>2, <1>4, <1>5, <1>6, <1>7, <1>8, <1>9, <1>10, <1>11, <1>12
     DEF Next, Caller, Library

----------------------------------------------------------------------------
(* The walk                                                                *)

\* What holds of a node when it holds of its children holds of every node in use.
LEMMA FromTheLeaves ==
  ASSUME Acyclic, NEW P,
         \A n \in Used : /\ array_nodes[n].left \in Used => array_nodes[n].left \in P
                         /\ array_nodes[n].right \in Used => array_nodes[n].right \in P
                         => n \in P
  PROVE  Used \subseteq P
<1> SUFFICES ASSUME Used \ P # {} PROVE FALSE
  OBVIOUS
<1>1. PICK n \in Used \ P : /\ array_nodes[n].left \notin Used \ P
                           /\ array_nodes[n].right \notin Used \ P
  BY DEF Acyclic
<1> QED
  BY <1>1

LEMMA Concatenated ==
  ASSUME NEW X, NEW s \in Seq(X), NEW t \in Seq(X)
  PROVE  /\ s \o t \in Seq(X) /\ Len(s \o t) = Len(s) + Len(t)
         /\ \A j \in 1..Len(s) : (s \o t)[j] = s[j]
         /\ \A j \in 1..Len(t) : (s \o t)[Len(s) + j] = t[j]
OBVIOUS

\* A walk's sequence: what is left of a node, the node, what is right of it.
LEMMA Joined ==
  ASSUME NEW X, NEW s \in Seq(X), NEW i \in X, NEW t \in Seq(X)
  PROVE  LET w == s \o <<i>> \o t IN
         /\ w \in Seq(X) /\ Len(w) = Len(s) + 1 + Len(t)
         /\ \A j \in 1..Len(s) : w[j] = s[j]
         /\ w[Len(s) + 1] = i
         /\ \A j \in 1..Len(t) : w[Len(s) + 1 + j] = t[j]
         /\ \A j \in 1..Len(w) : \/ j \in 1..Len(s) \/ j = Len(s) + 1
                                 \/ j - (Len(s) + 1) \in 1..Len(t)
         /\ Elements(w) = Elements(s) \cup {i} \cup Elements(t)
<1> DEFINE u == s \o <<i>>
           w == s \o <<i>> \o t
<1>1. /\ Len(s) \in Nat /\ Len(t) \in Nat
      /\ DOMAIN s = 1..Len(s) /\ DOMAIN t = 1..Len(t)
  OBVIOUS
<1>2. /\ u \in Seq(X) /\ Len(u) = Len(s) + 1
      /\ \A j \in 1..Len(s) : u[j] = s[j]
      /\ u[Len(s) + 1] = i
  <2>1. <<i>> \in Seq(X) /\ Len(<<i>>) = 1 /\ <<i>>[1] = i /\ 1 \in 1..1
    OBVIOUS
  <2> QED
    BY <2>1, Concatenated
<1>3. /\ w \in Seq(X) /\ Len(w) = Len(s) + 1 + Len(t) /\ DOMAIN w = 1..Len(w)
      /\ \A j \in 1..(Len(s) + 1) : w[j] = u[j]
      /\ \A j \in 1..Len(t) : w[Len(s) + 1 + j] = t[j]
  <2>1. w = u \o t
    OBVIOUS
  <2> HIDE DEF u, w
  <2>2. /\ w \in Seq(X) /\ Len(w) = Len(u) + Len(t)
        /\ \A j \in 1..Len(u) : w[j] = u[j]
        /\ \A j \in 1..Len(t) : w[Len(u) + j] = t[j]
    <3>1. u \in Seq(X)
      BY <1>2
    <3>2. /\ u \o t \in Seq(X) /\ Len(u \o t) = Len(u) + Len(t)
          /\ \A j \in 1..Len(u) : (u \o t)[j] = u[j]
          /\ \A j \in 1..Len(t) : (u \o t)[Len(u) + j] = t[j]
      BY ONLY <3>1, Concatenated, t \in Seq(X)
    <3> QED
      BY <2>1, <3>2
  <2> QED
    BY <1>1, <1>2, <2>2
<1>4. /\ \A j \in 1..Len(s) : w[j] = s[j] /\ j \in 1..Len(w)
      /\ w[Len(s) + 1] = i /\ Len(s) + 1 \in 1..Len(w)
  <2> HIDE DEF u, w
  <2> QED
    BY <1>1, <1>2, <1>3
<1>5. \A j \in 1..Len(w) : \/ j \in 1..Len(s) \/ j = Len(s) + 1
                           \/ j - (Len(s) + 1) \in 1..Len(t)
  <2> HIDE DEF w
  <2> QED
    BY <1>1, <1>3
<1>6. ASSUME NEW x \in Elements(w) PROVE x \in Elements(s) \cup {i} \cup Elements(t)
  <2> HIDE DEF w
  <2>1. PICK j \in 1..Len(w) : x = w[j]
    BY <1>3, <1>6 DEF Elements
  <2>2. CASE j \in 1..Len(s)
    BY <1>1, <1>4, <2>1, <2>2 DEF Elements
  <2>3. CASE j = Len(s) + 1
    BY <1>4, <2>1, <2>3
  <2>4. CASE j - (Len(s) + 1) \in 1..Len(t)
    <3>1. Len(s) + 1 + (j - (Len(s) + 1)) = j
      BY <1>1, <2>1, <1>3
    <3>2. w[j] = t[j - (Len(s) + 1)]
      BY <1>3, <2>4, <3>1
    <3> QED
      BY <1>1, <2>1, <2>4, <3>2 DEF Elements
  <2> QED
    BY <1>5, <2>1, <2>2, <2>3, <2>4
<1>7. Elements(s) \subseteq Elements(w) /\ i \in Elements(w)
  <2> HIDE DEF w
  <2> QED
    BY <1>1, <1>3, <1>4 DEF Elements
<1>8. ASSUME NEW j \in 1..Len(t) PROVE t[j] \in Elements(w)
  <2> HIDE DEF w
  <2>1. Len(s) + 1 + j \in 1..Len(w)
    BY <1>1, <1>3
  <2> QED
    BY <1>3, <2>1 DEF Elements
<1>9. Elements(w) = Elements(s) \cup {i} \cup Elements(t)
  BY <1>1, <1>6, <1>7, <1>8 DEF Elements
<1> HIDE DEF w
<1>10. /\ w \in Seq(X) /\ Len(w) = Len(s) + 1 + Len(t)
       /\ \A j \in 1..Len(s) : w[j] = s[j]
       /\ w[Len(s) + 1] = i
       /\ \A j \in 1..Len(t) : w[Len(s) + 1 + j] = t[j]
       /\ \A j \in 1..Len(w) : \/ j \in 1..Len(s) \/ j = Len(s) + 1
                               \/ j - (Len(s) + 1) \in 1..Len(t)
       /\ Elements(w) = Elements(s) \cup {i} \cup Elements(t)
  BY <1>3, <1>4, <1>5, <1>9
<1> QED
  BY <1>10 DEF w

\* The subtrees on the two sides of a node have no node in common.
LEMMA SidesApart ==
  ASSUME LinksSound, Acyclic, NO_VALUE \notin Used, NEW n \in Used
  PROVE  Below(array_nodes[n].left) \cap Below(array_nodes[n].right) = {}
<1> DEFINE l == array_nodes[n].left
           r == array_nodes[n].right
           T == Below(l) \ Below(r)
<1>1. n \notin Below(l) /\ n \notin Below(r)
  BY NotBelowItself
<1>2. CASE l = NO_VALUE \/ r = NO_VALUE
  BY <1>2, BelowNothing
<1>3. CASE l # NO_VALUE /\ r # NO_VALUE
  <2>1. /\ l \in Used /\ r \in Used /\ l # r
        /\ array_nodes[l].parent = n /\ array_nodes[r].parent = n
    BY <1>3 DEF LinksSound
  <2>2. l \notin Below(r) /\ r \notin Below(l)
    BY <1>1, <2>1, BelowParent
  <2>3. Closed(T) /\ T \in SUBSET Used
    <3> SUFFICES ASSUME NEW m \in T, NEW c \in {array_nodes[m].left, array_nodes[m].right},
                        c # NO_VALUE
                 PROVE  c \in T
      BY BelowUsed DEF Closed
    <3>1. m \in Used /\ c \in Below(l)
      BY BelowUsed, BelowClosed
    <3>2. array_nodes[c].parent = m
      BY <3>1 DEF LinksSound
    <3>3. c \notin Below(r)
      BY <2>1, <2>2, <3>1, <3>2, BelowParent
    <3> QED
      BY <3>1, <3>3
  <2>4. l \in T
    BY <2>1, <2>2, BelowSelf
  <2>5. Below(l) \subseteq T
    BY <2>3, <2>4, BelowLeast
  <2> QED
    BY <2>5
<1> QED
  BY <1>2, <1>3

Nodes == Used \cup {NO_VALUE}

\* f is the walk of the subtree of n.
WalksOn(n, f) ==
  /\ f \in [Nodes -> Seq(Used)]
  /\ f[NO_VALUE] = <<>>
  /\ \A m \in Below(n) : f[m] = f[array_nodes[m].left] \o <<m>> \o f[array_nodes[m].right]

\* Such walks agree where they overlap.
LEMMA WalksAgree ==
  ASSUME LinksSound, Acyclic, NO_VALUE \notin Used,
         NEW n \in Used, NEW f, WalksOn(n, f),
         NEW m \in Below(n) \cup {NO_VALUE}, NEW g, WalksOn(m, g)
  PROVE  f[m] = g[m]
<1>1. CASE m = NO_VALUE
  BY <1>1 DEF WalksOn
<1>2. CASE m # NO_VALUE
  <2> DEFINE S == {q \in Below(m) : f[q] # g[q]}
  <2>1. Below(m) \subseteq Below(n) /\ Below(m) \subseteq Used /\ m \in Below(m)
    BY <1>2, BelowBelow, BelowUsed, BelowSelf
  <2>2. S = {}
    <3> SUFFICES ASSUME S # {} PROVE FALSE
      OBVIOUS
    <3>1. PICK q \in S : array_nodes[q].left \notin S /\ array_nodes[q].right \notin S
      BY <2>1 DEF Acyclic
    <3>2. /\ array_nodes[q].left \in Below(m) \cup {NO_VALUE}
          /\ array_nodes[q].right \in Below(m) \cup {NO_VALUE}
      BY <3>1, BelowClosed
    <3>3. /\ f[array_nodes[q].left] = g[array_nodes[q].left]
          /\ f[array_nodes[q].right] = g[array_nodes[q].right]
      BY <3>1, <3>2 DEF WalksOn
    <3>4. f[q] = g[q]
      BY <2>1, <3>1, <3>3 DEF WalksOn
    <3> QED
      BY <3>1, <3>4
  <2> QED
    BY <2>1, <2>2
<1> QED
  BY <1>1, <1>2

\* Every subtree has one.
LEMMA WalkExists ==
  ASSUME LinksSound, Acyclic, NO_VALUE \notin Used
  PROVE  \A n \in Used : \E f : WalksOn(n, f)
<1> DEFINE P == {n \in Used : \E f : WalksOn(n, f)}
<1>1. ASSUME NEW n \in Used,
             array_nodes[n].left \in Used => array_nodes[n].left \in P,
             array_nodes[n].right \in Used => array_nodes[n].right \in P
      PROVE  n \in P
  <2> DEFINE l == array_nodes[n].left
             r == array_nodes[n].right
  <2>1. \A c \in {l, r} : c \in P \cup {NO_VALUE}
    BY <1>1 DEF LinksSound
  <2>2. \A c \in P \cup {NO_VALUE} : \E f : WalksOn(c, f)
    <3>1. WalksOn(NO_VALUE, [m \in Nodes |-> <<>>])
      BY BelowNothing DEF WalksOn, Nodes
    <3> QED
      BY <3>1
  <2>3. PICK f : WalksOn(l, f)
    BY <2>1, <2>2
  <2>4. PICK g : WalksOn(r, g)
    BY <2>1, <2>2
  <2> DEFINE w == f[l] \o <<n>> \o g[r]
             h == [m \in Nodes |-> IF m \in Below(l) THEN f[m]
                                   ELSE IF m \in Below(r) THEN g[m]
                                   ELSE IF m = n THEN w ELSE <<>>]
  <2>5. /\ l \in Nodes /\ r \in Nodes /\ Below(l) \subseteq Used /\ Below(r) \subseteq Used
        /\ n \notin Below(l) /\ n \notin Below(r)
        /\ Below(l) \cap Below(r) = {}
        /\ Below(n) = {n} \cup Below(l) \cup Below(r)
    BY <2>1, BelowUsed, NotBelowItself, SidesApart, BelowSplit DEF Nodes
  <2>6. w \in Seq(Used)
    <3>1. f[l] \in Seq(Used) /\ g[r] \in Seq(Used)
      BY <2>3, <2>4, <2>5 DEF WalksOn
    <3> QED
      BY <3>1, Joined
  <2> HIDE DEF w
  <2>7. h \in [Nodes -> Seq(Used)] /\ h[NO_VALUE] = <<>>
    <3>1. \A m \in Nodes : f[m] \in Seq(Used) /\ g[m] \in Seq(Used)
      BY <2>3, <2>4 DEF WalksOn
    <3>2. <<>> \in Seq(Used)
      OBVIOUS
    <3>3. h \in [Nodes -> Seq(Used)]
      BY <2>6, <3>1, <3>2
    <3>4. NO_VALUE \in Nodes /\ NO_VALUE \notin Below(l) /\ NO_VALUE \notin Below(r) /\ NO_VALUE # n
      BY <2>5 DEF Nodes
    <3> QED
      BY <3>3, <3>4
  <2>8. /\ \A m \in Below(l) \cup {NO_VALUE} : h[m] = f[m]
        /\ \A m \in Below(r) \cup {NO_VALUE} : h[m] = g[m]
        /\ h[n] = w
    <3>1. f[NO_VALUE] = <<>> /\ g[NO_VALUE] = <<>>
      BY <2>3, <2>4 DEF WalksOn
    <3>2. n \in Nodes /\ Below(l) \subseteq Nodes /\ Below(r) \subseteq Nodes
      BY <2>5 DEF Nodes
    <3> QED
      BY <2>5, <2>7, <3>1, <3>2
  <2> HIDE DEF h
  <2>9. ASSUME NEW m \in Below(n)
        PROVE  h[m] = h[array_nodes[m].left] \o <<m>> \o h[array_nodes[m].right]
    <3>1. CASE m = n
      <4>1. l \in Below(l) \cup {NO_VALUE} /\ r \in Below(r) \cup {NO_VALUE}
        BY <2>1, BelowSelf
      <4>2. h[l] = f[l] /\ h[r] = g[r]
        BY <2>8, <4>1
      <4> QED
        BY <2>8, <3>1, <4>2 DEF w
    <3>2. CASE m \in Below(l)
      <4>1. /\ array_nodes[m].left \in Below(l) \cup {NO_VALUE}
            /\ array_nodes[m].right \in Below(l) \cup {NO_VALUE}
        BY <3>2, BelowClosed
      <4>2. f[m] = f[array_nodes[m].left] \o <<m>> \o f[array_nodes[m].right]
        BY <2>3, <3>2 DEF WalksOn
      <4> QED
        BY <2>8, <3>2, <4>1, <4>2
    <3>3. CASE m \in Below(r)
      <4>1. /\ array_nodes[m].left \in Below(r) \cup {NO_VALUE}
            /\ array_nodes[m].right \in Below(r) \cup {NO_VALUE}
        BY <3>3, BelowClosed
      <4>2. g[m] = g[array_nodes[m].left] \o <<m>> \o g[array_nodes[m].right]
        BY <2>4, <3>3 DEF WalksOn
      <4> QED
        BY <2>8, <3>3, <4>1, <4>2
    <3> QED
      BY <2>5, <3>1, <3>2, <3>3
  <2>10. WalksOn(n, h)
    BY <2>7, <2>9 DEF WalksOn
  <2> QED
    BY <2>10
<1> HIDE DEF P
<1>2. Used \subseteq P
  BY <1>1, FromTheLeaves
<1> QED
  BY <1>2 DEF P

\* goRoundTree ends on every node, with what its definition says.
LEMMA WalkFacts ==
  ASSUME IInv
  PROVE  /\ GoRoundTree[NO_VALUE] = <<>>
         /\ \A n \in Used :
              /\ GoRoundTree[n] \in Seq(Used)
              /\ GoRoundTree[n] = GoRoundTree[array_nodes[n].left] \o <<n>> \o
                                  GoRoundTree[array_nodes[n].right]
<1>1. LinksSound /\ Acyclic /\ NO_VALUE \notin Used
  BY TreeFacts
<1> DEFINE F(n) == CHOOSE f : WalksOn(n, f)
           g == [n \in Nodes |-> IF n = NO_VALUE THEN <<>> ELSE F(n)[n]]
<1>2. \A n \in Used : WalksOn(n, F(n))
  BY <1>1, WalkExists
<1> HIDE DEF F
<1>3. ASSUME NEW n \in Used
      PROVE  g[n] = g[array_nodes[n].left] \o <<n>> \o g[array_nodes[n].right]
  <2>1. ASSUME NEW c \in {array_nodes[n].left, array_nodes[n].right}
        PROVE  F(n)[c] = g[c] /\ c \in Nodes
    <3>1. CASE c = NO_VALUE
      BY <1>2, <3>1 DEF WalksOn, Nodes
    <3>2. CASE c # NO_VALUE
      <4>1. c \in Used /\ c \in Below(n)
        BY <1>1, <3>2, BelowSelf, BelowClosed DEF LinksSound
      <4>2. F(n)[c] = F(c)[c]
        BY <1>1, <1>2, <4>1, WalksAgree
      <4> QED
        BY <3>2, <4>1, <4>2 DEF Nodes
    <3> QED
      BY <3>1, <3>2
  <2>2. g[n] = F(n)[n]
    BY <1>1 DEF Nodes
  <2>3. F(n)[n] = F(n)[array_nodes[n].left] \o <<n>> \o F(n)[array_nodes[n].right]
    BY <1>1, <1>2, BelowSelf DEF WalksOn
  <2> HIDE DEF g
  <2> QED
    BY <2>1, <2>2, <2>3
<1>4. g[NO_VALUE] = <<>> /\ g = [n \in Nodes |-> g[n]]
  BY DEF Nodes
<1> HIDE DEF g
<1>5. g = [i \in Used \cup {NO_VALUE} |->
             IF i = NO_VALUE THEN <<>>
             ELSE g[array_nodes[i].left] \o <<i>> \o g[array_nodes[i].right]]
  BY <1>1, <1>3, <1>4 DEF Nodes
<1>6. GoRoundTree = [i \in Used \cup {NO_VALUE} |->
             IF i = NO_VALUE THEN <<>>
             ELSE GoRoundTree[array_nodes[i].left] \o <<i>> \o
                  GoRoundTree[array_nodes[i].right]]
  BY <1>5 DEF GoRoundTree
<1>7. GoRoundTree[NO_VALUE] = <<>>
  BY <1>6
<1>8. \A n \in Used :
        GoRoundTree[n] = GoRoundTree[array_nodes[n].left] \o <<n>> \o
                         GoRoundTree[array_nodes[n].right]
  BY <1>1, <1>6
<1>9. \A n \in Used : GoRoundTree[n] \in Seq(Used)
  <2> DEFINE P == {n \in Used : GoRoundTree[n] \in Seq(Used)}
  <2>1. ASSUME NEW n \in Used,
               array_nodes[n].left \in Used => array_nodes[n].left \in P,
               array_nodes[n].right \in Used => array_nodes[n].right \in P
        PROVE  n \in P
    <3>1. ASSUME NEW c \in {array_nodes[n].left, array_nodes[n].right}
          PROVE  GoRoundTree[c] \in Seq(Used)
      <4>1. CASE c = NO_VALUE
        <5>1. <<>> \in Seq(Used)
          OBVIOUS
        <5> QED
          BY <1>7, <4>1, <5>1
      <4>2. CASE c # NO_VALUE
        <5>1. c \in Used
          BY <1>1, <4>2 DEF LinksSound
        <5> QED
          BY <2>1, <5>1
      <4> QED
        BY <4>1, <4>2
    <3>2. GoRoundTree[array_nodes[n].left] \o <<n>> \o GoRoundTree[array_nodes[n].right]
            \in Seq(Used)
      BY <3>1, Joined
    <3> QED
      BY <1>8, <3>2
  <2> HIDE DEF P
  <2>2. Used \subseteq P
    BY <1>1, <2>1, FromTheLeaves
  <2> QED
    BY <2>2 DEF P
<1> QED
  BY <1>7, <1>8, <1>9

\* It visits the nodes of a subtree, those and no others.
LEMMA WalkVisits ==
  ASSUME IInv
  PROVE  \A n \in Used \cup {NO_VALUE} : Elements(GoRoundTree[n]) = Below(n)
<1>1. LinksSound /\ Acyclic /\ NO_VALUE \notin Used
  BY TreeFacts
<1>2. Elements(GoRoundTree[NO_VALUE]) = Below(NO_VALUE)
  <2>1. Elements(<<>>) = {}
    BY DEF Elements
  <2> QED
    BY <2>1, WalkFacts, BelowNothing
<1> DEFINE P == {n \in Used : Elements(GoRoundTree[n]) = Below(n)}
<1>3. ASSUME NEW n \in Used,
             array_nodes[n].left \in Used => array_nodes[n].left \in P,
             array_nodes[n].right \in Used => array_nodes[n].right \in P
      PROVE  n \in P
  <2>1. ASSUME NEW c \in {array_nodes[n].left, array_nodes[n].right}
        PROVE  Elements(GoRoundTree[c]) = Below(c) /\ GoRoundTree[c] \in Seq(Used)
    <3>1. CASE c = NO_VALUE
      <4>1. <<>> \in Seq(Used)
        OBVIOUS
      <4> QED
        BY <1>2, <3>1, <4>1, WalkFacts
    <3>2. CASE c # NO_VALUE
      <4>1. c \in Used
        BY <1>1, <3>2 DEF LinksSound
      <4> QED
        BY <1>3, <4>1, WalkFacts
    <3> QED
      BY <3>1, <3>2
  <2>2. Elements(GoRoundTree[array_nodes[n].left] \o <<n>> \o GoRoundTree[array_nodes[n].right])
          = Below(array_nodes[n].left) \cup {n} \cup Below(array_nodes[n].right)
    BY <2>1, Joined
  <2>3. Elements(GoRoundTree[n]) = Below(n)
    BY <1>1, <2>2, WalkFacts, BelowSplit
  <2> QED
    BY <2>3
<1> HIDE DEF P
<1>4. Used \subseteq P
  BY <1>1, <1>3, FromTheLeaves
<1> QED
  BY <1>2, <1>4 DEF P

\* A walk lists smaller data first.
Rising(s) ==
  \A i, j \in 1..Len(s) :
    i < j => array_nodes[s[i]].data < array_nodes[s[j]].data

LEMMA JoinedRises ==
  ASSUME NEW s \in Seq(Used), NEW i \in Used, NEW t \in Seq(Used),
         Rising(s), Rising(t), \A n \in Used : array_nodes[n].data \in Int,
         \A m \in Elements(s) : array_nodes[m].data < array_nodes[i].data,
         \A m \in Elements(t) : array_nodes[i].data < array_nodes[m].data
  PROVE  Rising(s \o <<i>> \o t)
<1> DEFINE w == s \o <<i>> \o t
           d(n) == array_nodes[n].data
<1>1. /\ w \in Seq(Used) /\ Len(w) = Len(s) + 1 + Len(t)
      /\ \A j \in 1..Len(s) : w[j] = s[j]
      /\ w[Len(s) + 1] = i
      /\ \A j \in 1..Len(t) : w[Len(s) + 1 + j] = t[j]
      /\ \A j \in 1..Len(w) : \/ j \in 1..Len(s) \/ j = Len(s) + 1
                              \/ j - (Len(s) + 1) \in 1..Len(t)
      /\ Len(s) \in Nat /\ Len(t) \in Nat
  BY Joined
<1>2. /\ \A j \in 1..Len(s) : s[j] \in Elements(s) /\ s[j] \in Used
      /\ \A j \in 1..Len(t) : t[j] \in Elements(t) /\ t[j] \in Used
  BY DEF Elements
<1> HIDE DEF w
<1> SUFFICES ASSUME NEW a \in 1..Len(w), NEW b \in 1..Len(w), a < b
             PROVE  array_nodes[w[a]].data < array_nodes[w[b]].data
  BY DEF Rising, w
<1>3. CASE b \in 1..Len(s)
  <2>1. a \in 1..Len(s)
    BY <1>1, <1>3
  <2> QED
    BY <1>1, <1>3, <2>1 DEF Rising
<1>4. CASE b = Len(s) + 1
  <2>1. a \in 1..Len(s)
    BY <1>1, <1>4
  <2> QED
    BY <1>1, <1>2, <1>4, <2>1
<1>5. CASE b - (Len(s) + 1) \in 1..Len(t)
  <2> DEFINE y == b - (Len(s) + 1)
  <2>1. w[b] = t[y] /\ y \in 1..Len(t)
    <3>1. Len(s) + 1 + y = b
      BY <1>1
    <3> QED
      BY <1>1, <1>5, <3>1
  <2>2. array_nodes[i].data < array_nodes[t[y]].data /\ t[y] \in Used
    BY <1>2, <2>1
  <2> HIDE DEF y
  <2>3. CASE a \in 1..Len(s)
    <3>1. array_nodes[s[a]].data < array_nodes[i].data /\ s[a] \in Used
      BY <1>2, <2>3
    <3>2. array_nodes[s[a]].data < array_nodes[t[y]].data
      BY <2>2, <3>1
    <3> QED
      BY <1>1, <2>1, <2>3, <3>2
  <2>4. CASE a = Len(s) + 1
    BY <1>1, <2>1, <2>2, <2>4
  <2>5. CASE a - (Len(s) + 1) \in 1..Len(t)
    <3> DEFINE x == a - (Len(s) + 1)
    <3>1. Len(s) + 1 + x = a /\ x < y
      BY <1>1 DEF y
    <3>2. w[a] = t[x] /\ x \in 1..Len(t)
      BY <1>1, <2>5, <3>1
    <3> QED
      BY <2>1, <3>1, <3>2 DEF Rising
  <2> QED
    BY <1>1, <2>3, <2>4, <2>5
<1> QED
  BY <1>1, <1>3, <1>4, <1>5

LEMMA WalkRises ==
  ASSUME IInv, Ordered
  PROVE  \A n \in InTree : Rising(GoRoundTree[n])
<1>1. /\ LinksSound /\ Acyclic /\ NO_VALUE \notin Used /\ InTree \in SUBSET Used
      /\ \A n \in Used : array_nodes[n].data \in Int
      /\ \A n \in InTree : /\ n \in Below(n) /\ Below(n) \subseteq InTree
  BY TreeFacts
<1> DEFINE P == {n \in Used : n \in InTree => Rising(GoRoundTree[n])}
<1>2. ASSUME NEW n \in Used,
             array_nodes[n].left \in Used => array_nodes[n].left \in P,
             array_nodes[n].right \in Used => array_nodes[n].right \in P
      PROVE  n \in P
  <2> SUFFICES ASSUME n \in InTree PROVE Rising(GoRoundTree[n])
    OBVIOUS
  <2> DEFINE s == GoRoundTree[array_nodes[n].left]
             t == GoRoundTree[array_nodes[n].right]
  <2>1. ASSUME NEW c \in {array_nodes[n].left, array_nodes[n].right}
        PROVE  /\ GoRoundTree[c] \in Seq(Used) /\ Rising(GoRoundTree[c])
               /\ Elements(GoRoundTree[c]) = Below(c)
    <3>1. CASE c = NO_VALUE
      <4>1. <<>> \in Seq(Used) /\ Rising(<<>>)
        BY DEF Rising
      <4> QED
        BY <3>1, <4>1, WalkFacts, WalkVisits
    <3>2. CASE c # NO_VALUE
      <4>1. c \in Used /\ c \in Below(n)
        BY <1>1, <3>2, BelowClosed
      <4>2. c \in InTree
        BY <1>1, <4>1
      <4> QED
        BY <1>2, <4>1, <4>2, WalkFacts, WalkVisits
    <3> QED
      BY <3>1, <3>2
  <2>2. /\ \A m \in Elements(s) : array_nodes[m].data < array_nodes[n].data
        /\ \A m \in Elements(t) : array_nodes[n].data < array_nodes[m].data
    BY <2>1 DEF Ordered
  <2>3. s \in Seq(Used) /\ t \in Seq(Used) /\ Rising(s) /\ Rising(t)
    BY <2>1
  <2>4. GoRoundTree[n] = s \o <<n>> \o t
    BY WalkFacts
  <2> HIDE DEF s, t
  <2> QED
    BY <1>1, <2>2, <2>3, <2>4, JoinedRises
<1> HIDE DEF P
<1>3. Used \subseteq P
  BY <1>1, <1>2, FromTheLeaves
<1> QED
  BY <1>1, <1>3 DEF P

----------------------------------------------------------------------------
(* The theorems about the walk                                             *)

LEMMA WalkOfTree ==
  ASSUME IInv
  PROVE  ForEachTree \in Seq(Used) /\ Elements(ForEachTree) = InTree
<1>1. root \in Used \cup {NO_VALUE} /\ <<>> \in Seq(Used)
  BY TreeFacts
<1> QED
  BY <1>1, WalkFacts, WalkVisits DEF ForEachTree, InTree

LEMMA SortedWalk == IInv /\ SearchTree => WalkIsSorted
<1> SUFFICES ASSUME IInv, SearchTree, ~ damaged
             PROVE  Ascending(Visited) /\ Elements(Visited) = keys
  BY DEF WalkIsSorted
<1> DEFINE w == ForEachTree
<1>1. w \in Seq(Used) /\ Elements(w) = InTree /\ DOMAIN w = 1..Len(w)
  BY WalkOfTree
<1>2. Ordered /\ HoldsKeys
  BY DEF SearchTree
<1>3. Rising(w)
  <2>1. CASE root = NO_VALUE
    <3>1. Len(<<>>) = 0
      OBVIOUS
    <3> QED
      BY <2>1, <3>1, WalkFacts DEF ForEachTree, Rising
  <2>2. CASE root # NO_VALUE
    BY <1>2, <2>2, TreeFacts, WalkRises DEF ForEachTree
  <2> QED
    BY <2>1, <2>2
<1>4. /\ DOMAIN Visited = DOMAIN w
      /\ \A j \in DOMAIN w : Visited[j] = array_nodes[w[j]].data
  BY DEF Visited
<1>5. Ascending(Visited)
  BY <1>1, <1>3, <1>4 DEF Ascending, Rising
<1>6. Elements(Visited) = {array_nodes[n].data : n \in Elements(w)}
  BY <1>4 DEF Elements
<1> QED
  BY <1>1, <1>2, <1>5, <1>6 DEF HoldsKeys

LEMMA LostIsStray == IInv => Lost = Stray
BY WalkOfTree DEF Lost, Stray

\* The order holds in every state of every behaviour of tree.c.
THEOREM SearchOrder == Spec => []SearchTree
<1>1. Init => SearchTree
  BY EmptyOrder DEF Init, Idle, At
<1> QED
  BY <1>1, OrderKept, Invariance, PTL DEF Spec

\* forEachTree visits in ascending order the keys that were added and not
\* deleted, after every single step of every call, until a deletion has damaged
\* the tree: whatever the keys, the capacities, and the allocations that fail.
THEOREM SortedWalks == Spec => []WalkIsSorted
<1> QED
  BY SortedWalk, SearchOrder, Invariance, PTL

\* Until then delInTreeByData says that a key is absent only when it is, and
\* addInTree refuses a key only when it is there.
THEOREM RightAnswers == Spec => AnswersAreRight
<1>1. IInv /\ SearchTree /\ [Next]_vars =>
        [~ damaged => /\ Miss => call.data \notin keys
                      /\ RefuseDuplicate => call.data \in keys]_vars
  BY MissRight, RefusalRight
<1> QED
  BY <1>1, SearchOrder, Invariance, PTL DEF Spec, AnswersAreRight

LEMMA IndexInvariance == Spec => []IndexUnset
<1>1. Init => IndexUnset
  BY DEF Init, Idle, IndexUnset
<1>2. IInv /\ IndexUnset /\ [Next]_vars => IndexUnset'
  BY IndexStep
<1> QED
  BY <1>1, <1>2, Invariance, PTL DEF Spec

\* Until then a node that is in use and out of reach is one that addInTree took
\* for a key that was there already (tree.c:124-133): no other step of any call
\* loses a node.
THEOREM LostNodes == Spec => OnlyDuplicatesAreLost
<1>1. IInv' => (Lost = Stray)'
  BY LostIsStray, PTL
<1>2. IInv /\ IInv' /\ SearchTree /\ IndexUnset /\ [Next]_vars =>
        [~ damaged' /\ ~ (Lost' \subseteq Lost) => RefuseDuplicate]_vars
  BY <1>1, LostIsStray, StrayStep
<1> QED
  BY <1>2, IndexInvariance, SearchOrder, Invariance, PTL DEF Spec, OnlyDuplicatesAreLost

----------------------------------------------------------------------------
(* The tree implements a set of ints                                       *)

LEMMA DescendInTree ==
  ASSUME IInv, NEW n \in InTree,
         NEW m \in {array_nodes[n].left, array_nodes[n].right}, m # NO_VALUE
  PROVE  m \in InTree
BY TreeFacts, BelowClosed DEF InTree

LEMMA CallInTreeStep ==
  ASSUME IInv, CallInTree, [Next]_vars
  PROVE  CallInTree'
<1> USE DEF CallInTree
<1>1. ASSUME call'.step \in {"idle", "grow", "create"} PROVE CallInTree'
  BY <1>1 DEF At
<1>2. ASSUME UNCHANGED <<live, store, history>>
      PROVE  InTree' = InTree /\ array_nodes' = array_nodes
  BY <1>2, CallTree
<1>3. ASSUME ~ At("idle")
      PROVE  call = [step |-> call.step, data |-> call.data,
                     index |-> call.index, node |-> call.node]
  BY <1>3, CallFacts
<1>4. CASE CreateTree \/ DelTree \/ \E n \in Increases : ChangeNumberIncrease(n)
  <2>1. call'.step = "idle"
    BY <1>4 DEF CreateTree, DelTree, ChangeNumberIncrease, Return, Idle, At
  <2> QED
    BY <1>1, <2>1
<1>5. CASE \E k \in Keys : AddInTree(k)
  BY <1>1, <1>5 DEF AddInTree, Begin, Idle
<1>6. CASE \E k \in Keys : DelInTreeByData(k)
  <2>1. CASE root = NO_VALUE
    BY <1>1, <1>6, <2>1 DEF DelInTreeByData, Return, Idle
  <2>2. CASE root # NO_VALUE
    <3>1. /\ UNCHANGED <<live, store, history>>
          /\ call'.step = "search" /\ call'.node = root /\ root \in InTree
      BY <1>6, <2>2, TreeFacts DEF DelInTreeByData, Idle
    <3> QED
      BY <1>2, <3>1 DEF At
  <2> QED
    BY <2>1, <2>2
<1>7. CASE IncreaseCapacity
  <2>1. call'.step \in {"create", "idle"}
    BY <1>3, <1>7 DEF IncreaseCapacity, Return, Idle, At
  <2> QED
    BY <1>1, <2>1
<1>8. CASE CreateNode
  <2>1. CASE root = NO_VALUE
    BY <1>1, <1>8, <2>1 DEF CreateNode, Return, Idle
  <2>2. CASE root # NO_VALUE
    <3>1. call'.step = "place" /\ call'.node = root /\ root' = root
      BY <1>3, <1>8, <2>2 DEF CreateNode, At
    <3>2. InTree' = InTree /\ root \in InTree
      BY <1>8, <2>2, <3>1, CreateNodeStep, TreeKept, TreeFacts
    <3> QED
      BY <3>1, <3>2 DEF At
  <2> QED
    BY <2>1, <2>2
<1>9. CASE Descend("place") \/ Descend("search")
  <2>1. /\ UNCHANGED <<live, store, history>> /\ call.step \in {"place", "search"}
        /\ Towards(call.data, call.node) # NO_VALUE
        /\ call' = [call EXCEPT !.node = Towards(call.data, call.node)]
    BY <1>9 DEF Descend, MoveTo, At
  <2>2. Towards(call.data, call.node) \in InTree
    BY <2>1, DescendInTree DEF Towards, At
  <2> QED
    BY <1>2, <1>3, <2>1, <2>2 DEF At
<1>10. CASE Hit
  <2>1. /\ UNCHANGED <<live, store, history>> /\ call.step = "search"
        /\ call' = [call EXCEPT !.step = "delete", !.index = call.node]
        /\ array_nodes[call.node].data = call.data
    BY <1>10 DEF Hit, Here, At
  <2>2. /\ call'.step = "delete" /\ call'.index = call.node
        /\ call'.data = call.data
    BY <1>3, <2>1 DEF At
  <2> QED
    BY <1>2, <2>1, <2>2 DEF At
<1>11. CASE DeleteWithBoth
  <2>1. /\ UNCHANGED <<live, store, history>> /\ call.step = "delete"
        /\ call' = [call EXCEPT !.step = "min", !.node = Here.right]
        /\ Here.right # NO_VALUE /\ call.node = call.index
    BY <1>11 DEF DeleteWithBoth, At, IInv, CallSound
  <2>2. /\ call'.step = "min" /\ call'.index = call.index
        /\ call'.data = call.data /\ call'.node = Here.right
    BY <1>3, <2>1 DEF At
  <2>3. Here.right \in InTree
    BY <2>1, DescendInTree DEF Here, At
  <2> QED
    BY <1>2, <2>1, <2>2, <2>3 DEF At
<1>12. CASE DescendToMin
  <2>1. /\ UNCHANGED <<live, store, history>> /\ call.step = "min"
        /\ call' = [call EXCEPT !.node = Here.left] /\ Here.left # NO_VALUE
    BY <1>12 DEF DescendToMin, MoveTo, At
  <2>2. /\ call'.step = "min" /\ call'.index = call.index
        /\ call'.data = call.data /\ call'.node = Here.left
    BY <1>3, <2>1 DEF At
  <2>3. Here.left \in InTree
    BY <2>1, DescendInTree DEF Here, At
  <2> QED
    BY <1>2, <2>1, <2>2, <2>3 DEF At
<1>13. CASE \/ PlaceNode \/ RefuseDuplicate \/ Miss
            \/ DeleteLeaf \/ DeleteRoot \/ DeleteWithRight \/ DeleteWithLeft \/ EraseMin
  <2>1. call' = Idle
    BY <1>13 DEF PlaceNode, RefuseDuplicate, Miss, DeleteLeaf, DeleteRoot,
       DeleteWithRight, DeleteWithLeft, EraseMin, Erased, Return
  <2> QED
    BY <1>1, <2>1 DEF Idle
<1>14. CASE UNCHANGED vars
  BY <1>2, <1>14 DEF vars, At
<1> QED
  BY <1>4, <1>5, <1>6, <1>7, <1>8, <1>9, <1>10, <1>11, <1>12, <1>13, <1>14
     DEF Next, Caller, Library

\* A deletion, clean or not, takes nodes out of the tree and puts none in.
LEMMA Prunes ==
  ASSUME IInv, NEW i \in InTree, NEW c, Relinked(i, c),
         c \in InTree \cup {NO_VALUE}, c # i, IInv',
         root' \in {root, c, NO_VALUE}, root' # i
  PROVE  InTree' \subseteq InTree \ {i}
<1> DEFINE T == InTree \ {i}
<1>1. /\ LinksSound /\ InTree \in SUBSET Used /\ LinksSound'
      /\ root # NO_VALUE => root \in InTree
  BY TreeFacts DEF IInv
<1>2. T \in SUBSET Used' /\ i \notin Used' /\ i # NO_VALUE
  BY <1>1, TreeFacts DEF Relinked
<1>3. root' \in T \cup {NO_VALUE}
  BY <1>1
<1>4. ASSUME NEW m \in T
      PROVE  /\ array_nodes'[m].left \in T \cup {NO_VALUE}
             /\ array_nodes'[m].right \in T \cup {NO_VALUE}
  <2>1. /\ array_nodes[m].left \in InTree \cup {NO_VALUE}
        /\ array_nodes[m].right \in InTree \cup {NO_VALUE}
    BY <1>1, BelowClosed DEF InTree
  <2>2. m \in Used' /\ m \in Used \ {i}
    BY <1>1, <1>2
  <2>3. array_nodes'[m].left # i /\ array_nodes'[m].right # i
    BY <1>1, <1>2, <2>2 DEF LinksSound
  <2> QED
    BY <2>1, <2>2, <2>3 DEF Relinked
<1>5. \A m \in Below(root)' : m \in T
  <2> PICK r : r = root'
    OBVIOUS
  <2>1. \A m \in Below(r)' : m \in T
    <3> HIDE DEF T
    <3> QED
      BY <1>2, <1>3, <1>4, BelowNext
  <2> QED
    BY <2>1 DEF Below
<1> QED
  BY <1>5 DEF InTree

\* What a walk shows of the tree.
ContentsKnown == Contents = {array_nodes[n].data : n \in InTree}

LEMMA ContentsOfTree == IInv => ContentsKnown
BY WalkOfTree DEF Contents, ContentsKnown

LEMMA ContentsThen == IInv' => ContentsKnown'
BY ContentsOfTree, PTL

LEMMA NothingInEmpty == IInv /\ root = NO_VALUE => Contents = {}
BY TreeFacts, ContentsOfTree DEF ContentsKnown

LEMMA NothingInEmptyThen == (IInv /\ root = NO_VALUE)' => (Contents = {})'
BY NothingInEmpty, PTL

\* A deletion, clean or not, shows no key that was not there.
LEMMA Loses ==
  ASSUME IInv, IInv', CallInTree,
         DeleteLeaf \/ DeleteRoot \/ DeleteWithRight \/ DeleteWithLeft \/ EraseMin
  PROVE  Contents' \subseteq Contents
<1> PICK i : i = call.index
  OBVIOUS
<1>1. /\ Contents = {array_nodes[n].data : n \in InTree}
      /\ Contents' = {array_nodes'[n].data : n \in InTree'}
  BY ContentsOfTree, ContentsThen DEF ContentsKnown
<1>2. i \in InTree /\ InTree \in SUBSET Used /\ LinksSound /\ NO_VALUE \notin Used
  BY TreeFacts DEF CallInTree, DeleteLeaf, DeleteRoot, DeleteWithRight, DeleteWithLeft,
     EraseMin
<1>3. ASSUME NEW c \in {array_nodes[i].left, array_nodes[i].right, NO_VALUE},
             Relinked(i, c), DataKept(Used \ {i}), root' \in {root, c, NO_VALUE}, root' # i
      PROVE  Contents' \subseteq Contents
  <2>1. c \in InTree \cup {NO_VALUE} /\ c # i
    BY <1>2, DescendInTree, NoLoop DEF IInv
  <2>2. InTree' \subseteq InTree \ {i}
    BY <1>2, <1>3, <2>1, Prunes
  <2> QED
    BY <1>1, <1>2, <1>3, <2>2 DEF DataKept
<1>4. ASSUME NEW c, Spliced(i, c) PROVE Relinked(i, c)
  BY <1>4 DEF Spliced, Relinked
<1>5. CASE DeleteLeaf
  <2>1. Spliced(i, NO_VALUE) /\ DataKept(Used \ {i})
    BY <1>5, DeleteLeafStep
  <2>2. root' \in {root, NO_VALUE} /\ root' # i
    BY <1>2, <1>5 DEF DeleteLeaf
  <2> QED
    BY <1>3, <1>4, <2>1, <2>2
<1>6. CASE DeleteRoot
  <2>1. Spliced(i, OnlyChild) /\ DataKept(Used \ {i})
    BY <1>6, DeleteRootStep
  <2>2. OnlyChild \in {array_nodes[i].left, array_nodes[i].right} /\ root' = OnlyChild
    BY <1>6 DEF DeleteRoot, OnlyChild, Here, IInv, CallSound
  <2>3. OnlyChild # i
    BY <1>2, <2>2, NoLoop DEF IInv
  <2> QED
    BY <1>3, <1>4, <2>1, <2>2, <2>3
<1>7. CASE DeleteWithRight
  <2>1. /\ Relinked(i, array_nodes[i].right) /\ DataKept(Used \ {i})
        /\ root' = root /\ root # i
    BY <1>7, DeleteWithRightStep DEF DeleteWithRight
  <2> QED
    BY <1>3, <2>1
<1>8. CASE DeleteWithLeft
  <2>1. /\ Relinked(i, array_nodes[i].left) /\ DataKept(Used \ {i})
        /\ root' = root /\ root # i
    BY <1>8, DeleteWithLeftStep DEF DeleteWithLeft
  <2> QED
    BY <1>3, <2>1
<1>9. CASE EraseMin
  <2> PICK m : m = call.node
    OBVIOUS
  <2>1. m \in InTree /\ root' = root
    BY <1>9 DEF CallInTree, EraseMin
  <2>2. /\ Spliced(m, NO_VALUE) /\ DataKept(Used \ {m, i})
        /\ array_nodes'[i].data = array_nodes[m].data
    BY <1>9, EraseMinStep
  <2>3. Relinked(m, NO_VALUE) /\ m # NO_VALUE
    BY <1>2, <2>1, <2>2 DEF Spliced, Relinked
  <2>4. root' # m
    <3>1. root # NO_VALUE => root' \in Used'
      BY <2>1 DEF IInv, LinksSound
    <3> QED
      BY <2>1, <2>3, <3>1 DEF Relinked
  <2>5. InTree' \subseteq InTree \ {m}
    BY <2>1, <2>3, <2>4, Prunes
  <2>6. ASSUME NEW n \in InTree' PROVE array_nodes'[n].data \in Contents
    BY <1>1, <1>2, <2>1, <2>2, <2>5, <2>6 DEF DataKept
  <2> QED
    BY <1>1, <2>6
<1> QED
  BY <1>5, <1>6, <1>7, <1>8, <1>9

LEMMA DeletionMaps ==
  ASSUME IInv, IInv', SearchTree, SearchTree', CallInTree,
         DeleteLeaf \/ DeleteRoot \/ DeleteWithRight \/ DeleteWithLeft \/ EraseMin
  PROVE  Abs!Delete \/ Abs!DeleteAndLose
<1>1. /\ call.step \in {"delete", "min"} /\ keys' = keys \ {call.data}
      /\ call' = Idle /\ ret' = 0 /\ live' = live
      /\ ~ damaged' => ~ damaged
  <2>1. \E i : Erased(i)
    BY DEF DeleteLeaf, DeleteRoot, DeleteWithRight, DeleteWithLeft, EraseMin
  <2>2. call.step \in {"delete", "min"}
    BY DEF DeleteLeaf, DeleteRoot, DeleteWithRight, DeleteWithLeft, EraseMin, At
  <2>3. ~ damaged' => ~ damaged
    BY DEF DeleteLeaf, DeleteRoot, DeleteWithRight, DeleteWithLeft, EraseMin
  <2> QED
    BY <2>1, <2>2, <2>3 DEF Erased, Return
<1>2. Abs!Return("delete", 0)
  BY <1>1 DEF Abs!Return, Operation, At, Idle
<1>3. /\ Contents = {array_nodes[n].data : n \in InTree}
      /\ Contents' = {array_nodes'[n].data : n \in InTree'}
  BY ContentsOfTree, ContentsThen DEF ContentsKnown
<1>4. call.data \in Contents
  BY <1>1, <1>3 DEF CallInTree, At
<1>5. CASE damaged'
  BY <1>2, <1>4, <1>5, Loses DEF Abs!DeleteAndLose
<1>6. CASE ~ damaged'
  <2>1. Contents = keys /\ Contents' = keys'
    BY <1>1, <1>3, <1>6 DEF SearchTree, HoldsKeys
  <2>2. damaged' = damaged
    BY <1>1, <1>6 DEF IInv, TypeOK
  <2> QED
    BY <1>1, <1>2, <1>4, <2>1, <2>2 DEF Abs!Delete
<1> QED
  BY <1>5, <1>6

LEMMA AdditionMaps ==
  ASSUME IInv, IInv', SearchTree, CallInTree, CreateNode \/ PlaceNode \/ RefuseDuplicate
  PROVE  [Abs!Next]_(Abs!vars)
<1>1. /\ Contents = {array_nodes[n].data : n \in InTree}
      /\ Contents' = {array_nodes'[n].data : n \in InTree'}
  BY ContentsOfTree, ContentsThen DEF ContentsKnown
<1>2. CASE CreateNode /\ root = NO_VALUE
  <2>1. Abs!Return("add", 0) /\ damaged' = damaged
    BY <1>2 DEF CreateNode, Return, Abs!Return, Operation, At, Idle
  <2>2. Contents = {} /\ Contents' = {call.data}
    BY <1>1, <1>2, TreeFacts, FirstNode
  <2> QED
    BY <2>1, <2>2 DEF Abs!Add, Abs!Next
<1>3. CASE CreateNode /\ root # NO_VALUE
  <2>1. /\ call.step = "create" /\ live' = live /\ ret' = ret /\ damaged' = damaged
        /\ root' = root
        /\ call' = [call EXCEPT !.step = "place", !.index = free_node, !.node = root]
    BY <1>3 DEF CreateNode, At
  <2>2. call'.step = "place" /\ call'.data = call.data
    BY <2>1, CallFacts DEF At
  <2>3. /\ InTree' = InTree /\ InTree \in SUBSET Used
        /\ \A n \in Used : array_nodes'[n] = array_nodes[n]
    BY <1>3, <2>1, CreateNodeStep, TreeKept, TreeFacts
  <2>4. Contents' = Contents
    BY <1>1, <2>3
  <2> QED
    BY <2>1, <2>2, <2>4 DEF Abs!vars, Operation, At
<1>4. CASE PlaceNode
  <2>1. Abs!Return("add", 0) /\ damaged' = damaged /\ At("place")
    BY <1>4 DEF PlaceNode, Return, Abs!Return, Operation, At, Idle
  <2>2. Contents' = Contents \cup {call.data}
    <3>1. call.node \in InTree
      BY <2>1 DEF CallInTree
    <3>2. /\ InTree' = InTree \cup {call.index}
          /\ \A n \in InTree : array_nodes'[n].data = array_nodes[n].data
          /\ array_nodes'[call.index].data = call.data
      BY <1>4, <3>1, Placed
    <3> QED
      BY <1>1, <3>2
  <2>3. damaged \/ call.data \notin Contents
    BY <1>1, <1>4, <2>1, KeyIsAbsent DEF PlaceNode
  <2> QED
    BY <2>1, <2>2, <2>3 DEF Abs!Add, Abs!Next
<1>5. CASE RefuseDuplicate
  <2>1. Abs!Return("add", -1) /\ damaged' = damaged /\ At("place")
    BY <1>5 DEF RefuseDuplicate, Return, Abs!Return, Operation, At, Idle, history
  <2>2. call.data \in Contents
    BY <1>1, <1>5, <2>1 DEF CallInTree, RefuseDuplicate, Here
  <2>3. UNCHANGED <<live, store, history>>
    BY <1>5 DEF RefuseDuplicate
  <2>4. Contents' = Contents
    BY <1>1, <2>3, CallTree
  <2> QED
    BY <2>1, <2>2, <2>4 DEF Abs!Refuse, Abs!Next
<1> QED
  BY <1>2, <1>3, <1>4, <1>5

\* Steps that move the call in progress, or start or end one, and nothing else.
LEMMA CallMaps ==
  ASSUME IInv, IInv', SearchTree, IndexUnset, UNCHANGED <<live, store, history>>,
         \/ \E n \in Increases : ChangeNumberIncrease(n)
         \/ \E k \in Keys : AddInTree(k) \/ DelInTreeByData(k)
         \/ Descend("place") \/ Descend("search") \/ Miss \/ Hit
         \/ DeleteWithBoth \/ DescendToMin \/ UNCHANGED vars
  PROVE  [Abs!Next]_(Abs!vars)
<1>1. /\ Contents = {array_nodes[n].data : n \in InTree}
      /\ Contents' = Contents /\ damaged' = damaged /\ live' = live
  BY ContentsOfTree, ContentsThen, CallTree DEF ContentsKnown, history
\* The set shows neither the cursor nor the index.
<1>2. ASSUME call'.data = call.data, call'.step = call.step, ret' = ret
      PROVE  UNCHANGED Abs!vars
  BY <1>1, <1>2 DEF Abs!vars, Operation, At
<1>3. ASSUME call'.data = call.data, ret' = ret,
             call.step \in {"search", "delete", "min"}, call'.step \in {"delete", "min"}
      PROVE  UNCHANGED Abs!vars
  BY <1>1, <1>3 DEF Abs!vars, Operation, At
<1>4. ASSUME ~ At("idle")
      PROVE  call = [step |-> call.step, data |-> call.data,
                     index |-> call.index, node |-> call.node]
  BY <1>4, CallFacts
<1>5. ASSUME NEW n \in Increases, ChangeNumberIncrease(n) PROVE Abs!Configure
  <2>1. At("idle") /\ live /\ call' = Idle /\ ret' \in {0, -1} /\ call = Idle
    BY <1>5 DEF ChangeNumberIncrease, Return, IndexUnset
  <2> QED
    BY <1>1, <2>1 DEF Abs!Configure, Abs!Between, Operation, At
<1>6. ASSUME NEW k \in Keys, AddInTree(k)
      PROVE  \E op \in {"allocate", "add", "delete"} : Abs!Begin(op, k)
  <2> DEFINE op == IF capacity = used THEN "allocate" ELSE "add"
  <2>1. Abs!Begin(op, k)
    BY <1>1, <1>6 DEF AddInTree, Begin, Abs!Begin, Operation, At, Idle
  <2> QED
    BY <2>1
<1>7. ASSUME NEW k \in Keys, DelInTreeByData(k)
      PROVE  Abs!DeleteNothing \/ Abs!Begin("delete", k)
  <2>1. CASE root = NO_VALUE
    <3>1. Contents = {}
      BY <1>1, <2>1, TreeFacts
    <3>2. call' = Idle /\ ret' = -1 /\ At("idle") /\ live /\ call = Idle
      BY <1>7, <2>1 DEF DelInTreeByData, Return, IndexUnset
    <3> QED
      BY <1>1, <3>1, <3>2 DEF Abs!DeleteNothing, Abs!Between, Operation, At
  <2>2. CASE root # NO_VALUE
    BY <1>1, <1>7, <2>2 DEF DelInTreeByData, Abs!Begin, Operation, At, Idle
  <2> QED
    BY <2>1, <2>2
<1>8. CASE Descend("place") \/ Descend("search") \/ DescendToMin
  <2>1. ret' = ret /\ ~ At("idle") /\ \E m : call' = [call EXCEPT !.node = m]
    BY <1>8 DEF Descend, DescendToMin, MoveTo, At
  <2> QED
    BY <1>2, <1>4, <2>1
<1>9. CASE Hit
  <2>1. /\ ret' = ret /\ ~ At("idle") /\ call.step = "search"
        /\ call' = [call EXCEPT !.step = "delete", !.index = call.node]
    BY <1>9 DEF Hit, At
  <2> QED
    BY <1>3, <1>4, <2>1
<1>10. CASE DeleteWithBoth
  <2>1. /\ ret' = ret /\ ~ At("idle") /\ call.step = "delete"
        /\ call' = [call EXCEPT !.step = "min", !.node = Here.right]
    BY <1>10 DEF DeleteWithBoth, At
  <2> QED
    BY <1>3, <1>4, <2>1
<1>11. CASE Miss
  <2>1. At("search") /\ call' = Idle /\ ret' = -1
    BY <1>11 DEF Miss, Return
  <2>2. Abs!Return("delete", -1)
    BY <1>1, <2>1 DEF Abs!Return, Operation, At, Idle
  <2>3. damaged \/ call.data \notin Contents
    BY <1>1, <1>11, <2>1, KeyIsAbsent DEF Miss
  <2> QED
    BY <1>1, <2>2, <2>3 DEF Abs!Miss, Abs!Next
<1>12. CASE UNCHANGED vars
  BY <1>2, <1>12 DEF vars
<1> QED
  BY <1>5, <1>6, <1>7, <1>8, <1>9, <1>10, <1>11, <1>12 DEF Abs!Next

LEMMA StepMaps ==
  IInv /\ IInv' /\ SearchTree /\ SearchTree' /\ CallInTree /\ IndexUnset /\ [Next]_vars
    => [Abs!Next]_(Abs!vars)
<1> SUFFICES ASSUME IInv, IInv', SearchTree, SearchTree', CallInTree, IndexUnset,
                    [Next]_vars
             PROVE  [Abs!Next]_(Abs!vars)
  OBVIOUS
<1>1. /\ Contents = {array_nodes[n].data : n \in InTree}
      /\ Contents' = {array_nodes'[n].data : n \in InTree'}
  BY ContentsOfTree, ContentsThen DEF ContentsKnown
<1>2. CASE CreateTree \/ DelTree
  <2>1. root' = NO_VALUE /\ damaged' = FALSE
    BY <1>2 DEF CreateTree, DelTree
  <2>3. Contents' = {}
    BY <2>1, NothingInEmptyThen
  <2>4. CASE CreateTree
    <3>1. At("idle") /\ ~ live /\ call' = call /\ ret' = ret
      BY <2>4 DEF CreateTree
    <3>2. live' \in BOOLEAN
      BY DEF IInv, TypeOK
    <3> QED
      BY <2>1, <2>3, <3>1, <3>2 DEF Abs!Create, Abs!Between, Abs!Next, Operation, At
  <2>5. CASE DelTree
    <3>1. /\ At("idle") /\ live /\ live' = FALSE /\ call' = Idle /\ ret' = 0
          /\ call = Idle
      BY <2>5 DEF DelTree, Return, IndexUnset
    <3> QED
      BY <2>1, <2>3, <3>1 DEF Abs!Destroy, Abs!Between, Abs!Next, Operation, At
  <2> QED
    BY <1>2, <2>4, <2>5
<1>3. CASE IncreaseCapacity
  <2>1. /\ InTree' = InTree /\ InTree \in SUBSET Used
        /\ \A n \in Used : array_nodes'[n] = array_nodes[n]
    BY <1>3, IncreaseCapacityStep, TreeKept, TreeFacts DEF IncreaseCapacity
  <2>2. Contents' = Contents /\ live' = live /\ damaged' = damaged /\ call.step = "grow"
    BY <1>1, <1>3, <2>1 DEF IncreaseCapacity, At
  <2>3. \/ call' = [call EXCEPT !.step = "create"] /\ ret' = ret
        \/ call' = Idle /\ ret' = -1
    BY <1>3 DEF IncreaseCapacity, Return
  <2>4. call = [step |-> call.step, data |-> call.data,
                index |-> call.index, node |-> call.node]
    BY <2>2, CallFacts DEF At
  <2>5. CASE call' = [call EXCEPT !.step = "create"] /\ ret' = ret
    <3>1. call'.step = "create" /\ call'.data = call.data
      BY <2>4, <2>5
    <3> QED
      BY <2>2, <2>5, <3>1 DEF Abs!Allocate, Abs!Next, Operation, At
  <2>6. CASE call' = Idle /\ ret' = -1
    BY <2>2, <2>6 DEF Abs!AllocationFails, Abs!Return, Abs!Next, Operation, At, Idle
  <2> QED
    BY <2>3, <2>5, <2>6
<1>4. CASE CreateNode \/ PlaceNode \/ RefuseDuplicate
  BY <1>4, AdditionMaps
<1>5. CASE DeleteLeaf \/ DeleteRoot \/ DeleteWithRight \/ DeleteWithLeft \/ EraseMin
  BY <1>5, DeletionMaps DEF Abs!Next
<1>6. CASE \/ \E n \in Increases : ChangeNumberIncrease(n)
           \/ \E k \in Keys : AddInTree(k) \/ DelInTreeByData(k)
           \/ Descend("place") \/ Descend("search") \/ Miss \/ Hit
           \/ DeleteWithBoth \/ DescendToMin \/ UNCHANGED vars
  <2>1. UNCHANGED <<live, store, history>>
    BY <1>6 DEF ChangeNumberIncrease, AddInTree, DelInTreeByData, Descend, Miss, Hit,
       DeleteWithBoth, DescendToMin, vars
  <2> QED
    BY <1>6, <2>1, CallMaps
<1> QED
  BY <1>2, <1>3, <1>4, <1>5, <1>6 DEF Next, Caller, Library

LEMMA CallStaysInTree == Spec => []CallInTree
<1>1. Init => CallInTree
  BY DEF Init, Idle, At, CallInTree
<1>2. IInv /\ CallInTree /\ [Next]_vars => CallInTree'
  BY CallInTreeStep
<1> QED
  BY <1>1, <1>2, Invariance, PTL DEF Spec

\* The array with its links and its free list implements a set of ints: what a
\* walk visits changes as the abstract set does, step by step, for any keys,
\* capacities and failing allocations; and a deletion that goes wrong only loses.
THEOREM TreeIsASet == Spec => ImplementsIntSet
<1>1. Init => Abs!Init
  <2> SUFFICES ASSUME Init PROVE Abs!Init
    OBVIOUS
  <2>1. Contents = {}
    BY InitHolds, NothingInEmpty DEF Init
  <2> QED
    BY <2>1 DEF Init, Abs!Init, Operation, At, Idle
<1> QED
  BY <1>1, StepMaps, Invariance, SearchOrder, CallStaysInTree, IndexInvariance, PTL
     DEF Spec, ImplementsIntSet, Abs!Spec
=============================================================================
