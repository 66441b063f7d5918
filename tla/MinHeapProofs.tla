---------------------------- MODULE MinHeapProofs ----------------------------
(***************************************************************************)
(* Theorems about the array heap of minheap.c for every set of keys and    *)
(* data and every size of the array.                                       *)
(***************************************************************************)
EXTENDS MinHeap, FiniteSetTheorems, WellFoundedInduction, TLAPS

Inv == HeapTypeOK /\ HeapOrder

-----------------------------------------------------------------------------
(* The places of the tree.                                                 *)

\* A non-empty set of natural numbers has a least element.
LEMMA LeastNumber ==
    ASSUME NEW S, S \subseteq Nat, S # {}
    PROVE  \E n \in S : \A m \in S : n <= m
    <1>1. PICK n \in S : \A m \in S : ~(<<m, n>> \in OpToRel(<, Nat))
          BY NatLessThanWellFounded, WFMin
    <1>2. ASSUME NEW m \in S PROVE n <= m
          <2>1. ~(<<m, n>> \in {pair \in Nat \X Nat : pair[1] < pair[2]})
                BY <1>1 DEF OpToRel
          <2> QED BY <2>1
    <1> QED BY <1>2

\* The places in use and the keys in them.
LEMMA TypeFacts ==
    ASSUME HeapAssumption, HeapTypeOK
    PROVE  /\ maxNum \in Nat /\ lastIndex \in Nat /\ 1 <= lastIndex /\ lastIndex < maxNum
           /\ \A i \in Used : i \in Nat /\ 1 <= i /\ i < lastIndex /\ i \in Places
           /\ \A i \in Nat : (1 <= i /\ i < lastIndex) => i \in Used
           /\ \A i \in Places : i \in Nat /\ 1 <= i /\ nodeList[i].key \in Int
    <1>1. maxNum \in Nat /\ lastIndex \in Nat /\ 1 <= lastIndex /\ lastIndex < maxNum
          BY DEF HeapAssumption, HeapTypeOK
    <1>2. \A i \in Used : i \in Nat /\ 1 <= i /\ i < lastIndex /\ i \in Places
          BY <1>1 DEF Used, Places
    <1>3. \A i \in Nat : (1 <= i /\ i < lastIndex) => i \in Used
          BY <1>1 DEF Used
    <1>4. \A i \in Places : i \in Nat /\ 1 <= i
          BY <1>1 DEF Places
    <1>5. ASSUME NEW i \in Places PROVE nodeList[i].key \in Int
          <2>1. nodeList[i] \in [key : Keys, data : Data]
                BY DEF HeapTypeOK, Nodes
          <2> QED BY <2>1 DEF HeapAssumption
    <1> QED BY <1>1, <1>2, <1>3, <1>4, <1>5

\* _getFatherIndex leads from every place but the root to an earlier one.
LEMMA FatherFacts ==
    /\ \A i \in Nat : Father(i) \in Nat
    /\ \A i \in Nat : i > 1 => Father(i) >= 1 /\ Father(i) < i
    /\ \A i \in Nat : i > 3 <=> Father(i) > 1
    /\ \A i \in Nat : i <= 1 => Father(i) = 0
    BY DEF Father

\* The children of a place are 2 i and 2 i + 1.
LEMMA ChildFacts ==
    /\ \A i, j \in Nat : Father(i) = j => i = 2 * j \/ i = 2 * j + 1
    /\ \A i \in Nat : Father(2 * i) = i /\ Father(2 * i + 1) = i
    BY DEF Father

\* The father of a place in use is in use.
LEMMA UsedFather ==
    ASSUME HeapAssumption, HeapTypeOK, NEW i \in Used, i > 1
    PROVE  Father(i) \in Used /\ Father(i) < i
    BY TypeFacts, FatherFacts

\* _minChildIndex returns the child with the smaller key, or 0 for a leaf.
LEMMA MinChildFacts ==
    ASSUME HeapAssumption, HeapTypeOK, NEW j \in Places
    PROVE  /\ MinChild(j) = 0 => \A i \in Used : Father(i) # j
           /\ MinChild(j) # 0 =>
                 /\ MinChild(j) \in Used /\ MinChild(j) > 1 /\ MinChild(j) > j
                 /\ Father(MinChild(j)) = j
                 /\ \A i \in Used : Father(i) = j => nodeList[MinChild(j)].key <= nodeList[i].key
    <1>0. j \in Nat /\ 1 <= j /\ lastIndex \in Nat
          BY TypeFacts
    <1>1. \A i \in Used : Father(i) = j => i = 2 * j \/ i = 2 * j + 1
          BY <1>0, TypeFacts, ChildFacts
    <1>2. Father(2 * j) = j /\ Father(2 * j + 1) = j
          BY <1>0, ChildFacts
    <1>3. CASE 2 * j >= lastIndex
          <2>1. MinChild(j) = 0
                BY <1>0, <1>3 DEF MinChild
          <2> QED BY <1>0, <1>1, <1>3, <2>1, TypeFacts
    <1>4. CASE 2 * j < lastIndex /\ 2 * j + 1 >= lastIndex
          <2>1. MinChild(j) = 2 * j
                BY <1>0, <1>4 DEF MinChild
          <2>2. 2 * j \in Used /\ nodeList[2 * j].key \in Int
                BY <1>0, <1>4, TypeFacts
          <2>3. \A i \in Used : Father(i) = j => i = 2 * j
                BY <1>0, <1>1, <1>4, TypeFacts
          <2> QED BY <1>0, <1>2, <2>1, <2>2, <2>3
    <1>5. CASE 2 * j + 1 < lastIndex
          <2>1. MinChild(j) = IF nodeList[2 * j].key < nodeList[2 * j + 1].key
                              THEN 2 * j ELSE 2 * j + 1
                BY <1>0, <1>5 DEF MinChild
          <2>2. /\ 2 * j \in Used /\ nodeList[2 * j].key \in Int
                /\ 2 * j + 1 \in Used /\ nodeList[2 * j + 1].key \in Int
                BY <1>0, <1>5, TypeFacts
          <2>3. ASSUME NEW i \in Used, Father(i) = j
                PROVE  nodeList[MinChild(j)].key <= nodeList[i].key
                BY <1>1, <2>1, <2>2, <2>3
          <2> QED BY <1>0, <1>2, <2>1, <2>2, <2>3
    <1> QED BY <1>0, <1>3, <1>4, <1>5

-----------------------------------------------------------------------------
(* The order of the keys.                                                  *)

\* minHeapInit.
LEMMA InitInv == HeapAssumption /\ HeapInit => Inv
    BY DEF HeapAssumption, HeapInit, Inv, HeapTypeOK, HeapOrder, Places, Nodes, Used, headIndex

\* insert up to its loop: the new node is a leaf, and only it is out of order.
LEMMA InsertInv ==
    ASSUME HeapAssumption, Inv, NEW key \in Keys, NEW data \in Data, Insert(key, data)
    PROVE  Inv'
    <1>1. HeapTypeOK'
          BY DEF HeapAssumption, Inv, HeapTypeOK, Insert, Nodes, Places
    <1>2. HeapOrder'
          <2> SUFFICES ASSUME NEW i \in Used'
                       PROVE  /\ (i > 1 /\ i # lastIndex)
                                    => nodeList'[Father(i)].key <= nodeList'[i].key
                              /\ Father(i) # lastIndex
              BY DEF HeapOrder, Insert
          <2>1. /\ lastIndex \in 1 .. maxNum - 1 /\ maxNum \in Nat /\ i \in 1 .. lastIndex
                /\ nodeList \in [Places -> Nodes] /\ lastIndex + 1 < maxNum
                BY DEF HeapAssumption, Inv, HeapTypeOK, Insert, Used
          <2>2. Father(i) # lastIndex
                <3>1. i \in Nat /\ i <= lastIndex /\ 1 <= i /\ lastIndex \in Nat
                      BY <2>1
                <3> QED BY <3>1, FatherFacts
          <2>3. ASSUME i > 1, i # lastIndex
                PROVE  nodeList'[Father(i)].key <= nodeList'[i].key
                <3>1. i \in Used /\ Father(i) \in 1 .. i - 1
                      BY <2>1, <2>3, FatherFacts DEF Used
                <3>2. nodeList'[i] = nodeList[i] /\ nodeList'[Father(i)] = nodeList[Father(i)]
                      BY <2>1, <2>3, <3>1 DEF Insert, Places
                <3> QED BY <2>3, <3>1, <3>2 DEF Inv, HeapOrder, Insert
          <2> QED BY <2>2, <2>3
    <1> QED BY <1>1, <1>2 DEF Inv

\* A turn of insert's loop.
LEMMA SiftUpInv == ASSUME HeapAssumption, Inv, SiftUp PROVE Inv'
    <1> DEFINE j == index
               f == Father(index)
               key(i) == nodeList[i].key
    <1>0. /\ nodeList \in [Places -> Nodes] /\ heap_pc = "up" /\ j \in Used
          /\ \A i \in Used : i \in Places /\ i \in Nat /\ key(i) \in Int
          <2>1. j \in Nat /\ 1 <= j /\ j < lastIndex
                BY TypeFacts DEF Inv, HeapTypeOK, SiftUp
          <2> QED BY <2>1, TypeFacts DEF Inv, HeapTypeOK, SiftUp
    <1>1. \A i \in Used : i > 1 => Father(i) \in Used /\ Father(i) < i
          BY UsedFather DEF Inv
    <1>2. /\ \A i \in Used : i > 1 /\ i # j => key(Father(i)) <= key(i)
          /\ \A i \in Used : i > 3 /\ Father(i) = j => key(Father(j)) <= key(i)
          BY DEF Inv, HeapOrder, SiftUp
    <1>3. CASE f # 0 /\ key(j) < key(f)
          <2>1. j > 1 /\ f \in Used /\ f < j
                BY <1>0, <1>1, <1>3, FatherFacts
          <2>2. /\ nodeList' = Exchange(f, j) /\ index' = f /\ heap_pc' = heap_pc /\ heap_pc = "up"
                /\ lastIndex' = lastIndex /\ node' = node
                BY <1>3 DEF SiftUp
          <2>3. /\ nodeList' \in [Places -> Nodes]
                /\ nodeList'[f] = nodeList[j] /\ nodeList'[j] = nodeList[f]
                /\ \A i \in Places : i # f /\ i # j => nodeList'[i] = nodeList[i]
                BY <1>0, <2>1, <2>2 DEF Exchange
          <2>4. HeapTypeOK'
                BY <1>0, <2>1, <2>2, <2>3, TypeFacts DEF Inv, HeapTypeOK
          <2>5. ASSUME NEW i \in Used, i > 1, i # f
                PROVE  nodeList'[Father(i)].key <= nodeList'[i].key
                <3>1. Father(i) \in Used /\ Father(i) < i
                      BY <1>1, <2>5
                <3>2. CASE i = j
                      BY <1>0, <1>3, <2>1, <2>3, <3>2
                <3>3. CASE i # j /\ Father(i) = j
                      <4>1. i > 3
                            BY <1>0, <2>1, <3>3, FatherFacts
                      <4>2. key(f) <= key(i)
                            BY <1>2, <3>3, <4>1
                      <4> QED BY <1>0, <2>3, <2>5, <3>3, <4>2
                <3>4. CASE i # j /\ Father(i) = f
                      <4>1. key(f) <= key(i)
                            BY <1>2, <2>5, <3>4
                      <4>2. key(j) <= key(i)
                            BY <1>0, <1>3, <2>1, <4>1
                      <4> QED BY <1>0, <2>3, <2>5, <3>4, <4>2
                <3>5. CASE i # j /\ Father(i) # j /\ Father(i) # f
                      BY <1>0, <1>2, <2>3, <2>5, <3>1, <3>5
                <3> QED BY <3>2, <3>3, <3>4, <3>5
          <2>6. ASSUME NEW i \in Used, i > 3, Father(i) = f
                PROVE  nodeList'[Father(f)].key <= nodeList'[i].key
                <3>1. f > 1 /\ f # j /\ Father(f) \in Used /\ Father(f) < f
                      BY <1>0, <1>1, <2>1, <2>6, FatherFacts
                <3>2. key(Father(f)) <= key(f)
                      BY <1>2, <2>1, <3>1
                <3>3. nodeList'[Father(f)] = nodeList[Father(f)]
                      BY <1>0, <2>1, <2>3, <3>1
                <3>4. CASE i = j
                      BY <2>3, <3>2, <3>3, <3>4
                <3>5. CASE i # j
                      <4>1. key(f) <= key(i)
                            BY <1>0, <1>2, <2>6, <3>5
                      <4>2. i # f
                            BY <1>0, <1>1, <2>6
                      <4>3. key(f) \in Int /\ key(i) \in Int /\ key(Father(f)) \in Int
                            BY <1>0, <2>1, <3>1
                      <4>4. key(Father(f)) <= key(i)
                            BY <3>2, <4>1, <4>3
                      <4> QED BY <1>0, <2>3, <3>3, <3>5, <4>2, <4>4
                <3> QED BY <3>4, <3>5
          <2>7. HeapOrder'
                BY <2>2, <2>5, <2>6 DEF HeapOrder, Used
          <2> QED BY <2>4, <2>7 DEF Inv
    <1>4. CASE ~(f # 0 /\ key(j) < key(f))
          <2>1. /\ heap_pc' = "idle" /\ UNCHANGED <<nodeList, index, lastIndex, node>>
                BY <1>4 DEF SiftUp
          <2>2. ASSUME NEW i \in Used, i > 1 PROVE key(Father(i)) <= key(i)
                <3>1. CASE i = j
                      <4>1. f \in Used
                            BY <1>1, <2>2, <3>1
                      <4> QED BY <1>0, <1>4, <3>1, <4>1 DEF Used
                <3>2. CASE i # j
                      BY <1>2, <2>2, <3>2
                <3> QED BY <3>1, <3>2
          <2> QED BY <2>1, <2>2 DEF Inv, HeapTypeOK, HeapOrder, Used
    <1> QED BY <1>3, <1>4

\* pop up to its loop: the last node, now at the root, is on its way down.
LEMMA PopInv == ASSUME HeapAssumption, Inv, Pop PROVE Inv'
    <1>0. /\ lastIndex \in 2 .. maxNum - 1 /\ maxNum \in Nat
          /\ nodeList \in [Places -> Nodes]
          /\ lastIndex' = lastIndex - 1 /\ index' = 1 /\ heap_pc' = "down"
          /\ nodeList' = [nodeList EXCEPT ![lastIndex - 1] = nodeList[1],
                                          ![1] = nodeList[lastIndex - 1]]
          /\ node' = nodeList[1]
          BY DEF HeapAssumption, Inv, HeapTypeOK, Pop, Exchange, headIndex
    <1>1. HeapTypeOK'
          BY <1>0 DEF HeapTypeOK, Places
    <1>2. ASSUME NEW i \in Used', i > 1
          PROVE  /\ Father(i) # 1 => nodeList'[Father(i)].key <= nodeList'[i].key
                 /\ i > 3 => Father(i) # 1
          <2>1. i \in Used /\ i < lastIndex - 1 /\ i \in Nat
                BY <1>0 DEF Used
          <2>2. Father(i) \in 1 .. i - 1 /\ (i > 3 => Father(i) # 1)
                BY <1>2, <2>1, FatherFacts
          <2>3. ASSUME Father(i) # 1
                PROVE  nodeList'[i] = nodeList[i] /\ nodeList'[Father(i)] = nodeList[Father(i)]
                BY <1>0, <1>2, <2>1, <2>2, <2>3 DEF Places
          <2> QED BY <1>2, <2>1, <2>2, <2>3 DEF Inv, HeapOrder, Pop
    <1>3. \A i \in Used' : i \in Nat
          BY <1>0 DEF Used
    <1>4. HeapOrder'
          <2> SUFFICES ASSUME NEW i \in Used'
                       PROVE  /\ (i > 1 /\ Father(i) # 1)
                                    => nodeList'[Father(i)].key <= nodeList'[i].key
                              /\ ~(i > 3 /\ Father(i) = 1)
              BY <1>0 DEF HeapOrder
          <2>1. i \in Nat
                BY <1>3
          <2>2. i > 3 => i > 1
                BY <2>1
          <2> QED BY <1>2, <2>2
    <1> QED BY <1>1, <1>4 DEF Inv

\* A turn of pop's loop.
LEMMA SiftDownInv == ASSUME HeapAssumption, Inv, SiftDown PROVE Inv'
    <1> DEFINE j == index
               c == MinChild(index)
               key(i) == nodeList[i].key
    <1>0. /\ nodeList \in [Places -> Nodes] /\ heap_pc = "down" /\ j \in Places
          /\ \A i \in Used : i \in Places /\ i \in Nat /\ key(i) \in Int
          BY TypeFacts DEF Inv, HeapTypeOK, SiftDown
    <1>1. \A i \in Used : i > 1 => Father(i) \in Used /\ Father(i) < i
          BY UsedFather DEF Inv
    <1>2. /\ \A i \in Used : i > 1 /\ Father(i) # j => key(Father(i)) <= key(i)
          /\ \A i \in Used : i > 3 /\ Father(i) = j => key(Father(j)) <= key(i)
          BY <1>0 DEF Inv, HeapOrder
    <1>3. /\ c = 0 => \A i \in Used : Father(i) # j
          /\ c # 0 => /\ c \in Used /\ c > 1 /\ c > j /\ Father(c) = j
                      /\ \A i \in Used : Father(i) = j => key(c) <= key(i)
          BY <1>0, MinChildFacts DEF Inv
    <1>4. CASE c # 0 /\ key(j) >= key(c)
          <2>1. c \in Used /\ c > 1 /\ c > j /\ Father(c) = j /\ j \in Used
                BY <1>1, <1>3, <1>4
          <2>2. /\ nodeList' = Exchange(j, c) /\ index' = c /\ heap_pc' = "down"
                /\ lastIndex' = lastIndex /\ node' = node
                BY <1>0, <1>4 DEF SiftDown
          <2>3. /\ nodeList' \in [Places -> Nodes]
                /\ nodeList'[c] = nodeList[j] /\ nodeList'[j] = nodeList[c]
                /\ \A i \in Places : i # c /\ i # j => nodeList'[i] = nodeList[i]
                BY <1>0, <2>1, <2>2 DEF Exchange
          <2>4. HeapTypeOK'
                BY <1>0, <2>1, <2>2, <2>3, TypeFacts DEF Inv, HeapTypeOK
          <2>5. ASSUME NEW i \in Used, i > 1, Father(i) # c
                PROVE  nodeList'[Father(i)].key <= nodeList'[i].key
                <3>1. Father(i) \in Used /\ Father(i) < i
                      BY <1>1, <2>5
                <3>2. CASE i = c
                      BY <1>0, <1>4, <2>1, <2>3, <3>2
                <3>3. CASE i # c /\ Father(i) = j
                      <4>1. key(c) <= key(i) /\ i # j
                            BY <1>0, <1>3, <1>4, <3>1, <3>3
                      <4> QED BY <1>0, <2>1, <2>3, <3>3, <4>1
                <3>4. CASE i = j
                      <4>1. c > 3
                            BY <1>0, <2>1, <2>5, <3>4, FatherFacts
                      <4>2. key(Father(j)) <= key(c)
                            BY <1>2, <2>1, <4>1
                      <4> QED BY <1>0, <2>1, <2>3, <2>5, <3>1, <3>4, <4>2
                <3>5. CASE i # c /\ i # j /\ Father(i) # j
                      BY <1>0, <1>2, <2>3, <2>5, <3>1, <3>5
                <3> QED BY <3>2, <3>3, <3>4, <3>5
          <2>6. ASSUME NEW i \in Used, i > 3, Father(i) = c
                PROVE  nodeList'[Father(c)].key <= nodeList'[i].key
                <3>1. i # c /\ i # j /\ Father(i) # j
                      BY <1>0, <1>1, <2>1, <2>6
                <3>2. key(c) <= key(i)
                      BY <1>0, <1>2, <2>6, <3>1
                <3> QED BY <1>0, <2>1, <2>3, <3>1, <3>2
          <2>7. HeapOrder'
                BY <2>2, <2>5, <2>6 DEF HeapOrder, Used
          <2> QED BY <2>4, <2>7 DEF Inv
    <1>5. CASE ~(c # 0 /\ key(j) >= key(c))
          <2>1. /\ heap_pc' = "idle" /\ UNCHANGED <<nodeList, index, lastIndex, node>>
                BY <1>5 DEF SiftDown
          <2>2. ASSUME NEW i \in Used, i > 1 PROVE key(Father(i)) <= key(i)
                <3>1. CASE Father(i) = j
                      <4>1. c \in Used /\ key(c) <= key(i) /\ key(j) < key(c) /\ j \in Used
                            BY <1>0, <1>1, <1>3, <1>5, <2>2, <3>1
                      <4> QED BY <1>0, <2>2, <3>1, <4>1
                <3>2. CASE Father(i) # j
                      BY <1>2, <2>2, <3>2
                <3> QED BY <3>1, <3>2
          <2> QED BY <2>1, <2>2 DEF Inv, HeapTypeOK, HeapOrder, Used
    <1> QED BY <1>4, <1>5

\* Every step preserves the order.
LEMMA NextInv == HeapAssumption /\ Inv /\ [HeapNext]_heap_vars => Inv'
    <1> SUFFICES ASSUME HeapAssumption, Inv, [HeapNext]_heap_vars PROVE Inv'
        OBVIOUS
    <1>1. CASE UNCHANGED heap_vars
          BY <1>1 DEF heap_vars, Inv, HeapTypeOK, HeapOrder, Used
    <1>2. CASE HeapNext
          BY <1>2, InsertInv, SiftUpInv, PopInv, SiftDownInv DEF HeapNext
    <1> QED BY <1>1, <1>2

\* The order from father to child makes the head of a heap at rest the smallest:
\* the first place with a smaller key would have a father with a smaller key too.
LEMMA HeadLemma == HeapAssumption /\ Inv => HeadIsMinimal
    <1> SUFFICES ASSUME HeapAssumption, Inv, heap_pc = "idle", lastIndex > 1
                 PROVE  \A i \in Used : nodeList[1].key <= nodeList[i].key
        BY DEF HeadIsMinimal, headIndex
    <1> DEFINE key(i) == nodeList[i].key
               smaller == {i \in Used : ~(key(1) <= key(i))}
    <1>0. 1 \in Used /\ \A i \in Used : i \in Nat /\ 1 <= i /\ key(i) \in Int
          BY TypeFacts DEF Inv
    <1>1. \A i \in Used : i > 1 => key(Father(i)) <= key(i) /\ Father(i) \in Used /\ Father(i) < i
          BY UsedFather DEF Inv, HeapOrder
    <1>2. ASSUME smaller # {} PROVE FALSE
          <2>1. PICK i \in smaller : \A m \in smaller : i <= m
                <3>1. smaller \subseteq Nat
                      BY <1>0
                <3> QED BY <1>2, <3>1, LeastNumber
          <2>2. i \in Used /\ i > 1
                BY <1>0, <2>1
          <2>3. Father(i) \notin smaller
                <3>1. Father(i) \in Used /\ Father(i) < i /\ i \in Nat /\ Father(i) \in Nat
                      BY <1>0, <1>1, <2>2
                <3>2. ~(i <= Father(i))
                      BY <3>1
                <3> QED BY <2>1, <3>2
          <2>4. key(1) <= key(Father(i)) /\ key(Father(i)) <= key(i)
                BY <1>1, <2>2, <2>3
          <2>5. key(1) \in Int /\ key(Father(i)) \in Int /\ key(i) \in Int
                BY <1>0, <1>1, <2>2
          <2> QED BY <2>1, <2>4, <2>5
    <1> QED BY <1>2

\* In every turn of the loops of _minHeapInsert and _minHeapPop only the node on
\* its way is out of order, and a heap at rest has its smallest key at the head.
THEOREM HeapIsOrdered ==
    ASSUME HeapAssumption
    PROVE  HeapSpec => []ArrayHeapOrder
    <1>1. Inv => ArrayHeapOrder
          BY HeadLemma DEF Inv, ArrayHeapOrder
    <1> QED BY InitInv, NextInv, <1>1, PTL DEF HeapSpec

-----------------------------------------------------------------------------
(* The heap as a priority queue.                                           *)

\* The places of S where the array f holds n, and their number.
PlacesOf(f, S, n) == {i \in S : f[i] = n}
CountOf(f, S, n) == Cardinality(PlacesOf(f, S, n))

\* An exchange of two places leaves as many copies of each node as there were.
LEMMA ExchangeCount ==
    ASSUME NEW S, IsFiniteSet(S), NEW f, NEW g, NEW a \in S, NEW b \in S, NEW n,
           g[a] = f[b], g[b] = f[a], \A i \in S : (i # a /\ i # b) => g[i] = f[i]
    PROVE  CountOf(g, S, n) = CountOf(f, S, n)
    <1> DEFINE F == {i \in S : f[i] = n}
               G == {i \in S : g[i] = n}
    <1> USE DEF CountOf, PlacesOf
    <1>1. IsFiniteSet(F) /\ Cardinality(F) \in Nat
          <2>1. F \in SUBSET S
                OBVIOUS
          <2> QED BY <2>1, FS_Subset, FS_CardinalityType
    <1>2. CASE f[a] = n <=> f[b] = n
          <2>1. G = F
                BY <1>2
          <2> QED BY <2>1
    <1>3. CASE f[a] = n /\ f[b] # n
          <2>1. G = (F \ {a}) \cup {b} /\ a \in F /\ b \notin F \ {a}
                BY <1>3
          <2>2. IsFiniteSet(F \ {a}) /\ Cardinality(F \ {a}) = Cardinality(F) - 1
                BY <1>1, <2>1, FS_RemoveElement
          <2>3. Cardinality(G) = Cardinality(F \ {a}) + 1
                BY <2>1, <2>2, FS_AddElement
          <2> QED BY <1>1, <2>2, <2>3
    <1>4. CASE f[b] = n /\ f[a] # n
          <2>1. G = (F \ {b}) \cup {a} /\ b \in F /\ a \notin F \ {b}
                BY <1>4
          <2>2. IsFiniteSet(F \ {b}) /\ Cardinality(F \ {b}) = Cardinality(F) - 1
                BY <1>1, <2>1, FS_RemoveElement
          <2>3. Cardinality(G) = Cardinality(F \ {b}) + 1
                BY <2>1, <2>2, FS_AddElement
          <2> QED BY <1>1, <2>2, <2>3
    <1> QED BY <1>2, <1>3, <1>4

\* The places of a node are finitely many.
LEMMA CopiesFinite ==
    ASSUME HeapAssumption, HeapTypeOK, NEW n
    PROVE  /\ IsFiniteSet(Used)
           /\ IsFiniteSet({i \in Used : nodeList[i] = n})
           /\ Copies(n) \in Nat
           /\ Copies(n) > 0 <=> \E i \in Used : nodeList[i] = n
    <1> DEFINE F == {i \in Used : nodeList[i] = n}
    <1>1. IsFiniteSet(Used)
          BY TypeFacts, FS_Interval DEF Used
    <1>2. F \in SUBSET Used
          OBVIOUS
    <1>3. IsFiniteSet(F)
          BY <1>1, <1>2, FS_Subset
    <1>4. Cardinality(F) \in Nat /\ (Cardinality(F) = 0 <=> F = {})
          BY <1>3, FS_CardinalityType, FS_EmptySet
    <1> QED BY <1>1, <1>3, <1>4 DEF Copies

\* insert adds one copy of the new node.
LEMMA InsertRefines ==
    ASSUME HeapAssumption, Inv, NEW key \in Keys, NEW data \in Data, Insert(key, data)
    PROVE  Queue!Next
    <1> DEFINE new == [key |-> key, data |-> data]
    <1>1. new \in Nodes /\ Queue!Nodes = Nodes
          BY DEF Nodes, Queue!Nodes
    <1>2. Used' = Used \cup {lastIndex} /\ lastIndex \notin Used
          BY TypeFacts DEF Inv, Insert, Used
    <1>3. /\ nodeList'[lastIndex] = new
          /\ \A i \in Used : nodeList'[i] = nodeList[i]
          BY <1>2, TypeFacts DEF Inv, HeapTypeOK, Insert, Places
    <1>4. ASSUME NEW n \in Nodes
          PROVE  Copies(n)' = IF n = new THEN Copies(n) + 1 ELSE Copies(n)
          <2> DEFINE F == {i \in Used : nodeList[i] = n}
          <2>1. IsFiniteSet(F) /\ lastIndex \notin F
                BY <1>2, CopiesFinite DEF Inv
          <2>2. CASE n = new
                <3>1. {i \in Used : nodeList[i] = n}' = F \cup {lastIndex}
                      BY <1>2, <1>3, <2>2
                <3> QED BY <2>1, <2>2, <3>1, FS_AddElement DEF Copies
          <2>3. CASE n # new
                <3>1. {i \in Used : nodeList[i] = n}' = F
                      BY <1>2, <1>3, <2>3
                <3> QED BY <2>3, <3>1 DEF Copies
          <2> QED BY <2>2, <2>3
    <1>5. Queue!Insert(new)
          BY <1>1, <1>4 DEF Queue!Insert, Insert
    <1> QED BY <1>1, <1>5 DEF Queue!Next

\* The turns of the two loops only exchange nodes in use.
LEMMA LoopRefines ==
    ASSUME HeapAssumption, Inv, SiftUp \/ SiftDown
    PROVE  UNCHANGED <<[n \in Nodes |-> Copies(n)], node>>
    <1>1. /\ lastIndex' = lastIndex /\ node' = node /\ Used' = Used
          BY DEF SiftUp, SiftDown, Used
    <1>2. CASE nodeList' = nodeList
          BY <1>1, <1>2 DEF Copies
    <1>3. CASE nodeList' # nodeList
          <2>1. PICK a \in Used, b \in Used : nodeList' = Exchange(a, b)
                <3>1. CASE SiftUp
                      <4>1. index \in Used /\ Father(index) # 0 /\ nodeList' = Exchange(Father(index), index)
                            BY <1>3, <3>1, TypeFacts DEF Inv, HeapTypeOK, SiftUp
                      <4>2. index > 1
                            BY <4>1, TypeFacts, FatherFacts DEF Inv
                      <4> QED BY <4>1, <4>2, UsedFather DEF Inv
                <3>2. CASE SiftDown
                      <4>1. /\ index \in Places /\ MinChild(index) # 0
                            /\ nodeList' = Exchange(index, MinChild(index))
                            BY <1>3, <3>2 DEF Inv, HeapTypeOK, SiftDown
                      <4>2. /\ MinChild(index) \in Used /\ MinChild(index) > 1
                            /\ Father(MinChild(index)) = index
                            BY <4>1, MinChildFacts DEF Inv
                      <4> QED BY <4>1, <4>2, UsedFather DEF Inv
                <3> QED BY <3>1, <3>2
          <2>2. /\ nodeList'[a] = nodeList[b] /\ nodeList'[b] = nodeList[a]
                /\ \A i \in Used : (i # a /\ i # b) => nodeList'[i] = nodeList[i]
                BY <2>1, TypeFacts DEF Inv, HeapTypeOK, Exchange
          <2>3. IsFiniteSet(Used)
                BY CopiesFinite DEF Inv
          <2>4. ASSUME NEW n \in Nodes PROVE Copies(n)' = Copies(n)
                <3>1. CountOf(nodeList', Used, n) = CountOf(nodeList, Used, n)
                      BY <2>2, <2>3, ExchangeCount
                <3> QED BY <1>1, <3>1 DEF Copies, CountOf, PlacesOf
          <2> QED BY <1>1, <2>4
    <1> QED BY <1>2, <1>3

\* pop takes away one copy of the head, which has the smallest key.
LEMMA PopRefines == ASSUME HeapAssumption, Inv, Pop PROVE Queue!Next
    <1> DEFINE last == lastIndex - 1
               head == nodeList[1]
    <1>1. /\ 1 \in Used /\ last \in Used /\ 1 \in Places /\ heap_pc = "idle" /\ lastIndex > 1
          BY TypeFacts DEF Inv, HeapTypeOK, Pop
    <1>2. head \in Nodes /\ Queue!Nodes = Nodes
          BY <1>1 DEF Inv, HeapTypeOK, Nodes, Queue!Nodes
    <1>3. /\ nodeList'[1] = nodeList[last] /\ nodeList'[last] = head
          /\ \A i \in Used : (i # 1 /\ i # last) => nodeList'[i] = nodeList[i]
          BY <1>1, TypeFacts DEF Inv, HeapTypeOK, Pop, Exchange, headIndex
    <1>4. Used' = Used \ {last}
          BY TypeFacts DEF Inv, Pop, Used
    <1>5. ASSUME NEW n \in Nodes
          PROVE  Copies(n)' = IF n = head THEN Copies(n) - 1 ELSE Copies(n)
          <2> DEFINE G == PlacesOf(nodeList', Used, n)
          <2>0. IsFiniteSet(Used) /\ Copies(n) \in Nat
                BY CopiesFinite DEF Inv
          <2>1. CountOf(nodeList', Used, n) = CountOf(nodeList, Used, n)
                BY <1>1, <1>3, <2>0, ExchangeCount
          <2>5. Cardinality(G) = Copies(n)
                BY <2>1 DEF Copies, CountOf, PlacesOf
          <2>2. IsFiniteSet(G)
                <3>1. G \in SUBSET Used
                      BY DEF PlacesOf
                <3> QED BY <2>0, <3>1, FS_Subset
          <2>3. {i \in Used : nodeList[i] = n}' = G \ {last}
                BY <1>4 DEF PlacesOf
          <2>4. last \in G <=> n = head
                BY <1>1, <1>3 DEF PlacesOf
          <2>6. Cardinality(G \ {last}) = IF n = head THEN Cardinality(G) - 1 ELSE Cardinality(G)
                BY <2>2, <2>4, FS_RemoveElement
          <2> QED BY <2>3, <2>5, <2>6 DEF Copies
    <1>6. Copies(head) > 0
          BY <1>1, CopiesFinite DEF Inv
    <1>7. ASSUME NEW m \in Nodes, Copies(m) > 0 PROVE head.key <= m.key
          <2>1. PICK i \in Used : nodeList[i] = m
                BY <1>7, CopiesFinite DEF Inv
          <2> QED BY <1>1, <2>1, HeadLemma DEF HeadIsMinimal, headIndex
    <1>8. Queue!Pop(head)
          BY <1>2, <1>5, <1>6, <1>7 DEF Queue!Pop, Pop, headIndex
    <1> QED BY <1>2, <1>8 DEF Queue!Next

\* Whatever the order of the calls, the heap is a priority queue: insert adds one
\* node, pop takes one with the smallest key, the loops lose and duplicate none.
THEOREM HeapIsQueue ==
    ASSUME HeapAssumption
    PROVE  HeapSpec => ImplementsQueue
    <1> DEFINE count == [n \in Nodes |-> Copies(n)]
    <1>1. HeapInit => Queue!Init
          <2> SUFFICES ASSUME HeapInit PROVE Queue!Init
              OBVIOUS
          <2>1. Used = {}
                BY DEF HeapInit, Used
          <2>2. \A n \in Nodes : Copies(n) = 0
                BY <2>1, FS_EmptySet DEF Copies
          <2> QED BY <2>2 DEF HeapInit, Queue!Init, Nodes, Queue!Nodes
    <1>2. Inv /\ [HeapNext]_heap_vars => [Queue!Next]_<<count, node>>
          <2> SUFFICES ASSUME Inv, [HeapNext]_heap_vars PROVE [Queue!Next]_<<count, node>>
              OBVIOUS
          <2>1. CASE UNCHANGED heap_vars
                BY <2>1 DEF heap_vars, Copies, Used
          <2>2. CASE \E key \in Keys, data \in Data : Insert(key, data)
                BY <2>2, InsertRefines
          <2>3. CASE SiftUp \/ SiftDown
                BY <2>3, LoopRefines
          <2>4. CASE Pop
                BY <2>4, PopRefines
          <2> QED BY <2>1, <2>2, <2>3, <2>4 DEF HeapNext
    <1> QED BY InitInv, NextInv, <1>1, <1>2, PTL DEF HeapSpec, ImplementsQueue, Queue!Spec
=============================================================================
