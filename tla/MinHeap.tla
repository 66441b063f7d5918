------------------------------ MODULE MinHeap ------------------------------
(***************************************************************************)
(* The array heap of fun_timer/minheap.c.  The heap occupies the places    *)
(* 1 .. lastIndex - 1 of nodeList.  insert and pop put a node in place and *)
(* then exchange it along one path of the tree; an action is the part      *)
(* before the loop or one turn of it.  No other call comes in between.     *)
(***************************************************************************)
EXTENDS Integers, FiniteSets

CONSTANTS
    Keys,       \* the keys in use
    Data,       \* the data pointers in use
    maxNum      \* places allocated, place 0 included

HeapAssumption ==
    /\ Keys \subseteq Int /\ Keys # {} /\ Data # {}
    /\ maxNum \in Nat /\ maxNum >= 3

Nodes == [key : Keys, data : Data]
Places == 1 .. maxNum - 1
headIndex == 1

VARIABLES
    nodeList,   \* the array
    lastIndex,  \* the first free place
    heap_pc,    \* "idle", "up" in insert's loop, "down" in pop's
    index,      \* where the loop is
    node        \* what pop stored through its pointer

heap_vars == <<nodeList, lastIndex, heap_pc, index, node>>

\* minHeapInit.  What calloc left in the unused places is never read.
HeapInit ==
    /\ \E n \in Nodes : nodeList = [i \in Places |-> n] /\ node = n
    /\ lastIndex = 1
    /\ heap_pc = "idle" /\ index = headIndex

FaultyExchange(i, j) == [nodeList EXCEPT ![i] = nodeList[j]]

Exchange(i, j) == [nodeList EXCEPT ![i] = nodeList[j], ![j] = nodeList[i]]

\* _getFatherIndex; 0 for the root.
Father(i) == i \div 2

----------------------------------------------------------------------------
\* _minHeapInsert up to its loop.  A full heap is refused with -1, which
\* changes nothing; it is full with one place to spare.
Insert(key, data) ==
    /\ heap_pc = "idle" /\ lastIndex < maxNum - 1
    /\ nodeList' = [nodeList EXCEPT ![lastIndex] = [key |-> key, data |-> data]]
    /\ lastIndex' = lastIndex + 1
    /\ heap_pc' = "up" /\ index' = lastIndex
    /\ UNCHANGED node

\* One turn of its loop.  The inserted key is the one at index.
SiftUp ==
    /\ heap_pc = "up"
    /\ LET father == Father(index)
       IN  IF father # 0 /\ nodeList[index].key < nodeList[father].key
           THEN nodeList' = Exchange(father, index) /\ index' = father /\ UNCHANGED heap_pc
           ELSE heap_pc' = "idle" /\ UNCHANGED <<nodeList, index>>
    /\ UNCHANGED <<lastIndex, node>>

FaultyMinChild(i) ==
    LET l == 2 * i  r == 2 * i + 1
    IN  CASE l >= lastIndex -> 0
          [] OTHER -> l

\* _minChildIndex; 0 for a leaf.
MinChild(i) ==
    LET l == 2 * i  r == 2 * i + 1
    IN  CASE l >= lastIndex -> 0
          [] l < lastIndex /\ r >= lastIndex -> l
          [] OTHER -> IF nodeList[l].key < nodeList[r].key THEN l ELSE r

\* _minHeapPop up to its loop.  An empty heap is refused with -1.
Pop ==
    /\ heap_pc = "idle" /\ lastIndex # 1
    /\ node' = nodeList[headIndex]
    /\ nodeList' = Exchange(lastIndex - 1, headIndex)
    /\ lastIndex' = lastIndex - 1
    /\ heap_pc' = "down" /\ index' = headIndex

\* One turn of its loop.
SiftDown ==
    /\ heap_pc = "down"
    /\ LET child == MinChild(index)
       IN  IF child # 0 /\ nodeList[index].key >= nodeList[child].key
           THEN nodeList' = Exchange(index, child) /\ index' = child /\ UNCHANGED heap_pc
           ELSE heap_pc' = "idle" /\ UNCHANGED <<nodeList, index>>
    /\ UNCHANGED <<lastIndex, node>>

HeapNext ==
    \/ \E key \in Keys, data \in Data : Insert(key, data)
    \/ SiftUp \/ Pop \/ SiftDown

HeapSpec == HeapInit /\ [][HeapNext]_heap_vars

----------------------------------------------------------------------------
Used == 1 .. lastIndex - 1

\* The type of the state.  One place at the end of the array stays free, and
\* the exchanges touch none outside it.
HeapTypeOK ==
    /\ nodeList \in [Places -> Nodes]
    /\ lastIndex \in 1 .. maxNum - 1
    /\ heap_pc \in {"idle", "up", "down"}
    /\ index \in Places
    /\ heap_pc = "up" => index < lastIndex
    /\ node \in Nodes

\* No node has a smaller key than its father, but for the one on its way up
\* (which may be smaller) and the one on its way down (which may be larger).
\* In between, the children of the node on its way are in order with its father.
HeapOrder ==
    \A i \in Used :
        /\ (i > 1 /\ ~(heap_pc = "up" /\ i = index) /\ ~(heap_pc = "down" /\ Father(i) = index))
              => nodeList[Father(i)].key <= nodeList[i].key
        /\ (i > 3 /\ heap_pc # "idle" /\ Father(i) = index)
              => nodeList[Father(Father(i))].key <= nodeList[i].key

\* The head of a heap at rest has the smallest key.
HeadIsMinimal ==
    (heap_pc = "idle" /\ lastIndex > 1)
        => \A i \in Used : nodeList[headIndex].key <= nodeList[i].key

\* All of this: what a call finds and leaves, and every turn of its loop.
ArrayHeapOrder == HeapTypeOK /\ HeapOrder /\ HeadIsMinimal

Copies(n) == Cardinality({i \in Used : nodeList[i] = n})

Queue == INSTANCE PriorityQueue
            WITH count <- [n \in Nodes |-> Copies(n)], out <- node

\* Whatever the order of the calls, the heap is a priority queue: insert adds
\* one node, pop takes one with the smallest key, the loops lose and duplicate
\* none.
ImplementsQueue == Queue!Spec
=============================================================================
