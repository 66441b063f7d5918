--------------------------- MODULE PriorityQueue ---------------------------
(***************************************************************************)
(* What a heap of fun_timer/minheap.c promises: a bag of nodes from which  *)
(* a node with the smallest key is taken.                                  *)
(***************************************************************************)
EXTENDS Integers

CONSTANTS Keys, Data

Nodes == [key : Keys, data : Data]

VARIABLES
    count,      \* how many copies of each node the queue holds
    out         \* the node the last pop handed over

Init ==
    /\ count = [n \in Nodes |-> 0]
    /\ out \in Nodes

Insert(n) ==
    /\ count' = [count EXCEPT ![n] = @ + 1]
    /\ UNCHANGED out

Pop(n) ==
    /\ count[n] > 0
    /\ \A m \in Nodes : count[m] > 0 => n.key <= m.key
    /\ count' = [count EXCEPT ![n] = @ - 1]
    /\ out' = n

Next == \E n \in Nodes : Insert(n) \/ Pop(n)

Spec == Init /\ [][Next]_<<count, out>>
=============================================================================
