---------------------------- MODULE MCStructures ----------------------------
(***************************************************************************)
(* Small instances of the data structures that keep their own links and    *)
(* offsets: the message queue, the two heaps of timers and the read-write  *)
(* lock.  scenario, chosen in the initial state, says which of them a      *)
(* behaviour exercises; the others stay as they were initialised.          *)
(***************************************************************************)
EXTENDS MessageQueue, MinHeap, RwRes

VARIABLES
    scenario,
    left, right, up, timeout, in_heap, timer_top, timer_last, tree_pc, elem, fired

tree_vars == <<left, right, up, timeout, in_heap, timer_top, timer_last, tree_pc, elem, fired>>

\* A block of 10 cells with headers of 2 cells: up to three messages fit.
MCPayloads == {<<"a">>, <<"b", "a">>}

\* The heap has room for five nodes, with equal keys among them; two threads may
\* wait for the lock while a third one releases it.  Six timers: the last one,
\* under the third, may have to go up when one under the second is stopped.
Tree == INSTANCE SelectorHeap WITH
            Timers <- 1..6, Timeouts <- {1, 2}, Null <- 0, pc <- tree_pc

ASSUME InstanceAssumption == HeapAssumption /\ RwAssumption /\ Tree!SelectorHeapAssumption

MCInit ==
    /\ scenario \in {"queue", "heap", "tree", "lock"}
    /\ Init /\ HeapInit /\ Tree!Init /\ RwInit
    /\ node = [key |-> 1, data |-> "x"]

MCNext ==
    /\ UNCHANGED scenario
    /\ \/ scenario = "queue" /\ Next /\ UNCHANGED <<heap_vars, tree_vars, rw_vars>>
       \/ scenario = "heap" /\ HeapNext /\ UNCHANGED <<vars, tree_vars, rw_vars>>
       \/ scenario = "tree" /\ Tree!Next /\ UNCHANGED <<vars, heap_vars, rw_vars>>
       \/ scenario = "lock" /\ RwNext /\ UNCHANGED <<vars, heap_vars, tree_vars>>

MCSpec == MCInit /\ [][MCNext]_<<scenario, vars, heap_vars, tree_vars, rw_vars>>

-----------------------------------------------------------------------------
\* SelectorHeap implements TimerSet: the timer that is fired is one of the
\* running ones with the smallest timeout.  In every turn of send_up and
\* send_down the links of the running timers form one complete tree, whatever
\* was stopped in its middle, and at rest no timer is due before its parent.
TreeIsTimerSet ==
    /\ [](Tree!TypeOK /\ Tree!CompleteTree /\ Tree!HeapOrder)
    /\ Tree!ImplementsTimerSet
=============================================================================
