---------------------------- MODULE SelectorHeap ----------------------------
(***************************************************************************)
(* The timers of fun_network/libnet/source/selector.c are the nodes of a   *)
(* binary tree, complete and in heap order, kept by pointers alone: left,  *)
(* right and up in each timer, timer_top and timer_last.  A timer is       *)
(* added after timer_last, the last one takes the place of a removed one,  *)
(* and then changes places with its neighbours until the order is back.    *)
(* An action is the part of a call before that loop, or one turn of it; no *)
(* other call comes in between.  What a removed timer keeps in its fields  *)
(* is overwritten before it is read again; the model clears it at once.    *)
(***************************************************************************)
EXTENDS Integers, FiniteSets

CONSTANTS Timers, Timeouts, Null

SelectorHeapAssumption == Timeouts \subseteq Int /\ Timeouts # {} /\ Null \notin Timers

VARIABLES
    left, right, up,
    timeout,
    in_heap,
    timer_top, timer_last,
    pc,         \* "idle", "up" in send_up, "down" in send_down
    elem,       \* the timer that changes places
    fired       \* history: the timer taken last to be fired

vars == <<left, right, up, timeout, in_heap, timer_top, timer_last, pc, elem, fired>>

\* sel_alloc_selector, and sel_alloc_timer for every timer.
Init ==
    /\ left = [t \in Timers |-> Null] /\ right = left /\ up = left
    /\ timeout = [t \in Timers |-> 0]
    /\ in_heap = [t \in Timers |-> FALSE]
    /\ timer_top = Null /\ timer_last = Null
    /\ pc = "idle" /\ elem = Null /\ fired = Null

IsLeft(t) == up[t] # Null /\ left[up[t]] = t
IsRight(t) == up[t] # Null /\ right[up[t]] = t

\* n steps down to the left, or to the right, from t.
Down(child, t, n) ==
    LET d[k \in Nat] == IF k = 0 THEN t ELSE child[d[k - 1]] IN d[n]

\* Up from t for as long as it is a left (right) child: where that ends, and
\* the steps it takes.
Climb(child, t) ==
    LET c[u \in Timers] ==
            IF up[u] # Null /\ child[up[u]] = u
            THEN [to |-> c[up[u]].to, steps |-> c[up[u]].steps + 1]
            ELSE [to |-> u, steps |-> 0]
    IN  c[t]

\* find_next_pos: the parent of the next timer to add; it becomes the left
\* child unless the parent has one.
NextParent(t) ==
    IF IsLeft(t) THEN up[t]
    ELSE LET c == Climb(right, t)
         IN  IF up[c.to] # Null THEN Down(left, right[up[c.to]], c.steps - 1)
             ELSE Down(left, c.to, c.steps)

\* find_prev_elem: the timer before t in the order of the places.
PrevElem(t) ==
    IF IsRight(t) THEN left[up[t]]
    ELSE LET c == Climb(left, t)
         IN  IF up[c.to] # Null THEN Down(right, left[up[c.to]], c.steps)
             ELSE Down(right, c.to, c.steps - 1)

----------------------------------------------------------------------------
(* sel_start_timer.                                                        *)

\* add_to_heap up to send_up.
AddToHeap(t, ms) ==
    IF timer_top = Null
    THEN /\ timer_top' = t
         /\ left' = [left EXCEPT ![t] = Null] /\ right' = [right EXCEPT ![t] = Null]
         /\ up' = [up EXCEPT ![t] = Null]
         /\ pc' = "idle" /\ elem' = Null
    ELSE LET parent == NextParent(timer_last)
             asLeft == ~IsLeft(timer_last)
         IN  /\ left' = [left EXCEPT ![t] = Null, ![parent] = IF asLeft THEN t ELSE @]
             /\ right' = [right EXCEPT ![t] = Null, ![parent] = IF asLeft THEN @ ELSE t]
             /\ up' = [up EXCEPT ![t] = parent]
             /\ IF ms < timeout[parent] THEN pc' = "up" /\ elem' = t ELSE pc' = "idle" /\ elem' = Null
             /\ UNCHANGED timer_top

\* A timer that runs is refused with EBUSY.
StartTimer(t, ms) ==
    /\ pc = "idle" /\ ~in_heap[t]
    /\ timeout' = [timeout EXCEPT ![t] = ms]
    /\ AddToHeap(t, ms)
    /\ timer_last' = t
    /\ in_heap' = [in_heap EXCEPT ![t] = TRUE]
    /\ UNCHANGED fired

----------------------------------------------------------------------------
(* Two neighbours change places, in send_up and in send_down.              *)

\* A child pointer, with parent and child exchanged.
Relinked(link, parent, child) ==
    [t \in Timers |->
        CASE t = child -> IF link[parent] = child THEN parent ELSE link[parent]
          [] t = parent -> link[child]
          [] OTHER -> IF link[t] = parent THEN child ELSE link[t]]

\* They exchange their links; the pointers to them follow.
Exchange(parent, child) ==
    /\ left' = Relinked(left, parent, child) /\ right' = Relinked(right, parent, child)
    /\ up' = [t \in Timers |->
                CASE t = child -> up[parent]
                  [] t = parent -> child
                  [] t \in {left[child], right[child]} -> parent
                  [] t \in {left[parent], right[parent]} \ {child} -> child
                  [] OTHER -> up[t]]
    /\ timer_top' = IF up[parent] = Null THEN child ELSE timer_top
    /\ timer_last' = IF timer_last = child THEN parent ELSE timer_last

Settle ==
    /\ pc' = "idle" /\ elem' = Null
    /\ UNCHANGED <<left, right, up, timer_top, timer_last>>

\* One turn of send_up.
SendUp ==
    /\ pc = "up"
    /\ IF up[elem] # Null /\ timeout[elem] < timeout[up[elem]]
       THEN Exchange(up[elem], elem) /\ UNCHANGED <<pc, elem>>
       ELSE Settle
    /\ UNCHANGED <<timeout, in_heap, fired>>

FaultySmaller(t) == left[t]

\* The child send_down compares with.
Smaller(t) ==
    IF right[t] # Null /\ timeout[left[t]] > timeout[right[t]] THEN right[t] ELSE left[t]

\* One turn of send_down.
SendDown ==
    /\ pc = "down"
    /\ IF left[elem] # Null /\ timeout[elem] > timeout[Smaller(elem)]
       THEN Exchange(elem, Smaller(elem)) /\ UNCHANGED <<pc, elem>>
       ELSE Settle
    /\ UNCHANGED <<timeout, in_heap, fired>>

----------------------------------------------------------------------------
\* Which way the last timer goes from the place of the removed one.
Direction(t, by) == IF up[t] # Null /\ timeout[by] < timeout[up[t]] THEN "up" ELSE "down"

\* remove_from_heap up to send_up and send_down, and in_heap = 0 after it.
RemoveFromHeap(t) ==
    LET to_insert == timer_last
        prev == PrevElem(to_insert)
        Detached(link) == [u \in Timers |-> IF link[u] = to_insert THEN Null ELSE link[u]]
        Replaced(link) == [u \in Timers |-> CASE u = t -> Null
                                              [] u # t /\ u = to_insert -> Detached(link)[t]
                                              [] OTHER -> IF link[u] = t THEN to_insert
                                                          ELSE Detached(link)[u]]
    IN  /\ in_heap' = [in_heap EXCEPT ![t] = FALSE]
        /\ timeout' = [timeout EXCEPT ![t] = 0]
        /\ CASE up[to_insert] = Null ->
                  /\ timer_top' = Null /\ timer_last' = Null
                  /\ UNCHANGED <<left, right, up, pc, elem>>
             [] up[to_insert] # Null /\ t = to_insert ->
                  /\ timer_last' = prev
                  /\ left' = Detached(left) /\ right' = Detached(right)
                  /\ up' = [up EXCEPT ![t] = Null]
                  /\ UNCHANGED <<timer_top, pc, elem>>
             [] OTHER ->
                  /\ timer_last' = IF prev = t THEN to_insert ELSE prev
                  /\ left' = Replaced(left) /\ right' = Replaced(right)
                  /\ up' = [u \in Timers |-> CASE u = t -> Null
                                               [] u = to_insert -> up[t]
                                               [] OTHER -> IF up[u] = t THEN to_insert ELSE up[u]]
                  /\ timer_top' = IF up[t] = Null THEN to_insert ELSE timer_top
                  /\ elem' = to_insert
                  /\ pc' = Direction(t, to_insert)

\* sel_stop_timer, and sel_free_timer on a timer that runs.
StopTimer(t) ==
    /\ pc = "idle" /\ in_heap[t]
    /\ RemoveFromHeap(t)
    /\ UNCHANGED fired

\* sel_select_once takes the top timer.
TakeTop ==
    /\ pc = "idle" /\ timer_top # Null
    /\ RemoveFromHeap(timer_top)
    /\ fired' = timer_top

Next ==
    \/ \E t \in Timers : StopTimer(t) \/ \E ms \in Timeouts : StartTimer(t, ms)
    \/ TakeTop \/ SendUp \/ SendDown

Spec == Init /\ [][Next]_vars

----------------------------------------------------------------------------
Running == {t \in Timers : in_heap[t]}
Links == Timers \cup {Null}

\* The type of the state.
TypeOK ==
    /\ left \in [Timers -> Links] /\ right \in [Timers -> Links] /\ up \in [Timers -> Links]
    /\ timeout \in [Timers -> Timeouts \cup {0}]
    /\ in_heap \in [Timers -> BOOLEAN]
    /\ {timer_top, timer_last, elem, fired} \subseteq Links
    /\ pc \in {"idle", "up", "down"} /\ (pc # "idle" => in_heap[elem])

\* The timer at place n of the tree, the root at 1 and the children of n at
\* 2n and 2n + 1.
At(n) ==
    LET a[k \in Nat] == IF k = 1 THEN timer_top
                        ELSE IF a[k \div 2] = Null THEN Null
                        ELSE IF k % 2 = 0 THEN left[a[k \div 2]] ELSE right[a[k \div 2]]
    IN  a[n]

\* The running timers fill the first places of the tree, each one of them,
\* whatever was added, stopped and fired before and in every turn of the loops;
\* timer_last is in the last place, and every child points up to its parent.
CompleteTree ==
    LET size == Cardinality(Running)
    IN  /\ {At(n) : n \in 1 .. size} = Running
        /\ timer_last = IF size = 0 THEN Null ELSE At(size)
        /\ \A t \in Running :
              /\ \A c \in {left[t], right[t]} : c # Null => in_heap[c] /\ up[c] = t
              /\ up[t] # Null => t \in {left[up[t]], right[up[t]]}
              /\ up[t] = Null <=> t = timer_top

\* At rest no timer has a smaller timeout than its parent.
HeapOrder ==
    pc = "idle" => \A t \in Running : up[t] # Null => timeout[up[t]] <= timeout[t]

Abstract == INSTANCE TimerSet WITH running <- Running

\* The tree is the set of the running timers, and the one fired is one of the
\* smallest timeout, whatever was stopped in the middle of the tree before.
ImplementsTimerSet == Abstract!Spec
=============================================================================
