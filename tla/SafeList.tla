------------------------------ MODULE SafeList ------------------------------
(***************************************************************************)
(* fun_event/ubox/list_safe.c: a list whose elements may be added and      *)
(* deleted in the callbacks of the very loops that run over it.  A loop's  *)
(* iterator hangs on the element the loop will go to next; several loops   *)
(* (one in the callback of another) chain their iterators on one element.  *)
(* A deleted element hands its iterators to its successor.                 *)
(***************************************************************************)
EXTENDS Naturals, Sequences, SequencesExt

CONSTANTS
    Elements,
    MaxDepth,       \* bound: loops within loops
    SafeMaxCalls    \* bound: additions and deletions in all

ListHead == "head"  \* the list head, which is a safe_list too

SafeListAssumption ==
    MaxDepth \in Nat \ {0} /\ SafeMaxCalls \in Nat /\ ListHead \notin Elements

Nodes == Elements \cup {ListHead}
Depths == 1 .. MaxDepth
None == 0           \* the null iterator

VARIABLES
    safe_list,      \* the elements in order
    safe_i,         \* safe_list.i: the first iterator on each node
    safe_iter,      \* each loop's safe_list_iterator: next, next_i and head, a location
    safe_cur,       \* each loop's cur
    depth,          \* the loops that run; the innermost is in its callback
    since, visits,  \* history: what each loop found in the list and what it has visited
    missed,         \* history: elements a completed loop has passed over
    safe_calls

safe_vars == <<safe_list, safe_i, safe_iter, safe_cur, depth, since, visits, missed, safe_calls>>

Idle == [next |-> ListHead, next_i |-> None, head |-> <<"node", ListHead>>]

SafeInit ==
    /\ safe_list = <<>>
    /\ safe_i = [x \in Nodes |-> None]
    /\ safe_iter = [d \in Depths |-> Idle]
    /\ safe_cur = [d \in Depths |-> ListHead]
    /\ depth = 0 /\ safe_calls = 0 /\ missed = {}
    /\ since = [d \in Depths |-> {}]
    /\ visits = [d \in Depths |-> [e \in Elements |-> 0]]

----------------------------------------------------------------------------
(* The list and the iterator chains, the latter as s = [i, iter].          *)

\* x->list.next.
NextOf(x) ==
    IF x = ListHead THEN IF safe_list = <<>> THEN ListHead ELSE safe_list[1]
    ELSE LET n == CHOOSE k \in DOMAIN safe_list : safe_list[k] = x
         IN  IF n = Len(safe_list) THEN ListHead ELSE safe_list[n + 1]

chains == [i |-> safe_i, iter |-> safe_iter]

\* A store through a pointer to an iterator pointer.
Store(s, location, d) ==
    IF location[1] = "node" THEN [s EXCEPT !.i[location[2]] = d]
    ELSE [s EXCEPT !.iter[location[2]].next_i = d]

SetHead(s, d, location) == IF d = None THEN s ELSE [s EXCEPT !.iter[d].head = location]

\* __safe_list_set_iterator.
SetIterator(s, x, d) ==
    LET next == NextOf(x)
        next_i == s.i[next]
        first == [next |-> next, next_i |-> next_i, head |-> <<"node", next>>]
    IN  SetHead([i |-> [s.i EXCEPT ![next] = d], iter |-> [s.iter EXCEPT ![d] = first]],
                next_i, <<"iter", d>>)

\* __safe_list_del_iterator.
DelIterator(s, d) ==
    SetHead(Store(s, s.iter[d].head, s.iter[d].next_i), s.iter[d].next_i, s.iter[d].head)

----------------------------------------------------------------------------
(* Calls, outside every loop or in the innermost callback.                 *)

SafeCall == safe_calls < SafeMaxCalls /\ safe_calls' = safe_calls + 1

\* safe_list_add and safe_list_add_first.
SafeAdd(e, first) ==
    /\ SafeCall /\ e \notin Range(safe_list)
    /\ safe_list' = IF first THEN <<e>> \o safe_list ELSE Append(safe_list, e)
    /\ safe_i' = [safe_i EXCEPT ![e] = None]
    /\ UNCHANGED <<safe_iter, safe_cur, depth, since, visits, missed>>

\* The iterators chained on a node: those that run and go to it next.
On(x) == {d \in 1 .. depth : safe_iter[d].next = x}
Tail_(x) == CHOOSE d \in On(x) : safe_iter[d].next_i = None

\* The end of safe_list_del: the whole chain of e moves to the front of the
\* chain of next.
MoveChain(e, next) ==
    LET moved == [d \in Depths |-> [safe_iter[d] EXCEPT !.next = IF d \in On(e) THEN next ELSE @]]
        front == SetHead([i |-> [safe_i EXCEPT ![next] = safe_i[e], ![e] = None], iter |-> moved],
                         safe_i[e], <<"node", next>>)
    IN  SetHead(Store(front, <<"iter", Tail_(e)>>, safe_i[next]),
                safe_i[next], <<"iter", Tail_(e)>>)

\* safe_list_del.
DelTo(e, next) ==
    LET s == IF safe_i[e] = None THEN chains ELSE MoveChain(e, next)
    IN  /\ SafeCall /\ e \in Range(safe_list)
        /\ safe_list' = RemoveFirst(safe_list, e)
        /\ safe_i' = s.i /\ safe_iter' = s.iter
        /\ since' = [d \in Depths |-> since[d] \ {e}]
        /\ visits' = [d \in Depths |-> [visits[d] EXCEPT ![e] = 0]]
        /\ UNCHANGED <<safe_cur, depth, missed>>

FaultySafeDel(e) ==
    DelTo(e, IF safe_list[1] = e THEN ListHead ELSE CHOOSE x \in Range(safe_list) : NextOf(x) = e)

SafeDel(e) == DelTo(e, NextOf(e))

Visit(d, x) == visits' = [visits EXCEPT ![d][x] = IF @ < 2 THEN @ + 1 ELSE @]

\* safe_list_for_each up to the first callback.  On an empty list the iterator
\* is hung on the head and taken off again.
ForEach ==
    LET d == depth + 1
        s == SetIterator(chains, safe_list[1], d)
    IN  /\ depth < MaxDepth /\ safe_list # <<>>
        /\ safe_i' = s.i /\ safe_iter' = s.iter
        /\ safe_cur' = [safe_cur EXCEPT ![d] = safe_list[1]]
        /\ depth' = d
        /\ since' = [since EXCEPT ![d] = Range(safe_list)]
        /\ visits' = [visits EXCEPT ![d] = [e \in Elements |-> IF e = safe_list[1] THEN 1 ELSE 0]]
        /\ UNCHANGED <<safe_list, missed, safe_calls>>

EndLoop(s, missing) ==
    /\ safe_i' = s.i /\ safe_iter' = [s.iter EXCEPT ![depth] = Idle]
    /\ safe_cur' = [safe_cur EXCEPT ![depth] = ListHead]
    /\ since' = [since EXCEPT ![depth] = {}]
    /\ visits' = [visits EXCEPT ![depth] = [e \in Elements |-> 0]]
    /\ depth' = depth - 1 /\ missed' = missing
    /\ UNCHANGED <<safe_list, safe_calls>>

\* The callback returns nonzero.
Break ==
    /\ depth > 0
    /\ EndLoop(DelIterator(chains, depth), missed)

\* The callback returns 0: on to i.next, and the iterator to the one after it.
Continue ==
    LET x == safe_iter[depth].next
        s == SetIterator(DelIterator(chains, depth), x, depth)
    IN  /\ depth > 0
        /\ IF x = ListHead
           THEN EndLoop(DelIterator(s, depth),
                        missed \cup {e \in since[depth] \cap Range(safe_list) : visits[depth][e] = 0})
           ELSE /\ safe_i' = s.i /\ safe_iter' = s.iter
                /\ safe_cur' = [safe_cur EXCEPT ![depth] = x]
                /\ Visit(depth, x)
                /\ UNCHANGED <<safe_list, depth, since, missed, safe_calls>>

SafeNext ==
    \/ \E e \in Elements : SafeDel(e) \/ \E first \in BOOLEAN : SafeAdd(e, first)
    \/ ForEach \/ Break \/ Continue

SafeSpec == SafeInit /\ [][SafeNext]_safe_vars

----------------------------------------------------------------------------
Running == 1 .. depth

\* The type of the state; every running loop goes on to an element that is in
\* the list, or to its end, whatever has been deleted.
SafeTypeOK ==
    /\ safe_list \in Seq(Elements) /\ IsInjective(safe_list)
    /\ safe_i \in [Nodes -> Depths \cup {None}]
    /\ depth \in 0 .. MaxDepth
    /\ \A d \in Running : safe_iter[d].next \in Range(safe_list) \cup {ListHead}

\* The chains are in order: an iterator hangs on the node its loop goes to
\* next, the place its head points at holds it, and none hangs that has ended.
ChainsOK ==
    /\ \A d \in Running :
          LET at == safe_iter[d].head
          IN  /\ d = IF at[1] = "node" THEN safe_i[at[2]] ELSE safe_iter[at[2]].next_i
              /\ at[1] = "node" => at[2] = safe_iter[d].next
              /\ at[1] = "iter" => at[2] \in Running /\ safe_iter[at[2]].next = safe_iter[d].next
    /\ \A d \in Running : safe_iter[d].next_i # None =>
          safe_iter[d].next_i \in Running /\ safe_iter[safe_iter[d].next_i].head = <<"iter", d>>
    /\ \A x \in Nodes : safe_i[x] # None =>
          safe_i[x] \in Running /\ safe_iter[safe_i[x]].head = <<"node", x>>

\* A loop misses no element that was in the list from its beginning to its end
\* and visits none twice, whatever the callbacks and the loops in them delete
\* and add.
NoneMissed ==
    /\ missed = {}
    /\ \A d \in Running : \A e \in Elements : visits[d][e] <= 1

\* What safe_list_for_each promises: each element that stays in the list is
\* visited once, the loop's iterator chained on the node it goes to next.
VisitsEachOnce == SafeTypeOK /\ ChainsOK /\ NoneMissed
=============================================================================
