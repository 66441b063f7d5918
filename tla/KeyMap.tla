------------------------------- MODULE KeyMap -------------------------------
(***************************************************************************)
(* What the hash table of fun_timer/timerfd_hash.c promises: a map from    *)
(* keys to data.                                                           *)
(***************************************************************************)
CONSTANTS Keys, Data, NoData

VARIABLE map

Init == map = [k \in Keys |-> NoData]

Add(k, d) == map' = [map EXCEPT ![k] = d]

Del(k) == map' = [map EXCEPT ![k] = NoData]

Clear == map' = [k \in Keys |-> NoData]

Next == Clear \/ \E k \in Keys : Del(k) \/ \E d \in Data : Add(k, d)

Spec == Init /\ [][Next]_map
=============================================================================
