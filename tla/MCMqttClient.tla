---------------------------- MODULE MCMqttClient ----------------------------
(* Small instances of MqttClient for TLC. *)
EXTENDS MqttClient, TLC

CONSTANTS u0, u1, u2, u3, ubad, d0, d1, d2, d3

\* The quality of service is in the message's name; ubad is published with
\* the forbidden level 3.
MCQos ==
    LET all == (u0 :> 0) @@ (u1 :> 1) @@ (u2 :> 2) @@ (u3 :> 2) @@ (ubad :> 3)
               @@ (d0 :> 0) @@ (d1 :> 1) @@ (d2 :> 2) @@ (d3 :> 2)
    IN  [m \in UpMsgs \cup DownMsgs |-> all[m]]

Bounds(timeouts, pings, repeats, faults) ==
    [timeouts |-> timeouts, pings |-> pings, repeats |-> repeats,
     faults |-> faults]

UpBudget      == Bounds(2, 0, 0, 0)
DownBudget    == Bounds(1, 0, 2, 0)
RequestBudget == Bounds(0, 1, 0, 0)
NoBudget      == Bounds(0, 0, 0, 0)
FaultBudget   == Bounds(1, 0, 0, 1)
=============================================================================
