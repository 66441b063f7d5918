------------------------------- MODULE MCMqtt -------------------------------
(***************************************************************************)
(* The instances of the MQTT client that the passing runs explore, as      *)
(* scenarios: the variable scenario, chosen in the initial state, says     *)
(* which instance a behaviour is one of.                                   *)
(***************************************************************************)
EXTENDS MCMqttClient

CONSTANT Scenarios      \* those this run explores

VARIABLES scenario,     \* the one this behaviour belongs to
          lfsr, steps   \* the variables of MqttPid

mcvars == <<vars, scenario, lfsr, steps>>

\* The application publishes, with timeouts.
Up == INSTANCE MqttClient WITH
        LastId <- 4, UpMsgs <- {u1, u2, u3}, DownMsgs <- {}, LengthBit3 <- {u1},
        Slots <- 3, Requests <- {}, HasReconnect <- FALSE, Budget <- UpBudget

\* It makes each of its other calls.
Ask == INSTANCE MqttClient WITH
        LastId <- 5, UpMsgs <- {u0}, DownMsgs <- {}, LengthBit3 <- {}, Slots <- 3,
        Requests <- {"SUBSCRIBE", "UNSUBSCRIBE", "PINGREQ"},
        HasReconnect <- FALSE, Budget <- RequestBudget

\* The broker publishes and repeats, the application tries a forbidden QoS.
Down == INSTANCE MqttClient WITH
        LastId <- 4, UpMsgs <- {ubad}, DownMsgs <- {d0, d2, d3}, LengthBit3 <- {},
        Slots <- 3, Requests <- {}, HasReconnect <- FALSE, Budget <- DownBudget

\* Both publish over a connection that fails and is opened again.
Faults == INSTANCE MqttClient WITH
        LastId <- 3, UpMsgs <- {u1, u2}, DownMsgs <- {d1}, LengthBit3 <- {},
        Slots <- 2, Requests <- {"DISCONNECT"}, HasReconnect <- TRUE, Budget <- FaultBudget

\* The shift register alone.
Pid == INSTANCE MqttPid WITH pid_lfsr <- lfsr

MCInit ==
    /\ scenario \in Scenarios
    /\ CASE scenario = "requests" -> Ask!Init
         [] scenario = "down"     -> Down!Init
         [] scenario = "faults"   -> Faults!Init
         [] OTHER                 -> Up!Init
    /\ Pid!Init

MCNext ==
    /\ UNCHANGED scenario
    /\ \/ /\ \/ scenario = "up" /\ Up!Next
             \/ scenario = "requests" /\ Ask!Next
             \/ scenario = "down" /\ Down!Next
             \/ scenario = "faults" /\ Faults!Next
          /\ UNCHANGED <<lfsr, steps>>
       \/ scenario = "pid" /\ Pid!Next /\ UNCHANGED vars

MCSpec == MCInit /\ [][MCNext]_mcvars

\* The fairness of MqttClient: in the scenarios this is used with, "up" and
\* "requests", HasReconnect and Slots have the values the configuration gives
\* them, and no other constant that differs occurs in these actions.
MCFairSpec == MCSpec /\ Fairness

-----------------------------------------------------------------------------
(* The properties of MqttClient that depend on the scenario's constants.   *)

\* MqttClient's UnknownAckHasACause: an answer is unknown to the client only
\* after a timeout of the client or a retry of the broker repeated a packet.
UnknownAckIsExplained ==
    /\ scenario = "requests" => Ask!UnknownAckHasACause
    /\ scenario = "down" => Down!UnknownAckHasACause

\* Neither side has an acknowledgement the other did not mean: what the client
\* regards as complete was delivered, and the broker has an acknowledgement for
\* a message only when publish_response_callback has seen that message.
AcksAreTrue ==
    /\ CompletedWasDelivered
    /\ scenario = "down" => Down!AcknowledgedWasHandled
    /\ scenario = "faults" => Faults!AcknowledgedWasHandled

\* Every publish and every other call is answered and completed, unless the
\* client stops in an error state or the connection is gone.
EveryCallSettles == EveryPublishSettles /\ EveryRequestSettles

\* MqttPid's MaxLength: the shift register of __mqtt_next_pid runs through
\* all 65535 identifiers before one recurs.
IdsAreMaxLength == Pid!MaxLength
=============================================================================
