----------------------------- MODULE MqttClient -----------------------------
(***************************************************************************)
(* The MQTT client of src/source/fun_protocol/mqtt/e_mqtt.c: a queue of    *)
(* staged packets that application threads append to, and mqtt_sync, which *)
(* one thread calls again and again to handle what the broker sent and to  *)
(* (re)send what is queued.  Every API call is one critical section of     *)
(* client->mutex and so one action; mqtt_sync takes the mutex three times  *)
(* (reconnect, __mqtt_recv, __mqtt_send), so other calls fall in between.  *)
(*                                                                         *)
(* The TCP connection and the broker are not part of the repository: they  *)
(* are modelled from the packets e_mqtt.c exchanges with them.  Packets    *)
(* arrive in order, the broker may close the connection at any time, sends *)
(* and receives may then fail.                                             *)
(***************************************************************************)
EXTENDS Integers, Sequences, FiniteSets, SequencesExt

CONSTANTS
    LastId,         \* packet identifiers are 1..LastId
    BrokerIds,      \* those the broker uses for its own messages
    UpMsgs,         \* messages the application publishes
    DownMsgs,       \* messages the broker publishes to the client
    Qos,            \* the quality of service of each message
    LengthBit3,     \* messages whose length byte start[1] has bit 3 set
    Slots,          \* how many packets the send buffer holds
    Requests,       \* the other calls the application makes, each once
    HasReconnect,   \* mqtt_init_reconnect was used, not mqtt_init
    Budget,         \* bounds on timeouts, pings, repeats, faults
    NoId, NoMsg     \* the packet has no identifier, carries no message

ASSUME ClientAssumption ==
    /\ Slots \in Nat \ {0}
    /\ LastId \in Nat /\ LastId > Slots
    /\ BrokerIds \subseteq 1..LastId
    /\ LengthBit3 \subseteq UpMsgs
    /\ Qos \in [UpMsgs \cup DownMsgs -> 0..3]
    /\ \A m \in DownMsgs : Qos[m] # 3
    /\ Requests \subseteq {"SUBSCRIBE", "UNSUBSCRIBE", "PINGREQ", "DISCONNECT"}
    /\ HasReconnect \in BOOLEAN
    /\ Budget \in [{"timeouts", "pings", "repeats", "faults"} -> Nat]
    /\ NoId \notin 1..LastId /\ NoMsg \notin UpMsgs \cup DownMsgs

VARIABLES
    error,      \* client->error
    mutex,      \* the critical section that holds client->mutex, or "free"
    pc,         \* where the thread that calls mqtt_sync is
    mq,         \* client->mq: the queued messages, oldest first
    pid_lfsr,   \* client->pid_lfsr: the identifier last taken
    up,         \* packets on their way to the broker
    down,       \* packets on their way to the client or in its recv_buffer
    held,       \* Head(down) is in recv_buffer, left there by an error return
    open,       \* the broker has not closed the connection
    session,    \* the broker has seen this connection's CONNECT
    incoming,   \* identifiers of QoS 2 publishes the broker has yet to release
    outgoing,   \* the broker's handshake for each of its messages
    published,  \* the messages mqtt_publish was called with, in order
    asked,      \* the requests the application has made
    delivered,  \* what the broker has passed on to subscribers, in order
    handled,    \* what publish_response_callback was called with, in order
    left        \* how much of Budget is left

Ids == 1..LastId

client     == <<error, mutex, pc, mq, pid_lfsr>>
connection == <<up, down, held, open>>
broker     == <<session, incoming, outgoing, delivered>>
app        == <<published, asked, handled>>
vars       == <<client, connection, broker, app, left>>

-----------------------------------------------------------------------------
(* Queued messages and packets.                                            *)

Controls == {"CONNECT", "PUBLISH", "PUBACK", "PUBREC", "PUBREL", "PUBCOMP",
             "SUBSCRIBE", "UNSUBSCRIBE", "PINGREQ", "DISCONNECT"}

Responses == {"CONNACK", "REFUSED", "PUBLISH", "TOOBIG", "MALFORMED",
              "PUBACK", "PUBREC", "PUBREL", "PUBCOMP", "SUBACK", "SUBFAIL", "UNSUBACK", "PINGRESP"}

Errors == {"OK", "CONNECT_NOT_CALLED", "INITIAL_RECONNECT", "SOCKET_ERROR",
           "SEND_BUFFER_IS_FULL", "ACK_OF_UNKNOWN", "CONNECTION_REFUSED",
           "SUBSCRIBE_FAILED", "RECV_BUFFER_TOO_SMALL", "MALFORMED_RESPONSE",
           "PUBLISH_FORBIDDEN_QOS"}

\* The packet on the wire is the record as it was when it was sent, so its
\* state tells a first send from a resend; the broker looks at neither.
\* dup is the DUP bit of start[0], bit3 is bit 3 of start[1], which belongs
\* to the packet's remaining length.
Message(control, id, msg) ==
    [control |-> control, id |-> id, msg |-> msg, state |-> "UNSENT",
     dup |-> FALSE, bit3 |-> msg \in LengthBit3]

Response(control, id, msg) == [control |-> control, id |-> id, msg |-> msg]

IsPublish(m, qos) == m.control = "PUBLISH" /\ Qos[m.msg] = qos

\* mqtt_mq_find: the oldest message of that type, with that identifier, or
\* when none is asked for, not COMPLETE.  0 stands for NULL.
mq_find(q, control, id) ==
    LET found == {i \in 1..Len(q) :
                    /\ q[i].control = control
                    /\ IF id = NoId THEN q[i].state # "COMPLETE" ELSE q[i].id = id}
    IN  IF found = {} THEN 0 ELSE Min(found)

\* A faulty mqtt_mq_clean that gives up whatever awaits an answer.
FinishedOnceSent(m) == m.state # "UNSENT"

\* mqtt_mq_clean: drop the finished messages at the front; a CONNECT that
\* still awaits its CONNACK counts as finished.
Finished(m) == m.state = "COMPLETE" \/ (m.control = "CONNECT" /\ m.state = "AWAITING_ACK")

mq_clean(q) ==
    LET unfinished == {i \in 1..Len(q) : ~ Finished(q[i])}
    IN  IF unfinished = {} THEN <<>> ELSE SubSeq(q, Min(unfinished), Len(q))

\* MQTT_CLIENT_TRY_PACK: what becomes of the queue and of client->error, and
\* whether the message was registered.
TryPack(q, m) ==
    LET c == mq_clean(q)
        outcome(queue, e) == [mq |-> queue, error |-> e]
    IN  IF error # "OK" THEN outcome(q, error)
        ELSE IF m.msg \in UpMsgs /\ Qos[m.msg] = 3 THEN outcome(q, "PUBLISH_FORBIDDEN_QOS")
        ELSE IF Len(q) < Slots THEN outcome(Append(q, m), "OK")
        ELSE IF Len(c) < Slots THEN outcome(Append(c, m), "OK")
        ELSE outcome(c, "SEND_BUFFER_IS_FULL")

\* A faulty __mqtt_next_pid that starts again at the first identifier.
LowestPid(q) == Min(Ids \ {q[i].id : i \in 1..Len(q)})

\* __mqtt_next_pid: the first identifier after the last one taken, in the
\* order of the shift register, that no queued message has.  Identifiers are
\* numbered by their place in that order, a cycle through all of them
\* (MqttPid), so one is not taken again before all others were passed.
next_pid(q) ==
    LET after(k) == ((pid_lfsr + k - 1) % LastId) + 1
        queued   == {q[i].id : i \in 1..Len(q)}
    IN  after(Min({k \in 1..LastId : after(k) \notin queued}))

-----------------------------------------------------------------------------
\* mqtt_init leaves the mutex locked for mqtt_connect; mqtt_init_reconnect
\* does not lock it and leaves the connection to the first mqtt_sync.
Init ==
    /\ error = IF HasReconnect THEN "INITIAL_RECONNECT" ELSE "CONNECT_NOT_CALLED"
    /\ mutex = IF HasReconnect THEN "free" ELSE "init"
    /\ pc = "idle"
    /\ mq = <<>> /\ pid_lfsr = LastId /\ up = <<>> /\ down = <<>> /\ held = FALSE
    /\ open = ~ HasReconnect
    /\ session = FALSE /\ incoming = {}
    /\ outgoing = [m \in DownMsgs |-> [step |-> "idle", id |-> NoId]]
    /\ published = <<>> /\ asked = {} /\ delivered = <<>> /\ handled = <<>>
    /\ left = Budget

(***************************************************************************)
(* The application's calls.  One made in an error state stages nothing,    *)
(* but has taken an identifier by then.  Before the first mqtt_sync of a   *)
(* client with a reconnect callback there is no buffer and no call may be  *)
(* made: __mqtt_next_pid would read through a null mem_end.                *)
(***************************************************************************)
Stage(m) ==
    LET t == TryPack(mq, m) IN mq' = t.mq /\ error' = t.error

mqtt_connect ==
    /\ mutex = "init"
    /\ error = "CONNECT_NOT_CALLED"
    /\ mq' = Append(mq, Message("CONNECT", NoId, NoMsg))
    /\ error' = "OK"
    /\ mutex' = "free"
    /\ UNCHANGED <<pc, pid_lfsr, connection, broker, app, left>>

mqtt_publish(m) ==
    /\ mutex = "free" /\ error # "INITIAL_RECONNECT"
    /\ m \notin Range(published)
    /\ pid_lfsr' = next_pid(mq)
    /\ Stage(Message("PUBLISH", next_pid(mq), m))
    /\ published' = Append(published, m)
    /\ UNCHANGED <<mutex, pc, connection, broker, asked, handled, left>>

\* mqtt_subscribe, mqtt_unsubscribe, mqtt_ping, mqtt_disconnect.
Request(control) ==
    /\ mutex = "free" /\ error # "INITIAL_RECONNECT"
    /\ control \notin asked
    /\ IF control \in {"SUBSCRIBE", "UNSUBSCRIBE"}
       THEN pid_lfsr' = next_pid(mq) /\ Stage(Message(control, next_pid(mq), NoMsg))
       ELSE pid_lfsr' = pid_lfsr /\ Stage(Message(control, NoId, NoMsg))
    /\ asked' = asked \cup {control}
    /\ UNCHANGED <<mutex, pc, connection, broker, published, handled, left>>

(***************************************************************************)
(* mqtt_sync: recover from an error, then __mqtt_recv, then __mqtt_send.   *)
(***************************************************************************)
SyncStart ==
    /\ pc = "idle" /\ mutex = "free"
    /\ error = "OK" \/ ~ HasReconnect
    /\ pc' = "to_recv"
    /\ UNCHANGED <<error, mutex, mq, pid_lfsr, connection, broker, app, left>>

\* mqtt_reinit: a new socket and an empty receive buffer; the send buffer is
\* emptied too, so that queue is all that is left in it.
mqtt_reinit(queue) ==
    /\ mq' = queue
    /\ up' = <<>> /\ down' = <<>> /\ held' = FALSE /\ open' = TRUE

\* The callback closes the old socket, opens a new one, calls mqtt_reinit and
\* mqtt_connect, which asks for a clean session.
SyncReconnect ==
    /\ pc = "idle" /\ mutex = "free"
    /\ error # "OK" /\ HasReconnect
    /\ mqtt_reinit(<<Message("CONNECT", NoId, NoMsg)>>)
    /\ error' = "OK"
    /\ pc' = "to_recv"
    /\ session' = FALSE /\ incoming' = {}
    /\ outgoing' = [m \in DownMsgs |-> IF outgoing[m].step = "idle" THEN outgoing[m]
                                       ELSE [outgoing[m] EXCEPT !.step = "lost"]]
    /\ UNCHANGED <<mutex, pid_lfsr, delivered, app, left>>

RecvEnter ==
    /\ pc = "to_recv" /\ mutex = "free"
    /\ pc' = "recv" /\ mutex' = "recv"
    /\ UNCHANGED <<error, mq, pid_lfsr, connection, broker, app, left>>

\* Nothing (more) to read, or the broker closed the connection: recvall
\* returns 0 for both.
RecvDone ==
    /\ pc = "recv" /\ ~ held
    /\ pc' = "to_send" /\ mutex' = "free"
    /\ UNCHANGED <<error, mq, pid_lfsr, connection, broker, app, left>>

RecvFails ==
    /\ pc = "recv" /\ ~ open /\ ~ held
    /\ error' = "SOCKET_ERROR"
    /\ pc' = "idle" /\ mutex' = "free"
    /\ UNCHANGED <<mq, pid_lfsr, connection, broker, app, left>>

\* A faulty error return that forgets MQTT_PAL_MUTEX_UNLOCK.
AbortLocked(e) ==
    /\ error' = e
    /\ pc' = "idle" /\ mutex' = mutex
    /\ held' = TRUE
    /\ UNCHANGED <<pid_lfsr, down, up, open, broker, published, asked, left>>

\* An error return leaves the response in recv_buffer; otherwise the loop
\* removes it and goes on.
Abort(e) ==
    /\ error' = e
    /\ pc' = "idle" /\ mutex' = "free"
    /\ held' = TRUE
    /\ UNCHANGED <<pid_lfsr, down, up, open, broker, published, asked, left>>

Consume ==
    /\ down' = Tail(down)
    /\ held' = FALSE
    /\ UNCHANGED <<pc, mutex, pid_lfsr, up, open, broker, published, asked, left>>

Complete(q, i) == [q EXCEPT ![i].state = "COMPLETE"]

\* Stage the answer to a response, on a queue that handling it has changed.
Answer(q, control, id) ==
    LET t == TryPack(q, Message(control, id, NoMsg))
    IN  /\ mq' = t.mq
        /\ IF t.error = "OK" THEN Consume /\ error' = "OK" ELSE Abort(t.error)

\* What each acknowledgement acknowledges, and the oldest message of that
\* kind: 0 when there is none.
Acknowledges ==
    [CONNACK |-> "CONNECT", REFUSED |-> "CONNECT", PUBACK |-> "PUBLISH",
     PUBREC |-> "PUBLISH", PUBREL |-> "PUBREC", PUBCOMP |-> "PUBREL",
     SUBACK |-> "SUBSCRIBE", SUBFAIL |-> "SUBSCRIBE",
     UNSUBACK |-> "UNSUBSCRIBE", PINGRESP |-> "PINGREQ"]

Target(p) == mq_find(mq, Acknowledges[p.control], p.id)

\* A second PUBREC, when the PUBREL it asks for is queued.
RepeatedPubrec(p) == p.control = "PUBREC" /\ mq_find(mq, "PUBREL", p.id) # 0

OnUnknownAck(p) ==
    /\ p.control \in DOMAIN Acknowledges
    /\ ~ RepeatedPubrec(p)
    /\ Target(p) = 0
    /\ Abort("ACK_OF_UNKNOWN")
    /\ UNCHANGED <<mq, handled>>

Release(q) == mq' = q /\ error' = error /\ Consume

OnConnack(p) ==
    /\ p.control \in {"CONNACK", "REFUSED"} /\ Target(p) # 0
    /\ IF p.control = "CONNACK" THEN Release(Complete(mq, Target(p)))
       ELSE mq' = Complete(mq, Target(p)) /\ Abort("CONNECTION_REFUSED")
    /\ handled' = handled

\* A faulty duplicate check.
NeverDuplicate(p) == FALSE

\* A QoS 2 publish is a duplicate when its PUBREC is queued.
Duplicate(p) == mq_find(mq, "PUBREC", p.id) # 0

\* A faulty handler that leaves the switch once the PUBREC is staged.
OnPublishWithoutCallback(p) ==
    /\ p.control = "PUBLISH"
    /\ \/ Qos[p.msg] = 0 /\ Release(mq)
       \/ Qos[p.msg] = 1 /\ Answer(mq, "PUBACK", p.id)
       \/ Qos[p.msg] = 2 /\ IF Duplicate(p) THEN Release(mq) ELSE Answer(mq, "PUBREC", p.id)
    /\ handled' = IF Qos[p.msg] > 0 THEN handled ELSE Append(handled, p.msg)

OnPublish(p) ==
    /\ p.control = "PUBLISH"
    /\ \/ Qos[p.msg] = 0 /\ Release(mq)
       \/ Qos[p.msg] = 1 /\ Answer(mq, "PUBACK", p.id)
       \/ Qos[p.msg] = 2 /\ IF Duplicate(p) THEN Release(mq) ELSE Answer(mq, "PUBREC", p.id)
    /\ handled' = IF held' \/ (Qos[p.msg] = 2 /\ Duplicate(p)) THEN handled
                  ELSE Append(handled, p.msg)

\* The response is larger than the receive buffer, or does not parse.
OnUnusable(p) ==
    /\ p.control \in {"TOOBIG", "MALFORMED"}
    /\ Abort(IF p.control = "TOOBIG" THEN "RECV_BUFFER_TOO_SMALL" ELSE "MALFORMED_RESPONSE")
    /\ UNCHANGED <<mq, handled>>

OnPuback(p) ==
    /\ p.control = "PUBACK" /\ Target(p) # 0
    /\ Release(Complete(mq, Target(p)))
    /\ handled' = handled

\* A faulty handler that stages PUBREL but does not release the PUBLISH.
OnPubrecKeepsPublish(p) ==
    /\ p.control = "PUBREC"
    /\ IF RepeatedPubrec(p) THEN Release(mq)
       ELSE Target(p) # 0 /\ Answer(mq, "PUBREL", p.id)
    /\ handled' = handled

OnPubrec(p) ==
    /\ p.control = "PUBREC"
    /\ IF RepeatedPubrec(p) THEN Release(mq)
       ELSE Target(p) # 0 /\ Answer(Complete(mq, Target(p)), "PUBREL", p.id)
    /\ handled' = handled

OnPubrel(p) ==
    /\ p.control = "PUBREL" /\ Target(p) # 0
    /\ Answer(Complete(mq, Target(p)), "PUBCOMP", p.id)
    /\ handled' = handled

OnPubcomp(p) ==
    /\ p.control = "PUBCOMP" /\ Target(p) # 0
    /\ Release(Complete(mq, Target(p)))
    /\ handled' = handled

OnSuback(p) ==
    /\ p.control \in {"SUBACK", "SUBFAIL"} /\ Target(p) # 0
    /\ IF p.control = "SUBACK" THEN Release(Complete(mq, Target(p)))
       ELSE mq' = Complete(mq, Target(p)) /\ Abort("SUBSCRIBE_FAILED")
    /\ handled' = handled

OnUnsuback(p) ==
    /\ p.control = "UNSUBACK" /\ Target(p) # 0
    /\ Release(Complete(mq, Target(p)))
    /\ handled' = handled

OnPingresp(p) ==
    /\ p.control = "PINGRESP" /\ Target(p) # 0
    /\ Release(Complete(mq, Target(p)))
    /\ handled' = handled

Recv ==
    /\ pc = "recv" /\ down # <<>>
    /\ LET p == Head(down)
       IN  \/ OnConnack(p) \/ OnPublish(p) \/ OnUnusable(p) \/ OnPuback(p)
           \/ OnPubrec(p) \/ OnPubrel(p) \/ OnPubcomp(p) \/ OnSuback(p)
           \/ OnUnsuback(p) \/ OnPingresp(p) \/ OnUnknownAck(p)

(***************************************************************************)
(* __mqtt_send, one pass over the queue under the mutex.  expired are the  *)
(* messages whose ACK is overdue; upto bounds the part of the queue that   *)
(* is gone through before a send fails.                                    *)
(***************************************************************************)
Overdue == {i \in 1..Len(mq) : mq[i].state = "AWAITING_ACK"}

Due(i, expired) == mq[i].state = "UNSENT" \/ i \in expired

\* A faulty test that a finished QoS 2 PUBLISH passes too.
AnyQos2(i) == IsPublish(mq[i], 2)

UnfinishedQos2(i) == IsPublish(mq[i], 2) /\ mq[i].state # "COMPLETE"

\* A faulty pass that does not look at the other QoS 2 messages.
NeverBlocked(i) == FALSE

\* Only the first unfinished QoS 2 PUBLISH may be sent.
Blocked(i) == UnfinishedQos2(i) /\ \E j \in 1..(i - 1) : UnfinishedQos2(j)

Sendable(i, expired) == Due(i, expired) /\ ~ Blocked(i)

\* The state a message is left in once it is sent.  For QoS 1 the code sets
\* MQTT_PUBLISH_DUP in start[1].
AfterSend(m) ==
    IF m.control \in {"PUBACK", "PUBCOMP", "DISCONNECT"} \/ IsPublish(m, 0)
    THEN [m EXCEPT !.state = "COMPLETE"]
    ELSE IF IsPublish(m, 1)
    THEN [m EXCEPT !.state = "AWAITING_ACK", !.bit3 = TRUE]
    ELSE [m EXCEPT !.state = "AWAITING_ACK"]

Pass(expired, upto) == {i \in 1..upto : Sendable(i, expired)}

\* The packets of one pass, in the order of the queue: the one sequence there
\* is, as a set.
Sent(sending) ==
    {[k \in DOMAIN order |-> mq[order[k]]] :
        order \in {f \in [1..Cardinality(sending) -> sending] :
                      \A j, k \in DOMAIN f : j < k => f[j] < f[k]}}

SendPass(expired, upto) ==
    /\ pc = "to_send" /\ mutex = "free"
    /\ error \in {"OK", "SEND_BUFFER_IS_FULL"}
    /\ Cardinality(expired) <= left.timeouts
    /\ pc' = "idle"
    /\ IF open THEN \E packets \in Sent(Pass(expired, upto)) : up' = up \o packets
       ELSE up' = up
    /\ UNCHANGED <<mutex, pid_lfsr, down, held, open, broker, app>>

sent_queue(sending) ==
    [i \in 1..Len(mq) |-> IF i \in sending THEN AfterSend(mq[i]) ELSE mq[i]]

\* Every message was gone through.  When nothing was sent the keep-alive
\* time may have passed since the last send: then a PINGREQ is staged.
SendAll(expired) ==
    LET sending == Pass(expired, Len(mq))
        ping(q) == TryPack(q, Message("PINGREQ", NoId, NoMsg))
    IN  /\ SendPass(expired, Len(mq))
        /\ \/ /\ mq' = sent_queue(sending)
              /\ error' = error
              /\ left' = [left EXCEPT !.timeouts = @ - Cardinality(expired)]
           \/ /\ sending = {} /\ expired = {}
              /\ left.pings > 0
              /\ mq' = ping(mq).mq
              /\ error' = ping(mq).error
              /\ left' = [left EXCEPT !.pings = @ - 1]

\* A send failed: the messages before it are sent, the error is kept.
SendFails(expired, upto) ==
    /\ ~ open \/ left.faults > 0
    /\ upto < Len(mq) /\ Sendable(upto + 1, expired)
    /\ expired \subseteq 1..(upto + 1)
    /\ SendPass(expired, upto)
    /\ mq' = sent_queue(Pass(expired, upto))
    /\ error' = "SOCKET_ERROR"
    /\ left' = [left EXCEPT !.timeouts = @ - Cardinality(expired),
                            !.faults = IF open THEN @ - 1 ELSE @]

\* In any other error state __mqtt_send returns at once.
SendRefused ==
    /\ pc = "to_send" /\ mutex = "free"
    /\ error \notin {"OK", "SEND_BUFFER_IS_FULL"}
    /\ pc' = "idle"
    /\ UNCHANGED <<error, mutex, mq, pid_lfsr, connection, broker, app, left>>

-----------------------------------------------------------------------------
(* The broker (external).                                                  *)

Close ==
    /\ open' = FALSE
    /\ up' = <<>>
    /\ UNCHANGED <<down, session, incoming, outgoing, delivered>>

Reply(control, id) ==
    /\ down' = Append(down, Response(control, id, NoMsg))
    /\ up' = Tail(up) /\ open' = open

\* The handshake of the broker's message that uses identifier id moves on.
Advance(id, from, to) ==
    outgoing' = [m \in DownMsgs |->
        IF outgoing[m].id = id /\ outgoing[m].step \in from
        THEN [outgoing[m] EXCEPT !.step = to] ELSE outgoing[m]]

Take(p) ==
    \/ /\ p.control = "CONNECT" /\ ~ session
       /\ session' = TRUE
       /\ Reply("CONNACK", NoId) \/ Reply("REFUSED", NoId)
       /\ UNCHANGED <<incoming, outgoing, delivered>>
    \/ /\ p.control = "PUBLISH"
       /\ LET new == ~ (Qos[p.msg] = 2 /\ p.id \in incoming)
          IN  delivered' = IF new THEN Append(delivered, p.msg) ELSE delivered
       /\ incoming' = IF Qos[p.msg] = 2 THEN incoming \cup {p.id} ELSE incoming
       /\ IF Qos[p.msg] = 0 THEN down' = down /\ up' = Tail(up) /\ open' = open
          ELSE Reply(IF Qos[p.msg] = 1 THEN "PUBACK" ELSE "PUBREC", p.id)
       /\ UNCHANGED <<session, outgoing>>
    \/ /\ p.control = "PUBREL"
       /\ incoming' = incoming \ {p.id}
       /\ Reply("PUBCOMP", p.id)
       /\ UNCHANGED <<session, outgoing, delivered>>
    \/ /\ p.control = "PUBREC"
       /\ Advance(p.id, {"sent"}, "release")
       /\ Reply("PUBREL", p.id)
       /\ UNCHANGED <<session, incoming, delivered>>
    \/ /\ p.control \in {"PUBACK", "PUBCOMP"}
       /\ Advance(p.id, IF p.control = "PUBACK" THEN {"sent"} ELSE {"release"}, "done")
       /\ up' = Tail(up)
       /\ UNCHANGED <<down, open, session, incoming, delivered>>
    \/ /\ p.control \in {"SUBSCRIBE", "UNSUBSCRIBE", "PINGREQ"}
       /\ \/ p.control = "SUBSCRIBE" /\ (Reply("SUBACK", p.id) \/ Reply("SUBFAIL", p.id))
          \/ p.control = "UNSUBSCRIBE" /\ Reply("UNSUBACK", p.id)
          \/ p.control = "PINGREQ" /\ Reply("PINGRESP", NoId)
       /\ UNCHANGED <<session, incoming, outgoing, delivered>>

\* A PUBLISH whose length byte was changed does not parse: the broker closes,
\* as it does for a second CONNECT, a packet before CONNECT and DISCONNECT.
Offends(p) ==
    \/ p.control = "PUBLISH" /\ p.bit3 # (p.msg \in LengthBit3)
    \/ p.control = "CONNECT" /\ session
    \/ p.control # "CONNECT" /\ ~ session
    \/ p.control = "DISCONNECT"

BrokerTakes ==
    /\ open /\ up # <<>>
    /\ IF Offends(Head(up)) THEN Close ELSE Take(Head(up))
    /\ UNCHANGED <<held, client, app, left>>

BrokerCloses ==
    /\ open /\ left.faults > 0
    /\ Close
    /\ left' = [left EXCEPT !.faults = @ - 1]
    /\ UNCHANGED <<held, client, app>>

\* A new message, under an identifier no unfinished handshake uses.
BrokerPublishes(m) ==
    /\ open /\ session /\ outgoing[m].step = "idle"
    /\ \E id \in IF Qos[m] = 0 THEN {NoId}
                 ELSE {i \in BrokerIds : \A n \in DownMsgs :
                         outgoing[n].id = i => outgoing[n].step \in {"done", "lost"}} :
        /\ outgoing' = [outgoing EXCEPT ![m] =
                [step |-> IF Qos[m] = 0 THEN "done" ELSE "sent", id |-> id]]
        /\ \E kind \in {"PUBLISH"} \cup (IF left.faults > 0 THEN {"TOOBIG", "MALFORMED"} ELSE {}) :
            /\ down' = Append(down, Response(kind, id, m))
            /\ left' = [left EXCEPT !.faults = IF kind = "PUBLISH" THEN @ ELSE @ - 1]
    /\ UNCHANGED <<client, up, held, open, session, incoming, delivered, app>>

\* The broker repeats an unanswered packet of a QoS 2 handshake.
BrokerRepeats(m) ==
    /\ open /\ left.repeats > 0 /\ Qos[m] = 2
    /\ \/ outgoing[m].step = "sent" /\ down' = Append(down, Response("PUBLISH", outgoing[m].id, m))
       \/ outgoing[m].step = "release" /\ down' = Append(down, Response("PUBREL", outgoing[m].id, NoMsg))
    /\ left' = [left EXCEPT !.repeats = @ - 1]
    /\ UNCHANGED <<client, up, held, open, broker, app>>

-----------------------------------------------------------------------------
Send ==
    \E expired \in SUBSET Overdue :
        \/ SendAll(expired)
        \/ \E upto \in 0..(Len(mq) - 1) : SendFails(expired, upto)

Next ==
    \/ mqtt_connect
    \/ \E m \in UpMsgs : mqtt_publish(m)
    \/ \E c \in Requests : Request(c)
    \/ SyncStart \/ SyncReconnect
    \/ RecvEnter \/ Recv \/ RecvDone \/ RecvFails
    \/ Send \/ SendRefused
    \/ BrokerTakes \/ BrokerCloses
    \/ \E m \in DownMsgs : BrokerPublishes(m) \/ BrokerRepeats(m)

Spec == Init /\ [][Next]_vars

\* The application calls mqtt_connect and keeps calling mqtt_sync, "every
\* 200 ms or so" (e_mqtt.h); TCP delivers, so that __mqtt_recv does not miss
\* a packet for ever; the broker reads what it is sent.
Fairness ==
    /\ WF_vars(mqtt_connect)
    /\ WF_vars(SyncStart \/ SyncReconnect \/ RecvEnter \/ RecvDone)
    /\ WF_vars(Send \/ SendRefused)
    /\ SF_vars(Recv)
    /\ WF_vars(BrokerTakes)

FairSpec == Spec /\ Fairness

-----------------------------------------------------------------------------
(* Properties.                                                             *)

\* Every variable has its type; the mutex is held exactly by __mqtt_recv, or
\* by the caller of mqtt_init, and the send buffer never overflows.
TypeOK ==
    /\ error \in Errors
    /\ mutex \in {"free", "init", "recv"}
    /\ pc \in {"idle", "to_recv", "recv", "to_send"}
    /\ (mutex = "recv") <=> (pc = "recv")
    /\ Len(mq) <= Slots
    /\ \A i \in 1..Len(mq) : /\ mq[i].control \in Controls
                             /\ mq[i].id \in Ids \cup {NoId}
                             /\ mq[i].state \in {"UNSENT", "AWAITING_ACK", "COMPLETE"}
    /\ \A i \in 1..Len(down) : down[i].control \in Responses
    /\ held => down # <<>> /\ error # "OK"

\* A QoS 1 or 2 PUBLISH the client regards as complete has reached the
\* broker, whatever identifiers, resends and late answers came before.
CompletedWasDelivered ==
    \A i \in 1..Len(mq) :
        mq[i].control = "PUBLISH" /\ Qos[mq[i].msg] \in {1, 2} /\ mq[i].state = "COMPLETE"
            => mq[i].msg \in Range(delivered)

\* The broker passes on each QoS 2 message of the application at most once,
\* and in the order in which mqtt_publish was called.
Qos2OnceInOrder ==
    \A j, k \in 1..Len(delivered) :
        (j < k /\ Qos[delivered[j]] = 2 /\ Qos[delivered[k]] = 2)
            => \E a, b \in 1..Len(published) :
                    a < b /\ published[a] = delivered[j] /\ published[b] = delivered[k]

\* publish_response_callback is called at most once for a QoS 2 message,
\* though the broker may repeat it and the client may resend its PUBREC.
Qos2HandledOnce ==
    \A j, k \in 1..Len(handled) : Qos[handled[j]] = 2 /\ handled[j] = handled[k] => j = k

\* The broker has an acknowledgement for a message only when the callback has
\* seen that message.
AcknowledgedWasHandled ==
    \A m \in DownMsgs :
        outgoing[m].step = "release" \/ (outgoing[m].step = "done" /\ Qos[m] > 0)
            => m \in Range(handled)

\* "only send QoS 2 message if there are no inflight QoS 2 PUBLISH messages"
OneQos2InFlight ==
    \A i, j \in 1..Len(mq) :
        /\ IsPublish(mq[i], 2) /\ mq[i].state = "AWAITING_ACK"
        /\ IsPublish(mq[j], 2) /\ mq[j].state = "AWAITING_ACK"
        => i = j

\* An answer other than CONNACK is unknown to the client only after someone
\* repeated a packet: a timeout of the client or a retry of the broker.
UnknownAckHasACause ==
    error = "ACK_OF_UNKNOWN" /\ held /\ Head(down).control # "CONNACK"
        => left.timeouts < Budget.timeouts \/ left.repeats < Budget.repeats
              \/ Head(down).control = "REFUSED"

\* "set DUP flag for subsequent sends": a QoS 1 PUBLISH that was sent before
\* goes out with the DUP flag.
ResentCarriesDup ==
    \A i \in 1..Len(up) :
        IsPublish(up[i], 1) /\ up[i].state = "AWAITING_ACK" => up[i].dup

\* "calls the publish_response_callback when any MQTT_CONTROL_PUBLISH messages
\* are received": a message the callback has not seen is not consumed unseen.
EveryPublishIsHandled ==
    [][ (down # <<>> /\ down' = Tail(down) /\ Head(down).control = "PUBLISH"
            /\ Head(down).msg \notin Range(handled))
        => handled' = Append(handled, Head(down).msg) ]_vars

\* Every message the application publishes is in the end acknowledged, or the
\* client is in an error state, or the broker has closed the connection: again
\* and again there is a moment when no message waits behind another one.
EveryPublishSettles ==
    []<>( \/ \A i \in 1..Len(mq) : mq[i].msg \in UpMsgs => mq[i].state = "COMPLETE"
          \/ error # "OK"
          \/ ~ open )

\* The same for the other calls, each of which stages one packet.
EveryRequestSettles ==
    []<>( \/ \A i \in 1..Len(mq) : mq[i].control \in Requests => mq[i].state = "COMPLETE"
          \/ error # "OK"
          \/ ~ open )
=============================================================================
