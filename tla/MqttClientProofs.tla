--------------------------- MODULE MqttClientProofs --------------------------
(***************************************************************************)
(* Theorems about the MQTT client of e_mqtt.c for every set of messages,   *)
(* every size of the send buffer, every number of timeouts, repeats and    *)
(* faults, with and without a reconnect callback.                          *)
(***************************************************************************)
EXTENDS MqttClient, FiniteSetTheorems, SequenceTheorems, WellFoundedInduction, TLAPS

States == {"UNSENT", "AWAITING_ACK", "COMPLETE"}
AnyId == Ids \cup {NoId}

Packets == [control : Controls, id : AnyId, msg : UpMsgs \cup {NoMsg}, state : States,
            dup : BOOLEAN, bit3 : BOOLEAN]
Answers == [control : Responses, id : AnyId, msg : DownMsgs \cup {NoMsg}]

Steps == {"idle", "sent", "release", "done", "lost"}

\* The controls of packets under an identifier of __mqtt_next_pid.
Own == {"PUBLISH", "SUBSCRIBE", "UNSUBSCRIBE"}

Unfinished(m) == IsPublish(m, 2) /\ m.state # "COMPLETE"

\* A QoS 2 PUBLISH behind an unfinished one has not been sent.
FirstQos2(q) ==
    \A i, j \in 1..Len(q) :
        j < i /\ Unfinished(q[i]) /\ Unfinished(q[j]) => q[i].state = "UNSENT"

\* No two messages of the application have the same identifier.
OwnIds(q) ==
    \A i, j \in 1..Len(q) :
        q[i].control \in Own /\ q[j].control \in Own /\ q[i].id = q[j].id => i = j

QueueOK(q) == q \in Seq(Packets) /\ Len(q) <= Slots /\ FirstQos2(q) /\ OwnIds(q)

\* Packets on the wire carry identifiers, which come back in answers; the mutex
\* that mqtt_init leaves locked protects an empty queue.
WireOK ==
    /\ up \in Seq(Packets) /\ down \in Seq(Answers)
    /\ outgoing \in [DownMsgs -> [step : Steps, id : AnyId]]
    /\ pid_lfsr \in Ids
    /\ mutex = "init" => mq = <<>> /\ ~held

ErrorOK ==
    /\ error \in Errors
    /\ mutex \in {"free", "init", "recv"}
    /\ pc \in {"idle", "to_recv", "recv", "to_send"}
    /\ (mutex = "recv") <=> (pc = "recv")
    /\ held => down # <<>> /\ error # "OK"

Inv == ErrorOK /\ QueueOK(mq) /\ WireOK

-----------------------------------------------------------------------------
(* Numbers and sets.                                                       *)

\* A non-empty set of natural numbers has a least element.
LEMMA LeastNumber ==
    ASSUME NEW S, S \subseteq Nat, S # {}
    PROVE  \E n \in S : \A m \in S : n <= m
    <1>1. PICK n \in S : \A m \in S : ~(<<m, n>> \in OpToRel(<, Nat))
          BY NatLessThanWellFounded, WFMin
    <1>2. ASSUME NEW m \in S PROVE n <= m
          <2>1. ~(<<m, n>> \in {pair \in Nat \X Nat : pair[1] < pair[2]})
                BY <1>1 DEF OpToRel
          <2> QED BY <2>1
    <1> QED BY <1>2

\* Min of FiniteSetsExt is that element.
LEMMA MinFacts ==
    ASSUME NEW S, S \subseteq Nat, S # {}
    PROVE  Min(S) \in S /\ \A m \in S : Min(S) <= m
    BY LeastNumber DEF Min

\* Counting on from one place of a cycle leads to every place.
LEMMA CycleFacts ==
    ASSUME NEW L \in Nat, L > 0, NEW p \in 1..L
    PROVE  /\ \A k \in 1..L : ((p + k - 1) % L) + 1 \in 1..L
           /\ \A x \in 1..L : \E k \in 1..L : ((p + k - 1) % L) + 1 = x
    <1>1. ASSUME NEW k \in 1..L PROVE ((p + k - 1) % L) + 1 \in 1..L
          <2>1. p + k - 1 \in Int
                OBVIOUS
          <2>2. (p + k - 1) % L \in 0 .. L - 1
                BY <2>1
          <2> QED BY <2>2
    <1>2. ASSUME NEW x \in 1..L PROVE \E k \in 1..L : ((p + k - 1) % L) + 1 = x
          <2>1. CASE x > p
                <3>1. x - p \in 1..L /\ p + (x - p) - 1 = x - 1 /\ x - 1 \in 0 .. L - 1
                      BY <2>1
                <3>2. (x - 1) % L = x - 1
                      BY <3>1
                <3>3. ((p + (x - p) - 1) % L) + 1 = x
                      BY <3>1, <3>2
                <3> QED BY <3>1, <3>3
          <2>2. CASE ~(x > p)
                <3>1. x - p + L \in 1..L /\ p + (x - p + L) - 1 = L + (x - 1) /\ x - 1 \in 0 .. L - 1
                      BY <2>2
                <3>2. (L + (x - 1)) % L = x - 1
                      BY <3>1
                <3> QED BY <3>1, <3>2
          <2> QED BY <2>1, <2>2
    <1> QED BY <1>1, <1>2

-----------------------------------------------------------------------------
(* __mqtt_next_pid.                                                        *)

\* The queue holds no more identifiers than messages, fewer than there are.
LEMMA QueuedFacts ==
    ASSUME NEW q \in Seq(Packets), Len(q) <= Slots
    PROVE  \E x \in Ids : x \notin {q[i].id : i \in 1..Len(q)}
    <1> DEFINE D == 1..Len(q)
               T == {q[i].id : i \in D}
               f == [i \in D |-> q[i].id]
    <1>1. Len(q) \in Nat /\ LastId \in Nat /\ Len(q) < LastId
          BY ClientAssumption
    <1>2. f \in Surjection(D, T)
          BY DEF Surjection
    <1>3. IsFiniteSet(D) /\ Cardinality(D) = Len(q)
          <2> HIDE DEF T, f
          <2> DEFINE n == Len(q)
          <2>1. IsFiniteSet(1..n) /\ Cardinality(1..n) = IF 1 > n THEN 0 ELSE n - 1 + 1
                <3>1. n \in Int /\ 1 \in Int
                      BY <1>1
                <3> HIDE DEF n
                <3> QED BY <3>1, FS_Interval
          <2> QED BY <1>1, <2>1
    <1>4. IsFiniteSet(Ids) /\ Cardinality(Ids) = LastId
          <2>1. IsFiniteSet(1..LastId) /\ Cardinality(1..LastId) = IF 1 > LastId THEN 0 ELSE LastId - 1 + 1
                BY <1>1, FS_Interval
          <2> QED BY <1>1, <2>1 DEF Ids
    <1> HIDE DEF T, f, D
    <1>5. IsFiniteSet(T) /\ Cardinality(T) <= Cardinality(D)
          BY <1>2, <1>3, FS_Surjection
    <1>6. ~(Ids \subseteq T)
          <2> SUFFICES ASSUME Ids \subseteq T PROVE FALSE
              OBVIOUS
          <2>1. Cardinality(Ids) <= Cardinality(T) /\ Cardinality(T) \in Nat
                BY <1>5, FS_Subset, FS_CardinalityType
          <2> QED BY <1>1, <1>3, <1>4, <1>5, <2>1
    <1> QED BY <1>6 DEF T, D

\* __mqtt_next_pid always ends, with an identifier that no queued message has.
LEMMA NextPid ==
    ASSUME NEW q \in Seq(Packets), Len(q) <= Slots, pid_lfsr \in Ids
    PROVE  next_pid(q) \in Ids /\ \A i \in 1..Len(q) : q[i].id # next_pid(q)
    <1> DEFINE after(k) == ((pid_lfsr + k - 1) % LastId) + 1
               queued == {q[i].id : i \in 1..Len(q)}
               free == {k \in 1..LastId : after(k) \notin queued}
    <1>1. LastId \in Nat /\ LastId > 0
          BY ClientAssumption
    <1>2. PICK x \in Ids : x \notin queued
          BY QueuedFacts
    <1>3. /\ \A k \in 1..LastId : after(k) \in 1..LastId
          /\ \A y \in 1..LastId : \E k \in 1..LastId : after(k) = y
          BY <1>1, CycleFacts DEF Ids
    <1> HIDE DEF after
    <1>4. PICK k \in 1..LastId : after(k) = x
          BY <1>2, <1>3 DEF Ids
    <1>5. free \subseteq Nat /\ free # {}
          BY <1>1, <1>2, <1>4
    <1>6. Min(free) \in free
          <2> HIDE DEF free
          <2> QED BY <1>5, MinFacts
    <1>7. next_pid(q) = after(Min(free))
          BY DEF next_pid, after
    <1> QED BY <1>3, <1>6, <1>7 DEF Ids

-----------------------------------------------------------------------------
(* The queue.                                                              *)

\* mqtt_mq_find.
LEMMA FindFacts ==
    ASSUME NEW q \in Seq(Packets), NEW c, NEW id
    PROVE  mq_find(q, c, id) \in 0..Len(q)
    <1> DEFINE found == {i \in 1..Len(q) : /\ q[i].control = c
                            /\ IF id = NoId THEN q[i].state # "COMPLETE" ELSE q[i].id = id}
    <1>1. found \subseteq 1..Len(q) /\ found \subseteq Nat /\ Len(q) \in Nat
          OBVIOUS
    <1>2. mq_find(q, c, id) = IF found = {} THEN 0 ELSE Min(found)
          BY DEF mq_find
    <1> HIDE DEF found
    <1>3. found # {} => Min(found) \in found
          BY <1>1, MinFacts
    <1>4. CASE found = {}
          BY <1>1, <1>2, <1>4
    <1>5. CASE found # {}
          <2>1. mq_find(q, c, id) = Min(found)
                BY <1>2, <1>5
          <2>2. Min(found) \in 1..Len(q)
                BY <1>1, <1>3, <1>5
          <2>3. \A n \in 1..Len(q) : n \in 0..Len(q)
                BY <1>1
          <2> QED BY <2>1, <2>2, <2>3
    <1> QED BY <1>4, <1>5

\* What part of a queue has, the part from one place on has.
LEMMA SuffixOK ==
    ASSUME NEW q, QueueOK(q), NEW n \in 1..Len(q)
    PROVE  QueueOK(SubSeq(q, n, Len(q)))
    <1> DEFINE c == SubSeq(q, n, Len(q))
    <1>1. q \in Seq(Packets) /\ Len(q) \in Nat /\ Len(q) <= Slots /\ n \in Nat /\ Slots \in Nat
          BY ClientAssumption DEF QueueOK
    <1>2. \A i \in 1..Len(q) : q[i] \in Packets
          BY <1>1, ElementOfSeq
    <1>3. /\ c \in Seq(Packets) /\ Len(c) = Len(q) + 1 - n
          /\ \A i \in 1 .. Len(q) + 1 - n : c[i] = q[i + n - 1]
          BY <1>1, <1>2, SubSeqProperties
    <1> HIDE DEF c
    <1>4. ASSUME NEW i \in 1..Len(c)
          PROVE  i + n - 1 \in 1..Len(q) /\ c[i] = q[i + n - 1]
          BY <1>1, <1>3
    <1>5. FirstQos2(c)
          <2> SUFFICES ASSUME NEW i \in 1..Len(c), NEW j \in 1..Len(c), j < i,
                              Unfinished(c[i]), Unfinished(c[j])
                       PROVE  c[i].state = "UNSENT"
              BY DEF FirstQos2
          <2>1. j + n - 1 < i + n - 1
                BY <1>1, <1>3
          <2> QED BY <1>4, <2>1 DEF QueueOK, FirstQos2
    <1>6. OwnIds(c)
          <2> SUFFICES ASSUME NEW i \in 1..Len(c), NEW j \in 1..Len(c), c[i].control \in Own,
                              c[j].control \in Own, c[i].id = c[j].id
                       PROVE  i = j
              BY DEF OwnIds
          <2>1. i + n - 1 = j + n - 1
                BY <1>4 DEF QueueOK, OwnIds
          <2> QED BY <1>1, <1>3, <2>1
    <1>7. Len(c) <= Slots
          BY <1>1, <1>3
    <1> QED BY <1>3, <1>5, <1>6, <1>7 DEF QueueOK, c

\* mqtt_mq_clean.
LEMMA CleanOK == ASSUME NEW q, QueueOK(q) PROVE QueueOK(mq_clean(q))
    <1> DEFINE left_over == {i \in 1..Len(q) : ~ Finished(q[i])}
    <1>1. left_over \subseteq 1..Len(q) /\ left_over \subseteq Nat
          BY DEF QueueOK
    <1>2. mq_clean(q) = IF left_over = {} THEN <<>> ELSE SubSeq(q, Min(left_over), Len(q))
          BY DEF mq_clean
    <1> HIDE DEF left_over
    <1>3. CASE left_over = {}
          <2>1. mq_clean(q) = <<>> /\ Len(mq_clean(q)) = 0 /\ mq_clean(q) \in Seq(Packets)
                BY <1>2, <1>3
          <2> QED BY <2>1, ClientAssumption DEF QueueOK, FirstQos2, OwnIds
    <1>4. CASE left_over # {}
          <2>1. Min(left_over) \in 1..Len(q)
                BY <1>1, <1>4, MinFacts
          <2> QED BY <1>2, <1>4, <2>1, SuffixOK
    <1> QED BY <1>3, <1>4

\* What mqtt_mq_clean leaves has no identifier the queue did not have.
LEMMA CleanIds ==
    ASSUME NEW q, QueueOK(q), NEW i \in 1..Len(mq_clean(q))
    PROVE  \E n \in 1..Len(q) : mq_clean(q)[i] = q[n]
    <1> DEFINE left_over == {n \in 1..Len(q) : ~ Finished(q[n])}
    <1>1. left_over \subseteq 1..Len(q) /\ left_over \subseteq Nat /\ Len(q) \in Nat /\ q \in Seq(Packets)
          BY DEF QueueOK
    <1>2. mq_clean(q) = IF left_over = {} THEN <<>> ELSE SubSeq(q, Min(left_over), Len(q))
          BY DEF mq_clean
    <1> HIDE DEF left_over
    <1>3. left_over # {}
          <2> SUFFICES ASSUME left_over = {} PROVE FALSE
              OBVIOUS
          <2>1. Len(mq_clean(q)) = 0
                BY <1>2
          <2> QED BY <2>1
    <1> DEFINE k == Min(left_over)
    <1>4. k \in 1..Len(q) /\ k \in Nat
          BY <1>1, <1>3, MinFacts
    <1>5. mq_clean(q) = SubSeq(q, k, Len(q))
          BY <1>2, <1>3
    <1> HIDE DEF k
    <1>6. \A n \in 1..Len(q) : q[n] \in Packets
          BY <1>1, ElementOfSeq
    <1>7. /\ Len(mq_clean(q)) = Len(q) + 1 - k
          /\ \A n \in 1 .. Len(q) + 1 - k : mq_clean(q)[n] = q[n + k - 1]
          BY <1>1, <1>4, <1>5, <1>6, SubSeqProperties
    <1>8. i + k - 1 \in 1..Len(q) /\ mq_clean(q)[i] = q[i + k - 1]
          BY <1>1, <1>4, <1>7
    <1> QED BY <1>8

\* A message is put at the end: it is not sent yet and its identifier is new.
LEMMA AppendOK ==
    ASSUME NEW q, QueueOK(q), Len(q) < Slots, NEW m \in Packets, m.state = "UNSENT",
           m.control \in Own => \A i \in 1..Len(q) : q[i].id # m.id
    PROVE  QueueOK(Append(q, m))
    <1> DEFINE a == Append(q, m)
    <1>1. q \in Seq(Packets) /\ Len(q) \in Nat /\ Slots \in Nat
          BY ClientAssumption DEF QueueOK
    <1>2. /\ a \in Seq(Packets) /\ Len(a) = Len(q) + 1
          /\ \A i \in 1..Len(q) : a[i] = q[i]
          /\ a[Len(q) + 1] = m
          BY <1>1, AppendProperties
    <1> HIDE DEF a
    <1>3. \A i \in 1..Len(a) : i \in 1..Len(q) \/ i = Len(q) + 1
          BY <1>1, <1>2
    <1>4. FirstQos2(a)
          <2> SUFFICES ASSUME NEW i \in 1..Len(a), NEW j \in 1..Len(a), j < i,
                              Unfinished(a[i]), Unfinished(a[j])
                       PROVE  a[i].state = "UNSENT"
              BY DEF FirstQos2
          <2>1. CASE i = Len(q) + 1
                BY <1>2, <2>1
          <2>2. CASE i \in 1..Len(q)
                <3>1. j \in 1..Len(q)
                      BY <1>1, <1>2, <2>2
                <3> QED BY <1>2, <2>2, <3>1 DEF QueueOK, FirstQos2
          <2> QED BY <1>3, <2>1, <2>2
    <1>5. OwnIds(a)
          BY <1>2, <1>3 DEF QueueOK, OwnIds
    <1>6. Len(a) <= Slots
          BY <1>1, <1>2
    <1> QED BY <1>2, <1>4, <1>5, <1>6 DEF QueueOK, a

\* A message is regarded as complete.
LEMMA CompleteOK ==
    ASSUME NEW q, QueueOK(q), NEW i \in 1..Len(q)
    PROVE  QueueOK(Complete(q, i)) /\ Len(Complete(q, i)) = Len(q)
    <1> DEFINE c == Complete(q, i)
    <1>1. q \in Seq(Packets) /\ Len(q) \in Nat /\ DOMAIN q = 1..Len(q)
          BY DEF QueueOK
    <1>2. \A n \in 1..Len(q) : q[n] \in Packets
          BY <1>1, ElementOfSeq
    <1>3. \A n \in 1..Len(q) : c[n] = IF n = i THEN [q[n] EXCEPT !.state = "COMPLETE"] ELSE q[n]
          BY <1>1 DEF Complete
    <1>4. \A n \in 1..Len(q) : [q[n] EXCEPT !.state = "COMPLETE"] \in Packets
          BY <1>2 DEF Packets, States
    <1>5. c \in [1..Len(q) -> Packets]
          BY <1>1, <1>2, <1>3, <1>4 DEF Complete
    <1>6. c \in Seq(Packets) /\ Len(c) = Len(q)
          BY <1>1, <1>5
    <1>7. \A n \in 1..Len(q) : /\ c[n].control = q[n].control /\ c[n].id = q[n].id
                               /\ c[n].msg = q[n].msg
                               /\ c[n].state = IF n = i THEN "COMPLETE" ELSE q[n].state
          BY <1>2, <1>3 DEF Packets
    <1> HIDE DEF c
    <1>8. FirstQos2(c)
          BY <1>6, <1>7 DEF QueueOK, FirstQos2, Unfinished, IsPublish
    <1>9. OwnIds(c)
          BY <1>6, <1>7 DEF QueueOK, OwnIds
    <1> QED BY <1>6, <1>8, <1>9 DEF QueueOK, c

\* MQTT_CLIENT_TRY_PACK of a message that is new.
LEMMA TryPackOK ==
    ASSUME NEW q, QueueOK(q), error \in Errors, NEW m \in Packets, m.state = "UNSENT",
           m.control \in Own => \A i \in 1..Len(q) : q[i].id # m.id
    PROVE  /\ QueueOK(TryPack(q, m).mq) /\ TryPack(q, m).error \in Errors
           /\ TryPack(q, m).error = "OK" => error = "OK"
    <1> DEFINE c == mq_clean(q)
               t == TryPack(q, m)
    <1>1. CASE t = [mq |-> q, error |-> error]
          BY <1>1
    <1>2. CASE error = "OK" /\ t = [mq |-> q, error |-> "PUBLISH_FORBIDDEN_QOS"]
          BY <1>2 DEF Errors
    <1>3. CASE error = "OK" /\ Len(q) < Slots /\ t = [mq |-> Append(q, m), error |-> "OK"]
          <2>1. QueueOK(Append(q, m))
                BY <1>3, AppendOK
          <2> QED BY <1>3, <2>1 DEF Errors
    <1>4. CASE error = "OK" /\ Len(c) < Slots /\ t = [mq |-> Append(c, m), error |-> "OK"]
          <2>1. QueueOK(c)
                BY CleanOK
          <2>2. m.control \in Own => \A i \in 1..Len(c) : c[i].id # m.id
                BY CleanIds
          <2>3. QueueOK(Append(c, m))
                <3> HIDE DEF c
                <3> QED BY <1>4, <2>1, <2>2, AppendOK
          <2> QED BY <1>4, <2>3 DEF Errors
    <1>5. CASE error = "OK" /\ t = [mq |-> c, error |-> "SEND_BUFFER_IS_FULL"]
          BY <1>5, CleanOK DEF Errors
    <1> QED BY <1>1, <1>2, <1>3, <1>4, <1>5 DEF TryPack

\* The messages __mqtt_send has sent.
LEMMA SendOK ==
    ASSUME QueueOK(mq), NEW expired \in SUBSET Overdue, NEW upto \in 0..Len(mq)
    PROVE  QueueOK(sent_queue(Pass(expired, upto)))
    <1> DEFINE sending == Pass(expired, upto)
               c == sent_queue(sending)
    <1>1. mq \in Seq(Packets) /\ Len(mq) \in Nat
          BY DEF QueueOK
    <1>2. \A n \in 1..Len(mq) : mq[n] \in Packets
          BY <1>1, ElementOfSeq
    <1>3. sending \subseteq 1..Len(mq)
          BY <1>1 DEF Pass
    <1>4. ASSUME NEW n \in sending
          PROVE  mq[n].state # "COMPLETE" /\ ~ Blocked(n)
          BY <1>4 DEF Pass, Sendable, Due, Overdue
    <1> HIDE DEF sending
    <1>5. \A n \in 1..Len(mq) : c[n] = IF n \in sending THEN AfterSend(mq[n]) ELSE mq[n]
          BY DEF sent_queue
    <1>6. ASSUME NEW m \in Packets
          PROVE  /\ AfterSend(m) \in Packets /\ AfterSend(m).control = m.control
                 /\ AfterSend(m).id = m.id /\ AfterSend(m).msg = m.msg
          <2>1. \A st \in States : [m EXCEPT !.state = st] \in Packets
                                  /\ [m EXCEPT !.state = st, !.bit3 = TRUE] \in Packets
                BY DEF Packets
          <2> QED BY <2>1 DEF AfterSend, States, Packets
    <1>7. c \in [1..Len(mq) -> Packets]
          BY <1>2, <1>6 DEF sent_queue
    <1>8. c \in Seq(Packets) /\ Len(c) = Len(mq)
          BY <1>1, <1>7
    <1>9. \A n \in 1..Len(mq) : /\ c[n].control = mq[n].control /\ c[n].id = mq[n].id
                                /\ c[n].msg = mq[n].msg
                                /\ n \notin sending => c[n] = mq[n]
          BY <1>2, <1>5, <1>6
    <1> HIDE DEF c
    <1>10. OwnIds(c)
          BY <1>8, <1>9 DEF QueueOK, OwnIds
    <1>11. \A n \in 1..Len(mq) : Unfinished(c[n]) => Unfinished(mq[n]) /\ UnfinishedQos2(n)
          BY <1>4, <1>9 DEF Unfinished, UnfinishedQos2, IsPublish
    <1>12. FirstQos2(c)
          <2> SUFFICES ASSUME NEW i \in 1..Len(mq), NEW j \in 1..Len(mq), j < i,
                              Unfinished(c[i]), Unfinished(c[j])
                       PROVE  c[i].state = "UNSENT"
              BY <1>8 DEF FirstQos2
          <2>1. UnfinishedQos2(i) /\ UnfinishedQos2(j) /\ Unfinished(mq[i]) /\ Unfinished(mq[j])
                BY <1>11
          <2>2. j \in 1..(i - 1)
                BY <1>1
          <2>3. i \notin sending
                BY <1>4, <2>1, <2>2 DEF Blocked
          <2>4. mq[i].state = "UNSENT"
                BY <2>1 DEF QueueOK, FirstQos2
          <2> QED BY <1>9, <2>3, <2>4
    <1> QED BY <1>8, <1>10, <1>12 DEF QueueOK, c, sending

\* What a pass sends are packets.
LEMMA SentType ==
    ASSUME QueueOK(mq), NEW S \in SUBSET (1..Len(mq)), NEW packets \in Sent(S)
    PROVE  packets \in Seq(Packets)
    <1>1. mq \in Seq(Packets) /\ Len(mq) \in Nat
          BY DEF QueueOK
    <1>2. \A n \in 1..Len(mq) : mq[n] \in Packets
          BY <1>1, ElementOfSeq
    <1>3. Cardinality(S) \in Nat
          <2>1. IsFiniteSet(1..Len(mq))
                BY <1>1, FS_Interval
          <2> QED BY <2>1, FS_Subset, FS_CardinalityType
    <1>4. PICK order \in [1..Cardinality(S) -> S] : packets = [k \in DOMAIN order |-> mq[order[k]]]
          BY DEF Sent
    <1>5. packets \in [1..Cardinality(S) -> Packets]
          BY <1>2, <1>4
    <1> QED BY <1>3, <1>5

-----------------------------------------------------------------------------
(* The steps.                                                              *)

LEMMA InitInv == Init => Inv
    <1> SUFFICES ASSUME Init PROVE Inv
        OBVIOUS
    <1>1. mq = <<>> /\ Len(mq) = 0 /\ mq \in Seq(Packets) /\ up \in Seq(Packets) /\ down \in Seq(Answers)
          BY DEF Init
    <1>2. QueueOK(mq)
          BY <1>1, ClientAssumption DEF QueueOK, FirstQos2, OwnIds
    <1>3. ErrorOK
          BY ClientAssumption DEF Init, ErrorOK, Errors
    <1>4. LastId \in 1..LastId
          BY ClientAssumption
    <1>5. [step |-> "idle", id |-> NoId] \in [step : Steps, id : AnyId]
          BY DEF Steps, AnyId
    <1>6. WireOK
          BY <1>1, <1>4, <1>5 DEF Init, WireOK, Ids
    <1> QED BY <1>2, <1>3, <1>6 DEF Inv

\* A message as it is staged.
LEMMA MessageType ==
    ASSUME NEW c \in Controls, NEW id \in AnyId, NEW msg \in UpMsgs \cup {NoMsg}
    PROVE  /\ Message(c, id, msg) \in Packets /\ Message(c, id, msg).state = "UNSENT"
           /\ Message(c, id, msg).control = c /\ Message(c, id, msg).id = id
    BY DEF Message, Packets, States

\* A queue of one message.
LEMMA ConnectOK == QueueOK(<<Message("CONNECT", NoId, NoMsg)>>)
    <1> DEFINE m == Message("CONNECT", NoId, NoMsg)
    <1>1. m \in Packets
          BY MessageType DEF Controls, AnyId
    <1> HIDE DEF m
    <1>2. <<m>> \in Seq(Packets) /\ Len(<<m>>) = 1
          BY <1>1
    <1>3. 1 <= Slots
          BY ClientAssumption
    <1>4. QueueOK(<<m>>)
          BY <1>2, <1>3 DEF QueueOK, FirstQos2, OwnIds
    <1> QED BY <1>4 DEF m

LEMMA ConnectInv == ASSUME Inv, mqtt_connect PROVE Inv'
    <1>1. mq = <<>> /\ ~held
          BY DEF Inv, WireOK, mqtt_connect
    <1>2. mq' = <<Message("CONNECT", NoId, NoMsg)>>
          BY <1>1 DEF mqtt_connect
    <1>3. QueueOK(mq')
          BY <1>2, ConnectOK
    <1> QED BY <1>1, <1>3 DEF Inv, ErrorOK, WireOK, mqtt_connect, Errors, connection, broker

\* A call of the application stages a message, under a new identifier if any.
LEMMA StageInv ==
    ASSUME Inv, NEW m \in Packets, m.state = "UNSENT", Stage(m),
           m.control \in Own => \A i \in 1..Len(mq) : mq[i].id # m.id,
           mutex = "free", pid_lfsr' \in Ids, UNCHANGED <<mutex, pc, connection, broker>>
    PROVE  Inv'
    <1>1. QueueOK(mq) /\ error \in Errors
          BY DEF Inv, ErrorOK
    <1>2. QueueOK(mq') /\ error' \in Errors /\ (error' = "OK" => error = "OK")
          BY <1>1, TryPackOK DEF Stage
    <1> QED BY <1>2 DEF Inv, ErrorOK, WireOK, connection, broker

LEMMA PublishInv == ASSUME Inv, NEW m \in UpMsgs, mqtt_publish(m) PROVE Inv'
    <1>1. next_pid(mq) \in Ids /\ \A i \in 1..Len(mq) : mq[i].id # next_pid(mq)
          BY NextPid DEF Inv, QueueOK, WireOK
    <1> DEFINE p == Message("PUBLISH", next_pid(mq), m)
    <1>2. p \in Packets /\ p.state = "UNSENT" /\ p.id = next_pid(mq)
          BY <1>1, MessageType DEF Controls, AnyId
    <1>3. Stage(p) /\ pid_lfsr' \in Ids /\ mutex = "free" /\ UNCHANGED <<mutex, pc, connection, broker>>
          BY <1>1 DEF mqtt_publish
    <1> HIDE DEF p
    <1> QED BY <1>1, <1>2, <1>3, StageInv

LEMMA RequestInv == ASSUME Inv, NEW c \in Requests, Request(c) PROVE Inv'
    <1>1. next_pid(mq) \in Ids /\ \A i \in 1..Len(mq) : mq[i].id # next_pid(mq)
          BY NextPid DEF Inv, QueueOK, WireOK
    <1>2. c \in {"SUBSCRIBE", "UNSUBSCRIBE", "PINGREQ", "DISCONNECT"} /\ c \in Controls
          BY ClientAssumption DEF Controls
    <1>3. mutex = "free" /\ UNCHANGED <<mutex, pc, connection, broker>>
          BY DEF Request
    <1>4. CASE c \in {"SUBSCRIBE", "UNSUBSCRIBE"}
          <2> DEFINE p == Message(c, next_pid(mq), NoMsg)
          <2>1. p \in Packets /\ p.state = "UNSENT" /\ p.id = next_pid(mq)
                BY <1>1, <1>2, MessageType DEF AnyId
          <2>2. Stage(p) /\ pid_lfsr' \in Ids
                BY <1>1, <1>4 DEF Request
          <2> HIDE DEF p
          <2> QED BY <1>1, <1>3, <2>1, <2>2, StageInv
    <1>5. CASE c \notin {"SUBSCRIBE", "UNSUBSCRIBE"}
          <2> DEFINE p == Message(c, NoId, NoMsg)
          <2>1. p \in Packets /\ p.state = "UNSENT" /\ p.control = c
                BY <1>2, MessageType DEF AnyId
          <2>2. Stage(p) /\ pid_lfsr' \in Ids
                BY <1>5 DEF Request, Inv, WireOK
          <2>3. p.control \notin Own
                BY <1>2, <1>5, <2>1 DEF Own
          <2> HIDE DEF p
          <2> QED BY <1>3, <2>1, <2>2, <2>3, StageInv
    <1> QED BY <1>4, <1>5

LEMMA SyncInv ==
    ASSUME Inv, SyncStart \/ SyncReconnect \/ RecvEnter \/ RecvDone \/ RecvFails \/ SendRefused
    PROVE  Inv'
    <1> USE DEF Inv, connection, broker
    <1>1. CASE SyncStart \/ RecvEnter \/ RecvDone \/ SendRefused
          BY <1>1 DEF SyncStart, RecvEnter, RecvDone, SendRefused, ErrorOK, WireOK
    <1>2. CASE RecvFails
          BY <1>2 DEF RecvFails, ErrorOK, WireOK, Errors
    <1>3. CASE SyncReconnect
          <2>1. QueueOK(mq')
                BY <1>3, ConnectOK DEF SyncReconnect, mqtt_reinit
          <2>2. ErrorOK'
                BY <1>3 DEF SyncReconnect, mqtt_reinit, ErrorOK, Errors
          <2>3. up' \in Seq(Packets) /\ down' \in Seq(Answers)
                BY <1>3 DEF SyncReconnect, mqtt_reinit
          <2>4. outgoing' \in [DownMsgs -> [step : Steps, id : AnyId]]
                <3>1. ASSUME NEW m \in DownMsgs
                      PROVE  [outgoing[m] EXCEPT !.step = "lost"] \in [step : Steps, id : AnyId]
                      BY DEF WireOK, Steps
                <3> QED BY <1>3, <3>1 DEF SyncReconnect, WireOK
          <2>5. pid_lfsr' \in Ids /\ mutex' = "free"
                BY <1>3 DEF SyncReconnect, WireOK
          <2> QED BY <2>1, <2>2, <2>3, <2>4, <2>5 DEF WireOK
    <1> QED BY <1>1, <1>2, <1>3

-----------------------------------------------------------------------------
(* __mqtt_recv.                                                            *)

\* The response at the head of recv_buffer.
LEMMA HeadType ==
    ASSUME Inv, down # <<>>
    PROVE  Head(down) \in Answers /\ Tail(down) \in Seq(Answers)
    BY HeadTailProperties DEF Inv, WireOK

\* The loop removes the response, and the queue is changed.
LEMMA ReleaseInv ==
    ASSUME Inv, pc = "recv", down # <<>>, error' \in Errors, Consume, QueueOK(mq')
    PROVE  Inv'
    <1>1. down' \in Seq(Answers) /\ held' = FALSE
          BY HeadType DEF Consume
    <1> QED BY <1>1 DEF Inv, ErrorOK, WireOK, Consume, broker

\* An error return.
LEMMA AbortInv ==
    ASSUME Inv, pc = "recv", down # <<>>, NEW e \in Errors \ {"OK"}, Abort(e), QueueOK(mq')
    PROVE  Inv'
    BY DEF Inv, ErrorOK, WireOK, Abort, broker

\* An answer is staged, under the identifier of the response.
LEMMA AnswerInv ==
    ASSUME Inv, pc = "recv", down # <<>>, NEW q, QueueOK(q),
           NEW c \in {"PUBACK", "PUBREC", "PUBREL", "PUBCOMP"}, NEW id \in AnyId, Answer(q, c, id)
    PROVE  Inv'
    <1> DEFINE m == Message(c, id, NoMsg)
               t == TryPack(q, m)
    <1>1. m \in Packets /\ m.state = "UNSENT" /\ m.control \notin Own
          BY MessageType DEF Controls, Own
    <1>2. error \in Errors
          BY DEF Inv, ErrorOK
    <1>3. mq' = t.mq /\ IF t.error = "OK" THEN Consume /\ error' = "OK" ELSE Abort(t.error)
          BY DEF Answer
    <1> HIDE DEF m
    <1>4. QueueOK(mq') /\ t.error \in Errors
          BY <1>1, <1>2, <1>3, TryPackOK
    <1> HIDE DEF t
    <1>5. CASE t.error = "OK"
          BY <1>3, <1>4, <1>5, ReleaseInv
    <1>6. CASE t.error # "OK"
          BY <1>3, <1>4, <1>6, AbortInv
    <1> QED BY <1>5, <1>6

\* The responses one by one.
LEMMA RecvInv == ASSUME Inv, Recv PROVE Inv'
    <1> DEFINE p == Head(down)
    <1>1. pc = "recv" /\ down # <<>> /\ QueueOK(mq) /\ error \in Errors
          BY DEF Recv, Inv, ErrorOK
    <1>2. p \in Answers /\ p.id \in AnyId
          BY <1>1, HeadType DEF Answers
    <1>3. Target(p) \in 0..Len(mq) /\ Len(mq) \in Nat
          BY FindFacts DEF Inv, QueueOK, Target
    <1>4. Target(p) # 0 => QueueOK(Complete(mq, Target(p)))
          <2> SUFFICES ASSUME Target(p) # 0 PROVE QueueOK(Complete(mq, Target(p)))
              OBVIOUS
          <2>1. Target(p) \in 1..Len(mq)
                BY <1>3
          <2> HIDE DEF p
          <2> QED BY <1>1, <2>1, CompleteOK
    <1> HIDE DEF p
    <1>5. ASSUME NEW q, QueueOK(q), Release(q) PROVE Inv'
          BY <1>1, <1>5, ReleaseInv DEF Release
    <1>6. ASSUME NEW e \in Errors \ {"OK"}, Abort(e), QueueOK(mq') PROVE Inv'
          BY <1>1, <1>6, AbortInv
    <1>7. ASSUME NEW q, QueueOK(q), NEW c \in {"PUBACK", "PUBREC", "PUBREL", "PUBCOMP"},
                 Answer(q, c, p.id)
          PROVE  Inv'
          BY <1>1, <1>2, <1>7, AnswerInv
    <1>8. CASE OnConnack(p)
          <2>1. CASE p.control = "CONNACK"
                BY <1>4, <1>5, <1>8, <2>1 DEF OnConnack
          <2>2. CASE p.control # "CONNACK"
                <3>1. "CONNECTION_REFUSED" \in Errors \ {"OK"}
                      BY DEF Errors
                <3> QED BY <1>4, <1>6, <1>8, <2>2, <3>1 DEF OnConnack
          <2> QED BY <2>1, <2>2
    <1>9. CASE OnPublish(p)
          BY <1>1, <1>5, <1>7, <1>9 DEF OnPublish
    <1>10. CASE OnUnusable(p)
          <2>1. {"RECV_BUFFER_TOO_SMALL", "MALFORMED_RESPONSE"} \subseteq Errors \ {"OK"}
                BY DEF Errors
          <2>2. mq' = mq
                BY <1>10 DEF OnUnusable
          <2> QED BY <1>1, <1>6, <1>10, <2>1, <2>2 DEF OnUnusable
    <1>11. CASE OnPuback(p) \/ OnPubcomp(p) \/ OnUnsuback(p) \/ OnPingresp(p)
          BY <1>4, <1>5, <1>11 DEF OnPuback, OnPubcomp, OnUnsuback, OnPingresp
    <1>12. CASE OnPubrec(p)
          BY <1>1, <1>4, <1>5, <1>7, <1>12 DEF OnPubrec
    <1>13. CASE OnPubrel(p)
          BY <1>4, <1>7, <1>13 DEF OnPubrel
    <1>14. CASE OnSuback(p)
          <2>1. CASE p.control = "SUBACK"
                BY <1>4, <1>5, <1>14, <2>1 DEF OnSuback
          <2>2. CASE p.control # "SUBACK"
                <3>1. "SUBSCRIBE_FAILED" \in Errors \ {"OK"}
                      BY DEF Errors
                <3> QED BY <1>4, <1>6, <1>14, <2>2, <3>1 DEF OnSuback
          <2> QED BY <2>1, <2>2
    <1>15. CASE OnUnknownAck(p)
          <2>1. "ACK_OF_UNKNOWN" \in Errors \ {"OK"}
                BY DEF Errors
          <2>2. mq' = mq
                BY <1>15 DEF OnUnknownAck
          <2> QED BY <1>1, <1>6, <1>15, <2>1, <2>2 DEF OnUnknownAck
    <1> QED BY <1>8, <1>9, <1>10, <1>11, <1>12, <1>13, <1>14, <1>15 DEF Recv, p

-----------------------------------------------------------------------------
(* __mqtt_send.                                                            *)

\* What a pass leaves alone, and what it sends.
LEMMA PassInv ==
    ASSUME Inv, NEW expired, NEW upto \in 0..Len(mq), SendPass(expired, upto), QueueOK(mq'),
           error' \in Errors, error' = "OK" => error = "OK"
    PROVE  Inv'
    <1>1. up' \in Seq(Packets)
          <2>1. CASE open
                <3>1. PICK packets \in Sent(Pass(expired, upto)) : up' = up \o packets
                      BY <2>1 DEF SendPass
                <3>2. Pass(expired, upto) \in SUBSET (1..Len(mq))
                      BY DEF Pass, Inv, QueueOK
                <3>3. packets \in Seq(Packets)
                      BY <3>2, SentType DEF Inv
                <3> QED BY <3>1, <3>3, ConcatProperties DEF Inv, WireOK
          <2>2. CASE ~open
                BY <2>2 DEF SendPass, Inv, WireOK
          <2> QED BY <2>1, <2>2
    <1>2. /\ pc = "to_send" /\ mutex = "free" /\ pc' = "idle"
          /\ UNCHANGED <<mutex, pid_lfsr, down, held, outgoing>>
          BY DEF SendPass, broker
    <1> QED BY <1>1, <1>2 DEF Inv, ErrorOK, WireOK

LEMMA SendInv == ASSUME Inv, Send PROVE Inv'
    <1>1. PICK expired \in SUBSET Overdue :
             SendAll(expired) \/ \E upto \in 0..(Len(mq) - 1) : SendFails(expired, upto)
          BY DEF Send
    <1>2. QueueOK(mq) /\ Len(mq) \in Nat /\ Len(mq) \in 0..Len(mq) /\ error \in Errors
          BY DEF Inv, QueueOK, ErrorOK
    <1>3. CASE SendAll(expired)
          <2> DEFINE sending == Pass(expired, Len(mq))
                     m == Message("PINGREQ", NoId, NoMsg)
          <2>1. SendPass(expired, Len(mq))
                BY <1>3 DEF SendAll
          <2>2. CASE mq' = sent_queue(sending) /\ error' = error
                <3>1. QueueOK(mq')
                      BY <1>2, <2>2, SendOK
                <3> QED BY <1>2, <2>1, <2>2, <3>1, PassInv
          <2>3. CASE mq' = TryPack(mq, m).mq /\ error' = TryPack(mq, m).error
                <3>1. m \in Packets /\ m.state = "UNSENT" /\ m.control \notin Own
                      BY MessageType DEF Controls, AnyId, Own
                <3> HIDE DEF m
                <3>2. QueueOK(mq') /\ error' \in Errors /\ (error' = "OK" => error = "OK")
                      BY <1>2, <2>3, <3>1, TryPackOK
                <3> QED BY <1>2, <2>1, <3>2, PassInv
          <2> QED BY <1>3, <2>2, <2>3 DEF SendAll
    <1>4. ASSUME NEW upto \in 0..(Len(mq) - 1), SendFails(expired, upto) PROVE Inv'
          <2>1. upto \in 0..Len(mq)
                BY <1>2
          <2>2. /\ SendPass(expired, upto) /\ mq' = sent_queue(Pass(expired, upto))
                /\ error' = "SOCKET_ERROR"
                BY <1>4 DEF SendFails
          <2>3. QueueOK(mq')
                BY <1>2, <2>1, <2>2, SendOK
          <2> QED BY <2>1, <2>2, <2>3, PassInv DEF Errors
    <1> QED BY <1>1, <1>3, <1>4

-----------------------------------------------------------------------------
(* The broker.                                                             *)

\* Its answers carry the identifier of what they answer.
LEMMA ReplyFacts ==
    ASSUME Inv, up # <<>>, NEW c \in Responses, NEW id \in AnyId, Reply(c, id)
    PROVE  down' \in Seq(Answers) /\ down' # <<>> /\ up' \in Seq(Packets)
    <1> DEFINE r == Response(c, id, NoMsg)
    <1>1. r \in Answers
          BY DEF Response, Answers
    <1>2. down \in Seq(Answers) /\ up \in Seq(Packets) /\ down' = Append(down, r) /\ up' = Tail(up)
          BY DEF Reply, Inv, WireOK
    <1> HIDE DEF r
    <1>3. down' \in Seq(Answers) /\ down' # <<>>
          BY <1>1, <1>2, AppendProperties
    <1>4. up' \in Seq(Packets)
          BY <1>2, HeadTailProperties
    <1> QED BY <1>3, <1>4

LEMMA AdvanceFacts ==
    ASSUME Inv, NEW id, NEW from, NEW to \in Steps, Advance(id, from, to)
    PROVE  outgoing' \in [DownMsgs -> [step : Steps, id : AnyId]]
    <1>1. ASSUME NEW m \in DownMsgs
          PROVE  [outgoing[m] EXCEPT !.step = to] \in [step : Steps, id : AnyId]
          BY DEF Inv, WireOK
    <1> QED BY <1>1 DEF Advance, Inv, WireOK

\* What the broker does leaves the client as it is.
LEMMA BrokerInv ==
    ASSUME Inv, UNCHANGED <<client, held>>, up' \in Seq(Packets), down' \in Seq(Answers),
           outgoing' \in [DownMsgs -> [step : Steps, id : AnyId]],
           down' = down \/ down' # <<>>
    PROVE  Inv'
    BY DEF Inv, ErrorOK, WireOK, client

LEMMA CloseInv == ASSUME Inv, UNCHANGED <<client, held>>, Close PROVE Inv'
    <1>1. up' \in Seq(Packets) /\ down' = down /\ outgoing' = outgoing
          BY DEF Close
    <1> QED BY <1>1, BrokerInv DEF Inv, WireOK

LEMMA TakeInv == ASSUME Inv, UNCHANGED <<client, held>>, up # <<>>, Take(Head(up)) PROVE Inv'
    <1> DEFINE p == Head(up)
    <1>1. p \in Packets /\ p.id \in AnyId /\ NoId \in AnyId /\ Tail(up) \in Seq(Packets)
          <2>1. p \in Packets /\ Tail(up) \in Seq(Packets)
                BY HeadTailProperties DEF Inv, WireOK
          <2> HIDE DEF p
          <2> QED BY <2>1 DEF Packets, AnyId
    <1>2. down \in Seq(Answers) /\ outgoing \in [DownMsgs -> [step : Steps, id : AnyId]]
          BY DEF Inv, WireOK
    <1>3. ASSUME NEW c \in Responses, NEW id \in AnyId, Reply(c, id), outgoing' = outgoing
          PROVE  Inv'
          BY <1>2, <1>3, ReplyFacts, BrokerInv
    <1> HIDE DEF p
    <1>4. CASE p.control = "CONNECT" /\ (Reply("CONNACK", NoId) \/ Reply("REFUSED", NoId))
               /\ outgoing' = outgoing
          BY <1>1, <1>3, <1>4 DEF Responses
    <1>5. CASE p.control = "PUBLISH" /\ outgoing' = outgoing
               /\ IF Qos[p.msg] = 0 THEN down' = down /\ up' = Tail(up) /\ open' = open
                  ELSE Reply(IF Qos[p.msg] = 1 THEN "PUBACK" ELSE "PUBREC", p.id)
          <2>1. CASE Qos[p.msg] = 0
                BY <1>1, <1>2, <1>5, <2>1, BrokerInv
          <2>2. CASE Qos[p.msg] # 0
                BY <1>1, <1>3, <1>5, <2>2 DEF Responses
          <2> QED BY <2>1, <2>2
    <1>6. CASE p.control = "PUBREL" /\ Reply("PUBCOMP", p.id) /\ outgoing' = outgoing
          BY <1>1, <1>3, <1>6 DEF Responses
    <1>7. CASE Advance(p.id, {"sent"}, "release") /\ Reply("PUBREL", p.id)
          <2>1. "release" \in Steps /\ "PUBREL" \in Responses
                BY DEF Steps, Responses
          <2>2. outgoing' \in [DownMsgs -> [step : Steps, id : AnyId]]
                BY <1>7, <2>1, AdvanceFacts
          <2>3. down' \in Seq(Answers) /\ down' # <<>> /\ up' \in Seq(Packets)
                BY <1>1, <1>7, <2>1, ReplyFacts
          <2> QED BY <2>2, <2>3, BrokerInv
    <1>8. CASE /\ Advance(p.id, IF p.control = "PUBACK" THEN {"sent"} ELSE {"release"}, "done")
               /\ up' = Tail(up) /\ down' = down
          <2>1. "done" \in Steps
                BY DEF Steps
          <2>2. outgoing' \in [DownMsgs -> [step : Steps, id : AnyId]]
                BY <1>8, <2>1, AdvanceFacts
          <2> QED BY <1>1, <1>2, <1>8, <2>2, BrokerInv
    <1>9. CASE /\ outgoing' = outgoing
               /\ \/ Reply("SUBACK", p.id) \/ Reply("SUBFAIL", p.id) \/ Reply("UNSUBACK", p.id)
                  \/ Reply("PINGRESP", NoId)
          BY <1>1, <1>3, <1>9 DEF Responses
    <1>10. Take(p)
          BY DEF p
    <1> QED BY <1>4, <1>5, <1>6, <1>7, <1>8, <1>9, <1>10 DEF Take

\* A message of the broker, and a packet it repeats.
LEMMA SendsInv ==
    ASSUME Inv, NEW m \in DownMsgs, BrokerPublishes(m) \/ BrokerRepeats(m)
    PROVE  Inv'
    <1>1. /\ down \in Seq(Answers) /\ up \in Seq(Packets)
          /\ outgoing \in [DownMsgs -> [step : Steps, id : AnyId]]
          BY DEF Inv, WireOK
    <1>2. UNCHANGED <<client, held>> /\ up' = up
          BY DEF BrokerPublishes, BrokerRepeats
    <1>3. ASSUME NEW r \in Answers, down' = Append(down, r)
          PROVE  down' \in Seq(Answers) /\ down' # <<>>
          BY <1>1, <1>3, AppendProperties
    <1>4. CASE BrokerPublishes(m)
          <2>1. PICK id \in AnyId :
                  /\ outgoing' = [outgoing EXCEPT ![m] =
                          [step |-> IF Qos[m] = 0 THEN "done" ELSE "sent", id |-> id]]
                  /\ \E kind \in {"PUBLISH", "TOOBIG", "MALFORMED"} :
                        down' = Append(down, Response(kind, id, m))
                BY <1>4, ClientAssumption DEF BrokerPublishes, AnyId, Ids
          <2>2. PICK kind \in {"PUBLISH", "TOOBIG", "MALFORMED"} :
                  down' = Append(down, Response(kind, id, m))
                BY <2>1
          <2>3. Response(kind, id, m) \in Answers
                BY DEF Response, Answers, Responses
          <2>4. [step |-> IF Qos[m] = 0 THEN "done" ELSE "sent", id |-> id] \in [step : Steps, id : AnyId]
                BY DEF Steps
          <2>5. outgoing' \in [DownMsgs -> [step : Steps, id : AnyId]]
                BY <1>1, <2>1, <2>4
          <2> QED BY <1>1, <1>2, <1>3, <2>2, <2>3, <2>5, BrokerInv
    <1>5. CASE BrokerRepeats(m)
          <2>1. outgoing[m].id \in AnyId
                BY <1>1
          <2>2. /\ Response("PUBLISH", outgoing[m].id, m) \in Answers
                /\ Response("PUBREL", outgoing[m].id, NoMsg) \in Answers
                BY <2>1 DEF Response, Answers, Responses
          <2>3. outgoing' = outgoing
                BY <1>5 DEF BrokerRepeats, broker
          <2> QED BY <1>1, <1>2, <1>3, <1>5, <2>2, <2>3, BrokerInv DEF BrokerRepeats
    <1> QED BY <1>4, <1>5

LEMMA NextInv == Inv /\ [Next]_vars => Inv'
    <1> SUFFICES ASSUME Inv, [Next]_vars PROVE Inv'
        OBVIOUS
    <1>1. CASE BrokerTakes
          BY <1>1, CloseInv, TakeInv DEF BrokerTakes
    <1>2. CASE BrokerCloses
          BY <1>2, CloseInv DEF BrokerCloses
    <1>3. CASE UNCHANGED vars
          BY <1>3 DEF vars, client, connection, broker, Inv, ErrorOK, WireOK
    <1> QED BY <1>1, <1>2, <1>3, ConnectInv, PublishInv, RequestInv, SyncInv, RecvInv, SendInv,
               SendsInv DEF Next

-----------------------------------------------------------------------------
\* The mutex is held exactly by __mqtt_recv or the caller of mqtt_init, on every
\* path through every handler, the send buffer never overflows, and a response
\* stays in recv_buffer only after an error return.
THEOREM ClientTypes == Spec => []TypeOK
    <1>1. Inv => TypeOK
          <2> SUFFICES ASSUME Inv PROVE TypeOK
              OBVIOUS
          <2>1. \A i \in 1..Len(mq) : mq[i] \in Packets
                BY ElementOfSeq DEF Inv, QueueOK
          <2>2. \A i \in 1..Len(down) : down[i] \in Answers
                BY ElementOfSeq DEF Inv, WireOK
          <2>3. ErrorOK /\ Len(mq) <= Slots
                BY DEF Inv, QueueOK
          <2> QED BY <2>1, <2>2, <2>3 DEF TypeOK, ErrorOK, Packets, Answers, States, AnyId
    <1> QED BY <1>1, InitInv, NextInv, PTL DEF Spec

\* However timeouts, resends, failed sends and late answers fall, at most one
\* QoS 2 PUBLISH awaits its PUBREC: __mqtt_send holds the others back.
THEOREM Qos2OneAtATime == Spec => []OneQos2InFlight
    <1>1. Inv => OneQos2InFlight
          <2> SUFFICES ASSUME Inv, NEW i \in 1..Len(mq), NEW j \in 1..Len(mq),
                              IsPublish(mq[i], 2), mq[i].state = "AWAITING_ACK",
                              IsPublish(mq[j], 2), mq[j].state = "AWAITING_ACK"
                       PROVE  i = j
              BY DEF OneQos2InFlight
          <2>1. Unfinished(mq[i]) /\ Unfinished(mq[j])
                BY DEF Unfinished
          <2>2. ~(i < j) /\ ~(j < i)
                BY <2>1 DEF Inv, QueueOK, FirstQos2
          <2> QED BY <2>2 DEF Inv, QueueOK
    <1> QED BY <1>1, InitInv, NextInv, PTL DEF Spec

\* No two messages the application has queued have the same identifier: though
\* identifiers come round again, __mqtt_next_pid passes over those in use.
THEOREM QueuedIdsDiffer == Spec => []OwnIds(mq)
    <1>1. Inv => OwnIds(mq)
          BY DEF Inv, QueueOK
    <1> QED BY <1>1, InitInv, NextInv, PTL DEF Spec

-----------------------------------------------------------------------------
(* Receiving with QoS 2: the broker may repeat a PUBLISH until it has the   *)
(* PUBREC, and the client tells a copy by the PUBREC it has queued.         *)

\* A response that publishes m, and a PUBREL under an identifier.
Copy(r, m) == r.control = "PUBLISH" /\ r.msg = m
Releases(r, id) == r.control = "PUBREL" /\ r.id = id

\* The queue has a PUBREC that mqtt_mq_clean keeps.
Awaits(q, id) ==
    \E i \in 1..Len(q) : q[i].control = "PUBREC" /\ q[i].id = id /\ q[i].state # "COMPLETE"

\* Behind place i of the responses dn there is a copy of m, or there may be one.
More(m, dn, o, i) == o.step = "sent" \/ \E j \in 1..Len(dn) : i < j /\ Copy(dn[j], m)

\* A message m of the broker whose handshake is at o, with the responses dn under
\* way, H the messages handled and q the queue.  As long as a copy of m may
\* come, a handled m has its PUBREC in the queue, and a PUBREL that comes before
\* the copy is of an earlier handshake.
HandshakeOK(m, dn, o, H, q) ==
    /\ o.step # "idle" => o.id \in Ids
    /\ o.step = "idle" => m \notin H /\ \A k \in 1..Len(dn) : ~ Copy(dn[k], m)
    /\ \A k \in 1..Len(dn) : Copy(dn[k], m) => dn[k].id = o.id
    /\ m \in H /\ More(m, dn, o, 0) => Awaits(q, o.id)
    /\ \A i \in 1..Len(dn) :
          Releases(dn[i], o.id) /\ More(m, dn, o, i) =>
              m \notin H /\ \A k \in 1..i : ~ Copy(dn[k], m)

Active(o) == o.step \in {"sent", "release"}

\* Handshakes under way have identifiers of their own.
ActiveApart(out) ==
    \A m, n \in DownMsgs : Active(out[m]) /\ Active(out[n]) /\ out[m].id = out[n].id => m = n

\* The PUBRECs among packets, and the PUBRELs among responses, have identifiers.
Numbered(q) == \A i \in 1..Len(q) : q[i].control = "PUBREC" => q[i].id \in Ids
NumberedDown(dn) == \A i \in 1..Len(dn) : dn[i].control = "PUBREL" => dn[i].id \in Ids

HandledInv ==
    /\ handled \in Seq(DownMsgs)
    /\ Numbered(mq) /\ Numbered(up) /\ NumberedDown(down)
    /\ \A k \in 1..Len(down) : down[k].control = "PUBLISH" => down[k].msg \in DownMsgs
    /\ ActiveApart(outgoing)
    /\ \A m \in DownMsgs :
          Qos[m] = 2 => HandshakeOK(m, down, outgoing[m], Range(handled), mq)
    /\ Qos2HandledOnce

\* What mqtt_mq_find finds is what was asked for, and it finds what is there.
LEMMA FindMatch ==
    ASSUME NEW q \in Seq(Packets), NEW c, NEW id
    PROVE  /\ mq_find(q, c, id) # 0 =>
                 /\ mq_find(q, c, id) \in 1..Len(q)
                 /\ q[mq_find(q, c, id)].control = c
                 /\ id # NoId => q[mq_find(q, c, id)].id = id
           /\ \A i \in 1..Len(q) : id # NoId /\ q[i].control = c /\ q[i].id = id =>
                 mq_find(q, c, id) # 0
    <1> DEFINE found == {i \in 1..Len(q) : /\ q[i].control = c
                            /\ IF id = NoId THEN q[i].state # "COMPLETE" ELSE q[i].id = id}
    <1>1. found \subseteq 1..Len(q) /\ found \subseteq Nat /\ Len(q) \in Nat
          OBVIOUS
    <1>2. mq_find(q, c, id) = IF found = {} THEN 0 ELSE Min(found)
          BY DEF mq_find
    <1>3. /\ \A i \in found : i \in 1..Len(q) /\ q[i].control = c /\ (id # NoId => q[i].id = id)
          /\ \A i \in 1..Len(q) : id # NoId /\ q[i].control = c /\ q[i].id = id => i \in found
          OBVIOUS
    <1> HIDE DEF found
    <1>4. found # {} => Min(found) \in found /\ Min(found) # 0
          <2>1. found # {} => Min(found) \in found
                BY <1>1, MinFacts
          <2> QED BY <1>1, <2>1
    <1>5. CASE found = {}
          BY <1>2, <1>3, <1>5
    <1>6. CASE found # {}
          BY <1>2, <1>3, <1>4, <1>6
    <1> QED BY <1>5, <1>6

\* mqtt_mq_clean keeps a PUBREC that is not complete.
LEMMA AwaitsClean ==
    ASSUME NEW q, QueueOK(q), NEW id, Awaits(q, id)
    PROVE  Awaits(mq_clean(q), id)
    <1> DEFINE left_over == {i \in 1..Len(q) : ~ Finished(q[i])}
    <1>1. PICK n \in 1..Len(q) : q[n].control = "PUBREC" /\ q[n].id = id /\ q[n].state # "COMPLETE"
          BY DEF Awaits
    <1>2. left_over \subseteq Nat /\ n \in left_over
          BY <1>1 DEF QueueOK, Finished
    <1>3. mq_clean(q) = IF left_over = {} THEN <<>> ELSE SubSeq(q, Min(left_over), Len(q))
          BY DEF mq_clean
    <1>4. q \in Seq(Packets) /\ Len(q) \in Nat /\ \A i \in 1..Len(q) : q[i] \in Packets
          BY ElementOfSeq DEF QueueOK
    <1>5. PICK k : k = Min(left_over)
          OBVIOUS
    <1>6. k \in left_over /\ k <= n
          BY <1>2, <1>5, MinFacts
    <1>7. k \in 1..Len(q)
          BY <1>6
    <1>8. mq_clean(q) = SubSeq(q, k, Len(q))
          BY <1>2, <1>3, <1>5
    <1> HIDE DEF left_over
    <1> DEFINE c == SubSeq(q, k, Len(q))
    <1>9. /\ Len(c) = Len(q) + 1 - k /\ \A i \in 1 .. Len(q) + 1 - k : c[i] = q[i + k - 1]
          BY <1>4, <1>7, SubSeqProperties
    <1> HIDE DEF c
    <1>10. n + 1 - k \in 1..Len(c) /\ (n + 1 - k) + k - 1 = n
          BY <1>4, <1>6, <1>7, <1>9
    <1>11. c[n + 1 - k] = q[n]
          BY <1>9, <1>10
    <1> QED BY <1>1, <1>8, <1>10, <1>11 DEF Awaits, c

\* Staging another message keeps it.
LEMMA AwaitsAppend ==
    ASSUME NEW q \in Seq(Packets), NEW a \in Packets, NEW id
    PROVE  /\ Awaits(q, id) => Awaits(Append(q, a), id)
           /\ a.control = "PUBREC" /\ a.id = id /\ a.state = "UNSENT" => Awaits(Append(q, a), id)
    <1>1. /\ Len(q) \in Nat /\ Len(Append(q, a)) = Len(q) + 1 /\ Append(q, a)[Len(q) + 1] = a
          /\ \A i \in 1..Len(q) : Append(q, a)[i] = q[i]
          BY AppendProperties
    <1>2. Len(q) + 1 \in 1..Len(Append(q, a)) /\ \A i \in 1..Len(q) : i \in 1..Len(Append(q, a))
          BY <1>1
    <1> QED BY <1>1, <1>2 DEF Awaits

\* So does MQTT_CLIENT_TRY_PACK, also when the buffer is full.
LEMMA AwaitsTryPack ==
    ASSUME NEW q, QueueOK(q), NEW a \in Packets, NEW id
    PROVE  /\ Awaits(q, id) => Awaits(TryPack(q, a).mq, id)
           /\ a.control = "PUBREC" /\ a.id = id /\ a.state = "UNSENT" /\ TryPack(q, a).error = "OK"
                 => Awaits(TryPack(q, a).mq, id)
    <1> DEFINE c == mq_clean(q)
               t == TryPack(q, a)
    <1>1. q \in Seq(Packets) /\ c \in Seq(Packets) /\ (Awaits(q, id) => Awaits(c, id))
          BY CleanOK, AwaitsClean DEF QueueOK
    <1>2. CASE error # "OK" /\ t = [mq |-> q, error |-> error]
          BY <1>2
    <1>3. CASE t = [mq |-> q, error |-> "PUBLISH_FORBIDDEN_QOS"]
          BY <1>3
    <1>4. CASE t = [mq |-> Append(q, a), error |-> "OK"]
          BY <1>1, <1>4, AwaitsAppend
    <1>5. CASE t = [mq |-> Append(c, a), error |-> "OK"]
          BY <1>1, <1>5, AwaitsAppend
    <1>6. CASE t = [mq |-> c, error |-> "SEND_BUFFER_IS_FULL"]
          BY <1>1, <1>6
    <1> QED BY <1>2, <1>3, <1>4, <1>5, <1>6 DEF TryPack

\* A message other than that PUBREC is regarded as complete.
LEMMA AwaitsComplete ==
    ASSUME NEW q, QueueOK(q), NEW n \in 1..Len(q), NEW id, Awaits(q, id),
           q[n].control # "PUBREC" \/ q[n].id # id
    PROVE  Awaits(Complete(q, n), id)
    <1>1. q \in Seq(Packets) /\ Len(q) \in Nat /\ DOMAIN q = 1..Len(q)
          BY DEF QueueOK
    <1>2. \A i \in 1..Len(q) : i # n => Complete(q, n)[i] = q[i]
          BY <1>1 DEF Complete
    <1>3. Len(Complete(q, n)) = Len(q)
          BY CompleteOK
    <1> QED BY <1>2, <1>3 DEF Awaits

\* A pass leaves a PUBREC that is not complete waiting for its answer.
LEMMA AwaitsSent ==
    ASSUME QueueOK(mq), NEW S, NEW id, Awaits(mq, id)
    PROVE  Awaits(sent_queue(S), id)
    <1>1. mq \in Seq(Packets) /\ Len(mq) \in Nat /\ \A i \in 1..Len(mq) : mq[i] \in Packets
          BY ElementOfSeq DEF QueueOK
    <1>2. PICK n \in 1..Len(mq) : mq[n].control = "PUBREC" /\ mq[n].id = id /\ mq[n].state # "COMPLETE"
          BY DEF Awaits
    <1>3. Len(sent_queue(S)) = Len(mq)
          BY <1>1 DEF sent_queue
    <1>4. sent_queue(S)[n] = IF n \in S THEN AfterSend(mq[n]) ELSE mq[n]
          BY DEF sent_queue
    <1>5. AfterSend(mq[n]) = [mq[n] EXCEPT !.state = "AWAITING_ACK"]
          BY <1>2 DEF AfterSend, IsPublish
    <1>6. /\ AfterSend(mq[n]).control = "PUBREC" /\ AfterSend(mq[n]).id = id
          /\ AfterSend(mq[n]).state # "COMPLETE"
          BY <1>1, <1>2, <1>5 DEF Packets
    <1> QED BY <1>2, <1>3, <1>4, <1>6 DEF Awaits

\* What is done to the queue gives no PUBREC another identifier.
LEMMA NumberedTryPack ==
    ASSUME NEW q, QueueOK(q), Numbered(q), NEW a \in Packets, a.control = "PUBREC" => a.id \in Ids
    PROVE  Numbered(TryPack(q, a).mq)
    <1> DEFINE c == mq_clean(q)
               t == TryPack(q, a)
    <1>1. q \in Seq(Packets) /\ c \in Seq(Packets) /\ Len(q) \in Nat
          BY CleanOK DEF QueueOK
    <1>2. Numbered(c)
          <2> DEFINE left_over == {i \in 1..Len(q) : ~ Finished(q[i])}
          <2>1. c = IF left_over = {} THEN <<>> ELSE SubSeq(q, Min(left_over), Len(q))
                BY DEF mq_clean
          <2>2. CASE left_over = {}
                BY <2>1, <2>2 DEF Numbered
          <2>3. CASE left_over # {}
                <3>1. PICK k : k = Min(left_over)
                      OBVIOUS
                <3>2. k \in left_over /\ k \in 1..Len(q)
                      <4>1. left_over \subseteq Nat /\ left_over \subseteq 1..Len(q)
                            OBVIOUS
                      <4> HIDE DEF left_over
                      <4> QED BY <2>3, <3>1, <4>1, MinFacts
                <3>3. c = SubSeq(q, k, Len(q))
                      BY <2>1, <2>3, <3>1
                <3> HIDE DEF left_over, c
                <3> DEFINE s == SubSeq(q, k, Len(q))
                <3>4. /\ Len(s) = Len(q) + 1 - k /\ \A i \in 1 .. Len(q) + 1 - k : s[i] = q[i + k - 1]
                      BY <1>1, <3>2, SubSeqProperties
                <3>5. \A i \in 1..Len(s) : i + k - 1 \in 1..Len(q)
                      BY <1>1, <3>2, <3>4
                <3> HIDE DEF s
                <3>6. Numbered(s)
                      BY <3>4, <3>5 DEF Numbered
                <3> QED BY <3>3, <3>6 DEF s
          <2> QED BY <2>2, <2>3
    <1>3. ASSUME NEW r \in Seq(Packets), Numbered(r) PROVE Numbered(Append(r, a))
          <2>1. /\ Len(r) \in Nat /\ Len(Append(r, a)) = Len(r) + 1 /\ Append(r, a)[Len(r) + 1] = a
                /\ \A i \in 1..Len(r) : Append(r, a)[i] = r[i]
                BY AppendProperties
          <2> QED BY <1>3, <2>1 DEF Numbered
    <1> HIDE DEF c
    <1>4. t.mq \in {q, c, Append(q, a), Append(c, a)}
          BY DEF TryPack, c
    <1> QED BY <1>1, <1>2, <1>3, <1>4

\* Nor does an acknowledgement.
LEMMA NumberedComplete ==
    ASSUME NEW q, QueueOK(q), Numbered(q), NEW n \in 1..Len(q)
    PROVE  Numbered(Complete(q, n))
    <1>1. q \in Seq(Packets) /\ Len(q) \in Nat /\ DOMAIN q = 1..Len(q) /\ q[n] \in Packets
          BY ElementOfSeq DEF QueueOK
    <1>2. /\ \A i \in 1..Len(q) : i # n => Complete(q, n)[i] = q[i]
          /\ Complete(q, n)[n] = [q[n] EXCEPT !.state = "COMPLETE"]
          BY <1>1 DEF Complete
    <1>3. /\ Complete(q, n)[n].control = q[n].control /\ Complete(q, n)[n].id = q[n].id
          BY <1>1, <1>2 DEF Packets
    <1>4. Len(Complete(q, n)) = Len(q)
          BY CompleteOK
    <1> QED BY <1>2, <1>3, <1>4 DEF Numbered

\* A pass keeps the queue and puts some of it on the wire.
LEMMA NumberedSent ==
    ASSUME QueueOK(mq), Numbered(mq), NEW S \in SUBSET (1..Len(mq))
    PROVE  /\ Numbered(sent_queue(S))
           /\ \A packets \in Sent(S) : packets \in Seq(Packets) /\ Numbered(packets)
    <1>1. mq \in Seq(Packets) /\ Len(mq) \in Nat /\ \A i \in 1..Len(mq) : mq[i] \in Packets
          BY ElementOfSeq DEF QueueOK
    <1>2. Len(sent_queue(S)) = Len(mq)
          BY <1>1 DEF sent_queue
    <1>3. \A i \in 1..Len(mq) :
             sent_queue(S)[i] = IF i \in S THEN AfterSend(mq[i]) ELSE mq[i]
          BY DEF sent_queue
    <1>4. \A i \in 1..Len(mq) : /\ AfterSend(mq[i]).control = mq[i].control
                                /\ AfterSend(mq[i]).id = mq[i].id
          BY <1>1 DEF AfterSend, Packets
    <1>5. Numbered(sent_queue(S))
          BY <1>2, <1>3, <1>4 DEF Numbered
    <1>6. ASSUME NEW packets \in Sent(S) PROVE packets \in Seq(Packets) /\ Numbered(packets)
          <2>1. packets \in Seq(Packets)
                BY SentType
          <2>2. PICK order \in [1..Cardinality(S) -> S] : packets = [k \in DOMAIN order |-> mq[order[k]]]
                BY DEF Sent
          <2>3. DOMAIN packets = 1..Len(packets) /\ DOMAIN packets = DOMAIN order
                <3>1. DOMAIN packets = 1..Len(packets)
                      BY <2>1
                <3> QED BY <2>2, <3>1
          <2>4. \A k \in 1..Len(packets) : order[k] \in 1..Len(mq) /\ packets[k] = mq[order[k]]
                BY <2>2, <2>3
          <2> QED BY <2>1, <2>4 DEF Numbered
    <1> QED BY <1>5, <1>6

-----------------------------------------------------------------------------
(* One handshake.                                                          *)

\* The queue changes; only a PUBREL that is next in recv_buffer may end the
\* wait of its PUBREC.
LEMMA QueueStep ==
    ASSUME NEW m, NEW dn \in Seq(Answers), NEW o, NEW H, NEW q, NEW r,
           HandshakeOK(m, dn, o, H, q),
           Awaits(q, o.id) => Awaits(r, o.id) \/ (dn # <<>> /\ Releases(dn[1], o.id))
    PROVE  HandshakeOK(m, dn, o, H, r)
    <1>1. ASSUME m \in H, More(m, dn, o, 0) PROVE Awaits(r, o.id)
          <2> SUFFICES ASSUME dn # <<>>, Releases(dn[1], o.id) PROVE FALSE
              BY <1>1 DEF HandshakeOK
          <2>1. Len(dn) \in Nat /\ 1 \in 1..Len(dn) /\ ~ Copy(dn[1], m)
                BY DEF Copy, Releases
          <2>2. More(m, dn, o, 1)
                <3>1. ASSUME NEW j \in 1..Len(dn), Copy(dn[j], m) PROVE 1 < j
                      BY <2>1, <3>1
                <3> QED BY <1>1, <3>1 DEF More
          <2> QED BY <1>1, <2>1, <2>2 DEF HandshakeOK
    <1> QED BY <1>1 DEF HandshakeOK

\* A response is removed; when it was a copy of m, m is handled now or was.
LEMMA ConsumeStep ==
    ASSUME NEW m, NEW dn \in Seq(Answers), dn # <<>>, NEW o, NEW H, NEW J, NEW q,
           HandshakeOK(m, dn, o, H, q),
           m \in J => m \in H \/ (Copy(dn[1], m) /\ Awaits(q, o.id))
    PROVE  HandshakeOK(m, Tail(dn), o, J, q)
    <1> DEFINE tl == Tail(dn)
    <1>1. /\ Len(dn) \in Nat /\ 1 \in 1..Len(dn) /\ tl \in Seq(Answers) /\ Len(tl) = Len(dn) - 1
          /\ \A k \in 1..Len(tl) : tl[k] = dn[k + 1] /\ k + 1 \in 1..Len(dn)
          OBVIOUS
    <1> HIDE DEF tl
    <1>2. ASSUME NEW i \in 0..Len(tl), More(m, tl, o, i) PROVE More(m, dn, o, i + 1)
          <2>1. ASSUME NEW j \in 1..Len(tl), i < j, Copy(tl[j], m) PROVE More(m, dn, o, i + 1)
                <3>1. j + 1 \in 1..Len(dn) /\ i + 1 < j + 1 /\ Copy(dn[j + 1], m)
                      BY <1>1, <2>1
                <3> QED BY <3>1 DEF More
          <2> QED BY <1>2, <2>1 DEF More
    <1>3. More(m, tl, o, 0) => More(m, dn, o, 0)
          <2>1. More(m, dn, o, 1) => More(m, dn, o, 0)
                BY <1>1 DEF More
          <2> QED BY <1>1, <1>2, <2>1
    <1>4. o.step = "idle" => m \notin J /\ \A k \in 1..Len(tl) : ~ Copy(tl[k], m)
          BY <1>1 DEF HandshakeOK
    <1>5. \A k \in 1..Len(tl) : Copy(tl[k], m) => tl[k].id = o.id
          BY <1>1 DEF HandshakeOK
    <1>6. m \in J /\ More(m, tl, o, 0) => Awaits(q, o.id)
          BY <1>3 DEF HandshakeOK
    <1>7. ASSUME NEW i \in 1..Len(tl), Releases(tl[i], o.id), More(m, tl, o, i)
          PROVE  m \notin J /\ \A k \in 1..i : ~ Copy(tl[k], m)
          <2>1. i \in 0..Len(tl) /\ i + 1 \in 1..Len(dn) /\ Releases(dn[i + 1], o.id)
                BY <1>1, <1>7
          <2>2. More(m, dn, o, i + 1)
                BY <1>2, <1>7, <2>1
          <2>3. m \notin H /\ \A k \in 1..(i + 1) : ~ Copy(dn[k], m)
                BY <2>1, <2>2 DEF HandshakeOK
          <2>4. \A k \in 1..i : k + 1 \in 1..(i + 1) /\ k \in 1..Len(tl)
                BY <1>1, <2>1
          <2>5. 1 \in 1..(i + 1)
                BY <1>1, <2>1
          <2> QED BY <1>1, <2>3, <2>4, <2>5
    <1> QED BY <1>4, <1>5, <1>6, <1>7 DEF HandshakeOK, tl

\* The broker sends a response and its handshake goes on: a copy of m only while
\* it may send one, a PUBREL for m only when it no longer may.
LEMMA SendStep ==
    ASSUME NEW m, NEW dn \in Seq(Answers), NEW o, NEW u, NEW H, NEW q, NEW r \in Answers,
           HandshakeOK(m, dn, o, H, q),
           u.id = o.id, u.step = "sent" => o.step = "sent", u.step = "idle" <=> o.step = "idle",
           Copy(r, m) => o.step = "sent" /\ r.id = o.id,
           Releases(r, o.id) => u.step # "sent"
    PROVE  HandshakeOK(m, Append(dn, r), u, H, q) /\ HandshakeOK(m, dn, u, H, q)
    <1> DEFINE ap == Append(dn, r)
    <1>1. /\ Len(dn) \in Nat /\ Len(ap) = Len(dn) + 1 /\ ap[Len(dn) + 1] = r
          /\ \A k \in 1..Len(dn) : ap[k] = dn[k]
          BY AppendProperties
    <1> HIDE DEF ap
    <1>2. \A k \in 1..Len(ap) : k \in 1..Len(dn) \/ k = Len(dn) + 1
          BY <1>1
    <1>3. ASSUME NEW i, More(m, ap, u, i) PROVE More(m, dn, o, i)
          BY <1>1, <1>2, <1>3 DEF More
    <1>4. ASSUME NEW i, More(m, dn, u, i) PROVE More(m, dn, o, i)
          BY <1>4 DEF More
    <1>5. u.step # "idle" => u.id \in Ids
          BY DEF HandshakeOK
    <1>6. u.step = "idle" => m \notin H /\ \A k \in 1..Len(ap) : ~ Copy(ap[k], m)
          BY <1>1, <1>2 DEF HandshakeOK
    <1>7. \A k \in 1..Len(ap) : Copy(ap[k], m) => ap[k].id = u.id
          BY <1>1, <1>2 DEF HandshakeOK
    <1>8. m \in H /\ More(m, ap, u, 0) => Awaits(q, u.id)
          BY <1>3 DEF HandshakeOK
    <1>9. ASSUME NEW i \in 1..Len(ap), Releases(ap[i], u.id), More(m, ap, u, i)
          PROVE  m \notin H /\ \A k \in 1..i : ~ Copy(ap[k], m)
          <2>1. CASE i \in 1..Len(dn)
                <3>1. m \notin H /\ \A k \in 1..i : ~ Copy(dn[k], m)
                      BY <1>1, <1>3, <1>9, <2>1 DEF HandshakeOK
                <3>2. \A k \in 1..i : ap[k] = dn[k]
                      BY <1>1, <2>1
                <3> QED BY <3>1, <3>2
          <2>2. CASE i = Len(dn) + 1
                <3>1. u.step # "sent"
                      BY <1>1, <1>9, <2>2
                <3>2. \A j \in 1..Len(ap) : ~(i < j)
                      BY <1>1, <2>2
                <3> QED BY <1>9, <3>1, <3>2 DEF More
          <2> QED BY <1>2, <2>1, <2>2
    <1>10. HandshakeOK(m, ap, u, H, q)
          BY <1>5, <1>6, <1>7, <1>8, <1>9 DEF HandshakeOK
    <1>11. HandshakeOK(m, dn, u, H, q)
          BY <1>4 DEF HandshakeOK
    <1> QED BY <1>10, <1>11 DEF ap

\* The broker begins the handshake of m.
LEMMA BeginStep ==
    ASSUME NEW m, NEW dn \in Seq(Answers), NEW o, NEW id \in Ids, NEW H, NEW q, NEW r \in Answers,
           HandshakeOK(m, dn, o, H, q), o.step = "idle",
           r.control # "PUBREL", Copy(r, m) => r.id = id
    PROVE  HandshakeOK(m, Append(dn, r), [step |-> "sent", id |-> id], H, q)
    <1> DEFINE ap == Append(dn, r)
    <1>1. /\ Len(dn) \in Nat /\ Len(ap) = Len(dn) + 1 /\ ap[Len(dn) + 1] = r
          /\ \A k \in 1..Len(dn) : ap[k] = dn[k]
          BY AppendProperties
    <1> HIDE DEF ap
    <1>2. \A k \in 1..Len(ap) : k \in 1..Len(dn) \/ k = Len(dn) + 1
          BY <1>1
    <1>3. m \notin H /\ \A k \in 1..Len(dn) : ~ Copy(ap[k], m)
          BY <1>1 DEF HandshakeOK
    <1>4. ASSUME NEW i \in 1..Len(ap), Releases(ap[i], id) PROVE \A k \in 1..i : ~ Copy(ap[k], m)
          <2>1. i \in 1..Len(dn)
                BY <1>1, <1>2, <1>4 DEF Releases
          <2>2. \A k \in 1..i : k \in 1..Len(dn)
                BY <1>1, <2>1
          <2> QED BY <1>3, <2>2
    <1>5. \A k \in 1..Len(ap) : Copy(ap[k], m) => ap[k].id = id
          BY <1>1, <1>2, <1>3
    <1> QED BY <1>3, <1>4, <1>5 DEF HandshakeOK, ap

-----------------------------------------------------------------------------
(* The steps and the handshakes.                                           *)

\* What may become of the queue when p is the response that is handled: only
\* the PUBREC that p releases, if any, no longer awaits an answer.
Passes(q, p) ==
    /\ QueueOK(q) /\ Numbered(q)
    /\ \A id : Awaits(mq, id) => Awaits(q, id) \/ Releases(p, id)

\* The handshake of a QoS 2 message is as HandledInv says.
LEMMA HandshakeTypes ==
    ASSUME Inv, HandledInv, NEW m \in DownMsgs, Qos[m] = 2
    PROVE  /\ HandshakeOK(m, down, outgoing[m], Range(handled), mq)
           /\ down \in Seq(Answers) /\ outgoing[m] \in [step : Steps, id : AnyId]
    BY DEF Inv, WireOK, HandledInv

\* The messages handled.
LEMMA HandledFacts ==
    ASSUME NEW s \in Seq(DownMsgs)
    PROVE  /\ Range(s) = {s[i] : i \in 1..Len(s)}
           /\ \A m \in DownMsgs : Range(Append(s, m)) = Range(s) \cup {m}
    <1>1. Range(s) = {s[i] : i \in 1..Len(s)}
          BY DEF Range
    <1>2. ASSUME NEW m \in DownMsgs PROVE Range(Append(s, m)) = Range(s) \cup {m}
          <2> DEFINE a == Append(s, m)
          <2>1. /\ Len(s) \in Nat /\ Len(a) = Len(s) + 1 /\ a[Len(s) + 1] = m
                /\ \A i \in 1..Len(s) : a[i] = s[i]
                BY AppendProperties
          <2>2. Range(a) = {a[i] : i \in 1..Len(a)}
                BY DEF Range
          <2> HIDE DEF a
          <2>3. 1..Len(a) = (1..Len(s)) \cup {Len(s) + 1}
                BY <2>1
          <2>4. Range(a) = Range(s) \cup {m}
                BY <1>1, <2>1, <2>2, <2>3
          <2> QED BY <2>4 DEF a
    <1> QED BY <1>1, <1>2

\* Only the queue and what is on its way to the broker change.
LEMMA HandledKeeps ==
    ASSUME Inv, HandledInv, UNCHANGED <<down, handled, outgoing>>, Numbered(mq'), Numbered(up'),
           \A id : Awaits(mq, id) => Awaits(mq', id) \/ (down # <<>> /\ Releases(down[1], id))
    PROVE  HandledInv'
    <1>1. ASSUME NEW m \in DownMsgs, Qos[m] = 2
          PROVE  HandshakeOK(m, down, outgoing[m], Range(handled), mq')
          BY <1>1, HandshakeTypes, QueueStep
    <1>2. Numbered(mq)' /\ Numbered(up)'
          BY DEF Numbered
    <1>3. ActiveApart(outgoing)' /\ Qos2HandledOnce' /\ NumberedDown(down)'
          BY DEF HandledInv, ActiveApart, Qos2HandledOnce, NumberedDown, Active
    <1> QED BY <1>1, <1>2, <1>3 DEF HandledInv

\* A response is removed; a QoS 2 message is handled with it only when it was
\* not, and its PUBREC is queued.
LEMMA HandledConsumes ==
    ASSUME Inv, HandledInv, down # <<>>, down' = Tail(down), UNCHANGED <<up, outgoing>>,
           Passes(mq', down[1]),
           \/ handled' = handled
           \/ /\ down[1].control = "PUBLISH"
              /\ handled' = Append(handled, down[1].msg)
              /\ Qos[down[1].msg] = 2 =>
                    down[1].msg \notin Range(handled) /\ Awaits(mq', down[1].id)
    PROVE  HandledInv'
    <1> DEFINE p == down[1]
    <1>1. /\ down \in Seq(Answers) /\ Len(down) \in Nat /\ 1 \in 1..Len(down) /\ p \in Answers
          /\ handled \in Seq(DownMsgs)
          BY DEF Inv, WireOK, HandledInv
    <1>2. /\ Tail(down) \in Seq(Answers) /\ Len(Tail(down)) = Len(down) - 1
          /\ \A k \in 1..Len(Tail(down)) : Tail(down)[k] = down[k + 1] /\ k + 1 \in 1..Len(down)
          BY <1>1
    <1>3. p.control = "PUBLISH" => p.msg \in DownMsgs
          BY <1>1 DEF HandledInv
    <1> HIDE DEF p
    <1>4. \/ handled' = handled
          \/ /\ p.control = "PUBLISH" /\ p.msg \in DownMsgs /\ handled' = Append(handled, p.msg)
             /\ Qos[p.msg] = 2 => p.msg \notin Range(handled) /\ Awaits(mq', p.id)
          BY <1>3 DEF p
    <1>5. \A m \in Range(handled') :
             m \in Range(handled) \/ (Copy(p, m) /\ (Qos[m] = 2 => Awaits(mq', p.id)))
          <2>1. CASE handled' = handled
                BY <2>1
          <2>2. CASE handled' = Append(handled, p.msg) /\ p.msg \in DownMsgs /\ p.control = "PUBLISH"
                <3>1. Range(handled') = Range(handled) \cup {p.msg}
                      BY <1>1, <2>2, HandledFacts
                <3>2. Qos[p.msg] = 2 => p.msg \in Range(handled) \/ Awaits(mq', p.id)
                      <4>1. handled' # handled
                            <5>1. Len(handled') = Len(handled) + 1 /\ Len(handled) \in Nat
                                  BY <1>1, <2>2, AppendProperties
                            <5> QED BY <5>1
                      <4> QED BY <1>4, <4>1
                <3> QED BY <2>2, <3>1, <3>2 DEF Copy
          <2> QED BY <1>4, <2>1, <2>2
    <1>6. ASSUME NEW m \in DownMsgs, Qos[m] = 2
          PROVE  HandshakeOK(m, down', outgoing'[m], Range(handled'), mq')
          <2>1. HandshakeOK(m, down, outgoing[m], Range(handled), mq)
                BY <1>6, HandshakeTypes
          <2>2. HandshakeOK(m, down, outgoing[m], Range(handled), mq')
                BY <1>1, <2>1, QueueStep DEF Passes
          <2>3. Copy(p, m) => p.id = outgoing[m].id
                BY <1>1, <2>1 DEF HandshakeOK, p
          <2>4. m \in Range(handled') =>
                   m \in Range(handled) \/ (Copy(down[1], m) /\ Awaits(mq', outgoing[m].id))
                BY <1>5, <1>6, <2>3 DEF p
          <2> QED BY <1>1, <2>2, <2>4, ConsumeStep
    <1>7. handled' \in Seq(DownMsgs)
          <2>1. \A m \in DownMsgs : Append(handled, m) \in Seq(DownMsgs)
                BY <1>1, AppendProperties
          <2> QED BY <1>1, <1>4, <2>1
    <1>8. Qos2HandledOnce'
          <2>1. CASE handled' = handled
                BY <2>1 DEF HandledInv, Qos2HandledOnce
          <2>2. CASE handled' # handled
                <3> DEFINE a == Append(handled, p.msg)
                <3>1. /\ Len(handled) \in Nat /\ Len(a) = Len(handled) + 1
                      /\ a[Len(handled) + 1] = p.msg /\ \A i \in 1..Len(handled) : a[i] = handled[i]
                      BY <1>1, <1>4, <2>2, AppendProperties
                <3>2. handled' = a
                      BY <1>4, <2>2
                <3> HIDE DEF a
                <3>3. Qos[p.msg] = 2 => \A i \in 1..Len(handled) : handled[i] # p.msg
                      BY <1>1, <1>4, <2>2, HandledFacts
                <3>4. \A j, k \in 1..Len(handled) :
                         Qos[handled[j]] = 2 /\ handled[j] = handled[k] => j = k
                      BY DEF HandledInv, Qos2HandledOnce
                <3> QED BY <3>1, <3>2, <3>3, <3>4 DEF Qos2HandledOnce
          <2> QED BY <2>1, <2>2
    <1>9. /\ Numbered(mq)' /\ Numbered(up)' /\ NumberedDown(down)' /\ ActiveApart(outgoing)'
          /\ \A k \in 1..Len(down') : down'[k].control = "PUBLISH" => down'[k].msg \in DownMsgs
          <2>1. Numbered(mq)' /\ Numbered(up)' /\ ActiveApart(outgoing)'
                BY DEF Passes, HandledInv, Numbered, ActiveApart, Active
          <2>2. NumberedDown(down)'
                BY <1>2 DEF HandledInv, NumberedDown
          <2>3. \A k \in 1..Len(down') : down'[k].control = "PUBLISH" => down'[k].msg \in DownMsgs
                BY <1>2 DEF HandledInv
          <2> QED BY <2>1, <2>2, <2>3
    <1> QED BY <1>6, <1>7, <1>8, <1>9 DEF HandledInv

\* Before the first call nothing is handled and nothing is under way.
LEMMA InitHandled == Init => HandledInv
    <1> SUFFICES ASSUME Init PROVE HandledInv
        OBVIOUS
    <1>1. /\ handled = <<>> /\ Len(handled) = 0 /\ handled \in Seq(DownMsgs) /\ Range(handled) = {}
          /\ Len(mq) = 0 /\ Len(up) = 0 /\ down = <<>> /\ Len(down) = 0
          <2>1. Range(<<>>) = {}
                BY DEF Range
          <2> QED BY <2>1 DEF Init
    <1>2. \A m \in DownMsgs : outgoing[m] = [step |-> "idle", id |-> NoId]
          BY DEF Init
    <1>3. ActiveApart(outgoing)
          BY <1>2 DEF ActiveApart, Active
    <1>4. ASSUME NEW m \in DownMsgs PROVE HandshakeOK(m, down, outgoing[m], Range(handled), mq)
          BY <1>1, <1>2 DEF HandshakeOK, More
    <1> QED BY <1>1, <1>3, <1>4 DEF HandledInv, Numbered, NumberedDown, Qos2HandledOnce

\* A call of the application stages no PUBREC and completes none.
LEMMA CallHandled ==
    ASSUME Inv, HandledInv,
           mqtt_connect \/ (\E m \in UpMsgs : mqtt_publish(m)) \/ \E c \in Requests : Request(c)
    PROVE  HandledInv'
    <1>1. QueueOK(mq) /\ mq \in Seq(Packets) /\ Numbered(mq)
          BY DEF Inv, QueueOK, HandledInv
    <1>2. UNCHANGED <<up, down, handled, outgoing>>
          BY DEF mqtt_connect, mqtt_publish, Request, connection, broker, app
    <1>3. Numbered(up')
          BY <1>2 DEF HandledInv
    <1>4. ASSUME NEW a \in Packets, a.control # "PUBREC", mq' = TryPack(mq, a).mq PROVE HandledInv'
          <2>1. Numbered(mq')
                BY <1>1, <1>4, NumberedTryPack
          <2>2. \A id : Awaits(mq, id) => Awaits(mq', id)
                BY <1>1, <1>4, AwaitsTryPack
          <2> QED BY <1>2, <1>3, <2>1, <2>2, HandledKeeps
    <1>5. CASE mqtt_connect
          <2>1. mq = <<>> /\ mq' = Append(mq, Message("CONNECT", NoId, NoMsg))
                BY <1>5 DEF mqtt_connect, Inv, WireOK
          <2>2. mq' = <<Message("CONNECT", NoId, NoMsg)>>
                BY <2>1
          <2>3. Len(mq') = 1 /\ mq'[1].control = "CONNECT" /\ Len(mq) = 0
                BY <2>1, <2>2 DEF Message
          <2>4. Numbered(mq')
                BY <2>3 DEF Numbered
          <2>5. \A id : ~ Awaits(mq, id)
                BY <2>3 DEF Awaits
          <2> QED BY <1>2, <1>3, <2>4, <2>5, HandledKeeps
    <1>6. ASSUME NEW m \in UpMsgs, mqtt_publish(m) PROVE HandledInv'
          <2> DEFINE a == Message("PUBLISH", next_pid(mq), m)
          <2>1. next_pid(mq) \in Ids
                BY NextPid DEF Inv, QueueOK, WireOK
          <2>2. a \in Packets /\ a.control # "PUBREC"
                BY <2>1, MessageType DEF Controls, AnyId
          <2>3. mq' = TryPack(mq, a).mq
                BY <1>6 DEF mqtt_publish, Stage
          <2> HIDE DEF a
          <2> QED BY <1>4, <2>2, <2>3
    <1>7. ASSUME NEW c \in Requests, Request(c) PROVE HandledInv'
          <2>1. next_pid(mq) \in Ids /\ c \in Controls /\ c # "PUBREC"
                BY NextPid, ClientAssumption DEF Inv, QueueOK, WireOK, Controls
          <2>2. PICK id \in AnyId : Stage(Message(c, id, NoMsg))
                BY <1>7, <2>1 DEF Request, AnyId
          <2> DEFINE a == Message(c, id, NoMsg)
          <2>3. a \in Packets /\ a.control # "PUBREC"
                BY <2>1, MessageType
          <2>4. mq' = TryPack(mq, a).mq
                BY <2>2 DEF Stage
          <2> HIDE DEF a
          <2> QED BY <1>4, <2>3, <2>4
    <1> QED BY <1>5, <1>6, <1>7

\* mqtt_sync itself: a new connection leaves no copy of a message under way.
LEMMA SyncHandled ==
    ASSUME Inv, HandledInv,
           SyncStart \/ SyncReconnect \/ RecvEnter \/ RecvDone \/ RecvFails \/ SendRefused
    PROVE  HandledInv'
    <1>1. CASE SyncStart \/ RecvEnter \/ RecvDone \/ RecvFails \/ SendRefused
          <2>1. UNCHANGED <<mq, up, down, handled, outgoing>>
                BY <1>1 DEF SyncStart, RecvEnter, RecvDone, RecvFails, SendRefused, connection,
                            broker, app
          <2>2. Numbered(mq') /\ Numbered(up') /\ \A id : Awaits(mq, id) => Awaits(mq', id)
                BY <2>1 DEF HandledInv
          <2> QED BY <2>1, <2>2, HandledKeeps
    <1>2. CASE SyncReconnect
          <2>1. /\ mq' = <<Message("CONNECT", NoId, NoMsg)>> /\ up' = <<>> /\ down' = <<>>
                /\ handled' = handled
                BY <1>2 DEF SyncReconnect, mqtt_reinit, app
          <2>2. /\ Len(mq') = 1 /\ mq'[1].control = "CONNECT" /\ Len(up') = 0 /\ Len(down') = 0
                BY <2>1 DEF Message
          <2>3. ASSUME NEW m \in DownMsgs
                PROVE  /\ outgoing'[m].id = outgoing[m].id
                       /\ outgoing'[m].step = IF outgoing[m].step = "idle" THEN "idle" ELSE "lost"
                <3>1. outgoing[m] \in [step : Steps, id : AnyId]
                      BY DEF Inv, WireOK
                <3>2. outgoing'[m] = IF outgoing[m].step = "idle" THEN outgoing[m]
                                     ELSE [outgoing[m] EXCEPT !.step = "lost"]
                      BY <1>2 DEF SyncReconnect
                <3> QED BY <3>1, <3>2
          <2>4. ActiveApart(outgoing)'
                BY <2>3 DEF ActiveApart, Active
          <2>5. ASSUME NEW m \in DownMsgs, Qos[m] = 2
                PROVE  HandshakeOK(m, down', outgoing'[m], Range(handled'), mq')
                <3>1. HandshakeOK(m, down, outgoing[m], Range(handled), mq)
                      BY <2>5, HandshakeTypes
                <3>2. ~ More(m, down', outgoing'[m], 0)
                      BY <2>2, <2>3 DEF More
                <3> QED BY <2>1, <2>2, <2>3, <3>1, <3>2 DEF HandshakeOK
          <2>6. Numbered(mq)' /\ Numbered(up)' /\ NumberedDown(down)'
                BY <2>2 DEF Numbered, NumberedDown
          <2>7. handled' \in Seq(DownMsgs) /\ Qos2HandledOnce'
                BY <2>1 DEF HandledInv, Qos2HandledOnce
          <2>8. \A k \in 1..Len(down') : down'[k].control = "PUBLISH" => down'[k].msg \in DownMsgs
                BY <2>2
          <2> QED BY <2>4, <2>5, <2>6, <2>7, <2>8 DEF HandledInv
    <1> QED BY <1>1, <1>2

\* __mqtt_send.
LEMMA SendHandled == ASSUME Inv, HandledInv, Send PROVE HandledInv'
    <1>1. QueueOK(mq) /\ mq \in Seq(Packets) /\ Numbered(mq) /\ Numbered(up) /\ Len(mq) \in Nat
          BY DEF Inv, QueueOK, HandledInv
    <1>2. PICK expired \in SUBSET Overdue :
             SendAll(expired) \/ \E upto \in 0..(Len(mq) - 1) : SendFails(expired, upto)
          BY DEF Send
    <1>3. ASSUME NEW upto \in 0..Len(mq), SendPass(expired, upto), Numbered(mq'),
                 \A id : Awaits(mq, id) => Awaits(mq', id)
          PROVE  HandledInv'
          <2>1. UNCHANGED <<down, handled, outgoing>>
                BY <1>3 DEF SendPass, broker, app
          <2>2. Pass(expired, upto) \in SUBSET (1..Len(mq))
                BY <1>1 DEF Pass
          <2>3. Numbered(up')
                <3>1. CASE ~open
                      BY <1>1, <1>3, <3>1 DEF SendPass
                <3>2. CASE open
                      <4>1. PICK packets \in Sent(Pass(expired, upto)) : up' = up \o packets
                            BY <1>3, <3>2 DEF SendPass
                      <4>2. packets \in Seq(Packets) /\ Numbered(packets) /\ up \in Seq(Packets)
                            BY <1>1, <2>2, NumberedSent DEF Inv, WireOK
                      <4> DEFINE s == up \o packets
                      <4>3. /\ Len(up) \in Nat /\ Len(packets) \in Nat
                            /\ Len(s) = Len(up) + Len(packets)
                            /\ \A i \in 1..Len(s) : s[i] = IF i <= Len(up) THEN up[i]
                                                         ELSE packets[i - Len(up)]
                            BY <4>2, ConcatProperties
                      <4> HIDE DEF s
                      <4>4. \A i \in 1..Len(s) : i \in 1..Len(up) \/ i - Len(up) \in 1..Len(packets)
                            BY <4>3
                      <4>5. Numbered(s)
                            BY <1>1, <4>2, <4>3, <4>4 DEF Numbered
                      <4> QED BY <4>1, <4>5 DEF s
                <3> QED BY <3>1, <3>2
          <2> QED BY <1>3, <2>1, <2>3, HandledKeeps
    <1>4. ASSUME NEW upto \in 0..Len(mq), SendPass(expired, upto),
                 mq' = sent_queue(Pass(expired, upto))
          PROVE  HandledInv'
          <2>1. Pass(expired, upto) \in SUBSET (1..Len(mq))
                BY <1>1 DEF Pass
          <2>2. Numbered(mq') /\ \A id : Awaits(mq, id) => Awaits(mq', id)
                BY <1>1, <1>4, <2>1, NumberedSent, AwaitsSent
          <2> QED BY <1>3, <1>4, <2>2
    <1>5. CASE SendAll(expired)
          <2> DEFINE m == Message("PINGREQ", NoId, NoMsg)
          <2>1. SendPass(expired, Len(mq)) /\ Len(mq) \in 0..Len(mq)
                BY <1>1, <1>5 DEF SendAll
          <2>2. CASE mq' = TryPack(mq, m).mq
                <3>1. m \in Packets /\ m.control # "PUBREC"
                      BY MessageType DEF Controls, AnyId
                <3> HIDE DEF m
                <3>2. Numbered(mq') /\ \A id : Awaits(mq, id) => Awaits(mq', id)
                      BY <1>1, <2>2, <3>1, NumberedTryPack, AwaitsTryPack
                <3> QED BY <1>3, <2>1, <3>2
          <2> QED BY <1>4, <1>5, <2>1, <2>2 DEF SendAll
    <1>6. ASSUME NEW upto \in 0..(Len(mq) - 1), SendFails(expired, upto) PROVE HandledInv'
          <2>1. upto \in 0..Len(mq)
                BY <1>1
          <2> QED BY <1>4, <1>6, <2>1 DEF SendFails
    <1> QED BY <1>2, <1>5, <1>6

\* The response is released, or stays for the next __mqtt_recv.
LEMMA HeadHandled ==
    ASSUME Inv, HandledInv, down # <<>>, handled' = handled, Passes(mq', Head(down)),
           Consume \/ \E e : Abort(e)
    PROVE  HandledInv'
    <1>1. Head(down) = down[1]
          OBVIOUS
    <1>2. CASE Consume
          BY <1>1, <1>2, HandledConsumes DEF Consume, broker
    <1>3. CASE \E e : Abort(e)
          <2>1. UNCHANGED <<down, up, outgoing>>
                BY <1>3 DEF Abort, broker
          <2>2. Numbered(mq') /\ Numbered(up')
                BY <2>1 DEF Passes, HandledInv
          <2> QED BY <1>1, <2>1, <2>2, HandledKeeps DEF Passes
    <1> QED BY <1>2, <1>3

\* The answer to a response goes behind what awaits one.
LEMMA AnswerPasses ==
    ASSUME Inv, NEW p, NEW q, Passes(q, p), NEW c \in {"PUBACK", "PUBREC", "PUBREL", "PUBCOMP"},
           NEW id \in AnyId, c = "PUBREC" => id \in Ids, Answer(q, c, id)
    PROVE  /\ Passes(mq', p)
           /\ Consume \/ \E e : Abort(e)
           /\ c = "PUBREC" /\ ~held' => Awaits(mq', id)
    <1> DEFINE m == Message(c, id, NoMsg)
               t == TryPack(q, m)
    <1>1. /\ m \in Packets /\ m.state = "UNSENT" /\ m.control = c /\ m.id = id /\ m.control \notin Own
          BY MessageType DEF Controls, Own
    <1>2. QueueOK(q) /\ Numbered(q) /\ error \in Errors
          BY DEF Passes, Inv, ErrorOK
    <1>3. mq' = t.mq /\ IF t.error = "OK" THEN Consume /\ error' = "OK" ELSE Abort(t.error)
          BY DEF Answer
    <1> HIDE DEF m
    <1>4. QueueOK(t.mq)
          BY <1>1, <1>2, TryPackOK
    <1>5. Numbered(t.mq)
          BY <1>1, <1>2, NumberedTryPack
    <1>6. /\ \A x : Awaits(q, x) => Awaits(t.mq, x)
          /\ c = "PUBREC" /\ t.error = "OK" => Awaits(t.mq, id)
          BY <1>1, <1>2, AwaitsTryPack
    <1> HIDE DEF t
    <1>7. Passes(mq', p)
          BY <1>3, <1>4, <1>5, <1>6 DEF Passes
    <1>8. ~held' => t.error = "OK"
          BY <1>3 DEF Abort
    <1> QED BY <1>3, <1>6, <1>7, <1>8

\* Completing what a response acknowledges.
LEMMA CompletePasses ==
    ASSUME Inv, HandledInv, down # <<>>, NEW p, p = Head(down), p.control \in DOMAIN Acknowledges,
           Target(p) # 0
    PROVE  Passes(Complete(mq, Target(p)), p)
    <1>1. QueueOK(mq) /\ mq \in Seq(Packets) /\ Numbered(mq)
          BY DEF Inv, QueueOK, HandledInv
    <1>2. p.control = "PUBREL" => p.id \in Ids /\ p.id # NoId
          <2>1. 1 \in 1..Len(down) /\ p = down[1]
                BY DEF Inv, WireOK
          <2> QED BY <2>1, ClientAssumption DEF HandledInv, NumberedDown, Ids
    <1>3. \A c \in DOMAIN Acknowledges : Acknowledges[c] = "PUBREC" => c = "PUBREL"
          BY DEF Acknowledges
    <1> DEFINE n == Target(p)
    <1>4. /\ n \in 1..Len(mq) /\ mq[n].control = Acknowledges[p.control]
          /\ p.id # NoId => mq[n].id = p.id
          BY <1>1, FindMatch DEF Target
    <1>5. mq[n].control = "PUBREC" => Releases(p, mq[n].id)
          BY <1>2, <1>3, <1>4 DEF Releases
    <1> HIDE DEF n
    <1>6. QueueOK(Complete(mq, n)) /\ Numbered(Complete(mq, n))
          BY <1>1, <1>4, CompleteOK, NumberedComplete
    <1>7. ASSUME NEW id, Awaits(mq, id), ~ Releases(p, id) PROVE Awaits(Complete(mq, n), id)
          BY <1>1, <1>4, <1>5, <1>7, AwaitsComplete
    <1>8. Passes(Complete(mq, n), p)
          BY <1>6, <1>7 DEF Passes
    <1> QED BY <1>8 DEF n

\* A publish of the broker: the callback sees a QoS 2 message only when no
\* PUBREC for it is queued, and with a PUBREC staged.
LEMMA PublishHandled ==
    ASSUME Inv, HandledInv, down # <<>>, NEW p, p = Head(down), OnPublish(p)
    PROVE  HandledInv'
    <1>1. /\ down \in Seq(Answers) /\ 1 \in 1..Len(down) /\ p = down[1] /\ p \in Answers
          /\ QueueOK(mq) /\ mq \in Seq(Packets) /\ Numbered(mq) /\ p.control = "PUBLISH"
          BY DEF Inv, WireOK, QueueOK, HandledInv, OnPublish
    <1>2. p.id \in AnyId /\ p.msg \in DownMsgs
          BY <1>1 DEF HandledInv, Answers
    <1>3. Passes(mq, p)
          BY <1>1 DEF Passes
    <1>4. ASSUME Qos[p.msg] = 2
          PROVE  /\ p.id \in Ids
                 /\ ~ Duplicate(p) => p.msg \notin Range(handled)
          <2> DEFINE o == outgoing[p.msg]
          <2>1. HandshakeOK(p.msg, down, o, Range(handled), mq)
                BY <1>2, <1>4, HandshakeTypes
          <2> HIDE DEF o
          <2>2. Copy(down[1], p.msg)
                BY <1>1 DEF Copy
          <2>3. p.id = o.id /\ o.step # "idle" /\ o.id \in Ids
                BY <1>1, <2>1, <2>2 DEF HandshakeOK
          <2>4. More(p.msg, down, o, 0)
                BY <1>1, <2>2 DEF More
          <2>5. p.msg \in Range(handled) => Awaits(mq, p.id)
                BY <2>1, <2>3, <2>4 DEF HandshakeOK
          <2>6. p.id # NoId
                BY <2>3, ClientAssumption DEF Ids
          <2>7. Awaits(mq, p.id) => Duplicate(p)
                BY <1>1, <2>6, FindMatch DEF Awaits, Duplicate
          <2> QED BY <2>3, <2>5, <2>7
    <1> DEFINE Staged == /\ Passes(mq', p) /\ (Consume \/ \E e : Abort(e))
                         /\ Qos[p.msg] = 2 /\ ~ Duplicate(p) /\ ~held' => Awaits(mq', p.id)
    <1>5. Staged
          <2>1. ASSUME Release(mq), Qos[p.msg] # 2 \/ Duplicate(p) PROVE Staged
                BY <1>3, <2>1 DEF Release
          <2>2. ASSUME Qos[p.msg] = 1, Answer(mq, "PUBACK", p.id) PROVE Staged
                BY <1>2, <1>3, <2>2, AnswerPasses
          <2>3. ASSUME Qos[p.msg] = 2, Answer(mq, "PUBREC", p.id) PROVE Staged
                BY <1>2, <1>3, <1>4, <2>3, AnswerPasses
          <2> QED BY <2>1, <2>2, <2>3 DEF OnPublish
    <1>6. CASE held' \/ (Qos[p.msg] = 2 /\ Duplicate(p))
          <2>1. handled' = handled
                BY <1>6 DEF OnPublish
          <2> QED BY <1>1, <1>5, <2>1, HeadHandled
    <1>7. CASE ~(held' \/ (Qos[p.msg] = 2 /\ Duplicate(p)))
          <2>1. handled' = Append(handled, p.msg)
                BY <1>7 DEF OnPublish
          <2>2. Consume
                BY <1>5, <1>7 DEF Abort
          <2>3. down' = Tail(down) /\ UNCHANGED <<up, outgoing>>
                BY <2>2 DEF Consume, broker
          <2> QED BY <1>1, <1>4, <1>5, <1>7, <2>1, <2>3, HandledConsumes
    <1> QED BY <1>6, <1>7

\* The responses one by one.
LEMMA RecvHandled == ASSUME Inv, HandledInv, Recv PROVE HandledInv'
    <1> DEFINE p == Head(down)
    <1>1. down # <<>> /\ p \in Answers /\ p.id \in AnyId
          BY HeadType DEF Recv, Answers
    <1>2. Passes(mq, p)
          BY DEF Passes, Inv, HandledInv
    <1>3. p.control \in DOMAIN Acknowledges /\ Target(p) # 0 => Passes(Complete(mq, Target(p)), p)
          BY <1>1, CompletePasses
    <1>4. ASSUME handled' = handled, Passes(mq', p), Consume \/ \E e : Abort(e) PROVE HandledInv'
          BY <1>1, <1>4, HeadHandled
    <1>5. CASE OnPublish(p)
          BY <1>1, <1>5, PublishHandled
    <1> HIDE DEF p
    <1>6. ASSUME NEW q, Passes(q, p), Release(q), handled' = handled PROVE HandledInv'
          BY <1>4, <1>6 DEF Release
    <1>7. ASSUME NEW q, Passes(q, p), NEW c \in {"PUBREL", "PUBCOMP"}, Answer(q, c, p.id),
                 handled' = handled
          PROVE  HandledInv'
          BY <1>1, <1>4, <1>7, AnswerPasses
    <1>8. CASE OnConnack(p) \/ OnSuback(p)
          <2>1. p.control \in DOMAIN Acknowledges /\ Target(p) # 0 /\ handled' = handled
                BY <1>8 DEF OnConnack, OnSuback, Acknowledges
          <2>2. \/ Release(Complete(mq, Target(p)))
                \/ mq' = Complete(mq, Target(p)) /\ \E e : Abort(e)
                BY <1>8 DEF OnConnack, OnSuback
          <2> QED BY <1>3, <1>4, <1>6, <2>1, <2>2
    <1>9. CASE OnPuback(p) \/ OnPubcomp(p) \/ OnUnsuback(p) \/ OnPingresp(p)
          <2>1. p.control \in DOMAIN Acknowledges /\ Target(p) # 0 /\ handled' = handled
                BY <1>9 DEF OnPuback, OnPubcomp, OnUnsuback, OnPingresp, Acknowledges
          <2>2. Release(Complete(mq, Target(p)))
                BY <1>9 DEF OnPuback, OnPubcomp, OnUnsuback, OnPingresp
          <2> QED BY <1>3, <1>6, <2>1, <2>2
    <1>10. CASE OnPubrec(p)
          <2>1. p.control \in DOMAIN Acknowledges /\ handled' = handled
                BY <1>10 DEF OnPubrec, Acknowledges
          <2> QED BY <1>2, <1>3, <1>6, <1>7, <1>10, <2>1 DEF OnPubrec
    <1>11. CASE OnPubrel(p)
          <2>1. p.control \in DOMAIN Acknowledges /\ handled' = handled
                BY <1>11 DEF OnPubrel, Acknowledges
          <2> QED BY <1>3, <1>7, <1>11, <2>1 DEF OnPubrel
    <1>12. CASE OnUnusable(p) \/ OnUnknownAck(p)
          BY <1>2, <1>4, <1>12 DEF OnUnusable, OnUnknownAck
    <1> QED BY <1>5, <1>8, <1>9, <1>10, <1>11, <1>12 DEF Recv, p

\* The handshake of m is at o and goes on to u, and r is sent: a copy of m only
\* while m is to be answered, and its PUBREL only when m no longer is.
GoesOn(m, o, u, r) ==
    /\ u.id = o.id /\ (Active(u) => Active(o))
    /\ u.step = "sent" => o.step = "sent"
    /\ u.step = "idle" <=> o.step = "idle"
    /\ Copy(r, m) => o.step = "sent" /\ r.id = o.id
    /\ Releases(r, o.id) => u.step # "sent"

\* A response behind those that are under way.
LEMMA MoreDown ==
    ASSUME Inv, HandledInv, NEW r \in Answers, down' = Append(down, r),
           r.control = "PUBREL" => r.id \in Ids, r.control = "PUBLISH" => r.msg \in DownMsgs
    PROVE  /\ NumberedDown(down)'
           /\ \A k \in 1..Len(down') : down'[k].control = "PUBLISH" => down'[k].msg \in DownMsgs
    <1>1. /\ Len(down) \in Nat /\ Len(down') = Len(down) + 1 /\ down'[Len(down) + 1] = r
          /\ \A k \in 1..Len(down) : down'[k] = down[k]
          BY AppendProperties DEF Inv, WireOK
    <1>2. \A k \in 1..Len(down') : k \in 1..Len(down) \/ k = Len(down) + 1
          BY <1>1
    <1> QED BY <1>1, <1>2 DEF HandledInv, NumberedDown

\* The broker sends r, or nothing, and its handshakes go on.
LEMMA GoOn ==
    ASSUME Inv, HandledInv, UNCHANGED <<mq, handled>>, Numbered(up'), NEW r \in Answers,
           down' = down \/ down' = Append(down, r),
           r.control = "PUBREL" => r.id \in Ids, r.control = "PUBLISH" => r.msg \in DownMsgs,
           \A m \in DownMsgs : GoesOn(m, outgoing[m], outgoing'[m], r)
    PROVE  HandledInv'
    <1>1. ASSUME NEW m \in DownMsgs, Qos[m] = 2
          PROVE  HandshakeOK(m, down', outgoing'[m], Range(handled), mq)
          <2> DEFINE o == outgoing[m]
                     u == outgoing'[m]
          <2>1. HandshakeOK(m, down, o, Range(handled), mq) /\ down \in Seq(Answers)
                BY <1>1, HandshakeTypes
          <2>2. GoesOn(m, o, u, r)
                OBVIOUS
          <2> HIDE DEF o, u
          <2>3. /\ HandshakeOK(m, Append(down, r), u, Range(handled), mq)
                /\ HandshakeOK(m, down, u, Range(handled), mq)
                BY <2>1, <2>2, SendStep DEF GoesOn
          <2> QED BY <2>3 DEF u
    <1>2. ActiveApart(outgoing)'
          BY DEF HandledInv, ActiveApart, GoesOn
    <1>3. /\ NumberedDown(down)'
          /\ \A k \in 1..Len(down') : down'[k].control = "PUBLISH" => down'[k].msg \in DownMsgs
          <2>1. CASE down' = down
                BY <2>1 DEF HandledInv, NumberedDown
          <2>2. CASE down' = Append(down, r)
                BY <2>2, MoreDown
          <2> QED BY <2>1, <2>2
    <1>4. Numbered(mq)' /\ Numbered(up)' /\ handled' \in Seq(DownMsgs) /\ Qos2HandledOnce'
          BY DEF HandledInv, Numbered, Qos2HandledOnce
    <1> QED BY <1>1, <1>2, <1>3, <1>4 DEF HandledInv

\* The broker reads a packet.
LEMMA TakeHandled ==
    ASSUME Inv, HandledInv, UNCHANGED <<client, app>>, up # <<>>, Take(Head(up))
    PROVE  HandledInv'
    <1> DEFINE p == Head(up)
    <1>1. /\ p \in Packets /\ p.id \in AnyId /\ NoId \in AnyId /\ Tail(up) \in Seq(Packets)
          /\ p.control = "PUBREC" => p.id \in Ids
          /\ Numbered(Tail(up))
          <2>1. /\ up \in Seq(Packets) /\ p = up[1] /\ 1 \in 1..Len(up) /\ Tail(up) \in Seq(Packets)
                /\ Len(Tail(up)) = Len(up) - 1 /\ Len(up) \in Nat
                /\ \A i \in 1..Len(Tail(up)) : Tail(up)[i] = up[i + 1] /\ i + 1 \in 1..Len(up)
                BY DEF Inv, WireOK
          <2>2. up[1] \in Packets
                BY <2>1, ElementOfSeq
          <2>3. Numbered(Tail(up)) /\ (up[1].control = "PUBREC" => up[1].id \in Ids)
                BY <2>1 DEF HandledInv, Numbered
          <2> QED BY <2>1, <2>2, <2>3 DEF Packets, AnyId
    <1>2. UNCHANGED <<mq, handled>>
          BY DEF client, app
    <1> HIDE DEF p
    <1>3. \A m \in DownMsgs : outgoing[m] \in [step : Steps, id : AnyId]
          BY DEF Inv, WireOK
    <1>4. ASSUME NEW r \in Answers, r.control \notin {"PUBLISH", "PUBREL"}, outgoing' = outgoing,
                 up' = Tail(up), down' = down \/ down' = Append(down, r)
          PROVE  HandledInv'
          <2>1. \A m \in DownMsgs : GoesOn(m, outgoing[m], outgoing'[m], r)
                BY <1>4 DEF GoesOn, Copy, Releases
          <2> QED BY <1>1, <1>2, <1>4, <2>1, GoOn
    <1>5. ASSUME NEW c \in Responses \ {"PUBLISH", "PUBREL"}, NEW id \in AnyId, Reply(c, id),
                 outgoing' = outgoing
          PROVE  HandledInv'
          <2>1. Response(c, id, NoMsg) \in Answers /\ Response(c, id, NoMsg).control = c
                BY DEF Response, Answers
          <2> QED BY <1>4, <1>5, <2>1 DEF Reply
    <1>6. CASE p.control = "CONNECT" /\ (Reply("CONNACK", NoId) \/ Reply("REFUSED", NoId))
               /\ outgoing' = outgoing
          BY <1>1, <1>5, <1>6 DEF Responses
    <1>7. CASE p.control = "PUBLISH" /\ outgoing' = outgoing
               /\ IF Qos[p.msg] = 0 THEN down' = down /\ up' = Tail(up) /\ open' = open
                  ELSE Reply(IF Qos[p.msg] = 1 THEN "PUBACK" ELSE "PUBREC", p.id)
          <2>1. CASE Qos[p.msg] = 0
                <3>1. /\ Response("CONNACK", NoId, NoMsg) \in Answers
                      /\ Response("CONNACK", NoId, NoMsg).control = "CONNACK"
                      BY <1>1 DEF Response, Answers, Responses
                <3> QED BY <1>4, <1>7, <2>1, <3>1
          <2>2. CASE Qos[p.msg] # 0
                BY <1>1, <1>5, <1>7, <2>2 DEF Responses
          <2> QED BY <2>1, <2>2
    <1>8. CASE p.control = "PUBREL" /\ Reply("PUBCOMP", p.id) /\ outgoing' = outgoing
          BY <1>1, <1>5, <1>8 DEF Responses
    <1>9. CASE p.control = "PUBREC" /\ Advance(p.id, {"sent"}, "release") /\ Reply("PUBREL", p.id)
          <2> DEFINE r == Response("PUBREL", p.id, NoMsg)
          <2>1. /\ r \in Answers /\ r.control = "PUBREL" /\ r.id = p.id
                /\ down' = Append(down, r) /\ up' = Tail(up)
                BY <1>1, <1>9 DEF Response, Answers, Responses, Reply
          <2> HIDE DEF r
          <2>2. ASSUME NEW m \in DownMsgs PROVE GoesOn(m, outgoing[m], outgoing'[m], r)
                <3>1. outgoing'[m] = IF outgoing[m].id = p.id /\ outgoing[m].step \in {"sent"}
                                     THEN [outgoing[m] EXCEPT !.step = "release"] ELSE outgoing[m]
                      BY <1>9 DEF Advance
                <3> QED BY <1>3, <2>1, <3>1 DEF GoesOn, Copy, Releases, Active
          <2> QED BY <1>1, <1>2, <1>9, <2>1, <2>2, GoOn
    <1>10. CASE /\ Advance(p.id, IF p.control = "PUBACK" THEN {"sent"} ELSE {"release"}, "done")
                /\ up' = Tail(up) /\ down' = down
          <2> DEFINE r == Response("CONNACK", NoId, NoMsg)
          <2>1. r \in Answers /\ r.control = "CONNACK"
                BY <1>1 DEF Response, Answers, Responses
          <2> HIDE DEF r
          <2>2. ASSUME NEW m \in DownMsgs PROVE GoesOn(m, outgoing[m], outgoing'[m], r)
                <3> DEFINE from == IF p.control = "PUBACK" THEN {"sent"} ELSE {"release"}
                <3>1. outgoing'[m] = IF outgoing[m].id = p.id /\ outgoing[m].step \in from
                                     THEN [outgoing[m] EXCEPT !.step = "done"] ELSE outgoing[m]
                      BY <1>10 DEF Advance
                <3> QED BY <1>3, <2>1, <3>1 DEF GoesOn, Copy, Releases, Active
          <2> QED BY <1>1, <1>2, <1>10, <2>1, <2>2, GoOn
    <1>11. CASE /\ outgoing' = outgoing
                /\ \/ Reply("SUBACK", p.id) \/ Reply("SUBFAIL", p.id) \/ Reply("UNSUBACK", p.id)
                   \/ Reply("PINGRESP", NoId)
          BY <1>1, <1>5, <1>11 DEF Responses
    <1>12. Take(p)
          BY DEF p
    <1> QED BY <1>6, <1>7, <1>8, <1>9, <1>10, <1>11, <1>12 DEF Take

\* The connection is closed.
LEMMA CloseHandled ==
    ASSUME Inv, HandledInv, UNCHANGED <<client, app>>, Close PROVE HandledInv'
    <1>1. /\ up' = <<>> /\ UNCHANGED <<mq, handled, down, outgoing>>
          BY DEF client, app, Close
    <1>2. Len(up') = 0
          BY <1>1
    <1>3. Numbered(mq') /\ Numbered(up') /\ \A id : Awaits(mq, id) => Awaits(mq', id)
          BY <1>1, <1>2 DEF HandledInv, Numbered
    <1> QED BY <1>1, <1>3, HandledKeeps

\* A message of the broker begins a handshake under an identifier of its own.
LEMMA PublishesHandled ==
    ASSUME Inv, HandledInv, NEW m \in DownMsgs, BrokerPublishes(m) PROVE HandledInv'
    <1>1. /\ down \in Seq(Answers) /\ outgoing \in [DownMsgs -> [step : Steps, id : AnyId]]
          /\ UNCHANGED <<mq, up, handled>> /\ outgoing[m].step = "idle"
          BY DEF Inv, WireOK, BrokerPublishes, client, app
    <1>2. PICK id \in IF Qos[m] = 0 THEN {NoId}
                       ELSE {i \in BrokerIds : \A n \in DownMsgs :
                               outgoing[n].id = i => outgoing[n].step \in {"done", "lost"}} :
             /\ outgoing' = [outgoing EXCEPT ![m] =
                     [step |-> IF Qos[m] = 0 THEN "done" ELSE "sent", id |-> id]]
             /\ \E kind \in {"PUBLISH", "TOOBIG", "MALFORMED"} :
                   down' = Append(down, Response(kind, id, m))
          BY DEF BrokerPublishes
    <1>3. PICK kind \in {"PUBLISH", "TOOBIG", "MALFORMED"} :
             down' = Append(down, Response(kind, id, m))
          BY <1>2
    <1>4. /\ id \in AnyId
          /\ Qos[m] # 0 => id \in Ids /\ \A n \in DownMsgs : outgoing[n].id = id => ~ Active(outgoing[n])
          BY <1>2, ClientAssumption DEF AnyId, Ids, Active
    <1>5. /\ outgoing'[m] = [step |-> IF Qos[m] = 0 THEN "done" ELSE "sent", id |-> id]
          /\ \A n \in DownMsgs : n # m => outgoing'[n] = outgoing[n]
          BY <1>1, <1>2
    <1> DEFINE r == Response(kind, id, m)
    <1>6. /\ r \in Answers /\ r.control # "PUBREL" /\ r.msg = m /\ r.id = id
          /\ down' = Append(down, r)
          BY <1>3, <1>4 DEF Response, Answers, Responses
    <1> HIDE DEF r
    <1>7. ASSUME NEW n \in DownMsgs, Qos[n] = 2
          PROVE  HandshakeOK(n, down', outgoing'[n], Range(handled), mq)
          <2>1. HandshakeOK(n, down, outgoing[n], Range(handled), mq)
                BY <1>7, HandshakeTypes
          <2>2. CASE n = m
                <3>1. outgoing'[m] = [step |-> "sent", id |-> id] /\ id \in Ids
                      BY <1>4, <1>5, <1>7, <2>2
                <3>2. HandshakeOK(m, Append(down, r), [step |-> "sent", id |-> id], Range(handled), mq)
                      BY <1>1, <1>6, <2>1, <2>2, <3>1, BeginStep
                <3> QED BY <1>6, <2>2, <3>1, <3>2
          <2>3. CASE n # m
                <3>1. outgoing'[n] = outgoing[n] /\ ~ Copy(r, n) /\ ~ Releases(r, outgoing[n].id)
                      BY <1>5, <1>6, <2>3 DEF Copy, Releases
                <3>2. HandshakeOK(n, Append(down, r), outgoing[n], Range(handled), mq)
                      BY <1>1, <1>6, <2>1, <3>1, SendStep
                <3> QED BY <1>6, <3>1, <3>2
          <2> QED BY <2>2, <2>3
    <1>8. ActiveApart(outgoing')
          <2>1. ASSUME NEW n \in DownMsgs, n # m, Active(outgoing'[n]), Active(outgoing'[m])
                PROVE  outgoing'[n].id # outgoing'[m].id
                <3>1. Qos[m] # 0
                      BY <1>5, <2>1 DEF Active
                <3> QED BY <1>4, <1>5, <2>1, <3>1
          <2>2. \A n, k \in DownMsgs : n # m /\ k # m /\ Active(outgoing'[n]) /\ Active(outgoing'[k])
                   /\ outgoing'[n].id = outgoing'[k].id => n = k
                BY <1>5 DEF HandledInv, ActiveApart
          <2> QED BY <2>1, <2>2 DEF ActiveApart
    <1>9. /\ NumberedDown(down)'
          /\ \A k \in 1..Len(down') : down'[k].control = "PUBLISH" => down'[k].msg \in DownMsgs
          BY <1>6, MoreDown
    <1>10. /\ Numbered(mq)' /\ Numbered(up)' /\ handled' \in Seq(DownMsgs) /\ Qos2HandledOnce'
           /\ ActiveApart(outgoing)'
          BY <1>1, <1>8 DEF HandledInv, Numbered, Qos2HandledOnce, ActiveApart, Active
    <1> QED BY <1>1, <1>7, <1>9, <1>10 DEF HandledInv

\* The broker repeats its PUBLISH, or its PUBREL.
LEMMA RepeatsHandled ==
    ASSUME Inv, HandledInv, NEW m \in DownMsgs, BrokerRepeats(m) PROVE HandledInv'
    <1> DEFINE o == outgoing[m]
    <1>1. /\ UNCHANGED <<mq, up, handled, outgoing>> /\ Qos[m] = 2
          BY DEF BrokerRepeats, client, app, broker
    <1>2. HandshakeOK(m, down, o, Range(handled), mq) /\ o \in [step : Steps, id : AnyId]
          BY <1>1, HandshakeTypes
    <1>3. Numbered(up') /\ o.id \in AnyId /\ (o.step # "idle" => o.id \in Ids)
          BY <1>1, <1>2 DEF HandshakeOK, HandledInv
    <1>4. ASSUME NEW r \in Answers, down' = Append(down, r), r.id = o.id,
                 \/ o.step = "sent" /\ r.control = "PUBLISH" /\ r.msg = m
                 \/ o.step = "release" /\ r.control = "PUBREL"
          PROVE  HandledInv'
          <2>1. ASSUME NEW n \in DownMsgs PROVE GoesOn(n, outgoing[n], outgoing'[n], r)
                <3>1. o.step = "release" /\ outgoing[n].step = "sent" => o.id # outgoing[n].id
                      BY DEF HandledInv, ActiveApart, Active
                <3> QED BY <1>1, <1>4, <3>1 DEF GoesOn, Copy, Releases
          <2> QED BY <1>1, <1>3, <1>4, <2>1, GoOn
    <1>5. /\ Response("PUBLISH", o.id, m) \in Answers
          /\ Response("PUBREL", o.id, NoMsg) \in Answers
          BY <1>3 DEF Response, Answers, Responses
    <1> QED BY <1>4, <1>5 DEF BrokerRepeats, Response

\* Every step keeps the handshakes in order.
LEMMA NextHandled == Inv /\ HandledInv /\ [Next]_vars => HandledInv'
    <1> SUFFICES ASSUME Inv, HandledInv, [Next]_vars PROVE HandledInv'
        OBVIOUS
    <1>1. CASE BrokerTakes
          BY <1>1, CloseHandled, TakeHandled DEF BrokerTakes
    <1>2. CASE BrokerCloses
          BY <1>2, CloseHandled DEF BrokerCloses
    <1>3. CASE UNCHANGED vars
          <2>1. UNCHANGED <<mq, up, down, handled, outgoing>>
                BY <1>3 DEF vars, client, connection, broker, app
          <2>2. Numbered(mq') /\ Numbered(up') /\ \A id : Awaits(mq, id) => Awaits(mq', id)
                BY <2>1 DEF HandledInv
          <2> QED BY <2>1, <2>2, HandledKeeps
    <1> QED BY <1>1, <1>2, <1>3, CallHandled, SyncHandled, RecvHandled, SendHandled,
               PublishesHandled, RepeatsHandled DEF Next

\* publish_response_callback is called at most once for each QoS 2 message of the
\* broker, whatever is repeated, times out or fails, and though an identifier is
\* used again for the next message: the test for a queued PUBREC is enough.
THEOREM Qos2HandledAtMostOnce == Spec => []Qos2HandledOnce
    <1>1. HandledInv => Qos2HandledOnce
          BY DEF HandledInv
    <1>2. Init => Inv /\ HandledInv
          BY InitInv, InitHandled
    <1>3. (Inv /\ HandledInv) /\ [Next]_vars => (Inv /\ HandledInv)'
          BY NextInv, NextHandled
    <1> QED BY <1>1, <1>2, <1>3, PTL DEF Spec

-----------------------------------------------------------------------------
(* Sending with QoS 2: what the broker passes on, what is on its way to it  *)
(* and what is queued follow one another in the order of mqtt_publish.      *)

\* The place of a message in the order in which it was published.
Place(pub, m) == Min({x \in 1..Len(pub) : pub[x] = m})

\* A PUBLISH of the QoS 2 message m under id may come at place j of the packets u,
\* after those before j and after what was passed on, del: no later message is
\* among them, and if m is, then under that identifier and with no PUBREL for it
\* since, so that the broker, with the identifiers inc, sees a copy.
Follows(u, j, m, id, del, inc, pub) ==
    /\ \A i \in 1..Len(u) : i < j /\ IsPublish(u[i], 2) =>
          /\ Place(pub, u[i].msg) <= Place(pub, m)
          /\ u[i].msg = m =>
                u[i].id = id /\ \A k \in 1..Len(u) : i < k /\ k < j => ~ Releases(u[k], id)
    /\ \A d \in Range(del) : Qos[d] = 2 =>
          /\ Place(pub, d) <= Place(pub, m)
          /\ d = m => id \in inc /\ \A k \in 1..Len(u) : k < j => ~ Releases(u[k], id)

\* The packets on their way to the broker.
WireOrder(u, del, inc, pub) ==
    /\ \A j \in 1..Len(u) : u[j].control = "PUBLISH" => u[j].msg \in Range(pub)
    /\ \A j \in 1..Len(u) :
          IsPublish(u[j], 2) => Follows(u, j, u[j].msg, u[j].id, del, inc, pub)

\* The queue; u are the packets on their way.  A PUBLISH whose PUBREL is queued
\* is complete.
QueueOrder(q, u, del, inc, pub) ==
    /\ \A i \in 1..Len(q) : q[i].control = "PUBLISH" => q[i].msg \in Range(pub) /\ q[i].id \in Ids
    /\ \A i, j \in 1..Len(q) :
          i < j /\ IsPublish(q[i], 2) /\ IsPublish(q[j], 2) =>
              Place(pub, q[i].msg) < Place(pub, q[j].msg)
    /\ \A i, j \in 1..Len(q) :
          q[j].control = "PUBLISH" /\ Releases(q[i], q[j].id) => q[j].state = "COMPLETE"
    /\ \A n \in 1..Len(q) :
          Unfinished(q[n]) => Follows(u, Len(u) + 1, q[n].msg, q[n].id, del, inc, pub)

\* What the broker has passed on.
SeenOrder(del, pub) ==
    /\ del \in Seq(UpMsgs) /\ Range(del) \subseteq Range(pub)
    /\ \A j, k \in 1..Len(del) :
          j < k /\ Qos[del[j]] = 2 /\ Qos[del[k]] = 2 => Place(pub, del[j]) < Place(pub, del[k])

OrderInv ==
    /\ published \in Seq(UpMsgs)
    /\ SeenOrder(delivered, published)
    /\ WireOrder(up, delivered, incoming, published)
    /\ QueueOrder(mq, up, delivered, incoming, published)

\* A published message has a place.
LEMMA PlaceFacts ==
    ASSUME NEW pub \in Seq(UpMsgs), NEW m \in Range(pub)
    PROVE  Place(pub, m) \in 1..Len(pub) /\ pub[Place(pub, m)] = m
    <1> DEFINE S == {x \in 1..Len(pub) : pub[x] = m}
    <1>1. S \subseteq Nat /\ S # {}
          BY DEF Range
    <1>2. Place(pub, m) = Min(S)
          BY DEF Place
    <1>3. Min(S) \in S
          <2> HIDE DEF S
          <2> QED BY <1>1, MinFacts
    <1> QED BY <1>2, <1>3

\* Publishing another leaves the places of the earlier ones.
LEMMA PlaceAppend ==
    ASSUME NEW pub \in Seq(UpMsgs), NEW x \in UpMsgs, x \notin Range(pub)
    PROVE  /\ Append(pub, x) \in Seq(UpMsgs)
           /\ Range(Append(pub, x)) = Range(pub) \cup {x}
           /\ \A m \in Range(pub) : Place(Append(pub, x), m) = Place(pub, m)
           /\ \A m \in Range(pub) : Place(Append(pub, x), m) < Place(Append(pub, x), x)
    <1> DEFINE a == Append(pub, x)
    <1>1. /\ Len(pub) \in Nat /\ Len(a) = Len(pub) + 1 /\ a[Len(pub) + 1] = x /\ a \in Seq(UpMsgs)
          /\ \A i \in 1..Len(pub) : a[i] = pub[i]
          BY AppendProperties
    <1>2. /\ Range(a) = {a[i] : i \in 1..Len(a)} /\ Range(pub) = {pub[i] : i \in 1..Len(pub)}
          <2>1. DOMAIN a = 1..Len(a) /\ DOMAIN pub = 1..Len(pub)
                BY <1>1
          <2> QED BY <2>1 DEF Range
    <1> HIDE DEF a
    <1>3. 1..Len(a) = (1..Len(pub)) \cup {Len(pub) + 1}
          BY <1>1
    <1>4. Range(a) = Range(pub) \cup {x}
          BY <1>1, <1>2, <1>3
    <1>5. ASSUME NEW m \in Range(pub) PROVE Place(a, m) = Place(pub, m)
          <2>1. {y \in 1..Len(a) : a[y] = m} = {y \in 1..Len(pub) : pub[y] = m}
                BY <1>1, <1>3
          <2> QED BY <2>1 DEF Place
    <1>6. ASSUME NEW m \in Range(pub) PROVE Place(a, m) < Place(a, x)
          <2>1. Place(pub, m) \in 1..Len(pub)
                BY PlaceFacts
          <2>2. Place(a, x) \in 1..Len(a) /\ a[Place(a, x)] = x
                BY <1>1, <1>4, PlaceFacts
          <2>3. Place(a, x) \notin 1..Len(pub)
                BY <1>1, <1>2, <2>2
          <2> QED BY <1>1, <1>5, <2>1, <2>2, <2>3
    <1> QED BY <1>1, <1>4, <1>5, <1>6 DEF a

-----------------------------------------------------------------------------
(* Packets on their way.                                                   *)

\* The broker reads the first packet.
LEMMA FollowsTail ==
    ASSUME NEW u \in Seq(Packets), u # <<>>, NEW j \in 2 .. Len(u) + 1, NEW m, NEW id, NEW del,
           NEW inc, NEW pub, NEW del2, NEW inc2, Follows(u, j, m, id, del, inc, pub),
           \/ /\ IsPublish(u[1], 2) /\ inc2 = inc \cup {u[1].id}
              /\ \A d \in Range(del2) : d \in Range(del) \/ d = u[1].msg
           \/ /\ inc2 = inc \/ (u[1].control = "PUBREL" /\ inc2 = inc \ {u[1].id})
              /\ \A d \in Range(del2) : Qos[d] = 2 => d \in Range(del)
    PROVE  Follows(Tail(u), j - 1, m, id, del2, inc2, pub)
    <1> DEFINE t == Tail(u)
    <1>1. /\ Len(u) \in Nat /\ 1 \in 1..Len(u) /\ 1 < j /\ Len(t) = Len(u) - 1 /\ t \in Seq(Packets)
          /\ \A i \in 1..Len(t) : t[i] = u[i + 1] /\ i + 1 \in 1..Len(u)
          BY DEF Packets
    <1> HIDE DEF t
    <1>2. ASSUME NEW i \in 1..Len(t), i < j - 1, IsPublish(t[i], 2)
          PROVE  /\ Place(pub, t[i].msg) <= Place(pub, m)
                 /\ t[i].msg = m =>
                      t[i].id = id /\ \A k \in 1..Len(t) : i < k /\ k < j - 1 => ~ Releases(t[k], id)
          <2>1. /\ i + 1 \in 1..Len(u) /\ i + 1 < j /\ IsPublish(u[i + 1], 2) /\ t[i] = u[i + 1]
                BY <1>1, <1>2
          <2>2. /\ Place(pub, u[i + 1].msg) <= Place(pub, m)
                /\ u[i + 1].msg = m =>
                      u[i + 1].id = id
                      /\ \A k \in 1..Len(u) : i + 1 < k /\ k < j => ~ Releases(u[k], id)
                BY <2>1 DEF Follows
          <2>3. \A k \in 1..Len(t) : i < k /\ k < j - 1 =>
                   k + 1 \in 1..Len(u) /\ i + 1 < k + 1 /\ k + 1 < j /\ t[k] = u[k + 1]
                BY <1>1
          <2> QED BY <2>1, <2>2, <2>3
    <1>3. \A k \in 1..Len(t) : k < j - 1 => k + 1 \in 1..Len(u) /\ 1 < k + 1 /\ k + 1 < j /\ t[k] = u[k + 1]
          BY <1>1
    <1>4. ASSUME NEW d \in Range(del2), Qos[d] = 2, d \in Range(del),
                 \A x \in inc : x \in inc2 \/ Releases(u[1], x)
          PROVE  /\ Place(pub, d) <= Place(pub, m)
                 /\ d = m => id \in inc2 /\ \A k \in 1..Len(t) : k < j - 1 => ~ Releases(t[k], id)
          <2>1. /\ Place(pub, d) <= Place(pub, m)
                /\ d = m => id \in inc /\ \A k \in 1..Len(u) : k < j => ~ Releases(u[k], id)
                BY <1>4 DEF Follows
          <2>2. d = m => ~ Releases(u[1], id)
                BY <1>1, <2>1
          <2> QED BY <1>3, <1>4, <2>1, <2>2
    <1>5. CASE /\ IsPublish(u[1], 2) /\ inc2 = inc \cup {u[1].id}
               /\ \A d \in Range(del2) : d \in Range(del) \/ d = u[1].msg
          <2>1. /\ Place(pub, u[1].msg) <= Place(pub, m)
                /\ u[1].msg = m =>
                      u[1].id = id /\ \A k \in 1..Len(u) : 1 < k /\ k < j => ~ Releases(u[k], id)
                BY <1>1, <1>5 DEF Follows
          <2>2. ASSUME NEW d \in Range(del2), Qos[d] = 2, d = u[1].msg
                PROVE  /\ Place(pub, d) <= Place(pub, m)
                       /\ d = m => id \in inc2 /\ \A k \in 1..Len(t) : k < j - 1 => ~ Releases(t[k], id)
                BY <1>3, <1>5, <2>1, <2>2
          <2>3. \A x \in inc : x \in inc2
                BY <1>5
          <2> QED BY <1>2, <1>4, <1>5, <2>2, <2>3 DEF Follows, t
    <1>6. CASE /\ inc2 = inc \/ (u[1].control = "PUBREL" /\ inc2 = inc \ {u[1].id})
               /\ \A d \in Range(del2) : Qos[d] = 2 => d \in Range(del)
          <2>1. \A x \in inc : x \in inc2 \/ Releases(u[1], x)
                BY <1>6 DEF Releases
          <2> QED BY <1>2, <1>4, <1>6, <2>1 DEF Follows, t
    <1> QED BY <1>5, <1>6

\* More packets are sent.
LEMMA FollowsExtend ==
    ASSUME NEW u \in Seq(Packets), NEW s \in Seq(Packets), NEW m, NEW id, NEW del, NEW inc, NEW pub
    PROVE  /\ \A j \in 1..Len(u) : Follows(u, j, m, id, del, inc, pub) =>
                 Follows(u \o s, j, m, id, del, inc, pub)
           /\ /\ Follows(u, Len(u) + 1, m, id, del, inc, pub)
              /\ \A t \in 1..Len(s) :
                    /\ ~ Releases(s[t], id)
                    /\ IsPublish(s[t], 2) =>
                          Place(pub, s[t].msg) <= Place(pub, m) /\ (s[t].msg = m => s[t].id = id)
              => \A j \in Len(u) + 1 .. Len(u) + Len(s) + 1 :
                    Follows(u \o s, j, m, id, del, inc, pub)
    <1> DEFINE c == u \o s
    <1>1. /\ Len(u) \in Nat /\ Len(s) \in Nat /\ Len(c) = Len(u) + Len(s)
          /\ \A i \in 1..Len(c) : c[i] = IF i <= Len(u) THEN u[i] ELSE s[i - Len(u)]
          BY ConcatProperties
    <1> HIDE DEF c
    <1>2. /\ \A i \in 1..Len(u) : i \in 1..Len(c) /\ c[i] = u[i]
          /\ \A i \in 1..Len(c) : \/ i \in 1..Len(u)
                                  \/ Len(u) < i /\ i - Len(u) \in 1..Len(s) /\ c[i] = s[i - Len(u)]
          BY <1>1
    <1>3. ASSUME NEW j \in 1..Len(u), Follows(u, j, m, id, del, inc, pub)
          PROVE  Follows(c, j, m, id, del, inc, pub)
          <2>1. \A i \in 1..Len(c) : i < j => i \in 1..Len(u) /\ c[i] = u[i]
                BY <1>1
          <2> QED BY <1>3, <2>1 DEF Follows
    <1>4. ASSUME Follows(u, Len(u) + 1, m, id, del, inc, pub),
                 \A t \in 1..Len(s) :
                    /\ ~ Releases(s[t], id)
                    /\ IsPublish(s[t], 2) =>
                          Place(pub, s[t].msg) <= Place(pub, m) /\ (s[t].msg = m => s[t].id = id),
                 NEW j \in Len(u) + 1 .. Len(u) + Len(s) + 1
          PROVE  Follows(c, j, m, id, del, inc, pub)
          <2>1. \A i \in 1..Len(u) : i < Len(u) + 1
                BY <1>1
          <2>2. ASSUME NEW i \in 1..Len(c), i < j, IsPublish(c[i], 2)
                PROVE  /\ Place(pub, c[i].msg) <= Place(pub, m)
                       /\ c[i].msg = m =>
                            c[i].id = id /\ \A k \in 1..Len(c) : i < k /\ k < j => ~ Releases(c[k], id)
                <3>1. CASE i \in 1..Len(u)
                      <4>1. /\ Place(pub, u[i].msg) <= Place(pub, m)
                            /\ u[i].msg = m =>
                                  u[i].id = id /\ \A k \in 1..Len(u) : i < k => ~ Releases(u[k], id)
                            BY <1>2, <1>4, <2>1, <2>2, <3>1 DEF Follows
                      <4> QED BY <1>2, <1>4, <3>1, <4>1
                <3>2. CASE Len(u) < i /\ i - Len(u) \in 1..Len(s) /\ c[i] = s[i - Len(u)]
                      <4>1. \A k \in 1..Len(c) : i < k => ~ Releases(c[k], id)
                            <5> SUFFICES ASSUME NEW k \in 1..Len(c), i < k PROVE ~ Releases(c[k], id)
                                OBVIOUS
                            <5>1. k \notin 1..Len(u)
                                  BY <1>1, <3>2
                            <5> QED BY <1>2, <1>4, <5>1
                      <4> QED BY <1>4, <2>2, <3>2, <4>1
                <3> QED BY <1>2, <3>1, <3>2
          <2>3. ASSUME NEW d \in Range(del), Qos[d] = 2
                PROVE  /\ Place(pub, d) <= Place(pub, m)
                       /\ d = m => id \in inc /\ \A k \in 1..Len(c) : ~ Releases(c[k], id)
                <3>1. /\ Place(pub, d) <= Place(pub, m)
                      /\ d = m => id \in inc /\ \A k \in 1..Len(u) : ~ Releases(u[k], id)
                      BY <1>4, <2>1, <2>3 DEF Follows
                <3> QED BY <1>2, <1>4, <3>1
          <2> QED BY <2>2, <2>3 DEF Follows
    <1> QED BY <1>3, <1>4 DEF c

\* A message is published.
LEMMA FollowsPublish ==
    ASSUME NEW pub \in Seq(UpMsgs), NEW x \in UpMsgs, x \notin Range(pub), NEW u, NEW j, NEW id,
           NEW del, NEW inc, Range(del) \subseteq Range(pub),
           \A i \in 1..Len(u) : IsPublish(u[i], 2) => u[i].msg \in Range(pub)
    PROVE  /\ \A m \in Range(pub) : Follows(u, j, m, id, del, inc, pub) =>
                 Follows(u, j, m, id, del, inc, Append(pub, x))
           /\ Follows(u, j, x, id, del, inc, Append(pub, x))
    <1> DEFINE a == Append(pub, x)
    <1>1. /\ \A m \in Range(pub) : Place(a, m) = Place(pub, m)
          /\ \A m \in Range(pub) : Place(a, m) < Place(a, x)
          BY PlaceAppend
    <1>2. \A m \in Range(pub) \cup {x} : Place(a, m) \in Int
          <2>1. a \in Seq(UpMsgs) /\ Range(a) = Range(pub) \cup {x}
                BY PlaceAppend
          <2> HIDE DEF a
          <2>2. \A m \in Range(a) : Place(a, m) \in 1..Len(a)
                BY <2>1, PlaceFacts
          <2> QED BY <2>1, <2>2
    <1> HIDE DEF a
    <1>3. ASSUME NEW m \in Range(pub), Follows(u, j, m, id, del, inc, pub)
          PROVE  Follows(u, j, m, id, del, inc, a)
          BY <1>1, <1>3 DEF Follows
    <1>4. Follows(u, j, x, id, del, inc, a)
          <2>1. \A m \in Range(pub) : m # x /\ Place(a, m) <= Place(a, x)
                BY <1>1, <1>2
          <2> QED BY <2>1 DEF Follows
    <1> QED BY <1>3, <1>4 DEF a

-----------------------------------------------------------------------------
(* The queue and the order of its messages.                                *)

\* mqtt_mq_clean leaves the queue from some place on.
LEMMA CleanSuffix ==
    ASSUME NEW q, QueueOK(q)
    PROVE  \E k \in Nat : /\ Len(mq_clean(q)) + k = Len(q)
                          /\ \A i \in 1..Len(mq_clean(q)) : mq_clean(q)[i] = q[i + k]
    <1> DEFINE left_over == {n \in 1..Len(q) : ~ Finished(q[n])}
    <1>1. left_over \subseteq 1..Len(q) /\ left_over \subseteq Nat /\ Len(q) \in Nat /\ q \in Seq(Packets)
          BY DEF QueueOK
    <1>2. mq_clean(q) = IF left_over = {} THEN <<>> ELSE SubSeq(q, Min(left_over), Len(q))
          BY DEF mq_clean
    <1> HIDE DEF left_over
    <1>3. CASE left_over = {}
          <2>1. Len(mq_clean(q)) = 0
                BY <1>2, <1>3
          <2> QED BY <1>1, <2>1
    <1>4. CASE left_over # {}
          <2> DEFINE k == Min(left_over)
          <2>1. k \in 1..Len(q) /\ k \in Nat
                BY <1>1, <1>4, MinFacts
          <2>2. mq_clean(q) = SubSeq(q, k, Len(q))
                BY <1>2, <1>4
          <2> HIDE DEF k
          <2>3. \A n \in 1..Len(q) : q[n] \in Packets
                BY <1>1, ElementOfSeq
          <2>4. /\ Len(mq_clean(q)) = Len(q) + 1 - k
                /\ \A n \in 1 .. Len(q) + 1 - k : mq_clean(q)[n] = q[n + k - 1]
                BY <1>1, <2>1, <2>2, <2>3, SubSeqProperties
          <2>5. k - 1 \in Nat /\ Len(mq_clean(q)) + (k - 1) = Len(q)
                BY <1>1, <2>1, <2>4
          <2>6. \A n \in 1..Len(mq_clean(q)) : n + k - 1 = n + (k - 1)
                BY <2>1
          <2> QED BY <2>4, <2>5, <2>6
    <1> QED BY <1>3, <1>4

\* What mq becomes when a call or a response changes states or drops its front.
SameMessage(a, b) ==
    /\ a.control = b.control /\ a.id = b.id /\ a.msg = b.msg
    /\ b.state = "COMPLETE" => a.state = "COMPLETE"

\* Such changes leave the order of the queue.
LEMMA QueueShift ==
    ASSUME NEW q \in Seq(Packets), NEW r \in Seq(Packets), NEW k \in Nat, Len(r) + k = Len(q),
           \A i \in 1..Len(r) : SameMessage(r[i], q[i + k]),
           NEW u, NEW del, NEW inc, NEW pub, QueueOrder(q, u, del, inc, pub)
    PROVE  QueueOrder(r, u, del, inc, pub)
    <1>1. \A i \in 1..Len(r) : i + k \in 1..Len(q)
          <2>1. Len(r) \in Nat /\ Len(q) \in Nat
                OBVIOUS
          <2> QED BY <2>1
    <1>2. \A i \in 1..Len(r) : r[i].control = "PUBLISH" => r[i].msg \in Range(pub) /\ r[i].id \in Ids
          BY <1>1 DEF QueueOrder, SameMessage
    <1>3. \A i, j \in 1..Len(r) :
             i < j /\ IsPublish(r[i], 2) /\ IsPublish(r[j], 2) =>
                 Place(pub, r[i].msg) < Place(pub, r[j].msg)
          <2> SUFFICES ASSUME NEW i \in 1..Len(r), NEW j \in 1..Len(r), i < j,
                              IsPublish(r[i], 2), IsPublish(r[j], 2)
                       PROVE  Place(pub, r[i].msg) < Place(pub, r[j].msg)
              OBVIOUS
          <2>1. SameMessage(r[i], q[i + k]) /\ SameMessage(r[j], q[j + k])
                OBVIOUS
          <2>2. IsPublish(q[i + k], 2) /\ IsPublish(q[j + k], 2)
                BY <2>1 DEF SameMessage, IsPublish
          <2>3. i + k < j + k
                <3>1. Len(r) \in Nat
                      OBVIOUS
                <3> QED BY <3>1
          <2>4. Place(pub, q[i + k].msg) < Place(pub, q[j + k].msg)
                BY <1>1, <2>2, <2>3 DEF QueueOrder
          <2> QED BY <2>1, <2>4 DEF SameMessage
    <1>4. \A i, j \in 1..Len(r) :
             r[j].control = "PUBLISH" /\ Releases(r[i], r[j].id) => r[j].state = "COMPLETE"
          BY <1>1 DEF QueueOrder, SameMessage, Releases
    <1>5. \A n \in 1..Len(r) :
             Unfinished(r[n]) => Follows(u, Len(u) + 1, r[n].msg, r[n].id, del, inc, pub)
          <2> SUFFICES ASSUME NEW n \in 1..Len(r), Unfinished(r[n])
                       PROVE  Follows(u, Len(u) + 1, r[n].msg, r[n].id, del, inc, pub)
              OBVIOUS
          <2>1. Unfinished(q[n + k]) /\ r[n].msg = q[n + k].msg /\ r[n].id = q[n + k].id
                BY DEF SameMessage, Unfinished, IsPublish
          <2> QED BY <1>1, <2>1 DEF QueueOrder
    <1> QED BY <1>2, <1>3, <1>4, <1>5 DEF QueueOrder

\* A message that may be staged: a PUBREL when the PUBLISH is complete, a PUBLISH
\* when it comes after all others, under an identifier no PUBREL has.
Joins(q, a, u, del, inc, pub) ==
    /\ a.control = "PUBREL" =>
          \A j \in 1..Len(q) : q[j].control = "PUBLISH" /\ q[j].id = a.id => q[j].state = "COMPLETE"
    /\ a.control = "PUBLISH" =>
          /\ a.msg \in Range(pub) /\ a.id \in Ids
          /\ \A j \in 1..Len(q) : ~ Releases(q[j], a.id)
          /\ \A j \in 1..Len(q) : IsPublish(q[j], 2) => Place(pub, q[j].msg) < Place(pub, a.msg)
          /\ Follows(u, Len(u) + 1, a.msg, a.id, del, inc, pub)

\* MQTT_CLIENT_TRY_PACK, full or not.
LEMMA QueueTryPack ==
    ASSUME NEW q, QueueOK(q), NEW a \in Packets, NEW u, NEW del, NEW inc, NEW pub,
           QueueOrder(q, u, del, inc, pub), Joins(q, a, u, del, inc, pub)
    PROVE  QueueOrder(TryPack(q, a).mq, u, del, inc, pub)
    <1> DEFINE c == mq_clean(q)
               t == TryPack(q, a)
    <1>1. q \in Seq(Packets) /\ c \in Seq(Packets)
          BY CleanOK DEF QueueOK
    <1>2. PICK k \in Nat : Len(c) + k = Len(q) /\ \A i \in 1..Len(c) : c[i] = q[i + k]
          BY CleanSuffix
    <1> HIDE DEF c
    <1>3. QueueOrder(c, u, del, inc, pub)
          BY <1>1, <1>2, QueueShift DEF SameMessage
    <1>4. Joins(c, a, u, del, inc, pub)
          <2>1. \A i \in 1..Len(c) : i + k \in 1..Len(q)
                <3>1. Len(c) \in Nat /\ Len(q) \in Nat
                      BY <1>1
                <3> QED BY <1>2, <3>1
          <2> QED BY <1>2, <2>1 DEF Joins
    <1>5. ASSUME NEW r \in Seq(Packets), QueueOrder(r, u, del, inc, pub), Joins(r, a, u, del, inc, pub)
          PROVE  QueueOrder(Append(r, a), u, del, inc, pub)
          <2> DEFINE s == Append(r, a)
          <2>1. /\ Len(r) \in Nat /\ Len(s) = Len(r) + 1 /\ s[Len(r) + 1] = a
                /\ \A i \in 1..Len(r) : s[i] = r[i]
                BY AppendProperties
          <2> HIDE DEF s
          <2>2. \A i \in 1..Len(s) : i \in 1..Len(r) \/ i = Len(r) + 1
                BY <2>1
          <2>3. \A i \in 1..Len(s) : s[i].control = "PUBLISH" => s[i].msg \in Range(pub) /\ s[i].id \in Ids
                BY <1>5, <2>1, <2>2 DEF QueueOrder, Joins
          <2>4. \A i, j \in 1..Len(s) :
                   i < j /\ IsPublish(s[i], 2) /\ IsPublish(s[j], 2) =>
                       Place(pub, s[i].msg) < Place(pub, s[j].msg)
                <3> SUFFICES ASSUME NEW i \in 1..Len(s), NEW j \in 1..Len(s), i < j,
                                    IsPublish(s[i], 2), IsPublish(s[j], 2)
                             PROVE  Place(pub, s[i].msg) < Place(pub, s[j].msg)
                    OBVIOUS
                <3>1. i \in 1..Len(r)
                      BY <2>1
                <3>2. CASE j \in 1..Len(r)
                      BY <1>5, <2>1, <3>1, <3>2 DEF QueueOrder
                <3>3. CASE j = Len(r) + 1
                      BY <1>5, <2>1, <3>1, <3>3 DEF Joins, IsPublish
                <3> QED BY <2>2, <3>2, <3>3
          <2>5. \A i, j \in 1..Len(s) :
                   s[j].control = "PUBLISH" /\ Releases(s[i], s[j].id) => s[j].state = "COMPLETE"
                BY <1>5, <2>1, <2>2 DEF QueueOrder, Joins, Releases
          <2>6. \A n \in 1..Len(s) :
                   Unfinished(s[n]) => Follows(u, Len(u) + 1, s[n].msg, s[n].id, del, inc, pub)
                BY <1>5, <2>1, <2>2 DEF QueueOrder, Joins, Unfinished, IsPublish
          <2> QED BY <2>3, <2>4, <2>5, <2>6 DEF QueueOrder, s
    <1>6. t.mq \in {q, c, Append(q, a), Append(c, a)}
          BY DEF TryPack, c
    <1> QED BY <1>1, <1>3, <1>4, <1>5, <1>6

\* A message is regarded as complete.
LEMMA QueueComplete ==
    ASSUME NEW q, QueueOK(q), NEW n \in 1..Len(q), NEW u, NEW del, NEW inc, NEW pub,
           QueueOrder(q, u, del, inc, pub)
    PROVE  QueueOrder(Complete(q, n), u, del, inc, pub)
    <1> DEFINE c == Complete(q, n)
    <1>1. q \in Seq(Packets) /\ c \in Seq(Packets) /\ Len(c) = Len(q) /\ Len(q) \in Nat
          BY CompleteOK DEF QueueOK
    <1>2. \A i \in 1..Len(q) : q[i] \in Packets
          BY <1>1, ElementOfSeq
    <1>3. \A i \in 1..Len(q) : c[i] = IF i = n THEN [q[i] EXCEPT !.state = "COMPLETE"] ELSE q[i]
          BY <1>1 DEF Complete
    <1>4. \A i \in 1..Len(c) : SameMessage(c[i], q[i])
          BY <1>1, <1>2, <1>3 DEF SameMessage, Packets
    <1> HIDE DEF c
    <1>5. Len(c) + 0 = Len(q) /\ \A i \in 1..Len(c) : SameMessage(c[i], q[i + 0])
          BY <1>1, <1>4
    <1>6. QueueOrder(c, u, del, inc, pub)
          BY <1>1, <1>5, QueueShift
    <1> QED BY <1>6 DEF c

-----------------------------------------------------------------------------
(* The steps and that order.                                               *)

\* Before the first call there is nothing to put in order.
LEMMA InitOrder == Init => OrderInv
    <1> SUFFICES ASSUME Init PROVE OrderInv
        OBVIOUS
    <1>1. /\ published = <<>> /\ published \in Seq(UpMsgs) /\ Len(mq) = 0 /\ Len(up) = 0
          /\ delivered = <<>> /\ delivered \in Seq(UpMsgs) /\ Len(delivered) = 0
          BY DEF Init
    <1>2. Range(delivered) = {}
          BY <1>1 DEF Range
    <1> QED BY <1>1, <1>2 DEF OrderInv, SeenOrder, WireOrder, QueueOrder

\* Only the queue changes.
LEMMA QueueOnly ==
    ASSUME OrderInv, UNCHANGED <<published, delivered, up, incoming>>,
           QueueOrder(mq', up, delivered, incoming, published)
    PROVE  OrderInv'
    BY DEF OrderInv

\* mqtt_publish: the message is the last one, and so is its PUBLISH.
LEMMA PublishOrder == ASSUME Inv, OrderInv, NEW m \in UpMsgs, mqtt_publish(m) PROVE OrderInv'
    <1> DEFINE id == next_pid(mq)
               a == Message("PUBLISH", id, m)
               pub == Append(published, m)
    <1>1. /\ UNCHANGED <<up, delivered, incoming>> /\ published' = pub /\ m \notin Range(published)
          /\ mq' = TryPack(mq, a).mq
          BY DEF mqtt_publish, Stage, connection, broker
    <1>2. id \in Ids /\ \A i \in 1..Len(mq) : mq[i].id # id
          BY NextPid DEF Inv, QueueOK, WireOK
    <1>3. a \in Packets /\ a.control = "PUBLISH" /\ a.id = id /\ a.msg = m
          BY <1>2, MessageType DEF Controls, AnyId, Message
    <1>4. /\ QueueOK(mq) /\ published \in Seq(UpMsgs)
          /\ SeenOrder(delivered, published) /\ WireOrder(up, delivered, incoming, published)
          /\ QueueOrder(mq, up, delivered, incoming, published)
          BY DEF Inv, OrderInv
    <1> HIDE DEF a, id
    <1>5. /\ pub \in Seq(UpMsgs) /\ Range(pub) = Range(published) \cup {m}
          /\ \A n \in Range(published) : Place(pub, n) = Place(published, n)
          /\ \A n \in Range(published) : Place(pub, n) < Place(pub, m)
          BY <1>1, <1>4, PlaceAppend
    <1>6. \A i \in 1..Len(up) : IsPublish(up[i], 2) => up[i].msg \in Range(published)
          BY <1>4 DEF WireOrder, IsPublish
    <1>7. /\ \A n \in Range(published) : \A j, x : Follows(up, j, n, x, delivered, incoming, published) =>
                  Follows(up, j, n, x, delivered, incoming, pub)
          /\ \A j, x : Follows(up, j, m, x, delivered, incoming, pub)
          BY <1>1, <1>4, <1>6, FollowsPublish DEF SeenOrder
    <1> HIDE DEF pub
    <1>8. SeenOrder(delivered, pub)
          <2>1. \A j \in 1..Len(delivered) : delivered[j] \in Range(published)
                BY <1>4 DEF SeenOrder, Range
          <2> QED BY <1>4, <1>5, <2>1 DEF SeenOrder
    <1>9. WireOrder(up, delivered, incoming, pub)
          BY <1>4, <1>5, <1>7 DEF WireOrder, IsPublish
    <1>10. QueueOrder(mq, up, delivered, incoming, pub)
          <2>1. \A i \in 1..Len(mq) : mq[i].control = "PUBLISH" =>
                   mq[i].msg \in Range(published) /\ mq[i].msg \in Range(pub) /\ mq[i].id \in Ids
                BY <1>4, <1>5 DEF QueueOrder
          <2>2. \A i, j \in 1..Len(mq) :
                   i < j /\ IsPublish(mq[i], 2) /\ IsPublish(mq[j], 2) =>
                       Place(pub, mq[i].msg) < Place(pub, mq[j].msg)
                BY <1>4, <1>5, <2>1 DEF QueueOrder, IsPublish
          <2>3. \A n \in 1..Len(mq) :
                   Unfinished(mq[n]) =>
                       Follows(up, Len(up) + 1, mq[n].msg, mq[n].id, delivered, incoming, pub)
                BY <1>4, <1>7, <2>1 DEF QueueOrder, Unfinished, IsPublish
          <2> QED BY <1>4, <2>1, <2>2, <2>3 DEF QueueOrder
    <1>11. Joins(mq, a, up, delivered, incoming, pub)
          <2>1. \A j \in 1..Len(mq) : ~ Releases(mq[j], a.id)
                BY <1>2, <1>3 DEF Releases
          <2>2. \A j \in 1..Len(mq) : IsPublish(mq[j], 2) => Place(pub, mq[j].msg) < Place(pub, a.msg)
                BY <1>3, <1>4, <1>5 DEF QueueOrder, IsPublish
          <2> QED BY <1>2, <1>3, <1>5, <1>7, <2>1, <2>2 DEF Joins
    <1>12. QueueOrder(mq', up, delivered, incoming, pub)
          BY <1>1, <1>3, <1>4, <1>10, <1>11, QueueTryPack
    <1> QED BY <1>1, <1>5, <1>8, <1>9, <1>12 DEF OrderInv

\* The other calls stage neither a PUBLISH nor a PUBREL.
LEMMA RequestOrder ==
    ASSUME Inv, OrderInv, mqtt_connect \/ \E c \in Requests : Request(c) PROVE OrderInv'
    <1>1. UNCHANGED <<published, delivered, up, incoming>>
          BY DEF mqtt_connect, Request, connection, broker, app
    <1>2. CASE mqtt_connect
          <2>1. mq = <<>> /\ mq' = Append(mq, Message("CONNECT", NoId, NoMsg))
                BY <1>2 DEF mqtt_connect, Inv, WireOK
          <2>2. Len(mq') = 1 /\ mq'[1].control = "CONNECT"
                BY <2>1 DEF Message
          <2>3. QueueOrder(mq', up, delivered, incoming, published)
                BY <2>2 DEF QueueOrder, IsPublish, Releases, Unfinished
          <2> QED BY <1>1, <2>3, QueueOnly
    <1>3. ASSUME NEW c \in Requests, Request(c) PROVE OrderInv'
          <2>1. next_pid(mq) \in Ids /\ c \in Controls /\ c \notin {"PUBLISH", "PUBREL"}
                BY NextPid, ClientAssumption DEF Inv, QueueOK, WireOK, Controls
          <2>2. PICK id \in AnyId : Stage(Message(c, id, NoMsg))
                BY <1>3, <2>1 DEF Request, AnyId
          <2> DEFINE a == Message(c, id, NoMsg)
          <2>3. a \in Packets /\ a.control \notin {"PUBLISH", "PUBREL"}
                BY <2>1, MessageType
          <2>4. mq' = TryPack(mq, a).mq
                BY <2>2 DEF Stage
          <2> HIDE DEF a
          <2>5. Joins(mq, a, up, delivered, incoming, published)
                BY <2>3 DEF Joins
          <2>6. QueueOrder(mq', up, delivered, incoming, published)
                BY <2>3, <2>4, <2>5, QueueTryPack DEF Inv, OrderInv
          <2> QED BY <1>1, <2>6, QueueOnly
    <1> QED BY <1>2, <1>3

\* mqtt_sync itself; a new connection starts with nothing queued or under way.
LEMMA SyncOrder ==
    ASSUME Inv, OrderInv,
           SyncStart \/ SyncReconnect \/ RecvEnter \/ RecvDone \/ RecvFails \/ SendRefused
    PROVE  OrderInv'
    <1>1. CASE SyncStart \/ RecvEnter \/ RecvDone \/ RecvFails \/ SendRefused
          <2>1. UNCHANGED <<mq, published, delivered, up, incoming>>
                BY <1>1 DEF SyncStart, RecvEnter, RecvDone, RecvFails, SendRefused, connection,
                            broker, app
          <2> QED BY <2>1, QueueOnly DEF OrderInv
    <1>2. CASE SyncReconnect
          <2>1. /\ mq' = <<Message("CONNECT", NoId, NoMsg)>> /\ up' = <<>>
                /\ UNCHANGED <<published, delivered>>
                BY <1>2 DEF SyncReconnect, mqtt_reinit, app
          <2>2. /\ Len(mq') = 1 /\ mq'[1].control = "CONNECT" /\ Len(up') = 0
                BY <2>1 DEF Message
          <2>3. QueueOrder(mq', up', delivered', incoming', published')
                BY <2>2 DEF QueueOrder, IsPublish, Releases, Unfinished
          <2>4. WireOrder(up', delivered', incoming', published')
                BY <2>2 DEF WireOrder
          <2> QED BY <2>1, <2>3, <2>4 DEF OrderInv
    <1> QED BY <1>1, <1>2

\* A response completes messages and stages answers; a PUBREL is staged only
\* once the PUBLISH it is for is complete.
LEMMA RecvOrder == ASSUME Inv, OrderInv, Recv PROVE OrderInv'
    <1> DEFINE p == Head(down)
               OK(q) == QueueOrder(q, up, delivered, incoming, published)
    <1>1. /\ down # <<>> /\ p \in Answers /\ p.id \in AnyId /\ QueueOK(mq) /\ mq \in Seq(Packets)
          /\ OK(mq)
          BY HeadType DEF Recv, Answers, Inv, QueueOK, OrderInv
    <1>2. Target(p) # 0 =>
             /\ Target(p) \in 1..Len(mq) /\ mq[Target(p)].control = Acknowledges[p.control]
             /\ p.id # NoId => mq[Target(p)].id = p.id
          BY <1>1, FindMatch DEF Target
    <1> HIDE DEF p
    <1>3. Target(p) # 0 => OK(Complete(mq, Target(p))) /\ QueueOK(Complete(mq, Target(p)))
          BY <1>1, <1>2, QueueComplete, CompleteOK
    <1>4. ASSUME OK(mq'), Consume \/ \E e : Abort(e) PROVE OrderInv'
          BY <1>4, QueueOnly DEF Consume, Abort, broker
    <1>5. ASSUME NEW q, OK(q), Release(q) PROVE OrderInv'
          BY <1>4, <1>5 DEF Release
    <1>6. ASSUME NEW q, QueueOK(q), OK(q), NEW c \in {"PUBACK", "PUBREC", "PUBREL", "PUBCOMP"},
                 c = "PUBREL" => \A j \in 1..Len(q) :
                     q[j].control = "PUBLISH" /\ q[j].id = p.id => q[j].state = "COMPLETE",
                 Answer(q, c, p.id)
          PROVE  OrderInv'
          <2> DEFINE a == Message(c, p.id, NoMsg)
                     t == TryPack(q, a)
          <2>1. a \in Packets /\ a.control = c /\ a.id = p.id
                BY <1>1, MessageType DEF Controls
          <2>2. mq' = t.mq /\ IF t.error = "OK" THEN Consume /\ error' = "OK" ELSE Abort(t.error)
                BY <1>6 DEF Answer
          <2> HIDE DEF a
          <2>3. Joins(q, a, up, delivered, incoming, published)
                BY <1>6, <2>1 DEF Joins
          <2>4. OK(t.mq)
                BY <1>6, <2>1, <2>3, QueueTryPack
          <2> QED BY <1>4, <2>2, <2>4
    <1> HIDE DEF OK
    <1>7. CASE OnConnack(p) \/ OnSuback(p)
          BY <1>3, <1>4, <1>5, <1>7 DEF OnConnack, OnSuback
    <1>8. CASE OnPublish(p)
          BY <1>1, <1>5, <1>6, <1>8 DEF OnPublish
    <1>9. CASE OnUnusable(p) \/ OnUnknownAck(p)
          BY <1>1, <1>4, <1>9 DEF OnUnusable, OnUnknownAck
    <1>10. CASE OnPuback(p) \/ OnPubcomp(p) \/ OnUnsuback(p) \/ OnPingresp(p)
          BY <1>3, <1>5, <1>10 DEF OnPuback, OnPubcomp, OnUnsuback, OnPingresp
    <1>11. CASE OnPubrec(p)
          <2>1. CASE RepeatedPubrec(p)
                BY <1>1, <1>5, <1>11, <2>1 DEF OnPubrec
          <2>2. CASE ~ RepeatedPubrec(p)
                <3> DEFINE n == Target(p)
                           c == Complete(mq, n)
                <3>1. p.control = "PUBREC" /\ n # 0 /\ Answer(c, "PUBREL", p.id)
                      BY <1>11, <2>2 DEF OnPubrec
                <3>2. /\ n \in 1..Len(mq) /\ mq[n].control = "PUBLISH"
                      /\ p.id # NoId => mq[n].id = p.id
                      BY <1>2, <3>1 DEF Acknowledges
                <3>3. \A j \in 1..Len(mq) : mq[j].control = "PUBLISH" /\ mq[j].id = p.id => j = n
                      <4> SUFFICES ASSUME NEW j \in 1..Len(mq), mq[j].control = "PUBLISH",
                                          mq[j].id = p.id
                                   PROVE  j = n
                          OBVIOUS
                      <4>1. p.id # NoId
                            BY <1>1, ClientAssumption DEF OK, QueueOrder, Ids
                      <4> QED BY <1>1, <3>2, <4>1 DEF QueueOK, OwnIds, Own
                <3>4. /\ mq[n] \in Packets /\ Len(mq) \in Nat /\ DOMAIN mq = 1..Len(mq)
                      BY <1>1, <3>2, ElementOfSeq
                <3>5. /\ Len(c) = Len(mq) /\ c[n].state = "COMPLETE"
                      /\ \A j \in 1..Len(mq) : j # n => c[j] = mq[j]
                      BY <1>1, <3>2, <3>4, CompleteOK DEF Complete, Packets
                <3> HIDE DEF n, c
                <3>6. \A j \in 1..Len(c) :
                         c[j].control = "PUBLISH" /\ c[j].id = p.id => c[j].state = "COMPLETE"
                      BY <3>3, <3>5
                <3> QED BY <1>3, <1>6, <3>1, <3>6 DEF n, c
          <2> QED BY <2>1, <2>2
    <1>12. CASE OnPubrel(p)
          BY <1>3, <1>6, <1>12 DEF OnPubrel
    <1> QED BY <1>7, <1>8, <1>9, <1>10, <1>11, <1>12 DEF Recv, p

-----------------------------------------------------------------------------
(* __mqtt_send and that order.                                             *)

\* A pass sends messages of the queue.
LEMMA SentMembers ==
    ASSUME QueueOK(mq), NEW S \in SUBSET (1..Len(mq)), NEW packets \in Sent(S)
    PROVE  /\ packets \in Seq(Packets)
           /\ \A t \in 1..Len(packets) : \E n \in S : packets[t] = mq[n]
    <1>1. packets \in Seq(Packets)
          BY SentType
    <1>2. PICK order \in [1..Cardinality(S) -> S] : packets = [k \in DOMAIN order |-> mq[order[k]]]
          BY DEF Sent
    <1>3. DOMAIN packets = 1..Len(packets) /\ DOMAIN packets = DOMAIN order
          <2>1. DOMAIN packets = 1..Len(packets)
                BY <1>1
          <2> QED BY <1>2, <2>1
    <1>4. \A t \in 1..Len(packets) : order[t] \in S /\ packets[t] = mq[order[t]]
          BY <1>2, <1>3
    <1> QED BY <1>1, <1>4

\* Nothing a pass sends comes after an unfinished QoS 2 message of the queue, or
\* releases its identifier.
LEMMA SentFollows ==
    ASSUME QueueOK(mq), NEW u, NEW del, NEW inc, NEW pub \in Seq(UpMsgs),
           QueueOrder(mq, u, del, inc, pub), NEW expired \in SUBSET Overdue,
           NEW upto \in 0..Len(mq), NEW i \in Pass(expired, upto),
           NEW n \in 1..Len(mq), Unfinished(mq[n])
    PROVE  /\ ~ Releases(mq[i], mq[n].id)
           /\ IsPublish(mq[i], 2) => /\ Unfinished(mq[i])
                                     /\ Place(pub, mq[i].msg) <= Place(pub, mq[n].msg)
                                     /\ mq[i].msg = mq[n].msg => mq[i].id = mq[n].id
    <1>1. i \in 1..Len(mq) /\ Len(mq) \in Nat
          BY DEF Pass, QueueOK
    <1>2. mq[i].state # "COMPLETE" /\ ~ Blocked(i)
          BY DEF Pass, Sendable, Due, Overdue
    <1>3. mq[n].control = "PUBLISH" /\ mq[n].state # "COMPLETE" /\ UnfinishedQos2(n) /\ IsPublish(mq[n], 2)
          BY DEF Unfinished, UnfinishedQos2, IsPublish
    <1>4. ~ Releases(mq[i], mq[n].id)
          BY <1>1, <1>3 DEF QueueOrder
    <1>5. ASSUME IsPublish(mq[i], 2)
          PROVE  /\ Unfinished(mq[i])
                 /\ Place(pub, mq[i].msg) <= Place(pub, mq[n].msg)
                 /\ mq[i].msg = mq[n].msg => mq[i].id = mq[n].id
          <2>1. Unfinished(mq[i]) /\ UnfinishedQos2(i)
                BY <1>2, <1>5 DEF Unfinished, UnfinishedQos2
          <2>2. i = n \/ i < n
                <3>1. n \notin 1..(i - 1)
                      BY <1>2, <1>3, <2>1 DEF Blocked
                <3> QED BY <1>1, <3>1
          <2>3. mq[i].msg \in Range(pub) /\ mq[n].msg \in Range(pub)
                BY <1>1, <1>3, <1>5 DEF QueueOrder, IsPublish
          <2>4. Place(pub, mq[i].msg) \in Int /\ Place(pub, mq[n].msg) \in Int
                BY <2>3, PlaceFacts
          <2>5. i < n => Place(pub, mq[i].msg) < Place(pub, mq[n].msg)
                BY <1>1, <1>3, <1>5 DEF QueueOrder
          <2> QED BY <2>1, <2>2, <2>4, <2>5
    <1> QED BY <1>4, <1>5

\* What a pass puts on the wire follows what is there.
LEMMA PassOrder ==
    ASSUME Inv, OrderInv, NEW expired \in SUBSET Overdue, NEW upto \in 0..Len(mq),
           SendPass(expired, upto)
    PROVE  /\ WireOrder(up', delivered, incoming, published)
           /\ QueueOrder(mq, up', delivered, incoming, published)
    <1> DEFINE S == Pass(expired, upto)
               W(u) == WireOrder(u, delivered, incoming, published)
               Q(u) == QueueOrder(mq, u, delivered, incoming, published)
               F(u, j, m, id) == Follows(u, j, m, id, delivered, incoming, published)
    <1>1. /\ QueueOK(mq) /\ up \in Seq(Packets) /\ published \in Seq(UpMsgs) /\ W(up) /\ Q(up)
          BY DEF Inv, WireOK, OrderInv
    <1>2. CASE ~open
          BY <1>1, <1>2 DEF SendPass
    <1>3. CASE open
          <2>1. PICK packets \in Sent(S) : up' = up \o packets
                BY <1>3 DEF SendPass
          <2>2. S \in SUBSET (1..Len(mq))
                BY <1>1 DEF QueueOK, Pass
          <2>3. /\ packets \in Seq(Packets)
                /\ \A t \in 1..Len(packets) : \E n \in S : packets[t] = mq[n]
                BY <1>1, <2>2, SentMembers
          <2> DEFINE s == up \o packets
          <2>4. /\ Len(up) \in Nat /\ Len(packets) \in Nat /\ Len(s) = Len(up) + Len(packets)
                /\ \A i \in 1..Len(s) : s[i] = IF i <= Len(up) THEN up[i] ELSE packets[i - Len(up)]
                BY <1>1, <2>3, ConcatProperties
          <2>5. ASSUME NEW n \in 1..Len(mq), Unfinished(mq[n])
                PROVE  \A j \in Len(up) + 1 .. Len(up) + Len(packets) + 1 :
                          F(s, j, mq[n].msg, mq[n].id)
                <3>1. F(up, Len(up) + 1, mq[n].msg, mq[n].id)
                      BY <1>1, <2>5 DEF QueueOrder
                <3>2. ASSUME NEW t \in 1..Len(packets)
                      PROVE  /\ ~ Releases(packets[t], mq[n].id)
                             /\ IsPublish(packets[t], 2) =>
                                   /\ Place(published, packets[t].msg) <= Place(published, mq[n].msg)
                                   /\ packets[t].msg = mq[n].msg => packets[t].id = mq[n].id
                      <4>1. PICK i \in S : packets[t] = mq[i]
                            BY <2>3
                      <4>2. /\ ~ Releases(mq[i], mq[n].id)
                            /\ IsPublish(mq[i], 2) =>
                                   /\ Place(published, mq[i].msg) <= Place(published, mq[n].msg)
                                   /\ mq[i].msg = mq[n].msg => mq[i].id = mq[n].id
                            BY <1>1, <2>5, SentFollows
                      <4> QED BY <4>1, <4>2
                <3> QED BY <1>1, <2>3, <3>1, <3>2, FollowsExtend
          <2>6. ASSUME NEW j \in 1..Len(up), IsPublish(up[j], 2)
                PROVE  F(s, j, up[j].msg, up[j].id)
                <3>1. F(up, j, up[j].msg, up[j].id)
                      BY <1>1, <2>6 DEF WireOrder
                <3> QED BY <1>1, <2>3, <3>1, FollowsExtend
          <2> HIDE DEF s, F
          <2>7. \A i \in 1..Len(s) : \/ i \in 1..Len(up) /\ s[i] = up[i]
                                     \/ /\ i \in Len(up) + 1 .. Len(up) + Len(packets) + 1
                                        /\ \E n \in S : s[i] = mq[n]
                <3> SUFFICES ASSUME NEW i \in 1..Len(s), i \notin 1..Len(up)
                             PROVE  /\ i \in Len(up) + 1 .. Len(up) + Len(packets) + 1
                                    /\ \E n \in S : s[i] = mq[n]
                    BY <2>4
                <3>1. i - Len(up) \in 1..Len(packets) /\ s[i] = packets[i - Len(up)]
                      BY <2>4
                <3>2. i \in Len(up) + 1 .. Len(up) + Len(packets) + 1
                      BY <2>4
                <3> QED BY <2>3, <3>1, <3>2
          <2>8. ASSUME NEW n \in S, IsPublish(mq[n], 2) PROVE n \in 1..Len(mq) /\ Unfinished(mq[n])
                BY <2>2, <2>8 DEF Pass, Sendable, Due, Overdue, Unfinished
          <2>9. W(s)
                <3>1. \A j \in 1..Len(s) : s[j].control = "PUBLISH" => s[j].msg \in Range(published)
                      <4>1. /\ \A j \in 1..Len(up) :
                                  up[j].control = "PUBLISH" => up[j].msg \in Range(published)
                            /\ \A n \in S : mq[n].control = "PUBLISH" => mq[n].msg \in Range(published)
                            BY <1>1, <2>2 DEF WireOrder, QueueOrder
                      <4> HIDE DEF S
                      <4> QED BY <2>7, <4>1
                <3>2. \A j \in 1..Len(s) : IsPublish(s[j], 2) => F(s, j, s[j].msg, s[j].id)
                      <4> HIDE DEF S
                      <4> SUFFICES ASSUME NEW j \in 1..Len(s), IsPublish(s[j], 2)
                                   PROVE  F(s, j, s[j].msg, s[j].id)
                          OBVIOUS
                      <4>1. CASE j \in 1..Len(up) /\ s[j] = up[j]
                            BY <2>6, <4>1
                      <4>2. ASSUME j \in Len(up) + 1 .. Len(up) + Len(packets) + 1, NEW n \in S, s[j] = mq[n]
                            PROVE  F(s, j, s[j].msg, s[j].id)
                            BY <2>5, <2>8, <4>2
                      <4> QED BY <2>7, <4>1, <4>2
                <3> QED BY <3>1, <3>2 DEF WireOrder, F
          <2>10. Q(s)
                <3>1. \A n \in 1..Len(mq) : Unfinished(mq[n]) => F(s, Len(s) + 1, mq[n].msg, mq[n].id)
                      <4>1. Len(s) + 1 \in Len(up) + 1 .. Len(up) + Len(packets) + 1
                            BY <2>4
                      <4> QED BY <2>5, <4>1
                <3> QED BY <1>1, <3>1 DEF QueueOrder, F
          <2> QED BY <2>1, <2>9, <2>10 DEF s
    <1> QED BY <1>2, <1>3

\* __mqtt_send.
LEMMA SendOrder == ASSUME Inv, OrderInv, Send PROVE OrderInv'
    <1> DEFINE OK(q) == QueueOrder(q, up', delivered, incoming, published)
    <1>1. PICK expired \in SUBSET Overdue :
             SendAll(expired) \/ \E upto \in 0..(Len(mq) - 1) : SendFails(expired, upto)
          BY DEF Send
    <1>2. QueueOK(mq) /\ mq \in Seq(Packets) /\ Len(mq) \in Nat /\ Len(mq) \in 0..Len(mq)
          BY DEF Inv, QueueOK
    <1>3. ASSUME NEW upto \in 0..Len(mq), SendPass(expired, upto), OK(mq') PROVE OrderInv'
          <2>1. UNCHANGED <<published, delivered, incoming>>
                BY <1>3 DEF SendPass, broker, app
          <2> QED BY <1>3, <2>1, PassOrder DEF OrderInv
    <1>4. ASSUME NEW upto \in 0..Len(mq), SendPass(expired, upto),
                 mq' = sent_queue(Pass(expired, upto))
          PROVE  OrderInv'
          <2> DEFINE S == Pass(expired, upto)
                     c == sent_queue(S)
          <2>1. c \in Seq(Packets) /\ Len(c) = Len(mq)
                <3>1. QueueOK(c)
                      BY <1>2, SendOK
                <3>2. Len(c) = Len(mq)
                      BY <1>2 DEF sent_queue
                <3> QED BY <3>1, <3>2 DEF QueueOK
          <2>2. ASSUME NEW n \in 1..Len(mq) PROVE SameMessage(c[n], mq[n])
                <3>1. mq[n] \in Packets
                      BY <1>2, ElementOfSeq
                <3>2. /\ AfterSend(mq[n]).control = mq[n].control /\ AfterSend(mq[n]).id = mq[n].id
                      /\ AfterSend(mq[n]).msg = mq[n].msg
                      BY <3>1 DEF AfterSend, Packets
                <3>3. n \in S => mq[n].state # "COMPLETE"
                      BY DEF Pass, Sendable, Due, Overdue
                <3>4. c[n] = IF n \in S THEN AfterSend(mq[n]) ELSE mq[n]
                      BY DEF sent_queue
                <3> QED BY <3>2, <3>3, <3>4 DEF SameMessage
          <2> HIDE DEF c
          <2>3. Len(c) + 0 = Len(mq) /\ \A n \in 1..Len(c) : SameMessage(c[n], mq[n + 0])
                BY <1>2, <2>1, <2>2
          <2>4. OK(mq)
                BY <1>4, PassOrder
          <2>5. OK(c)
                BY <1>2, <2>1, <2>3, <2>4, QueueShift
          <2> QED BY <1>3, <1>4, <2>5 DEF c
    <1>5. CASE SendAll(expired)
          <2> DEFINE m == Message("PINGREQ", NoId, NoMsg)
          <2>1. SendPass(expired, Len(mq))
                BY <1>5 DEF SendAll
          <2>2. CASE mq' = TryPack(mq, m).mq
                <3>1. m \in Packets /\ m.control = "PINGREQ"
                      BY MessageType DEF Controls, AnyId
                <3> HIDE DEF m
                <3>2. Joins(mq, m, up', delivered, incoming, published)
                      BY <3>1 DEF Joins
                <3>3. OK(mq)
                      BY <1>2, <2>1, PassOrder
                <3>4. OK(mq')
                      BY <1>2, <2>2, <3>1, <3>2, <3>3, QueueTryPack
                <3> QED BY <1>2, <1>3, <2>1, <3>4
          <2> QED BY <1>2, <1>4, <1>5, <2>1, <2>2 DEF SendAll
    <1>6. ASSUME NEW upto \in 0..(Len(mq) - 1), SendFails(expired, upto) PROVE OrderInv'
          <2>1. upto \in 0..Len(mq)
                BY <1>2
          <2> QED BY <1>4, <1>6, <2>1 DEF SendFails
    <1> QED BY <1>1, <1>5, <1>6

-----------------------------------------------------------------------------
(* The broker and that order.                                              *)

\* The broker reads the packet u[1]: what it passes on then, del2, and the
\* identifiers it then has, inc2.
Reads(u, del, inc, del2, inc2) ==
    \/ /\ IsPublish(u[1], 2)
       /\ inc2 = inc \cup {u[1].id}
       /\ del2 = IF u[1].id \in inc THEN del ELSE Append(del, u[1].msg)
    \/ /\ u[1].control = "PUBLISH" /\ Qos[u[1].msg] # 2
       /\ inc2 = inc
       /\ del2 = Append(del, u[1].msg)
    \/ /\ inc2 = inc \/ (u[1].control = "PUBREL" /\ inc2 = inc \ {u[1].id})
       /\ del2 = del

\* The broker takes a packet.
LEMMA TakeReads ==
    ASSUME up # <<>>, up \in Seq(Packets), Take(Head(up))
    PROVE  up' = Tail(up) /\ Reads(up, delivered, incoming, delivered', incoming')
    <1> DEFINE p == up[1]
    <1>1. Take(p)
          <2>1. Head(up) = up[1]
                OBVIOUS
          <2> QED BY <2>1
    <1> HIDE DEF p
    <1>2. up' = Tail(up)
          BY <1>1 DEF Take, Reply
    <1>3. CASE /\ p.control = "PUBLISH"
               /\ delivered' = IF ~ (Qos[p.msg] = 2 /\ p.id \in incoming)
                               THEN Append(delivered, p.msg) ELSE delivered
               /\ incoming' = IF Qos[p.msg] = 2 THEN incoming \cup {p.id} ELSE incoming
          <2>1. CASE Qos[p.msg] = 2
                BY <1>2, <1>3, <2>1 DEF Reads, IsPublish, p
          <2>2. CASE Qos[p.msg] # 2
                BY <1>2, <1>3, <2>2 DEF Reads, IsPublish, p
          <2> QED BY <2>1, <2>2
    <1>4. CASE p.control = "PUBREL" /\ incoming' = incoming \ {p.id} /\ delivered' = delivered
          BY <1>2, <1>4 DEF Reads, p
    <1>5. CASE incoming' = incoming /\ delivered' = delivered
          BY <1>2, <1>5 DEF Reads
    <1>6. \/ /\ p.control = "PUBLISH"
             /\ delivered' = IF ~ (Qos[p.msg] = 2 /\ p.id \in incoming)
                             THEN Append(delivered, p.msg) ELSE delivered
             /\ incoming' = IF Qos[p.msg] = 2 THEN incoming \cup {p.id} ELSE incoming
          \/ p.control = "PUBREL" /\ incoming' = incoming \ {p.id} /\ delivered' = delivered
          \/ incoming' = incoming /\ delivered' = delivered
          BY <1>1 DEF Take
    <1> QED BY <1>3, <1>4, <1>5, <1>6

\* The first packet is a QoS 2 PUBLISH that the broker passes on: its message is
\* later than all of them before.
LEMMA NewIsLater ==
    ASSUME NEW u \in Seq(Packets), u # <<>>, NEW del, NEW inc, NEW pub \in Seq(UpMsgs),
           SeenOrder(del, pub), WireOrder(u, del, inc, pub), IsPublish(u[1], 2), u[1].id \notin inc,
           NEW d \in Range(del), Qos[d] = 2
    PROVE  Place(pub, d) < Place(pub, u[1].msg)
    <1> DEFINE m == u[1].msg
    <1>1. 1 \in 1..Len(u)
          OBVIOUS
    <1>2. Follows(u, 1, m, u[1].id, del, inc, pub)
          BY <1>1 DEF WireOrder
    <1>3. Place(pub, d) <= Place(pub, m) /\ d # m
          BY <1>2 DEF Follows
    <1>4. d \in Range(pub) /\ m \in Range(pub)
          BY <1>1 DEF WireOrder, SeenOrder, IsPublish
    <1> HIDE DEF m
    <1>5. /\ Place(pub, d) \in Int /\ Place(pub, m) \in Int
          /\ pub[Place(pub, d)] = d /\ pub[Place(pub, m)] = m
          BY <1>4, PlaceFacts
    <1>6. Place(pub, d) # Place(pub, m)
          BY <1>3, <1>5
    <1> QED BY <1>3, <1>5, <1>6 DEF m

\* What it has passed on stays in order.
LEMMA SeenReads ==
    ASSUME NEW u \in Seq(Packets), u # <<>>, NEW del, NEW inc, NEW pub \in Seq(UpMsgs),
           NEW del2, NEW inc2, SeenOrder(del, pub), WireOrder(u, del, inc, pub),
           Reads(u, del, inc, del2, inc2)
    PROVE  /\ SeenOrder(del2, pub)
           /\ \A d \in Range(del2) : d \in Range(del) \/ d = u[1].msg
           /\ \A d \in Range(del2) : Qos[d] = 2 => d \in Range(del) \/ IsPublish(u[1], 2)
    <1> DEFINE m == u[1].msg
    <1>1. CASE del2 = del
          BY <1>1
    <1>2. CASE /\ del2 = Append(del, m) /\ u[1].control = "PUBLISH"
               /\ Qos[m] = 2 => u[1].id \notin inc
          <2>1. m \in Range(pub) /\ m \in UpMsgs /\ del \in Seq(UpMsgs) /\ Range(del) \subseteq Range(pub)
                <3>1. 1 \in 1..Len(u)
                      OBVIOUS
                <3>2. m \in Range(pub)
                      BY <1>2, <3>1 DEF WireOrder
                <3>3. \A x \in Range(pub) : x \in UpMsgs
                      BY DEF Range
                <3> QED BY <3>2, <3>3 DEF SeenOrder
          <2>2. Qos[m] = 2 => \A d \in Range(del) : Qos[d] = 2 => Place(pub, d) < Place(pub, m)
                BY <1>2, NewIsLater DEF IsPublish
          <2> HIDE DEF m
          <2>3. /\ Len(del) \in Nat /\ Len(del2) = Len(del) + 1 /\ del2[Len(del) + 1] = m
                /\ del2 \in Seq(UpMsgs) /\ \A i \in 1..Len(del) : del2[i] = del[i]
                BY <1>2, <2>1, AppendProperties
          <2>4. \A i \in 1..Len(del2) : i \in 1..Len(del) \/ i = Len(del) + 1
                BY <2>3
          <2>5. Range(del) = {del[i] : i \in 1..Len(del)} /\ Range(del2) = {del2[i] : i \in 1..Len(del2)}
                <3>1. DOMAIN del = 1..Len(del) /\ DOMAIN del2 = 1..Len(del2)
                      BY <2>1, <2>3
                <3> QED BY <3>1 DEF Range
          <2>6. \A d \in Range(del2) : d \in Range(del) \/ d = m
                BY <2>3, <2>4, <2>5
          <2>7. ASSUME NEW j \in 1..Len(del2), NEW k \in 1..Len(del2), j < k,
                       Qos[del2[j]] = 2, Qos[del2[k]] = 2
                PROVE  Place(pub, del2[j]) < Place(pub, del2[k])
                <3>1. j \in 1..Len(del) /\ del2[j] = del[j]
                      BY <2>3, <2>7
                <3>2. CASE k \in 1..Len(del)
                      BY <2>3, <2>7, <3>1, <3>2 DEF SeenOrder
                <3>3. CASE k = Len(del) + 1
                      <4>1. del[j] \in Range(del)
                            BY <2>5, <3>1
                      <4> QED BY <2>2, <2>3, <2>7, <3>1, <3>3, <4>1
                <3> QED BY <2>4, <3>2, <3>3
          <2>8. SeenOrder(del2, pub)
                BY <2>1, <2>3, <2>6, <2>7 DEF SeenOrder
          <2> QED BY <1>2, <2>6, <2>8 DEF m, IsPublish
    <1> QED BY <1>1, <1>2 DEF Reads, IsPublish

\* What is still under way, and what is queued, follows on.
LEMMA FollowsReads ==
    ASSUME NEW u \in Seq(Packets), u # <<>>, NEW del, NEW inc, NEW pub \in Seq(UpMsgs),
           NEW del2, NEW inc2, SeenOrder(del, pub), WireOrder(u, del, inc, pub),
           Reads(u, del, inc, del2, inc2), NEW j \in 2 .. Len(u) + 1, NEW m, NEW id,
           Follows(u, j, m, id, del, inc, pub)
    PROVE  Follows(Tail(u), j - 1, m, id, del2, inc2, pub)
    <1>1. /\ \A d \in Range(del2) : d \in Range(del) \/ d = u[1].msg
          /\ \A d \in Range(del2) : Qos[d] = 2 => d \in Range(del) \/ IsPublish(u[1], 2)
          BY SeenReads
    <1>2. CASE IsPublish(u[1], 2) /\ inc2 = inc \cup {u[1].id}
          BY <1>1, <1>2, FollowsTail
    <1>3. CASE ~ IsPublish(u[1], 2) /\ (inc2 = inc \/ (u[1].control = "PUBREL" /\ inc2 = inc \ {u[1].id}))
          BY <1>1, <1>3, FollowsTail
    <1>4. CASE /\ IsPublish(u[1], 2) /\ del2 = del
               /\ inc2 = inc \/ (u[1].control = "PUBREL" /\ inc2 = inc \ {u[1].id})
          BY <1>4, FollowsTail
    <1> QED BY <1>2, <1>3, <1>4 DEF Reads, IsPublish

\* Reading a packet keeps the order.
LEMMA ReadsOrder ==
    ASSUME OrderInv, up \in Seq(Packets), up # <<>>, up' = Tail(up), mq' = mq,
           published' = published, Reads(up, delivered, incoming, delivered', incoming')
    PROVE  OrderInv'
    <1> DEFINE t == Tail(up)
               F(u, j, m, id) == Follows(u, j, m, id, delivered', incoming', published)
    <1>1. /\ published \in Seq(UpMsgs) /\ SeenOrder(delivered, published)
          /\ WireOrder(up, delivered, incoming, published)
          /\ QueueOrder(mq, up, delivered, incoming, published)
          BY DEF OrderInv
    <1>2. /\ Len(up) \in Nat /\ Len(t) \in Nat /\ Len(t) = Len(up) - 1
          /\ \A i \in 1..Len(t) : t[i] = up[i + 1] /\ i + 1 \in 1..Len(up)
                                  /\ i + 1 \in 2 .. Len(up) + 1 /\ i = (i + 1) - 1
          /\ Len(up) + 1 \in 2 .. Len(up) + 1 /\ (Len(up) + 1) - 1 = Len(t) + 1
          OBVIOUS
    <1> HIDE DEF t
    <1>3. SeenOrder(delivered', published)
          BY <1>1, SeenReads
    <1>4. ASSUME NEW j \in 2 .. Len(up) + 1, NEW m, NEW id,
                 Follows(up, j, m, id, delivered, incoming, published)
          PROVE  F(t, j - 1, m, id)
          BY <1>1, <1>4, FollowsReads DEF t
    <1> HIDE DEF F
    <1>5. WireOrder(t, delivered', incoming', published)
          <2>1. \A j \in 1..Len(t) : t[j].control = "PUBLISH" => t[j].msg \in Range(published)
                BY <1>1, <1>2 DEF WireOrder
          <2>2. ASSUME NEW j \in 1..Len(t), IsPublish(t[j], 2) PROVE F(t, j, t[j].msg, t[j].id)
                <3>1. Follows(up, j + 1, t[j].msg, t[j].id, delivered, incoming, published)
                      BY <1>1, <1>2, <2>2 DEF WireOrder
                <3>2. F(t, (j + 1) - 1, t[j].msg, t[j].id)
                      BY <1>2, <1>4, <3>1
                <3> QED BY <1>2, <3>2
          <2> QED BY <2>1, <2>2 DEF WireOrder, F
    <1>6. QueueOrder(mq, t, delivered', incoming', published)
          <2>1. ASSUME NEW n \in 1..Len(mq), Unfinished(mq[n])
                PROVE  F(t, Len(t) + 1, mq[n].msg, mq[n].id)
                <3>1. Follows(up, Len(up) + 1, mq[n].msg, mq[n].id, delivered, incoming, published)
                      BY <1>1, <2>1 DEF QueueOrder
                <3>2. F(t, (Len(up) + 1) - 1, mq[n].msg, mq[n].id)
                      BY <1>2, <1>4, <3>1
                <3> QED BY <1>2, <3>2
          <2> QED BY <1>1, <2>1 DEF QueueOrder, F
    <1> QED BY <1>1, <1>3, <1>5, <1>6 DEF OrderInv, t

\* The broker closes the connection: nothing is under way then.
LEMMA CloseOrder ==
    ASSUME Inv, OrderInv, Close, mq' = mq, published' = published PROVE OrderInv'
    <1>1. up' = <<>> /\ Len(up') = 0 /\ UNCHANGED <<delivered, incoming>>
          BY DEF Close
    <1>2. Len(up) \in Nat
          BY DEF Inv, WireOK
    <1>3. ASSUME NEW m, NEW id, Follows(up, Len(up) + 1, m, id, delivered, incoming, published)
          PROVE  Follows(up', Len(up') + 1, m, id, delivered, incoming, published)
          BY <1>1, <1>3 DEF Follows
    <1>4. QueueOrder(mq, up', delivered, incoming, published)
          BY <1>3 DEF OrderInv, QueueOrder
    <1>5. WireOrder(up', delivered, incoming, published)
          BY <1>1 DEF WireOrder
    <1> QED BY <1>1, <1>4, <1>5 DEF OrderInv

\* Every step keeps the order.
LEMMA NextOrder == Inv /\ OrderInv /\ [Next]_vars => OrderInv'
    <1> SUFFICES ASSUME Inv, OrderInv, [Next]_vars PROVE OrderInv'
        OBVIOUS
    <1>1. CASE BrokerTakes
          <2>1. up # <<>> /\ up \in Seq(Packets) /\ mq' = mq /\ published' = published
                BY <1>1 DEF BrokerTakes, client, app, Inv, WireOK
          <2>2. CASE Close
                BY <2>1, <2>2, CloseOrder
          <2>3. CASE Take(Head(up))
                <3>1. up' = Tail(up) /\ Reads(up, delivered, incoming, delivered', incoming')
                      BY <2>1, <2>3, TakeReads
                <3> QED BY <2>1, <3>1, ReadsOrder
          <2> QED BY <1>1, <2>2, <2>3 DEF BrokerTakes
    <1>2. CASE BrokerCloses
          BY <1>2, CloseOrder DEF BrokerCloses, client, app
    <1>3. CASE (\E m \in DownMsgs : BrokerPublishes(m) \/ BrokerRepeats(m)) \/ UNCHANGED vars
          <2>1. UNCHANGED <<mq, published, delivered, up, incoming>>
                BY <1>3 DEF BrokerPublishes, BrokerRepeats, vars, client, connection, broker, app
          <2> QED BY <2>1, QueueOnly DEF OrderInv
    <1> QED BY <1>1, <1>2, <1>3, PublishOrder, RequestOrder, SyncOrder, RecvOrder, SendOrder DEF Next

\* The broker passes on each QoS 2 message of the application at most once and in
\* the order of mqtt_publish, whatever is resent, lost or answered late, and though
\* an identifier is used again: the broker knows every copy by its identifier,
\* because the PUBREL that frees it is staged only after the last copy was sent.
THEOREM Qos2DeliveredOnceInOrder == Spec => []Qos2OnceInOrder
    <1>1. OrderInv => Qos2OnceInOrder
          <2> SUFFICES ASSUME OrderInv, NEW j \in 1..Len(delivered), NEW k \in 1..Len(delivered),
                              j < k, Qos[delivered[j]] = 2, Qos[delivered[k]] = 2
                       PROVE  \E a, b \in 1..Len(published) :
                                 a < b /\ published[a] = delivered[j] /\ published[b] = delivered[k]
              BY DEF Qos2OnceInOrder
          <2> DEFINE a == Place(published, delivered[j])
                     b == Place(published, delivered[k])
          <2>1. a < b
                BY DEF OrderInv, SeenOrder
          <2>2. published \in Seq(UpMsgs) /\ delivered[j] \in Range(published)
                /\ delivered[k] \in Range(published)
                <3>1. published \in Seq(UpMsgs) /\ delivered \in Seq(UpMsgs)
                      /\ Range(delivered) \subseteq Range(published)
                      BY DEF OrderInv, SeenOrder
                <3>2. DOMAIN delivered = 1..Len(delivered)
                      BY <3>1
                <3> QED BY <3>1, <3>2 DEF Range
          <2>3. /\ a \in 1..Len(published) /\ published[a] = delivered[j]
                /\ b \in 1..Len(published) /\ published[b] = delivered[k]
                BY <2>2, PlaceFacts
          <2> QED BY <2>1, <2>3
    <1>2. Init => Inv /\ OrderInv
          BY InitInv, InitOrder
    <1>3. (Inv /\ OrderInv) /\ [Next]_vars => (Inv /\ OrderInv)'
          BY NextInv, NextOrder
    <1> QED BY <1>1, <1>2, <1>3, PTL DEF Spec

-----------------------------------------------------------------------------
(* What is complete was delivered, while identifiers do not come round.     *)

\* What an identifier is taken for, and whether none was yet.
takes == <<published, asked \cap {"SUBSCRIBE", "UNSUBSCRIBE"}>>

NoneTaken == takes = << <<>>, {} >>

\* Each identifier that is taken comes after the one before.
NeverComesRound == [][NoneTaken \/ pid_lfsr < pid_lfsr']_takes

Taken(x) == ~ NoneTaken /\ x \in Ids /\ x <= pid_lfsr

\* The messages of the PUBLISH packets of q, and their identifiers.
Named(q) == {<<q[i].id, q[i].msg>> : i \in {j \in 1..Len(q) : q[j].control = "PUBLISH"}}

\* The identifiers whose PUBLISH the broker has confirmed or, for QoS 2, has.
Confirmed ==
    incoming \cup {down[i].id : i \in {j \in 1..Len(down) : down[j].control \in {"PUBACK", "PUBREC"}}}

\* CompletedWasDelivered, for any queue.
DoneOK(q, del) ==
    \A i \in 1..Len(q) :
        q[i].control = "PUBLISH" /\ Qos[q[i].msg] \in {1, 2} /\ q[i].state = "COMPLETE"
            => q[i].msg \in Range(del)

\* Of names, sets of identifiers with messages: one message to an identifier, and
\* what is confirmed was delivered.
NamesOK(names, confirmed, del) ==
    /\ \A n, o \in names : n[1] = o[1] => n[2] = o[2]
    /\ \A n \in names : n[1] \in confirmed => n[2] \in Range(del)

AckInv ==
    /\ \A x \in Confirmed : Taken(x)
    /\ \A n \in Named(mq) \cup Named(up) : Taken(n[1])
    /\ NamesOK(Named(mq) \cup Named(up), Confirmed, delivered)
    /\ DoneOK(mq, delivered)

\* The names of a queue that lost its front, changed states, or got one more.
LEMMA NamedFacts ==
    ASSUME NEW q \in Seq(Packets), NEW a \in Packets
    PROVE  /\ Named(Append(q, a)) \subseteq
                 Named(q) \cup (IF a.control = "PUBLISH" THEN {<<a.id, a.msg>>} ELSE {})
           /\ \A r \in Seq(Packets), k \in Nat :
                 Len(r) + k = Len(q) /\ (\A i \in 1..Len(r) : SameMessage(r[i], q[i + k]))
                     => Named(r) \subseteq Named(q)
    <1> DEFINE s == Append(q, a)
    <1>1. /\ Len(q) \in Nat /\ Len(s) = Len(q) + 1 /\ s[Len(q) + 1] = a
          /\ \A i \in 1..Len(q) : s[i] = q[i]
          BY AppendProperties
    <1> HIDE DEF s
    <1>2. \A i \in 1..Len(s) : i \in 1..Len(q) \/ i = Len(q) + 1
          BY <1>1
    <1>3. Named(s) \subseteq Named(q) \cup (IF a.control = "PUBLISH" THEN {<<a.id, a.msg>>} ELSE {})
          BY <1>1, <1>2 DEF Named
    <1>4. ASSUME NEW r \in Seq(Packets), NEW k \in Nat, Len(r) + k = Len(q),
                 \A i \in 1..Len(r) : SameMessage(r[i], q[i + k])
          PROVE  Named(r) \subseteq Named(q)
          <2>1. \A i \in 1..Len(r) : i + k \in 1..Len(q)
                <3>1. Len(r) \in Nat
                      OBVIOUS
                <3> QED BY <1>1, <1>4, <3>1
          <2>2. \A i \in 1..Len(r) : r[i].control = q[i + k].control /\ r[i].id = q[i + k].id
                                     /\ r[i].msg = q[i + k].msg
                BY <1>4 DEF SameMessage
          <2> QED BY <2>1, <2>2 DEF Named
    <1> QED BY <1>3, <1>4 DEF s

\* MQTT_CLIENT_TRY_PACK.
LEMMA NamedTryPack ==
    ASSUME NEW q, QueueOK(q), NEW a \in Packets, a.state = "UNSENT", NEW del, DoneOK(q, del)
    PROVE  /\ Named(TryPack(q, a).mq) \subseteq
                 Named(q) \cup (IF a.control = "PUBLISH" THEN {<<a.id, a.msg>>} ELSE {})
           /\ DoneOK(TryPack(q, a).mq, del)
    <1> DEFINE c == mq_clean(q)
               t == TryPack(q, a)
               more == IF a.control = "PUBLISH" THEN {<<a.id, a.msg>>} ELSE {}
    <1>1. q \in Seq(Packets) /\ c \in Seq(Packets)
          BY CleanOK DEF QueueOK
    <1>2. PICK k \in Nat : Len(c) + k = Len(q) /\ \A i \in 1..Len(c) : c[i] = q[i + k]
          BY CleanSuffix
    <1> HIDE DEF c, more
    <1>3. Named(c) \subseteq Named(q)
          <2>1. \A i \in 1..Len(c) : SameMessage(c[i], q[i + k])
                BY <1>2 DEF SameMessage
          <2> QED BY <1>1, <1>2, <2>1, NamedFacts
    <1>4. DoneOK(c, del)
          <2>1. \A i \in 1..Len(c) : i + k \in 1..Len(q)
                <3>1. Len(c) \in Nat /\ Len(q) \in Nat
                      BY <1>1
                <3> QED BY <1>2, <3>1
          <2> QED BY <1>2, <2>1 DEF DoneOK
    <1>5. ASSUME NEW r \in Seq(Packets), Named(r) \subseteq Named(q), DoneOK(r, del)
          PROVE  Named(Append(r, a)) \subseteq Named(q) \cup more /\ DoneOK(Append(r, a), del)
          <2>1. Named(Append(r, a)) \subseteq Named(q) \cup more
                BY <1>5, NamedFacts DEF more
          <2> DEFINE s == Append(r, a)
          <2>2. /\ Len(r) \in Nat /\ Len(s) = Len(r) + 1 /\ s[Len(r) + 1] = a
                /\ \A i \in 1..Len(r) : s[i] = r[i]
                BY AppendProperties
          <2> HIDE DEF s
          <2>3. \A i \in 1..Len(s) : i \in 1..Len(r) \/ i = Len(r) + 1
                BY <2>2
          <2>4. DoneOK(s, del)
                BY <1>5, <2>2, <2>3 DEF DoneOK
          <2> QED BY <2>1, <2>4 DEF s
    <1>6. t.mq \in {q, c, Append(q, a), Append(c, a)}
          BY DEF TryPack, c
    <1>7. Named(t.mq) \subseteq Named(q) \cup more /\ DoneOK(t.mq, del)
          BY <1>1, <1>3, <1>4, <1>5, <1>6
    <1> QED BY <1>7 DEF more

\* A message is regarded as complete: a PUBLISH once it was delivered.
LEMMA NamedComplete ==
    ASSUME NEW q, QueueOK(q), NEW n \in 1..Len(q), NEW del, DoneOK(q, del),
           q[n].control = "PUBLISH" => q[n].msg \in Range(del)
    PROVE  Named(Complete(q, n)) \subseteq Named(q) /\ DoneOK(Complete(q, n), del)
    <1> DEFINE c == Complete(q, n)
    <1>1. q \in Seq(Packets) /\ c \in Seq(Packets) /\ Len(c) = Len(q) /\ Len(q) \in Nat
          BY CompleteOK DEF QueueOK
    <1>2. \A i \in 1..Len(q) : q[i] \in Packets
          BY <1>1, ElementOfSeq
    <1>3. \A i \in 1..Len(q) : c[i] = IF i = n THEN [q[i] EXCEPT !.state = "COMPLETE"] ELSE q[i]
          BY <1>1 DEF Complete
    <1>4. \A i \in 1..Len(q) : /\ SameMessage(c[i], q[i])
                               /\ i # n => c[i] = q[i]
          BY <1>2, <1>3 DEF SameMessage, Packets
    <1> HIDE DEF c
    <1>5. Len(c) + 0 = Len(q) /\ \A i \in 1..Len(c) : SameMessage(c[i], q[i + 0])
          BY <1>1, <1>4
    <1>6. Named(c) \subseteq Named(q)
          <2>1. q[n] \in Packets
                BY <1>2
          <2> QED BY <1>1, <1>5, <2>1, NamedFacts
    <1>7. DoneOK(c, del)
          BY <1>1, <1>4 DEF DoneOK, SameMessage
    <1> QED BY <1>6, <1>7 DEF c

-----------------------------------------------------------------------------
(* The steps and what is complete.                                          *)

\* Nothing was taken yet.
LEMMA InitAck == Init => AckInv
    <1> SUFFICES ASSUME Init PROVE AckInv
        OBVIOUS
    <1>1. Len(mq) = 0 /\ Len(up) = 0 /\ Len(down) = 0 /\ incoming = {}
          BY DEF Init
    <1>2. Named(mq) = {} /\ Named(up) = {} /\ Confirmed = {}
          BY <1>1 DEF Named, Confirmed
    <1> QED BY <1>1, <1>2 DEF AckInv, NamesOK, DoneOK

\* No new name, nothing newly confirmed.
LEMMA AckKeeps ==
    ASSUME AckInv, Named(mq') \cup Named(up') \subseteq Named(mq) \cup Named(up),
           Confirmed' \subseteq Confirmed, delivered' = delivered, DoneOK(mq', delivered),
           \A x : Taken(x) => Taken(x)'
    PROVE  AckInv'
    <1> DEFINE names == Named(mq) \cup Named(up)
    <1>1. names' \subseteq names
          OBVIOUS
    <1>2. /\ \A x \in Confirmed : Taken(x)
          /\ \A n \in names : Taken(n[1])
          /\ NamesOK(names, Confirmed, delivered)
          BY DEF AckInv
    <1> HIDE DEF names
    <1>3. /\ \A x \in Confirmed' : Taken(x)'
          /\ \A n \in names' : Taken(n[1])'
          BY <1>1, <1>2
    <1>4. NamesOK(names', Confirmed', delivered')
          BY <1>1, <1>2 DEF NamesOK
    <1> QED BY <1>3, <1>4 DEF AckInv, names

\* Identifiers stay taken.
LEMMA TakenStays ==
    /\ pid_lfsr' = pid_lfsr /\ takes' = takes => \A x : Taken(x) => Taken(x)'
    /\ UNCHANGED <<pid_lfsr, published, asked>> => \A x : Taken(x) => Taken(x)'
    <1>1. UNCHANGED <<pid_lfsr, published, asked>> => takes' = takes
          BY DEF takes
    <1>2. ASSUME pid_lfsr' = pid_lfsr, takes' = takes PROVE \A x : Taken(x) => Taken(x)'
          BY <1>2 DEF Taken, NoneTaken
    <1> QED BY <1>1, <1>2

\* A call takes the next identifier.
LEMMA TakesNext ==
    ASSUME Inv, Inv', NoneTaken \/ pid_lfsr < pid_lfsr', ~ NoneTaken'
    PROVE  Taken(pid_lfsr)' /\ \A x : Taken(x) => Taken(x)' /\ x # pid_lfsr'
    <1>1. /\ pid_lfsr \in Ids /\ pid_lfsr' \in Ids
          /\ pid_lfsr \in Int /\ pid_lfsr' \in Int /\ \A x \in Ids : x \in Int
          BY DEF Inv, WireOK, Ids
    <1>2. Taken(pid_lfsr)'
          BY <1>1 DEF Taken
    <1>3. ASSUME NEW x, Taken(x) PROVE Taken(x)' /\ x # pid_lfsr'
          <2>1. x \in Ids /\ x \in Int /\ x <= pid_lfsr /\ pid_lfsr < pid_lfsr'
                BY <1>1, <1>3 DEF Taken
          <2>2. x <= pid_lfsr' /\ x # pid_lfsr'
                BY <1>1, <2>1
          <2> QED BY <2>1, <2>2 DEF Taken
    <1> QED BY <1>2, <1>3

\* mqtt_publish names a message by an identifier nothing has confirmed.
LEMMA PublishAck ==
    ASSUME Inv, Inv', OrderInv, AckInv, NEW m \in UpMsgs, mqtt_publish(m),
           [NoneTaken \/ pid_lfsr < pid_lfsr']_takes
    PROVE  AckInv'
    <1> DEFINE id == next_pid(mq)
               a == Message("PUBLISH", id, m)
               names == Named(mq) \cup Named(up)
    <1>1. /\ UNCHANGED <<up, down, delivered, incoming>> /\ mq' = TryPack(mq, a).mq
          /\ published' = Append(published, m) /\ pid_lfsr' = id
          BY DEF mqtt_publish, Stage, connection, broker
    <1>2. id \in Ids /\ QueueOK(mq) /\ published \in Seq(UpMsgs)
          BY NextPid DEF Inv, QueueOK, WireOK, OrderInv
    <1>3. a \in Packets /\ a.control = "PUBLISH" /\ a.id = id /\ a.msg = m /\ a.state = "UNSENT"
          BY <1>2, MessageType DEF Controls, AnyId, Message
    <1> HIDE DEF a, id
    <1>4. Taken(pid_lfsr)' /\ \A x : Taken(x) => Taken(x)' /\ x # pid_lfsr'
          <2>1. published' # published /\ published' # <<>>
                <3>1. Len(published') = Len(published) + 1 /\ Len(published) \in Nat
                      BY <1>1, <1>2, AppendProperties
                <3> QED BY <3>1
          <2>2. takes' # takes /\ ~ NoneTaken'
                BY <2>1 DEF takes, NoneTaken
          <2> QED BY <2>2, TakesNext
    <1>5. /\ Named(mq') \subseteq Named(mq) \cup {<<id, m>>}
          /\ DoneOK(mq', delivered)
          BY <1>1, <1>2, <1>3, NamedTryPack DEF AckInv
    <1>6. names' \subseteq names \cup {<<id, m>>} /\ Confirmed' = Confirmed
          BY <1>1, <1>5 DEF Confirmed
    <1>7. /\ \A x \in Confirmed : Taken(x)
          /\ \A n \in names : Taken(n[1])
          /\ NamesOK(names, Confirmed, delivered)
          BY DEF AckInv
    <1> HIDE DEF names
    <1>8. \A x \in Confirmed' : Taken(x)'
          BY <1>4, <1>6, <1>7
    <1>9. \A n \in names' : Taken(n[1])'
          BY <1>1, <1>4, <1>6, <1>7
    <1>10. NamesOK(names', Confirmed', delivered')
          <2>1. id \notin Confirmed /\ \A n \in names : n[1] # id
                BY <1>1, <1>4, <1>7
          <2>2. \A n \in names' : n \in names \/ (n[1] = id /\ n[2] = m)
                BY <1>6
          <2> QED BY <1>1, <1>6, <1>7, <2>1, <2>2 DEF NamesOK
    <1> QED BY <1>1, <1>5, <1>8, <1>9, <1>10 DEF AckInv, names

\* The other calls.
LEMMA RequestAck ==
    ASSUME Inv, Inv', AckInv, mqtt_connect \/ \E c \in Requests : Request(c),
           [NoneTaken \/ pid_lfsr < pid_lfsr']_takes
    PROVE  AckInv'
    <1>1. UNCHANGED <<up, down, delivered, incoming, published>>
          BY DEF mqtt_connect, Request, connection, broker, app
    <1>2. Confirmed' = Confirmed /\ Named(up') = Named(up)
          BY <1>1 DEF Confirmed
    <1>3. CASE mqtt_connect
          <2>1. /\ mq = <<>> /\ mq' = Append(mq, Message("CONNECT", NoId, NoMsg))
                /\ pid_lfsr' = pid_lfsr /\ asked' = asked
                BY <1>3 DEF mqtt_connect, Inv, WireOK, app
          <2>2. Len(mq') = 1 /\ mq'[1].control = "CONNECT"
                BY <2>1 DEF Message
          <2>3. Named(mq') = {} /\ DoneOK(mq', delivered)
                BY <2>2 DEF Named, DoneOK
          <2> QED BY <1>1, <1>2, <2>1, <2>3, AckKeeps, TakenStays
    <1>4. ASSUME NEW c \in Requests, Request(c) PROVE AckInv'
          <2>1. next_pid(mq) \in Ids /\ c \in Controls /\ c # "PUBLISH"
                BY NextPid, ClientAssumption DEF Inv, QueueOK, WireOK, Controls
          <2>2. PICK id \in AnyId : Stage(Message(c, id, NoMsg))
                BY <1>4, <2>1 DEF Request, AnyId
          <2> DEFINE a == Message(c, id, NoMsg)
          <2>3. a \in Packets /\ a.control # "PUBLISH" /\ a.state = "UNSENT"
                BY <2>1, MessageType DEF Message
          <2>4. mq' = TryPack(mq, a).mq
                BY <2>2 DEF Stage
          <2> HIDE DEF a
          <2>5. Named(mq') \subseteq Named(mq) /\ DoneOK(mq', delivered)
                BY <2>3, <2>4, NamedTryPack DEF Inv, AckInv
          <2>6. \A x : Taken(x) => Taken(x)'
                <3>1. asked' = asked \cup {c} /\ c \notin asked
                      BY <1>4 DEF Request
                <3>2. CASE c \in {"SUBSCRIBE", "UNSUBSCRIBE"}
                      <4>1. takes' # takes /\ ~ NoneTaken'
                            BY <3>1, <3>2 DEF takes, NoneTaken
                      <4> QED BY <4>1, TakesNext
                <3>3. CASE c \notin {"SUBSCRIBE", "UNSUBSCRIBE"}
                      <4>1. pid_lfsr' = pid_lfsr
                            BY <1>4, <3>3 DEF Request
                      <4>2. takes' = takes
                            BY <1>1, <3>1, <3>3 DEF takes
                      <4> QED BY <4>1, <4>2, TakenStays
                <3> QED BY <3>2, <3>3
          <2> QED BY <1>1, <1>2, <2>5, <2>6, AckKeeps
    <1> QED BY <1>3, <1>4

\* mqtt_sync itself; a new connection has no names.
LEMMA SyncAck ==
    ASSUME Inv, AckInv,
           SyncStart \/ SyncReconnect \/ RecvEnter \/ RecvDone \/ RecvFails \/ SendRefused
    PROVE  AckInv'
    <1>1. UNCHANGED <<pid_lfsr, published, asked, delivered>>
          BY DEF SyncStart, SyncReconnect, RecvEnter, RecvDone, RecvFails, SendRefused, broker, app
    <1>2. CASE SyncStart \/ RecvEnter \/ RecvDone \/ RecvFails \/ SendRefused
          <2>1. UNCHANGED <<mq, up, down, incoming>>
                BY <1>2 DEF SyncStart, RecvEnter, RecvDone, RecvFails, SendRefused, connection, broker
          <2>2. Confirmed' = Confirmed /\ Named(mq') = Named(mq) /\ Named(up') = Named(up)
                BY <2>1 DEF Confirmed
          <2>3. DoneOK(mq', delivered)
                BY <2>1 DEF AckInv
          <2> QED BY <1>1, <2>2, <2>3, AckKeeps, TakenStays
    <1>3. CASE SyncReconnect
          <2>1. /\ mq' = <<Message("CONNECT", NoId, NoMsg)>> /\ up' = <<>> /\ down' = <<>>
                /\ incoming' = {}
                BY <1>3 DEF SyncReconnect, mqtt_reinit
          <2>2. Len(mq') = 1 /\ mq'[1].control = "CONNECT" /\ Len(up') = 0 /\ Len(down') = 0
                BY <2>1 DEF Message
          <2>3. /\ Named(mq') = {} /\ Named(up') = {} /\ Confirmed' = {} /\ DoneOK(mq', delivered)
                BY <2>1, <2>2 DEF Named, Confirmed, DoneOK
          <2> QED BY <1>1, <2>3, AckKeeps, TakenStays
    <1> QED BY <1>2, <1>3

\* A response completes a PUBLISH only when its identifier is confirmed.
LEMMA RecvAck == ASSUME Inv, AckInv, Recv PROVE AckInv'
    <1> DEFINE p == Head(down)
               OK(q) == QueueOK(q) /\ Named(q) \subseteq Named(mq) /\ DoneOK(q, delivered)
    <1>1. /\ down # <<>> /\ down \in Seq(Answers) /\ p \in Answers /\ p.id \in AnyId /\ p = down[1]
          /\ QueueOK(mq) /\ mq \in Seq(Packets) /\ OK(mq)
          BY HeadType DEF Recv, Answers, Inv, QueueOK, WireOK, AckInv
    <1>2. Target(p) # 0 =>
             /\ Target(p) \in 1..Len(mq) /\ mq[Target(p)].control = Acknowledges[p.control]
             /\ p.id # NoId => mq[Target(p)].id = p.id
          BY <1>1, FindMatch DEF Target
    <1>3. p.control \in {"PUBACK", "PUBREC"} => p.id \in Confirmed
          <2>1. 1 \in 1..Len(down)
                BY <1>1
          <2> QED BY <1>1, <2>1 DEF Confirmed
    <1>4. Confirmed' \subseteq Confirmed \/ ~ (down' = down \/ down' = Tail(down)) \/ incoming' # incoming
          <2>1. CASE down' = down /\ incoming' = incoming
                BY <2>1 DEF Confirmed
          <2>2. CASE down' = Tail(down) /\ incoming' = incoming
                <3>1. /\ Len(down') = Len(down) - 1 /\ Len(down) \in Nat
                      /\ \A i \in 1..Len(down') : down'[i] = down[i + 1] /\ i + 1 \in 1..Len(down)
                      BY <1>1, <2>2
                <3> QED BY <2>2, <3>1 DEF Confirmed
          <2> QED BY <2>1, <2>2
    <1> HIDE DEF p
    <1>5. ASSUME Target(p) # 0,
                 p.control \in {"PUBACK", "PUBREC"} \/ Acknowledges[p.control] # "PUBLISH"
          PROVE  OK(Complete(mq, Target(p)))
          <2> DEFINE n == Target(p)
          <2>1. n \in 1..Len(mq) /\ QueueOK(Complete(mq, n))
                BY <1>1, <1>2, <1>5, CompleteOK
          <2>2. mq[n].control = "PUBLISH" => mq[n].msg \in Range(delivered)
                <3> SUFFICES ASSUME mq[n].control = "PUBLISH" PROVE mq[n].msg \in Range(delivered)
                    OBVIOUS
                <3>1. p.id \in Confirmed /\ p.id # NoId /\ mq[n].id = p.id
                      <4>1. p.id \in Confirmed
                            BY <1>2, <1>3, <1>5
                      <4>2. p.id \in Ids /\ NoId \notin Ids
                            BY <4>1, ClientAssumption DEF AckInv, Taken, Ids
                      <4> QED BY <1>2, <1>5, <4>1, <4>2
                <3>2. <<mq[n].id, mq[n].msg>> \in Named(mq)
                      BY <2>1 DEF Named
                <3> QED BY <3>1, <3>2 DEF AckInv, NamesOK
          <2> QED BY <1>1, <2>1, <2>2, NamedComplete
    <1>6. ASSUME Named(mq') \subseteq Named(mq), DoneOK(mq', delivered), Consume \/ \E e : Abort(e),
                 UNCHANGED <<published, asked>>
          PROVE  AckInv'
          <2>1. UNCHANGED <<pid_lfsr, up, delivered, incoming>> /\ (down' = down \/ down' = Tail(down))
                BY <1>6 DEF Consume, Abort, broker
          <2>2. Named(mq') \cup Named(up') \subseteq Named(mq) \cup Named(up)
                BY <1>6, <2>1
          <2> QED BY <1>4, <1>6, <2>1, <2>2, AckKeeps, TakenStays
    <1>7. UNCHANGED <<published, asked>>
          BY DEF Recv, OnConnack, OnPublish, OnUnusable, OnPuback, OnPubrec, OnPubrel, OnPubcomp,
                 OnSuback, OnUnsuback, OnPingresp, OnUnknownAck, Release, Answer, Abort, Consume
    <1>8. ASSUME NEW q, OK(q), Release(q) PROVE AckInv'
          BY <1>6, <1>7, <1>8 DEF Release
    <1>9. ASSUME NEW q, OK(q), NEW c \in {"PUBACK", "PUBREC", "PUBREL", "PUBCOMP"},
                 Answer(q, c, p.id)
          PROVE  AckInv'
          <2> DEFINE a == Message(c, p.id, NoMsg)
                     t == TryPack(q, a)
          <2>1. a \in Packets /\ a.control # "PUBLISH" /\ a.state = "UNSENT"
                BY <1>1, MessageType DEF Controls, Message
          <2>2. mq' = t.mq /\ IF t.error = "OK" THEN Consume /\ error' = "OK" ELSE Abort(t.error)
                BY <1>9 DEF Answer
          <2> HIDE DEF a
          <2>3. Named(t.mq) \subseteq Named(q) /\ DoneOK(t.mq, delivered)
                BY <1>9, <2>1, NamedTryPack
          <2>4. Named(mq') \subseteq Named(mq) /\ DoneOK(mq', delivered)
                BY <1>9, <2>2, <2>3
          <2>5. Consume \/ \E e : Abort(e)
                BY <2>2
          <2> QED BY <1>6, <1>7, <2>4, <2>5
    <1>10. ASSUME NEW q, OK(q), mq' = q, NEW e, Abort(e) PROVE AckInv'
          BY <1>6, <1>7, <1>10
    <1> HIDE DEF OK
    <1>11. CASE OnConnack(p) \/ OnSuback(p)
          BY <1>5, <1>8, <1>10, <1>11 DEF OnConnack, OnSuback, Acknowledges
    <1>12. CASE OnPublish(p)
          BY <1>1, <1>8, <1>9, <1>12 DEF OnPublish
    <1>13. CASE OnUnusable(p) \/ OnUnknownAck(p)
          BY <1>1, <1>10, <1>13 DEF OnUnusable, OnUnknownAck
    <1>14. CASE OnPuback(p) \/ OnPubcomp(p) \/ OnUnsuback(p) \/ OnPingresp(p)
          BY <1>5, <1>8, <1>14 DEF OnPuback, OnPubcomp, OnUnsuback, OnPingresp, Acknowledges
    <1>15. CASE OnPubrec(p)
          BY <1>1, <1>5, <1>8, <1>9, <1>15 DEF OnPubrec
    <1>16. CASE OnPubrel(p)
          BY <1>5, <1>9, <1>16 DEF OnPubrel, Acknowledges
    <1> QED BY <1>11, <1>12, <1>13, <1>14, <1>15, <1>16 DEF Recv, p

\* __mqtt_send puts names of the queue on the wire and completes QoS 0 only.
LEMMA SendAck == ASSUME Inv, AckInv, Send PROVE AckInv'
    <1>1. QueueOK(mq) /\ mq \in Seq(Packets) /\ Len(mq) \in Nat /\ up \in Seq(Packets)
          /\ DoneOK(mq, delivered)
          BY DEF Inv, QueueOK, WireOK, AckInv
    <1>2. PICK expired \in SUBSET Overdue :
             SendAll(expired) \/ \E upto \in 0..(Len(mq) - 1) : SendFails(expired, upto)
          BY DEF Send
    <1>3. ASSUME NEW upto \in 0..Len(mq), SendPass(expired, upto),
                 Named(mq') \subseteq Named(mq), DoneOK(mq', delivered)
          PROVE  AckInv'
          <2>1. UNCHANGED <<pid_lfsr, down, published, asked, delivered, incoming>>
                BY <1>3 DEF SendPass, broker, app
          <2>2. Confirmed' = Confirmed
                BY <2>1 DEF Confirmed
          <2>3. Named(up') \subseteq Named(up) \cup Named(mq)
                <3>1. CASE ~open
                      BY <1>3, <3>1 DEF SendPass
                <3>2. CASE open
                      <4>1. PICK packets \in Sent(Pass(expired, upto)) : up' = up \o packets
                            BY <1>3, <3>2 DEF SendPass
                      <4>2. Pass(expired, upto) \in SUBSET (1..Len(mq))
                            BY <1>1 DEF Pass
                      <4>3. /\ packets \in Seq(Packets)
                            /\ \A t \in 1..Len(packets) : \E n \in 1..Len(mq) : packets[t] = mq[n]
                            BY <1>1, <4>2, SentMembers
                      <4> DEFINE s == up \o packets
                      <4>4. /\ Len(up) \in Nat /\ Len(packets) \in Nat
                            /\ Len(s) = Len(up) + Len(packets)
                            /\ \A i \in 1..Len(s) : s[i] = IF i <= Len(up) THEN up[i]
                                                         ELSE packets[i - Len(up)]
                            BY <1>1, <4>3, ConcatProperties
                      <4> HIDE DEF s
                      <4>5. \A i \in 1..Len(s) : \/ i \in 1..Len(up) /\ s[i] = up[i]
                                                 \/ \E n \in 1..Len(mq) : s[i] = mq[n]
                            <5> SUFFICES ASSUME NEW i \in 1..Len(s), i \notin 1..Len(up)
                                         PROVE  \E n \in 1..Len(mq) : s[i] = mq[n]
                                BY <4>4
                            <5>1. i - Len(up) \in 1..Len(packets) /\ s[i] = packets[i - Len(up)]
                                  BY <4>4
                            <5> QED BY <4>3, <5>1
                      <4>6. Named(s) \subseteq Named(up) \cup Named(mq)
                            BY <4>5 DEF Named
                      <4> QED BY <4>1, <4>6 DEF s
                <3> QED BY <3>1, <3>2
          <2> QED BY <1>3, <2>1, <2>2, <2>3, AckKeeps, TakenStays
    <1>4. ASSUME NEW upto \in 0..Len(mq), SendPass(expired, upto),
                 mq' = sent_queue(Pass(expired, upto))
          PROVE  AckInv'
          <2> DEFINE S == Pass(expired, upto)
                     c == sent_queue(S)
          <2>1. Len(c) = Len(mq) /\ \A n \in 1..Len(mq) : c[n] = IF n \in S THEN AfterSend(mq[n]) ELSE mq[n]
                BY <1>1 DEF sent_queue
          <2> HIDE DEF c, S
          <2>2. ASSUME NEW n \in 1..Len(mq)
                PROVE  /\ c[n].control = mq[n].control /\ c[n].id = mq[n].id /\ c[n].msg = mq[n].msg
                       /\ mq[n].control = "PUBLISH" /\ Qos[mq[n].msg] \in {1, 2}
                             /\ c[n].state = "COMPLETE" => mq[n].state = "COMPLETE"
                <3>1. mq[n] \in Packets
                      BY <1>1, ElementOfSeq
                <3>2. /\ AfterSend(mq[n]).control = mq[n].control /\ AfterSend(mq[n]).id = mq[n].id
                      /\ AfterSend(mq[n]).msg = mq[n].msg
                      BY <3>1 DEF AfterSend, Packets
                <3>3. mq[n].control = "PUBLISH" /\ Qos[mq[n].msg] \in {1, 2} =>
                         AfterSend(mq[n]).state # "COMPLETE"
                      BY <3>1 DEF AfterSend, Packets, IsPublish
                <3> QED BY <2>1, <3>2, <3>3
          <2>3. Named(c) \subseteq Named(mq)
                BY <2>1, <2>2 DEF Named
          <2>4. DoneOK(c, delivered)
                BY <1>1, <2>1, <2>2 DEF DoneOK
          <2> QED BY <1>3, <1>4, <2>3, <2>4 DEF c, S
    <1>5. CASE SendAll(expired)
          <2> DEFINE m == Message("PINGREQ", NoId, NoMsg)
          <2>1. SendPass(expired, Len(mq)) /\ Len(mq) \in 0..Len(mq)
                BY <1>1, <1>5 DEF SendAll
          <2>2. CASE mq' = TryPack(mq, m).mq
                <3>1. m \in Packets /\ m.control # "PUBLISH" /\ m.state = "UNSENT"
                      BY MessageType DEF Controls, AnyId, Message
                <3> HIDE DEF m
                <3>2. Named(mq') \subseteq Named(mq) /\ DoneOK(mq', delivered)
                      BY <1>1, <2>2, <3>1, NamedTryPack
                <3> QED BY <1>3, <2>1, <3>2
          <2> QED BY <1>4, <1>5, <2>1, <2>2 DEF SendAll
    <1>6. ASSUME NEW upto \in 0..(Len(mq) - 1), SendFails(expired, upto) PROVE AckInv'
          <2>1. upto \in 0..Len(mq)
                BY <1>1
          <2> QED BY <1>4, <1>6, <2>1 DEF SendFails
    <1> QED BY <1>2, <1>5, <1>6

\* The broker takes a packet: a PUBLISH is delivered, or its identifier was known;
\* only then is the identifier confirmed.
LEMMA TakeAck ==
    ASSUME Inv, OrderInv, AckInv, UNCHANGED <<client, held, app>>, up # <<>>, Take(Head(up))
    PROVE  AckInv'
    <1> DEFINE p == up[1]
               names == Named(mq) \cup Named(up)
    <1>1. /\ up \in Seq(Packets) /\ down \in Seq(Answers) /\ mq' = mq
          /\ UNCHANGED <<pid_lfsr, published, asked>>
          BY DEF Inv, WireOK, client, app
    <1>2. Take(p)
          <2>1. Head(up) = p
                OBVIOUS
          <2> QED BY <2>1
    <1>3. p.control = "PUBLISH" => <<p.id, p.msg>> \in names
          <2>1. 1 \in 1..Len(up)
                BY <1>1
          <2> QED BY <2>1 DEF Named
    <1>4. ASSUME up' = Tail(up) PROVE names' \subseteq names
          <2>1. /\ Len(up') = Len(up) - 1 /\ Len(up) \in Nat
                /\ \A i \in 1..Len(up') : up'[i] = up[i + 1] /\ i + 1 \in 1..Len(up)
                BY <1>1, <1>4
          <2> QED BY <1>1, <2>1 DEF Named
    <1>5. \A x : Taken(x) => Taken(x)'
          BY <1>1, TakenStays
    <1>6. up' = Tail(up)
          <2> HIDE DEF p
          <2> QED BY <1>2 DEF Take, Reply
    <1>7. DoneOK(mq, delivered)
          BY DEF AckInv
    <1>8. ASSUME NEW c \in Responses, NEW id, Reply(c, id), incoming' \subseteq incoming \cup {id},
                 c \notin {"PUBACK", "PUBREC"} => incoming' \subseteq incoming
          PROVE  Confirmed' \subseteq IF c \in {"PUBACK", "PUBREC"} THEN Confirmed \cup {id} ELSE Confirmed
          <2> DEFINE r == Response(c, id, NoMsg)
          <2>1. down' = Append(down, r) /\ r.control = c /\ r.id = id
                BY <1>8 DEF Reply, Response
          <2> HIDE DEF r
          <2>2. /\ Len(down) \in Nat /\ Len(down') = Len(down) + 1 /\ down'[Len(down) + 1] = r
                /\ \A i \in 1..Len(down) : down'[i] = down[i]
                BY <1>1, <2>1
          <2>3. \A i \in 1..Len(down') : i \in 1..Len(down) \/ i = Len(down) + 1
                BY <2>2
          <2> QED BY <1>8, <2>1, <2>2, <2>3 DEF Confirmed
    <1> HIDE DEF p
    <1>9. ASSUME Confirmed' \subseteq Confirmed, delivered' = delivered PROVE AckInv'
          BY <1>1, <1>4, <1>5, <1>6, <1>7, <1>9, AckKeeps
    <1>10. CASE p.control = "PUBLISH"
          <2>1. delivered' = IF ~ (Qos[p.msg] = 2 /\ p.id \in incoming)
                             THEN Append(delivered, p.msg) ELSE delivered
                BY <1>2, <1>10 DEF Take
          <2>2. incoming' = IF Qos[p.msg] = 2 THEN incoming \cup {p.id} ELSE incoming
                BY <1>2, <1>10 DEF Take
          <2>3. IF Qos[p.msg] = 0 THEN down' = down ELSE Reply(IF Qos[p.msg] = 1 THEN "PUBACK" ELSE "PUBREC", p.id)
                BY <1>2, <1>10 DEF Take
          <2>4. Confirmed' \subseteq Confirmed \cup {p.id}
                <3>1. CASE Qos[p.msg] = 0
                      BY <2>2, <2>3, <3>1 DEF Confirmed
                <3>2. CASE Qos[p.msg] # 0
                      <4>1. "PUBACK" \in Responses /\ "PUBREC" \in Responses
                            BY DEF Responses
                      <4>2. incoming' \subseteq incoming \cup {p.id}
                            BY <2>2
                      <4> QED BY <1>8, <2>3, <3>2, <4>1, <4>2
                <3> QED BY <3>1, <3>2
          <2>5. Range(delivered) \subseteq Range(delivered') /\ p.msg \in Range(delivered')
                <3>1. CASE Qos[p.msg] = 2 /\ p.id \in incoming
                      <4>1. p.id \in Confirmed
                            BY <3>1 DEF Confirmed
                      <4>2. p.msg \in Range(delivered)
                            BY <1>3, <1>10, <4>1 DEF AckInv, NamesOK
                      <4> QED BY <2>1, <3>1, <4>2
                <3>2. CASE ~ (Qos[p.msg] = 2 /\ p.id \in incoming)
                      <4>1. delivered \in Seq(UpMsgs) /\ delivered' = Append(delivered, p.msg)
                            BY <2>1, <3>2 DEF OrderInv, SeenOrder
                      <4>2. /\ DOMAIN delivered = 1..Len(delivered) /\ Len(delivered) \in Nat
                            /\ DOMAIN delivered' = 1..Len(delivered) + 1
                            /\ delivered'[Len(delivered) + 1] = p.msg
                            /\ \A n \in 1..Len(delivered) : delivered'[n] = delivered[n]
                            BY <4>1
                      <4>3. /\ Len(delivered) + 1 \in DOMAIN delivered'
                            /\ \A n \in DOMAIN delivered : n \in DOMAIN delivered'
                            BY <4>2
                      <4> QED BY <4>2, <4>3 DEF Range
                <3> QED BY <3>1, <3>2
          <2>6. /\ \A x \in Confirmed : Taken(x)
                /\ \A n \in names : Taken(n[1])
                /\ NamesOK(names, Confirmed, delivered)
                BY DEF AckInv
          <2>7. names' \subseteq names
                BY <1>4, <1>6
          <2> HIDE DEF names
          <2>8. /\ \A x \in Confirmed' : Taken(x)'
                /\ \A n \in names' : Taken(n[1])'
                BY <1>3, <1>5, <1>10, <2>4, <2>6, <2>7
          <2>9. NamesOK(names', Confirmed', delivered')
                <3> SUFFICES ASSUME NEW n \in names', n[1] \in Confirmed' PROVE n[2] \in Range(delivered')
                    BY <2>6, <2>7 DEF NamesOK
                <3>1. CASE n[1] \in Confirmed
                      BY <2>5, <2>6, <2>7, <3>1 DEF NamesOK
                <3>2. CASE n[1] = p.id
                      BY <1>3, <1>10, <2>5, <2>6, <2>7, <3>2 DEF NamesOK
                <3> QED BY <2>4, <3>1, <3>2
          <2>10. DoneOK(mq', delivered')
                BY <1>1, <1>7, <2>5 DEF DoneOK
          <2> QED BY <2>8, <2>9, <2>10 DEF AckInv, names
    <1>11. CASE p.control # "PUBLISH"
          <2>1. delivered' = delivered /\ incoming' \subseteq incoming
                BY <1>2, <1>11 DEF Take
          <2>2. \/ down' = down
                \/ \E c \in Responses \ {"PUBACK", "PUBREC"} : \E id : Reply(c, id)
                <3>1. {"CONNACK", "REFUSED", "PUBCOMP", "PUBREL", "SUBACK", "SUBFAIL", "UNSUBACK",
                       "PINGRESP"} \subseteq Responses \ {"PUBACK", "PUBREC"}
                      BY DEF Responses
                <3> QED BY <1>2, <1>11, <3>1 DEF Take
          <2>3. down' = down => Confirmed' \subseteq Confirmed
                BY <2>1 DEF Confirmed
          <2> QED BY <1>8, <1>9, <2>1, <2>2, <2>3
    <1> QED BY <1>10, <1>11

\* What else the broker does confirms nothing.
LEMMA BrokerAck ==
    ASSUME Inv, AckInv, UNCHANGED <<mq, pid_lfsr, published, asked, delivered, incoming>>,
           up' = up \/ up' = <<>>, down' = down \/ \E r \in Answers :
               down' = Append(down, r) /\ r.control \notin {"PUBACK", "PUBREC"}
    PROVE  AckInv'
    <1>1. Named(up') \subseteq Named(up)
          BY DEF Named
    <1>2. Confirmed' \subseteq Confirmed
          <2>1. CASE down' = down
                BY <2>1 DEF Confirmed
          <2>2. ASSUME NEW r \in Answers, down' = Append(down, r),
                       r.control \notin {"PUBACK", "PUBREC"}
                PROVE  Confirmed' \subseteq Confirmed
                <3>1. down \in Seq(Answers)
                      BY DEF Inv, WireOK
                <3>2. /\ Len(down) \in Nat /\ Len(down') = Len(down) + 1 /\ down'[Len(down) + 1] = r
                      /\ \A i \in 1..Len(down) : down'[i] = down[i]
                      BY <2>2, <3>1
                <3>3. \A i \in 1..Len(down') : i \in 1..Len(down) \/ i = Len(down) + 1
                      BY <3>2
                <3> QED BY <2>2, <3>2, <3>3 DEF Confirmed
          <2> QED BY <2>1, <2>2
    <1>3. DoneOK(mq', delivered)
          BY DEF AckInv
    <1> QED BY <1>1, <1>2, <1>3, AckKeeps, TakenStays

\* Every step, as long as the identifiers do not come round.
LEMMA NextAck ==
    Inv /\ Inv' /\ OrderInv /\ AckInv /\ [Next]_vars
       /\ [NoneTaken \/ pid_lfsr < pid_lfsr']_takes => AckInv'
    <1> SUFFICES ASSUME Inv, Inv', OrderInv, AckInv, [Next]_vars,
                        [NoneTaken \/ pid_lfsr < pid_lfsr']_takes
                 PROVE  AckInv'
        OBVIOUS
    <1>1. CASE BrokerTakes
          <2>1. UNCHANGED <<client, held, app>> /\ up # <<>>
                BY <1>1 DEF BrokerTakes
          <2>2. CASE Close
                <3>1. /\ UNCHANGED <<mq, pid_lfsr, published, asked, delivered, incoming, down>>
                      /\ up' = <<>>
                      BY <2>1, <2>2 DEF Close, client, app
                <3> QED BY <3>1, BrokerAck
          <2>3. CASE Take(Head(up))
                BY <2>1, <2>3, TakeAck
          <2> QED BY <1>1, <2>2, <2>3 DEF BrokerTakes
    <1>2. CASE BrokerCloses
          <2>1. /\ UNCHANGED <<mq, pid_lfsr, published, asked, delivered, incoming, down>>
                /\ up' = <<>>
                BY <1>2 DEF BrokerCloses, Close, client, app
          <2> QED BY <2>1, BrokerAck
    <1>3. ASSUME NEW m \in DownMsgs, BrokerPublishes(m) PROVE AckInv'
          <2>1. UNCHANGED <<mq, pid_lfsr, published, asked, delivered, incoming, up>>
                BY <1>3 DEF BrokerPublishes, client, app
          <2>2. PICK id \in AnyId, kind \in {"PUBLISH", "TOOBIG", "MALFORMED"} :
                    down' = Append(down, Response(kind, id, m))
                BY <1>3, ClientAssumption DEF BrokerPublishes, AnyId, Ids
          <2>3. /\ Response(kind, id, m) \in Answers
                /\ Response(kind, id, m).control \notin {"PUBACK", "PUBREC"}
                BY DEF Response, Answers, Responses
          <2> QED BY <2>1, <2>2, <2>3, BrokerAck
    <1>4. ASSUME NEW m \in DownMsgs, BrokerRepeats(m) PROVE AckInv'
          <2>1. UNCHANGED <<mq, pid_lfsr, published, asked, delivered, incoming, up>>
                BY <1>4 DEF BrokerRepeats, client, broker, app
          <2>2. outgoing[m].id \in AnyId
                BY DEF Inv, WireOK
          <2>3. \/ down' = Append(down, Response("PUBLISH", outgoing[m].id, m))
                \/ down' = Append(down, Response("PUBREL", outgoing[m].id, NoMsg))
                BY <1>4 DEF BrokerRepeats
          <2>4. /\ Response("PUBLISH", outgoing[m].id, m) \in Answers
                /\ Response("PUBLISH", outgoing[m].id, m).control \notin {"PUBACK", "PUBREC"}
                /\ Response("PUBREL", outgoing[m].id, NoMsg) \in Answers
                /\ Response("PUBREL", outgoing[m].id, NoMsg).control \notin {"PUBACK", "PUBREC"}
                BY <2>2 DEF Response, Answers, Responses
          <2> QED BY <2>1, <2>3, <2>4, BrokerAck
    <1>5. CASE UNCHANGED vars
          <2>1. UNCHANGED <<mq, pid_lfsr, published, asked, delivered, incoming, up, down>>
                BY <1>5 DEF vars, client, connection, broker, app
          <2> QED BY <2>1, BrokerAck
    <1> QED BY <1>1, <1>2, <1>3, <1>4, <1>5, PublishAck, RequestAck, SyncAck, RecvAck, SendAck DEF Next

\* As long as the identifiers do not come round, that is for the first 65,535 calls
\* or so of mqtt_publish, mqtt_subscribe and mqtt_unsubscribe, a QoS 1 or 2 PUBLISH that
\* the client regards as complete was passed on by the broker: no acknowledgement
\* completes another message, whatever is resent, repeated or lost, over any number
\* of connections.
THEOREM CompletedPublishesWereDelivered == Spec /\ NeverComesRound => []CompletedWasDelivered
    <1>1. AckInv => CompletedWasDelivered
          BY DEF AckInv, DoneOK, CompletedWasDelivered
    <1>2. Init => Inv /\ OrderInv /\ AckInv
          BY InitInv, InitOrder, InitAck
    <1>3. (Inv /\ OrderInv /\ AckInv) /\ [Next]_vars /\ [NoneTaken \/ pid_lfsr < pid_lfsr']_takes
             => (Inv /\ OrderInv /\ AckInv)'
          BY NextInv, NextOrder, NextAck
    <1> QED BY <1>1, <1>2, <1>3, PTL DEF Spec, NeverComesRound
=============================================================================
