---------------------------- MODULE ProtocolProofs ---------------------------
(***************************************************************************)
(* Theorems about the two file transfer protocols.  Ymodem_Transmit and    *)
(* Ymodem_Receive of ymodem.c, for every number of blocks and of errors,   *)
(* and every modulus of the packet numbers from 2 on: the receiver gets    *)
(* the file, though sender and receiver take answers for other packets     *)
(* than those they were meant for.  start_client of the TFTP client: what  *)
(* is read or stored is the beginning of the file, and success is true.    *)
(***************************************************************************)
EXTENDS Ymodem, TftpClient, FiniteSetTheorems, SequenceTheorems, TLAPS

pr == receiver.packets_received

\* The receiver has seen the end of the file.
EotSeen == pr = 0 /\ Len(accepted) = NBlocks

\* The ACKs on their way to the sender.
AcksIn(s) == {i \in 1 .. Len(s) : s[i].kind = "ACK"}
Acks(s) == Cardinality(AcksIn(s))

\* The sender's place in the file, and that of a packet it has sent.
Active == sender.phase \in {"name", "data", "eot"}
Pos == IF sender.phase = "name" THEN 0
       ELSE IF sender.phase = "data" THEN sender.blkNumber ELSE NBlocks + 1
Rank(p) == IF p.kind = "name" THEN 0 ELSE IF p.kind = "data" THEN p.n ELSE NBlocks + 1
Live(p) == p.kind \notin {"garbage", "rest"}

PacketOK(p) ==
    /\ p.kind \in {"name", "data", "last", "EOT", "garbage", "rest"}
    /\ IF p.kind = "data" THEN p.n \in 1 .. NBlocks ELSE p.n = 0 \/ p.kind = "rest"
    /\ p.kind = "rest" => HarmlessBytes
AllOK(s) == \A i \in 1 .. Len(s) : PacketOK(s[i])
Ordered(s) ==
    \A i, j \in 1 .. Len(s) : i <= j /\ Live(s[i]) /\ Live(s[j]) => Rank(s[i]) <= Rank(s[j])
Within(s, low, high) ==
    \A i \in 1 .. Len(s) : Live(s[i]) => low <= Rank(s[i]) /\ Rank(s[i]) <= high
NoLast(s) == \A i \in 1 .. Len(s) : s[i].kind # "last"

\* The line keeps the order, and what is on it is what the receiver counts to
\* or the one before; nothing but ends after the end was seen.
LineOK ==
    /\ AllOK(toReceiver) /\ Ordered(toReceiver)
    /\ IF EotSeen THEN Within(toReceiver, NBlocks + 1, NBlocks + 1)
       ELSE NoLast(toReceiver) /\ Within(toReceiver, pr - 1, pr)
    /\ Active => Within(toReceiver, 0, Pos)

\* The receiver has the blocks up to the one it counts to.
AcceptOK ==
    /\ Len(accepted) <= NBlocks /\ \A i \in 1 .. Len(accepted) : accepted[i] = i
    /\ EotSeen \/ (pr = 0 /\ Len(accepted) = 0) \/ pr = Len(accepted) + 1

\* The sender has moved on once at most for every ACK there was.
SenderOK ==
    /\ IF EotSeen THEN sender.phase \notin {"name", "data"} ELSE Active \/ sender.phase = "failed"
    /\ (~EotSeen /\ Active) => Pos + Acks(toSender) <= pr /\ pr <= Pos + 1

ErrorsOK ==
    /\ sender.phase = "name" => sender.blkNumber = 1
    /\ sender.pc = "end" <=> sender.phase \in {"done", "failed"}
    /\ sender.pc # "end" => sender.errors < MaxSendErrors
    /\ receiver.pc # "end" => receiver.errors <= MAX_ERRORS

\* What the sender and the receiver are, and the receiver in step.
Senders == [phase : {"name", "data", "eot", "last", "fin", "done", "failed"},
            pc : {"send", "wait", "end"}, errors : 0 .. MaxSendErrors, blkNumber : 1 .. NBlocks]
AnyReceivers == [pc : {"off", "wait", "inside", "end"}, packets_received : Nat,
                 errors : 0 .. MAX_ERRORS + 1, session_begin : BOOLEAN]
Receivers == [pc : {"off", "wait", "end"}, packets_received : 0 .. NBlocks + 1,
              errors : 0 .. MAX_ERRORS + 1, session_begin : BOOLEAN]
AllFaults == [loss : 0 .. MaxLoss, garble : 0 .. MaxGarble, flip : 0 .. MaxFlip,
              broken : 0 .. MaxBroken, early : 0 .. MaxEarly]

\* What holds in step; and always.
Inv == TypeOK /\ ErrorsOK /\ receiver \in Receivers /\ LineOK /\ AcceptOK /\ SenderOK
YmodemInv == TypeOK /\ ErrorsOK /\ (InStep => Inv)

-----------------------------------------------------------------------------
(* Counting the ACKs on the line.                                          *)

LEMMA AcksType ==
    ASSUME NEW s \in Seq(Tokens)
    PROVE  IsFiniteSet(AcksIn(s)) /\ Acks(s) \in Nat
    <1>1. IsFiniteSet(1 .. Len(s))
          BY FS_Interval
    <1>2. AcksIn(s) \in SUBSET (1 .. Len(s))
          BY DEF AcksIn
    <1> QED BY <1>1, <1>2, FS_Subset, FS_CardinalityType DEF Acks

\* One token is taken from the line.
LEMMA AcksTail ==
    ASSUME NEW s \in Seq(Tokens), s # <<>>
    PROVE  /\ Tail(s) \in Seq(Tokens) /\ Acks(Tail(s)) <= Acks(s)
           /\ Head(s).kind = "ACK" => Acks(Tail(s)) + 1 <= Acks(s)
    <1>1. /\ Tail(s) \in Seq(Tokens) /\ Len(Tail(s)) = Len(s) - 1 /\ Len(s) \in Nat /\ Len(s) >= 1
          /\ \A i \in 1 .. Len(Tail(s)) : Tail(s)[i] = s[i + 1]
          BY HeadTailProperties
    <1> DEFINE S == AcksIn(Tail(s))
               T == AcksIn(s) \ {1}
               f == [i \in S |-> i + 1]
    <1>2. \A i \in S : i \in Nat /\ i >= 1 /\ i + 1 \in T
          BY <1>1 DEF AcksIn
    <1>3. f \in Injection(S, T)
          <2> HIDE DEF S, T
          <2>1. f \in [S -> T]
                BY <1>2
          <2>2. \A i, j \in S : f[i] = f[j] => i = j
                BY <1>2
          <2> QED BY <2>1, <2>2 DEF Injection, IsInjective
    <1>4. IsFiniteSet(AcksIn(s)) /\ Acks(s) \in Nat /\ Acks(Tail(s)) \in Nat
          BY <1>1, AcksType
    <1>5. /\ IsFiniteSet(T) /\ Cardinality(T) \in Nat
          /\ Cardinality(T) = IF 1 \in AcksIn(s) THEN Acks(s) - 1 ELSE Acks(s)
          BY <1>4, FS_RemoveElement, FS_CardinalityType DEF Acks
    <1>6. Acks(Tail(s)) <= Cardinality(T)
          <2> HIDE DEF T, f
          <2> QED BY <1>3, <1>5, FS_Injection DEF Acks
    <1>7. Head(s).kind = "ACK" => 1 \in AcksIn(s)
          BY <1>1 DEF AcksIn
    <1> HIDE DEF T
    <1> QED BY <1>1, <1>4, <1>5, <1>6, <1>7

\* Ymodem_Receive answers with one byte or two, of which the first may be ACK.
LEMMA AcksConcat ==
    ASSUME NEW s \in Seq(Tokens), NEW t \in Seq(Tokens), Len(t) \in {1, 2},
           Len(t) = 2 => t[2].kind # "ACK"
    PROVE  s \o t \in Seq(Tokens) /\ Acks(s \o t) <= Acks(s) + (IF t[1].kind = "ACK" THEN 1 ELSE 0)
    <1>1. /\ s \o t \in Seq(Tokens) /\ Len(s \o t) = Len(s) + Len(t) /\ Len(s) \in Nat
          /\ \A i \in 1 .. Len(s) + Len(t) : (s \o t)[i] = IF i <= Len(s) THEN s[i] ELSE t[i - Len(s)]
          BY ConcatProperties
    <1> DEFINE T == AcksIn(s) \cup (IF t[1].kind = "ACK" THEN {Len(s) + 1} ELSE {})
    <1>2. AcksIn(s \o t) \subseteq T
          <2> SUFFICES ASSUME NEW i \in 1 .. Len(s) + Len(t), (s \o t)[i].kind = "ACK" PROVE i \in T
              BY <1>1 DEF AcksIn
          <2>1. CASE i <= Len(s)
                BY <1>1, <2>1 DEF AcksIn
          <2>2. CASE i = Len(s) + 1
                BY <1>1, <2>2
          <2>3. CASE i > Len(s) + 1
                <3>1. i - Len(s) = 2 /\ Len(t) = 2
                      BY <1>1, <2>3
                <3> QED BY <1>1, <2>3, <3>1
          <2> QED BY <1>1, <2>1, <2>2, <2>3
    <1>3. IsFiniteSet(AcksIn(s)) /\ Acks(s) \in Nat /\ Acks(s \o t) \in Nat
          BY <1>1, AcksType
    <1>4. /\ IsFiniteSet(T) /\ Cardinality(T) \in Nat
          /\ Cardinality(T) <= Acks(s) + (IF t[1].kind = "ACK" THEN 1 ELSE 0)
          <2>1. CASE t[1].kind = "ACK"
                <3>1. T = AcksIn(s) \cup {Len(s) + 1}
                      BY <2>1
                <3>2. /\ IsFiniteSet(AcksIn(s) \cup {Len(s) + 1})
                      /\ Cardinality(AcksIn(s) \cup {Len(s) + 1})
                            = IF Len(s) + 1 \in AcksIn(s) THEN Acks(s) ELSE Acks(s) + 1
                      BY <1>3, FS_AddElement DEF Acks
                <3> QED BY <1>3, <2>1, <3>1, <3>2, FS_CardinalityType
          <2>2. CASE t[1].kind # "ACK"
                <3>1. T = AcksIn(s)
                      BY <2>2
                <3> QED BY <1>3, <2>2, <3>1 DEF Acks
          <2> QED BY <2>1, <2>2
    <1> HIDE DEF T
    <1>5. Acks(s \o t) <= Cardinality(T)
          BY <1>2, <1>4, FS_Subset DEF Acks
    <1> QED BY <1>1, <1>3, <1>4, <1>5

\* What an answer does to the sender's line.
LEMMA AnswerFacts ==
    ASSUME toSender \in Seq(Tokens), YmodemAssumption,
           NEW k \in {"ACK", "NAK", "C", "CA"}, NEW l \in {"C", "CA"},
           Answer(<<k>>) \/ Answer(<<k, l>>)
    PROVE  toSender' \in Seq(Tokens) /\ Acks(toSender') <= Acks(toSender) + (IF k = "ACK" THEN 1 ELSE 0)
    <1>1. Acks(toSender) \in Nat
          BY AcksType
    <1>2. CASE SenderEnded
          <2>1. toSender' = toSender
                BY <1>2 DEF Answer
          <2> QED BY <1>1, <2>1
    <1>3. CASE ~SenderEnded
          <2>1. \A x \in {"ACK", "NAK", "C", "CA"} : Control(x) \in Tokens /\ Control(x).kind = x
                BY DEF Control, Tokens, YmodemAssumption
          <2>2. ASSUME NEW t, t = [i \in DOMAIN <<k>> |-> Control(<<k>>[i])] \/
                              t = [i \in DOMAIN <<k, l>> |-> Control(<<k, l>>[i])]
                PROVE  /\ t \in Seq(Tokens) /\ Len(t) \in {1, 2} /\ t[1].kind = k
                       /\ Len(t) = 2 => t[2].kind # "ACK"
                <3>1. CASE t = [i \in DOMAIN <<k>> |-> Control(<<k>>[i])]
                      <4>1. t = <<Control(k)>>
                            BY <3>1
                      <4> QED BY <2>1, <4>1
                <3>2. CASE t = [i \in DOMAIN <<k, l>> |-> Control(<<k, l>>[i])]
                      <4>1. t = <<Control(k), Control(l)>>
                            BY <3>2
                      <4> QED BY <2>1, <4>1
                <3> QED BY <2>2, <3>1, <3>2
          <2>3. PICK t : /\ toSender' = toSender \o t
                         /\ t \in Seq(Tokens) /\ Len(t) \in {1, 2} /\ t[1].kind = k
                         /\ Len(t) = 2 => t[2].kind # "ACK"
                BY <1>3, <2>2 DEF Answer
          <2> QED BY <2>3, AcksConcat
    <1> QED BY <1>2, <1>3

-----------------------------------------------------------------------------
(* The packets on the line.                                                *)

\* The one that is taken, and the others.
LEMMA LineTail ==
    ASSUME NEW s \in Seq(Tokens), s # <<>>, AllOK(s), Ordered(s)
    PROVE  /\ Tail(s) \in Seq(Tokens) /\ AllOK(Tail(s)) /\ Ordered(Tail(s))
           /\ Head(s) \in Tokens /\ Head(s) = s[1] /\ 1 \in 1 .. Len(s) /\ PacketOK(Head(s))
           /\ \A i \in 1 .. Len(Tail(s)) : i + 1 \in 1 .. Len(s) /\ Tail(s)[i] = s[i + 1]
           /\ Live(Head(s)) => \A i \in 1 .. Len(Tail(s)) :
                                 Live(Tail(s)[i]) => Rank(Head(s)) <= Rank(Tail(s)[i])
    <1>1. /\ Tail(s) \in Seq(Tokens) /\ Len(Tail(s)) = Len(s) - 1 /\ Len(s) \in Nat /\ Len(s) >= 1
          /\ \A i \in 1 .. Len(Tail(s)) : Tail(s)[i] = s[i + 1]
          /\ Head(s) \in Tokens /\ Head(s) = s[1]
          BY HeadTailProperties
    <1>2. /\ 1 \in 1 .. Len(s)
          /\ \A i \in 1 .. Len(Tail(s)) : i + 1 \in 1 .. Len(s) /\ 1 <= i + 1
          BY <1>1
    <1>3. PacketOK(Head(s)) /\ AllOK(Tail(s))
          BY <1>1, <1>2 DEF AllOK
    <1>4. Ordered(Tail(s))
          <2> SUFFICES ASSUME NEW i \in 1 .. Len(Tail(s)), NEW j \in 1 .. Len(Tail(s)), i <= j,
                              Live(Tail(s)[i]), Live(Tail(s)[j])
                       PROVE  Rank(Tail(s)[i]) <= Rank(Tail(s)[j])
              BY DEF Ordered
          <2>1. i + 1 <= j + 1
                BY <1>1
          <2> QED BY <1>1, <1>2, <2>1 DEF Ordered
    <1>5. ASSUME Live(Head(s)), NEW i \in 1 .. Len(Tail(s)), Live(Tail(s)[i])
          PROVE  Rank(Head(s)) <= Rank(Tail(s)[i])
          BY <1>1, <1>2, <1>5 DEF Ordered
    <1> QED BY <1>1, <1>2, <1>3, <1>4, <1>5

\* What holds of all packets holds of those left.
LEMMA WithinTail ==
    ASSUME NEW s \in Seq(Tokens), s # <<>>, AllOK(s), Ordered(s), NEW low \in Int, NEW high \in Int
    PROVE  /\ NoLast(s) => NoLast(Tail(s))
           /\ Within(s, low, high) => Within(Tail(s), low, high)
           /\ (Within(s, low, high) /\ Live(Head(s))) => Within(Tail(s), Rank(Head(s)), high)
    BY LineTail DEF Within, NoLast

\* The first token is spoilt, but none is added or moved.
LEMMA LineSpoilt ==
    ASSUME NEW s \in Seq(Tokens), s # <<>>, AllOK(s), Ordered(s), NEW q \in Tokens,
           \/ PacketOK(q) /\ ~Live(q)
           \/ q.kind = s[1].kind /\ q.n = s[1].n
    PROVE  /\ [s EXCEPT ![1] = q] \in Seq(Tokens)
           /\ AllOK([s EXCEPT ![1] = q]) /\ Ordered([s EXCEPT ![1] = q])
           /\ NoLast(s) => NoLast([s EXCEPT ![1] = q])
           /\ \A low, high \in Int : Within(s, low, high) => Within([s EXCEPT ![1] = q], low, high)
    <1> DEFINE t == [s EXCEPT ![1] = q]
    <1>1. /\ t \in Seq(Tokens) /\ Len(t) = Len(s)
          /\ \A i \in 1 .. Len(s) : t[i] = IF i = 1 THEN q ELSE s[i]
          OBVIOUS
    <1> HIDE DEF t
    <1>2. \A i \in 1 .. Len(s) : \/ PacketOK(t[i]) /\ ~Live(t[i])
                                 \/ t[i].kind = s[i].kind /\ t[i].n = s[i].n
          BY <1>1
    <1>3. AllOK(t)
          BY <1>1, <1>2 DEF AllOK, PacketOK
    <1>4. \A i \in 1 .. Len(s) : Live(t[i]) => Live(s[i]) /\ Rank(t[i]) = Rank(s[i])
          BY <1>2 DEF Live, Rank
    <1>5. Ordered(t)
          BY <1>1, <1>4 DEF Ordered
    <1>6. NoLast(s) => NoLast(t)
          BY <1>1, <1>2 DEF NoLast, Live
    <1>7. \A low, high \in Int : Within(s, low, high) => Within(t, low, high)
          BY <1>1, <1>4 DEF Within
    <1> QED BY <1>1, <1>3, <1>5, <1>6, <1>7 DEF t

\* A packet is added that none on the line is ahead of.
LEMMA LineAppend ==
    ASSUME NEW s \in Seq(Tokens), NEW p \in Tokens, AllOK(s), Ordered(s), PacketOK(p), Live(p),
           Rank(p) \in Int, Within(s, 0, Rank(p))
    PROVE  /\ Append(s, p) \in Seq(Tokens) /\ AllOK(Append(s, p)) /\ Ordered(Append(s, p))
           /\ \A i \in 1 .. Len(Append(s, p)) : i \in 1 .. Len(s) \/ Append(s, p)[i] = p
           /\ \A i \in 1 .. Len(s) : Append(s, p)[i] = s[i]
    <1> DEFINE t == Append(s, p)
    <1>1. /\ t \in Seq(Tokens) /\ Len(t) = Len(s) + 1 /\ Len(s) \in Nat
          /\ \A i \in 1 .. Len(s) : t[i] = s[i]
          /\ t[Len(s) + 1] = p
          BY AppendProperties
    <1> HIDE DEF t
    <1>2. \A i \in 1 .. Len(t) : i \in 1 .. Len(s) \/ (i = Len(s) + 1 /\ t[i] = p)
          BY <1>1
    <1>3. AllOK(t)
          BY <1>1, <1>2 DEF AllOK
    <1>4. Ordered(t)
          <2> SUFFICES ASSUME NEW i \in 1 .. Len(t), NEW j \in 1 .. Len(t), i <= j,
                              Live(t[i]), Live(t[j])
                       PROVE  Rank(t[i]) <= Rank(t[j])
              BY DEF Ordered
          <2>1. CASE j \in 1 .. Len(s)
                <3>1. i \in 1 .. Len(s)
                      BY <1>1, <2>1
                <3> QED BY <1>1, <2>1, <3>1 DEF Ordered
          <2>2. CASE j = Len(s) + 1 /\ t[j] = p
                <3>1. CASE i \in 1 .. Len(s)
                      BY <1>1, <2>2, <3>1 DEF Within
                <3>2. CASE t[i] = p
                      BY <2>2, <3>2
                <3> QED BY <1>2, <3>1, <3>2
          <2> QED BY <1>2, <2>1, <2>2
    <1> QED BY <1>1, <1>2, <1>3, <1>4 DEF t

-----------------------------------------------------------------------------
(* The sender.                                                             *)

\* The types of what the steps count with.
LEMMA BaseTypes ==
    ASSUME YmodemAssumption, TypeOK
    PROVE  /\ NBlocks \in Nat /\ NBlocks >= 1 /\ NumberMod \in Nat /\ NumberMod > 1
           /\ MaxSendErrors \in Nat /\ MaxSendErrors >= 1 /\ MAX_ERRORS \in Nat
           /\ sender \in Senders /\ receiver \in AnyReceivers /\ faults \in AllFaults
           /\ sender.blkNumber \in 1 .. NBlocks /\ sender.errors \in Nat
           /\ receiver.errors \in Nat /\ pr \in Nat
           /\ toReceiver \in Seq(Tokens) /\ toSender \in Seq(Tokens)
    <1>1. /\ NBlocks \in Nat /\ NBlocks >= 1 /\ NumberMod \in Nat /\ NumberMod > 1
          /\ MaxSendErrors \in Nat /\ MaxSendErrors >= 1 /\ MAX_ERRORS \in Nat
          BY DEF YmodemAssumption
    <1>2. /\ sender \in Senders /\ receiver \in AnyReceivers /\ faults \in AllFaults
          /\ toReceiver \in Seq(Tokens) /\ toSender \in Seq(Tokens)
          BY DEF TypeOK, Senders, AnyReceivers, AllFaults
    <1>3. sender.blkNumber \in 1 .. NBlocks /\ sender.errors \in 0 .. MaxSendErrors
          BY <1>2 DEF Senders
    <1>4. receiver.errors \in 0 .. MAX_ERRORS + 1 /\ pr \in Nat
          BY <1>2 DEF AnyReceivers, pr
    <1> QED BY <1>1, <1>2, <1>3, <1>4

LEMMA NumberTypes ==
    ASSUME YmodemAssumption, Inv
    PROVE  /\ NBlocks \in Nat /\ NBlocks >= 1 /\ NumberMod \in Nat /\ NumberMod > 1
           /\ MaxSendErrors \in Nat /\ MaxSendErrors >= 1 /\ MAX_ERRORS \in Nat
           /\ pr \in Nat /\ pr <= NBlocks + 1 /\ Len(accepted) \in Nat
           /\ Pos \in Nat /\ Pos <= NBlocks + 1 /\ Acks(toSender) \in Nat
           /\ sender.blkNumber \in 1 .. NBlocks /\ sender.errors \in Nat
           /\ receiver.errors \in Nat
    <1>1. TypeOK /\ receiver \in Receivers
          BY DEF Inv
    <1>2. pr \in 0 .. NBlocks + 1
          BY <1>1 DEF Receivers, pr
    <1>4. Len(accepted) \in Nat /\ Acks(toSender) \in Nat
          BY <1>1, AcksType DEF TypeOK
    <1>5. Pos \in Nat /\ Pos <= NBlocks + 1
          BY <1>1, BaseTypes DEF Pos
    <1> QED BY <1>1, <1>2, <1>4, <1>5, BaseTypes

LEMMA InitInv == YmodemAssumption /\ Init => Inv
    <1> SUFFICES ASSUME YmodemAssumption, Init PROVE Inv
        OBVIOUS
    <1>1. /\ NBlocks \in Nat /\ NBlocks >= 1 /\ MaxSendErrors \in Nat /\ MaxSendErrors >= 1
          /\ MAX_ERRORS \in Nat
          BY DEF YmodemAssumption
    <1>2. /\ toReceiver \in Seq(Tokens) /\ Len(toReceiver) = 0 /\ Len(toSender) = 0
          /\ toSender \in Seq(Tokens)
          /\ buf \in Seq(Nat) /\ accepted \in Seq(Nat) /\ Len(accepted) = 0
          BY DEF Init
    <1>3. Acks(toSender) = 0
          <2>1. AcksIn(toSender) = {}
                BY <1>2 DEF AcksIn
          <2> QED BY <2>1, FS_EmptySet DEF Acks
    <1>4. TypeOK /\ ErrorsOK /\ receiver \in Receivers
          <2>1. faults \in AllFaults
                BY DEF Init, AllFaults, YmodemAssumption
          <2>2. receiver \in Receivers
                BY <1>1 DEF Init, Receivers
          <2>3. TypeOK
                BY <1>1, <1>2, <2>1 DEF Init, TypeOK, AllFaults
          <2>4. ErrorsOK
                BY <1>1 DEF Init, ErrorsOK
          <2> QED BY <2>2, <2>3, <2>4
    <1>5. ~EotSeen /\ pr = 0 /\ Pos = 0 /\ Active
          BY <1>1, <1>2 DEF Init, EotSeen, pr, Pos, Active
    <1>6. LineOK
          BY <1>2 DEF LineOK, AllOK, Ordered, Within, NoLast
    <1>7. AcceptOK
          BY <1>1, <1>2, <1>5 DEF AcceptOK
    <1>8. SenderOK
          BY <1>3, <1>5 DEF SenderOK
    <1> QED BY <1>4, <1>6, <1>7, <1>8 DEF Inv

\* The sender reads an answer or misses one, and moves on for an ACK only.
LEMMA SenderMoves ==
    ASSUME YmodemAssumption, Inv, UNCHANGED <<receiver, toReceiver, buf, accepted>>,
           toSender' \in Seq(Tokens), Acks(toSender') <= Acks(toSender),
           TypeOK', ErrorsOK',
           \/ sender'.phase = sender.phase /\ sender'.blkNumber = sender.blkNumber
           \/ sender'.phase = "failed"
           \/ sender.phase = "fin" /\ sender'.phase = "done"
           \/ /\ Acks(toSender') + 1 <= Acks(toSender)
              /\ \/ sender.phase = "name" /\ sender'.phase = "data" /\ sender'.blkNumber = 1
                 \/ /\ sender.phase = "data" /\ sender'.phase = "data"
                    /\ sender'.blkNumber = sender.blkNumber + 1
                 \/ sender.phase = "data" /\ sender.blkNumber = NBlocks /\ sender'.phase = "eot"
                 \/ sender.phase = "eot" /\ sender'.phase = "last"
                 \/ sender.phase = "last" /\ sender'.phase = "fin"
    PROVE  Inv'
    <1>1. /\ NBlocks \in Nat /\ pr \in Nat /\ pr <= NBlocks + 1
          /\ Pos \in Nat /\ Acks(toSender) \in Nat /\ Acks(toSender') \in Nat
          BY NumberTypes, AcksType
    <1>2. (EotSeen' <=> EotSeen) /\ pr' = pr
          BY DEF EotSeen, pr
    <1>3. receiver' \in Receivers
          BY DEF Inv
    <1>4. AcceptOK'
          BY <1>2 DEF Inv, AcceptOK
    <1>5. sender.blkNumber \in Nat /\ sender'.blkNumber \in Nat
          <2>1. sender'.blkNumber \in 1 .. NBlocks
                BY DEF TypeOK
          <2> QED BY <1>1, <2>1, NumberTypes
    <1>6. \/ Active' /\ Active /\ Pos' = Pos
          \/ Active' /\ Active /\ Pos' = Pos + 1 /\ Acks(toSender') + 1 <= Acks(toSender)
          \/ ~Active' /\ (Active => sender'.phase = "failed" \/ (sender.phase = "eot" /\ Acks(toSender) >= 1))
          <2>1. CASE sender'.phase = sender.phase /\ sender'.blkNumber = sender.blkNumber
                BY <2>1 DEF Active, Pos
          <2>2. CASE sender'.phase = "failed"
                BY <2>2 DEF Active
          <2>3. CASE sender.phase = "fin" /\ sender'.phase = "done"
                BY <2>3 DEF Active
          <2>4. CASE /\ Acks(toSender') + 1 <= Acks(toSender)
                     /\ sender.phase = "name" /\ sender'.phase = "data" /\ sender'.blkNumber = 1
                BY <2>4 DEF Active, Pos
          <2>5. CASE /\ Acks(toSender') + 1 <= Acks(toSender)
                     /\ sender.phase = "data" /\ sender'.phase = "data"
                     /\ sender'.blkNumber = sender.blkNumber + 1
                BY <2>5 DEF Active, Pos
          <2>6. CASE /\ Acks(toSender') + 1 <= Acks(toSender)
                     /\ sender.phase = "data" /\ sender.blkNumber = NBlocks /\ sender'.phase = "eot"
                BY <2>6 DEF Active, Pos
          <2>7. CASE /\ Acks(toSender') + 1 <= Acks(toSender)
                     /\ sender.phase = "eot" /\ sender'.phase = "last"
                BY <1>1, <2>7 DEF Active
          <2>8. CASE sender.phase = "last" /\ sender'.phase = "fin"
                BY <2>8 DEF Active
          <2> QED BY <2>1, <2>2, <2>3, <2>4, <2>5, <2>6, <2>7, <2>8
    <1>7. LineOK'
          <2>1. ASSUME Active' PROVE Within(toReceiver, 0, Pos')
                <3>1. Active /\ (Pos' = Pos \/ Pos' = Pos + 1)
                      BY <1>6, <2>1
                <3>2. Within(toReceiver, 0, Pos) /\ AllOK(toReceiver)
                      BY <3>1 DEF Inv, LineOK
                <3>3. \A i \in 1 .. Len(toReceiver) : Rank(toReceiver[i]) \in Nat
                      BY <1>1, <3>2 DEF AllOK, PacketOK, Rank
                <3> QED BY <1>1, <3>1, <3>2, <3>3 DEF Within
          <2> QED BY <1>2, <2>1 DEF Inv, LineOK, AllOK, Ordered, Within, NoLast
    <1>8. SenderOK'
          <2>1. CASE EotSeen
                <3>1. sender.phase \notin {"name", "data"}
                      BY <2>1 DEF Inv, SenderOK
                <3>2. sender'.phase \notin {"name", "data"}
                      BY <3>1
                <3> QED BY <1>2, <2>1, <3>2 DEF SenderOK
          <2>2. CASE ~EotSeen
                <3>1. /\ Active \/ sender.phase = "failed"
                      /\ Active => Pos + Acks(toSender) <= pr /\ pr <= Pos + 1
                      BY <2>2 DEF Inv, SenderOK
                <3>2. CASE Active' /\ Active /\ Pos' = Pos
                      <4>1. Pos' + Acks(toSender') <= pr' /\ pr' <= Pos' + 1
                            BY <1>1, <1>2, <3>1, <3>2
                      <4> QED BY <1>2, <2>2, <3>2, <4>1 DEF SenderOK
                <3>3. CASE Active' /\ Active /\ Pos' = Pos + 1 /\ Acks(toSender') + 1 <= Acks(toSender)
                      <4>1. Pos' + Acks(toSender') <= pr' /\ pr' <= Pos' + 1
                            BY <1>1, <1>2, <3>1, <3>3
                      <4> QED BY <1>2, <2>2, <3>3, <4>1 DEF SenderOK
                <3>4. CASE ~Active' /\ (Active => sender'.phase = "failed" \/ (sender.phase = "eot" /\ Acks(toSender) >= 1))
                      <4>1. ~(sender.phase = "eot" /\ Acks(toSender) >= 1)
                            <5>1. sender.phase = "eot" => Active /\ Pos = NBlocks + 1
                                  BY DEF Active, Pos
                            <5> QED BY <1>1, <3>1, <5>1
                      <4>2. sender'.phase = "failed"
                            BY <3>1, <3>4, <4>1 DEF Active
                      <4> QED BY <1>2, <2>2, <3>4, <4>2 DEF SenderOK
                <3> QED BY <1>6, <3>2, <3>3, <3>4
          <2> QED BY <2>1, <2>2
    <1> QED BY <1>3, <1>4, <1>7, <1>8 DEF Inv

\* Counting an error keeps the packet or gives up.
LEMMA CountedFacts ==
    ASSUME YmodemAssumption, TypeOK, ErrorsOK, sender.pc = "wait"
    PROVE  /\ Counted \in Senders
           /\ \/ Counted.phase = sender.phase /\ Counted.pc = "send" /\ Counted.errors < MaxSendErrors
              \/ Counted.phase = "failed" /\ Counted.pc = "end"
           /\ Counted.blkNumber = sender.blkNumber
    <1> USE DEF Senders
    <1>1. /\ sender \in Senders
          /\ sender.errors < MaxSendErrors /\ MaxSendErrors \in Nat
          BY BaseTypes DEF Senders, ErrorsOK
    <1>2. sender.errors + 1 \in 0 .. MaxSendErrors
          BY <1>1
    <1>3. CASE sender.errors + 1 >= MaxSendErrors
          <2>1. Counted = [GoTo("failed") EXCEPT !.errors = sender.errors + 1]
                BY <1>3 DEF Counted
          <2> QED BY <1>1, <1>2, <2>1 DEF GoTo
    <1>4. CASE ~(sender.errors + 1 >= MaxSendErrors)
          <2>1. Counted = [sender EXCEPT !.errors = sender.errors + 1, !.pc = "send"]
                BY <1>4 DEF Counted
          <2>2. /\ Counted.phase = sender.phase /\ Counted.pc = "send" /\ Counted.errors = sender.errors + 1
                /\ Counted.blkNumber = sender.blkNumber
                BY <1>1, <2>1
          <2>3. Counted.errors < MaxSendErrors
                BY <1>1, <1>4, <2>2
          <2> QED BY <1>1, <1>2, <2>1, <2>2, <2>3
    <1> QED BY <1>3, <1>4

\* So does every answer that is not an ACK.
LEMMA UnacknowledgedFacts ==
    ASSUME YmodemAssumption, TypeOK, ErrorsOK, sender.pc = "wait"
    PROVE  /\ Unacknowledged \in Senders
           /\ \/ /\ Unacknowledged.phase = sender.phase /\ Unacknowledged.pc = "send"
                 /\ Unacknowledged.errors < MaxSendErrors
              \/ Unacknowledged.phase = "failed" /\ Unacknowledged.pc = "end"
              \/ sender.phase = "fin" /\ Unacknowledged.phase = "done" /\ Unacknowledged.pc = "end"
           /\ Unacknowledged.blkNumber = sender.blkNumber
    <1> USE DEF Senders
    <1>1. /\ sender \in Senders
          /\ sender.errors < MaxSendErrors /\ MaxSendErrors \in Nat
          /\ sender.phase \notin {"done", "failed"}
          BY BaseTypes DEF Senders, ErrorsOK
    <1>2. sender.errors + 1 \in 0 .. MaxSendErrors
          BY <1>1
    <1>3. CASE sender.phase \in {"name", "last"}
          <2>1. Unacknowledged = [sender EXCEPT !.pc = "send"]
                BY <1>3 DEF Unacknowledged
          <2> QED BY <1>1, <2>1
    <1>4. CASE sender.phase \in {"data", "eot"}
          <2>1. Unacknowledged = Counted
                BY <1>4 DEF Unacknowledged
          <2> QED BY <2>1, CountedFacts
    <1>5. CASE sender.phase = "fin"
          <2>1. \E ph \in {"failed", "done"} :
                   Unacknowledged = [GoTo(ph) EXCEPT !.errors = sender.errors + 1]
                BY <1>5 DEF Unacknowledged
          <2> QED BY <1>1, <1>2, <1>5, <2>1 DEF GoTo
    <1> QED BY <1>1, <1>3, <1>4, <1>5

\* An ACK moves the sender to the next packet.
LEMMA AcknowledgedFacts ==
    ASSUME YmodemAssumption, TypeOK, ErrorsOK, sender.pc = "wait"
    PROVE  /\ Acknowledged \in Senders
           /\ \/ Acknowledged.phase \notin {"done", "failed", "name"} /\ Acknowledged.pc = "send"
              \/ Acknowledged.phase = "done" /\ Acknowledged.pc = "end"
           /\ Acknowledged.pc = "send" => Acknowledged.errors < MaxSendErrors
           /\ \/ sender.phase = "name" /\ Acknowledged.phase = "data" /\ Acknowledged.blkNumber = 1
              \/ /\ sender.phase = "data" /\ Acknowledged.phase = "data"
                 /\ Acknowledged.blkNumber = sender.blkNumber + 1
              \/ sender.phase = "data" /\ sender.blkNumber = NBlocks /\ Acknowledged.phase = "eot"
              \/ sender.phase = "eot" /\ Acknowledged.phase = "last"
              \/ sender.phase = "last" /\ Acknowledged.phase = "fin"
              \/ sender.phase = "fin" /\ Acknowledged.phase = "done"
    <1> USE DEF Senders
    <1>1. /\ sender \in Senders
          /\ sender.errors < MaxSendErrors /\ MaxSendErrors \in Nat /\ MaxSendErrors >= 1
          /\ sender.phase \notin {"done", "failed"}
          /\ sender.phase = "name" => sender.blkNumber = 1
          BY BaseTypes DEF Senders, ErrorsOK
    <1>2. 0 \in 0 .. MaxSendErrors /\ NBlocks \in Nat
          BY <1>1, BaseTypes
    <1>3. CASE sender.phase = "name"
          <2>1. Acknowledged = GoTo("data")
                BY <1>3 DEF Acknowledged
          <2>3. Acknowledged = [sender EXCEPT !.phase = "data", !.pc = "send", !.errors = 0]
                BY <1>1, <2>1 DEF GoTo
          <2>4. /\ Acknowledged.phase = "data" /\ Acknowledged.pc = "send" /\ Acknowledged.errors = 0
                /\ Acknowledged.blkNumber = sender.blkNumber
                BY <1>1, <2>3
          <2>5. Acknowledged.errors < MaxSendErrors
                BY <1>1, <2>4
          <2> QED BY <1>1, <1>2, <1>3, <2>3, <2>4, <2>5
    <1>4. CASE sender.phase = "data" /\ sender.blkNumber < NBlocks
          <2>1. Acknowledged = [GoTo("data") EXCEPT !.blkNumber = sender.blkNumber + 1]
                BY <1>1, <1>4 DEF Acknowledged, GoTo
          <2>2. sender.blkNumber + 1 \in 1 .. NBlocks
                BY <1>1, <1>2, <1>4
          <2>3. Acknowledged = [sender EXCEPT !.phase = "data", !.pc = "send", !.errors = 0, !.blkNumber = sender.blkNumber + 1]
                BY <1>1, <2>1 DEF GoTo
          <2>4. /\ Acknowledged.phase = "data" /\ Acknowledged.pc = "send" /\ Acknowledged.errors = 0
                /\ Acknowledged.blkNumber = sender.blkNumber + 1
                BY <1>1, <2>3
          <2>5. Acknowledged.errors < MaxSendErrors
                BY <1>1, <2>4
          <2> QED BY <1>1, <1>2, <1>4, <2>2, <2>3, <2>4, <2>5
    <1>5. CASE sender.phase = "data" /\ sender.blkNumber = NBlocks
          <2>1. Acknowledged = GoTo("eot")
                BY <1>2, <1>5 DEF Acknowledged
          <2>3. Acknowledged = [sender EXCEPT !.phase = "eot", !.pc = "send", !.errors = 0]
                BY <1>1, <2>1 DEF GoTo
          <2>4. /\ Acknowledged.phase = "eot" /\ Acknowledged.pc = "send" /\ Acknowledged.errors = 0
                /\ Acknowledged.blkNumber = sender.blkNumber
                BY <1>1, <2>3
          <2>5. Acknowledged.errors < MaxSendErrors
                BY <1>1, <2>4
          <2> QED BY <1>1, <1>2, <1>5, <2>3, <2>4, <2>5
    <1>6. CASE sender.phase = "eot"
          <2>1. Acknowledged = GoTo("last")
                BY <1>6 DEF Acknowledged
          <2>3. Acknowledged = [sender EXCEPT !.phase = "last", !.pc = "send", !.errors = 0]
                BY <1>1, <2>1 DEF GoTo
          <2>4. /\ Acknowledged.phase = "last" /\ Acknowledged.pc = "send" /\ Acknowledged.errors = 0
                /\ Acknowledged.blkNumber = sender.blkNumber
                BY <1>1, <2>3
          <2>5. Acknowledged.errors < MaxSendErrors
                BY <1>1, <2>4
          <2> QED BY <1>1, <1>2, <1>6, <2>3, <2>4, <2>5
    <1>7. CASE sender.phase = "last"
          <2>1. Acknowledged = GoTo("fin")
                BY <1>7 DEF Acknowledged
          <2> QED BY <1>1, <1>2, <1>7, <2>1 DEF GoTo
    <1>8. CASE sender.phase = "fin"
          <2>1. Acknowledged = GoTo("done")
                BY <1>8 DEF Acknowledged
          <2> QED BY <1>1, <1>2, <1>8, <2>1 DEF GoTo
    <1>9. sender.blkNumber < NBlocks \/ sender.blkNumber = NBlocks
          BY <1>1, <1>2
    <1> QED BY <1>1, <1>3, <1>4, <1>5, <1>6, <1>7, <1>8, <1>9

LEMMA ReceiveAnswerInv ==
    ASSUME YmodemAssumption, Inv, TypeOK', ErrorsOK', ReceiveAnswer
    PROVE  Inv'
    <1>1. /\ toSender \in Seq(Tokens) /\ toSender # <<>> /\ toSender' = Tail(toSender)
          /\ sender.pc = "wait" /\ UNCHANGED <<receiver, toReceiver, buf, accepted>>
          /\ TypeOK /\ ErrorsOK
          BY DEF ReceiveAnswer, Inv, TypeOK
    <1>2. /\ toSender' \in Seq(Tokens) /\ Acks(toSender') <= Acks(toSender)
          /\ Head(toSender).kind = "ACK" => Acks(toSender') + 1 <= Acks(toSender)
          BY <1>1, AcksTail
    <1>4. CASE Head(toSender).kind = "ACK"
          <2>1. sender' = Acknowledged
                BY <1>4 DEF ReceiveAnswer
          <2> QED BY <1>1, <1>2, <1>4, <2>1, AcknowledgedFacts, SenderMoves
    <1>5. CASE Head(toSender).kind # "ACK"
          <2>1. sender' = Unacknowledged
                BY <1>5 DEF ReceiveAnswer
          <2> QED BY <1>1, <1>2, <1>5, <2>1, UnacknowledgedFacts, SenderMoves
    <1> QED BY <1>4, <1>5

LEMMA AnswerTimeoutInv ==
    ASSUME YmodemAssumption, Inv, TypeOK', ErrorsOK', AnswerTimeout
    PROVE  Inv'
    <1>1. /\ toSender \in Seq(Tokens) /\ toSender' = toSender
          /\ sender.pc = "wait" /\ UNCHANGED <<receiver, toReceiver, buf, accepted>>
          /\ TypeOK /\ ErrorsOK
          BY DEF AnswerTimeout, Inv, TypeOK
    <1>2. Acks(toSender') <= Acks(toSender)
          BY <1>1, AcksType
    <1>4. CASE sender.phase = "fin"
          <2>1. sender' = Unacknowledged
                BY <1>4 DEF AnswerTimeout
          <2> QED BY <1>1, <1>2, <2>1, UnacknowledgedFacts, SenderMoves
    <1>5. CASE sender.phase # "fin"
          <2>1. sender' = Counted
                BY <1>5 DEF AnswerTimeout
          <2> QED BY <1>1, <1>2, <2>1, CountedFacts, SenderMoves
    <1> QED BY <1>4, <1>5

LEMMA TransmitInv ==
    ASSUME YmodemAssumption, Inv, TypeOK', ErrorsOK', Transmit
    PROVE  Inv'
    <1> DEFINE p == CASE sender.phase = "name" -> Packet("name", 0)
                      [] sender.phase = "data" -> Packet("data", sender.blkNumber)
                      [] sender.phase = "last" -> Packet("last", 0)
                      [] OTHER -> Control("EOT")
    <1>1. /\ NBlocks \in Nat /\ NBlocks >= 1 /\ pr \in Nat /\ Pos \in Nat /\ Acks(toSender) \in Nat
          /\ sender.blkNumber \in 1 .. NBlocks
          BY NumberTypes
    <1>2. sender \in Senders /\ toReceiver \in Seq(Tokens)
          BY BaseTypes DEF Inv
    <1>3. /\ sender.pc = "send" /\ sender.phase \notin {"done", "failed"}
          /\ toReceiver' = Append(toReceiver, p) /\ sender' = [sender EXCEPT !.pc = "wait"]
          /\ UNCHANGED <<receiver, toSender, buf, accepted>>
          BY DEF Transmit, Inv, ErrorsOK
    <1>4. /\ p.kind = IF sender.phase \in {"name", "data", "last"} THEN sender.phase ELSE "EOT"
          /\ p.n = IF sender.phase = "data" THEN sender.blkNumber ELSE 0
          /\ p \in Tokens
          <2>1. CASE sender.phase = "name"
                <3>1. p = [kind |-> "name", n |-> 0, good |-> TRUE]
                      BY <2>1 DEF Packet
                <3> HIDE DEF p
                <3> QED BY <1>1, <2>1, <3>1 DEF Tokens
          <2>2. CASE sender.phase = "data"
                <3>1. p = [kind |-> "data", n |-> sender.blkNumber, good |-> TRUE]
                      BY <2>2 DEF Packet
                <3> HIDE DEF p
                <3> QED BY <1>1, <2>2, <3>1 DEF Tokens
          <2>3. CASE sender.phase = "last"
                <3>1. p = [kind |-> "last", n |-> 0, good |-> TRUE]
                      BY <2>3 DEF Packet
                <3> HIDE DEF p
                <3> QED BY <1>1, <2>3, <3>1 DEF Tokens
          <2>4. CASE sender.phase \notin {"name", "data", "last"}
                <3>1. p = [kind |-> "EOT", n |-> 0, good |-> TRUE]
                      BY <2>4 DEF Control
                <3> HIDE DEF p
                <3> QED BY <1>1, <2>4, <3>1 DEF Tokens
          <2> QED BY <2>1, <2>2, <2>3, <2>4
    <1> HIDE DEF p
    <1>5. PacketOK(p) /\ Live(p)
          BY <1>1, <1>4 DEF PacketOK, Live
    <1>6. /\ Rank(p) \in Int /\ Rank(p) \in 0 .. NBlocks + 1
          /\ Active => Rank(p) = Pos
          /\ sender.phase \notin {"name", "data"} => Rank(p) = NBlocks + 1
          BY <1>1, <1>4 DEF Rank, Active, Pos
    <1>7. AllOK(toReceiver) /\ Ordered(toReceiver)
          BY DEF Inv, LineOK
    <1>8. Within(toReceiver, 0, Rank(p))
          <2>1. CASE Active
                BY <1>6, <2>1 DEF Inv, LineOK
          <2>2. CASE ~Active
                <3>1. Rank(p) = NBlocks + 1
                      BY <1>6, <2>2 DEF Active
                <3> QED BY <1>1, <1>7, <3>1 DEF AllOK, PacketOK, Within, Rank
          <2> QED BY <2>1, <2>2
    <1>9. /\ toReceiver' \in Seq(Tokens) /\ AllOK(toReceiver') /\ Ordered(toReceiver')
          /\ \A i \in 1 .. Len(toReceiver') : i \in 1 .. Len(toReceiver) \/ toReceiver'[i] = p
          /\ \A i \in 1 .. Len(toReceiver) : toReceiver'[i] = toReceiver[i]
          BY <1>2, <1>3, <1>4, <1>5, <1>6, <1>7, <1>8, LineAppend
    <1>10. /\ sender'.phase = sender.phase /\ sender'.pc = "wait" /\ sender'.errors = sender.errors
           /\ sender'.blkNumber = sender.blkNumber
           BY <1>2, <1>3 DEF Senders
    <1>11. receiver' \in Receivers
           BY <1>3 DEF Inv
    <1>13. (EotSeen' <=> EotSeen) /\ pr' = pr /\ (Active' <=> Active) /\ Pos' = Pos
           BY <1>3, <1>10 DEF EotSeen, pr, Active, Pos
    <1>14. AcceptOK' /\ SenderOK'
           BY <1>3, <1>10, <1>13 DEF Inv, AcceptOK, SenderOK
    <1>15. ASSUME Active PROVE Within(toReceiver', 0, Pos)
           <2>1. Within(toReceiver, 0, Pos) /\ Rank(p) = Pos
                 BY <1>6, <1>15 DEF Inv, LineOK
           <2> QED BY <1>1, <1>9, <2>1 DEF Within
    <1>16. ASSUME EotSeen PROVE Within(toReceiver', NBlocks + 1, NBlocks + 1)
           <2>1. Within(toReceiver, NBlocks + 1, NBlocks + 1) /\ sender.phase \notin {"name", "data"}
                 BY <1>16 DEF Inv, LineOK, SenderOK
           <2> QED BY <1>1, <1>6, <1>9, <2>1 DEF Within
    <1>17. ASSUME ~EotSeen PROVE NoLast(toReceiver') /\ Within(toReceiver', pr - 1, pr)
           <2>1. NoLast(toReceiver) /\ Within(toReceiver, pr - 1, pr) /\ Active
                 BY <1>3, <1>17 DEF Inv, LineOK, SenderOK
           <2>2. Pos + Acks(toSender) <= pr /\ pr <= Pos + 1
                 BY <1>17, <2>1 DEF Inv, SenderOK
           <2>3. pr - 1 <= Rank(p) /\ Rank(p) <= pr
                 BY <1>1, <1>6, <2>1, <2>2
           <2>4. p.kind # "last"
                 BY <1>4, <2>1 DEF Active
           <2> QED BY <1>9, <2>1, <2>3, <2>4 DEF NoLast, Within
    <1>18. LineOK'
           BY <1>9, <1>13, <1>15, <1>16, <1>17 DEF LineOK
    <1> QED BY <1>11, <1>14, <1>18 DEF Inv

-----------------------------------------------------------------------------
(* The receiver.                                                           *)

\* A packet's number is not that of the packet before it.
LEMMA NumbersDiffer ==
    ASSUME NEW k \in Nat, NEW m \in Nat, m > 1
    PROVE  k % m # (k + 1) % m
    <1>1. ASSUME NEW j \in Nat PROVE j = m * (j \div m) + (j % m)
          OBVIOUS
    <1>2. ASSUME NEW j \in Nat PROVE j \div m \in Int
          OBVIOUS
    <1>3. ASSUME NEW j \in Nat PROVE j % m \in Int
          OBVIOUS
    <1>4. ASSUME NEW a \in Int, NEW b \in Int, NEW r \in Int, k = m * a + r, k + 1 = m * b + r
          PROVE  FALSE
          <2>1. m * (b - a) = 1
                BY <1>4
          <2>2. CASE b - a <= 0
                <3>1. m * (b - a) <= 0
                      BY <2>2
                <3> QED BY <2>1, <3>1
          <2>3. CASE b - a >= 1
                <3>1. m * (b - a) >= m
                      BY <2>3
                <3> QED BY <2>1, <3>1
          <2> QED BY <2>2, <2>3
    <1>5. PICK a \in Int : k = m * a + (k % m)
          <2>1. k \div m \in Int /\ k = m * (k \div m) + (k % m)
                BY <1>1, <1>2
          <2> QED BY <2>1
    <1>6. k + 1 \in Nat
          OBVIOUS
    <1>7. PICK b \in Int : k + 1 = m * b + ((k + 1) % m)
          <2>1. (k + 1) \div m \in Int /\ k + 1 = m * ((k + 1) \div m) + ((k + 1) % m)
                BY <1>1, <1>2, <1>6
          <2> QED BY <2>1
    <1> QED BY <1>3, <1>4, <1>5, <1>7

\* In step, the receiver is not inside a packet that is none.
LEMMA StaysInReceivers ==
    ASSUME YmodemAssumption, TypeOK', receiver'.pc # "inside", pr' <= NBlocks + 1
    PROVE  receiver' \in Receivers
    <1>1. receiver' \in AnyReceivers /\ NBlocks \in Nat
          BY DEF TypeOK, AnyReceivers, YmodemAssumption
    <1>2. receiver'.packets_received \in 0 .. NBlocks + 1
          BY <1>1 DEF AnyReceivers, pr
    <1> QED BY <1>1, <1>2 DEF AnyReceivers, Receivers

\* The receiver counts to the same packet as before: the line's packets are lost,
\* spoilt or taken without effect.
LEMMA ReceiverStays ==
    ASSUME YmodemAssumption, Inv, TypeOK', ErrorsOK', UNCHANGED <<sender, buf, accepted>>,
           pr' = pr, receiver'.pc # "inside", EotSeen \/ Acks(toSender') <= Acks(toSender),
           AllOK(toReceiver'), Ordered(toReceiver'), NoLast(toReceiver) => NoLast(toReceiver'),
           \A low, high \in Int : Within(toReceiver, low, high) => Within(toReceiver', low, high)
    PROVE  Inv'
    <1>1. /\ NBlocks \in Nat /\ pr \in Nat /\ Pos \in Nat
          /\ Acks(toSender) \in Nat /\ Acks(toSender') \in Nat
          BY NumberTypes, AcksType DEF TypeOK
    <1>2. (EotSeen' <=> EotSeen) /\ (Active' <=> Active) /\ Pos' = Pos
          BY DEF EotSeen, Active, Pos
    <1>3. receiver' \in Receivers
          BY StaysInReceivers, NumberTypes
    <1>4. AcceptOK'
          BY <1>2 DEF Inv, AcceptOK
    <1>5. NBlocks + 1 \in Int /\ pr - 1 \in Int /\ pr \in Int /\ 0 \in Int /\ Pos \in Int
          BY <1>1
    <1>6. LineOK'
          <2>1. EotSeen => Within(toReceiver', NBlocks + 1, NBlocks + 1)
                BY <1>5 DEF Inv, LineOK
          <2>2. ~EotSeen => NoLast(toReceiver') /\ Within(toReceiver', pr - 1, pr)
                BY <1>5 DEF Inv, LineOK
          <2>3. Active => Within(toReceiver', 0, Pos)
                BY <1>5 DEF Inv, LineOK
          <2> QED BY <1>2, <2>1, <2>2, <2>3 DEF LineOK
    <1>7. SenderOK'
          <2>1. CASE EotSeen
                BY <1>2, <2>1 DEF Inv, SenderOK
          <2>2. CASE ~EotSeen
                <3>1. Active => Pos + Acks(toSender') <= pr /\ pr <= Pos + 1
                      BY <1>1, <2>2 DEF Inv, SenderOK
                <3> QED BY <1>2, <2>2, <3>1 DEF Inv, SenderOK
          <2> QED BY <2>1, <2>2
    <1> QED BY <1>3, <1>4, <1>6, <1>7 DEF Inv

\* What is left of the line when its first packet is taken.
LEMMA Taken ==
    ASSUME Inv, toReceiver # <<>>, toReceiver' = Tail(toReceiver)
    PROVE  /\ toReceiver' \in Seq(Tokens) /\ AllOK(toReceiver') /\ Ordered(toReceiver')
           /\ NoLast(toReceiver) => NoLast(toReceiver')
           /\ \A low, high \in Int : Within(toReceiver, low, high) => Within(toReceiver', low, high)
    <1>1. toReceiver \in Seq(Tokens) /\ AllOK(toReceiver) /\ Ordered(toReceiver)
          BY DEF Inv, TypeOK, LineOK
    <1>2. ASSUME NEW low \in Int, NEW high \in Int
          PROVE  /\ NoLast(toReceiver) => NoLast(toReceiver')
                 /\ Within(toReceiver, low, high) => Within(toReceiver', low, high)
          BY <1>1, WithinTail
    <1>3. NoLast(toReceiver) => NoLast(toReceiver')
          <2>1. 0 \in Int
                OBVIOUS
          <2> QED BY <1>2, <2>1
    <1> QED BY <1>1, <1>2, <1>3, LineTail

LEMMA StartReceiverInv ==
    ASSUME YmodemAssumption, Inv, TypeOK', ErrorsOK', StartReceiver
    PROVE  Inv'
    <1>1. /\ UNCHANGED <<sender, buf, accepted, toReceiver>> /\ Answer(<<"C">>)
          /\ receiver' = [receiver EXCEPT !.pc = "wait"] /\ receiver \in Receivers
          /\ toSender \in Seq(Tokens) /\ AllOK(toReceiver) /\ Ordered(toReceiver)
          BY DEF StartReceiver, Inv, TypeOK, LineOK
    <1>2. receiver'.pc = "wait" /\ pr' = pr
          BY <1>1 DEF pr, Receivers
    <1>3. toSender' \in Seq(Tokens) /\ Acks(toSender') <= Acks(toSender) + 0
          BY <1>1, AnswerFacts
    <1>4. Acks(toSender') <= Acks(toSender)
          BY <1>1, <1>3, AcksType
    <1> QED BY <1>1, <1>2, <1>4, ReceiverStays

\* A packet that does not come or cannot be read.
LEMMA PacketErrorFacts ==
    ASSUME YmodemAssumption, TypeOK, ErrorsOK, PacketError, receiver.pc # "end"
    PROVE  /\ pr' = pr /\ receiver' \in AnyReceivers /\ receiver'.pc \in {"wait", "end"}
           /\ receiver'.pc # "end" => receiver'.errors <= MAX_ERRORS
           /\ toSender' \in Seq(Tokens) /\ Acks(toSender') <= Acks(toSender)
    <1> USE DEF AnyReceivers
    <1> DEFINE e == IF receiver.session_begin THEN receiver.errors + 1 ELSE 0
    <1>1. /\ receiver \in AnyReceivers
          /\ receiver.errors <= MAX_ERRORS /\ toSender \in Seq(Tokens) /\ MAX_ERRORS \in Nat
          BY BaseTypes DEF ErrorsOK
    <1>2. e \in 0 .. MAX_ERRORS + 1
          BY <1>1
    <1>3. \/ /\ e > MAX_ERRORS /\ receiver' = [receiver EXCEPT !.pc = "end", !.errors = e]
             /\ Answer(<<"CA", "CA">>)
          \/ ~(e > MAX_ERRORS) /\ receiver' = [receiver EXCEPT !.pc = "wait", !.errors = e] /\ Answer(<<"C">>)
          BY DEF PacketError
    <1> HIDE DEF e
    <1>4. toSender' \in Seq(Tokens) /\ Acks(toSender') <= Acks(toSender) + 0
          BY <1>1, <1>3, AnswerFacts
    <1>5. Acks(toSender') <= Acks(toSender)
          BY <1>1, <1>4, AcksType
    <1>6. CASE e > MAX_ERRORS /\ receiver' = [receiver EXCEPT !.pc = "end", !.errors = e]
          BY <1>1, <1>2, <1>4, <1>5, <1>6 DEF pr
    <1>7. CASE ~(e > MAX_ERRORS) /\ receiver' = [receiver EXCEPT !.pc = "wait", !.errors = e]
          <2>1. receiver'.errors = e /\ e <= MAX_ERRORS
                BY <1>1, <1>2, <1>7
          <2> QED BY <1>1, <1>2, <1>4, <1>5, <1>7, <2>1 DEF pr
    <1> QED BY <1>3, <1>6, <1>7

LEMMA PacketTimeoutInv ==
    ASSUME YmodemAssumption, Inv, TypeOK', ErrorsOK', PacketTimeout
    PROVE  Inv'
    <1>1. /\ UNCHANGED <<sender, buf, accepted, toReceiver>> /\ PacketError /\ receiver.pc # "end"
          /\ TypeOK /\ ErrorsOK /\ AllOK(toReceiver) /\ Ordered(toReceiver)
          BY DEF PacketTimeout, Reading, Inv, LineOK
    <1>2. pr' = pr /\ receiver'.pc # "inside" /\ Acks(toSender') <= Acks(toSender)
          BY <1>1, PacketErrorFacts
    <1> QED BY <1>1, <1>2, ReceiverStays

\* The end of the file comes when every block has been accepted.
LEMMA ReceiveEotInv ==
    ASSUME YmodemAssumption, Inv, TypeOK', ErrorsOK', receiver.pc = "wait", toReceiver # <<>>,
           toReceiver' = Tail(toReceiver), Head(toReceiver).kind = "EOT", ReceiveEot, sender' = sender
    PROVE  Inv'
    <1>1. /\ NBlocks \in Nat /\ NBlocks >= 1 /\ pr \in Nat /\ pr <= NBlocks + 1 /\ Pos \in Nat
          /\ Len(accepted) \in Nat /\ MAX_ERRORS \in Nat
          BY NumberTypes
    <1>2. /\ receiver \in Receivers /\ toReceiver \in Seq(Tokens) /\ toSender \in Seq(Tokens)
          /\ AllOK(toReceiver) /\ Ordered(toReceiver)
          BY DEF Inv, TypeOK, LineOK
    <1>3. /\ receiver' = [receiver EXCEPT !.errors = 0, !.packets_received = 0]
          /\ UNCHANGED <<sender, buf, accepted>> /\ Answer(<<"ACK">>)
          BY DEF ReceiveEot
    <1>5. receiver'.pc = "wait" /\ pr' = 0
          BY <1>2, <1>3 DEF pr, Receivers
    <1>7. /\ toReceiver' \in Seq(Tokens) /\ AllOK(toReceiver') /\ Ordered(toReceiver')
          /\ \A low, high \in Int : Within(toReceiver, low, high) => Within(toReceiver', low, high)
          BY Taken
    <1>8. Live(Head(toReceiver)) /\ Rank(Head(toReceiver)) = NBlocks + 1
          BY DEF Live, Rank
    <1>9. receiver' \in Receivers
          BY <1>1, <1>5, StaysInReceivers
    <1>11. ASSUME NEW low \in Int, NEW high \in Int, Within(toReceiver, low, high)
           PROVE  /\ low <= NBlocks + 1 /\ NBlocks + 1 <= high
                  /\ Within(toReceiver', NBlocks + 1, high)
           <2>1. Head(toReceiver) = toReceiver[1] /\ 1 \in 1 .. Len(toReceiver)
                 BY <1>2, LineTail
           <2>2. low <= NBlocks + 1 /\ NBlocks + 1 <= high
                 BY <1>8, <1>11, <2>1 DEF Within
           <2>3. Within(toReceiver', NBlocks + 1, high)
                 BY <1>2, <1>8, <1>11, WithinTail
           <2> QED BY <2>2, <2>3
    <1>12. /\ Len(accepted) = NBlocks /\ Within(toReceiver', NBlocks + 1, NBlocks + 1)
           /\ sender.phase \notin {"name", "data"}
           <2>1. CASE EotSeen
                 <3>1. Within(toReceiver, NBlocks + 1, NBlocks + 1) /\ NBlocks + 1 \in Int
                       BY <1>1, <2>1 DEF Inv, LineOK
                 <3>2. Len(accepted) = NBlocks /\ sender.phase \notin {"name", "data"}
                       BY <2>1 DEF Inv, EotSeen, SenderOK
                 <3> QED BY <1>11, <3>1, <3>2
           <2>2. CASE ~EotSeen
                 <3>1. Within(toReceiver, pr - 1, pr) /\ pr \in Int /\ pr - 1 \in Int
                       BY <1>1, <2>2 DEF Inv, LineOK
                 <3>2. pr = NBlocks + 1 /\ Within(toReceiver', NBlocks + 1, pr)
                       BY <1>1, <1>11, <3>1
                 <3>3. Len(accepted) = NBlocks
                       BY <1>1, <2>2, <3>2 DEF Inv, AcceptOK
                 <3>4. Active \/ sender.phase = "failed"
                       BY <2>2 DEF Inv, SenderOK
                 <3>5. ASSUME Active PROVE sender.phase = "eot"
                       <4>1. Within(toReceiver, 0, Pos) /\ 0 \in Int /\ Pos \in Int
                             BY <1>1, <3>5 DEF Inv, LineOK
                       <4>2. NBlocks + 1 <= Pos
                             BY <1>11, <4>1
                       <4>3. sender.blkNumber \in 1 .. NBlocks
                             BY NumberTypes
                       <4> QED BY <1>1, <3>5, <4>2, <4>3 DEF Active, Pos
                 <3> QED BY <3>2, <3>3, <3>4, <3>5
           <2> QED BY <2>1, <2>2
    <1>13. EotSeen'
           BY <1>3, <1>5, <1>12 DEF EotSeen
    <1>14. LineOK'
           <2>1. ASSUME Active' PROVE Within(toReceiver', 0, Pos')
                 <3>1. Active /\ Pos' = Pos
                       BY <1>3, <2>1 DEF Active, Pos
                 <3>2. Within(toReceiver, 0, Pos) /\ 0 \in Int /\ Pos \in Int
                       BY <1>1, <3>1 DEF Inv, LineOK
                 <3> QED BY <1>7, <3>1, <3>2
           <2> QED BY <1>7, <1>12, <1>13, <2>1 DEF LineOK
    <1>15. AcceptOK'
           BY <1>3, <1>13 DEF Inv, AcceptOK
    <1>16. SenderOK'
           BY <1>3, <1>12, <1>13 DEF SenderOK
    <1> QED BY <1>9, <1>14, <1>15, <1>16 DEF Inv

\* A packet with the number counted to is the one counted to: the file's name, the
\* next block, or the last packet after the end.
LEMMA ExpectedIsNext ==
    ASSUME YmodemAssumption, Inv, toReceiver # <<>>, Expected(Head(toReceiver)),
           Head(toReceiver).kind \notin {"garbage", "rest", "EOT"}
    PROVE  \/ EotSeen /\ Head(toReceiver).kind = "last" /\ pr = 0
           \/ ~EotSeen /\ Head(toReceiver).kind = "name" /\ pr = 0
           \/ ~EotSeen /\ Head(toReceiver).kind = "data" /\ pr # 0 /\ Head(toReceiver).n = pr
    <1> DEFINE p == Head(toReceiver)
    <1>1. /\ NBlocks \in Nat /\ NBlocks >= 1 /\ pr \in Nat /\ NumberMod \in Nat /\ NumberMod > 1
          BY NumberTypes
    <1>2. /\ toReceiver \in Seq(Tokens) /\ AllOK(toReceiver) /\ Ordered(toReceiver)
          BY DEF Inv, TypeOK, LineOK
    <1>3. p = toReceiver[1] /\ 1 \in 1 .. Len(toReceiver) /\ PacketOK(p)
          BY <1>2, LineTail
    <1>4. p.n % NumberMod = pr % NumberMod /\ p.kind \in {"name", "data", "last"}
          BY <1>3 DEF Expected, pr, PacketOK
    <1> HIDE DEF p
    <1>5. /\ Live(p)
          /\ p.kind = "name" => Rank(p) = 0 /\ p.n = 0
          /\ p.kind = "data" => Rank(p) = p.n /\ p.n \in 1 .. NBlocks
          /\ p.kind = "last" => Rank(p) = NBlocks + 1
          BY <1>3, <1>4 DEF Live, Rank, PacketOK
    <1>6. CASE EotSeen
          <2>1. Rank(p) = NBlocks + 1
                <3>1. Within(toReceiver, NBlocks + 1, NBlocks + 1)
                      BY <1>6 DEF Inv, LineOK
                <3>2. NBlocks + 1 <= Rank(p) /\ Rank(p) <= NBlocks + 1
                      BY <1>3, <1>5, <3>1 DEF Within
                <3> QED BY <1>1, <1>4, <1>5, <3>2
          <2>2. p.kind = "last"
                BY <1>1, <1>4, <1>5, <2>1
          <2> QED BY <1>6, <2>2 DEF EotSeen, p
    <1>7. CASE ~EotSeen
          <2>1. NoLast(toReceiver) /\ Within(toReceiver, pr - 1, pr)
                BY <1>7 DEF Inv, LineOK
          <2>2. p.kind \in {"name", "data"} /\ pr - 1 <= Rank(p) /\ Rank(p) <= pr
                BY <1>3, <1>4, <1>5, <2>1 DEF NoLast, Within
          <2>3. p.n \in Nat /\ Rank(p) = p.n
                BY <1>1, <1>5, <2>2
          <2>4. p.n = pr \/ p.n + 1 = pr
                BY <1>1, <2>2, <2>3
          <2>5. p.n + 1 # pr
                BY <1>1, <1>4, <2>3, NumbersDiffer
          <2>6. p.n = pr
                BY <2>4, <2>5
          <2>7. p.kind = "name" => pr = 0
                BY <1>5, <2>6
          <2>8. p.kind = "data" => pr # 0
                BY <1>1, <1>5, <2>6
          <2> QED BY <1>7, <2>2, <2>6, <2>7, <2>8 DEF p
    <1> QED BY <1>6, <1>7

\* The receiver takes the packet it counts to, and counts to the next one.
LEMMA ReceiverCounts ==
    ASSUME YmodemAssumption, Inv, ~EotSeen, toReceiver # <<>>, toReceiver' = Tail(toReceiver),
           sender' = sender, Live(Head(toReceiver)), Rank(Head(toReceiver)) = pr,
           pr' = pr + 1, receiver' \in Receivers, TypeOK', ErrorsOK', AcceptOK',
           Acks(toSender') <= Acks(toSender) + 1
    PROVE  Inv'
    <1>1. /\ NBlocks \in Nat /\ NBlocks >= 1 /\ pr \in Nat /\ Pos \in Nat /\ Acks(toSender) \in Nat
          BY NumberTypes
    <1>2. /\ toReceiver \in Seq(Tokens) /\ AllOK(toReceiver) /\ Ordered(toReceiver)
          /\ NoLast(toReceiver) /\ Within(toReceiver, pr - 1, pr)
          BY DEF Inv, TypeOK, LineOK
    <1>3. /\ AllOK(toReceiver') /\ Ordered(toReceiver') /\ NoLast(toReceiver')
          /\ \A low, high \in Int : Within(toReceiver, low, high) => Within(toReceiver', low, high)
          BY <1>2, Taken
    <1>4. ~EotSeen'
          BY <1>1 DEF EotSeen
    <1>5. /\ Head(toReceiver) = toReceiver[1] /\ 1 \in 1 .. Len(toReceiver)
          BY <1>2, LineTail
    <1>6. Acks(toSender') \in Nat
          BY AcksType DEF TypeOK
    <1>7. (Active' <=> Active) /\ Pos' = Pos
          BY DEF Active, Pos
    <1>8. Within(toReceiver', pr, pr)
          BY <1>1, <1>2, WithinTail
    <1>9. \A i \in 1 .. Len(toReceiver') : Live(toReceiver'[i]) => Rank(toReceiver'[i]) \in Int
          BY <1>1, <1>3 DEF AllOK, PacketOK, Rank
    <1>10. Within(toReceiver', pr' - 1, pr')
           BY <1>1, <1>8, <1>9 DEF Within
    <1>11. ASSUME Active PROVE Within(toReceiver', 0, Pos) /\ pr <= Pos
           <2>1. Within(toReceiver, 0, Pos)
                 BY <1>11 DEF Inv, LineOK
           <2>2. Within(toReceiver', 0, Pos)
                 BY <1>1, <1>3, <2>1
           <2> QED BY <1>5, <2>1, <2>2 DEF Within
    <1>12. LineOK'
           BY <1>3, <1>4, <1>7, <1>10, <1>11 DEF LineOK
    <1>13. SenderOK'
           <2>1. /\ Active \/ sender.phase = "failed"
                 /\ Active => Pos + Acks(toSender) <= pr
                 BY DEF Inv, SenderOK
           <2>2. Active => Pos + Acks(toSender') <= pr' /\ pr' <= Pos + 1
                 BY <1>1, <1>6, <1>11, <2>1
           <2> QED BY <1>4, <1>7, <2>1, <2>2 DEF SenderOK
    <1> QED BY <1>12, <1>13 DEF Inv

LEMMA ReceivePacketInv ==
    ASSUME YmodemAssumption, Inv, TypeOK', ErrorsOK', receiver.pc = "wait", toReceiver # <<>>,
           toReceiver' = Tail(toReceiver), Head(toReceiver).kind \notin {"garbage", "rest", "EOT"},
           ReceivePacket(Head(toReceiver)), sender' = sender
    PROVE  Inv'
    <1> DEFINE p == Head(toReceiver)
               r == [receiver EXCEPT !.pc = "wait", !.errors = 0]
    <1>1. /\ NBlocks \in Nat /\ NBlocks >= 1 /\ pr \in Nat /\ pr <= NBlocks + 1 /\ Pos \in Nat
          /\ Len(accepted) \in Nat /\ MAX_ERRORS \in Nat
          BY NumberTypes
    <1>2. /\ receiver \in Receivers /\ toReceiver \in Seq(Tokens) /\ toSender \in Seq(Tokens)
          /\ AllOK(toReceiver) /\ Ordered(toReceiver)
          BY DEF Inv, TypeOK, LineOK
    <1>3. 0 \in 0 .. MAX_ERRORS + 1 /\ 0 <= MAX_ERRORS
          BY <1>1
    <1>4. /\ r \in Receivers /\ r.errors = 0 /\ r.packets_received = pr /\ r.pc = "wait"
          BY <1>2, <1>3 DEF pr, Receivers
    <1>5. /\ toReceiver' \in Seq(Tokens) /\ AllOK(toReceiver') /\ Ordered(toReceiver')
          /\ NoLast(toReceiver) => NoLast(toReceiver')
          /\ \A low, high \in Int : Within(toReceiver, low, high) => Within(toReceiver', low, high)
          BY Taken
    <1>6. Acks(toSender) \in Nat
          BY NumberTypes
    <1>7. p \in Tokens /\ PacketOK(p)
          BY <1>2, LineTail
    <1> HIDE DEF p
    <1>8. CASE ~Expected(p)
          <2>1. Answer(<<"NAK">>) /\ receiver' = r /\ UNCHANGED <<buf, accepted>>
                BY <1>8 DEF ReceivePacket, p
          <2>2. toSender' \in Seq(Tokens) /\ Acks(toSender') <= Acks(toSender) + 0
                BY <1>2, <2>1, AnswerFacts
          <2>3. Acks(toSender') <= Acks(toSender)
                BY <1>6, <2>2
          <2>4. pr' = pr /\ receiver'.pc # "inside"
                BY <1>4, <2>1 DEF pr
          <2> HIDE DEF r
          <2> QED BY <1>5, <2>1, <2>3, <2>4, ReceiverStays
    <1>9. CASE Expected(p)
          <2>1. \/ EotSeen /\ p.kind = "last" /\ pr = 0
                \/ ~EotSeen /\ p.kind = "name" /\ pr = 0
                \/ ~EotSeen /\ p.kind = "data" /\ pr # 0 /\ p.n = pr
                BY <1>9, ExpectedIsNext DEF p
          <2>2. CASE EotSeen /\ p.kind = "last" /\ pr = 0
                <3>1. /\ Answer(<<"ACK">>) /\ receiver' = [r EXCEPT !.pc = "end"]
                      /\ UNCHANGED <<buf, accepted>>
                      <4> HIDE DEF r
                      <4>1. r.packets_received = 0 /\ Expected(p) /\ p.kind = "last"
                            BY <1>4, <1>9, <2>2
                      <4> QED BY <4>1 DEF ReceivePacket, p, r
                <3>3. pr' = pr /\ receiver'.pc = "end"
                      BY <1>4, <3>1 DEF pr, Receivers
                <3> HIDE DEF r
                <3> QED BY <1>5, <2>2, <3>1, <3>3, ReceiverStays
          <2>3. CASE ~EotSeen /\ p.kind = "name" /\ pr = 0
                <3>1. /\ Answer(<<"ACK", "C">>)
                      /\ receiver' = [r EXCEPT !.packets_received = 1, !.session_begin = TRUE]
                      /\ UNCHANGED <<buf, accepted>>
                      <4> HIDE DEF r
                      <4>1. r.packets_received = 0 /\ Expected(p) /\ p.kind # "last"
                            BY <1>4, <1>9, <2>3
                      <4> QED BY <4>1 DEF ReceivePacket, p, r
                <3>2. toSender' \in Seq(Tokens) /\ Acks(toSender') <= Acks(toSender) + 1
                      BY <1>2, <3>1, AnswerFacts
                <3>3. 1 \in 0 .. NBlocks + 1
                      BY <1>1
                <3>4. pr' = 1 /\ receiver' \in Receivers
                      BY <1>4, <3>1, <3>3 DEF pr, Receivers
                <3>7. Len(accepted) = 0
                      BY <1>1, <2>3 DEF Inv, AcceptOK
                <3>8. AcceptOK'
                      BY <1>1, <3>1, <3>4, <3>7 DEF Inv, AcceptOK
                <3>9. Live(p) /\ Rank(p) = pr
                      BY <2>3 DEF Live, Rank
                <3>10. pr' = pr + 1
                      BY <2>3, <3>4
                <3> HIDE DEF r
                <3> QED BY <2>3, <3>2, <3>4, <3>8, <3>9, <3>10, ReceiverCounts DEF p
          <2>4. CASE ~EotSeen /\ p.kind = "data" /\ pr # 0 /\ p.n = pr
                <3>1. /\ Answer(<<"ACK">>) /\ accepted' = Append(accepted, p.n)
                      /\ buf' = <<IF p.good THEN p.n ELSE BadBlock>>
                      /\ receiver' = [r EXCEPT !.packets_received = r.packets_received + 1]
                      <4> HIDE DEF r
                      <4>1. r.packets_received # 0 /\ Expected(p)
                            BY <1>4, <1>9, <2>4
                      <4> QED BY <4>1 DEF ReceivePacket, p, r
                <3>2. toSender' \in Seq(Tokens) /\ Acks(toSender') <= Acks(toSender) + 1
                      BY <1>2, <3>1, AnswerFacts
                <3>3. p.n \in 1 .. NBlocks /\ pr + 1 \in 0 .. NBlocks + 1
                      BY <1>1, <1>7, <2>4 DEF PacketOK
                <3>4. pr' = pr + 1 /\ receiver' \in Receivers
                      BY <1>4, <3>1, <3>3 DEF pr, Receivers
                <3>5. accepted \in Seq(Nat) /\ pr = Len(accepted) + 1
                      BY <2>4 DEF Inv, TypeOK, AcceptOK, EotSeen
                <3>6. p.n \in Nat
                      BY <1>1, <3>3
                <3>7. /\ Len(accepted') = Len(accepted) + 1
                      /\ \A i \in 1 .. Len(accepted) : accepted'[i] = accepted[i]
                      /\ accepted'[Len(accepted) + 1] = p.n
                      BY <3>1, <3>5, <3>6, AppendProperties
                <3>11. AcceptOK'
                      <4>1. \A i \in 1 .. Len(accepted) : accepted[i] = i
                            BY DEF Inv, AcceptOK
                      <4>2. \A i \in 1 .. Len(accepted') : i \in 1 .. Len(accepted) \/ i = Len(accepted) + 1
                            BY <1>1, <3>7
                      <4>3. \A i \in 1 .. Len(accepted') : accepted'[i] = i
                            BY <2>4, <3>5, <3>7, <4>1, <4>2
                      <4>4. Len(accepted') <= NBlocks /\ pr' = Len(accepted') + 1
                            BY <1>1, <2>4, <3>3, <3>4, <3>5, <3>7
                      <4> QED BY <4>3, <4>4 DEF AcceptOK
                <3>12. Live(p) /\ Rank(p) = pr
                      BY <2>4 DEF Live, Rank
                <3> HIDE DEF r
                <3> QED BY <2>4, <3>2, <3>4, <3>11, <3>12, ReceiverCounts DEF p
          <2> QED BY <2>1, <2>2, <2>3, <2>4
    <1> QED BY <1>8, <1>9

LEMMA ReceiveInv ==
    ASSUME YmodemAssumption, Inv, TypeOK', ErrorsOK', Receive
    PROVE  Inv'
    <1>1. /\ receiver.pc = "wait" /\ toReceiver # <<>> /\ toReceiver' = Tail(toReceiver)
          /\ sender' = sender /\ Head(toReceiver).kind # "rest" /\ TypeOK /\ ErrorsOK
          BY DEF Receive, Inv
    <1>2. CASE Head(toReceiver).kind = "garbage"
          <2>1. PacketError /\ UNCHANGED <<buf, accepted>>
                BY <1>2 DEF Receive
          <2>2. pr' = pr /\ receiver'.pc # "inside" /\ Acks(toSender') <= Acks(toSender)
                BY <1>1, <2>1, PacketErrorFacts
          <2> QED BY <1>1, <2>1, <2>2, Taken, ReceiverStays
    <1>3. CASE Head(toReceiver).kind = "EOT"
          <2>1. ReceiveEot
                BY <1>3 DEF Receive
          <2> QED BY <1>1, <1>3, <2>1, ReceiveEotInv
    <1>4. CASE Head(toReceiver).kind \notin {"garbage", "EOT"}
          <2>1. ReceivePacket(Head(toReceiver))
                BY <1>4 DEF Receive
          <2> QED BY <1>1, <1>4, <2>1, ReceivePacketInv
    <1> QED BY <1>2, <1>3, <1>4

\* The first token is replaced by one without effect, or by one of the same kind.
LEMMA Replaced ==
    ASSUME Inv, toReceiver # <<>>, NEW q \in Tokens, toReceiver' = [toReceiver EXCEPT ![1] = q],
           \/ PacketOK(q) /\ ~Live(q)
           \/ q.kind = toReceiver[1].kind /\ q.n = toReceiver[1].n
    PROVE  /\ AllOK(toReceiver') /\ Ordered(toReceiver')
           /\ NoLast(toReceiver) => NoLast(toReceiver')
           /\ \A low, high \in Int : Within(toReceiver, low, high) => Within(toReceiver', low, high)
    BY LineSpoilt DEF Inv, TypeOK, LineOK

\* A byte of a broken packet is looked at, an error if it looks like nothing.
LEMMA ReceiveByteInv ==
    ASSUME YmodemAssumption, Inv, TypeOK', ErrorsOK', ReceiveByte
    PROVE  Inv'
    <1>1. /\ receiver.pc = "wait" /\ toReceiver # <<>> /\ Head(toReceiver).kind = "rest"
          /\ sender' = sender /\ toReceiver \in Seq(Tokens)
          /\ AllOK(toReceiver) /\ Ordered(toReceiver) /\ TypeOK /\ ErrorsOK
          BY DEF ReceiveByte, Inv, TypeOK, LineOK
    <1>2. /\ Head(toReceiver) = toReceiver[1] /\ Head(toReceiver) \in Tokens
          /\ PacketOK(Head(toReceiver))
          BY <1>1, LineTail
    <1>3. HarmlessBytes /\ Head(toReceiver).n \in Nat
          BY <1>1, <1>2 DEF PacketOK, Tokens
    <1>4. /\ "EOT" \notin Bytes /\ "ABORT" \notin Bytes /\ "CA" \notin Bytes /\ "header" \notin Bytes
          BY <1>3 DEF HarmlessBytes
    <1>5. Take(1) /\ PacketError /\ UNCHANGED <<buf, accepted>>
          BY <1>4 DEF ReceiveByte
    <1>6. /\ AllOK(toReceiver') /\ Ordered(toReceiver')
          /\ NoLast(toReceiver) => NoLast(toReceiver')
          /\ \A low, high \in Int : Within(toReceiver, low, high) => Within(toReceiver', low, high)
          <2> DEFINE q == Remains(Head(toReceiver).n - 1)
          <2>1. CASE toReceiver' = Tail(toReceiver)
                BY <1>1, <2>1, Taken
          <2>2. CASE toReceiver' = [toReceiver EXCEPT ![1] = q]
                <3>1. Head(toReceiver).n - 1 \in Nat
                      BY <1>3, <1>5 DEF Take
                <3>2. q \in Tokens /\ PacketOK(q) /\ ~Live(q)
                      BY <1>3, <3>1 DEF Remains, Tokens, PacketOK, Live
                <3> HIDE DEF q
                <3> QED BY <1>1, <2>2, <3>2, Replaced
          <2> QED BY <1>5, <2>1, <2>2 DEF Take
    <1>7. pr' = pr /\ receiver'.pc # "inside" /\ Acks(toSender') <= Acks(toSender)
          BY <1>1, <1>5, PacketErrorFacts
    <1> QED BY <1>1, <1>5, <1>6, <1>7, ReceiverStays

\* In step, no packet lacks later bytes, and none is read that is none.
LEMMA NotInside ==
    ASSUME Inv PROVE ~ReceiveShort /\ ~ReceiveInside
    <1>1. receiver.pc # "inside"
          BY DEF Inv, Receivers
    <1>2. ASSUME toReceiver # <<>> PROVE Head(toReceiver).kind # "short"
          <2>1. PacketOK(Head(toReceiver))
                BY <1>2, LineTail DEF Inv, TypeOK, LineOK
          <2> QED BY <2>1 DEF PacketOK
    <1> QED BY <1>1, <1>2 DEF ReceiveShort, ReceiveInside

-----------------------------------------------------------------------------
(* The line.                                                               *)

\* The receiver does nothing while the line loses or spoils a token.
LEMMA LineStep ==
    ASSUME YmodemAssumption, Inv, TypeOK', ErrorsOK',
           UNCHANGED <<sender, receiver, buf, accepted>>, Acks(toSender') <= Acks(toSender),
           AllOK(toReceiver'), Ordered(toReceiver'), NoLast(toReceiver) => NoLast(toReceiver'),
           \A low, high \in Int : Within(toReceiver, low, high) => Within(toReceiver', low, high)
    PROVE  Inv'
    <1>1. pr' = pr /\ receiver'.pc # "inside"
          BY DEF pr, Inv, Receivers
    <1> QED BY <1>1, ReceiverStays

LEMMA LoseInv ==
    ASSUME YmodemAssumption, Inv, TypeOK', ErrorsOK', Lose
    PROVE  Inv'
    <1>1. /\ toReceiver \in Seq(Tokens) /\ toSender \in Seq(Tokens)
          /\ AllOK(toReceiver) /\ Ordered(toReceiver)
          BY DEF Inv, TypeOK, LineOK
    <1>2. UNCHANGED <<sender, receiver, buf, accepted>>
          BY DEF Lose
    <1>3. CASE toReceiver # <<>> /\ toReceiver' = Tail(toReceiver) /\ UNCHANGED toSender
          <2>1. Acks(toSender') <= Acks(toSender)
                BY <1>1, <1>3, AcksType
          <2> QED BY <1>1, <1>2, <1>3, <2>1, Taken, LineStep
    <1>4. CASE toSender # <<>> /\ toSender' = Tail(toSender) /\ UNCHANGED toReceiver
          BY <1>1, <1>2, <1>4, AcksTail, LineStep
    <1> QED BY <1>3, <1>4 DEF Lose

\* Garble, Break and Flip change the first token only.
LEMMA SpoilFirst ==
    ASSUME YmodemAssumption, Inv, TypeOK', ErrorsOK', NEW q \in Tokens, NEW kinds, Spoil(kinds, q),
           \/ PacketOK(q) /\ ~Live(q)
           \/ q.kind = toReceiver[1].kind /\ q.n = toReceiver[1].n
    PROVE  Inv'
    <1>1. /\ toReceiver # <<>> /\ toReceiver' = [toReceiver EXCEPT ![1] = q]
          /\ UNCHANGED <<sender, receiver, toSender, buf, accepted>>
          BY DEF Spoil
    <1>2. Acks(toSender') <= Acks(toSender)
          <2>1. toSender' = toSender /\ toSender \in Seq(Tokens)
                BY <1>1 DEF Inv, TypeOK
          <2>2. Acks(toSender) \in Nat
                BY <2>1, AcksType
          <2> QED BY <2>1, <2>2
    <1> QED BY <1>1, <1>2, Replaced, LineStep

LEMMA GarbleInv ==
    ASSUME YmodemAssumption, Inv, TypeOK', ErrorsOK', Garble
    PROVE  Inv'
    <1> DEFINE q == Control("garbage")
    <1>1. q \in Tokens /\ PacketOK(q) /\ ~Live(q)
          BY DEF Control, Tokens, PacketOK, Live
    <1>2. Spoil({"name", "data", "last"}, q)
          BY DEF Garble
    <1> HIDE DEF q
    <1> QED BY <1>1, <1>2, SpoilFirst

LEMMA BreakInv ==
    ASSUME YmodemAssumption, Inv, TypeOK', ErrorsOK', HarmlessBytes, Break
    PROVE  Inv'
    <1>1. "later" \notin Breaks
          BY DEF HarmlessBytes
    <1>2. \E k \in Nat, kinds \in {{"name", "data", "last"}, {"EOT"}} : Spoil(kinds, Remains(k))
          <2>1. CASE \E k \in 1 .. RestBytes : Spoil({"name", "data", "last"}, Remains(k))
                <3>1. PICK k \in 1 .. RestBytes : Spoil({"name", "data", "last"}, Remains(k))
                      BY <2>1
                <3>2. k \in Nat
                      BY <3>1 DEF YmodemAssumption
                <3> QED BY <3>1, <3>2
          <2>2. CASE Spoil({"EOT"}, Remains(1))
                BY <2>2
          <2> QED BY <1>1, <2>1, <2>2 DEF Break
    <1>3. PICK k \in Nat, kinds \in {{"name", "data", "last"}, {"EOT"}} : Spoil(kinds, Remains(k))
          BY <1>2
    <1> DEFINE q == Remains(k)
    <1>4. q \in Tokens /\ PacketOK(q) /\ ~Live(q)
          BY DEF Remains, Tokens, PacketOK, Live
    <1>5. Spoil(kinds, q)
          BY <1>3
    <1> HIDE DEF q
    <1> QED BY <1>4, <1>5, SpoilFirst

LEMMA FlipInv ==
    ASSUME YmodemAssumption, Inv, TypeOK', ErrorsOK', Flip
    PROVE  Inv'
    <1> DEFINE q == [Head(toReceiver) EXCEPT !.good = FALSE]
    <1>1. /\ Spoil({"data"}, q) /\ toReceiver # <<>>
          /\ toReceiver \in Seq(Tokens) /\ AllOK(toReceiver) /\ Ordered(toReceiver)
          BY DEF Flip, Spoil, Inv, TypeOK, LineOK
    <1>2. Head(toReceiver) \in Tokens /\ Head(toReceiver) = toReceiver[1]
          BY <1>1, LineTail
    <1>3. q \in Tokens /\ q.kind = toReceiver[1].kind /\ q.n = toReceiver[1].n
          BY <1>2 DEF Tokens
    <1> HIDE DEF q
    <1> QED BY <1>1, <1>3, SpoilFirst

-----------------------------------------------------------------------------
(* The types, in step or not.                                              *)

\* Faults are only ever added, and InStep does not come back.
LEMMA FaultsStep ==
    ASSUME YmodemAssumption, faults \in AllFaults, Next
    PROVE  /\ faults' \in AllFaults /\ (InStep' => InStep)
           /\ Break => (InStep' => HarmlessBytes)
    <1>1. MaxLoss \in Nat /\ MaxGarble \in Nat /\ MaxFlip \in Nat /\ MaxBroken \in Nat /\ MaxEarly \in Nat
          BY DEF YmodemAssumption
    <1>2. \/ faults' = faults
          \/ faults.early < MaxEarly /\ faults' = [faults EXCEPT !.early = faults.early + 1]
          \/ faults.loss < MaxLoss /\ faults' = [faults EXCEPT !.loss = faults.loss + 1]
          \/ faults.garble < MaxGarble /\ faults' = [faults EXCEPT !.garble = faults.garble + 1]
          \/ faults.flip < MaxFlip /\ faults' = [faults EXCEPT !.flip = faults.flip + 1]
          \/ faults.broken < MaxBroken /\ faults' = [faults EXCEPT !.broken = faults.broken + 1]
          BY DEF Next, SenderStep, ReceiverStep, Transmit, ReceiveAnswer, AnswerTimeout, Early,
                 StartReceiver, Receive, ReceiveByte, ReceiveShort, ReceiveInside, PacketTimeout,
                 Lose, Garble, Flip, Break
    <1>3. faults' \in AllFaults /\ (faults'.broken = faults.broken \/ faults'.broken = faults.broken + 1)
          <2>1. CASE faults' = faults
                BY <2>1
          <2>2. CASE faults.early < MaxEarly /\ faults' = [faults EXCEPT !.early = faults.early + 1]
                BY <1>1, <2>2 DEF AllFaults
          <2>3. CASE faults.loss < MaxLoss /\ faults' = [faults EXCEPT !.loss = faults.loss + 1]
                BY <1>1, <2>3 DEF AllFaults
          <2>4. CASE faults.garble < MaxGarble /\ faults' = [faults EXCEPT !.garble = faults.garble + 1]
                BY <1>1, <2>4 DEF AllFaults
          <2>5. CASE faults.flip < MaxFlip /\ faults' = [faults EXCEPT !.flip = faults.flip + 1]
                BY <1>1, <2>5 DEF AllFaults
          <2>6. CASE faults.broken < MaxBroken /\ faults' = [faults EXCEPT !.broken = faults.broken + 1]
                BY <1>1, <2>6 DEF AllFaults
          <2> QED BY <1>2, <2>1, <2>2, <2>3, <2>4, <2>5, <2>6
    <1>4. faults.broken \in Nat
          BY <1>1 DEF AllFaults
    <1>5. Break => faults'.broken = faults.broken + 1
          BY DEF Break, AllFaults
    <1> QED BY <1>3, <1>4, <1>5 DEF InStep, HarmlessBytes

\* The sender's line and state.
LEMMA SenderTypes ==
    ASSUME YmodemAssumption, TypeOK, ErrorsOK, SenderStep, faults' \in AllFaults
    PROVE  TypeOK' /\ ErrorsOK'
    <1>1. /\ sender \in Senders /\ toReceiver \in Seq(Tokens) /\ toSender \in Seq(Tokens)
          /\ NBlocks \in Nat
          BY BaseTypes
    <1>2. ASSUME sender' \in Senders, toReceiver' \in Seq(Tokens), toSender' \in Seq(Tokens),
                 UNCHANGED <<receiver, buf, accepted>>
          PROVE  TypeOK'
          BY <1>2 DEF TypeOK, Senders, AllFaults
    <1>3. ASSUME UNCHANGED receiver, sender'.phase = "name" => sender'.blkNumber = 1,
                 sender'.pc = "end" <=> sender'.phase \in {"done", "failed"},
                 sender'.pc # "end" => sender'.errors < MaxSendErrors
          PROVE  ErrorsOK'
          BY <1>3 DEF ErrorsOK
    <1>4. CASE Transmit
          <2> DEFINE p == CASE sender.phase = "name" -> Packet("name", 0)
                            [] sender.phase = "data" -> Packet("data", sender.blkNumber)
                            [] sender.phase = "last" -> Packet("last", 0)
                            [] OTHER -> Control("EOT")
          <2>1. /\ sender.pc = "send" /\ toReceiver' = Append(toReceiver, p)
                /\ sender' = [sender EXCEPT !.pc = "wait"]
                /\ UNCHANGED <<receiver, toSender, buf, accepted>>
                BY <1>4 DEF Transmit
          <2>2. sender.blkNumber \in Nat
                BY <1>1 DEF Senders
          <2>3. p \in Tokens
                <3>1. Packet("name", 0) \in Tokens /\ Packet("last", 0) \in Tokens
                      BY DEF Packet, Tokens
                <3>2. Packet("data", sender.blkNumber) \in Tokens /\ Control("EOT") \in Tokens
                      BY <2>2 DEF Packet, Control, Tokens
                <3> QED BY <3>1, <3>2
          <2> HIDE DEF p
          <2>4. toReceiver' \in Seq(Tokens)
                BY <1>1, <2>1, <2>3
          <2>5. /\ sender' \in Senders /\ sender'.phase = sender.phase /\ sender'.pc = "wait"
                /\ sender'.errors = sender.errors /\ sender'.blkNumber = sender.blkNumber
                BY <1>1, <2>1 DEF Senders
          <2>6. TypeOK'
                BY <1>1, <1>2, <2>1, <2>4, <2>5
          <2> QED BY <2>1, <2>5, <2>6 DEF ErrorsOK
    <1>5. CASE ReceiveAnswer
          <2>1. /\ sender.pc = "wait" /\ toSender' \in Seq(Tokens) /\ toReceiver' \in Seq(Tokens)
                /\ UNCHANGED <<receiver, buf, accepted>>
                /\ sender' = Acknowledged \/ sender' = Unacknowledged
                BY <1>1, <1>5, AcksTail DEF ReceiveAnswer
          <2>2. CASE sender' = Acknowledged
                BY <1>2, <1>3, <2>1, <2>2, AcknowledgedFacts
          <2>3. CASE sender' = Unacknowledged
                BY <1>2, <1>3, <2>1, <2>3, UnacknowledgedFacts DEF ErrorsOK
          <2> QED BY <2>1, <2>2, <2>3
    <1>6. CASE AnswerTimeout
          <2>1. /\ sender.pc = "wait" /\ toSender' \in Seq(Tokens) /\ toReceiver' \in Seq(Tokens)
                /\ UNCHANGED <<receiver, buf, accepted>>
                /\ sender' = Counted \/ sender' = Unacknowledged
                BY <1>1, <1>6 DEF AnswerTimeout
          <2>2. CASE sender' = Counted
                BY <1>2, <1>3, <2>1, <2>2, CountedFacts DEF ErrorsOK
          <2>3. CASE sender' = Unacknowledged
                BY <1>2, <1>3, <2>1, <2>3, UnacknowledgedFacts DEF ErrorsOK
          <2> QED BY <2>1, <2>2, <2>3
    <1> QED BY <1>4, <1>5, <1>6 DEF SenderStep

\* What a packet, true or false, does to the receiver.
LEMMA ReceivePacketTypes ==
    ASSUME YmodemAssumption, TypeOK, NEW p, p.n \in Nat, ReceivePacket(p)
    PROVE  /\ receiver' \in AnyReceivers /\ receiver'.errors = 0
           /\ toSender' \in Seq(Tokens) /\ buf' \in Seq(Nat) /\ accepted' \in Seq(Nat)
    <1> USE DEF AnyReceivers
    <1> DEFINE r == [receiver EXCEPT !.pc = "wait", !.errors = 0]
    <1>1. /\ receiver \in AnyReceivers /\ toSender \in Seq(Tokens) /\ MAX_ERRORS \in Nat
          /\ buf \in Seq(Nat) /\ accepted \in Seq(Nat)
          BY BaseTypes DEF TypeOK
    <1>2. r \in AnyReceivers /\ r.errors = 0 /\ r.packets_received \in Nat
          <2>1. 0 \in 0 .. MAX_ERRORS + 1
                BY <1>1
          <2> QED BY <1>1, <2>1
    <1> HIDE DEF r
    <1>3. \/ Answer(<<"NAK">>) /\ receiver' = r /\ UNCHANGED <<buf, accepted>>
          \/ /\ Answer(<<"ACK">>) /\ receiver' = [r EXCEPT !.pc = "end"]
             /\ UNCHANGED <<buf, accepted>>
          \/ /\ Answer(<<"ACK", "C">>) /\ UNCHANGED <<buf, accepted>>
             /\ receiver' = [r EXCEPT !.packets_received = 1, !.session_begin = TRUE]
          \/ /\ buf' = <<IF p.good THEN p.n ELSE BadBlock>> /\ accepted' = Append(accepted, p.n)
             /\ Answer(<<"ACK">>)
             /\ receiver' = [r EXCEPT !.packets_received = r.packets_received + 1]
          BY DEF ReceivePacket, r
    <1>4. toSender' \in Seq(Tokens)
          BY <1>1, <1>3, AnswerFacts
    <1>5. receiver' \in AnyReceivers /\ receiver'.errors = 0
          <2>1. CASE receiver' = r
                BY <1>2, <2>1
          <2>2. CASE receiver' = [r EXCEPT !.pc = "end"]
                BY <1>2, <2>2
          <2>3. CASE receiver' = [r EXCEPT !.packets_received = 1, !.session_begin = TRUE]
                BY <1>2, <2>3
          <2>4. CASE receiver' = [r EXCEPT !.packets_received = r.packets_received + 1]
                BY <1>2, <2>4
          <2> QED BY <1>3, <2>1, <2>2, <2>3, <2>4
    <1>6. buf' \in Seq(Nat) /\ accepted' \in Seq(Nat)
          <2>1. (IF p.good THEN p.n ELSE BadBlock) \in Nat
                BY DEF BadBlock
          <2>2. <<IF p.good THEN p.n ELSE BadBlock>> \in Seq(Nat) /\ Append(accepted, p.n) \in Seq(Nat)
                BY <1>1, <2>1
          <2> QED BY <1>1, <1>3, <2>2
    <1> QED BY <1>4, <1>5, <1>6

\* What is left on the receiver's line.
LEMMA FirstReplaced ==
    ASSUME NEW s \in Seq(Tokens), s # <<>>, NEW q \in Tokens
    PROVE  /\ [s EXCEPT ![1] = q] \in Seq(Tokens) /\ Tail(s) \in Seq(Tokens)
           /\ Head(s) \in Tokens /\ Head(s).n \in Nat
    <1>1. Tail(s) \in Seq(Tokens) /\ Head(s) \in Tokens
          BY HeadTailProperties
    <1> QED BY <1>1 DEF Tokens

LEMMA RemainsType ==
    ASSUME NEW k \in Nat PROVE Remains(k) \in Tokens
    BY DEF Remains, Tokens

\* The receiver's lines and state.
LEMMA ReceiverTypes ==
    ASSUME YmodemAssumption, TypeOK, ErrorsOK, ReceiverStep, faults' \in AllFaults
    PROVE  TypeOK' /\ ErrorsOK'
    <1>1. /\ receiver \in AnyReceivers /\ toReceiver \in Seq(Tokens) /\ toSender \in Seq(Tokens)
          /\ MAX_ERRORS \in Nat /\ RestBytes \in Nat
          /\ buf \in Seq(Nat) /\ accepted \in Seq(Nat)
          BY BaseTypes DEF TypeOK, YmodemAssumption
    <1> DEFINE Good == /\ receiver' \in AnyReceivers /\ (receiver'.pc # "end" => receiver'.errors <= MAX_ERRORS)
                       /\ toSender' \in Seq(Tokens) /\ buf' \in Seq(Nat) /\ accepted' \in Seq(Nat)
    <1>2. ASSUME Good, sender' = sender, toReceiver' \in Seq(Tokens)
          PROVE  TypeOK' /\ ErrorsOK'
          <2>1. TypeOK'
                BY <1>2 DEF TypeOK, AnyReceivers, AllFaults
          <2>2. ErrorsOK'
                BY <1>2 DEF ErrorsOK
          <2> QED BY <2>1, <2>2
    <1>3. ASSUME PacketError, receiver.pc # "end", UNCHANGED <<buf, accepted>>
          PROVE  Good
          BY <1>1, <1>3, PacketErrorFacts
    <1>4. ASSUME NEW p, p.n \in Nat, ReceivePacket(p)
          PROVE  Good
          BY <1>1, <1>4, ReceivePacketTypes
    <1>5. ASSUME ReceiveEot
          PROVE  Good
          <2>1. /\ receiver' = [receiver EXCEPT !.errors = 0, !.packets_received = 0]
                /\ UNCHANGED <<buf, accepted>> /\ Answer(<<"ACK">>)
                BY <1>5 DEF ReceiveEot
          <2>2. toSender' \in Seq(Tokens)
                BY <1>1, <2>1, AnswerFacts
          <2>3. 0 \in 0 .. MAX_ERRORS + 1 /\ 0 <= MAX_ERRORS
                BY <1>1
          <2>4. receiver' \in AnyReceivers /\ receiver'.errors = 0
                BY <1>1, <2>1, <2>3 DEF AnyReceivers
          <2> QED BY <1>1, <2>1, <2>2, <2>3, <2>4
    <1>6. ASSUME receiver.pc # "end", FalsePacket
          PROVE  Good
          <2>1. CASE PacketError /\ UNCHANGED <<buf, accepted>>
                BY <1>3, <1>6, <2>1
          <2>2. CASE \E kind \in {"name", "data", "last"}, n \in 0 .. NBlocks :
                        ReceivePacket([kind |-> kind, n |-> n, good |-> FALSE])
                <3>1. PICK kind \in {"name", "data", "last"}, n \in 0 .. NBlocks :
                        ReceivePacket([kind |-> kind, n |-> n, good |-> FALSE])
                      BY <2>2
                <3>2. n \in Nat
                      BY DEF YmodemAssumption
                <3> DEFINE p == [kind |-> kind, n |-> n, good |-> FALSE]
                <3>3. p.n \in Nat /\ ReceivePacket(p)
                      BY <3>1, <3>2
                <3> HIDE DEF p, Good
                <3> QED BY <1>4, <3>3
          <2> QED BY <1>6, <2>1, <2>2 DEF FalsePacket
    <1>7. ASSUME NEW k \in {"CA", "ACK"}, NEW l \in {"CA"}, ReturnEarly(<<k>>) \/ ReturnEarly(<<k, l>>),
                 UNCHANGED <<buf, accepted>>
          PROVE  Good
          <2>1. toSender' \in Seq(Tokens)
                BY <1>1, <1>7, AnswerFacts DEF ReturnEarly
          <2>2. receiver' \in AnyReceivers /\ receiver'.pc = "end"
                BY <1>1, <1>7 DEF ReturnEarly, AnyReceivers
          <2> QED BY <1>1, <1>7, <2>1, <2>2
    <1>8. ASSUME receiver.pc # "end", receiver' = [receiver EXCEPT !.pc = "inside"],
                 UNCHANGED <<toSender, buf, accepted>>
          PROVE  Good
          BY <1>1, <1>8 DEF AnyReceivers, ErrorsOK
    <1>9. ASSUME toReceiver # <<>>, NEW k \in {1, 2}, Take(k)
          PROVE  toReceiver' \in Seq(Tokens)
          <2>1. Head(toReceiver).n \in Nat /\ Tail(toReceiver) \in Seq(Tokens)
                BY <1>1, <1>9, RemainsType, FirstReplaced
          <2>2. CASE toReceiver' = Tail(toReceiver)
                BY <2>1, <2>2
          <2>3. CASE toReceiver' = [toReceiver EXCEPT ![1] = Remains(Head(toReceiver).n - k)]
                <3>1. Head(toReceiver).n - k \in Nat
                      BY <1>9, <2>1 DEF Take
                <3> QED BY <1>1, <1>9, <2>3, <3>1, RemainsType, FirstReplaced
          <2> QED BY <1>9, <2>2, <2>3 DEF Take
    <1>10. ASSUME toReceiver # <<>> PROVE Tail(toReceiver) \in Seq(Tokens) /\ Head(toReceiver).n \in Nat
           BY <1>1, <1>10, RemainsType, FirstReplaced
    <1>11. CASE StartReceiver
           <2>1. /\ Answer(<<"C">>) /\ receiver' = [receiver EXCEPT !.pc = "wait"] /\ receiver.pc = "off"
                 /\ UNCHANGED <<sender, toReceiver, buf, accepted>>
                 BY <1>11 DEF StartReceiver
           <2>2. toSender' \in Seq(Tokens)
                 BY <1>1, <2>1, AnswerFacts
           <2>3. Good
                 BY <1>1, <2>1, <2>2 DEF AnyReceivers, ErrorsOK
           <2> QED BY <1>1, <1>2, <2>1, <2>3
    <1> HIDE DEF Good
    <1>12. CASE Receive
           <2>1. /\ toReceiver # <<>> /\ toReceiver' = Tail(toReceiver) /\ sender' = sender
                 /\ receiver.pc # "end"
                 /\ \/ PacketError /\ UNCHANGED <<buf, accepted>>
                    \/ ReceiveEot
                    \/ ReceivePacket(Head(toReceiver))
                 BY <1>12 DEF Receive
           <2>2. Good
                 BY <1>3, <1>4, <1>5, <1>10, <2>1
           <2> QED BY <1>2, <1>10, <2>1, <2>2
    <1>13. CASE ReceiveByte
           <2>1. toReceiver # <<>> /\ sender' = sender /\ receiver.pc # "end"
                 BY <1>13 DEF ReceiveByte
           <2>2. /\ \E k \in {1, 2} : Take(k)
                 /\ \/ PacketError /\ UNCHANGED <<buf, accepted>>
                    \/ ReceiveEot
                    \/ (ReturnEarly(<<"CA", "CA">>) \/ ReturnEarly(<<"ACK">>)) /\ UNCHANGED <<buf, accepted>>
                    \/ /\ receiver' = [receiver EXCEPT !.pc = "inside"]
                       /\ UNCHANGED <<toSender, buf, accepted>>
                 BY <1>13 DEF ReceiveByte
           <2>3. Good
                 BY <1>3, <1>5, <1>7, <1>8, <2>1, <2>2
           <2> QED BY <1>2, <1>9, <2>1, <2>2, <2>3
    <1>14. CASE ReceiveShort
           <2>1. /\ toReceiver # <<>> /\ toReceiver' = Tail(toReceiver) /\ sender' = sender
                 /\ receiver.pc # "end" /\ receiver' = [receiver EXCEPT !.pc = "inside"]
                 /\ UNCHANGED <<toSender, buf, accepted>>
                 BY <1>14 DEF ReceiveShort
           <2> QED BY <1>2, <1>8, <1>10, <2>1
    <1>15. CASE ReceiveInside
           <2>1. toReceiver # <<>> /\ sender' = sender /\ receiver.pc = "inside"
                 BY <1>15 DEF ReceiveInside
           <2>2. CASE /\ toReceiver' = Tail(toReceiver)
                      /\ FalsePacket \/ UNCHANGED <<receiver, toSender, buf, accepted>>
                 <3>1. CASE FalsePacket
                       BY <1>2, <1>6, <1>10, <2>1, <2>2, <3>1
                 <3>2. CASE UNCHANGED <<receiver, toSender, buf, accepted>>
                       <4>1. Good
                             BY <1>1, <2>1, <3>2 DEF ErrorsOK, Good
                       <4> QED BY <1>2, <1>10, <2>1, <2>2, <4>1
                 <3> QED BY <2>2, <3>1, <3>2
           <2>3. CASE FalsePacket /\ \E k \in 1 .. RestBytes : toReceiver' = [toReceiver EXCEPT ![1] = Remains(k)]
                 <3>1. PICK k \in 1 .. RestBytes : toReceiver' = [toReceiver EXCEPT ![1] = Remains(k)]
                       BY <2>3
                 <3>2. k \in Nat
                       BY <1>1
                 <3>3. toReceiver' \in Seq(Tokens)
                       BY <1>1, <2>1, <3>1, <3>2, RemainsType, FirstReplaced
                 <3> QED BY <1>2, <1>6, <2>1, <2>3, <3>3
           <2> QED BY <1>15, <2>2, <2>3 DEF ReceiveInside
    <1>16. CASE PacketTimeout
           <2>1. /\ PacketError /\ UNCHANGED <<sender, toReceiver, buf, accepted>> /\ receiver.pc # "end"
                 BY <1>16 DEF PacketTimeout, Reading
           <2> QED BY <1>1, <1>2, <1>3, <2>1
    <1> QED BY <1>11, <1>12, <1>13, <1>14, <1>15, <1>16 DEF ReceiverStep

\* The line's faults.
LEMMA LineTypes ==
    ASSUME YmodemAssumption, TypeOK, ErrorsOK, Lose \/ Garble \/ Flip \/ Break, faults' \in AllFaults
    PROVE  TypeOK' /\ ErrorsOK'
    <1>1. toReceiver \in Seq(Tokens) /\ toSender \in Seq(Tokens) /\ RestBytes \in Nat
          BY BaseTypes DEF YmodemAssumption
    <1>2. ASSUME toReceiver' \in Seq(Tokens), toSender' \in Seq(Tokens),
                 UNCHANGED <<sender, receiver, buf, accepted>>
          PROVE  TypeOK' /\ ErrorsOK'
          BY <1>2 DEF TypeOK, ErrorsOK, AllFaults
    <1>3. ASSUME NEW kinds, NEW q \in Tokens, Spoil(kinds, q)
          PROVE  TypeOK' /\ ErrorsOK'
          BY <1>1, <1>2, <1>3, FirstReplaced DEF Spoil
    <1>4. Control("garbage") \in Tokens /\ Short \in Tokens
          BY DEF Control, Short, Tokens
    <1>5. CASE Lose
          <2>1. /\ toReceiver' \in {toReceiver, Tail(toReceiver)} /\ toSender' \in {toSender, Tail(toSender)}
                /\ toReceiver' # toReceiver => toReceiver # <<>>
                /\ toSender' # toSender => toSender # <<>>
                /\ UNCHANGED <<sender, receiver, buf, accepted>>
                BY <1>5 DEF Lose
          <2>2. toReceiver' \in Seq(Tokens) /\ toSender' \in Seq(Tokens)
                BY <1>1, <1>4, <2>1, FirstReplaced
          <2> QED BY <1>2, <2>1, <2>2
    <1>6. CASE Garble
          BY <1>3, <1>4, <1>6 DEF Garble
    <1>7. CASE Flip
          <2> DEFINE q == [Head(toReceiver) EXCEPT !.good = FALSE]
          <2>1. Spoil({"data"}, q) /\ toReceiver # <<>>
                BY <1>7 DEF Flip, Spoil
          <2>2. Head(toReceiver) \in Tokens
                BY <1>1, <1>4, <2>1, FirstReplaced
          <2>3. q \in Tokens
                BY <2>2 DEF Tokens
          <2> HIDE DEF q
          <2> QED BY <1>3, <2>1, <2>3
    <1>8. CASE Break
          <2>1. CASE \E k \in 1 .. RestBytes : Spoil({"name", "data", "last"}, Remains(k))
                <3>1. PICK k \in 1 .. RestBytes : Spoil({"name", "data", "last"}, Remains(k))
                      BY <2>1
                <3>2. k \in Nat
                      BY <1>1
                <3> QED BY <1>3, <3>1, <3>2, RemainsType
          <2>2. CASE Spoil({"name", "data", "last"}, Short)
                BY <1>3, <1>4, <2>2
          <2>3. CASE Spoil({"EOT"}, Remains(1))
                BY <1>3, <2>3, RemainsType
          <2> QED BY <1>8, <2>1, <2>2, <2>3 DEF Break
    <1> QED BY <1>5, <1>6, <1>7, <1>8

LEMMA NextInv == ASSUME YmodemAssumption, YmodemInv, [Next]_vars PROVE YmodemInv'
    <1>1. CASE Next
          <2>1. TypeOK /\ ErrorsOK /\ faults \in AllFaults
                BY BaseTypes DEF YmodemInv
          <2>2. faults' \in AllFaults /\ (InStep' => InStep) /\ (Break => (InStep' => HarmlessBytes))
                BY <1>1, <2>1, FaultsStep
          <2>3. TypeOK' /\ ErrorsOK'
                BY <1>1, <2>1, <2>2, SenderTypes, ReceiverTypes, LineTypes DEF Next
          <2>4. ASSUME InStep' PROVE Inv'
                <3>1. Inv /\ (Break => HarmlessBytes)
                      BY <2>2, <2>4 DEF YmodemInv
                <3>2. CASE SenderStep
                      BY <2>3, <3>1, <3>2, TransmitInv, ReceiveAnswerInv, AnswerTimeoutInv DEF SenderStep
                <3>3. CASE ReceiverStep
                      BY <2>3, <3>1, <3>3, StartReceiverInv, ReceiveInv, ReceiveByteInv, NotInside,
                         PacketTimeoutInv DEF ReceiverStep
                <3>4. CASE Lose \/ Garble \/ Flip \/ Break
                      BY <2>3, <3>1, <3>4, LoseInv, GarbleInv, FlipInv, BreakInv
                <3> QED BY <1>1, <3>2, <3>3, <3>4 DEF Next
          <2> QED BY <2>3, <2>4 DEF YmodemInv
    <1>2. CASE UNCHANGED vars
          <2>1. TypeOK' /\ ErrorsOK' /\ (InStep' <=> InStep)
                BY <1>2 DEF vars, YmodemInv, TypeOK, ErrorsOK, InStep, HarmlessBytes
          <2>2. Inv => Inv'
                BY <1>2, <2>1 DEF vars, Inv, LineOK, AcceptOK, SenderOK, EotSeen, pr, Active, Pos,
                   AllOK, Ordered, Within, NoLast, PacketOK, Live, Rank, Acks, AcksIn
          <2> QED BY <2>1, <2>2 DEF YmodemInv
    <1> QED BY <1>1, <1>2

\* What the receiver has accepted is the beginning of the file, block by block.
LEMMA AcceptedBlocks ==
    ASSUME YmodemAssumption, Inv
    PROVE  AcceptedIsPrefix /\ (Len(accepted) = NBlocks => accepted = Blocks)
    <1>1. /\ NBlocks \in Nat /\ accepted \in Seq(Nat)
          /\ Len(accepted) \in Nat /\ Len(accepted) <= NBlocks
          /\ \A i \in 1 .. Len(accepted) : accepted[i] = i
          BY NumberTypes DEF Inv, TypeOK, AcceptOK
    <1>2. /\ Blocks \in Seq(Nat) /\ Len(Blocks) = NBlocks
          /\ \A i \in 1 .. NBlocks : Blocks[i] = i
          BY <1>1 DEF Blocks
    <1>3. /\ SubSeq(Blocks, 1, Len(accepted)) \in Seq(Nat)
          /\ Len(SubSeq(Blocks, 1, Len(accepted))) = Len(accepted)
          /\ \A i \in 1 .. Len(accepted) : SubSeq(Blocks, 1, Len(accepted))[i] = Blocks[i]
          BY <1>1, <1>2
    <1>4. \A i \in 1 .. Len(accepted) : accepted[i] = SubSeq(Blocks, 1, Len(accepted))[i]
          BY <1>1, <1>2, <1>3
    <1>5. accepted = SubSeq(Blocks, 1, Len(accepted))
          BY <1>1, <1>3, <1>4, SeqEqual
    <1>6. AcceptedIsPrefix
          BY <1>1, <1>2, <1>5 DEF AcceptedIsPrefix, IsPrefix
    <1>7. Len(accepted) = NBlocks => accepted = Blocks
          BY <1>1, <1>2, SeqEqual
    <1> QED BY <1>6, <1>7

\* Whatever tokens the line loses or spoils, and whatever answers are read for
\* other packets than those they were meant for, Ymodem_Receive accepts the blocks
\* of the file in order, each once (ymodem.c:224), for every number of blocks,
\* of errors and of faults, and every modulus of the packet numbers above 1; also
\* when packets lose their first bytes and Receive_Packet (ymodem.c:150) goes
\* through the others one by one, as long as none of them looks like a header or
\* a control byte.  The types hold whatever the bytes look like.
THEOREM YmodemReceivesPrefix == ASSUME YmodemAssumption PROVE Spec => []ReceivedIsPrefix
    <1>1. Init => YmodemInv
          BY InitInv DEF YmodemInv, Inv
    <1>2. YmodemInv /\ [Next]_vars => YmodemInv'
          BY NextInv
    <1>3. YmodemInv => ReceivedIsPrefix
          BY AcceptedBlocks DEF ReceivedIsPrefix, YmodemInv
    <1> QED BY <1>1, <1>2, <1>3, PTL DEF Spec

\* In step, when Ymodem_Transmit returns 0 (ymodem.c:756), the receiver has accepted
\* every block: the sender cannot have got past the EOT without an ACK for it.
THEOREM YmodemSuccessIsTrue == ASSUME YmodemAssumption PROVE Spec => []SuccessIsComplete
    <1>1. Init => YmodemInv
          BY InitInv DEF YmodemInv, Inv
    <1>2. YmodemInv /\ [Next]_vars => YmodemInv'
          BY NextInv
    <1>3. ASSUME YmodemInv PROVE SuccessIsComplete
          <2> SUFFICES ASSUME InStep, sender.phase = "done" PROVE accepted = Blocks
              BY DEF SuccessIsComplete, SuccessIsTrue
          <2>1. Inv
                BY <1>3 DEF YmodemInv
          <2>2. EotSeen
                BY <2>1 DEF Inv, SenderOK, Active
          <2> QED BY <2>1, <2>2, AcceptedBlocks DEF EotSeen
    <1> QED BY <1>1, <1>2, <1>3, PTL DEF Spec


-----------------------------------------------------------------------------
(* The TFTP client: the inductive invariant.                               *)

Ports == TIDs \cup {SRV_PORT}
Packets == [op : {"RRQ", "WRQ", "DATA", "ACK", "ERROR"}, n : 0 .. BlockMod + UNKNOWN_TID, data : 0 .. Padded]
Clients == [phase : {"request", "transfer", "done", "failed"}, pc : {"send", "recv", "end"},
            timeout_tries : 0 .. MaxTries, err_blck_tries : 0 .. MaxTries,
            expected : 0 .. BlockMod - 1, otr : Ports, dest_tid : Ports,
            out : Packets, block : 0 .. LastBlock + 1]

\* What the locals of start_client say of the blocks transferred so far.
ReadingOK(c) ==
    /\ c.out.op # "DATA"
    /\ c.phase = "request" => c.expected = 1
    /\ c.phase = "transfer" => c.expected \in 1 .. FullBlocks
WritingOK(c) ==
    /\ c.out.op # "ACK"
    /\ c.phase = "request" => c.out.op # "DATA" /\ c.block = 0 /\ c.expected = 0
    /\ c.phase = "transfer" => /\ c.out.op = "DATA" /\ c.out.n = c.block /\ c.out.data = c.block
                               /\ c.expected = c.block /\ c.block \in 1 .. LastBlock

ClientOK(c) ==
    /\ c \in Clients
    /\ c.pc = "end" <=> c.phase \in {"done", "failed"}
    /\ c.pc # "end" => c.timeout_tries >= 1 /\ c.err_blck_tries >= 1
    /\ opcode = "RRQ" => ReadingOK(c)
    /\ opcode = "WRQ" => WritingOK(c)

\* The client's file has the blocks up to the one expected.
FileOK(c, f) ==
    /\ f \in Seq(1 .. Padded) /\ Len(f) <= LastBlock /\ \A i \in 1 .. Len(f) : f[i] = i
    /\ opcode = "WRQ" => Len(f) = 0
    /\ opcode = "RRQ" => /\ c.phase = "request" => Len(f) = 0
                         /\ c.phase = "transfer" => Len(f) = c.expected
                         /\ c.phase = "done" => Len(f) = LastBlock

\* A server has the first blocks of the file, and knows the last one if that is
\* short.
Serving(s) ==
    /\ s.block <= LastBlock /\ (s.state = "idle" => s.block = 0)
    /\ opcode = "RRQ" => Len(s.file) = 0
    /\ opcode = "WRQ" => /\ Len(s.file) = s.block /\ \A i \in 1 .. Len(s.file) : s.file[i] = i
                         /\ s.block > FullBlocks => s.state = "complete"

\* A packet goes between the client and a server, and only the side that has the
\* file sends blocks.
PacketFits(p) ==
    /\ p \in [from : TIDs \cup {ME}, to : Ports \cup {ME}, m : Packets]
    /\ p.to = ME <=> p.from # ME
    /\ (opcode = "RRQ" /\ p.m.op = "DATA") => p.to = ME /\ p.m.data \in 1 .. LastBlock /\ p.m.n = p.m.data
    /\ (opcode = "WRQ" /\ p.m.op = "DATA") => p.to # ME
    /\ (opcode = "WRQ" /\ p.m.op = "ACK") => p.to = ME

Servers == [state : {"idle", "busy", "complete", "aborted"}, block : Nat, file : Seq(Nat)]

\* Writing, the client sends no block it has not come to, and an ACK stands for
\* blocks its server has stored.
Given(p, c, s) ==
    opcode = "WRQ" =>
        /\ p.m.op = "DATA" => p.m.data \in 1 .. LastBlock /\ p.m.data <= c.block /\ p.m.n = p.m.data
        /\ p.m.op = "ACK" => p.m.n <= s[p.from].block

\* No server has more than the client has sent it, and no packet says otherwise.
Honest(c, s, n) ==
    /\ \A t \in TIDs : Serving(s[t]) /\ (opcode = "WRQ" => s[t].block <= c.block)
    /\ \A p \in n : Given(p, c, s)

InvOf(c, f, s, n) ==
    /\ opcode \in {"RRQ", "WRQ"} /\ ClientOK(c) /\ FileOK(c, f)
    /\ s \in [TIDs -> Servers]
    /\ \A p \in n : PacketFits(p)
    /\ opcode = "RRQ" \/ c.phase # "failed" => Honest(c, s, n)
    /\ opcode = "WRQ" /\ c.phase = "done" => c.dest_tid \in TIDs /\ s[c.dest_tid].block = LastBlock

\* The inductive invariant.
TftpInv == InvOf(client, file, server, net)

-----------------------------------------------------------------------------
(* What start_client makes of a packet or of its disk.                     *)

\* What every lemma of this part assumes.
Setting == TftpAssumption /\ FewerBlocksThanNumbers /\ opcode \in {"RRQ", "WRQ"}

\* Block numbers are the blocks themselves while they do not come round.
LEMMA SmallRemainder == ASSUME NEW b \in Nat, NEW a \in Nat, a < b PROVE a % b = a
    OBVIOUS

\* The constants, and the sizes that depend on the request.
LEMMA TftpNumbers ==
    ASSUME TftpAssumption, FewerBlocksThanNumbers, opcode \in {"RRQ", "WRQ"}
    PROVE  /\ FullBlocks \in Nat /\ BlockMod \in Nat /\ BlockMod >= 2 /\ MaxTries \in Nat /\ MaxTries >= 2
           /\ LastBlock \in Nat /\ FullBlocks <= LastBlock /\ LastBlock <= FullBlocks + 1
           /\ LastBlock < BlockMod /\ Padded = LastBlock + 1 /\ Padded \in Nat
           /\ opcode = "RRQ" \/ Rest => LastBlock = FullBlocks + 1
           /\ \A i \in 0 .. LastBlock : i % BlockMod = i
           /\ ME \notin Ports /\ SRV_PORT \notin TIDs
           /\ \A d \in 0 .. LastBlock : IsFull(d) <=> d <= FullBlocks
    <1>1. FullBlocks \in Nat /\ BlockMod \in Nat /\ BlockMod >= 2 /\ MaxTries \in Nat /\ MaxTries >= 2
          BY DEF TftpAssumption
    <1>2. /\ LastBlock \in Nat /\ FullBlocks <= LastBlock /\ LastBlock <= FullBlocks + 1
          /\ LastBlock < BlockMod /\ Padded = LastBlock + 1 /\ Padded \in Nat
          /\ opcode = "RRQ" \/ Rest => LastBlock = FullBlocks + 1
          BY <1>1 DEF LastBlock, Padded, FewerBlocksThanNumbers
    <1>3. \A i \in 0 .. LastBlock : i % BlockMod = i
          BY <1>1, <1>2
    <1>4. ME \notin Ports /\ SRV_PORT \notin TIDs
          BY DEF TftpAssumption, ME, SRV_PORT, Ports
    <1>5. \A d \in 0 .. LastBlock : IsFull(d) <=> d <= FullBlocks
          BY <1>1, <1>2 DEF IsFull
    <1> QED BY <1>1, <1>2, <1>3, <1>4, <1>5

\* A packet of the client's own.
Sendable(m) == m \in Packets /\ (opcode = "RRQ" => m.op # "DATA") /\ (opcode = "WRQ" => m.op # "ACK")

SentOK(r) ==
    \A q \in r.sent : /\ PacketFits(q) /\ q.from = ME
                      /\ (opcode = "WRQ" /\ r.c.phase # "failed") => q.m.op # "DATA"

\* A packet the client may send goes to a server.
LEMMA ClientSends ==
    ASSUME Setting, NEW to \in Ports, NEW m, Sendable(m)
    PROVE  PacketFits(Send(ME, to, m)) /\ Send(ME, to, m).from = ME /\ Send(ME, to, m).m = m
    BY TftpNumbers DEF Setting, PacketFits, Send, Sendable

\* error_package.
LEMMA ErrorSendable ==
    ASSUME Setting, NEW code \in 0 .. 5
    PROVE  Sendable(Error(code)) /\ Error(code).op = "ERROR"
    BY TftpNumbers DEF Setting, Sendable, Error, Pkt, Packets, NoData, UNKNOWN_TID

\* The client ends.
LEMMA ExitFacts ==
    ASSUME Setting, NEW c \in Clients, Sendable(c.out), NEW how \in {"done", "failed"}, NEW sent,
           NEW r, r = Exit(c, how, sent)
    PROVE  /\ ClientOK(r.c) /\ r.sent = sent /\ r.wrote = <<>> /\ r.c.phase = how
           /\ r.c.block = c.block /\ r.c.dest_tid = c.dest_tid /\ r.c.expected = c.expected
    BY DEF Exit, Result, ClientOK, Clients, Sendable, ReadingOK, WritingOK, Setting

\* "Maximum tries reached".
LEMMA GiveUpFacts ==
    ASSUME Setting, NEW c \in Clients, Sendable(c.out)
    PROVE  /\ ClientOK(GiveUp(c).c) /\ GiveUp(c).c.phase = "failed"
           /\ SentOK(GiveUp(c)) /\ GiveUp(c).wrote = <<>>
    <1> DEFINE m == IF c.out.op = "DATA" /\ ~IsFull(c.out.data) THEN [c.out EXCEPT !.data = Padded] ELSE c.out
    <1>1. c.otr \in Ports
          BY DEF Clients
    <1>2. Sendable(m)
          BY TftpNumbers DEF Setting, Sendable, Packets
    <1> HIDE DEF m
    <1>3. PacketFits(Send(ME, c.otr, m)) /\ Send(ME, c.otr, m).from = ME
          BY <1>1, <1>2, ClientSends
    <1> DEFINE S == {Send(ME, c.otr, m)}
               r == Exit(c, "failed", S)
    <1>4. GiveUp(c) = r
          BY DEF GiveUp, m
    <1>a. \A q \in S : PacketFits(q) /\ q.from = ME
          BY <1>3
    <1> HIDE DEF S
    <1>5. /\ ClientOK(GiveUp(c).c) /\ GiveUp(c).sent = S /\ GiveUp(c).wrote = <<>>
          /\ GiveUp(c).c.phase = "failed"
          BY <1>4, ExitFacts
    <1> QED BY <1>a, <1>5 DEF SentOK

\* Another turn of a loop.
LEMMA AgainFacts ==
    ASSUME Setting, NEW c \in Clients, Sendable(c.out), NEW tries \in 0 .. MaxTries,
           c.phase \in {"request", "transfer"}, opcode = "RRQ" => ReadingOK(c), opcode = "WRQ" => WritingOK(c),
           NEW r, r = Again(c, tries)
    PROVE  /\ ClientOK(r.c) /\ SentOK(r) /\ r.wrote = <<>>
           /\ r.c.phase # "failed" => /\ r.c.phase = c.phase /\ r.c.expected = c.expected
                                      /\ r.c.block = c.block /\ r.c.dest_tid = c.dest_tid
    <1>1. CASE tries = 0
          <2> DEFINE d == [c EXCEPT !.err_blck_tries = 0]
          <2>1. d \in Clients /\ Sendable(d.out)
                BY TftpNumbers DEF Setting, Clients
          <2> HIDE DEF d
          <2>2. /\ ClientOK(GiveUp(d).c) /\ GiveUp(d).c.phase = "failed"
                /\ SentOK(GiveUp(d)) /\ GiveUp(d).wrote = <<>>
                BY <2>1, GiveUpFacts
          <2>3. r = GiveUp(d)
                BY <1>1 DEF Again, d
          <2> QED BY <2>2, <2>3
    <1>2. CASE tries # 0
          <2> DEFINE d == [c EXCEPT !.err_blck_tries = tries, !.timeout_tries = MaxTries, !.pc = "send"]
          <2>1. r.c = d /\ r.sent = {} /\ r.wrote = <<>>
                BY <1>2 DEF Again, Result
          <2>0. MaxTries \in 0 .. MaxTries
                BY TftpNumbers DEF Setting
          <2>2. /\ d \in Clients /\ d.pc = "send" /\ d.phase = c.phase /\ d.expected = c.expected
                /\ d.block = c.block /\ d.dest_tid = c.dest_tid /\ d.out = c.out
                /\ d.timeout_tries = MaxTries /\ d.err_blck_tries = tries
                BY <2>0 DEF Clients
          <2> HIDE DEF d
          <2>3. ClientOK(d)
                BY <1>2, <2>2, TftpNumbers DEF ClientOK, ReadingOK, WritingOK, Setting
          <2> QED BY <2>1, <2>2, <2>3 DEF SentOK
    <1> QED BY <1>1, <1>2

\* A failing disk.
LEMMA DiskFacts ==
    ASSUME Setting, NEW c \in Clients, Sendable(c.out), NEW r \in DiskFailures(c)
    PROVE  ClientOK(r.c) /\ SentOK(r) /\ r.wrote = <<>> /\ r.c.phase = "failed"
    <1> DEFINE e == Exit(c, "failed", {Send(ME, c.otr, Error(ACCESS_VIOLATION))})
    <1>1. r = e \/ r = GiveUp(c)
          BY DEF DiskFailures
    <1>2. CASE r = e
          <2> DEFINE S == {Send(ME, c.otr, Error(ACCESS_VIOLATION))}
          <2>1. c.otr \in Ports
                BY DEF Clients
          <2>2. Sendable(Error(ACCESS_VIOLATION))
                BY ErrorSendable DEF ACCESS_VIOLATION
          <2>3. \A q \in S : PacketFits(q) /\ q.from = ME
                BY <2>1, <2>2, ClientSends
          <2> HIDE DEF S
          <2>4. /\ ClientOK(r.c) /\ r.sent = S /\ r.wrote = <<>>
                /\ r.c.phase = "failed"
                BY <1>2, ExitFacts DEF S
          <2> QED BY <2>3, <2>4 DEF SentOK
    <1>3. CASE r = GiveUp(c)
          BY <1>3, GiveUpFacts
    <1> QED BY <1>1, <1>2, <1>3

Arrives(p) == PacketFits(p) /\ p.to = ME

\* The outcome r of a packet p that came to a client c.
OutcomeOK(c, p, r) ==
    /\ ClientOK(r.c) /\ SentOK(r)
    /\ opcode = "RRQ" =>
         \/ /\ r.wrote = <<>>
            /\ r.c.phase # "failed" => r.c.phase = c.phase /\ r.c.expected = c.expected
         \/ /\ r.wrote = <<p.m.data>> /\ r.c.expected = p.m.data /\ r.c.phase \in {"transfer", "done"}
            /\ p.m.data = (IF c.phase = "request" THEN 1 ELSE c.expected + 1) /\ p.m.data \in 1 .. LastBlock
            /\ r.c.phase = "done" => p.m.data = LastBlock
    /\ opcode = "WRQ" =>
         /\ r.wrote = <<>> /\ (r.c.phase # "failed" => r.c.block >= c.block)
         /\ r.c.phase = "done" => /\ p.m.op = "ACK" /\ p.m.n = LastBlock
                                  /\ p.from = r.c.dest_tid /\ p.from \in TIDs

\* RRQ: the block that comes next.
LEMMA WriteBlockFacts ==
    ASSUME Setting, opcode = "RRQ", NEW c \in Clients, Sendable(c.out), NEW p, Arrives(p), p.m.op = "DATA",
           p.m.data = (IF c.phase = "request" THEN 1 ELSE c.expected + 1),
           NEW d \in Clients, d.out = c.out,
           NEW r \in WriteBlock(d, p.m)
    PROVE  OutcomeOK(c, p, r)
    <1> DEFINE acked == [d EXCEPT !.phase = "transfer", !.expected = p.m.n, !.out = Ack(p.m.n)]
               next == IF IsFull(p.m.data) THEN Again(acked, MaxTries)
                       ELSE Exit(acked, "done", {Send(ME, d.otr, Ack(p.m.n))})
    <1>1. /\ p.m.data \in 1 .. LastBlock /\ p.m.n = p.m.data /\ d.otr \in Ports /\ MaxTries \in 0 .. MaxTries
          /\ LastBlock \in Nat /\ FullBlocks \in Nat /\ BlockMod \in Nat /\ LastBlock < BlockMod
          /\ IsFull(p.m.data) <=> p.m.data <= FullBlocks
          /\ LastBlock = FullBlocks + 1
          BY TftpNumbers DEF Arrives, PacketFits, Clients, Setting
    <1>2. Sendable(Ack(p.m.n)) /\ Ack(p.m.n) \in Packets /\ Ack(p.m.n).op = "ACK"
          BY <1>1, TftpNumbers DEF Sendable, Ack, Pkt, Packets, NoData, UNKNOWN_TID, Setting
    <1>3. /\ acked \in Clients /\ acked.phase = "transfer" /\ acked.expected = p.m.data /\ acked.out = Ack(p.m.n)
          <2> DEFINE n == p.m.n
                     a == Ack(p.m.n)
          <2>1. a \in Packets /\ n \in 0 .. BlockMod - 1 /\ n = p.m.data
                BY <1>1, <1>2
          <2>2. acked = [d EXCEPT !.phase = "transfer", !.expected = n, !.out = a]
                OBVIOUS
          <2> HIDE DEF n, a, acked
          <2>3. acked \in Clients /\ acked.phase = "transfer" /\ acked.expected = n /\ acked.out = a
                BY <2>1, <2>2 DEF Clients
          <2> QED BY <2>1, <2>3 DEF a
    <1>4. r = [next EXCEPT !.wrote = <<p.m.data>>] \/ r \in DiskFailures(d)
          BY DEF WriteBlock
    <1> HIDE DEF acked
    <1>5. CASE r \in DiskFailures(d)
          BY <1>5, DiskFacts DEF OutcomeOK
    <1>6. CASE IsFull(p.m.data) /\ r = [next EXCEPT !.wrote = <<p.m.data>>]
          <2> DEFINE q == Again(acked, MaxTries)
          <2>1. ReadingOK(acked)
                BY <1>1, <1>2, <1>3, <1>6 DEF ReadingOK
          <2>2. /\ ClientOK(q.c) /\ SentOK(q)
                /\ q.c.phase # "failed" => q.c.phase = "transfer" /\ q.c.expected = p.m.data
                BY <1>1, <1>2, <1>3, <2>1, AgainFacts
          <2>3. q.c.phase = "transfer" /\ r.c = q.c /\ r.sent = q.sent /\ r.wrote = <<p.m.data>>
                BY <1>1, <1>3, <1>6, TftpNumbers DEF Again, Result, Clients, Setting
          <2> HIDE DEF q
          <2>4. SentOK(r)
                BY <2>2, <2>3 DEF SentOK
          <2> HIDE DEF next
          <2> QED BY <1>1, <2>2, <2>3, <2>4 DEF OutcomeOK
    <1>7. CASE ~IsFull(p.m.data) /\ r = [next EXCEPT !.wrote = <<p.m.data>>]
          <2> DEFINE S == {Send(ME, d.otr, Ack(p.m.n))}
                     q == Exit(acked, "done", S)
          <2>1. \A x \in S : PacketFits(x) /\ x.from = ME /\ x.m = Ack(p.m.n)
                BY <1>1, <1>2, ClientSends
          <2>2. r.c = q.c /\ r.sent = q.sent /\ r.wrote = <<p.m.data>>
                BY <1>7 DEF Exit, Result
          <2> HIDE DEF S
          <2>3. ClientOK(q.c) /\ q.sent = S /\ q.c.phase = "done" /\ q.c.expected = p.m.data
                BY <1>2, <1>3, ExitFacts
          <2> HIDE DEF q
          <2>4. SentOK(r)
                BY <1>2, <2>1, <2>2, <2>3 DEF SentOK
          <2>5. p.m.data = LastBlock
                BY <1>1, <1>7
          <2> HIDE DEF next
          <2> QED BY <1>1, <2>2, <2>3, <2>4, <2>5 DEF OutcomeOK
    <1> QED BY <1>4, <1>5, <1>6, <1>7

\* WRQ: the next block is read.
LEMMA ReadBlockFacts ==
    ASSUME Setting, opcode = "WRQ", NEW c \in Clients, Sendable(c.out), NEW p, Arrives(p), p.m.op = "ACK",
           c.block \in 0 .. LastBlock, c.expected = c.block, p.m.n = c.block,
           NEW d \in Clients, d.out = c.out, d.block = c.block, d.expected = c.block, d.dest_tid = p.from,
           NEW r \in ReadBlock(d)
    PROVE  OutcomeOK(c, p, r)
    <1> DEFINE i == d.block + 1
               next == [d EXCEPT !.phase = "transfer", !.block = i,
                                 !.expected = (@ + 1) % BlockMod, !.out = Data(i)]
    <1>1. /\ LastBlock \in Nat /\ BlockMod \in Nat /\ LastBlock < BlockMod /\ MaxTries \in 0 .. MaxTries
          /\ i \in 1 .. LastBlock + 1 /\ BlockMod > 0 /\ Padded = LastBlock + 1
          /\ p.from \in TIDs
          BY TftpNumbers DEF Arrives, PacketFits, Clients, Setting
    <1>2. i % BlockMod \in 0 .. BlockMod - 1 /\ (i <= LastBlock => i % BlockMod = i)
          BY <1>1
    <1>3. /\ Data(i) \in Packets /\ Sendable(Data(i)) /\ Data(i).op = "DATA" /\ Data(i).data = i
          /\ Data(i).n = i % BlockMod
          BY <1>1, <1>2 DEF Data, Pkt, Packets, Sendable, UNKNOWN_TID
    <1>4. /\ next \in Clients /\ next.phase = "transfer" /\ next.block = i /\ next.expected = i % BlockMod
          /\ next.out = Data(i) /\ next.dest_tid = p.from
          <2> DEFINE n == (d.expected + 1) % BlockMod
                     a == Data(i)
          <2>1. a \in Packets /\ n \in 0 .. BlockMod - 1 /\ n = i % BlockMod /\ i \in 0 .. LastBlock + 1
                BY <1>1, <1>2, <1>3
          <2>2. next = [d EXCEPT !.phase = "transfer", !.block = i, !.expected = n, !.out = a]
                OBVIOUS
          <2> HIDE DEF n, a, i, next
          <2>3. /\ next \in Clients /\ next.phase = "transfer" /\ next.expected = n /\ next.out = a
                /\ next.block = i /\ next.dest_tid = d.dest_tid
                BY <2>1, <2>2 DEF Clients
          <2> QED BY <2>1, <2>3 DEF a
    <1>5. \/ r = Exit(next, "done", {}) /\ i > LastBlock
          \/ r = Again(next, MaxTries) /\ i <= LastBlock
          \/ r \in DiskFailures(d)
          <2>1. ReadBlock(d) = (IF i > LastBlock THEN {Exit(next, "done", {})} ELSE {Again(next, MaxTries)})
                                 \cup DiskFailures(d)
                BY DEF ReadBlock
          <2> HIDE DEF next
          <2> QED BY <1>1, <2>1
    <1> HIDE DEF next
    <1>6. CASE r = Exit(next, "done", {}) /\ i > LastBlock
          <2>1. /\ ClientOK(r.c) /\ r.sent = {} /\ r.wrote = <<>> /\ r.c.phase = "done" /\ r.c.block = i
                /\ r.c.dest_tid = p.from
                BY <1>3, <1>4, <1>6, ExitFacts
          <2>2. c.block = LastBlock
                BY <1>1, <1>6
          <2> QED BY <1>1, <2>1, <2>2 DEF OutcomeOK, SentOK
    <1>7. CASE r = Again(next, MaxTries) /\ i <= LastBlock
          <2>1. WritingOK(next)
                BY <1>1, <1>2, <1>3, <1>4, <1>7 DEF WritingOK
          <2>2. /\ ClientOK(r.c) /\ SentOK(r) /\ r.wrote = <<>>
                /\ r.c.phase # "failed" => r.c.phase = "transfer" /\ r.c.block = i
                BY <1>1, <1>3, <1>4, <1>7, <2>1, AgainFacts
          <2> QED BY <1>1, <2>2 DEF OutcomeOK
    <1>8. CASE r \in DiskFailures(d)
          BY <1>8, DiskFacts DEF OutcomeOK
    <1> QED BY <1>5, <1>6, <1>7, <1>8

Waiting(c) == ClientOK(c) /\ c.phase \in {"request", "transfer"} /\ c.pc = "recv"

\* A client in recvfrom with a try left.
LEMMA WaitingFacts ==
    ASSUME Setting, NEW c, Waiting(c)
    PROVE  /\ c \in Clients /\ Sendable(c.out) /\ c.otr \in Ports
           /\ opcode = "RRQ" => ReadingOK(c)
           /\ opcode = "WRQ" => WritingOK(c)
           /\ c.err_blck_tries \in 1 .. MaxTries /\ c.err_blck_tries - 1 \in 0 .. MaxTries
           /\ MaxTries \in 0 .. MaxTries /\ 0 \in 0 .. MaxTries
    <1>1. c \in Clients /\ c.otr \in Ports /\ c.out \in Packets /\ c.err_blck_tries \in 0 .. MaxTries
          BY DEF Waiting, ClientOK, Clients
    <1>2. c.err_blck_tries >= 1 /\ (opcode = "RRQ" => ReadingOK(c)) /\ (opcode = "WRQ" => WritingOK(c))
          BY DEF Waiting, ClientOK
    <1>3. Sendable(c.out)
          BY <1>1, <1>2 DEF Sendable, ReadingOK, WritingOK
    <1>4. MaxTries \in Nat
          BY TftpNumbers DEF Setting
    <1> QED BY <1>1, <1>2, <1>3, <1>4

\* It goes round again, or gives up.
LEMMA StayFacts ==
    ASSUME Setting, NEW c, Waiting(c), NEW tries \in 0 .. MaxTries, NEW p, NEW r, r = Again(c, tries)
    PROVE  OutcomeOK(c, p, r) /\ r.c.phase # "done"
    <1>1. /\ ClientOK(r.c) /\ SentOK(r) /\ r.wrote = <<>>
          /\ r.c.phase # "failed" => /\ r.c.phase = c.phase /\ r.c.expected = c.expected
                                     /\ r.c.block = c.block /\ r.c.dest_tid = c.dest_tid
          BY WaitingFacts, AgainFacts DEF Waiting
    <1>2. c.block \in Int /\ c.phase \in {"request", "transfer"}
          BY TftpNumbers DEF Waiting, ClientOK, Clients, Setting
    <1> QED BY <1>1, <1>2 DEF OutcomeOK

\* It ends with a failure.
LEMMA LeaveFacts ==
    ASSUME Setting, NEW c, Waiting(c), NEW p, NEW S, NEW r, r = Exit(c, "failed", S),
           \A q \in S : PacketFits(q) /\ q.from = ME
    PROVE  OutcomeOK(c, p, r)
    <1>1. /\ ClientOK(r.c) /\ r.sent = S /\ r.wrote = <<>> /\ r.c.phase = "failed"
          BY WaitingFacts, ExitFacts
    <1> QED BY <1>1 DEF OutcomeOK, SentOK

\* A packet of the transfer.
LEMMA AcceptFacts ==
    ASSUME Setting, NEW c, Waiting(c), c.phase = "transfer", NEW p, Arrives(p), p.from = c.dest_tid,
           p.m.op = (IF opcode = "RRQ" THEN "DATA" ELSE "ACK"), NEW r \in Accept(c, p.m)
    PROVE  OutcomeOK(c, p, r)
    <1>1. CASE opcode = "RRQ"
          <2>1. CASE p.m.n = (c.expected + 1) % BlockMod
                <3>1. /\ p.m.data \in 1 .. LastBlock /\ p.m.n = p.m.data /\ c.expected \in 1 .. FullBlocks
                      BY <1>1, WaitingFacts DEF Arrives, PacketFits, ReadingOK
                <3>2. p.m.data = c.expected + 1
                      BY <1>1, <2>1, <3>1, TftpNumbers DEF Setting
                <3>3. r \in WriteBlock(c, p.m)
                      BY <1>1, <2>1 DEF Accept
                <3> QED BY <1>1, <3>2, <3>3, WaitingFacts, WriteBlockFacts
          <2>2. CASE p.m.n # (c.expected + 1) % BlockMod
                <3>1. r = Again(c, c.err_blck_tries - 1)
                      BY <1>1, <2>2 DEF Accept, Retry
                <3> QED BY <3>1, WaitingFacts, StayFacts
          <2> QED BY <2>1, <2>2
    <1>2. CASE opcode = "WRQ"
          <2>1. /\ c.out.data = c.block /\ c.expected = c.block /\ c.block \in 1 .. LastBlock
                /\ LastBlock \in Nat /\ FullBlocks <= LastBlock /\ LastBlock <= FullBlocks + 1 /\ FullBlocks \in Nat
                /\ IsFull(c.out.data) <=> c.block <= FullBlocks
                BY <1>2, WaitingFacts, TftpNumbers DEF WritingOK, Setting
          <2>2. CASE p.m.n # c.expected
                <3>1. r = Again(c, MaxTries)
                      BY <1>2, <2>2 DEF Accept
                <3> QED BY <3>1, WaitingFacts, StayFacts
          <2>3. CASE p.m.n = c.expected /\ ~IsFull(c.out.data)
                <3>1. r = Exit(c, "done", {})
                      BY <1>2, <2>3 DEF Accept
                <3>2. ClientOK(r.c) /\ r.sent = {} /\ r.wrote = <<>> /\ r.c.phase = "done" /\ r.c.block = c.block
                      /\ r.c.dest_tid = c.dest_tid
                      BY <3>1, WaitingFacts, ExitFacts
                <3>3. p.m.n = LastBlock /\ p.from \in TIDs
                      BY <1>2, <2>1, <2>3 DEF Arrives, PacketFits
                <3> QED BY <1>2, <2>1, <3>2, <3>3 DEF OutcomeOK, SentOK
          <2>4. CASE p.m.n = c.expected /\ IsFull(c.out.data)
                <3>1. r \in ReadBlock(c)
                      BY <1>2, <2>4 DEF Accept
                <3>2. c.block \in 0 .. LastBlock
                      BY <2>1
                <3> QED BY <1>2, <2>1, <2>4, <3>1, <3>2, WaitingFacts, ReadBlockFacts
          <2> QED BY <2>2, <2>3, <2>4
    <1> QED BY <1>1, <1>2 DEF Setting

\* The answer to the request.
LEMMA FirstAnswerFacts ==
    ASSUME Setting, NEW c, Waiting(c), c.phase = "request", NEW p, Arrives(p),
           p.m.op = (IF opcode = "RRQ" THEN "DATA" ELSE "ACK"), NEW r \in FirstAnswer(c, p)
    PROVE  OutcomeOK(c, p, r)
    <1> DEFINE known == [c EXCEPT !.dest_tid = p.from]
    <1>1. p.from \in TIDs
          BY DEF Arrives, PacketFits
    <1>2. /\ known \in Clients /\ known.out = c.out /\ known.block = c.block /\ known.expected = c.expected
          /\ known.dest_tid = p.from
          <2>1. p.from \in Ports /\ c \in Clients
                BY <1>1, WaitingFacts DEF Ports
          <2> QED BY <2>1 DEF Clients
    <1>3. CASE p.m.n = c.expected /\ c.err_blck_tries > 1 /\ opcode = "RRQ"
          <2>1. r \in WriteBlock(known, p.m)
                BY <1>3 DEF FirstAnswer
          <2>2. p.m.data = 1
                BY <1>3, WaitingFacts DEF Arrives, PacketFits, ReadingOK
          <2> HIDE DEF known
          <2> QED BY <1>2, <1>3, <2>1, <2>2, WaitingFacts, WriteBlockFacts
    <1>4. CASE p.m.n = c.expected /\ c.err_blck_tries > 1 /\ opcode = "WRQ"
          <2>1. r \in ReadBlock(known)
                BY <1>4 DEF FirstAnswer
          <2>2. c.block = 0 /\ c.expected = 0 /\ c.block \in 0 .. LastBlock
                BY <1>4, WaitingFacts, TftpNumbers DEF WritingOK, Setting
          <2> HIDE DEF known
          <2> QED BY <1>2, <1>4, <2>1, <2>2, WaitingFacts, ReadBlockFacts
    <1>5. CASE ~(p.m.n = c.expected /\ c.err_blck_tries > 1)
          <2>1. r = Again(c, c.err_blck_tries - 1) \/ r = Again(c, 0)
                BY <1>5 DEF FirstAnswer, Retry
          <2> QED BY <2>1, WaitingFacts, StayFacts
    <1> QED BY <1>3, <1>4, <1>5 DEF Setting

\* Whatever packet comes in time.
LEMMA HandlePacketFacts ==
    ASSUME Setting, NEW c, Waiting(c), NEW p, Arrives(p), NEW r \in HandlePacket(c, p)
    PROVE  OutcomeOK(c, p, r)
    <1> DEFINE wanted == IF opcode = "RRQ" THEN "DATA" ELSE "ACK"
               here == c.phase = "request" \/ p.from = c.dest_tid
               unknown == {Send(ME, c.otr, Error(UNKNOWN_TID))}
               illegal == {Send(ME, c.otr, Error(ILLEGAL_OPERATION))}
    <1>1. \A q \in unknown \cup illegal : PacketFits(q) /\ q.from = ME /\ q.m.op = "ERROR"
          <2>1. c.otr \in Ports
                BY WaitingFacts
          <2>2. /\ Sendable(Error(UNKNOWN_TID)) /\ Error(UNKNOWN_TID).op = "ERROR"
                /\ Sendable(Error(ILLEGAL_OPERATION)) /\ Error(ILLEGAL_OPERATION).op = "ERROR"
                BY ErrorSendable DEF UNKNOWN_TID, ILLEGAL_OPERATION
          <2> QED BY <2>1, <2>2, ClientSends
    <1>2. c.phase \in {"request", "transfer"}
          BY DEF Waiting
    <1>3. CASE c.phase = "transfer" /\ p.from # c.dest_tid
          <2> DEFINE q == Again(c, c.err_blck_tries - 1)
          <2>1. OutcomeOK(c, p, q) /\ q.c.phase # "done"
                BY WaitingFacts, StayFacts
          <2>2. r.c = q.c /\ r.sent = q.sent \cup unknown /\ r.wrote = q.wrote
                <3>1. r = [q EXCEPT !.sent = @ \cup unknown]
                      BY <1>3 DEF HandlePacket, Retry
                <3>2. \E x, y, z : q = [c |-> x, sent |-> y, wrote |-> z]
                      BY DEF Again, GiveUp, Exit, Result
                <3> HIDE DEF q, unknown
                <3> QED BY <3>1, <3>2
          <2> HIDE DEF q, unknown
          <2>3. SentOK(r)
                BY <1>1, <2>1, <2>2 DEF OutcomeOK, SentOK
          <2> QED BY <2>1, <2>2, <2>3 DEF OutcomeOK
    <1>4. CASE p.m.op = "ERROR" /\ here
          <2>1. r = Again(c, MaxTries) \/ r = Exit(c, "failed", {})
                BY <1>2, <1>4 DEF HandlePacket
          <2> QED BY <2>1, WaitingFacts, StayFacts, LeaveFacts
    <1>5. CASE p.m.op \notin {"ERROR", wanted} /\ here
          <2>1. r = Exit(c, "failed", illegal)
                BY <1>2, <1>5 DEF HandlePacket
          <2> HIDE DEF illegal
          <2> QED BY <1>1, <2>1, LeaveFacts
    <1>6. CASE p.m.op = wanted /\ c.phase = "request"
          <2>1. r \in FirstAnswer(c, p)
                BY <1>6 DEF HandlePacket
          <2> QED BY <1>6, <2>1, FirstAnswerFacts
    <1>7. CASE p.m.op = wanted /\ c.phase = "transfer" /\ p.from = c.dest_tid
          <2>1. r \in Accept(c, p.m)
                BY <1>7 DEF HandlePacket
          <2> QED BY <1>7, <2>1, AcceptFacts
    <1> HIDE DEF wanted
    <1> QED BY <1>2, <1>3, <1>4, <1>5, <1>6, <1>7

-----------------------------------------------------------------------------
(* The steps of the client and of the server.                              *)

\* The invariant, read off the values of the next state.
LEMMA TftpInvNext ==
    ASSUME NEW c, NEW f, NEW s, NEW n, opcode' = opcode, InvOf(c, f, s, n),
           client' = c, file' = f, server' = s, net' = n
    PROVE  TftpInv'
    <1>1. LastBlock' = LastBlock /\ Padded' = Padded
          BY DEF LastBlock, Padded
    <1>2. Packets' = Packets
          BY <1>1 DEF Packets
    <1>3. Clients' = Clients
          BY <1>1, <1>2 DEF Clients
    <1>4. ClientOK(client)'
          <2>1. ClientOK(c)
                BY DEF InvOf
          <2> QED BY <1>1, <1>3, <2>1 DEF ClientOK, ReadingOK, WritingOK
    <1>5. FileOK(client, file)'
          <2>1. FileOK(c, f)
                BY DEF InvOf
          <2> QED BY <1>1, <2>1 DEF FileOK
    <1>6. (\A p \in net : PacketFits(p))'
          <2>1. \A p \in n : PacketFits(p)
                BY DEF InvOf
          <2> QED BY <1>1, <1>2, <2>1 DEF PacketFits
    <1>7. (opcode = "RRQ" \/ client.phase # "failed" => Honest(client, server, net))'
          <2>1. opcode = "RRQ" \/ c.phase # "failed" => Honest(c, s, n)
                BY DEF InvOf
          <2> QED BY <1>1, <2>1 DEF Honest, Serving, Given
    <1>8. /\ opcode' \in {"RRQ", "WRQ"} /\ server' \in [TIDs -> Servers]
          /\ opcode' = "WRQ" /\ client.phase' = "done" =>
                 client.dest_tid' \in TIDs /\ server'[client.dest_tid'].block = LastBlock'
          BY <1>1 DEF InvOf
    <1> QED BY <1>4, <1>5, <1>6, <1>7, <1>8 DEF TftpInv, InvOf, Servers

\* The initial states satisfy the invariant.
LEMMA TftpInitInv == ASSUME TftpAssumption, FewerBlocksThanNumbers, TftpInit PROVE TftpInv
    <1>1. opcode \in {"RRQ", "WRQ"} /\ Setting
          BY DEF TftpInit, Setting
    <1>2. Request \in Packets /\ Request.op = opcode
          BY <1>1, TftpNumbers DEF Request, Pkt, Packets, NoData, UNKNOWN_TID
    <1>a. /\ MaxTries \in 0 .. MaxTries /\ MaxTries >= 1 /\ {0, 1} \subseteq 0 .. BlockMod - 1
          /\ 0 \in 0 .. LastBlock + 1 /\ SRV_PORT \in Ports
          BY <1>1, TftpNumbers DEF Ports
    <1>b. /\ client = [phase |-> "request", pc |-> "send", timeout_tries |-> MaxTries, err_blck_tries |-> MaxTries,
                       expected |-> client.expected, otr |-> SRV_PORT, dest_tid |-> SRV_PORT,
                       out |-> Request, block |-> 0]
          /\ client.expected = IF opcode = "RRQ" THEN 1 ELSE 0
          BY DEF TftpInit
    <1>3. client \in Clients
          BY <1>a, <1>b, <1>2 DEF Clients
    <1>4. ClientOK(client)
          <2>1. /\ client.phase = "request" /\ client.pc = "send" /\ client.timeout_tries >= 1
                /\ client.err_blck_tries >= 1 /\ client.out = Request /\ client.block = 0
                BY <1>a, <1>b
          <2> QED BY <1>1, <1>2, <1>3, <1>b, <2>1 DEF ClientOK, ReadingOK, WritingOK
    <1>5. FileOK(client, file)
          BY <1>1, TftpNumbers DEF TftpInit, FileOK
    <1>6. server \in [TIDs -> Servers] /\ net = {} /\ client.phase = "request"
          BY DEF TftpInit, Servers
    <1>7. Honest(client, server, net)
          <2>1. client.block = 0 /\ \A t \in TIDs : server[t] = [state |-> "idle", block |-> 0, file |-> <<>>]
                BY DEF TftpInit
          <2>2. LastBlock \in Nat /\ FullBlocks \in Nat
                BY <1>1, TftpNumbers
          <2>3. \A t \in TIDs : server[t].block = 0 /\ server[t].file = <<>> /\ Len(server[t].file) = 0
                BY <2>1
          <2>4. \A t \in TIDs : Serving(server[t])
                BY <2>2, <2>3 DEF Serving
          <2> QED BY <1>6, <2>1, <2>3, <2>4 DEF Honest
    <1> QED BY <1>1, <1>4, <1>5, <1>6, <1>7 DEF TftpInv, InvOf

\* A step of the client, which leaves the servers alone.
LEMMA ClientStep ==
    ASSUME Setting, TftpInv, NEW c, NEW f, NEW n, ClientOK(c), FileOK(c, f),
           opcode = "WRQ" /\ c.phase # "failed" => client.phase # "failed" /\ client.block <= c.block,
           opcode = "WRQ" /\ c.phase = "done" => c.dest_tid \in TIDs /\ server[c.dest_tid].block = LastBlock,
           \A q \in n : \/ q \in net
                        \/ /\ PacketFits(q) /\ q.from = ME
                           /\ (opcode = "WRQ" /\ c.phase # "failed" /\ q.m.op = "DATA") =>
                                  q.m.data \in 1 .. LastBlock /\ q.m.data <= c.block /\ q.m.n = q.m.data
    PROVE  InvOf(c, f, server, n)
    <1>1. /\ opcode \in {"RRQ", "WRQ"} /\ server \in [TIDs -> Servers] /\ \A q \in net : PacketFits(q)
          /\ opcode = "RRQ" \/ client.phase # "failed" => Honest(client, server, net)
          BY DEF TftpInv, InvOf
    <1>2. \A q \in n : PacketFits(q)
          BY <1>1
    <1>3. /\ client.block \in Int /\ c.block \in Int /\ LastBlock \in Nat
          /\ \A t \in TIDs : server[t].block \in Int
          <2>1. client \in Clients /\ c \in Clients
                BY DEF TftpInv, InvOf, ClientOK
          <2> QED BY <1>1, <2>1, TftpNumbers DEF Clients, Servers, Setting
    <1>4. ASSUME opcode = "RRQ" \/ c.phase # "failed" PROVE Honest(c, server, n)
          <2>1. Honest(client, server, net)
                BY <1>1, <1>4
          <2>2. \A t \in TIDs : Serving(server[t]) /\ (opcode = "WRQ" => server[t].block <= c.block)
                BY <1>3, <1>4, <2>1 DEF Honest
          <2>3. ASSUME NEW q \in n PROVE Given(q, c, server)
                <3>1. CASE opcode = "RRQ"
                      BY <3>1 DEF Given
                <3>2. CASE opcode = "WRQ" /\ q \in net
                      <4>1. Given(q, client, server)
                            BY <2>1, <3>2 DEF Honest
                      <4>2. q.m.op = "DATA" => q.m.data \in Int
                            BY <3>2, <4>1 DEF Given
                      <4> QED BY <1>3, <1>4, <3>2, <4>1, <4>2 DEF Given
                <3>3. CASE opcode = "WRQ" /\ q \notin net
                      <4>1. q.m.op # "ACK"
                            BY <3>3 DEF PacketFits
                      <4> QED BY <1>4, <3>3, <4>1 DEF Given
                <3> QED BY <1>1, <3>1, <3>2, <3>3
          <2> QED BY <2>2, <2>3 DEF Honest
    <1> QED BY <1>1, <1>2, <1>4 DEF InvOf

\* sendto.
LEMMA SendPacketInv == ASSUME TftpAssumption, FewerBlocksThanNumbers, TftpInv, SendPacket PROVE TftpInv'
    <1> DEFINE c == [client EXCEPT !.pc = "recv"]
               q == Send(ME, client.otr, client.out)
    <1>1. /\ Setting /\ opcode \in {"RRQ", "WRQ"} /\ ClientOK(client) /\ FileOK(client, file)
          /\ client \in Clients /\ client.pc = "send" /\ client.phase \notin {"done", "failed"}
          BY DEF TftpInv, InvOf, ClientOK, SendPacket, Setting
    <1>2. /\ c \in Clients /\ c.pc = "recv" /\ c.phase = client.phase /\ c.expected = client.expected
          /\ c.out = client.out /\ c.block = client.block /\ c.timeout_tries = client.timeout_tries
          /\ c.err_blck_tries = client.err_blck_tries
          BY <1>1 DEF Clients
    <1>3. /\ client' = c /\ net' = net \cup {q} /\ UNCHANGED <<opcode, file, server>>
          BY DEF SendPacket
    <1> HIDE DEF c
    <1>4. ClientOK(c) /\ FileOK(c, file)
          BY <1>1, <1>2 DEF ClientOK, ReadingOK, WritingOK, FileOK
    <1>5. Sendable(client.out) /\ client.otr \in Ports
          BY <1>1 DEF Sendable, ClientOK, Clients, ReadingOK, WritingOK
    <1>6. PacketFits(q) /\ q.from = ME /\ q.m = client.out
          BY <1>1, <1>5, ClientSends
    <1>7. opcode = "WRQ" /\ client.out.op = "DATA" =>
              client.out.data \in 1 .. LastBlock /\ client.out.data <= c.block /\ client.out.n = client.out.data
          <2>1. LastBlock \in Nat /\ client.phase \in {"request", "transfer"}
                BY <1>1, TftpNumbers DEF Clients
          <2> QED BY <1>1, <1>2, <2>1 DEF ClientOK, WritingOK
    <1>8. client.block \in Int
          BY <1>1, TftpNumbers DEF Clients
    <1> HIDE DEF q
    <1>9. InvOf(c, file, server, net \cup {q})
          BY <1>1, <1>2, <1>4, <1>6, <1>7, <1>8, ClientStep
    <1> QED BY <1>3, <1>9, TftpInvNext

\* The client that has waited: its packet has come, or its time is up.
LEMMA WaitedFacts ==
    ASSUME TftpAssumption, FewerBlocksThanNumbers, TftpInv, client.pc = "recv", NEW to \in Ports,
           NEW c, c = [client EXCEPT !.otr = to, !.timeout_tries = @ - 1]
    PROVE  /\ Setting /\ c \in Clients /\ Sendable(c.out) /\ c.phase = client.phase /\ c.block = client.block
           /\ c.expected = client.expected /\ c.phase \in {"request", "transfer"} /\ c.block \in Int
           /\ c.timeout_tries # 0 => Waiting(c)
           /\ FileOK(c, file)
    <1>1. /\ Setting /\ opcode \in {"RRQ", "WRQ"} /\ ClientOK(client) /\ FileOK(client, file)
          /\ client \in Clients /\ client.phase \in {"request", "transfer"}
          /\ client.timeout_tries \in 1 .. MaxTries
          BY TftpNumbers DEF TftpInv, InvOf, ClientOK, Clients, Setting
    <1>2. client.timeout_tries - 1 \in 0 .. MaxTries /\ client.block \in Int
          BY <1>1, TftpNumbers DEF Clients
    <1>3. /\ c \in Clients /\ c.pc = "recv" /\ c.phase = client.phase /\ c.expected = client.expected
          /\ c.out = client.out /\ c.block = client.block /\ c.timeout_tries = client.timeout_tries - 1
          /\ c.err_blck_tries = client.err_blck_tries
          BY <1>1, <1>2 DEF Clients
    <1>4. Sendable(c.out)
          BY <1>1, <1>3 DEF Sendable, ClientOK, Clients, ReadingOK, WritingOK
    <1>5. c.timeout_tries # 0 => Waiting(c)
          BY <1>1, <1>2, <1>3 DEF Waiting, ClientOK, ReadingOK, WritingOK
    <1>6. FileOK(c, file)
          BY <1>1, <1>3 DEF FileOK
    <1> QED BY <1>1, <1>2, <1>3, <1>4, <1>5, <1>6

\* The blocks written keep the file right.
LEMMA FileGrows ==
    ASSUME Setting, NEW c, FileOK(c, file), c.phase \in {"request", "transfer"}, NEW p, NEW r, OutcomeOK(c, p, r)
    PROVE  FileOK(r.c, file \o r.wrote)
    <1>1. /\ file \in Seq(1 .. Padded) /\ Len(file) <= LastBlock /\ \A i \in 1 .. Len(file) : file[i] = i
          /\ Len(file) \in Nat /\ LastBlock \in Nat /\ Padded = LastBlock + 1
          BY TftpNumbers DEF FileOK, Setting
    <1>2. CASE r.wrote = <<>> /\ (opcode = "RRQ" /\ r.c.phase # "failed" => r.c.phase = c.phase /\ r.c.expected = c.expected)
          <2>1. file \o r.wrote = file
                BY <1>1, <1>2
          <2> QED BY <1>1, <1>2, <2>1 DEF FileOK
    <1>3. CASE /\ opcode = "RRQ" /\ r.wrote = <<p.m.data>> /\ r.c.expected = p.m.data /\ r.c.phase \in {"transfer", "done"}
               /\ p.m.data = (IF c.phase = "request" THEN 1 ELSE c.expected + 1) /\ p.m.data \in 1 .. LastBlock
               /\ r.c.phase = "done" => p.m.data = LastBlock
          <2> DEFINE d == p.m.data
          <2>1. d \in 1 .. LastBlock /\ d \in 1 .. Padded /\ r.wrote = <<d>>
                BY <1>1, <1>3
          <2>2. d = Len(file) + 1
                BY <1>1, <1>3 DEF FileOK
          <2> HIDE DEF d
          <2>3. /\ file \o <<d>> \in Seq(1 .. Padded) /\ Len(file \o <<d>>) = Len(file) + 1
                /\ \A i \in 1 .. Len(file) + 1 : (file \o <<d>>)[i] = i
                BY <1>1, <2>1, <2>2
          <2> QED BY <1>1, <1>3, <2>1, <2>2, <2>3 DEF FileOK, d
    <1> QED BY <1>2, <1>3 DEF OutcomeOK, Setting

\* recvfrom returns a packet.
LEMMA RecvPacketInv == ASSUME TftpAssumption, FewerBlocksThanNumbers, TftpInv, RecvPacket PROVE TftpInv'
    <1>1. PICK p \in net, rest \in SUBSET net : /\ p.to = ME
             /\ LET c == [client EXCEPT !.otr = p.from, !.timeout_tries = @ - 1]
                IN  \E r \in IF c.timeout_tries = 0 THEN {GiveUp(c)} ELSE HandlePacket(c, p) :
                      client' = r.c /\ file' = file \o r.wrote /\ net' = rest \cup r.sent
          <2>1. PICK p \in net, keep \in BOOLEAN : /\ p.to = ME
                 /\ LET c == [client EXCEPT !.otr = p.from, !.timeout_tries = @ - 1]
                    IN  \E r \in IF c.timeout_tries = 0 THEN {GiveUp(c)} ELSE HandlePacket(c, p) :
                          /\ client' = r.c /\ file' = file \o r.wrote
                          /\ net' = (IF keep THEN net ELSE net \ {p}) \cup r.sent
                BY DEF RecvPacket
          <2>2. (IF keep THEN net ELSE net \ {p}) \subseteq net
                OBVIOUS
          <2> QED BY <2>1, <2>2
    <1> DEFINE c == [client EXCEPT !.otr = p.from, !.timeout_tries = @ - 1]
    <1>2. PICK r \in IF c.timeout_tries = 0 THEN {GiveUp(c)} ELSE HandlePacket(c, p) :
              client' = r.c /\ file' = file \o r.wrote /\ net' = rest \cup r.sent
          BY <1>1
    <1>3. PacketFits(p) /\ Arrives(p) /\ p.from \in TIDs /\ p.from \in Ports
          BY <1>1 DEF TftpInv, InvOf, PacketFits, Arrives, Ports
    <1>4. client.pc = "recv" /\ UNCHANGED <<opcode, server>>
          BY DEF RecvPacket
    <1>5. c = [client EXCEPT !.otr = p.from, !.timeout_tries = @ - 1]
          OBVIOUS
    <1> HIDE DEF c
    <1>6. /\ Setting /\ c \in Clients /\ Sendable(c.out) /\ c.phase = client.phase /\ c.block = client.block
          /\ c.phase \in {"request", "transfer"} /\ c.block \in Int
          /\ c.timeout_tries # 0 => Waiting(c)
          /\ FileOK(c, file)
          BY <1>3, <1>4, <1>5, WaitedFacts
    <1>7. OutcomeOK(c, p, r)
          <2>1. CASE c.timeout_tries = 0
                BY <1>2, <1>6, <2>1, GiveUpFacts DEF OutcomeOK
          <2>2. CASE c.timeout_tries # 0
                BY <1>2, <1>3, <1>6, <2>2, HandlePacketFacts
          <2> QED BY <2>1, <2>2
    <1>8. FileOK(r.c, file \o r.wrote)
          BY <1>6, <1>7, FileGrows
    <1>9. opcode = "WRQ" /\ r.c.phase = "done" => r.c.dest_tid \in TIDs /\ server[r.c.dest_tid].block = LastBlock
          <2> SUFFICES ASSUME opcode = "WRQ", r.c.phase = "done"
                       PROVE  r.c.dest_tid \in TIDs /\ server[r.c.dest_tid].block = LastBlock
              OBVIOUS
          <2>1. p.m.op = "ACK" /\ p.m.n = LastBlock /\ p.from = r.c.dest_tid
                BY <1>7 DEF OutcomeOK
          <2>2. Honest(client, server, net) /\ server \in [TIDs -> Servers]
                BY <1>6 DEF TftpInv, InvOf
          <2>3. p.m.n <= server[p.from].block /\ server[p.from].block <= LastBlock
                BY <1>1, <1>3, <2>1, <2>2 DEF Honest, Given, Serving
          <2>4. server[p.from].block \in Nat /\ LastBlock \in Nat
                BY <1>3, <1>6, <2>2, TftpNumbers DEF Servers, Setting
          <2> QED BY <1>3, <2>1, <2>3, <2>4
    <1>10. /\ ClientOK(r.c)
           /\ opcode = "WRQ" /\ r.c.phase # "failed" => client.phase # "failed" /\ client.block <= r.c.block
           BY <1>6, <1>7 DEF OutcomeOK
    <1>11. \A q \in rest \cup r.sent : \/ q \in net
                    \/ /\ PacketFits(q) /\ q.from = ME
                       /\ (opcode = "WRQ" /\ r.c.phase # "failed") => q.m.op # "DATA"
           BY <1>1, <1>7 DEF OutcomeOK, SentOK
    <1>12. InvOf(r.c, file \o r.wrote, server, rest \cup r.sent)
           BY <1>6, <1>8, <1>9, <1>10, <1>11, ClientStep
    <1> QED BY <1>2, <1>4, <1>12, TftpInvNext

\* recvfrom times out.
LEMMA RecvTimeoutInv == ASSUME TftpAssumption, FewerBlocksThanNumbers, TftpInv, RecvTimeout PROVE TftpInv'
    <1> DEFINE c == [client EXCEPT !.timeout_tries = @ - 1]
               r == IF c.timeout_tries = 0 THEN GiveUp(c) ELSE Result([c EXCEPT !.pc = "send"], {}, <<>>)
    <1>1. /\ client.pc = "recv" /\ client' = r.c /\ net' = net \cup r.sent /\ UNCHANGED <<opcode, file, server>>
          BY DEF RecvTimeout
    <1>2. client.otr \in Ports /\ client \in Clients
          BY DEF TftpInv, InvOf, ClientOK, Clients
    <1>3. c = [client EXCEPT !.otr = client.otr, !.timeout_tries = @ - 1]
          BY <1>2 DEF Clients
    <1>a. c.timeout_tries = 0 => r = GiveUp(c)
          OBVIOUS
    <1>b. c.timeout_tries # 0 => r.c = [c EXCEPT !.pc = "send"] /\ r.sent = {} /\ r.wrote = <<>>
          BY DEF Result
    <1> HIDE DEF c, r
    <1>4. /\ Setting /\ c \in Clients /\ Sendable(c.out) /\ c.phase = client.phase /\ c.block = client.block
          /\ c.phase \in {"request", "transfer"} /\ c.block \in Int
          /\ c.timeout_tries # 0 => Waiting(c)
          /\ FileOK(c, file)
          BY <1>1, <1>2, <1>3, WaitedFacts
    <1>5. /\ ClientOK(r.c) /\ SentOK(r) /\ FileOK(r.c, file) /\ r.c.phase # "done"
          /\ r.c.phase # "failed" => r.c.block = c.block
          <2>1. CASE c.timeout_tries = 0
                <3>1. ClientOK(r.c) /\ SentOK(r) /\ r.c.phase = "failed"
                      BY <1>4, <1>a, <2>1, GiveUpFacts
                <3> QED BY <1>4, <3>1 DEF FileOK
          <2>2. CASE c.timeout_tries # 0
                <3>1. r.c = [c EXCEPT !.pc = "send"] /\ r.sent = {}
                      BY <1>b, <2>2
                <3>2. /\ r.c \in Clients /\ r.c.pc = "send" /\ r.c.phase = c.phase /\ r.c.expected = c.expected
                      /\ r.c.out = c.out /\ r.c.block = c.block /\ r.c.timeout_tries = c.timeout_tries
                      /\ r.c.err_blck_tries = c.err_blck_tries
                      BY <1>4, <3>1 DEF Clients
                <3>3. ClientOK(r.c)
                      BY <1>4, <2>2, <3>2 DEF Waiting, ClientOK, ReadingOK, WritingOK
                <3>4. FileOK(r.c, file)
                      BY <1>4, <3>2 DEF FileOK
                <3> QED BY <1>4, <3>1, <3>2, <3>3, <3>4 DEF SentOK
          <2> QED BY <2>1, <2>2
    <1>6. \A q \in net \cup r.sent : \/ q \in net
                    \/ /\ PacketFits(q) /\ q.from = ME
                       /\ (opcode = "WRQ" /\ r.c.phase # "failed") => q.m.op # "DATA"
          BY <1>5 DEF SentOK
    <1>7. InvOf(r.c, file, server, net \cup r.sent)
          BY <1>4, <1>5, <1>6, ClientStep
    <1> QED BY <1>1, <1>7, TftpInvNext

\* A step of the server at port t, which answers a packet.
LEMMA ServerStep ==
    ASSUME Setting, TftpInv, NEW t \in TIDs, NEW p \in net, NEW s \in Servers, NEW answer,
           Reply(t, p, s, answer),
           \A m \in answer : PacketFits(Send(t, ME, m)),
           opcode = "RRQ" \/ client.phase # "failed" =>
               /\ Serving(s)
               /\ opcode = "WRQ" => /\ s.block <= client.block /\ server[t].block <= s.block
                                    /\ \A m \in answer : m.op = "ACK" => m.n <= s.block
    PROVE  TftpInv'
    <1> DEFINE S == {Send(t, ME, m) : m \in answer}
    <1>1. PICK rest : rest \subseteq net /\ net' = rest \cup S
          <2>1. PICK keep \in BOOLEAN : net' = (IF keep THEN net ELSE net \ {p}) \cup S
                BY DEF Reply
          <2> QED BY <2>1
    <1>2. server' = [server EXCEPT ![t] = s] /\ UNCHANGED <<opcode, client, file>>
          BY DEF Reply
    <1>3. /\ opcode \in {"RRQ", "WRQ"} /\ ClientOK(client) /\ FileOK(client, file)
          /\ server \in [TIDs -> Servers] /\ \A q \in net : PacketFits(q)
          /\ opcode = "RRQ" \/ client.phase # "failed" => Honest(client, server, net)
          /\ opcode = "WRQ" /\ client.phase = "done" =>
                 client.dest_tid \in TIDs /\ server[client.dest_tid].block = LastBlock
          BY DEF TftpInv, InvOf
    <1> DEFINE sv == [server EXCEPT ![t] = s]
    <1>4. sv \in [TIDs -> Servers] /\ sv[t] = s /\ \A u \in TIDs : u # t => sv[u] = server[u]
          BY <1>3
    <1>5. \A q \in S : PacketFits(q) /\ \E m \in answer : q.m = m /\ q.from = t /\ q.to = ME
          BY DEF Send
    <1>6. \A q \in rest \cup S : PacketFits(q)
          BY <1>1, <1>3, <1>5
    <1>7. /\ LastBlock \in Nat /\ s.block \in Nat /\ \A u \in TIDs : server[u].block \in Nat
          BY <1>3, TftpNumbers DEF Setting, Servers
    <1> HIDE DEF sv, S
    <1>8. ASSUME opcode = "RRQ" \/ client.phase # "failed" PROVE Honest(client, sv, rest \cup S)
          <2>1. Honest(client, server, net)
                BY <1>3, <1>8
          <2>2. \A u \in TIDs : Serving(sv[u]) /\ (opcode = "WRQ" => sv[u].block <= client.block)
                <3> SUFFICES ASSUME NEW u \in TIDs
                             PROVE  Serving(sv[u]) /\ (opcode = "WRQ" => sv[u].block <= client.block)
                    OBVIOUS
                <3>1. CASE u = t
                      BY <1>4, <1>8, <3>1
                <3>2. CASE u # t
                      BY <1>4, <2>1, <3>2 DEF Honest
                <3> QED BY <3>1, <3>2
          <2>3. ASSUME NEW q \in rest PROVE Given(q, client, sv)
                <3>1. Given(q, client, server) /\ PacketFits(q)
                      BY <1>1, <1>3, <2>1 DEF Honest
                <3>2. opcode = "WRQ" /\ q.m.op = "ACK" => q.from \in TIDs /\ q.m.n <= server[q.from].block /\ q.m.n \in Int
                      <4>1. q.m.n \in Int
                            BY <3>1, TftpNumbers DEF Setting, PacketFits, Packets, UNKNOWN_TID
                      <4> QED BY <3>1, <4>1 DEF Given, PacketFits
                <3>3. opcode = "WRQ" /\ q.m.op = "ACK" => q.m.n <= sv[q.from].block
                      BY <1>4, <1>7, <1>8, <3>2
                <3> QED BY <3>1, <3>3 DEF Given
          <2>4. ASSUME NEW q \in S PROVE Given(q, client, sv)
                <3>1. PICK m \in answer : q.m = m /\ q.from = t /\ q.to = ME
                      BY <1>5
                <3>2. opcode = "WRQ" => q.m.op # "DATA"
                      BY <1>5, <3>1 DEF PacketFits
                <3> QED BY <1>4, <1>8, <3>1, <3>2 DEF Given
          <2> QED BY <2>2, <2>3, <2>4 DEF Honest
    <1>9. opcode = "WRQ" /\ client.phase = "done" =>
              client.dest_tid \in TIDs /\ sv[client.dest_tid].block = LastBlock
          <2>1. opcode = "WRQ" /\ client.phase = "done" => s.block <= LastBlock /\ server[t].block <= s.block
                BY DEF Serving
          <2> QED BY <1>3, <1>4, <1>7, <2>1
    <1>10. InvOf(client, file, sv, rest \cup S)
           BY <1>3, <1>4, <1>6, <1>8, <1>9 DEF InvOf
    <1>11. server' = sv
           BY <1>2 DEF sv
    <1> QED BY <1>1, <1>2, <1>10, <1>11, TftpInvNext

\* A packet the server may send goes to the client.
LEMMA ServerSends ==
    ASSUME Setting, NEW t \in TIDs, NEW m \in Packets, opcode = "WRQ" => m.op # "DATA",
           opcode = "RRQ" /\ m.op = "DATA" => m.data \in 1 .. LastBlock /\ m.n = m.data
    PROVE  PacketFits(Send(t, ME, m))
    <1>1. ME \notin TIDs
          BY TftpNumbers DEF Setting, Ports
    <1> QED BY <1>1 DEF PacketFits, Send

\* A block of the file fits a read.
LEMMA DataFits ==
    ASSUME Setting, opcode = "RRQ", NEW i \in 1 .. LastBlock, NEW t \in TIDs
    PROVE  PacketFits(Send(t, ME, Data(i))) /\ Data(i).op = "DATA"
    <1>1. Data(i) \in Packets /\ Data(i).op = "DATA" /\ Data(i).data = i /\ Data(i).n = i
          BY TftpNumbers DEF Setting, Data, Pkt, Packets, UNKNOWN_TID
    <1> QED BY <1>1, ServerSends

\* An ACK fits either transfer.
LEMMA AckFits ==
    ASSUME Setting, NEW n \in 0 .. BlockMod + UNKNOWN_TID, NEW t \in TIDs
    PROVE  PacketFits(Send(t, ME, Ack(n))) /\ Ack(n).op = "ACK" /\ Ack(n).n = n
    <1>1. Ack(n) \in Packets /\ Ack(n).op = "ACK" /\ Ack(n).n = n
          BY TftpNumbers DEF Setting, Ack, Pkt, Packets, NoData
    <1> QED BY <1>1, ServerSends

\* What is known of the server at port t and of a packet that reaches it.
LEMMA ServerFacts ==
    ASSUME TftpAssumption, FewerBlocksThanNumbers, TftpInv, NEW t \in TIDs
    PROVE  /\ Setting /\ server[t] \in Servers /\ server[t].block \in Nat /\ server[t].file \in Seq(Nat)
           /\ client.block \in Nat
           /\ opcode = "RRQ" \/ client.phase # "failed" =>
                  Serving(server[t]) /\ (opcode = "WRQ" => server[t].block <= client.block)
           /\ \A p \in net : PacketFits(p) /\ p.m \in Packets
           /\ \A p \in net : p.to = t => /\ p.to # ME
                                         /\ opcode = "RRQ" => p.m.op # "DATA"
                                         /\ opcode = "WRQ" => p.m.op # "ACK"
    <1>1. Setting
          BY DEF TftpInv, InvOf, Setting
    <1>2. /\ server[t] \in Servers /\ server[t].block \in Nat /\ server[t].file \in Seq(Nat)
          BY DEF TftpInv, InvOf, Servers
    <1>3. client.block \in Nat
          BY <1>1, TftpNumbers DEF TftpInv, InvOf, ClientOK, Clients, Setting
    <1>4. opcode = "RRQ" \/ client.phase # "failed" =>
                  Serving(server[t]) /\ (opcode = "WRQ" => server[t].block <= client.block)
          BY DEF TftpInv, InvOf, Honest
    <1>5. \A p \in net : PacketFits(p) /\ p.m \in Packets
          BY DEF TftpInv, InvOf, PacketFits
    <1>6. ME # t
          BY <1>1, TftpNumbers DEF Setting, Ports
    <1>7. \A p \in net : p.to = t => /\ p.to # ME
                                     /\ opcode = "RRQ" => p.m.op # "DATA"
                                     /\ opcode = "WRQ" => p.m.op # "ACK"
          BY <1>5, <1>6 DEF PacketFits
    <1> QED BY <1>1, <1>2, <1>3, <1>4, <1>5, <1>7

\* A request opens a transfer.
LEMMA ServeRequestInv ==
    ASSUME TftpAssumption, FewerBlocksThanNumbers, TftpInv, NEW t \in TIDs, ServeRequest(t) PROVE TftpInv'
    <1> DEFINE b == IF opcode = "RRQ" THEN 1 ELSE 0
               s == [server[t] EXCEPT !.state = "busy", !.block = b]
               answer == {IF opcode = "RRQ" THEN Data(1) ELSE Ack(0)}
    <1>1. PICK p \in net : Reply(t, p, s, answer)
          BY DEF ServeRequest
    <1>2. /\ Setting /\ server[t] \in Servers /\ server[t].state = "idle" /\ server[t].file \in Seq(Nat)
          /\ opcode = "RRQ" \/ client.phase # "failed" => Serving(server[t])
          /\ opcode \in {"RRQ", "WRQ"} /\ client.block \in Nat
          BY ServerFacts DEF ServeRequest, Setting
    <1>3. s \in Servers /\ s.block = b /\ s.state = "busy" /\ s.file = server[t].file
          BY <1>2 DEF Servers
    <1>4. /\ LastBlock \in Nat /\ FullBlocks \in Nat /\ (opcode = "RRQ" => 1 \in 1 .. LastBlock)
          /\ 0 \in 0 .. BlockMod + UNKNOWN_TID
          <2>1. LastBlock \in Nat /\ FullBlocks \in Nat /\ BlockMod \in Nat /\ (opcode = "RRQ" => LastBlock = FullBlocks + 1)
                BY <1>2, TftpNumbers DEF Setting
          <2> QED BY <2>1 DEF UNKNOWN_TID
    <1>5. \A m \in answer : PacketFits(Send(t, ME, m)) /\ (m.op = "ACK" => m.n = 0) /\ (opcode = "WRQ" => m.n = 0)
          BY <1>2, <1>4, DataFits, AckFits
    <1> HIDE DEF s, answer
    <1>6. opcode = "RRQ" \/ client.phase # "failed" =>
               /\ Serving(s)
               /\ opcode = "WRQ" => /\ s.block <= client.block /\ server[t].block <= s.block
                                    /\ \A m \in answer : m.op = "ACK" => m.n <= s.block
          BY <1>2, <1>3, <1>4, <1>5 DEF Serving
    <1> QED BY <1>1, <1>2, <1>3, <1>5, <1>6, ServerStep

\* Reading: the next block, or the last one again.
LEMMA ServeAckInv ==
    ASSUME TftpAssumption, FewerBlocksThanNumbers, TftpInv, NEW t \in TIDs, ServeAck(t) PROVE TftpInv'
    <1> DEFINE last == server[t].block
    <1>1. PICK p \in net :
             /\ p.to = t /\ p.m.op = "ACK"
             /\ \/ Reply(t, p, [server[t] EXCEPT !.state = "complete"], {})
                \/ last < LastBlock /\ Reply(t, p, [server[t] EXCEPT !.block = last + 1], {Data(last + 1)})
                \/ last > 1 /\ Reply(t, p, server[t], {Data(last)})
          BY DEF ServeAck
    <1>2. /\ Setting /\ server[t] \in Servers /\ last \in Nat /\ server[t].state = "busy"
          /\ opcode = "RRQ" /\ Serving(server[t]) /\ LastBlock \in Nat /\ last <= LastBlock
          <2>1. opcode = "RRQ" /\ Setting
                BY <1>1, ServerFacts DEF Setting
          <2> QED BY <2>1, ServerFacts, TftpNumbers DEF ServeAck, Setting, Serving
    <1>3. CASE Reply(t, p, [server[t] EXCEPT !.state = "complete"], {})
          <2> DEFINE s == [server[t] EXCEPT !.state = "complete"]
          <2>1. s \in Servers /\ Serving(s)
                BY <1>2 DEF Servers, Serving
          <2>2. Reply(t, p, s, {})
                BY <1>3
          <2> HIDE DEF s
          <2> QED BY <1>1, <1>2, <2>1, <2>2, ServerStep
    <1>4. CASE last < LastBlock /\ Reply(t, p, [server[t] EXCEPT !.block = last + 1], {Data(last + 1)})
          <2> DEFINE s == [server[t] EXCEPT !.block = last + 1]
                     answer == {Data(last + 1)}
          <2>1. s \in Servers /\ Serving(s)
                BY <1>2, <1>4 DEF Servers, Serving
          <2>2. \A m \in answer : PacketFits(Send(t, ME, m))
                BY <1>2, <1>4, DataFits
          <2>3. Reply(t, p, s, answer)
                BY <1>4
          <2> HIDE DEF s, answer
          <2> QED BY <1>1, <1>2, <2>1, <2>2, <2>3, ServerStep
    <1>5. CASE last > 1 /\ Reply(t, p, server[t], {Data(last)})
          <2> DEFINE answer == {Data(last)}
          <2>1. \A m \in answer : PacketFits(Send(t, ME, m))
                BY <1>2, <1>5, DataFits
          <2>2. Reply(t, p, server[t], answer)
                BY <1>5
          <2> HIDE DEF answer
          <2> QED BY <1>1, <1>2, <2>1, <2>2, ServerStep
    <1> QED BY <1>1, <1>3, <1>4, <1>5

\* Writing: a block is stored, or acknowledged again.
LEMMA ServeDataInv ==
    ASSUME TftpAssumption, FewerBlocksThanNumbers, TftpInv, NEW t \in TIDs, ServeData(t) PROVE TftpInv'
    <1> DEFINE s == server[t]
    <1>1. PICK p \in net :
             /\ p.to = t /\ p.m.op = "DATA"
             /\ \/ /\ s.state = "busy" /\ p.m.n = (s.block + 1) % BlockMod
                   /\ Reply(t, p, [s EXCEPT !.block = @ + 1, !.file = Append(@, p.m.data),
                                            !.state = IF IsFull(p.m.data) THEN "busy" ELSE "complete"],
                            {Ack(p.m.n)})
                \/ /\ p.m.n = s.block % BlockMod /\ s.block > 0
                   /\ Reply(t, p, s, {Ack(p.m.n)})
          BY DEF ServeData
    <1>2. /\ Setting /\ s \in Servers /\ s.block \in Nat /\ s.file \in Seq(Nat) /\ client.block \in Nat
          /\ opcode = "WRQ" /\ p.m \in Packets /\ PacketFits(p)
          /\ client.phase # "failed" => Serving(s) /\ s.block <= client.block
          /\ client.phase # "failed" => p.m.data \in 1 .. LastBlock /\ p.m.data <= client.block /\ p.m.n = p.m.data
          <2>1. opcode = "WRQ" /\ Setting
                BY <1>1, ServerFacts DEF Setting
          <2>2. client.phase # "failed" => Given(p, client, server)
                BY <2>1 DEF TftpInv, InvOf, Honest
          <2> QED BY <1>1, <2>1, <2>2, ServerFacts DEF Given
    <1>3. /\ LastBlock \in Nat /\ FullBlocks \in Nat /\ BlockMod \in Nat /\ LastBlock < BlockMod /\ Padded \in Nat
          /\ \A d \in 0 .. LastBlock : IsFull(d) <=> d <= FullBlocks
          /\ p.m.n \in 0 .. BlockMod + UNKNOWN_TID /\ p.m.data \in Nat /\ p.m.n \in Nat
          <2>1. /\ LastBlock \in Nat /\ FullBlocks \in Nat /\ BlockMod \in Nat /\ LastBlock < BlockMod /\ Padded \in Nat
                /\ \A d \in 0 .. LastBlock : IsFull(d) <=> d <= FullBlocks
                BY <1>2, TftpNumbers DEF Setting
          <2>2. p.m.n \in 0 .. BlockMod + UNKNOWN_TID /\ p.m.data \in 0 .. Padded
                BY <1>2 DEF Packets
          <2>3. p.m.data \in Nat /\ p.m.n \in Nat
                BY <2>1, <2>2 DEF UNKNOWN_TID
          <2> QED BY <2>1, <2>2, <2>3
    <1> DEFINE answer == {Ack(p.m.n)}
    <1>4. \A m \in answer : PacketFits(Send(t, ME, m)) /\ m.n = p.m.n
          BY <1>2, <1>3, AckFits
    <1> HIDE DEF answer
    <1>5. CASE p.m.n = (s.block + 1) % BlockMod /\
               Reply(t, p, [s EXCEPT !.block = @ + 1, !.file = Append(@, p.m.data),
                                     !.state = IF IsFull(p.m.data) THEN "busy" ELSE "complete"], answer)
          <2> DEFINE f == Append(s.file, p.m.data)
                     st == IF IsFull(p.m.data) THEN "busy" ELSE "complete"
                     z == [s EXCEPT !.block = @ + 1, !.file = Append(@, p.m.data), !.state = st]
          <2>1. /\ f \in Seq(Nat) /\ Len(f) = Len(s.file) + 1 /\ f[Len(s.file) + 1] = p.m.data
                /\ \A i \in 1 .. Len(s.file) : f[i] = s.file[i]
                /\ Len(s.file) \in Nat
                BY <1>2, <1>3
          <2>2. z \in Servers /\ z.block = s.block + 1 /\ z.file = f /\ z.state = st
                <3> DEFINE nb == s.block + 1
                <3>1. st \in {"busy", "complete"} /\ z = [s EXCEPT !.block = nb, !.file = f, !.state = st]
                      OBVIOUS
                <3>2. nb \in Nat /\ f \in Seq(Nat) /\ s \in Servers
                      BY <1>2, <2>1
                <3> HIDE DEF st, f, z, nb, s
                <3>3. z \in Servers /\ z.block = nb /\ z.file = f /\ z.state = st
                      BY <3>1, <3>2 DEF Servers
                <3> QED BY <3>3 DEF nb
          <2>3. Reply(t, p, z, answer)
                BY <1>5
          <2>4. ASSUME client.phase # "failed"
                PROVE  Serving(z) /\ z.block <= client.block /\ p.m.n <= z.block
                <3>1. p.m.data = s.block + 1
                      <4>1. s.block <= LastBlock /\ p.m.data = (s.block + 1) % BlockMod /\ p.m.data \in 1 .. LastBlock
                            BY <1>2, <1>5, <2>4 DEF Serving
                      <4>2. s.block + 1 < BlockMod => (s.block + 1) % BlockMod = s.block + 1
                            <5>1. s.block + 1 \in Nat /\ BlockMod \in Nat
                                  BY <1>2, <1>3
                            <5> HIDE DEF s
                            <5> QED BY <5>1, SmallRemainder
                      <4>3. s.block + 1 = BlockMod => (s.block + 1) % BlockMod = 0
                            BY <1>2, <1>3
                      <4>4. s.block + 1 < BlockMod \/ s.block + 1 = BlockMod
                            <5>1. s.block \in Nat /\ LastBlock \in Nat /\ BlockMod \in Nat /\ LastBlock < BlockMod
                                  BY <1>2, <1>3
                            <5> HIDE DEF s
                            <5> QED BY <4>1, <5>1
                      <4>5. p.m.data # 0
                            BY <1>3, <4>1
                      <4> QED BY <4>1, <4>2, <4>3, <4>4, <4>5
                <3>2. st = "complete" <=> s.block + 1 > FullBlocks
                      BY <1>2, <1>3, <2>4, <3>1
                <3>3. Len(s.file) = s.block /\ \A i \in 1 .. Len(s.file) : s.file[i] = i
                      BY <1>2, <2>4 DEF Serving
                <3>4. \A i \in 1 .. Len(f) : f[i] = i
                      BY <2>1, <3>1, <3>3
                <3>5. st # "idle"
                      OBVIOUS
                <3> HIDE DEF z, f, st
                <3>6. Serving(z)
                      BY <1>2, <1>3, <2>1, <2>2, <2>4, <3>1, <3>2, <3>3, <3>4, <3>5 DEF Serving
                <3> QED BY <1>2, <2>2, <2>4, <3>1, <3>6
          <2>5. s.block <= z.block
                BY <1>2, <2>2
          <2> HIDE DEF z
          <2> QED BY <1>1, <1>2, <1>4, <2>2, <2>3, <2>4, <2>5, ServerStep
    <1>6. CASE p.m.n = s.block % BlockMod /\ Reply(t, p, s, answer)
          <2>1. client.phase # "failed" => p.m.n <= s.block
                <3>1. client.phase # "failed" => s.block <= LastBlock
                      BY <1>2 DEF Serving
                <3>2. ASSUME client.phase # "failed" PROVE s.block % BlockMod = s.block
                      <4>1. s.block \in Nat /\ s.block <= LastBlock
                            BY <1>2, <3>1, <3>2
                      <4>2. LastBlock \in Nat /\ BlockMod \in Nat /\ LastBlock < BlockMod
                            BY <1>3
                      <4> HIDE DEF s
                      <4>3. s.block < BlockMod
                            BY <4>1, <4>2
                      <4> QED BY <4>1, <4>2, <4>3, SmallRemainder
                <3> QED BY <1>2, <1>6, <3>2
          <2> QED BY <1>1, <1>2, <1>4, <1>6, <2>1, ServerStep
    <1> QED BY <1>1, <1>5, <1>6 DEF answer

\* An error ends a transfer.
LEMMA ServeErrorInv ==
    ASSUME TftpAssumption, FewerBlocksThanNumbers, TftpInv, NEW t \in TIDs, ServeError(t) PROVE TftpInv'
    <1> DEFINE s == [server[t] EXCEPT !.state = "aborted"]
    <1>1. PICK p \in net : Reply(t, p, s, {})
          BY DEF ServeError
    <1>2. /\ Setting /\ server[t] \in Servers /\ server[t].state = "busy" /\ server[t].block \in Nat
          /\ opcode = "RRQ" \/ client.phase # "failed" =>
                 Serving(server[t]) /\ (opcode = "WRQ" => server[t].block <= client.block)
          BY ServerFacts DEF ServeError
    <1>3. s \in Servers /\ s.block = server[t].block /\ s.state = "aborted" /\ s.file = server[t].file
          BY <1>2 DEF Servers
    <1> HIDE DEF s
    <1>4. Serving(server[t]) => Serving(s)
          BY <1>2, <1>3 DEF Serving
    <1> QED BY <1>1, <1>2, <1>3, <1>4, ServerStep

\* A packet is dropped.
LEMMA DropInv ==
    ASSUME TftpInv, UNCHANGED <<opcode, client, file, server>>, net' \subseteq net PROVE TftpInv'
    <1> DEFINE n == net'
    <1>1. InvOf(client, file, server, n)
          <2> HIDE DEF n
          <2>1. n \subseteq net
                BY DEF n
          <2> QED BY <2>1 DEF TftpInv, InvOf, Honest
    <1> QED BY <1>1, TftpInvNext

\* Every step keeps the invariant.
LEMMA TftpNextInv ==
    ASSUME TftpAssumption, FewerBlocksThanNumbers, TftpInv, [TftpNext]_tftp_vars PROVE TftpInv'
    <1>1. CASE SendPacket
          BY <1>1, SendPacketInv
    <1>2. CASE RecvPacket
          BY <1>2, RecvPacketInv
    <1>3. CASE RecvTimeout
          BY <1>3, RecvTimeoutInv
    <1>4. CASE Serve
          BY <1>4, ServeRequestInv, ServeAckInv, ServeDataInv, ServeErrorInv DEF Serve
    <1>5. CASE DropPacket
          BY <1>5, DropInv DEF DropPacket
    <1>6. CASE Ignore
          BY <1>6, DropInv DEF Ignore
    <1>7. CASE UNCHANGED tftp_vars
          BY <1>7, DropInv DEF tftp_vars
    <1> QED BY <1>1, <1>2, <1>3, <1>4, <1>5, <1>6, <1>7 DEF TftpNext

\* Blocks 1, 2, ... are the beginning of the file.
LEMMA CountedIsPrefix ==
    ASSUME TftpAssumption, FewerBlocksThanNumbers, opcode \in {"RRQ", "WRQ"},
           NEW f \in Seq(Nat), Len(f) <= LastBlock, \A i \in 1 .. Len(f) : f[i] = i
    PROVE  IsPrefix(f, FileBlocks) /\ (Len(f) = LastBlock => f = FileBlocks)
    <1>1. LastBlock \in Nat /\ Len(f) \in Nat
          BY TftpNumbers
    <1>2. FileBlocks \in Seq(Nat) /\ Len(FileBlocks) = LastBlock /\ \A i \in 1 .. LastBlock : FileBlocks[i] = i
          BY <1>1 DEF FileBlocks
    <1> DEFINE g == SubSeq(FileBlocks, 1, Len(f))
    <1>3. g \in Seq(Nat) /\ Len(g) = Len(f) /\ \A i \in 1 .. Len(f) : g[i] = FileBlocks[i]
          BY <1>1, <1>2
    <1>4. \A i \in 1 .. Len(f) : f[i] = g[i]
          BY <1>1, <1>2, <1>3
    <1> HIDE DEF g
    <1>5. f = g
          BY <1>3, <1>4, SeqEqual
    <1>6. IsPrefix(f, FileBlocks)
          BY <1>1, <1>2, <1>5 DEF IsPrefix, g
    <1>7. Len(f) = LastBlock => f = FileBlocks
          BY <1>1, <1>2, SeqEqual
    <1> QED BY <1>6, <1>7

\* The invariant says that the transfer is right.
LEMMA InvTransferIsRight ==
    ASSUME TftpAssumption, FewerBlocksThanNumbers, TftpInv PROVE TransferIsRight
    <1>1. /\ Setting /\ opcode \in {"RRQ", "WRQ"} /\ ClientOK(client) /\ FileOK(client, file)
          /\ server \in [TIDs -> Servers] /\ \A p \in net : PacketFits(p)
          /\ opcode = "RRQ" \/ client.phase # "failed" => Honest(client, server, net)
          /\ opcode = "WRQ" /\ client.phase = "done" =>
                 client.dest_tid \in TIDs /\ server[client.dest_tid].block = LastBlock
          BY DEF TftpInv, InvOf, Setting
    <1>2. /\ LastBlock \in Nat /\ FullBlocks \in Nat /\ LastBlock <= FullBlocks + 1
          /\ opcode = "RRQ" \/ Rest => LastBlock = FullBlocks + 1
          BY <1>1, TftpNumbers
    <1>3. TftpTypeOK
          <2>1. client \in Clients
                BY <1>1 DEF ClientOK
          <2>2. \A p \in net : PktOK(p.m) /\ {p.from, p.to} \subseteq TIDs \cup {ME, SRV_PORT}
                BY <1>1 DEF PacketFits, Packets, PktOK, Ports
          <2>3. file \in Seq(1 .. Padded)
                BY <1>1 DEF FileOK
          <2>4. PktOK(client.out)
                BY <2>1 DEF Clients, Packets, PktOK
          <2> QED BY <1>1, <2>1, <2>2, <2>3, <2>4 DEF TftpTypeOK, Clients, Ports
    <1>4. ReadIsPrefix
          <2>1. file \in Seq(Nat)
                BY <1>1, <1>2, TftpNumbers DEF FileOK
          <2> QED BY <1>1, <2>1, CountedIsPrefix DEF FileOK, ReadIsPrefix
    <1>5. ASSUME opcode = "RRQ" \/ client.phase # "failed", NEW t \in TIDs
          PROVE  IsPrefix(server[t].file, FileBlocks) /\ (opcode = "WRQ" /\ server[t].block = LastBlock =>
                     server[t].file = FileBlocks /\ (Rest => server[t].state = "complete"))
          <2>1. server[t].file \in Seq(Nat) /\ server[t].block \in Nat /\ Serving(server[t])
                BY <1>1, <1>5 DEF Servers, Honest
          <2>2. /\ Len(server[t].file) <= LastBlock /\ \A i \in 1 .. Len(server[t].file) : server[t].file[i] = i
                /\ opcode = "WRQ" => Len(server[t].file) = server[t].block
                /\ (opcode = "WRQ" /\ server[t].block > FullBlocks) => server[t].state = "complete"
                BY <1>1, <1>2, <2>1 DEF Serving
          <2> QED BY <1>1, <1>2, <2>1, <2>2, CountedIsPrefix
    <1>6. StoredIsPrefixInTransfer
          BY <1>5 DEF StoredIsPrefixInTransfer
    <1>7. WrittenIsComplete
          BY <1>1, <1>5 DEF WrittenIsComplete
    <1> QED BY <1>3, <1>4, <1>6, <1>7 DEF TransferIsRight

\* Whatever packets the network loses, repeats and reorders, from however many
\* ports the server answers, whenever timeouts come and the disk fails, what
\* start_client (client.c:89) has read is the beginning of the file, what a server
\* has stored is too until the client gives up, and success means all of the file:
\* for every file with fewer blocks than there are block numbers, every MAX_TRIES
\* from 2 on and every number of faults.
THEOREM TftpTransfersRight ==
    ASSUME TftpAssumption, FewerBlocksThanNumbers PROVE TftpSpec => []TransferIsRight
    <1>1. TftpInit => TftpInv
          BY TftpInitInv
    <1>2. TftpInv /\ [TftpNext]_tftp_vars => TftpInv'
          BY TftpNextInv
    <1>3. TftpInv => TransferIsRight
          BY InvTransferIsRight
    <1> QED BY <1>1, <1>2, <1>3, PTL DEF TftpSpec
=============================================================================
