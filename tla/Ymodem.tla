------------------------------- MODULE Ymodem -------------------------------
(***************************************************************************)
(* Ymodem_Transmit and Ymodem_Receive of fun_protocol/ymodem/ymodem.c, the *)
(* one sending a file to the other over a serial line.  A token of the     *)
(* line is a packet, a control byte, or what is left of a packet that lost *)
(* bytes: Receive_Packet reads that one byte after the other.  The line    *)
(* keeps the order; it loses tokens, changes bytes and breaks packets.  An *)
(* action is one token sent, or what one call of Receive_Packet or         *)
(* Receive_Byte returns with the reaction to it.                           *)
(***************************************************************************)
EXTENDS Integers, Sequences, FiniteSets, SequencesExt

CONSTANTS
    NBlocks,        \* the packets the file is cut into
    NumberMod,      \* packet numbers are compared modulo this, 256 in the code
    Bytes,          \* what the bytes of its packets look like to Receive_Packet
    Breaks,         \* where packets lose bytes: at the "start" or "later"
    MaxSendErrors,  \* 0x0A, after which Ymodem_Transmit returns
    MAX_ERRORS,     \* errors in a row that Ymodem_Receive tolerates
    MaxLoss,        \* bound: how many tokens are lost
    MaxGarble,      \* bound: how many packets arrive with a wrong number
    MaxFlip,        \* bound: how many arrive with a wrong data byte
    MaxBroken,      \* bound: how many arrive with bytes missing or a wrong header
    RestBytes,      \* bound: how many bytes are left of a packet without its start
    MaxEarly        \* bound: how many timeouts come though the peer is not waiting

YmodemAssumption ==
    /\ Breaks \subseteq {"start", "later"}
    /\ Bytes \subseteq {"other", "EOT", "ABORT", "CA", "header"}
    /\ {NBlocks, NumberMod, MaxSendErrors, MAX_ERRORS} \subseteq Nat \ {0} /\ NumberMod > 1
    /\ {MaxLoss, MaxGarble, MaxFlip, MaxBroken, RestBytes, MaxEarly} \subseteq Nat

VARIABLES
    sender,         \* where Ymodem_Transmit is, its errors and blkNumber
    receiver,       \* where Ymodem_Receive is and its counters
    toReceiver, toSender,   \* the two directions of the line
    buf,            \* what is in Ymodem_Receive's buf, from its start
    accepted,       \* history: the numbers of the data blocks acknowledged, in order
    faults

vars == <<sender, receiver, toReceiver, toSender, buf, accepted, faults>>

\* Packets: the file name (number 0), block n, the empty name that ends the
\* session (number 0).
Packet(kind, n) == [kind |-> kind, n |-> n, good |-> TRUE]
Control(kind) == [kind |-> kind, n |-> 0, good |-> TRUE]
\* k bytes of a packet without its header; and a packet that lacks later bytes.
Remains(k) == [kind |-> "rest", n |-> k, good |-> FALSE]
Short == [kind |-> "short", n |-> 0, good |-> FALSE]
Blocks == [i \in 1 .. NBlocks |-> i]
BadBlock == 0

Init ==
    /\ sender = [phase |-> "name", pc |-> "send", errors |-> 0, blkNumber |-> 1]
    /\ receiver = [pc |-> "off", packets_received |-> 0, errors |-> 0, session_begin |-> FALSE]
    /\ toReceiver = <<>> /\ toSender = <<>>
    /\ buf = <<>> /\ accepted = <<>>
    /\ faults = [loss |-> 0, garble |-> 0, flip |-> 0, broken |-> 0, early |-> 0]

----------------------------------------------------------------------------
(* Ymodem_Transmit.                                                        *)

SenderEnded == sender.phase \in {"done", "failed"}

\* Ymodem_SendPacket with its CRC, or Send_Byte(EOT).
Transmit ==
    /\ sender.pc = "send"
    /\ toReceiver' = Append(toReceiver,
            CASE sender.phase = "name" -> Packet("name", 0)
              [] sender.phase = "data" -> Packet("data", sender.blkNumber)
              [] sender.phase = "last" -> Packet("last", 0)
              [] OTHER -> Control("EOT"))
    /\ sender' = [sender EXCEPT !.pc = "wait"]
    /\ UNCHANGED <<receiver, toSender, buf, accepted, faults>>

GoTo(phase) == [sender EXCEPT !.phase = phase, !.pc = IF phase \in {"done", "failed"} THEN "end" ELSE "send",
                              !.errors = IF phase \in {"fin", "done", "failed"} THEN @ ELSE 0]

Counted == LET e == sender.errors + 1
           IN  IF e >= MaxSendErrors THEN [GoTo("failed") EXCEPT !.errors = e]
               ELSE [sender EXCEPT !.errors = e, !.pc = "send"]

\* An ACK has come for the packet on its way, or so the sender believes.
Acknowledged ==
    CASE sender.phase = "name" -> GoTo("data")
      [] sender.phase = "data" /\ sender.blkNumber < NBlocks ->
             [GoTo("data") EXCEPT !.blkNumber = @ + 1]
      [] sender.phase = "data" /\ sender.blkNumber = NBlocks -> GoTo("eot")
      [] sender.phase = "eot" -> GoTo("last")
      [] sender.phase = "last" -> GoTo("fin")
      [] sender.phase = "fin" -> GoTo("done")

FaultyUnacknowledged == Acknowledged

\* Anything else.  The loops around the two name packets do not count it, the
\* other loops do; the last EOT is sent once only, ackReceived being set.
Unacknowledged ==
    CASE sender.phase \in {"name", "last"} -> [sender EXCEPT !.pc = "send"]
      [] sender.phase \in {"data", "eot"} -> Counted
      [] sender.phase = "fin" ->
             LET e == sender.errors + 1
             IN  [GoTo(IF e >= MaxSendErrors THEN "failed" ELSE "done") EXCEPT !.errors = e]

ReceiveAnswer ==
    /\ sender.pc = "wait" /\ toSender # <<>>
    /\ toSender' = Tail(toSender)
    /\ sender' = IF Head(toSender).kind = "ACK" THEN Acknowledged ELSE Unacknowledged
    /\ UNCHANGED <<receiver, toReceiver, buf, accepted, faults>>

\* A timeout is early unless nothing more comes: the line is silent and the peer
\* waits as well, or has returned.
Early(silent) ==
    IF silent THEN UNCHANGED faults
    ELSE faults.early < MaxEarly /\ faults' = [faults EXCEPT !.early = @ + 1]

Reading == receiver.pc \in {"wait", "inside"}

\* Receive_Byte times out; every loop counts that.
AnswerTimeout ==
    /\ sender.pc = "wait" /\ toSender = <<>>
    /\ Early(receiver.pc = "end" \/ (Reading /\ toReceiver = <<>>))
    /\ sender' = IF sender.phase = "fin" THEN Unacknowledged ELSE Counted
    /\ UNCHANGED <<receiver, toReceiver, toSender, buf, accepted>>

----------------------------------------------------------------------------
(* Ymodem_Receive.                                                         *)

\* Bytes for a sender that has returned go nowhere.
Answer(kinds) ==
    toSender' = IF SenderEnded THEN toSender
                ELSE toSender \o [i \in DOMAIN kinds |-> Control(kinds[i])]

\* The call of Ymodem_Receive asks for the first packet.
StartReceiver ==
    /\ receiver.pc = "off"
    /\ receiver' = [receiver EXCEPT !.pc = "wait"]
    /\ Answer(<<"C">>)
    /\ UNCHANGED <<sender, toReceiver, buf, accepted, faults>>

\* Receive_Packet returned -1: a timeout or an unreadable packet.
PacketError ==
    LET e == IF receiver.session_begin THEN receiver.errors + 1 ELSE 0
    IN  IF e > MAX_ERRORS
        THEN receiver' = [receiver EXCEPT !.pc = "end", !.errors = e] /\ Answer(<<"CA", "CA">>)
        ELSE receiver' = [receiver EXCEPT !.pc = "wait", !.errors = e] /\ Answer(<<"C">>)

\* End of the file: acknowledged, and the next packet has to be a name.
ReceiveEot ==
    /\ Answer(<<"ACK">>)
    /\ receiver' = [receiver EXCEPT !.errors = 0, !.packets_received = 0]
    /\ UNCHANGED <<buf, accepted>>

FaultyExpected(p) == p.n % NumberMod <= receiver.packets_received % NumberMod

\* The packet carries the number the receiver counts to.
Expected(p) == p.n % NumberMod = receiver.packets_received % NumberMod

\* Receive_Packet returned a packet: the switch on its length and number.  The
\* CRC behind the data is not looked at, and buf_ptr stays at buf.
ReceivePacket(p) ==
    LET r == [receiver EXCEPT !.pc = "wait", !.errors = 0]
    IN  CASE ~Expected(p) ->
                 /\ Answer(<<"NAK">>)
                 /\ receiver' = r
                 /\ UNCHANGED <<buf, accepted>>
          [] Expected(p) /\ r.packets_received = 0 /\ p.kind = "last" ->
                 /\ Answer(<<"ACK">>)
                 /\ receiver' = [r EXCEPT !.pc = "end"]
                 /\ UNCHANGED <<buf, accepted>>
          [] Expected(p) /\ r.packets_received = 0 /\ p.kind # "last" ->
                 /\ Answer(<<"ACK", "C">>)
                 /\ receiver' = [r EXCEPT !.packets_received = 1, !.session_begin = TRUE]
                 /\ UNCHANGED <<buf, accepted>>
          [] OTHER ->
                 /\ buf' = <<IF p.good THEN p.n ELSE BadBlock>>
                 /\ accepted' = Append(accepted, p.n)
                 /\ Answer(<<"ACK">>)
                 /\ receiver' = [r EXCEPT !.packets_received = @ + 1]

Receive ==
    /\ receiver.pc = "wait" /\ toReceiver # <<>> /\ Head(toReceiver).kind \notin {"rest", "short"}
    /\ toReceiver' = Tail(toReceiver)
    /\ CASE Head(toReceiver).kind = "garbage" -> PacketError /\ UNCHANGED <<buf, accepted>>
         [] Head(toReceiver).kind = "EOT" -> ReceiveEot
         [] OTHER -> ReceivePacket(Head(toReceiver))
    /\ UNCHANGED <<sender, faults>>

\* The first k bytes of the rest of a packet are read.
Take(k) ==
    LET left == Head(toReceiver).n - k
    IN  /\ left >= 0
        /\ toReceiver' = IF left = 0 THEN Tail(toReceiver) ELSE [toReceiver EXCEPT ![1] = Remains(left)]

\* Ymodem_Receive returns before the end of the session.
ReturnEarly(kinds) == receiver' = [receiver EXCEPT !.pc = "end"] /\ Answer(kinds)

\* Receive_Packet looks for a header among the bytes of a packet: one that is
\* none, EOT, 'A' or 'a', CA with or without another CA, one like a header.
ReceiveByte ==
    /\ receiver.pc = "wait" /\ toReceiver # <<>> /\ Head(toReceiver).kind = "rest"
    /\ \/ "other" \in Bytes /\ Take(1) /\ PacketError /\ UNCHANGED <<buf, accepted>>
       \/ "EOT" \in Bytes /\ Take(1) /\ ReceiveEot
       \/ "ABORT" \in Bytes /\ Take(1) /\ ReturnEarly(<<"CA", "CA">>) /\ UNCHANGED <<buf, accepted>>
       \/ "CA" \in Bytes /\ Take(2) /\ PacketError /\ UNCHANGED <<buf, accepted>>
       \/ "CA" \in Bytes /\ Take(2) /\ ReturnEarly(<<"ACK">>) /\ UNCHANGED <<buf, accepted>>
       \/ /\ "header" \in Bytes /\ Take(1) /\ receiver' = [receiver EXCEPT !.pc = "inside"]
          /\ UNCHANGED <<toSender, buf, accepted>>
    /\ UNCHANGED <<sender, faults>>

\* A packet that lacks bytes keeps Receive_Packet in its loop.
ReceiveShort ==
    /\ receiver.pc = "wait" /\ toReceiver # <<>> /\ Head(toReceiver).kind = "short"
    /\ toReceiver' = Tail(toReceiver) /\ receiver' = [receiver EXCEPT !.pc = "inside"]
    /\ UNCHANGED <<sender, toSender, buf, accepted, faults>>

\* The loop has all the bytes it wants: the number and its complement do not fit,
\* or what was read is taken for a packet.
FalsePacket ==
    \/ PacketError /\ UNCHANGED <<buf, accepted>>
    \/ \E kind \in {"name", "data", "last"}, n \in 0 .. NBlocks :
            ReceivePacket([kind |-> kind, n |-> n, good |-> FALSE])

\* The loop takes the next token for the bytes it lacks, all of it or its start,
\* which breaks the packet that was there.
ReceiveInside ==
    /\ receiver.pc = "inside" /\ toReceiver # <<>>
    /\ \/ /\ toReceiver' = Tail(toReceiver)
          /\ FalsePacket \/ UNCHANGED <<receiver, toSender, buf, accepted>>
          /\ UNCHANGED faults
       \/ /\ faults.broken < MaxBroken /\ Head(toReceiver).kind # "EOT"
          /\ \E k \in 1 .. RestBytes :
                /\ Head(toReceiver).kind = "rest" => k < Head(toReceiver).n
                /\ toReceiver' = [toReceiver EXCEPT ![1] = Remains(k)]
          /\ FalsePacket
          /\ faults' = [faults EXCEPT !.broken = @ + 1]
    /\ UNCHANGED sender

PacketTimeout ==
    /\ Reading /\ toReceiver = <<>>
    /\ Early(toSender = <<>> /\ sender.pc # "send")
    /\ PacketError
    /\ UNCHANGED <<sender, toReceiver, buf, accepted>>

----------------------------------------------------------------------------
(* The line (external).                                                    *)

Lose ==
    /\ faults.loss < MaxLoss
    /\ \/ toReceiver # <<>> /\ toReceiver' = Tail(toReceiver) /\ UNCHANGED toSender
       \/ toSender # <<>> /\ toSender' = Tail(toSender) /\ UNCHANGED toReceiver
    /\ faults' = [faults EXCEPT !.loss = @ + 1]
    /\ UNCHANGED <<sender, receiver, buf, accepted>>

Spoil(kinds, token) ==
    /\ toReceiver # <<>> /\ Head(toReceiver).kind \in kinds
    /\ toReceiver' = [toReceiver EXCEPT ![1] = token]
    /\ UNCHANGED <<sender, receiver, toSender, buf, accepted>>

\* The number of a packet or its complement changes: Receive_Packet reads the
\* whole packet and returns -1.
Garble ==
    /\ faults.garble < MaxGarble
    /\ Spoil({"name", "data", "last"}, Control("garbage"))
    /\ faults' = [faults EXCEPT !.garble = @ + 1]

\* A packet loses bytes, from its start or later on, or its header changes; or the
\* byte EOT changes.
Break ==
    /\ faults.broken < MaxBroken
    /\ \/ "start" \in Breaks /\ \E k \in 1 .. RestBytes : Spoil({"name", "data", "last"}, Remains(k))
       \/ "later" \in Breaks /\ Spoil({"name", "data", "last"}, Short)
       \/ "start" \in Breaks /\ Spoil({"EOT"}, Remains(1))
    /\ faults' = [faults EXCEPT !.broken = @ + 1]

\* A data byte changes.
Flip ==
    /\ faults.flip < MaxFlip
    /\ Spoil({"data"}, [Head(toReceiver) EXCEPT !.good = FALSE])
    /\ faults' = [faults EXCEPT !.flip = @ + 1]

SenderStep == Transmit \/ ReceiveAnswer \/ AnswerTimeout
ReceiverStep ==
    StartReceiver \/ Receive \/ ReceiveByte \/ ReceiveShort \/ ReceiveInside \/ PacketTimeout

Next == SenderStep \/ ReceiverStep \/ Lose \/ Garble \/ Flip \/ Break

\* Both programs run.
Spec == Init /\ [][Next]_vars /\ WF_vars(SenderStep) /\ WF_vars(ReceiverStep)

----------------------------------------------------------------------------
Tokens == [kind : {"name", "data", "last", "EOT", "garbage", "rest", "short",
                   "ACK", "NAK", "C", "CA"}, n : Nat, good : BOOLEAN]

\* The type of the state.
TypeOK ==
    /\ sender \in [phase : {"name", "data", "eot", "last", "fin", "done", "failed"},
                   pc : {"send", "wait", "end"}, errors : 0 .. MaxSendErrors,
                   blkNumber : 1 .. NBlocks]
    /\ receiver \in [pc : {"off", "wait", "inside", "end"}, packets_received : Nat,
                     errors : 0 .. MAX_ERRORS + 1, session_begin : BOOLEAN]
    /\ toReceiver \in Seq(Tokens) /\ toSender \in Seq(Tokens)
    /\ buf \in Seq(Nat) /\ accepted \in Seq(Nat)
    /\ faults \in [loss : 0 .. MaxLoss, garble : 0 .. MaxGarble, flip : 0 .. MaxFlip,
                   broken : 0 .. MaxBroken, early : 0 .. MaxEarly]

\* Whatever answers are read for other packets than the one they were meant
\* for, the receiver accepts the blocks of the file in order, each once.
AcceptedIsPrefix == IsPrefix(accepted, Blocks)

\* What is left of a broken packet has no byte like a header or a control byte.
HarmlessBytes == Breaks \subseteq {"start"} /\ Bytes \subseteq {"other"}

\* Receive_Packet finds packets only where the sender began them.
InStep == faults.broken = 0 \/ HarmlessBytes

\* Within the types, and, in step, the beginning of the file.
ReceivedIsPrefix == TypeOK /\ (InStep => AcceptedIsPrefix)

\* Ymodem_Transmit returns 0 (ymodem.c:756, "file trasmitted successfully") only
\* when the receiver has accepted every block.
SuccessIsTrue == sender.phase = "done" => accepted = Blocks

\* That holds in step, whatever else the line did.
SuccessIsComplete == InStep => SuccessIsTrue

Succeeded == sender.phase = "done" /\ accepted = Blocks

\* Ymodem_Transmit returns (ymodem.c:594, "Resend packet if NAK for a count of
\* 10 else end of commuincation").
Terminates == <>SenderEnded

\* On a line that loses nothing, the file gets across although every answer is
\* read for a later packet than it was sent for.
Succeeds == <>Succeeded
=============================================================================
