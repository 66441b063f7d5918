----------------------------- MODULE TftpClient -----------------------------
(***************************************************************************)
(* start_client of the TFTP client (net_protocol/tftp/client.c, packets of *)
(* tftp.c) against a server, over a network that delays, reorders, loses   *)
(* and duplicates packets.  The client's whole state is the local          *)
(* variables of start_client; an action is one sendto, one recvfrom with   *)
(* everything up to the next sendto, or one receive timeout.               *)
(***************************************************************************)
EXTENDS Integers, Sequences, FiniteSets, SequencesExt

CONSTANTS
    FullBlocks,     \* how many blocks of 512 bytes the file has
    Rest,           \* whether a shorter, nonempty block follows them
    MaxTries,       \* MAX_TRIES
    BlockMod,       \* block numbers are taken modulo this, 65536 in the code
    Disk,           \* outcomes of fopen, fread and fwrite: "ok", "EACCES", "EIO"
    TIDs,           \* the ports the server may answer from
    NetLoss,        \* bound: how many packets the network loses
    NetDup,         \* bound: how many it delivers a second time
    NetEarly        \* bound: how many timeouts come while a packet is under way

ME == "client"      \* the port the client's socket is bound to
SRV_PORT == "69"

TftpAssumption ==
    /\ FullBlocks \in Nat /\ Rest \in BOOLEAN
    /\ MaxTries \in Nat \ {0, 1} /\ BlockMod \in Nat \ {0, 1}
    /\ Disk \subseteq {"ok", "EACCES", "EIO"} /\ "ok" \in Disk
    /\ {NetLoss, NetDup, NetEarly} \subseteq Nat
    /\ {ME, SRV_PORT} \cap TIDs = {}

\* Block numbers do not come round, as they do not for files below 32 MB.
FewerBlocksThanNumbers == FullBlocks + 1 < BlockMod

VARIABLES
    opcode,     \* "RRQ" (the client reads) or "WRQ" (it writes)
    client,     \* the locals of start_client, see TftpInit
    file,       \* RRQ: the blocks the client has written to its file
    server,     \* for each TID, the server's transfer
    net,        \* the packets under way
    net_faults      \* how many losses, duplicates and early timeouts so far

tftp_vars == <<opcode, client, file, server, net, net_faults>>

\* The file to transfer, block by block.  Where the server sends it, it ends
\* with a short block even if that one is empty.
LastBlock == FullBlocks + (IF opcode = "RRQ" \/ Rest THEN 1 ELSE 0)
FileBlocks == [i \in 1 .. LastBlock |-> i]
NoData == 0
Padded == LastBlock + 1     \* a short block with leftover bytes behind it, 512 in all
IsFull(data) == data = Padded \/ data <= FullBlocks

Pkt(op, n, data) == [op |-> op, n |-> n, data |-> data]
Request == Pkt(opcode, 0, NoData)
Ack(n) == Pkt("ACK", n, NoData)
Data(i) == Pkt("DATA", i % BlockMod, i)
ILLEGAL_OPERATION == 4
UNKNOWN_TID == 5
ACCESS_VIOLATION == 2
Error(code) == Pkt("ERROR", code, NoData)

Send(from, to, m) == [from |-> from, to |-> to, m |-> m]

TftpInit ==
    /\ opcode \in {"RRQ", "WRQ"}
    /\ client = [phase |-> "request", pc |-> "send",
                 timeout_tries |-> MaxTries, err_blck_tries |-> MaxTries,
                 expected |-> IF opcode = "RRQ" THEN 1 ELSE 0,  \* expected_blck_num
                 otr |-> SRV_PORT,                          \* where packets go
                 dest_tid |-> SRV_PORT,
                 out |-> Request,                           \* send_buffer
                 block |-> 0]                               \* WRQ: blocks read so far
    /\ file = <<>>
    /\ server = [t \in TIDs |-> [state |-> "idle", block |-> 0, file |-> <<>>]]
    /\ net = {}
    /\ net_faults = [loss |-> 0, dup |-> 0, early |-> 0]

----------------------------------------------------------------------------
(* What start_client does between a recvfrom and the next sendto.  A       *)
(* result is the new client, the packets sent and the blocks written.      *)

Result(c, sent, wrote) == [c |-> c, sent |-> sent, wrote |-> wrote]

Exit(c, how, sent) == Result([c EXCEPT !.phase = how, !.pc = "end"], sent, <<>>)

\* The end of both requests' loops, "Maximum tries reached": error_package
\* writes nothing for TFTP_ERR_NOT_DEFINED, so all 516 bytes of send_buffer go
\* out as they are.
GiveUp(c) ==
    LET m == IF c.out.op = "DATA" /\ ~IsFull(c.out.data)
             THEN [c.out EXCEPT !.data = Padded] ELSE c.out
    IN  Exit(c, "failed", {Send(ME, c.otr, m)})

\* The next turn of a loop, with err_blck_tries counted down or reset.
Again(c, tries) ==
    IF tries = 0 THEN GiveUp([c EXCEPT !.err_blck_tries = 0])
    ELSE Result([c EXCEPT !.err_blck_tries = tries, !.timeout_tries = MaxTries,
                          !.pc = "send"], {}, <<>>)

Retry(c) == Again(c, c.err_blck_tries - 1)

\* A failing fopen, fread or fwrite: find_error knows EACCES, any other errno
\* becomes TFTP_ERR_NOT_DEFINED.
DiskFailures(c) ==
    UNION {IF d = "EACCES" THEN {Exit(c, "failed", {Send(ME, c.otr, Error(ACCESS_VIOLATION))})}
                           ELSE {GiveUp(c)} : d \in Disk \ {"ok"}}

\* RRQ: a block is written to the file and its ACK prepared; a short block
\* ends the transfer with the final ACK, which nothing repeats.
WriteBlock(c, m) ==
    LET acked == [c EXCEPT !.phase = "transfer", !.expected = m.n, !.out = Ack(m.n)]
        next  == IF IsFull(m.data) THEN Again(acked, MaxTries)
                 ELSE Exit(acked, "done", {Send(ME, c.otr, Ack(m.n))})
    IN  {[next EXCEPT !.wrote = <<m.data>>]} \cup DiskFailures(c)

\* WRQ: the next block is read and packed.  At end of file fread returns 0
\* and the loop ends.
ReadBlock(c) ==
    LET i == c.block + 1
        next == [c EXCEPT !.phase = "transfer", !.block = i,
                          !.expected = (@ + 1) % BlockMod, !.out = Data(i)]
    IN  (IF i > LastBlock THEN {Exit(next, "done", {})} ELSE {Again(next, MaxTries)})
        \cup DiskFailures(c)

FaultyAccept(c, m) ==
    IF opcode = "RRQ"
    THEN IF m.n # c.expected THEN WriteBlock(c, m) ELSE {Retry(c)}
    ELSE CASE m.n # c.expected /\ c.out.data < LastBlock ->
                  {Again([c EXCEPT !.block = @ + 1, !.out.data = @ + 1], MaxTries)}
           [] m.n = c.expected /\ IsFull(c.out.data) -> ReadBlock(c)
           [] OTHER -> {Exit(c, "done", {})}

\* A packet of the right kind from the right port, in the transfer.  A wrong
\* ACK does not count as an error: the block is sent again and
\* err_blck_tries is reset.
Accept(c, m) ==
    IF opcode = "RRQ"
    THEN IF m.n = (c.expected + 1) % BlockMod THEN WriteBlock(c, m) ELSE {Retry(c)}
    ELSE CASE m.n # c.expected -> {Again(c, MaxTries)}
           [] m.n = c.expected /\ ~IsFull(c.out.data) -> {Exit(c, "done", {})}
           [] OTHER -> ReadBlock(c)

\* The first answer.  Reading, a wrong block number makes the client ask again,
\* where the answer came from; writing, it goes round with the same answer
\* until err_blck_tries is 0.  The answer the request hoped for costs a try too.
FirstAnswer(c, p) ==
    CASE p.m.n = c.expected /\ c.err_blck_tries > 1 ->
             LET known == [c EXCEPT !.dest_tid = p.from]
             IN  IF opcode = "RRQ" THEN WriteBlock(known, p.m) ELSE ReadBlock(known)
      [] p.m.n # c.expected /\ opcode = "RRQ" -> {Retry(c)}
      [] OTHER -> {Again(c, 0)}

\* A packet p has arrived in time.
HandlePacket(c, p) ==
    LET wanted == IF opcode = "RRQ" THEN "DATA" ELSE "ACK"
    IN  CASE c.phase = "transfer" /\ p.from # c.dest_tid ->
                 {[Retry(c) EXCEPT !.sent = @ \cup {Send(ME, c.otr, Error(UNKNOWN_TID))}]}
          [] p.m.op = "ERROR" /\ (c.phase = "request" \/ p.from = c.dest_tid) ->
                 IF c.phase = "transfer" /\ p.m.n = UNKNOWN_TID
                 THEN {Again(c, MaxTries)} ELSE {Exit(c, "failed", {})}
          [] p.m.op \notin {"ERROR", wanted} /\ (c.phase = "request" \/ p.from = c.dest_tid) ->
                 {Exit(c, "failed", {Send(ME, c.otr, Error(ILLEGAL_OPERATION))})}
          [] p.m.op = wanted /\ c.phase = "request" -> FirstAnswer(c, p)
          [] p.m.op = wanted /\ c.phase = "transfer" /\ p.from = c.dest_tid -> Accept(c, p.m)

----------------------------------------------------------------------------
(* The client's steps.                                                     *)

SendPacket ==
    /\ client.pc = "send"
    /\ net' = net \cup {Send(ME, client.otr, client.out)}
    /\ client' = [client EXCEPT !.pc = "recv"]
    /\ UNCHANGED <<opcode, file, server, net_faults>>

\* Taking packet p from the network; a duplicate stays behind.
Consume(p, rest) ==
    \/ rest = net \ {p} /\ UNCHANGED net_faults
    \/ rest = net /\ net_faults.dup < NetDup /\ net_faults' = [net_faults EXCEPT !.dup = @ + 1]

\* recvfrom returns a packet and writes its sender over otr.  The packet that
\* comes on the last try is not looked at: timeout_tries is 0 by then.
RecvPacket ==
    /\ client.pc = "recv"
    /\ \E p \in {q \in net : q.to = ME}, keep \in BOOLEAN :
         /\ Consume(p, IF keep THEN net ELSE net \ {p})
         /\ LET c == [client EXCEPT !.otr = p.from, !.timeout_tries = @ - 1]
            IN  \E r \in IF c.timeout_tries = 0 THEN {GiveUp(c)} ELSE HandlePacket(c, p) :
                  /\ client' = r.c
                  /\ file' = file \o r.wrote
                  /\ net' = (IF keep THEN net ELSE net \ {p}) \cup r.sent
    /\ UNCHANGED <<opcode, server>>

FaultyRecvTimeout ==
    /\ client.pc = "recv"
    /\ IF net = {} THEN UNCHANGED net_faults
       ELSE net_faults.early < NetEarly /\ net_faults' = [net_faults EXCEPT !.early = @ + 1]
    /\ client' = [client EXCEPT !.pc = "send"]
    /\ UNCHANGED <<opcode, file, server, net>>

\* recvfrom times out after 5 seconds.
RecvTimeout ==
    /\ client.pc = "recv"
    /\ IF net = {} THEN UNCHANGED net_faults
       ELSE net_faults.early < NetEarly /\ net_faults' = [net_faults EXCEPT !.early = @ + 1]
    /\ LET c == [client EXCEPT !.timeout_tries = @ - 1]
           r == IF c.timeout_tries = 0 THEN GiveUp(c)
                ELSE Result([c EXCEPT !.pc = "send"], {}, <<>>)
       IN  client' = r.c /\ net' = net \cup r.sent
    /\ UNCHANGED <<opcode, file, server>>

----------------------------------------------------------------------------
(* The server and the network (external).  A request, be it a repeated     *)
(* one, opens a transfer on a port of its own; a packet that repeats the   *)
(* last one accepted is answered again.                                    *)

Reply(t, p, s, answer) ==
    \E keep \in BOOLEAN :
        /\ Consume(p, IF keep THEN net ELSE net \ {p})
        /\ net' = (IF keep THEN net ELSE net \ {p}) \cup {Send(t, ME, m) : m \in answer}
        /\ server' = [server EXCEPT ![t] = s]
        /\ UNCHANGED <<opcode, client, file>>

ServeRequest(t) ==
    /\ server[t].state = "idle"
    /\ \E p \in net : /\ p.to = SRV_PORT /\ p.m = Request
                      /\ Reply(t, p, [server[t] EXCEPT !.state = "busy",
                                                       !.block = IF opcode = "RRQ" THEN 1 ELSE 0],
                               {IF opcode = "RRQ" THEN Data(1) ELSE Ack(0)})

ServeAck(t) ==
    /\ server[t].state = "busy"
    /\ \E p \in net :
         LET last == server[t].block
         IN  /\ p.to = t /\ p.m.op = "ACK"
             /\ \/ /\ p.m.n = last % BlockMod /\ last = LastBlock
                   /\ Reply(t, p, [server[t] EXCEPT !.state = "complete"], {})
                \/ /\ p.m.n = last % BlockMod /\ last < LastBlock
                   /\ Reply(t, p, [server[t] EXCEPT !.block = last + 1], {Data(last + 1)})
                \/ /\ p.m.n = (last - 1) % BlockMod /\ last > 1
                   /\ Reply(t, p, server[t], {Data(last)})

ServeData(t) ==
    /\ server[t].state \in {"busy", "complete"}
    /\ \E p \in net :
         LET s == server[t]
         IN  /\ p.to = t /\ p.m.op = "DATA"
             /\ \/ /\ s.state = "busy" /\ p.m.n = (s.block + 1) % BlockMod
                   /\ Reply(t, p, [s EXCEPT !.block = @ + 1, !.file = Append(@, p.m.data),
                                            !.state = IF IsFull(p.m.data) THEN "busy" ELSE "complete"],
                            {Ack(p.m.n)})
                \/ /\ p.m.n = s.block % BlockMod /\ s.block > 0
                   /\ Reply(t, p, s, {Ack(p.m.n)})

\* An ERROR packet ends the transfer.
ServeError(t) ==
    /\ server[t].state = "busy"
    /\ \E p \in net : /\ p.to = t /\ p.m.op = "ERROR"
                      /\ Reply(t, p, [server[t] EXCEPT !.state = "aborted"], {})

\* The network, or a server that has no use for a packet, drops it.
DropPacket ==
    /\ \E p \in net : net' = net \ {p}
    /\ net_faults.loss < NetLoss
    /\ net_faults' = [net_faults EXCEPT !.loss = @ + 1]
    /\ UNCHANGED <<opcode, client, file, server>>

\* A packet nobody will take: not of the kind or the number its port expects.
Ignore ==
    /\ \E p \in net :
         /\ p.to # ME \/ client.pc = "end"
         /\ ~ \E t \in TIDs :
                \/ p.to = SRV_PORT /\ p.m = Request /\ server[t].state = "idle"
                \/ /\ p.to = t /\ server[t].state \in {"busy", "complete"}
                   /\ \/ p.m.op = "ERROR"
                      \/ p.m.op = "ACK" /\ p.m.n \in {(server[t].block + d) % BlockMod : d \in {0, -1}}
                      \/ p.m.op = "DATA" /\ p.m.n \in {(server[t].block + d) % BlockMod : d \in {0, 1}}
         /\ net' = net \ {p}
    /\ UNCHANGED <<opcode, client, file, server, net_faults>>

Serve == \E t \in TIDs : ServeRequest(t) \/ ServeAck(t) \/ ServeData(t) \/ ServeError(t)

TftpNext == SendPacket \/ RecvPacket \/ RecvTimeout \/ Serve \/ DropPacket \/ Ignore

\* The client process runs and its receive timeout fires; the server answers
\* what reaches it and the network delivers or drops what it carries.
TftpSpec ==
    /\ TftpInit /\ [][TftpNext]_tftp_vars
    /\ WF_tftp_vars(SendPacket) /\ WF_tftp_vars(RecvPacket) /\ WF_tftp_vars(RecvTimeout)
    /\ WF_tftp_vars(Serve \/ Ignore)

----------------------------------------------------------------------------
PktOK(m) ==
    /\ m.op \in {"RRQ", "WRQ", "DATA", "ACK", "ERROR"}
    /\ m.n \in 0 .. BlockMod + UNKNOWN_TID /\ m.data \in 0 .. Padded

\* The type of the state, with the counters within the limits they are tested
\* against.
TftpTypeOK ==
    /\ opcode \in {"RRQ", "WRQ"}
    /\ client.phase \in {"request", "transfer", "done", "failed"}
    /\ client.pc \in {"send", "recv", "end"}
    /\ client.timeout_tries \in 0 .. MaxTries /\ client.err_blck_tries \in 0 .. MaxTries
    /\ client.expected \in 0 .. BlockMod - 1 /\ client.block \in 0 .. LastBlock + 1
    /\ client.otr \in TIDs \cup {SRV_PORT} /\ client.dest_tid \in TIDs \cup {SRV_PORT}
    /\ PktOK(client.out)
    /\ file \in Seq(1 .. Padded)
    /\ \A p \in net : PktOK(p.m) /\ {p.from, p.to} \subseteq TIDs \cup {ME, SRV_PORT}

\* Reading: whatever the network loses, repeats or reorders, and whichever
\* port it came from, what is in the client's file is the beginning of the
\* server's file, and all of it once start_client succeeds (client.c:356-470).
ReadIsPrefix ==
    opcode = "RRQ" => /\ IsPrefix(file, FileBlocks)
                      /\ client.phase = "done" => file = FileBlocks

\* Writing: when start_client succeeds, the server it talked to has the whole
\* file (client.c:682, "End of write request"), and has seen its end if that is
\* a short block.
WrittenIsComplete ==
    (opcode = "WRQ" /\ client.phase = "done") =>
        /\ server[client.dest_tid].file = FileBlocks
        /\ Rest => server[client.dest_tid].state = "complete"

\* Writing: no server stores anything but the beginning of the file, as long as
\* the client has not given up.
StoredIsPrefixInTransfer ==
    client.phase # "failed" => \A t \in TIDs : IsPrefix(server[t].file, FileBlocks)

\* What a receiver has of a file is the beginning of it, each block once, though
\* packets are lost, repeated and late and come from several ports, and all of it
\* when start_client (client.c:89) reports success.
TransferIsRight ==
    TftpTypeOK /\ ReadIsPrefix /\ StoredIsPrefixInTransfer /\ WrittenIsComplete

TransferEnded == client.pc = "end"
TransferSucceeded ==
    /\ client.phase = "done"
    /\ (IF opcode = "RRQ" THEN file ELSE server[client.dest_tid].file) = FileBlocks

\* start_client returns or exits, whatever is lost.
TransferTerminates == <>TransferEnded

\* As long as fewer packets are lost than MAX_TRIES can make up for, the
\* transfer succeeds and the receiving side has the file, also one with more
\* blocks than there are block numbers.
TransferSucceeds == <>TransferSucceeded
=============================================================================
