---------------------------- MODULE MessageQueue ----------------------------
(***************************************************************************)
(* The message queue of src/source/fun_buffer/message_queue.c (the one     *)
(* e_mqtt.c also has): one block of memory in which the messages' bytes    *)
(* grow from the start and their headers grow down from the end.           *)
(*                                                                         *)
(* mem is that block, cell by cell.  A cell holds a byte of a message or   *)
(* is part of a header, and whichever was written last wins, so headers    *)
(* and bytes that met would destroy each other.                            *)
(***************************************************************************)
EXTENDS Integers, Sequences, FiniteSets, SequencesExt

CONSTANTS
    MemSize,        \* bufsz
    HeaderSize,     \* sizeof(struct message_item)
    Payloads,       \* the messages a user packs: non-empty sequences of bytes
    Junk            \* what the memory holds before it is written

ASSUME LayoutAssumption ==
    /\ HeaderSize \in Nat \ {0}
    /\ MemSize \in Nat /\ MemSize >= HeaderSize
    /\ \A bytes \in Payloads : Len(bytes) \in Nat \ {0}

VARIABLES
    mem,            \* mem_start .. mem_end - 1
    curr,           \* where the next message's bytes go
    queue_tail,     \* the lowest header
    curr_sz,        \* how many bytes the next message may have
    result          \* what the last call was given and returned

vars == <<mem, curr, queue_tail, curr_sz, result>>

States == {"UNSENT", "AWAITING_ACK", "COMPLETE"}

Cell(byte)  == [byte |-> byte, start |-> 0, size |-> 0, state |-> "none"]
Item(start, size, state) == [byte |-> Junk, start |-> start, size |-> size, state |-> state]

\* mq_get: where the i-th header is, from 0; mq_length: how many there are.
mq_get(i) == MemSize - (i + 1) * HeaderSize
mq_length(tail) == (MemSize - tail) \div HeaderSize

\* A faulty mq_currsz that does not set a header aside.
CurrszWithoutHeader(c, tail) == IF c >= tail THEN 0 ELSE tail - c

\* mq_currsz: the bytes between curr and the header after the lowest one.
mq_currsz(c, tail) ==
    IF c >= tail - HeaderSize THEN 0 ELSE tail - HeaderSize - c

Region(from, n) == from .. (from + n - 1)

\* memmove(dest, src, n)
Moved(m, dest, src, n) ==
    [a \in DOMAIN m |-> IF a \in Region(dest, n) THEN m[a - dest + src] ELSE m[a]]

\* A header is written or changed as a whole.
WithItem(m, at, item) ==
    [a \in DOMAIN m |-> IF a \in Region(at, HeaderSize) THEN item ELSE m[a]]

-----------------------------------------------------------------------------
\* mq_init
Init ==
    /\ mem = [a \in 0..(MemSize - 1) |-> Cell(Junk)]
    /\ curr = 0
    /\ queue_tail = MemSize
    /\ curr_sz = mq_currsz(0, MemSize)
    /\ result = [call |-> "init", bytes |-> <<>>, rv |-> 0]

Layout(m, c, t) == [mem |-> m, curr |-> c, tail |-> t, size |-> mq_currsz(c, t)]

\* A faulty mq_clean that moves the headers and not the bytes.
CleanWithoutBytes(m, c, t) ==
    LET n       == mq_length(t)
        live    == {i \in 0..(n - 1) : m[mq_get(i)].state # "COMPLETE"}
        head    == Min(live)
        start   == m[mq_get(head)].start
        tailIdx == n - 1 - head
        moved   == Moved(m, mq_get(tailIdx), t, HeaderSize * (tailIdx + 1))
        bumped  == [a \in DOMAIN m |->
                        IF a >= mq_get(tailIdx) THEN [moved[a] EXCEPT !.start = @ - start]
                        ELSE moved[a]]
    IN  IF live = {} THEN Layout(m, 0, MemSize)
        ELSE IF head = 0 THEN Layout(m, c, t)
        ELSE Layout(bumped, c - start, mq_get(tailIdx))

\* mq_clean, as a function of the memory, curr and queue_tail.
mq_clean(m, c, t) ==
    LET n       == mq_length(t)
        live    == {i \in 0..(n - 1) : m[mq_get(i)].state # "COMPLETE"}
        head    == Min(live)                        \* new_head
        start   == m[mq_get(head)].start            \* removing
        tailIdx == n - 1 - head                     \* new_tail_idx
        moved   == Moved(Moved(m, 0, start, c - start),
                         mq_get(tailIdx), t, HeaderSize * (tailIdx + 1))
        bumped  == [a \in DOMAIN m |->
                        IF a >= mq_get(tailIdx) THEN [moved[a] EXCEPT !.start = @ - start]
                        ELSE moved[a]]
    IN  IF live = {} THEN Layout(m, 0, MemSize)
        ELSE IF head = 0 THEN Layout(m, c, t)
        ELSE Layout(bumped, c - start, mq_get(tailIdx))

\* The packer writes at curr, mq_register adds the header and moves curr.
mq_register(l, bytes) ==
    LET packed == [a \in DOMAIN l.mem |->
                     IF a \in Region(l.curr, Len(bytes)) THEN Cell(bytes[a - l.curr + 1])
                     ELSE l.mem[a]]
        tail   == l.tail - HeaderSize
    IN  Layout(WithItem(packed, tail, Item(l.curr, Len(bytes), "UNSENT")),
               l.curr + Len(bytes), tail)

Install(l) ==
    /\ mem' = l.mem /\ curr' = l.curr
    /\ queue_tail' = l.tail /\ curr_sz' = l.size

\* mq_try_pack: when the message does not fit, clean and try once more.
mq_try_pack(bytes) ==
    LET now     == [mem |-> mem, curr |-> curr, tail |-> queue_tail, size |-> curr_sz]
        cleaned == mq_clean(mem, curr, queue_tail)
        room    == Len(bytes) <= curr_sz \/ Len(bytes) <= cleaned.size
    IN  /\ result' = [call |-> "pack", bytes |-> bytes, rv |-> IF room THEN Len(bytes) ELSE -1]
        /\ Install(IF Len(bytes) <= curr_sz THEN mq_register(now, bytes)
                   ELSE IF room THEN mq_register(cleaned, bytes)
                   ELSE cleaned)

Clean ==
    /\ result' = [call |-> "clean", bytes |-> <<>>, rv |-> 0]
    /\ Install(mq_clean(mem, curr, queue_tail))

\* The user sets the state of a message through the pointer it was given.
Mark(i, s) ==
    /\ i \in 1..mq_length(queue_tail)
    /\ result' = [call |-> "mark", bytes |-> <<s>>, rv |-> i]
    /\ mem' = WithItem(mem, mq_get(i - 1), [mem[mq_get(i - 1)] EXCEPT !.state = s])
    /\ UNCHANGED <<curr, queue_tail, curr_sz>>

Bytes(item) == [k \in 1..item.size |-> mem[item.start + k - 1].byte]

\* mq_find with a check for state s, from the oldest message on; the user
\* reads the message's bytes.
mq_find(s) ==
    LET found == {i \in 1..mq_length(queue_tail) : mem[mq_get(i - 1)].state = s}
        i     == IF found = {} THEN 0 ELSE Min(found)
    IN  /\ result' = [call |-> "find", rv |-> i,
                      bytes |-> IF i = 0 THEN <<s>> ELSE <<s>> \o Bytes(mem[mq_get(i - 1)])]
        /\ UNCHANGED <<mem, curr, queue_tail, curr_sz>>

Next ==
    \/ \E bytes \in Payloads : mq_try_pack(bytes)
    \/ Clean
    \/ \E i \in 1..mq_length(queue_tail), s \in States : Mark(i, s)
    \/ \E s \in States : mq_find(s)

Spec == Init /\ [][Next]_vars

-----------------------------------------------------------------------------
(* Properties.                                                             *)

\* The messages lie one behind the other from the start of the block up to
\* curr, the headers never reach down to them, and curr_sz is what the
\* macro would give: no message and no header overlaps another.
LayoutOK ==
    LET n == mq_length(queue_tail)
        item(i) == mem[mq_get(i)]
    IN  /\ curr <= queue_tail
        /\ curr_sz = mq_currsz(curr, queue_tail)
        /\ \A i \in 0..(n - 1) :
            /\ item(i).state \in States
            /\ item(i).start = IF i = 0 THEN 0 ELSE item(i - 1).start + item(i - 1).size
        /\ curr = IF n = 0 THEN 0 ELSE item(n - 1).start + item(n - 1).size

\* Read through its headers, the block is the list of messages the user
\* packed and has not finished: packing, cleaning and finding are those of a
\* list, whatever was moved in memory.
List ==
    INSTANCE MessageList WITH
        list <- [i \in 1..mq_length(queue_tail) |->
                    [bytes |-> Bytes(mem[mq_get(i - 1)]), state |-> mem[mq_get(i - 1)].state]]

IsAMessageList == List!ListSpec
=============================================================================
