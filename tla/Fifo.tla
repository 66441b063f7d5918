-------------------------------- MODULE Fifo --------------------------------
(***************************************************************************)
(* source/fun_buffer/fifo.c: a byte ring with a volatile head and tail and *)
(* no lock.  One producer calls ring_buffer_write; one consumer calls      *)
(* ring_buffer_read, or ring_buffer_get_data and ring_buffer_consume.  The *)
(* two run concurrently, one as a thread and the other as a thread or an   *)
(* interrupt handler, so a step is one access to shared memory: reading    *)
(* the other side's index, copying one byte, storing one's own index.  The *)
(* MIN of fifo.h evaluates the argument it chooses a second time, and with *)
(* it the other side's volatile index: the comparison and the value taken  *)
(* are two steps, and the value may be larger than what it was compared    *)
(* with.                                                                   *)
(***************************************************************************)
EXTENDS Integers, Sequences

CONSTANTS
    Byte,       \* the values of a byte
    Blocks,     \* the blocks the producer writes
    Lengths,    \* the lengths the consumer asks for
    pool_size   \* cells of the pool; one of them always stays free

FifoAssumption ==
    /\ pool_size \in Nat /\ pool_size > 0
    /\ Blocks \subseteq Seq(Byte) /\ Lengths \subseteq Nat

VARIABLES
    buffer,         \* the pool, cell -> byte
    head_index,     \* index of the oldest byte, stored by the consumer only
    tail_index,     \* index of the first free cell, stored by the producer only
    wpc, wdata,     \* the producer: where it is, the block it was given,
    amount_to_copy, \*   how much it copies,
    copied,         \*   and how many bytes memcpy has moved
    rpc,            \* the consumer: where it is,
    max_bytes,      \*   how many bytes it may have,
    data,           \*   and the bytes it has copied out so far
    got             \* the bytes its last call delivered

wvars == <<wpc, wdata, amount_to_copy, copied>>
rvars == <<rpc, max_bytes, data, got>>
ring_vars == <<buffer, head_index, tail_index, wvars, rvars>>

Cells == 0 .. pool_size - 1

-----------------------------------------------------------------------------
\* A free space that forgets the cell kept empty.
FreeSpaceWholePool == ((pool_size - tail_index) + head_index) % pool_size

\* ring_buffer_free_space and the same expression in ring_buffer_write.
ring_buffer_free_space == ((pool_size - 1 - tail_index) + head_index) % pool_size

\* ring_buffer_used_space and the same expression in ring_buffer_get_data.
ring_buffer_used_space == ((pool_size - head_index) + tail_index) % pool_size

ring_buffer_is_full == ring_buffer_used_space >= pool_size - 1

-----------------------------------------------------------------------------
RingInit ==
    /\ \E b \in Byte : buffer = [c \in Cells |-> b]
    /\ head_index = 0 /\ tail_index = 0
    /\ wpc = "idle" /\ wdata = <<>> /\ amount_to_copy = 0 /\ copied = 0
    /\ rpc = "idle" /\ max_bytes = 0 /\ data = <<>> /\ got = <<>>

\* A write that takes the longer of block and room.
WriteStartMax ==
    /\ wpc = "idle"
    /\ wdata' \in Blocks
    /\ IF Len(wdata') < ring_buffer_free_space
       THEN amount_to_copy' = 0 /\ wpc' = "room"
       ELSE amount_to_copy' = Len(wdata') /\ wpc' = "copy"
    /\ copied' = 0
    /\ UNCHANGED <<buffer, head_index, tail_index, rvars>>

\* ring_buffer_write is called: MIN compares the block with the room, from one
\* read of head.
WriteStart ==
    /\ wpc = "idle"
    /\ wdata' \in Blocks
    /\ IF Len(wdata') < ring_buffer_free_space
       THEN amount_to_copy' = Len(wdata') /\ wpc' = "copy"
       ELSE amount_to_copy' = 0 /\ wpc' = "room"
    /\ copied' = 0
    /\ UNCHANGED <<buffer, head_index, tail_index, rvars>>

\* The room is the smaller, and MIN computes it again: the reader may have made
\* it larger than the block.
WriteRoom ==
    /\ wpc = "room"
    /\ amount_to_copy' = ring_buffer_free_space
    /\ wpc' = "copy"
    /\ UNCHANGED <<buffer, head_index, tail_index, wdata, copied, rvars>>

\* What memcpy finds i bytes into the block: past its end, whatever is there.
SourceBytes(i) == IF i < Len(wdata) THEN {wdata[i + 1]} ELSE Byte

\* The copy before "Fix the bug when tail is at the end of buffer".
WriteByteShortEnd ==
    LET tail_to_end == pool_size - 1 - tail_index
        cell == IF copied < tail_to_end THEN tail_index + copied ELSE copied - tail_to_end
    IN  /\ wpc = "copy"
        /\ copied < amount_to_copy
        /\ \E byte \in SourceBytes(copied) : buffer' = [buffer EXCEPT ![cell] = byte]
        /\ copied' = copied + 1
        /\ UNCHANGED <<head_index, tail_index, wpc, wdata, amount_to_copy, rvars>>

\* One byte of the memcpy up to the end of the pool, or of the one that goes on
\* at its start.
WriteByte ==
    LET tail_to_end == pool_size - tail_index
        cell == IF copied < tail_to_end THEN tail_index + copied ELSE copied - tail_to_end
    IN  /\ wpc = "copy"
        /\ copied < amount_to_copy
        /\ \E byte \in SourceBytes(copied) : buffer' = [buffer EXCEPT ![cell] = byte]
        /\ copied' = copied + 1
        /\ UNCHANGED <<head_index, tail_index, wpc, wdata, amount_to_copy, rvars>>

\* A tail stored without the modulus.
PublishWithoutWrap ==
    /\ wpc = "copy"
    /\ copied = amount_to_copy
    /\ tail_index' = tail_index + amount_to_copy
    /\ wpc' = "idle" /\ wdata' = <<>> /\ amount_to_copy' = 0 /\ copied' = 0
    /\ UNCHANGED <<buffer, head_index, rvars>>

\* A tail stored before the memcpy is done.
PublishEarly ==
    /\ wpc = "copy"
    /\ tail_index' = (tail_index + amount_to_copy) % pool_size
    /\ wpc' = "idle" /\ wdata' = <<>> /\ amount_to_copy' = 0 /\ copied' = 0
    /\ UNCHANGED <<buffer, head_index, rvars>>

\* The new tail makes the bytes visible to the consumer; the call returns.
WritePublish ==
    /\ wpc = "copy"
    /\ copied = amount_to_copy
    /\ tail_index' = (tail_index + amount_to_copy) % pool_size
    /\ wpc' = "idle" /\ wdata' = <<>> /\ amount_to_copy' = 0 /\ copied' = 0
    /\ UNCHANGED <<buffer, head_index, rvars>>

\* ring_buffer_read is called: MIN compares the length asked for with what there
\* is, from one read of tail.
ReadStart(data_length) ==
    /\ rpc = "idle"
    /\ IF data_length < ring_buffer_used_space
       THEN max_bytes' = data_length /\ rpc' = "read"
       ELSE max_bytes' = 0 /\ rpc' = "avail"
    /\ UNCHANGED <<buffer, head_index, tail_index, data, got, wvars>>

\* ring_buffer_get_data is called: the bytes from head on, up to the end of the
\* pool.
GetData ==
    /\ rpc = "idle"
    /\ IF pool_size - head_index < ring_buffer_used_space
       THEN max_bytes' = pool_size - head_index /\ rpc' = "peek"
       ELSE max_bytes' = 0 /\ rpc' = "extent"
    /\ UNCHANGED <<buffer, head_index, tail_index, data, got, wvars>>

\* In either call what there is is the smaller, and MIN computes it again: the
\* writer may have made it larger than the length asked for, or than what is
\* left of the pool.
ReadAvailable ==
    /\ rpc \in {"avail", "extent"}
    /\ max_bytes' = ring_buffer_used_space
    /\ rpc' = IF rpc = "avail" THEN "read" ELSE "peek"
    /\ UNCHANGED <<buffer, head_index, tail_index, data, got, wvars>>

\* One byte copied out; after ring_buffer_get_data the caller does that itself
\* through the pointer it was given, which does not wrap but leaves the pool.
ReadByte ==
    LET at == head_index + Len(data)
    IN  /\ rpc \in {"read", "peek"}
        /\ Len(data) < max_bytes
        /\ IF rpc = "peek" /\ at >= pool_size
           THEN \E byte \in Byte : data' = Append(data, byte)
           ELSE data' = Append(data, buffer[at % pool_size])
        /\ UNCHANGED <<buffer, head_index, tail_index, rpc, max_bytes, got, wvars>>

\* ring_buffer_consume: the cells are given back and the call ends.  A read
\* consumes all it copied; a caller of ring_buffer_get_data may stop early and
\* consumes what it has looked at.
Consume ==
    /\ rpc \in {"read", "peek"}
    /\ rpc = "read" => Len(data) = max_bytes
    /\ head_index' = (head_index + Len(data)) % pool_size
    /\ got' = data
    /\ rpc' = "idle" /\ max_bytes' = 0 /\ data' = <<>>
    /\ UNCHANGED <<buffer, tail_index, wvars>>

Producer == WriteStart \/ WriteRoom \/ WriteByte \/ WritePublish
Consumer == (\E n \in Lengths : ReadStart(n)) \/ GetData \/ ReadAvailable \/ ReadByte \/ Consume
RingNext == Producer \/ Consumer

RingSpec == RingInit /\ [][RingNext]_ring_vars

-----------------------------------------------------------------------------
\* Indices stay inside the pool, and no call moves more bytes than the pool has
\* cells less one.
FifoTypeOK ==
    /\ buffer \in [Cells -> Byte]
    /\ head_index \in Cells /\ tail_index \in Cells
    /\ wpc \in {"idle", "room", "copy"} /\ wdata \in Seq(Byte)
    /\ amount_to_copy \in Cells /\ copied \in 0 .. amount_to_copy
    /\ rpc \in {"idle", "avail", "extent", "read", "peek"} /\ max_bytes \in Cells
    /\ data \in Seq(Byte) /\ Len(data) <= max_bytes
    /\ got \in Seq(Byte)

\* How far tail is ahead of head, without the modulus.
Used ==
    IF head_index <= tail_index THEN tail_index - head_index
    ELSE pool_size + tail_index - head_index

\* The three queries agree in every state, between the steps of a call too:
\* used and free space add up to one cell less than the pool, and the buffer
\* is full exactly when a write would get no room.
QueriesAgree ==
    /\ ring_buffer_used_space + ring_buffer_free_space = pool_size - 1
    /\ ring_buffer_is_full <=> ring_buffer_free_space = 0

\* The room a write works with and the bytes a read works with stay there until
\* the call ends, whatever the other side did between the two readings of its
\* index or does meanwhile: a stale index is on the safe side.
StaleIndexIsSafe ==
    /\ Used + amount_to_copy <= pool_size - 1
    /\ max_bytes <= Used

\* The cell k places on from a cell.
Ahead(from, k) == IF from + k < pool_size THEN from + k ELSE from + k - pool_size

\* The bytes a consumer can take, oldest first.
Contents == [i \in 1 .. Used |-> buffer[Ahead(head_index, i - 1)]]

\* What the consumer has copied out and what the producer has copied in are
\* untouched by the other side while their calls last.  (Past the end of its
\* block a write copies what it finds there, and past the end of the pool a
\* caller of ring_buffer_get_data reads what it finds there.)
NoTornCopy ==
    /\ \A i \in 1 .. Len(data) :
        rpc = "read" \/ head_index + i <= pool_size => data[i] = Contents[i]
    /\ \A i \in 1 .. copied : i <= Len(wdata) => wdata[i] = buffer[Ahead(tail_index, i - 1)]

Spsc == INSTANCE SpscQueue WITH offer <- wdata, queue <- Contents,
                                Capacity <- pool_size - 1

\* ring_buffer_consume of more than ring_buffer_get_data should have shown: the
\* bytes go, and the caller has not seen all of them.
PastEnd == rpc = "peek" /\ head_index + Len(data) > pool_size /\ Spsc!QSkip

\* One producer and one consumer see a bounded first-in first-out byte queue:
\* whatever the interleaving of their copies and index stores, no byte is
\* lost, repeated, reordered, torn or read before it was written.  The two
\* places where MIN overshoots show: bytes that were not in the block follow
\* it, and a peek past the end of the pool.
IsSpscQueue == Spsc!QInit /\ [][Spsc!QNext \/ PastEnd]_(Spsc!qvars)

\* A write copies no more than it was given ("Calculate the maximum amount we
\* can copy", fifo.c:66).
CopiesAtMostTheBlock == amount_to_copy <= Len(wdata)
=============================================================================
