---------------------------- MODULE RtRingBuffer ----------------------------
(***************************************************************************)
(* source/fun_buffer/rt_ringbuffer.c: a byte ring buffer whose read and    *)
(* write positions carry a mirror bit, so that all `buffer_size' cells can *)
(* be used: equal indices mean empty in the same mirror and full in        *)
(* different ones.  Calls are not synchronised ("no thread wait or resume  *)
(* feature", rt_ringbuffer.h), so one call is one step.                    *)
(***************************************************************************)
EXTENDS Integers, Sequences

CONSTANTS
    Byte,           \* the values of a byte
    Blocks,         \* the blocks callers put
    Lengths,        \* the lengths callers ask for
    buffer_size     \* the size ringbuffer_init stored

\* ringbuffer_init aligns the size down to a multiple of 8 and stores it in
\* an int16_t; a request below 8 leaves no cell at all and is not modelled.
ASSUME SizeAssumption ==
    /\ buffer_size \in 8 .. 32760
    /\ buffer_size % 8 = 0

ASSUME CallerAssumption ==
    /\ Blocks \subseteq Seq(Byte)
    /\ \A b \in Byte : <<b>> \in Blocks
    /\ Lengths \subseteq Nat
    /\ 1 \in Lengths

VARIABLES
    buffer,         \* the pool, cell -> byte
    read_mirror, read_index,
    write_mirror, write_index,
    reply           \* the last call: its length, its result and the caller's bytes

vars == <<buffer, read_mirror, read_index, write_mirror, write_index, reply>>

Cells == 0 .. buffer_size - 1

Reply(call, length, n, bytes) ==
    [call |-> call, length |-> length, n |-> n, bytes |-> bytes]

Least(a, b) == IF a <= b THEN a ELSE b

-----------------------------------------------------------------------------
\* A status that forgets the mirrors.
StatusWithoutMirror == IF read_index = write_index THEN "EMPTY" ELSE "HALFFULL"

\* The three states of the buffer (ringbuffer_status).
ringbuffer_status ==
    IF read_index = write_index
    THEN IF read_mirror = write_mirror THEN "EMPTY" ELSE "FULL"
    ELSE "HALFFULL"

ringbuffer_data_len ==
    IF ringbuffer_status = "EMPTY" THEN 0
    ELSE IF ringbuffer_status = "FULL" THEN buffer_size
    ELSE IF write_index > read_index THEN write_index - read_index
    ELSE buffer_size - (read_index - write_index)

ringbuffer_space_len == buffer_size - ringbuffer_data_len

\* Moving an index n cells on: it wraps, and flips its mirror, when it
\* reaches the end of the pool.
Wraps(index, n) == ~ (buffer_size - index > n)

MovedIndex(index, n) ==
    IF Wraps(index, n) THEN n - (buffer_size - index) ELSE index + n

MovedMirror(mirror, index, n) == IF Wraps(index, n) THEN 1 - mirror ELSE mirror

\* The pool after copying the first n bytes of data to `at', in one memcpy or
\* in the two that go round the end.
Copied(at, data, n) ==
    [c \in Cells |-> IF at <= c /\ c < at + n THEN data[c - at + 1]
                     ELSE IF c + buffer_size < at + n
                          THEN data[c + buffer_size - at + 1]
                     ELSE buffer[c]]

\* The n bytes that start at index `at', wrapping round.
Bytes(at, n) ==
    [i \in 1 .. n |-> buffer[IF at + i - 1 < buffer_size
                             THEN at + i - 1
                             ELSE at + i - 1 - buffer_size]]

-----------------------------------------------------------------------------
\* ringbuffer_init; what the pool holds then is whatever malloc returned.
Init ==
    /\ \E b \in Byte : buffer = [c \in Cells |-> b]
    /\ read_mirror = 0 /\ read_index = 0
    /\ write_mirror = 0 /\ write_index = 0
    /\ reply = Reply("init", 0, 0, <<>>)

ringbuffer_put(data) ==
    LET n == Least(Len(data), ringbuffer_space_len)
    IN  /\ buffer' = Copied(write_index, data, n)
        /\ write_index' = MovedIndex(write_index, n)
        /\ write_mirror' = MovedMirror(write_mirror, write_index, n)
        /\ reply' = Reply("put", Len(data), n, data)
        /\ UNCHANGED <<read_mirror, read_index>>

\* A forced put that copies the first bytes of a block that is too long.
PutForceFirstBytes(data) ==
    LET n == Least(Len(data), buffer_size)
        overrun == n > ringbuffer_space_len
    IN  /\ buffer' = Copied(write_index, data, n)
        /\ write_index' = MovedIndex(write_index, n)
        /\ write_mirror' = MovedMirror(write_mirror, write_index, n)
        /\ read_index' = IF overrun THEN write_index' ELSE read_index
        /\ read_mirror' = IF overrun
                          THEN MovedMirror(read_mirror, write_index, n)
                          ELSE read_mirror
        /\ reply' = Reply("force", Len(data), n, data)

\* The forced put writes the last buffer_size bytes of the block and, when
\* they do not fit, moves the read position onto the write position; in the
\* branch that wraps it also flips the read mirror.
ringbuffer_put_force(data) ==
    LET n == Least(Len(data), buffer_size)
        tail == SubSeq(data, Len(data) - n + 1, Len(data))
        overrun == n > ringbuffer_space_len
    IN  /\ buffer' = Copied(write_index, tail, n)
        /\ write_index' = MovedIndex(write_index, n)
        /\ write_mirror' = MovedMirror(write_mirror, write_index, n)
        /\ read_index' = IF overrun THEN write_index' ELSE read_index
        /\ read_mirror' = IF overrun
                          THEN MovedMirror(read_mirror, write_index, n)
                          ELSE read_mirror
        /\ reply' = Reply("force", Len(data), n, data)

\* A get that moves its index without flipping its mirror at the end.
GetWithoutMirror(length) ==
    LET n == Least(length, ringbuffer_data_len)
    IN  /\ reply' = Reply("get", length, n, Bytes(read_index, n))
        /\ read_index' = MovedIndex(read_index, n)
        /\ UNCHANGED <<buffer, read_mirror, write_mirror, write_index>>

ringbuffer_get(length) ==
    LET n == Least(length, ringbuffer_data_len)
    IN  /\ reply' = Reply("get", length, n, Bytes(read_index, n))
        /\ read_index' = MovedIndex(read_index, n)
        /\ read_mirror' = MovedMirror(read_mirror, read_index, n)
        /\ UNCHANGED <<buffer, write_mirror, write_index>>

\* A step that wraps one cell late.
NextIndexLate(index) == IF index = buffer_size THEN 0 ELSE index + 1

\* The single-byte calls step an index by one, wrapping at the last cell.
NextIndex(index) == IF index = buffer_size - 1 THEN 0 ELSE index + 1

NextMirror(mirror, index) ==
    IF index = buffer_size - 1 THEN 1 - mirror ELSE mirror

ringbuffer_putchar(ch) ==
    /\ ringbuffer_space_len # 0
    /\ buffer' = [buffer EXCEPT ![write_index] = ch]
    /\ write_index' = NextIndex(write_index)
    /\ write_mirror' = NextMirror(write_mirror, write_index)
    /\ reply' = Reply("put", 1, 1, <<ch>>)
    /\ UNCHANGED <<read_mirror, read_index>>

ringbuffer_putchar_force(ch) ==
    LET full == ringbuffer_status = "FULL"
    IN  /\ buffer' = [buffer EXCEPT ![write_index] = ch]
        /\ write_index' = NextIndex(write_index)
        /\ write_mirror' = NextMirror(write_mirror, write_index)
        /\ read_index' = IF full THEN write_index' ELSE read_index
        /\ read_mirror' = IF full THEN NextMirror(read_mirror, write_index)
                                  ELSE read_mirror
        /\ reply' = Reply("force", 1, 1, <<ch>>)

ringbuffer_getchar ==
    /\ ringbuffer_data_len # 0
    /\ reply' = Reply("get", 1, 1, <<buffer[read_index]>>)
    /\ read_index' = NextIndex(read_index)
    /\ read_mirror' = NextMirror(read_mirror, read_index)
    /\ UNCHANGED <<buffer, write_mirror, write_index>>

ringbuffer_reset ==
    /\ read_mirror' = 0 /\ read_index' = 0
    /\ write_mirror' = 0 /\ write_index' = 0
    /\ reply' = Reply("reset", 0, 0, <<>>)
    /\ UNCHANGED buffer

-----------------------------------------------------------------------------
\* Every call but the forced put of a block.
PlainNext ==
    \/ \E data \in Blocks : ringbuffer_put(data)
    \/ \E length \in Lengths : ringbuffer_get(length)
    \/ \E ch \in Byte : ringbuffer_putchar(ch) \/ ringbuffer_putchar_force(ch)
    \/ ringbuffer_getchar
    \/ ringbuffer_reset

Next == PlainNext \/ \E data \in Blocks : ringbuffer_put_force(data)

Spec == Init /\ [][Next]_vars

-----------------------------------------------------------------------------
Replies == [call : {"init", "put", "force", "get", "reset"},
            length : Nat, n : 0 .. buffer_size, bytes : Seq(Byte)]

\* Every index stays inside the pool and every mirror is one bit.
TypeOK ==
    /\ buffer \in [Cells -> Byte]
    /\ read_mirror \in {0, 1} /\ write_mirror \in {0, 1}
    /\ read_index \in Cells /\ write_index \in Cells
    /\ reply \in Replies

\* The writer is at most one lap ahead of the reader: in the same mirror the
\* write position is not behind the read position, in different mirrors it is
\* not past it.  Any other combination is one the code would misread as data.
LapOK ==
    IF read_mirror = write_mirror THEN read_index <= write_index
                                  ELSE write_index <= read_index

\* The bytes a caller can still get, oldest first.
Contents == Bytes(read_index, ringbuffer_data_len)

\* But for forced block puts the ring is exactly a bounded byte queue.
ExactQueue == INSTANCE ByteQueue
    WITH queue <- Contents, Capacity <- buffer_size, Exact <- TRUE

\* With them it still never reorders, repeats or invents a byte, although a
\* forced put may drop more than it has to.
LossyQueue == INSTANCE ByteQueue
    WITH queue <- Contents, Capacity <- buffer_size, Exact <- FALSE

\* Every call other than the forced put of a block, from any state that history
\* led to, is one of a bounded first-in first-out byte queue that drops, on a
\* forced putchar, exactly the oldest byte.
PlainCallsAreAQueue ==
    /\ ExactQueue!QInit
    /\ [][ExactQueue!QNext \/ \E data \in Blocks : ringbuffer_put_force(data)]_(ExactQueue!qvars)

\* Every history of calls, the forced block put included, hands out bytes in
\* the order they came in, and what is left is always the newest bytes put.
AllCallsKeepOrder == LossyQueue!QSpec
=============================================================================
