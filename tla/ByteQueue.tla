------------------------------ MODULE ByteQueue ------------------------------
(***************************************************************************)
(* What a byte ring buffer promises its caller: a bounded first-in         *)
(* first-out queue of bytes.  The buffers of source/fun_buffer are shown   *)
(* to implement this specification.                                        *)
(***************************************************************************)
EXTENDS Integers, Sequences

CONSTANTS
    Byte,       \* the values a byte can take
    Blocks,     \* the blocks of bytes a caller hands over in one call
    Lengths,    \* the lengths a caller asks for in one call
    Capacity,   \* how many bytes the buffer holds
    Exact       \* a forced put drops no more than it has to

VARIABLES
    queue,      \* the bytes put and not yet got, oldest first
    reply       \* the last call: its length, its result and the caller's bytes

qvars == <<queue, reply>>

Least(a, b) == IF a <= b THEN a ELSE b

\* The last k elements of s.
Newest(s, k) == SubSeq(s, Len(s) - k + 1, Len(s))

Reply(call, length, n, bytes) ==
    [call |-> call, length |-> length, n |-> n, bytes |-> bytes]

QInit == queue = <<>> /\ reply = Reply("init", 0, 0, <<>>)

\* A put takes as much of the block as fits, from the front.
QPut(data) ==
    LET n == Least(Len(data), Capacity - Len(queue))
    IN  /\ reply' = Reply("put", Len(data), n, data)
        /\ queue' = queue \o SubSeq(data, 1, n)

\* A forced put takes the block, or as much of its end as the queue can hold,
\* and drops the oldest bytes instead.
QPutForce(data) ==
    LET all == queue \o data
        fit == Least(Len(all), Capacity)
    IN  /\ reply' = Reply("force", Len(data), Least(Len(data), Capacity), data)
        /\ \E k \in 0 .. fit :
              /\ Exact => k = fit
              /\ queue' = Newest(all, k)

QGet(length) ==
    LET n == Least(length, Len(queue))
    IN  /\ reply' = Reply("get", length, n, SubSeq(queue, 1, n))
        /\ queue' = SubSeq(queue, n + 1, Len(queue))

QReset == queue' = <<>> /\ reply' = Reply("reset", 0, 0, <<>>)

QNext ==
    \/ \E data \in Blocks : QPut(data) \/ QPutForce(data)
    \/ \E length \in Lengths : QGet(length)
    \/ QReset

QSpec == QInit /\ [][QNext]_qvars
=============================================================================
