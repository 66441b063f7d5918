----------------------------- MODULE SpscQueue -----------------------------
(***************************************************************************)
(* What a byte buffer shared by one producer and one consumer promises.  A *)
(* producer offers a block and some time later a prefix of it joins the    *)
(* queue, all at once, or all of it with other bytes behind; a consumer    *)
(* takes bytes from the front.                                             *)
(***************************************************************************)
EXTENDS Integers, Sequences

CONSTANTS
    Blocks,     \* the blocks the producer offers
    Capacity    \* how many bytes the queue holds

VARIABLES
    offer,      \* the block the producer's current call is about
    queue,      \* the bytes accepted and not yet taken, oldest first
    got         \* the bytes the consumer's last call delivered

qvars == <<offer, queue, got>>

QInit == offer = <<>> /\ queue = <<>> /\ got = <<>>

QOffer == offer = <<>> /\ offer' \in Blocks /\ UNCHANGED <<queue, got>>

\* The queue grows at its end.  What does not come from the block may be
\* anything, but comes after it.
QAccept ==
    LET old == Len(queue)
    IN  /\ Len(queue') \in old .. Capacity
        /\ \A i \in 1 .. old : queue'[i] = queue[i]
        /\ \A i \in 1 .. Len(queue') - old : i <= Len(offer) => queue'[old + i] = offer[i]
        /\ offer' = <<>>
        /\ UNCHANGED got

QTake ==
    /\ \E n \in 0 .. Len(queue) :
          /\ got' = SubSeq(queue, 1, n)
          /\ queue' = SubSeq(queue, n + 1, Len(queue))
    /\ UNCHANGED offer

\* Bytes taken from the front and not all handed over.
QSkip ==
    /\ \E n \in 0 .. Len(queue) : queue' = SubSeq(queue, n + 1, Len(queue))
    /\ UNCHANGED offer

QNext == QOffer \/ QAccept \/ QTake
=============================================================================
