------------------------------ MODULE MCRtForce ------------------------------
(***************************************************************************)
(* RtRingBuffer with a count of the bytes its comments promise are kept:   *)
(* a put takes what fits, and a forced put discards old data only "when    *)
(* the buffer is full".                                                    *)
(***************************************************************************)
EXTENDS MCRtRingBuffer

VARIABLE promised   \* how many bytes a caller may expect to get back

FInit == Init /\ promised = 0

\* Any kind of put adds its bytes, up to the pool; any kind of get takes some.
Filled(n) == promised' = Least(promised + n, buffer_size)
Drained(n) == promised' = promised - Least(n, promised)

FNext ==
    \/ \E data \in Blocks :
          (ringbuffer_put(data) \/ ringbuffer_put_force(data)) /\ Filled(Len(data))
    \/ \E ch \in Byte :
          (ringbuffer_putchar(ch) \/ ringbuffer_putchar_force(ch)) /\ Filled(1)
    \/ \E length \in Lengths : ringbuffer_get(length) /\ Drained(length)
    \/ ringbuffer_getchar /\ Drained(1)
    \/ ringbuffer_reset /\ promised' = 0

FSpec == FInit /\ [][FNext]_<<vars, promised>>

\* A forced put discards old data only to make room for the new: afterwards
\* the buffer holds as much as was put into it, up to its size
\* (ringbuffer_put_force and the comment above it).
ForcedPutDiscardsOnlyOldData == ringbuffer_data_len = promised
=============================================================================
