------------------------- MODULE RtRingBufferProofs -------------------------
(***************************************************************************)
(* Theorems about rt_ringbuffer.c for every pool size, byte set and block. *)
(***************************************************************************)
EXTENDS RtRingBuffer, SequenceTheorems, TLAPS

Inv == TypeOK /\ LapOK

\* What ringbuffer_data_len computes while the positions are at most one lap
\* apart: a length between nothing and the whole pool, and the distance from
\* the read position to the write position.
LenOK ==
    /\ ringbuffer_data_len \in 0 .. buffer_size
    /\ ringbuffer_space_len \in 0 .. buffer_size
    /\ ringbuffer_space_len + ringbuffer_data_len = buffer_size
    /\ ringbuffer_data_len = IF read_mirror = write_mirror
                             THEN write_index - read_index
                             ELSE buffer_size + write_index - read_index
    /\ ringbuffer_status = "FULL" <=> ringbuffer_data_len = buffer_size

\* ringbuffer_data_len and ringbuffer_space_len are right in every state in
\* which the positions are at most a lap apart.
LEMMA DataLen == Inv => LenOK
    <1> SUFFICES ASSUME Inv PROVE LenOK
        OBVIOUS
    <1> USE DEF Inv, TypeOK, LapOK, Cells, LenOK
    <1>1. buffer_size \in Nat /\ buffer_size >= 8
          BY SizeAssumption
    <1>2. CASE read_index = write_index /\ read_mirror = write_mirror
          <2>1. ringbuffer_status = "EMPTY"
                BY <1>2 DEF ringbuffer_status
          <2>2. ringbuffer_data_len = 0
                BY <2>1 DEF ringbuffer_data_len
          <2> QED BY <1>1, <1>2, <2>1, <2>2 DEF ringbuffer_space_len
    <1>3. CASE read_index = write_index /\ read_mirror # write_mirror
          <2>1. ringbuffer_status = "FULL"
                BY <1>3 DEF ringbuffer_status
          <2>2. ringbuffer_data_len = buffer_size
                BY <2>1 DEF ringbuffer_data_len
          <2> QED BY <1>1, <1>3, <2>1, <2>2 DEF ringbuffer_space_len
    <1>4. CASE read_index # write_index
          <2>1. ringbuffer_status = "HALFFULL"
                BY <1>4 DEF ringbuffer_status
          <2>2. ringbuffer_data_len = IF write_index > read_index
                                      THEN write_index - read_index
                                      ELSE buffer_size - (read_index - write_index)
                BY <2>1 DEF ringbuffer_data_len
          <2> QED BY <1>1, <1>4, <2>1, <2>2 DEF ringbuffer_space_len
    <1> QED BY <1>2, <1>3, <1>4

\* Moving an index by at most a lap leaves it inside the pool.
LEMMA Moved ==
    ASSUME NEW index \in Cells, NEW mirror \in {0, 1}, NEW n \in 0 .. buffer_size
    PROVE  /\ MovedIndex(index, n) \in Cells
           /\ MovedMirror(mirror, index, n) \in {0, 1}
           /\ Wraps(index, n) <=> index + n >= buffer_size
           /\ MovedIndex(index, n) = IF index + n >= buffer_size
                                     THEN index + n - buffer_size ELSE index + n
           /\ MovedMirror(mirror, index, n) = IF index + n >= buffer_size
                                              THEN 1 - mirror ELSE mirror
    BY SizeAssumption DEF Cells, MovedIndex, MovedMirror, Wraps

\* Copying bytes into the pool keeps it a pool of bytes.
LEMMA CopiedType ==
    ASSUME TypeOK, NEW data \in Seq(Byte), NEW n \in 0 .. buffer_size,
           n <= Len(data)
    PROVE  Copied(write_index, data, n) \in [Cells -> Byte]
    <1>1. ASSUME NEW c \in Cells
          PROVE  /\ write_index <= c /\ c < write_index + n
                       => data[c - write_index + 1] \in Byte
                 /\ c + buffer_size < write_index + n
                       => data[c + buffer_size - write_index + 1] \in Byte
                 /\ buffer[c] \in Byte
          BY <1>1, SizeAssumption DEF TypeOK, Cells
    <1> QED BY <1>1 DEF Copied

\* A call's reply is a reply.
LEMMA ReplyType ==
    ASSUME NEW call \in {"init", "put", "force", "get", "reset"},
           NEW length \in Nat, NEW n \in 0 .. buffer_size, NEW bytes \in Seq(Byte)
    PROVE  Reply(call, length, n, bytes) \in Replies
    BY DEF Reply, Replies

\* So is the reply of a call that moves one byte or none.
LEMMA SmallReplyType ==
    ASSUME NEW call \in {"init", "put", "force", "get", "reset"}
    PROVE  /\ Reply(call, 0, 0, <<>>) \in Replies
           /\ \A ch \in Byte : Reply(call, 1, 1, <<ch>>) \in Replies
    <1>1. 0 \in 0 .. buffer_size /\ 1 \in 0 .. buffer_size
          BY SizeAssumption
    <1>2. <<>> \in Seq(Byte) /\ \A ch \in Byte : <<ch>> \in Seq(Byte)
          OBVIOUS
    <1> QED BY <1>1, <1>2, ReplyType

\* The bytes read from the pool are bytes.
LEMMA BytesType ==
    ASSUME TypeOK, NEW n \in 0 .. buffer_size
    PROVE  Bytes(read_index, n) \in Seq(Byte)
    <1>1. ASSUME NEW i \in 1 .. n
          PROVE  buffer[IF read_index + i - 1 < buffer_size
                        THEN read_index + i - 1
                        ELSE read_index + i - 1 - buffer_size] \in Byte
          BY SizeAssumption DEF TypeOK, Cells
    <1> QED BY <1>1 DEF Bytes

-----------------------------------------------------------------------------
\* The byte calls are the block calls for a block of one byte.
LEMMA OneByte ==
    ASSUME TypeOK, NEW index \in Cells, NEW mirror \in {0, 1}, NEW ch \in Byte
    PROVE  /\ NextIndex(index) = MovedIndex(index, 1)
           /\ NextMirror(mirror, index) = MovedMirror(mirror, index, 1)
           /\ [buffer EXCEPT ![write_index] = ch] = Copied(write_index, <<ch>>, 1)
           /\ Bytes(index, 1) = <<buffer[index]>>
    <1> buffer_size \in Nat /\ buffer_size >= 8
        BY SizeAssumption
    <1>1. /\ NextIndex(index) = MovedIndex(index, 1)
          /\ NextMirror(mirror, index) = MovedMirror(mirror, index, 1)
          BY DEF NextIndex, NextMirror, MovedIndex, MovedMirror, Wraps, Cells
    <1>2. [buffer EXCEPT ![write_index] = ch] = Copied(write_index, <<ch>>, 1)
          <2>1. \A c \in Cells : [buffer EXCEPT ![write_index] = ch][c] =
                                  Copied(write_index, <<ch>>, 1)[c]
                BY DEF Copied, TypeOK, Cells
          <2> QED BY <2>1 DEF Copied, TypeOK
    <1>3. Bytes(index, 1) = <<buffer[index]>>
          BY DEF Bytes, Cells
    <1> QED BY <1>1, <1>2, <1>3

\* Writing n bytes that fit, by whatever call, keeps the positions at most a
\* lap apart.
LEMMA WriteKeepsInv ==
    ASSUME Inv, NEW data \in Seq(Byte), NEW n \in 0 .. ringbuffer_space_len,
           n <= Len(data),
           buffer' = Copied(write_index, data, n),
           write_index' = MovedIndex(write_index, n),
           write_mirror' = MovedMirror(write_mirror, write_index, n),
           reply' \in Replies, UNCHANGED <<read_mirror, read_index>>
    PROVE  Inv' /\ LenOK' /\ ringbuffer_data_len' = ringbuffer_data_len + n
    <1>1. buffer_size \in Nat /\ buffer_size >= 8 /\ n \in 0 .. buffer_size
          BY SizeAssumption, DataLen DEF LenOK
    <1>2. TypeOK'
          <2>1. buffer' \in [Cells -> Byte]
                BY <1>1, CopiedType DEF Inv
          <2> QED BY <1>1, <2>1, Moved DEF Inv, TypeOK
    <1>3. LenOK
          BY DataLen
    <1>4. /\ write_index' = IF write_index + n >= buffer_size
                            THEN write_index + n - buffer_size ELSE write_index + n
          /\ write_mirror' = IF write_index + n >= buffer_size
                             THEN 1 - write_mirror ELSE write_mirror
          BY <1>1, Moved DEF Inv, TypeOK
    <1>5. LapOK'
          BY <1>1, <1>3, <1>4 DEF Inv, TypeOK, LapOK, Cells, LenOK
    <1>6. Inv'
          BY <1>2, <1>5 DEF Inv
    <1>7. (Inv => LenOK)'
          BY DataLen, PTL
    <1> QED BY <1>1, <1>3, <1>4, <1>6, <1>7 DEF Inv, TypeOK, LapOK, Cells, LenOK

\* Reading n bytes that are there, by whatever call, does too.
LEMMA ReadKeepsInv ==
    ASSUME Inv, NEW n \in 0 .. ringbuffer_data_len, NEW length \in Nat,
           reply' = Reply("get", length, n, Bytes(read_index, n)),
           read_index' = MovedIndex(read_index, n),
           read_mirror' = MovedMirror(read_mirror, read_index, n),
           UNCHANGED <<buffer, write_mirror, write_index>>
    PROVE  Inv' /\ LenOK' /\ ringbuffer_data_len' = ringbuffer_data_len - n
    <1>0. LenOK
          BY DataLen
    <1>1. LenOK /\ n \in 0 .. buffer_size /\ buffer_size \in Nat /\ buffer_size >= 8
          BY <1>0, SizeAssumption DEF LenOK
    <1>2. TypeOK'
          <2>1. reply' \in Replies
                BY <1>1, BytesType, ReplyType DEF Inv
          <2> QED BY <1>1, <2>1, Moved DEF Inv, TypeOK
    <1>3. /\ read_index' = IF read_index + n >= buffer_size
                           THEN read_index + n - buffer_size ELSE read_index + n
          /\ read_mirror' = IF read_index + n >= buffer_size
                            THEN 1 - read_mirror ELSE read_mirror
          BY <1>1, Moved DEF Inv, TypeOK
    <1>4. LapOK'
          BY <1>1, <1>3 DEF Inv, TypeOK, LapOK, Cells, LenOK
    <1>5. Inv'
          BY <1>2, <1>4 DEF Inv
    <1>6. (Inv => LenOK)'
          BY DataLen, PTL
    <1>7. ringbuffer_data_len' = IF read_mirror' = write_mirror'
                                 THEN write_index' - read_index'
                                 ELSE buffer_size + write_index' - read_index'
          BY <1>5, <1>6 DEF LenOK
    <1>8. ringbuffer_data_len' = ringbuffer_data_len - n
          BY <1>1, <1>3, <1>7 DEF Inv, TypeOK, LapOK, Cells, LenOK
    <1> QED BY <1>5, <1>6, <1>8

\* Overwriting: n bytes go in although they do not fit, and the read position
\* follows the write position.  The result is a full ring, or an empty one when
\* the write went round the end from the mirror the reader was in.
LEMMA OverrunKeepsInv ==
    ASSUME Inv, NEW data \in Seq(Byte), NEW n \in 0 .. buffer_size,
           n <= Len(data), n > ringbuffer_space_len,
           buffer' = Copied(write_index, data, n),
           write_index' = MovedIndex(write_index, n),
           write_mirror' = MovedMirror(write_mirror, write_index, n),
           read_index' = write_index',
           read_mirror' = MovedMirror(read_mirror, write_index, n),
           reply' \in Replies
    PROVE  /\ Inv' /\ LenOK'
           /\ ringbuffer_data_len' = IF read_mirror = write_mirror
                                     THEN 0 ELSE buffer_size
    <1>1. LenOK /\ buffer_size \in Nat /\ buffer_size >= 8
          BY SizeAssumption, DataLen DEF LenOK
    <1>2. TypeOK'
          <2>1. buffer' \in [Cells -> Byte]
                BY CopiedType DEF Inv
          <2> QED BY <1>1, <2>1, Moved DEF Inv, TypeOK
    <1>3. LapOK'
          BY <1>2 DEF LapOK, TypeOK, Cells
    <1>4. Inv'
          BY <1>2, <1>3 DEF Inv
    <1>5. read_mirror' = write_mirror' <=> read_mirror = write_mirror
          <2>1. read_mirror \in {0, 1} /\ write_mirror \in {0, 1}
                BY DEF Inv, TypeOK
          <2>2. CASE Wraps(write_index, n)
                BY <2>1, <2>2 DEF MovedMirror
          <2>3. CASE ~ Wraps(write_index, n)
                BY <2>3 DEF MovedMirror
          <2> QED BY <2>2, <2>3
    <1>6. (Inv => LenOK)'
          BY DataLen, PTL
    <1> QED BY <1>1, <1>4, <1>5, <1>6 DEF Inv, TypeOK, Cells, LenOK

-----------------------------------------------------------------------------
\* What each call is, in terms of the three kinds of step above.
LEMMA PutIsWrite ==
    ASSUME Inv, NEW data \in Blocks, ringbuffer_put(data)
    PROVE  \E n \in 0 .. ringbuffer_space_len :
              /\ n = Least(Len(data), ringbuffer_space_len)
              /\ n <= Len(data)
              /\ buffer' = Copied(write_index, data, n)
              /\ write_index' = MovedIndex(write_index, n)
              /\ write_mirror' = MovedMirror(write_mirror, write_index, n)
              /\ reply' = Reply("put", Len(data), n, data) /\ reply' \in Replies
              /\ UNCHANGED <<read_mirror, read_index>>
    <1> DEFINE n == Least(Len(data), ringbuffer_space_len)
    <1>1. Len(data) \in Nat /\ ringbuffer_space_len \in Nat
          BY SizeAssumption, CallerAssumption, DataLen DEF LenOK
    <1>2. n \in 0 .. ringbuffer_space_len /\ n <= Len(data)
          BY <1>1 DEF Least
    <1>3. n \in 0 .. buffer_size
          BY <1>1, <1>2, SizeAssumption, DataLen DEF LenOK
    <1>4. Reply("put", Len(data), n, data) \in Replies
          BY <1>1, <1>3, CallerAssumption, ReplyType
    <1> QED BY <1>2, <1>4 DEF ringbuffer_put

LEMMA GetIsRead ==
    ASSUME Inv, NEW length \in Lengths, ringbuffer_get(length)
    PROVE  \E n \in 0 .. ringbuffer_data_len :
              /\ n = Least(length, ringbuffer_data_len)
              /\ reply' = Reply("get", length, n, Bytes(read_index, n))
              /\ read_index' = MovedIndex(read_index, n)
              /\ read_mirror' = MovedMirror(read_mirror, read_index, n)
              /\ UNCHANGED <<buffer, write_mirror, write_index>>
    <1> DEFINE n == Least(length, ringbuffer_data_len)
    <1>1. length \in Nat /\ ringbuffer_data_len \in Nat
          BY SizeAssumption, CallerAssumption, DataLen DEF LenOK
    <1>2. n \in 0 .. ringbuffer_data_len
          BY <1>1 DEF Least
    <1> QED BY <1>2 DEF ringbuffer_get

LEMMA PutForceIsWriteOrOverrun ==
    ASSUME Inv, NEW data \in Blocks, ringbuffer_put_force(data)
    PROVE  \E n \in 0 .. buffer_size, tail \in Seq(Byte) :
              /\ n = Least(Len(data), buffer_size) /\ n = Len(tail)
              /\ tail = SubSeq(data, Len(data) - n + 1, Len(data))
              /\ buffer' = Copied(write_index, tail, n)
              /\ write_index' = MovedIndex(write_index, n)
              /\ write_mirror' = MovedMirror(write_mirror, write_index, n)
              /\ reply' = Reply("force", Len(data), n, data) /\ reply' \in Replies
              /\ IF n > ringbuffer_space_len
                 THEN /\ read_index' = write_index'
                      /\ read_mirror' = MovedMirror(read_mirror, write_index, n)
                 ELSE UNCHANGED <<read_mirror, read_index>>
    <1> DEFINE n == Least(Len(data), buffer_size)
               tail == SubSeq(data, Len(data) - n + 1, Len(data))
    <1>1. data \in Seq(Byte) /\ Len(data) \in Nat /\ buffer_size \in Nat
          BY SizeAssumption, CallerAssumption
    <1>2. n \in 0 .. buffer_size /\ n <= Len(data)
          BY <1>1 DEF Least
    <1>3. tail \in Seq(Byte) /\ Len(tail) = n
          BY <1>1, <1>2
    <1> HIDE DEF n, tail
    <1>4. Reply("force", Len(data), n, data) \in Replies
          BY <1>1, <1>2, ReplyType
    <1> QED BY <1>2, <1>3, <1>4 DEF ringbuffer_put_force, n, tail

LEMMA PutcharIsWrite ==
    ASSUME Inv, NEW ch \in Byte, ringbuffer_putchar(ch)
    PROVE  /\ 1 \in 0 .. ringbuffer_space_len
           /\ <<ch>> \in Seq(Byte) /\ 1 <= Len(<<ch>>)
           /\ buffer' = Copied(write_index, <<ch>>, 1)
           /\ write_index' = MovedIndex(write_index, 1)
           /\ write_mirror' = MovedMirror(write_mirror, write_index, 1)
           /\ reply' = Reply("put", 1, 1, <<ch>>) /\ reply' \in Replies
           /\ UNCHANGED <<read_mirror, read_index>>
    <1>1. 1 \in 0 .. ringbuffer_space_len
          BY SizeAssumption, DataLen DEF LenOK, ringbuffer_putchar
    <1>2. write_index \in Cells /\ write_mirror \in {0, 1} /\ TypeOK
          BY DEF Inv, TypeOK
    <1>3. /\ NextIndex(write_index) = MovedIndex(write_index, 1)
          /\ NextMirror(write_mirror, write_index) =
                MovedMirror(write_mirror, write_index, 1)
          /\ [buffer EXCEPT ![write_index] = ch] = Copied(write_index, <<ch>>, 1)
          BY <1>2, OneByte
    <1>4. Reply("put", 1, 1, <<ch>>) \in Replies
          BY SmallReplyType
    <1> QED BY <1>1, <1>3, <1>4 DEF ringbuffer_putchar

LEMMA PutcharForceIsWriteOrOverrun ==
    ASSUME Inv, NEW ch \in Byte, ringbuffer_putchar_force(ch)
    PROVE  /\ 1 \in 0 .. buffer_size
           /\ <<ch>> \in Seq(Byte) /\ 1 <= Len(<<ch>>)
           /\ buffer' = Copied(write_index, <<ch>>, 1)
           /\ write_index' = MovedIndex(write_index, 1)
           /\ write_mirror' = MovedMirror(write_mirror, write_index, 1)
           /\ reply' = Reply("force", 1, 1, <<ch>>) /\ reply' \in Replies
           /\ IF 1 > ringbuffer_space_len
              THEN /\ read_index' = write_index' /\ read_mirror # write_mirror
                   /\ read_mirror' = MovedMirror(read_mirror, write_index, 1)
              ELSE UNCHANGED <<read_mirror, read_index>>
    <1>1. /\ write_index \in Cells /\ TypeOK
          /\ write_mirror \in {0, 1} /\ read_mirror \in {0, 1}
          BY DEF Inv, TypeOK
    <1>0. LenOK
          BY DataLen
    <1>2. /\ 1 \in 0 .. buffer_size
          /\ ringbuffer_status = "FULL" <=> 1 > ringbuffer_space_len
          BY <1>0, SizeAssumption DEF LenOK
    <1>3. ringbuffer_status = "FULL" => read_mirror # write_mirror
          BY DEF ringbuffer_status
    <1>4. /\ NextIndex(write_index) = MovedIndex(write_index, 1)
          /\ NextMirror(write_mirror, write_index) =
                MovedMirror(write_mirror, write_index, 1)
          /\ NextMirror(read_mirror, write_index) =
                MovedMirror(read_mirror, write_index, 1)
          /\ [buffer EXCEPT ![write_index] = ch] = Copied(write_index, <<ch>>, 1)
          BY <1>1, OneByte
    <1>5. Reply("force", 1, 1, <<ch>>) \in Replies
          BY SmallReplyType
    <1> QED BY <1>2, <1>3, <1>4, <1>5 DEF ringbuffer_putchar_force

LEMMA GetcharIsRead ==
    ASSUME Inv, ringbuffer_getchar
    PROVE  /\ 1 \in 0 .. ringbuffer_data_len
           /\ reply' = Reply("get", 1, 1, Bytes(read_index, 1))
           /\ read_index' = MovedIndex(read_index, 1)
           /\ read_mirror' = MovedMirror(read_mirror, read_index, 1)
           /\ UNCHANGED <<buffer, write_mirror, write_index>>
    <1>1. 1 \in 0 .. ringbuffer_data_len
          BY SizeAssumption, DataLen DEF LenOK, ringbuffer_getchar
    <1>2. read_index \in Cells /\ read_mirror \in {0, 1} /\ TypeOK
                /\ buffer[read_index] \in Byte
          BY DEF Inv, TypeOK
    <1> QED BY <1>1, <1>2, OneByte DEF ringbuffer_getchar

-----------------------------------------------------------------------------
LEMMA InitInv == Init => Inv
    <1> SUFFICES ASSUME Init PROVE Inv
        OBVIOUS
    <1>1. 0 \in Cells
          BY SizeAssumption DEF Cells
    <1>2. Reply("init", 0, 0, <<>>) \in Replies
          BY SmallReplyType
    <1> QED BY <1>1, <1>2 DEF Init, Inv, TypeOK, LapOK

\* Every call preserves the invariant, the forced block put included.
LEMMA NextInv == Inv /\ [Next]_vars => Inv'
    <1> SUFFICES ASSUME Inv, [Next]_vars PROVE Inv'
        OBVIOUS
    <1>1. ASSUME NEW data \in Blocks, ringbuffer_put(data) PROVE Inv'
          BY <1>1, PutIsWrite, WriteKeepsInv, CallerAssumption
    <1>2. ASSUME NEW length \in Lengths, ringbuffer_get(length) PROVE Inv'
          <2>1. length \in Nat
                BY CallerAssumption
          <2> QED BY <1>2, <2>1, GetIsRead, ReadKeepsInv
    <1>3. ASSUME NEW ch \in Byte, ringbuffer_putchar(ch) PROVE Inv'
          BY <1>3, PutcharIsWrite, WriteKeepsInv
    <1>4. ASSUME NEW ch \in Byte, ringbuffer_putchar_force(ch) PROVE Inv'
          <2>0. LenOK
                BY DataLen
          <2>1. CASE 1 > ringbuffer_space_len
                BY <1>4, <2>1, PutcharForceIsWriteOrOverrun, OverrunKeepsInv
          <2>2. CASE ~ (1 > ringbuffer_space_len)
                <3>1. 1 \in 0 .. ringbuffer_space_len
                      BY <2>0, <2>2, SizeAssumption DEF LenOK
                <3> QED BY <1>4, <2>2, <3>1, PutcharForceIsWriteOrOverrun, WriteKeepsInv
          <2> QED BY <2>1, <2>2
    <1>5. CASE ringbuffer_getchar
          BY <1>5, GetcharIsRead, ReadKeepsInv
    <1>6. CASE ringbuffer_reset
          <2>1. 0 \in Cells
                BY SizeAssumption DEF Cells
          <2>2. Reply("reset", 0, 0, <<>>) \in Replies
                BY SmallReplyType
          <2> QED BY <1>6, <2>1, <2>2 DEF ringbuffer_reset, Inv, TypeOK, LapOK
    <1>7. ASSUME NEW data \in Blocks, ringbuffer_put_force(data) PROVE Inv'
          <2>0. LenOK
                BY DataLen
          <2>1. PICK n \in 0 .. buffer_size, tail \in Seq(Byte) :
                    /\ n = Len(tail)
                    /\ buffer' = Copied(write_index, tail, n)
                    /\ write_index' = MovedIndex(write_index, n)
                    /\ write_mirror' = MovedMirror(write_mirror, write_index, n)
                    /\ reply' \in Replies
                    /\ IF n > ringbuffer_space_len
                       THEN /\ read_index' = write_index'
                            /\ read_mirror' = MovedMirror(read_mirror, write_index, n)
                       ELSE UNCHANGED <<read_mirror, read_index>>
                BY <1>7, PutForceIsWriteOrOverrun
          <2>2. n <= Len(tail)
                BY <2>1
          <2>3. CASE n > ringbuffer_space_len
                BY <2>1, <2>2, <2>3, OverrunKeepsInv
          <2>4. CASE ~ (n > ringbuffer_space_len)
                <3>1. n \in 0 .. ringbuffer_space_len
                      BY <2>0, <2>4, SizeAssumption DEF LenOK
                <3> QED BY <2>1, <2>2, <2>4, <3>1, WriteKeepsInv
          <2> QED BY <2>3, <2>4
    <1>8. CASE UNCHANGED vars
          BY <1>8 DEF vars, Inv, TypeOK, LapOK
    <1> QED BY <1>1, <1>2, <1>3, <1>4, <1>5, <1>6, <1>7, <1>8 DEF Next, PlainNext

\* However the calls are mixed, no index of rt_ringbuffer.c leaves the pool.
THEOREM TypeCorrect == Spec => []TypeOK
    <1>1. Inv => TypeOK
          BY DEF Inv
    <1> QED BY InitInv, NextInv, <1>1, PTL DEF Spec

\* However the calls are mixed, the writer is never more than a lap ahead of
\* the reader, so the mirror bits of ringbuffer_status decide between empty
\* and full correctly.
THEOREM LapSafe == Spec => []LapOK
    <1>1. Inv => LapOK
          BY DEF Inv
    <1> QED BY InitInv, NextInv, <1>1, PTL DEF Spec

-----------------------------------------------------------------------------
\* Where the i-th unread byte lies.
Cell(at, i) == IF at + i - 1 < buffer_size THEN at + i - 1
               ELSE at + i - 1 - buffer_size

ContentsOK ==
    /\ Contents \in Seq(Byte)
    /\ Len(Contents) = ringbuffer_data_len
    /\ \A i \in 1 .. ringbuffer_data_len :
          Contents[i] = buffer[Cell(read_index, i)]

LEMMA ContentsAt == Inv => ContentsOK
    <1> SUFFICES ASSUME Inv PROVE ContentsOK
        OBVIOUS
    <1>1. LenOK
          BY DataLen
    <1>2. ringbuffer_data_len \in 0 .. buffer_size /\ ringbuffer_data_len \in Nat
          BY <1>1, SizeAssumption DEF LenOK
    <1>3. Contents \in Seq(Byte)
          BY <1>2, BytesType DEF Inv, Contents
    <1> QED BY <1>2, <1>3 DEF ContentsOK, Contents, Bytes, Cell

\* A write that fits appends the bytes it copies.
LEMMA WriteAppends ==
    ASSUME Inv, NEW data \in Seq(Byte), NEW n \in 0 .. ringbuffer_space_len,
           n <= Len(data),
           buffer' = Copied(write_index, data, n),
           write_index' = MovedIndex(write_index, n),
           write_mirror' = MovedMirror(write_mirror, write_index, n),
           reply' \in Replies, UNCHANGED <<read_mirror, read_index>>
    PROVE  Contents' = Contents \o SubSeq(data, 1, n)
    <1> DEFINE len == ringbuffer_data_len
               part == SubSeq(data, 1, n)
    <1>1. /\ LenOK /\ len \in 0 .. buffer_size /\ n \in 0 .. buffer_size - len
          /\ buffer_size \in Nat
          <2>1. LenOK
                BY DataLen
          <2> QED BY <2>1, SizeAssumption DEF LenOK
    <1>2. Inv' /\ LenOK' /\ len' = len + n
          BY WriteKeepsInv
    <1>3. ContentsOK /\ ContentsOK'
          <2>1. (Inv => ContentsOK)'
                BY ContentsAt, PTL
          <2> QED BY <1>2, <2>1, ContentsAt
    <1>4. /\ part \in Seq(Byte) /\ Len(part) = n
          /\ \A i \in 1 .. n : part[i] = data[i]
          BY <1>1
    <1>5. /\ Contents \o part \in Seq(Byte) /\ Len(Contents \o part) = len + n
          /\ \A i \in 1 .. len + n : (Contents \o part)[i] =
                IF i <= len THEN Contents[i] ELSE part[i - len]
          <2>1. Contents \in Seq(Byte) /\ Len(Contents) = len
                BY <1>3 DEF ContentsOK
          <2> HIDE DEF part, len
          <2> QED BY <1>1, <1>4, <2>1
    <1>6. ASSUME NEW i \in 1 .. len + n
          PROVE  Contents'[i] = (Contents \o part)[i]
          <2>1. Contents'[i] = Copied(write_index, data, n)[Cell(read_index, i)]
                BY <1>1, <1>2, <1>3 DEF ContentsOK, Cell
          <2>2. Cell(read_index, i) \in Cells
                BY <1>1 DEF Cell, Cells, Inv, TypeOK
          <2>3. CASE i <= len
                <3>1. ~ (write_index <= Cell(read_index, i) /\
                            Cell(read_index, i) < write_index + n)
                      BY <1>1, <2>3 DEF Cell, Cells, Inv, TypeOK, LapOK, LenOK
                <3>2. ~ (Cell(read_index, i) + buffer_size < write_index + n)
                      BY <1>1, <2>3 DEF Cell, Cells, Inv, TypeOK, LapOK, LenOK
                <3>3. Contents'[i] = buffer[Cell(read_index, i)]
                      BY <2>1, <2>2, <3>1, <3>2 DEF Copied
                <3> QED BY <1>1, <1>3, <1>5, <2>3, <3>3 DEF ContentsOK
          <2>4. CASE i > len
                <3>1. \/ /\ write_index <= Cell(read_index, i)
                         /\ Cell(read_index, i) < write_index + n
                         /\ Cell(read_index, i) - write_index + 1 = i - len
                      \/ /\ Cell(read_index, i) < write_index
                         /\ Cell(read_index, i) + buffer_size < write_index + n
                         /\ Cell(read_index, i) + buffer_size - write_index + 1 = i - len
                      BY <1>1, <2>4 DEF Cell, Cells, Inv, TypeOK, LapOK, LenOK
                <3>2. Contents'[i] = data[i - len]
                      <4> DEFINE c == Cell(read_index, i)
                      <4>1. c \in 0 .. buffer_size - 1 /\ write_index \in 0 .. buffer_size - 1
                            BY <2>2 DEF Cells, Inv, TypeOK
                      <4>2. Contents'[i] = IF write_index <= c /\ c < write_index + n
                                           THEN data[c - write_index + 1]
                                           ELSE IF c + buffer_size < write_index + n
                                           THEN data[c + buffer_size - write_index + 1]
                                           ELSE buffer[c]
                            BY <2>1, <2>2 DEF Copied
                      <4> HIDE DEF c, len
                      <4> QED BY <1>1, <3>1, <4>1, <4>2 DEF c
                <3> QED BY <1>1, <1>4, <1>5, <2>4, <3>2
          <2>5. i <= len \/ i > len
                <3> HIDE DEF len
                <3> QED BY <1>1
          <2> QED BY <2>3, <2>4, <2>5
    <1> QED BY <1>1, <1>2, <1>3, <1>5, <1>6, SeqEqual DEF ContentsOK

\* A read delivers the oldest bytes and leaves the others.
LEMMA ReadTakes ==
    ASSUME Inv, NEW n \in 0 .. ringbuffer_data_len, NEW length \in Nat,
           reply' = Reply("get", length, n, Bytes(read_index, n)),
           read_index' = MovedIndex(read_index, n),
           read_mirror' = MovedMirror(read_mirror, read_index, n),
           UNCHANGED <<buffer, write_mirror, write_index>>
    PROVE  /\ Bytes(read_index, n) = SubSeq(Contents, 1, n)
           /\ Contents' = SubSeq(Contents, n + 1, Len(Contents))
    <1> DEFINE len == ringbuffer_data_len
               rest == SubSeq(Contents, n + 1, len)
    <1>1. /\ LenOK /\ len \in 0 .. buffer_size /\ n \in 0 .. len
          /\ buffer_size \in Nat
          <2>1. LenOK
                BY DataLen
          <2> QED BY <2>1, SizeAssumption DEF LenOK
    <1>2. Inv' /\ LenOK' /\ len' = len - n
          BY ReadKeepsInv
    <1>3. ContentsOK /\ ContentsOK'
          <2>1. (Inv => ContentsOK)'
                BY ContentsAt, PTL
          <2> QED BY <1>2, <2>1, ContentsAt
    <1>4. Contents \in Seq(Byte) /\ Len(Contents) = len
          BY <1>3 DEF ContentsOK
    <1>5. Bytes(read_index, n) = SubSeq(Contents, 1, n)
          <2> DEFINE out == Bytes(read_index, n)
          <2>1. /\ SubSeq(Contents, 1, n) \in Seq(Byte)
                /\ Len(SubSeq(Contents, 1, n)) = n
                /\ \A i \in 1 .. n : SubSeq(Contents, 1, n)[i] = Contents[i]
                <3> HIDE DEF len
                <3> QED BY <1>1, <1>4
          <2>2. /\ out \in Seq(Byte) /\ Len(out) = n
                /\ \A i \in 1 .. n : out[i] = buffer[Cell(read_index, i)]
                <3>1. n \in 0 .. buffer_size /\ n \in Nat
                      BY <1>1
                <3>2. out \in Seq(Byte)
                      BY <3>1, BytesType DEF Inv
                <3> QED BY <3>1, <3>2 DEF Bytes, Cell
          <2>3. \A i \in 1 .. n : out[i] = SubSeq(Contents, 1, n)[i]
                <3> HIDE DEF len
                <3>1. \A i \in 1 .. n : i \in 1 .. len
                      BY <1>1
                <3> QED BY <1>3, <2>1, <2>2, <3>1 DEF ContentsOK, len
          <2> HIDE DEF out
          <2> QED BY <2>1, <2>2, <2>3, SeqEqual DEF out
    <1>6. /\ rest \in Seq(Byte) /\ Len(rest) = len - n
          /\ \A i \in 1 .. len - n : rest[i] = Contents[n + i]
          <2> HIDE DEF len
          <2>1. n + 1 \in Int /\ len \in Int
                BY <1>1
          <2>2. \A i \in n + 1 .. len : Contents[i] \in Byte
                BY <1>1, <1>4
          <2>3. /\ rest \in Seq(Byte)
                /\ Len(rest) = IF n + 1 <= len THEN len - (n + 1) + 1 ELSE 0
                /\ \A i \in 1 .. len - (n + 1) + 1 : rest[i] = Contents[n + 1 + i - 1]
                BY <2>1, <2>2, SubSeqProperties
          <2>4. len - (n + 1) + 1 = len - n
                BY <1>1
          <2>5. \A i \in 1 .. len - n : n + 1 + i - 1 = n + i
                BY <1>1
          <2>6. Len(rest) = len - n
                BY <1>1, <2>3
          <2> QED BY <2>3, <2>4, <2>5, <2>6
    <1>7. /\ Contents' \in Seq(Byte) /\ Len(Contents') = len - n
          /\ \A i \in 1 .. len - n : Contents'[i] = buffer[Cell(read_index', i)]
          BY <1>2, <1>3 DEF ContentsOK, Cell
    <1>8. ASSUME NEW i \in 1 .. len - n
          PROVE  Contents'[i] = rest[i]
          <2>1. read_index' = IF read_index + n >= buffer_size
                              THEN read_index + n - buffer_size ELSE read_index + n
                BY <1>1, Moved DEF Inv, TypeOK
          <2>2. n + i \in 1 .. len
                <3> HIDE DEF len
                <3> QED BY <1>1
          <2>3. Cell(read_index', i) = Cell(read_index, n + i)
                <3>1. read_index \in 0 .. buffer_size - 1
                      BY DEF Inv, TypeOK, Cells
                <3> HIDE DEF len
                <3> QED BY <1>1, <2>1, <2>2, <3>1 DEF Cell
          <2> QED BY <1>3, <1>6, <1>7, <2>2, <2>3 DEF ContentsOK
    <1> QED BY <1>4, <1>5, <1>6, <1>7, <1>8, SeqEqual

\* An overrun from the other mirror leaves the newest buffer_size bytes.
LEMMA OverrunKeepsNewest ==
    ASSUME Inv, NEW data \in Seq(Byte), NEW n \in 0 .. buffer_size,
           n = Len(data), n > ringbuffer_space_len,
           read_mirror # write_mirror,
           buffer' = Copied(write_index, data, n),
           write_index' = MovedIndex(write_index, n),
           write_mirror' = MovedMirror(write_mirror, write_index, n),
           read_index' = write_index',
           read_mirror' = MovedMirror(read_mirror, write_index, n),
           reply' \in Replies
    PROVE  LET all == Contents \o data
           IN  Contents' = SubSeq(all, Len(all) - buffer_size + 1, Len(all))
    <1> DEFINE len == ringbuffer_data_len
               all == Contents \o data
               newest == SubSeq(all, Len(all) - buffer_size + 1, Len(all))
    <1>1. /\ LenOK /\ len \in 0 .. buffer_size /\ n > buffer_size - len
          /\ buffer_size \in Nat /\ buffer_size >= 8
          <2>1. LenOK
                BY DataLen
          <2> QED BY <2>1, SizeAssumption DEF LenOK
    <1>2. Inv' /\ LenOK' /\ len' = buffer_size
          <2>1. n <= Len(data)
                OBVIOUS
          <2> QED BY <2>1, OverrunKeepsInv
    <1>3. ContentsOK /\ ContentsOK'
          <2>1. (Inv => ContentsOK)'
                BY ContentsAt, PTL
          <2> QED BY <1>2, <2>1, ContentsAt
    <1>4. Contents \in Seq(Byte) /\ Len(Contents) = len
          BY <1>3 DEF ContentsOK
    <1>5. /\ all \in Seq(Byte) /\ Len(all) = len + n
          /\ \A i \in 1 .. len + n : all[i] =
                IF i <= len THEN Contents[i] ELSE data[i - len]
          <2> HIDE DEF len
          <2> QED BY <1>1, <1>4
    <1>6. /\ newest \in Seq(Byte) /\ Len(newest) = buffer_size
          /\ \A i \in 1 .. buffer_size : newest[i] = all[len + n - buffer_size + i]
          <2> HIDE DEF len, all
          <2> DEFINE lo == Len(all) - buffer_size + 1
          <2>1. lo \in Int /\ Len(all) \in Int /\ lo = len + n - buffer_size + 1
                BY <1>1, <1>5
          <2>2. \A i \in lo .. Len(all) : all[i] \in Byte
                BY <1>1, <1>5
          <2> HIDE DEF lo
          <2>3. /\ SubSeq(all, lo, Len(all)) \in Seq(Byte)
                /\ Len(SubSeq(all, lo, Len(all))) =
                      IF lo <= Len(all) THEN Len(all) - lo + 1 ELSE 0
                /\ \A i \in 1 .. Len(all) - lo + 1 :
                      SubSeq(all, lo, Len(all))[i] = all[lo + i - 1]
                BY <2>1, <2>2, SubSeqProperties
          <2>4. Len(all) - lo + 1 = buffer_size /\ lo <= Len(all)
                BY <1>1, <1>5, <2>1
          <2>5. \A i \in 1 .. buffer_size : lo + i - 1 = len + n - buffer_size + i
                BY <1>1, <2>1
          <2> QED BY <2>3, <2>4, <2>5 DEF lo
    <1>7. /\ Contents' \in Seq(Byte) /\ Len(Contents') = buffer_size
          /\ \A i \in 1 .. buffer_size : Contents'[i] = buffer'[Cell(read_index', i)]
          BY <1>2, <1>3 DEF ContentsOK, Cell
    <1>8. ASSUME NEW i \in 1 .. buffer_size
          PROVE  Contents'[i] = newest[i]
          <2> DEFINE c == Cell(read_index', i)
                     j == len + n - buffer_size + i
          <2>1. /\ read_index' = IF write_index + n >= buffer_size
                                 THEN write_index + n - buffer_size
                                 ELSE write_index + n
                /\ read_index' \in 0 .. buffer_size - 1
                BY <1>1, Moved DEF Inv, TypeOK, Cells
          <2>2. /\ write_index \in 0 .. buffer_size - 1
                /\ read_index \in 0 .. buffer_size - 1
                /\ len = buffer_size + write_index - read_index
                BY <1>1 DEF Inv, TypeOK, Cells, LenOK
          <2>3. c \in 0 .. buffer_size - 1 /\ j \in 1 .. len + n
                <3>1. c \in 0 .. buffer_size - 1
                      BY <1>1, <2>1 DEF Cell
                <3>2. j \in 1 .. len + n
                      <4> HIDE DEF len
                      <4> QED BY <1>1
                <3> QED BY <3>1, <3>2
          <2>4. Contents'[i] = IF write_index <= c /\ c < write_index + n
                               THEN data[c - write_index + 1]
                               ELSE IF c + buffer_size < write_index + n
                               THEN data[c + buffer_size - write_index + 1]
                               ELSE buffer[c]
                BY <1>7, <2>3 DEF Copied, Cells
          <2>9. j \in Int
                <3> HIDE DEF len
                <3> QED BY <1>1
          <2>5. newest[i] = IF j <= len THEN Contents[j] ELSE data[j - len]
                BY <1>5, <1>6, <2>3
          <2>6. CASE j <= len
                <3>1. /\ ~ (write_index <= c /\ c < write_index + n)
                      /\ ~ (c + buffer_size < write_index + n)
                      /\ c = Cell(read_index, j) /\ j \in 1 .. len
                      <4> HIDE DEF len
                      <4> QED BY <1>1, <2>1, <2>2, <2>3, <2>6 DEF Cell
                <3>2. Contents[j] = buffer[Cell(read_index, j)]
                      BY <1>3, <3>1 DEF ContentsOK
                <3> QED BY <2>4, <2>5, <2>6, <3>1, <3>2
          <2>7. CASE j > len
                <3>1. \/ /\ write_index <= c /\ c < write_index + n
                         /\ c - write_index + 1 = j - len
                      \/ /\ ~ (write_index <= c /\ c < write_index + n)
                         /\ c + buffer_size < write_index + n
                         /\ c + buffer_size - write_index + 1 = j - len
                      <4>1. j - len = n - buffer_size + i /\ i > buffer_size - n
                            <5> HIDE DEF len
                            <5> QED BY <1>1, <2>7
                      <4>2. \/ c = write_index + n - buffer_size + i - 1
                            \/ c = write_index + n - 2 * buffer_size + i - 1
                            <5>1. c = IF read_index' + i - 1 < buffer_size
                                      THEN read_index' + i - 1
                                      ELSE read_index' + i - 1 - buffer_size
                                  BY DEF Cell
                            <5>2. CASE write_index + n >= buffer_size
                                  BY <1>1, <2>1, <2>2, <5>1, <5>2
                            <5>3. CASE write_index + n < buffer_size
                                  BY <1>1, <2>1, <2>2, <4>1, <5>1, <5>3
                            <5> QED BY <1>1, <2>2, <5>2, <5>3
                      <4> HIDE DEF c, j, len
                      <4> QED BY <1>1, <2>2, <2>3, <4>1, <4>2
                <3>2. ~ (j <= len)
                      <4> HIDE DEF len
                      <4> QED BY <1>1, <2>7
                <3>3. newest[i] = data[j - len]
                      BY <2>5, <3>2
                <3>4. CASE /\ write_index <= c /\ c < write_index + n
                           /\ c - write_index + 1 = j - len
                      <4>1. Contents'[i] = data[c - write_index + 1]
                            BY <2>4, <3>4
                      <4> QED BY <3>3, <3>4, <4>1
                <3>5. CASE /\ ~ (write_index <= c /\ c < write_index + n)
                           /\ c + buffer_size < write_index + n
                           /\ c + buffer_size - write_index + 1 = j - len
                      <4>1. Contents'[i] = data[c + buffer_size - write_index + 1]
                            BY <2>4, <3>5
                      <4> QED BY <3>3, <3>5, <4>1
                <3> QED BY <3>1, <3>4, <3>5
          <2>8. j <= len \/ j > len
                <3> HIDE DEF len
                <3> QED BY <1>1
          <2> QED BY <2>6, <2>7, <2>8
    <1> QED BY <1>6, <1>7, <1>8, SeqEqual

-----------------------------------------------------------------------------
\* The last k elements of a sequence, element by element.
LEMMA LastElements ==
    ASSUME NEW s \in Seq(Byte), NEW k \in 0 .. Len(s)
    PROVE  LET t == SubSeq(s, Len(s) - k + 1, Len(s))
           IN  /\ t \in Seq(Byte) /\ Len(t) = k
               /\ \A i \in 1 .. k : t[i] = s[Len(s) - k + i]
    <1> DEFINE lo == Len(s) - k + 1
               t == SubSeq(s, lo, Len(s))
    <1>1. lo \in 1 .. Len(s) + 1 /\ Len(s) \in Nat /\ k \in Nat
          OBVIOUS
    <1>2. \A i \in lo .. Len(s) : s[i] \in Byte
          BY <1>1
    <1> HIDE DEF lo
    <1>3. /\ t \in Seq(Byte)
          /\ Len(t) = IF lo <= Len(s) THEN Len(s) - lo + 1 ELSE 0
          /\ \A i \in 1 .. Len(s) - lo + 1 : t[i] = s[lo + i - 1]
          BY <1>1, <1>2, SubSeqProperties
    <1>4. Len(s) - lo + 1 = k /\ (lo <= Len(s) <=> k > 0)
          BY <1>1 DEF lo
    <1>5. \A i \in 1 .. k : lo + i - 1 = Len(s) - k + i
          BY <1>1 DEF lo
    <1>6. Len(t) = k
          BY <1>1, <1>3, <1>4
    <1>7. \A i \in 1 .. k : t[i] = s[Len(s) - k + i]
          BY <1>3, <1>4, <1>5
    <1> QED BY <1>3, <1>6, <1>7 DEF lo

\* Cutting a block down to its last buffer_size bytes, as ringbuffer_put_force
\* does first, does not change which bytes are the newest buffer_size.
LEMMA CutBlock ==
    ASSUME NEW q \in Seq(Byte), NEW data \in Seq(Byte),
           NEW n \in 0 .. buffer_size, n = Least(Len(data), buffer_size),
           Len(q) + n >= buffer_size, buffer_size \in Nat
    PROVE  LET tail == SubSeq(data, Len(data) - n + 1, Len(data))
               part == q \o tail
               all == q \o data
           IN  SubSeq(part, Len(part) - buffer_size + 1, Len(part)) =
               SubSeq(all, Len(all) - buffer_size + 1, Len(all))
    <1> DEFINE tail == SubSeq(data, Len(data) - n + 1, Len(data))
               part == q \o tail
               all == q \o data
               l == SubSeq(part, Len(part) - buffer_size + 1, Len(part))
               r == SubSeq(all, Len(all) - buffer_size + 1, Len(all))
    <1>1. Len(data) \in Nat /\ Len(q) \in Nat /\ n \in 0 .. Len(data)
          BY DEF Least
    <1>2. /\ tail \in Seq(Byte) /\ Len(tail) = n
          /\ \A i \in 1 .. n : tail[i] = data[Len(data) - n + i]
          BY <1>1, LastElements
    <1> HIDE DEF tail
    <1>3. /\ part \in Seq(Byte) /\ Len(part) = Len(q) + n
          /\ \A i \in 1 .. Len(q) + n : part[i] =
                IF i <= Len(q) THEN q[i] ELSE tail[i - Len(q)]
          <2>1. /\ part \in Seq(Byte) /\ Len(part) = Len(q) + Len(tail)
                /\ \A i \in 1 .. Len(q) + Len(tail) : part[i] =
                      IF i <= Len(q) THEN q[i] ELSE tail[i - Len(q)]
                BY <1>2, ConcatProperties
          <2> QED BY <1>2, <2>1
    <1>4. /\ all \in Seq(Byte) /\ Len(all) = Len(q) + Len(data)
          /\ \A i \in 1 .. Len(q) + Len(data) : all[i] =
                IF i <= Len(q) THEN q[i] ELSE data[i - Len(q)]
          BY <1>1
    <1> HIDE DEF part, all
    <1>5. buffer_size \in 0 .. Len(part) /\ buffer_size \in 0 .. Len(all)
          BY <1>1, <1>3, <1>4
    <1>6. /\ l \in Seq(Byte) /\ Len(l) = buffer_size
          /\ \A i \in 1 .. buffer_size : l[i] = part[Len(part) - buffer_size + i]
          BY <1>3, <1>5, LastElements
    <1>7. /\ r \in Seq(Byte) /\ Len(r) = buffer_size
          /\ \A i \in 1 .. buffer_size : r[i] = all[Len(all) - buffer_size + i]
          BY <1>4, <1>5, LastElements
    <1> HIDE DEF l, r
    <1>8. ASSUME NEW i \in 1 .. buffer_size
          PROVE  l[i] = r[i]
          <2>1. CASE Len(data) <= buffer_size
                <3>1. n = Len(data)
                      BY <1>1, <2>1 DEF Least
                <3>2. tail = data
                      <4>1. \A j \in 1 .. n : tail[j] = data[j]
                            BY <1>1, <1>2, <3>1
                      <4> QED BY <1>2, <3>1, <4>1, SeqEqual
                <3> QED BY <1>6, <1>7, <3>2 DEF part, all
          <2>2. CASE Len(data) > buffer_size
                <3>1. n = buffer_size
                      BY <1>1, <2>2 DEF Least
                <3>2. l[i] = part[Len(q) + i]
                      BY <1>1, <1>3, <1>6, <3>1
                <3>3. part[Len(q) + i] = tail[i]
                      <4>1. /\ Len(q) + i \in 1 .. Len(q) + n
                            /\ ~ (Len(q) + i <= Len(q)) /\ Len(q) + i - Len(q) = i
                            BY <1>1, <3>1
                      <4> QED BY <1>3, <4>1
                <3>4. r[i] = all[Len(q) + Len(data) - buffer_size + i]
                      BY <1>4, <1>7
                <3>5. all[Len(q) + Len(data) - buffer_size + i] =
                         data[Len(data) - buffer_size + i]
                      <4> DEFINE j == Len(q) + Len(data) - buffer_size + i
                      <4>1. /\ j \in 1 .. Len(q) + Len(data) /\ ~ (j <= Len(q))
                            /\ j - Len(q) = Len(data) - buffer_size + i
                            BY <1>1, <2>2
                      <4> HIDE DEF j
                      <4>2. all[j] = data[j - Len(q)]
                            BY <1>4, <4>1
                      <4> QED BY <4>1, <4>2 DEF j
                <3> QED BY <1>2, <3>1, <3>2, <3>3, <3>4, <3>5
          <2> QED BY <1>1, <2>1, <2>2
    <1> QED BY <1>6, <1>7, <1>8, SeqEqual DEF l, r, part, all, tail

-----------------------------------------------------------------------------
\* Steps of the ring as steps of the abstract queue, exact or lossy alike.
LEMMA InitIsQueueInit == Init => ExactQueue!QInit /\ LossyQueue!QInit
    <1> SUFFICES ASSUME Init PROVE Contents = <<>>
        BY DEF Init, ExactQueue!QInit, LossyQueue!QInit, Reply,
               ExactQueue!Reply, LossyQueue!Reply
    <1>1. ringbuffer_data_len = 0
          BY DEF Init, ringbuffer_data_len, ringbuffer_status
    <1>2. Inv
          BY InitInv
    <1>3. Contents \in Seq(Byte) /\ Len(Contents) = 0
          BY <1>1, <1>2, ContentsAt DEF ContentsOK
    <1> QED BY <1>3

LEMMA WriteIsPut ==
    ASSUME Inv, NEW data \in Seq(Byte),
           NEW n \in 0 .. ringbuffer_space_len,
           n = Least(Len(data), ringbuffer_space_len),
           buffer' = Copied(write_index, data, n),
           write_index' = MovedIndex(write_index, n),
           write_mirror' = MovedMirror(write_mirror, write_index, n),
           reply' = Reply("put", Len(data), n, data), reply' \in Replies,
           UNCHANGED <<read_mirror, read_index>>
    PROVE  ExactQueue!QPut(data) /\ LossyQueue!QPut(data)
    <1>1. LenOK /\ ContentsOK
          BY DataLen, ContentsAt
    <1>2. ringbuffer_space_len = buffer_size - Len(Contents) /\ n <= Len(data)
          BY <1>1, SizeAssumption DEF LenOK, ContentsOK, Least
    <1>3. Contents' = Contents \o SubSeq(data, 1, n)
          BY <1>2, WriteAppends
    <1> QED BY <1>2, <1>3 DEF ExactQueue!QPut, LossyQueue!QPut,
               ExactQueue!Least, LossyQueue!Least, Least,
               ExactQueue!Reply, LossyQueue!Reply, Reply

LEMMA ReadIsGet ==
    ASSUME Inv, NEW length \in Nat,
           NEW n \in 0 .. ringbuffer_data_len,
           n = Least(length, ringbuffer_data_len),
           reply' = Reply("get", length, n, Bytes(read_index, n)),
           read_index' = MovedIndex(read_index, n),
           read_mirror' = MovedMirror(read_mirror, read_index, n),
           UNCHANGED <<buffer, write_mirror, write_index>>
    PROVE  ExactQueue!QGet(length) /\ LossyQueue!QGet(length)
    <1>1. Len(Contents) = ringbuffer_data_len
          BY ContentsAt DEF ContentsOK
    <1>2. /\ Bytes(read_index, n) = SubSeq(Contents, 1, n)
          /\ Contents' = SubSeq(Contents, n + 1, Len(Contents))
          BY ReadTakes
    <1> QED BY <1>1, <1>2 DEF ExactQueue!QGet, LossyQueue!QGet,
               ExactQueue!Least, LossyQueue!Least, Least,
               ExactQueue!Reply, LossyQueue!Reply, Reply

LEMMA PlainStep ==
    ASSUME Inv, [PlainNext]_vars
    PROVE  [ExactQueue!QNext]_(ExactQueue!qvars) /\ [LossyQueue!QNext]_(LossyQueue!qvars)
    <1> DEFINE Goal == ExactQueue!QNext /\ LossyQueue!QNext
    <1> USE DEF ExactQueue!QNext, LossyQueue!QNext
    <1>0. LenOK
          BY DataLen
    <1>1. ASSUME NEW data \in Blocks, ringbuffer_put(data) PROVE Goal
          <2>1. data \in Seq(Byte)
                BY CallerAssumption
          <2>2. ExactQueue!QPut(data) /\ LossyQueue!QPut(data)
                BY <1>1, <2>1, PutIsWrite, WriteIsPut
          <2> QED BY <2>2
    <1>2. ASSUME NEW length \in Lengths, ringbuffer_get(length) PROVE Goal
          <2>1. length \in Nat
                BY CallerAssumption
          <2>2. ExactQueue!QGet(length) /\ LossyQueue!QGet(length)
                BY <1>2, <2>1, GetIsRead, ReadIsGet
          <2> QED BY <2>2
    <1>3. ASSUME NEW ch \in Byte, ringbuffer_putchar(ch) PROVE Goal
          <2>1. <<ch>> \in Blocks
                BY CallerAssumption
          <2>2. 1 = Least(Len(<<ch>>), ringbuffer_space_len)
                <3>1. 1 \in 0 .. ringbuffer_space_len
                      BY <1>3, PutcharIsWrite
                <3>2. ringbuffer_space_len \in Nat
                      BY <1>0, SizeAssumption DEF LenOK
                <3> QED BY <3>1, <3>2 DEF Least
          <2>3. ExactQueue!QPut(<<ch>>) /\ LossyQueue!QPut(<<ch>>)
                BY <1>3, <2>2, PutcharIsWrite, WriteIsPut
          <2> QED BY <2>1, <2>3
    <1>4. ASSUME NEW ch \in Byte, ringbuffer_putchar_force(ch) PROVE Goal
          <2> DEFINE all == Contents \o <<ch>>
                     fit == IF Len(all) <= buffer_size THEN Len(all) ELSE buffer_size
          <2>1. <<ch>> \in Blocks /\ <<ch>> \in Seq(Byte) /\ Len(<<ch>>) = 1
                BY CallerAssumption
          <2>2. /\ Contents \in Seq(Byte) /\ Len(Contents) \in 0 .. buffer_size
                /\ ringbuffer_space_len = buffer_size - Len(Contents)
                /\ buffer_size \in Nat /\ buffer_size >= 8
                BY <1>0, ContentsAt, SizeAssumption DEF LenOK, ContentsOK
          <2>3. all \in Seq(Byte) /\ Len(all) = Len(Contents) + 1 /\ Len(all) \in Nat
                BY <2>1, <2>2
          <2>4. reply' = Reply("force", 1, 1, <<ch>>)
                BY <1>4 DEF ringbuffer_putchar_force
          <2>5. Contents' = SubSeq(all, Len(all) - fit + 1, Len(all))
                <3>1. CASE ~ (1 > ringbuffer_space_len)
                      <4>1. 1 \in 0 .. ringbuffer_space_len /\ 1 <= Len(<<ch>>)
                            BY <2>1, <2>2, <3>1
                      <4>2. Contents' = Contents \o SubSeq(<<ch>>, 1, 1)
                            BY <1>4, <2>1, <3>1, <4>1, PutcharForceIsWriteOrOverrun,
                               WriteAppends
                      <4>3. SubSeq(<<ch>>, 1, 1) = <<ch>>
                            BY <2>1, SubSeqFull
                      <4>4. SubSeq(all, 1, Len(all)) = all
                            BY <2>3, SubSeqFull
                      <4>5. Len(all) - fit + 1 = 1
                            <5> HIDE DEF all
                            <5> QED BY <2>2, <2>3, <3>1
                      <4> QED BY <4>2, <4>3, <4>4, <4>5
                <3>2. CASE 1 > ringbuffer_space_len
                      <4>1. Contents' = SubSeq(all, Len(all) - buffer_size + 1, Len(all))
                            BY <1>4, <2>1, <3>2, PutcharForceIsWriteOrOverrun,
                               OverrunKeepsNewest
                      <4>2. fit = buffer_size
                            <5> HIDE DEF all
                            <5> QED BY <2>2, <2>3, <3>2
                      <4> QED BY <4>1, <4>2
                <3> QED BY <3>1, <3>2
          <2>6. fit \in 0 .. fit
                <3> HIDE DEF all
                <3> QED BY <2>2, <2>3
          <2>7. 1 = IF Len(<<ch>>) <= buffer_size THEN Len(<<ch>>) ELSE buffer_size
                BY <2>1, <2>2
          <2>8. ExactQueue!QPutForce(<<ch>>) /\ LossyQueue!QPutForce(<<ch>>)
                <3> HIDE DEF fit, all
                <3> QED BY <2>4, <2>5, <2>6, <2>7
                    DEF all, fit, ExactQueue!QPutForce, LossyQueue!QPutForce,
                        ExactQueue!Newest, LossyQueue!Newest, ExactQueue!Least,
                        LossyQueue!Least, ExactQueue!Reply, LossyQueue!Reply, Reply
          <2> QED BY <2>1, <2>8
    <1>5. CASE ringbuffer_getchar
          <2>1. 1 \in Lengths /\ 1 \in Nat
                BY CallerAssumption
          <2>2. 1 = Least(1, ringbuffer_data_len)
                BY <1>0, <1>5, GetcharIsRead DEF LenOK, Least
          <2>3. ExactQueue!QGet(1) /\ LossyQueue!QGet(1)
                BY <1>5, <2>1, <2>2, GetcharIsRead, ReadIsGet
          <2> QED BY <2>1, <2>3
    <1>6. CASE ringbuffer_reset
          <2>1. Inv'
                BY <1>6, NextInv DEF Next, PlainNext
          <2>2. ringbuffer_data_len' = 0
                BY <1>6 DEF ringbuffer_reset, ringbuffer_data_len, ringbuffer_status
          <2>3. (Inv => ContentsOK)'
                BY ContentsAt, PTL
          <2>4. Contents' \in Seq(Byte) /\ Len(Contents') = 0
                BY <2>1, <2>2, <2>3 DEF ContentsOK
          <2>5. ExactQueue!QReset /\ LossyQueue!QReset
                BY <1>6, <2>4 DEF ringbuffer_reset, ExactQueue!QReset, LossyQueue!QReset,
                   ExactQueue!Reply, LossyQueue!Reply, Reply
          <2> QED BY <2>5
    <1>7. CASE UNCHANGED vars
          <2>1. Contents' = Contents /\ reply' = reply
                BY <1>7 DEF vars, Contents, Bytes, ringbuffer_data_len, ringbuffer_status
          <2> QED BY <2>1 DEF ExactQueue!qvars, LossyQueue!qvars
    <1> QED BY <1>1, <1>2, <1>3, <1>4, <1>5, <1>6, <1>7 DEF PlainNext

\* Without the forced block put, rt_ringbuffer.c is a bounded byte queue: no
\* mix of block and byte calls loses, repeats, reorders or invents a byte, and
\* a forced putchar on a full ring drops exactly the oldest one.
THEOREM PlainRefinement == Spec => PlainCallsAreAQueue
    <1> DEFINE forced == \E data \in Blocks : ringbuffer_put_force(data)
    <1>1. Init => ExactQueue!QInit
          BY InitIsQueueInit
    <1>2. Inv /\ [Next]_vars => [ExactQueue!QNext \/ forced]_(ExactQueue!qvars)
          <2>1. Inv /\ [PlainNext]_vars => [ExactQueue!QNext]_(ExactQueue!qvars)
                BY PlainStep
          <2> QED BY <2>1 DEF Next
    <1> QED BY InitInv, NextInv, <1>1, <1>2, PTL DEF Spec, PlainCallsAreAQueue

\* A forced block put leaves a suffix of what was put: the newest bytes when it
\* fits or overruns from the other mirror, nothing otherwise.
LEMMA PutForceStep ==
    ASSUME Inv, NEW data \in Blocks, ringbuffer_put_force(data)
    PROVE  LossyQueue!QPutForce(data)
    <1> DEFINE all == Contents \o data
               fit == LossyQueue!Least(Len(all), buffer_size)
    <1>0. LenOK /\ ContentsOK /\ buffer_size \in Nat /\ buffer_size >= 8
          BY DataLen, ContentsAt, SizeAssumption
    <1>1. data \in Seq(Byte) /\ Len(data) \in Nat
          BY CallerAssumption
    <1>2. PICK n \in 0 .. buffer_size, tail \in Seq(Byte) :
              /\ n = Least(Len(data), buffer_size) /\ n = Len(tail)
              /\ tail = SubSeq(data, Len(data) - n + 1, Len(data))
              /\ buffer' = Copied(write_index, tail, n)
              /\ write_index' = MovedIndex(write_index, n)
              /\ write_mirror' = MovedMirror(write_mirror, write_index, n)
              /\ reply' = Reply("force", Len(data), n, data) /\ reply' \in Replies
              /\ IF n > ringbuffer_space_len
                 THEN /\ read_index' = write_index'
                      /\ read_mirror' = MovedMirror(read_mirror, write_index, n)
                 ELSE UNCHANGED <<read_mirror, read_index>>
          BY PutForceIsWriteOrOverrun
    <1>3. /\ Contents \in Seq(Byte) /\ Len(Contents) \in 0 .. buffer_size
          /\ Len(Contents) = ringbuffer_data_len
          /\ ringbuffer_space_len = buffer_size - Len(Contents)
          BY <1>0 DEF LenOK, ContentsOK
    <1>4. all \in Seq(Byte) /\ Len(all) = Len(Contents) + Len(data)
          BY <1>1, <1>3
    <1>5. fit \in Nat /\ fit = IF Len(all) <= buffer_size THEN Len(all) ELSE buffer_size
          BY <1>0, <1>1, <1>3, <1>4 DEF LossyQueue!Least
    <1>6. n <= Len(tail)
          BY <1>2
    <1>11. /\ n = Least(Len(data), buffer_size)
           /\ tail = SubSeq(data, Len(data) - n + 1, Len(data))
           BY <1>2
    <1> HIDE DEF all, fit
    <1>7. SUFFICES \E k \in 0 .. fit : Contents' = SubSeq(all, Len(all) - k + 1, Len(all))
          BY <1>2, <1>7 DEF LossyQueue!QPutForce, LossyQueue!Newest, all, fit,
             LossyQueue!Least, Least, LossyQueue!Reply, Reply
    <1>8. CASE n > ringbuffer_space_len /\ read_mirror = write_mirror
          <2>1. Inv' /\ ringbuffer_data_len' = 0
                BY <1>2, <1>6, <1>8, OverrunKeepsInv
          <2>2. (Inv => ContentsOK)'
                BY ContentsAt, PTL
          <2>3. Contents' = <<>>
                BY <2>1, <2>2 DEF ContentsOK
          <2>4. SubSeq(all, Len(all) - 0 + 1, Len(all)) = <<>>
                BY <1>1, <1>3, <1>4, SubSeqEmpty
          <2> QED BY <1>5, <2>3, <2>4
    <1>9. CASE n > ringbuffer_space_len /\ read_mirror # write_mirror
          <2> DEFINE part == Contents \o tail
          <2>1. Contents' = SubSeq(part, Len(part) - buffer_size + 1, Len(part))
                BY <1>2, <1>9, OverrunKeepsNewest
          <2>2. Len(Contents) + n >= buffer_size
                BY <1>0, <1>3, <1>9
          <2>3. Contents' = SubSeq(all, Len(all) - buffer_size + 1, Len(all))
                BY <1>0, <1>1, <1>3, <1>11, <2>1, <2>2, CutBlock, ZenonT(30) DEF all
          <2>4. buffer_size \in 0 .. fit
                BY <1>0, <1>1, <1>2, <1>3, <1>4, <1>5, <2>2 DEF Least
          <2> QED BY <2>3, <2>4
    <1>10. CASE ~ (n > ringbuffer_space_len)
          <2>1. n \in 0 .. ringbuffer_space_len
                BY <1>0, <1>3, <1>10
          <2>2. Contents' = Contents \o SubSeq(tail, 1, n)
                BY <1>2, <1>6, <1>10, <2>1, WriteAppends
          <2>3. SubSeq(tail, 1, n) = tail
                BY <1>2, SubSeqFull
          <2>4. CASE Len(data) <= buffer_size
                <3>1. n = Len(data) /\ Len(data) - n + 1 = 1
                      BY <1>0, <1>1, <1>2, <2>4 DEF Least
                <3>2. tail = data
                      BY <1>1, <1>2, <3>1, SubSeqFull
                <3>3. Contents' = SubSeq(all, 1, Len(all))
                      BY <1>4, <2>2, <2>3, <3>2, SubSeqFull DEF all
                <3>4. Len(all) \in 0 .. fit /\ Len(all) - Len(all) + 1 = 1
                      BY <1>0, <1>1, <1>3, <1>4, <1>5, <2>1, <3>1
                <3> QED BY <3>3, <3>4
          <2>5. CASE Len(data) > buffer_size
                <3> DEFINE part == Contents \o tail
                <3>1. n = buffer_size /\ Len(Contents) + n >= buffer_size
                      BY <1>0, <1>1, <1>2, <1>3, <2>5 DEF Least
                <3>2. Len(Contents) = 0
                      BY <1>0, <1>3, <2>1, <3>1
                <3>3. part \in Seq(Byte) /\ Len(part) = buffer_size
                      BY <1>2, <1>3, <3>1, <3>2
                <3>4. part = SubSeq(part, 1, Len(part)) /\ Len(part) - buffer_size + 1 = 1
                      BY <1>0, <3>3, SubSeqFull
                <3>5. SubSeq(part, Len(part) - buffer_size + 1, Len(part)) =
                      SubSeq(all, Len(all) - buffer_size + 1, Len(all))
                      BY <1>0, <1>1, <1>3, <1>11, <3>1, CutBlock, ZenonT(30) DEF all
                <3>6. Contents' = SubSeq(all, Len(all) - buffer_size + 1, Len(all))
                      BY <2>2, <2>3, <3>4, <3>5
                <3>7. buffer_size \in 0 .. fit
                      BY <1>0, <1>1, <1>3, <1>4, <1>5, <2>5
                <3> QED BY <3>6, <3>7
          <2> QED BY <1>0, <1>1, <2>4, <2>5
    <1> QED BY <1>8, <1>9, <1>10

\* With every call, the forced block put included, rt_ringbuffer.c still hands
\* bytes out in the order they came in, each at most once, and what it holds is
\* always the newest bytes put since the last reset or drop.
THEOREM LossyRefinement == Spec => AllCallsKeepOrder
    <1>1. Init => LossyQueue!QInit
          BY InitIsQueueInit
    <1>2. Inv /\ [Next]_vars => [LossyQueue!QNext]_(LossyQueue!qvars)
          <2> SUFFICES ASSUME Inv, [Next]_vars
                       PROVE  [LossyQueue!QNext]_(LossyQueue!qvars)
              OBVIOUS
          <2>1. ASSUME NEW data \in Blocks, ringbuffer_put_force(data)
                PROVE  LossyQueue!QNext
                BY <2>1, PutForceStep DEF LossyQueue!QNext
          <2>2. CASE [PlainNext]_vars
                BY <2>2, PlainStep
          <2> QED BY <2>1, <2>2 DEF Next
    <1> QED BY InitInv, NextInv, <1>1, <1>2, PTL
            DEF Spec, AllCallsKeepOrder, LossyQueue!QSpec
=============================================================================
