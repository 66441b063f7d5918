----------------------------- MODULE FifoProofs -----------------------------
(***************************************************************************)
(* Theorems about fifo.c for every pool size, block and interleaving of    *)
(* one producer and one consumer.                                          *)
(***************************************************************************)
EXTENDS Fifo, SequenceTheorems, TLAPS

USE DEF FifoAssumption

\* A side that is not copying holds nothing yet.
IdleOK ==
    /\ wpc = "idle" => wdata = <<>>
    /\ wpc # "copy" => amount_to_copy = 0
    /\ rpc \notin {"read", "peek"} => max_bytes = 0

Inv == FifoTypeOK /\ StaleIndexIsSafe /\ NoTornCopy /\ IdleOK

\* One lap of the modulus.
LEMMA ModOnce ==
    ASSUME FifoAssumption, NEW x \in 0 .. 2 * pool_size - 1
    PROVE  x % pool_size = IF x < pool_size THEN x ELSE x - pool_size
    <1>1. CASE x < pool_size
          BY <1>1
    <1>2. CASE x >= pool_size
          BY <1>2
    <1> QED BY <1>1, <1>2

\* The code's modular expressions are the distances between the indices.
LEMMA Distances ==
    ASSUME FifoAssumption, head_index \in Cells, tail_index \in Cells
    PROVE  /\ Used \in 0 .. pool_size - 1
           /\ ring_buffer_used_space = Used
           /\ ring_buffer_free_space = pool_size - 1 - Used
    <1>1. /\ (pool_size - head_index) + tail_index \in 0 .. 2 * pool_size - 1
          /\ (pool_size - 1 - tail_index) + head_index \in 0 .. 2 * pool_size - 1
          BY DEF Cells
    <1>2. Used \in 0 .. pool_size - 1
          BY DEF Used, Cells
    <1>3. ring_buffer_used_space = Used
          BY <1>1, ModOnce DEF ring_buffer_used_space, Used, Cells
    <1>4. ring_buffer_free_space = pool_size - 1 - Used
          BY <1>1, ModOnce DEF ring_buffer_free_space, Used, Cells
    <1> QED BY <1>2, <1>3, <1>4

\* Moving an index on by less than a lap, as the code does and as Ahead does.
LEMMA Moves ==
    ASSUME FifoAssumption, NEW from \in Cells, NEW k \in 0 .. pool_size - 1
    PROVE  /\ Ahead(from, k) \in Cells
           /\ (from + k) % pool_size = Ahead(from, k)
    <1>1. from + k \in 0 .. 2 * pool_size - 1
          BY DEF Cells
    <1> QED BY <1>1, ModOnce DEF Ahead, Cells

LEMMA InitInv == ASSUME FifoAssumption PROVE RingInit => Inv
    <1> SUFFICES ASSUME RingInit PROVE Inv
        OBVIOUS
    <1>1. 0 \in Cells /\ pool_size - 1 \in Nat
          BY DEF Cells
    <1>2. FifoTypeOK
          BY <1>1 DEF RingInit, FifoTypeOK
    <1>3. Used = 0
          BY DEF RingInit, Used
    <1>4. StaleIndexIsSafe
          BY <1>1, <1>3 DEF RingInit, StaleIndexIsSafe
    <1>5. NoTornCopy
          BY DEF RingInit, NoTornCopy
    <1> QED BY <1>2, <1>4, <1>5 DEF Inv, IdleOK, RingInit

-----------------------------------------------------------------------------
\* Less than a lap apart, two places are two cells.
LEMMA Apart ==
    ASSUME FifoAssumption, NEW from \in Cells, NEW j \in 0 .. pool_size - 1, NEW k \in 0 .. pool_size - 1,
           j # k
    PROVE  Ahead(from, j) # Ahead(from, k)
    BY DEF Ahead, Cells

\* Places counted from tail are places counted from head.
LEMMA FromHead ==
    ASSUME FifoAssumption, head_index \in Cells, tail_index \in Cells, NEW k \in 0 .. pool_size - 1 - Used
    PROVE  Ahead(tail_index, k) = Ahead(head_index, Used + k)
    BY DEF Ahead, Cells, Used

\* The unread bytes are a sequence of bytes.
ContentsOK ==
    /\ Contents \in Seq(Byte)
    /\ Len(Contents) = Used
    /\ \A i \in 1 .. Used : Contents[i] = buffer[Ahead(head_index, i - 1)]

LEMMA ContentsAt == FifoAssumption /\ FifoTypeOK => ContentsOK
    <1> SUFFICES ASSUME FifoAssumption, FifoTypeOK PROVE ContentsOK
        OBVIOUS
    <1>1. Used \in 0 .. pool_size - 1 /\ Used \in Nat
          BY Distances DEF FifoTypeOK
    <1>2. ASSUME NEW i \in 1 .. Used PROVE buffer[Ahead(head_index, i - 1)] \in Byte
          <2>1. i - 1 \in 0 .. pool_size - 1
                BY <1>1
          <2> QED BY <2>1, Moves DEF FifoTypeOK
    <1>3. Contents \in Seq(Byte)
          BY <1>1, <1>2, IsASeq DEF Contents
    <1> QED BY <1>1, <1>3 DEF ContentsOK, Contents

\* A step that leaves the pool and both indices alone leaves the bytes alone.
LEMMA SameContents ==
    ASSUME UNCHANGED <<buffer, head_index, tail_index>>
    PROVE  Used' = Used /\ Contents' = Contents
    BY DEF Used, Contents, Ahead

-----------------------------------------------------------------------------
LEMMA WriteStartInv ==
    ASSUME FifoAssumption, Inv, WriteStart
    PROVE  Inv'
    <1>1. /\ Used \in 0 .. pool_size - 1 /\ pool_size \in Nat
          /\ ring_buffer_free_space = pool_size - 1 - Used
          BY Distances DEF Inv, FifoTypeOK
    <1>2. wdata' \in Seq(Byte) /\ Len(wdata') \in Nat
          BY DEF WriteStart
    <1>3. /\ amount_to_copy' \in Cells /\ Used + amount_to_copy' <= pool_size - 1
          /\ wpc' \in {"room", "copy"} /\ wpc' # "copy" => amount_to_copy' = 0
          BY <1>1, <1>2 DEF WriteStart, Cells
    <1>4. Used' = Used /\ Contents' = Contents
          BY SameContents DEF WriteStart
    <1>5. FifoTypeOK'
          BY <1>2, <1>3 DEF Inv, FifoTypeOK, WriteStart, rvars, Cells
    <1>6. StaleIndexIsSafe'
          BY <1>3, <1>4 DEF Inv, StaleIndexIsSafe, WriteStart, rvars
    <1>7. NoTornCopy'
          BY <1>4 DEF Inv, NoTornCopy, WriteStart, rvars
    <1> QED BY <1>3, <1>5, <1>6, <1>7 DEF Inv, IdleOK, WriteStart, rvars

\* The room read again is still room, whatever the reader has done since.
LEMMA WriteRoomInv ==
    ASSUME FifoAssumption, Inv, WriteRoom
    PROVE  Inv'
    <1>1. /\ Used \in 0 .. pool_size - 1 /\ pool_size \in Nat
          /\ ring_buffer_free_space = pool_size - 1 - Used
          BY Distances DEF Inv, FifoTypeOK
    <1>2. amount_to_copy' \in Cells /\ Used + amount_to_copy' <= pool_size - 1
          BY <1>1 DEF WriteRoom, Cells
    <1>3. copied = 0 /\ copied' = 0
          BY DEF Inv, IdleOK, FifoTypeOK, WriteRoom
    <1>4. Used' = Used /\ Contents' = Contents
          BY SameContents DEF WriteRoom
    <1>5. FifoTypeOK'
          BY <1>2, <1>3 DEF Inv, FifoTypeOK, WriteRoom, rvars, Cells
    <1>6. StaleIndexIsSafe'
          BY <1>2, <1>4 DEF Inv, StaleIndexIsSafe, WriteRoom, rvars
    <1>7. NoTornCopy'
          BY <1>3, <1>4 DEF Inv, NoTornCopy, WriteRoom, rvars
    <1> QED BY <1>5, <1>6, <1>7 DEF Inv, IdleOK, WriteRoom, rvars

LEMMA WriteByteInv ==
    ASSUME FifoAssumption, Inv, WriteByte
    PROVE  Inv' /\ Used' = Used /\ Contents' = Contents
    <1> DEFINE cell == Ahead(tail_index, copied)
    <1>1. /\ Used \in 0 .. pool_size - 1 /\ pool_size \in Nat /\ pool_size > 0
          /\ copied \in Nat /\ copied < amount_to_copy /\ amount_to_copy \in Nat
          /\ Used + copied < pool_size - 1
          BY Distances DEF Inv, FifoTypeOK, StaleIndexIsSafe, WriteByte, Cells
    <1>2. PICK byte \in SourceBytes(copied) : buffer' = [buffer EXCEPT ![cell] = byte]
          <2>1. (IF copied < pool_size - tail_index THEN tail_index + copied
                                         ELSE copied - (pool_size - tail_index)) = cell
                BY <1>1 DEF Ahead, Inv, FifoTypeOK, Cells
          <2> QED BY <2>1 DEF WriteByte
    <1>3. cell \in Cells /\ copied \in 0 .. pool_size - 1 - Used
          BY <1>1, Moves DEF Inv, FifoTypeOK
    <1>4. FifoTypeOK'
          <2>1. byte \in Byte
                BY <1>1 DEF SourceBytes, Inv, FifoTypeOK
          <2>2. buffer' \in [Cells -> Byte]
                BY <1>2, <1>3, <2>1 DEF Inv, FifoTypeOK
          <2> QED BY <1>1, <2>2 DEF Inv, FifoTypeOK, WriteByte, rvars
    <1>5. Used' = Used
          BY DEF Used, WriteByte
    <1>6. Contents' = Contents
          <2>1. ASSUME NEW i \in 1 .. Used
                PROVE  buffer'[Ahead(head_index, i - 1)] = buffer[Ahead(head_index, i - 1)]
                <3>1. /\ i - 1 \in 0 .. pool_size - 1 /\ Used + copied \in 0 .. pool_size - 1
                      /\ i - 1 # Used + copied
                      BY <1>1
                <3>2. Ahead(head_index, i - 1) # cell
                      BY <1>3, <3>1, Apart, FromHead DEF Inv, FifoTypeOK
                <3>3. Ahead(head_index, i - 1) \in Cells
                      BY <3>1, Moves DEF Inv, FifoTypeOK
                <3> QED BY <1>2, <1>3, <3>2, <3>3 DEF Inv, FifoTypeOK
          <2>2. Contents' = [i \in 1 .. Used |-> buffer'[Ahead(head_index, i - 1)]]
                BY <1>5 DEF Contents, Ahead, WriteByte
          <2> QED BY <2>1, <2>2 DEF Contents
    <1>7. StaleIndexIsSafe'
          BY <1>5 DEF Inv, StaleIndexIsSafe, WriteByte, rvars
    <1>8. NoTornCopy'
          <2>1. \A i \in 1 .. Len(data') :
                    rpc' = "read" \/ head_index' + i <= pool_size => data'[i] = Contents'[i]
                BY <1>6 DEF Inv, NoTornCopy, WriteByte, rvars
          <2>2. ASSUME NEW i \in 1 .. copied + 1, i <= Len(wdata)
                PROVE  wdata[i] = buffer'[Ahead(tail_index, i - 1)]
                <3>1. i - 1 \in 0 .. pool_size - 1 /\ copied \in 0 .. pool_size - 1
                      BY <1>1
                <3>2. Ahead(tail_index, i - 1) \in Cells
                      BY <3>1, Moves DEF Inv, FifoTypeOK
                <3>3. CASE i = copied + 1
                      <4>1. i - 1 = copied /\ byte = wdata[i]
                            BY <1>1, <2>2, <3>3 DEF SourceBytes, Inv, FifoTypeOK
                      <4> QED BY <1>2, <1>3, <3>3, <4>1 DEF Inv, FifoTypeOK
                <3>4. CASE i # copied + 1
                      <4>1. i - 1 # copied /\ i \in 1 .. copied
                            BY <1>1, <3>4
                      <4>2. Ahead(tail_index, i - 1) # cell
                            BY <3>1, <4>1, Apart DEF Inv, FifoTypeOK
                      <4>3. wdata[i] = buffer[Ahead(tail_index, i - 1)]
                            BY <2>2, <4>1 DEF Inv, NoTornCopy
                      <4> QED BY <1>2, <1>3, <3>2, <4>2, <4>3 DEF Inv, FifoTypeOK
                <3> QED BY <3>3, <3>4
          <2> QED BY <2>1, <2>2 DEF NoTornCopy, WriteByte, Ahead
    <1> QED BY <1>4, <1>5, <1>6, <1>7, <1>8 DEF Inv, IdleOK, WriteByte, rvars

\* Publishing appends what the memcpy moved: the block, as far as it goes.
LEMMA WritePublishInv ==
    ASSUME FifoAssumption, Inv, WritePublish
    PROVE  /\ Inv'
           /\ Len(Contents') \in Len(Contents) .. pool_size - 1
           /\ \A i \in 1 .. Len(Contents) : Contents'[i] = Contents[i]
           /\ \A i \in 1 .. Len(Contents') - Len(Contents) :
                  i <= Len(wdata) => Contents'[Len(Contents) + i] = wdata[i]
    <1> DEFINE n == amount_to_copy
    <1>1. /\ Used \in 0 .. pool_size - 1 /\ pool_size \in Nat /\ pool_size > 0
          /\ n \in 0 .. pool_size - 1 /\ Used + n <= pool_size - 1
          /\ wdata \in Seq(Byte) /\ copied = n
          BY Distances
          DEF Inv, FifoTypeOK, StaleIndexIsSafe, WritePublish, Cells
    <1>2. head_index' = head_index /\ head_index \in Cells /\ tail_index \in Cells /\ n \in 0 .. pool_size - 1 - Used
          BY <1>1 DEF Inv, FifoTypeOK, WritePublish
    <1>3. tail_index' = Ahead(tail_index, n) /\ tail_index' \in Cells
          BY <1>1, <1>2, Moves DEF WritePublish
    <1>4. Used' = Used + n
          <2>1. Used' = IF head_index <= tail_index' THEN tail_index' - head_index ELSE pool_size + tail_index' - head_index
                BY <1>2 DEF Used
          <2> QED BY <1>1, <1>2, <1>3, <2>1 DEF Used, Ahead, Cells
    <1>5. FifoTypeOK'
          <2>1. <<>> \in Seq(Byte) /\ Len(<<>>) = 0 /\ 0 \in 0 .. 0 /\ 0 \in Cells
                BY <1>1 DEF Cells
          <2> QED BY <1>3, <2>1 DEF Inv, FifoTypeOK, WritePublish, rvars
    <1>6. ContentsOK /\ ContentsOK'
          <2>1. (FifoAssumption /\ FifoTypeOK => ContentsOK)'
                BY ContentsAt, PTL
          <2> QED BY <1>5, <2>1, ContentsAt DEF Inv
    <1>7. /\ Contents \in Seq(Byte) /\ Len(Contents) = Used
          /\ Contents' \in Seq(Byte) /\ Len(Contents') = Used + n
          BY <1>4, <1>6 DEF ContentsOK
    <1>8. ASSUME NEW i \in 1 .. Used + n
          PROVE  Contents'[i] = buffer[Ahead(head_index, i - 1)]
          BY <1>2, <1>4, <1>6 DEF ContentsOK, WritePublish, Ahead
    <1>9. ASSUME NEW i \in 1 .. Used
          PROVE  Contents'[i] = Contents[i]
          <2>1. i \in 1 .. Used + n
                <3> HIDE DEF n
                <3> QED BY <1>1
          <2> QED BY <1>6, <1>8, <2>1 DEF ContentsOK
    <1>10. ASSUME NEW k \in 1 .. n, k <= Len(wdata)
           PROVE  Contents'[Used + k] = wdata[k]
           <2>1. /\ Used + k \in 1 .. Used + n /\ k - 1 \in 0 .. pool_size - 1 - Used
                 /\ Used + (k - 1) = (Used + k) - 1
                 <3> HIDE DEF n
                 <3> QED BY <1>1
           <2>2. Ahead(tail_index, k - 1) = Ahead(head_index, (Used + k) - 1)
                 BY <1>2, <2>1, FromHead
           <2>3. wdata[k] = buffer[Ahead(tail_index, k - 1)]
                 BY <1>1, <1>10 DEF Inv, NoTornCopy
           <2> QED BY <1>8, <2>1, <2>2, <2>3
    <1>11. (Used + n) - Used = n /\ Used + n \in Used .. pool_size - 1
           <2> HIDE DEF n
           <2> QED BY <1>1
    <1>12. StaleIndexIsSafe'
           BY <1>1, <1>4 DEF Inv, FifoTypeOK, StaleIndexIsSafe, WritePublish, rvars, Cells
    <1>13. NoTornCopy'
           <2>1. ASSUME NEW i \in 1 .. Len(data), rpc = "read" \/ head_index + i <= pool_size
                 PROVE  data[i] = Contents'[i]
                 <3>1. i \in 1 .. Used
                       BY <1>1 DEF Inv, FifoTypeOK, StaleIndexIsSafe, Cells
                 <3> QED BY <1>9, <2>1, <3>1 DEF Inv, NoTornCopy
           <2> QED BY <2>1 DEF NoTornCopy, WritePublish, rvars
    <1>14. Inv'
           BY <1>5, <1>12, <1>13 DEF Inv, IdleOK, WritePublish, rvars
    <1> QED BY <1>7, <1>9, <1>10, <1>11, <1>14

\* A read or a peek begins.
LEMMA ReadBegins ==
    ASSUME FifoAssumption, Inv,
           GetData \/ \E n \in Lengths : ReadStart(n)
    PROVE  Inv'
    <1>1. /\ Used \in 0 .. pool_size - 1 /\ pool_size \in Nat /\ head_index \in 0 .. pool_size - 1
          /\ ring_buffer_used_space = Used
          BY Distances DEF Inv, FifoTypeOK, Cells
    <1>2. /\ max_bytes' \in Cells /\ max_bytes' <= Used /\ data' = data /\ Len(data) = 0
          /\ rpc' \in {"avail", "extent", "read", "peek"}
          /\ rpc' \in {"avail", "extent"} => max_bytes' = 0
          <2>1. CASE GetData
                BY <1>1, <2>1 DEF GetData, Inv, FifoTypeOK, IdleOK, Cells
          <2>2. ASSUME NEW n \in Lengths, ReadStart(n)
                PROVE  /\ max_bytes' \in Cells /\ max_bytes' <= Used /\ data' = data
                       /\ Len(data) = 0 /\ rpc' \in {"avail", "extent", "read", "peek"}
                       /\ rpc' \in {"avail", "extent"} => max_bytes' = 0
                <3>1. n \in Nat
                      OBVIOUS
                <3> QED BY <1>1, <2>2, <3>1 DEF ReadStart, Inv, FifoTypeOK, IdleOK, Cells
          <2> QED BY <2>1, <2>2
    <1>3. /\ UNCHANGED <<buffer, head_index, tail_index, got, wpc, wdata, amount_to_copy, copied>>
          /\ UNCHANGED <<buffer, head_index, tail_index>>
          BY DEF GetData, ReadStart, wvars
    <1>4. Used' = Used /\ Contents' = Contents
          BY <1>3, SameContents
    <1>5. FifoTypeOK'
          BY <1>2, <1>3 DEF Inv, FifoTypeOK
    <1>6. StaleIndexIsSafe'
          BY <1>2, <1>3, <1>4 DEF Inv, StaleIndexIsSafe
    <1>7. NoTornCopy'
          BY <1>2, <1>3, <1>4 DEF Inv, NoTornCopy, Ahead
    <1> QED BY <1>2, <1>3, <1>5, <1>6, <1>7 DEF Inv, IdleOK

\* What there is, read again, is still there.
LEMMA ReadAvailableInv ==
    ASSUME FifoAssumption, Inv, ReadAvailable
    PROVE  Inv'
    <1>1. /\ Used \in 0 .. pool_size - 1 /\ pool_size \in Nat
          /\ ring_buffer_used_space = Used
          BY Distances DEF Inv, FifoTypeOK
    <1>2. max_bytes' \in Cells /\ max_bytes' <= Used /\ data' = data /\ Len(data) = 0
          BY <1>1 DEF ReadAvailable, Inv, FifoTypeOK, IdleOK, Cells
    <1>3. Used' = Used /\ Contents' = Contents
          BY SameContents DEF ReadAvailable
    <1>4. FifoTypeOK'
          BY <1>2 DEF Inv, FifoTypeOK, ReadAvailable, wvars, Cells
    <1>5. StaleIndexIsSafe'
          BY <1>2, <1>3 DEF Inv, StaleIndexIsSafe, ReadAvailable, wvars
    <1>6. NoTornCopy'
          BY <1>2, <1>3 DEF Inv, NoTornCopy, ReadAvailable, wvars, Ahead
    <1> QED BY <1>4, <1>5, <1>6 DEF Inv, IdleOK, ReadAvailable, wvars

LEMMA ReadByteInv ==
    ASSUME FifoAssumption, Inv, ReadByte
    PROVE  Inv'
    <1> DEFINE n == Len(data)
               inside == rpc = "read" \/ head_index + (n + 1) <= pool_size
    <1>1. /\ Used \in 0 .. pool_size - 1 /\ pool_size \in Nat /\ n \in Nat /\ n < max_bytes
          /\ max_bytes \in Nat /\ max_bytes <= Used /\ data \in Seq(Byte)
          /\ head_index \in Cells /\ tail_index \in Cells /\ head_index \in 0 .. pool_size - 1
          BY Distances
          DEF Inv, FifoTypeOK, StaleIndexIsSafe, ReadByte, Cells
    <1>2. Used' = Used /\ Contents' = Contents
          BY SameContents DEF ReadByte
    <1>3. n \in 0 .. pool_size - 1 /\ n + 1 \in 1 .. Used
          BY <1>1
    <1>4. (head_index + n) % pool_size = Ahead(head_index, n) /\ Ahead(head_index, n) \in Cells
          BY <1>1, <1>3, Moves
    <1>5. Contents[n + 1] = buffer[Ahead(head_index, n)]
          <2>1. ContentsOK
                BY ContentsAt DEF Inv
          <2>2. (n + 1) - 1 = n
                BY <1>1
          <2> QED BY <1>3, <2>1, <2>2 DEF ContentsOK
    <1>6. PICK byte \in Byte : data' = Append(data, byte) /\ (inside => byte = Contents[n + 1])
          <2>1. CASE rpc = "peek" /\ head_index + n >= pool_size
                <3>1. ~inside
                      BY <1>1, <2>1
                <3> QED BY <2>1, <3>1 DEF ReadByte
          <2>2. CASE ~(rpc = "peek" /\ head_index + n >= pool_size)
                <3>1. buffer[Ahead(head_index, n)] \in Byte
                      BY <1>4 DEF Inv, FifoTypeOK
                <3> QED BY <1>4, <1>5, <2>2, <3>1 DEF ReadByte
          <2> QED BY <2>1, <2>2
    <1>7. data' \in Seq(Byte) /\ Len(data') = n + 1
          BY <1>1, <1>6
    <1>8. FifoTypeOK'
          BY <1>1, <1>7 DEF Inv, FifoTypeOK, ReadByte, wvars
    <1>9. StaleIndexIsSafe'
          BY <1>2 DEF Inv, StaleIndexIsSafe, ReadByte, wvars
    <1>10. NoTornCopy'
          <2>1. ASSUME NEW i \in 1 .. n + 1, rpc = "read" \/ head_index + i <= pool_size
                PROVE  data'[i] = Contents[i]
                <3>1. CASE i = n + 1
                      BY <1>1, <1>6, <2>1, <3>1
                <3>2. CASE i # n + 1
                      <4>1. i \in 1 .. n
                            BY <1>1, <3>2
                      <4>2. data'[i] = data[i]
                            BY <1>1, <1>6, <4>1
                      <4> QED BY <2>1, <4>1, <4>2 DEF Inv, NoTornCopy
                <3> QED BY <3>1, <3>2
          <2> QED BY <1>2, <1>7, <2>1 DEF Inv, NoTornCopy, ReadByte, wvars, Ahead
    <1> QED BY <1>8, <1>9, <1>10 DEF Inv, IdleOK, ReadByte, wvars

\* Consuming takes from the front what was copied out, and it was copied out
\* right unless a peek went past the end of the pool.
LEMMA ConsumeInv ==
    ASSUME FifoAssumption, Inv, Consume
    PROVE  /\ Inv'
           /\ Len(data) \in 0 .. Len(Contents)
           /\ \/ rpc = "peek" /\ head_index + Len(data) > pool_size
              \/ got' = SubSeq(Contents, 1, Len(data))
           /\ Contents' = SubSeq(Contents, Len(data) + 1, Len(Contents))
    <1> DEFINE n == Len(data)
               rest == SubSeq(Contents, n + 1, Used)
    <1>1. /\ Used \in 0 .. pool_size - 1 /\ pool_size \in Nat /\ n \in Nat /\ n <= Used
          /\ head_index \in Cells /\ tail_index \in Cells /\ tail_index' = tail_index /\ data \in Seq(Byte)
          BY Distances
          DEF Inv, FifoTypeOK, StaleIndexIsSafe, Consume, Cells
    <1>2. n \in 0 .. pool_size - 1 /\ Used - n \in 0 .. pool_size - 1
          BY <1>1
    <1>3. head_index' = Ahead(head_index, n) /\ head_index' \in Cells
          BY <1>1, <1>2, Moves DEF Consume
    <1>4. Used' = Used - n
          <2>1. Used' = IF head_index' <= tail_index THEN tail_index - head_index' ELSE pool_size + tail_index - head_index'
                BY <1>1 DEF Used
          <2> HIDE DEF n
          <2> QED BY <1>1, <1>3, <2>1 DEF Used, Ahead, Cells
    <1>5. FifoTypeOK'
          <2>1. 0 \in Cells
                BY DEF Cells
          <2> QED BY <1>3, <2>1 DEF Inv, FifoTypeOK, Consume, wvars
    <1>6. ContentsOK /\ ContentsOK'
          <2>1. (FifoAssumption /\ FifoTypeOK => ContentsOK)'
                BY ContentsAt, PTL
          <2> QED BY <1>5, <2>1, ContentsAt DEF Inv
    <1>7. /\ Contents \in Seq(Byte) /\ Len(Contents) = Used
          /\ Contents' \in Seq(Byte) /\ Len(Contents') = Used - n
          BY <1>4, <1>6 DEF ContentsOK
    <1>8. ASSUME ~(rpc = "peek" /\ head_index + n > pool_size)
          PROVE  got' = SubSeq(Contents, 1, n)
          <2> DEFINE front == SubSeq(Contents, 1, n)
          <2>1. /\ front \in Seq(Byte) /\ Len(front) = n
                /\ \A i \in 1 .. n : front[i] = Contents[i]
                <3> HIDE DEF n
                <3> QED BY <1>1, <1>7
          <2>2. \A i \in 1 .. n : data[i] = front[i]
                <3>1. ASSUME NEW i \in 1 .. n PROVE rpc = "read" \/ head_index + i <= pool_size
                      <4>1. head_index \in Nat /\ (rpc = "read" \/ head_index + n <= pool_size)
                            BY <1>1, <1>8 DEF Consume, Cells
                      <4> HIDE DEF n
                      <4> QED BY <1>1, <4>1
                <3> QED BY <2>1, <3>1 DEF Inv, NoTornCopy
          <2> HIDE DEF front
          <2>3. data = front
                BY <1>1, <2>1, <2>2, SeqEqual
          <2> QED BY <2>3 DEF Consume, front
    <1>9. /\ rest \in Seq(Byte) /\ Len(rest) = Used - n
          /\ \A i \in 1 .. Used - n : rest[i] = Contents[n + i]
          <2> HIDE DEF n
          <2>1. n + 1 \in Int /\ Used \in Int
                BY <1>1
          <2>2. \A i \in n + 1 .. Used : Contents[i] \in Byte
                BY <1>1, <1>7
          <2>3. /\ rest \in Seq(Byte)
                /\ Len(rest) = IF n + 1 <= Used THEN Used - (n + 1) + 1 ELSE 0
                /\ \A i \in 1 .. Used - (n + 1) + 1 : rest[i] = Contents[n + 1 + i - 1]
                BY <2>1, <2>2, SubSeqProperties
          <2>4. /\ Used - (n + 1) + 1 = Used - n /\ (n + 1 <= Used \/ Used - n = 0)
                /\ \A i \in 1 .. Used - n : n + 1 + i - 1 = n + i
                BY <1>1
          <2> QED BY <1>1, <2>3, <2>4
    <1>10. ASSUME NEW i \in 1 .. Used - n
           PROVE  Contents'[i] = rest[i]
           <2>1. n + i \in 1 .. Used /\ (n + i) - 1 = n + (i - 1)
                 <3> HIDE DEF n
                 <3> QED BY <1>1
           <2>2. Ahead(head_index', i - 1) = Ahead(head_index, (n + i) - 1)
                 <3> HIDE DEF n
                 <3> QED BY <1>1, <1>3, <2>1 DEF Ahead, Cells
           <2>3. Contents'[i] = buffer[Ahead(head_index', i - 1)]
                 <3>1. buffer' = buffer
                       BY DEF Consume
                 <3>2. i \in 1 .. Used'
                       BY <1>4
                 <3> QED BY <1>6, <3>1, <3>2 DEF ContentsOK, Ahead
           <2> QED BY <1>6, <1>9, <2>1, <2>2, <2>3 DEF ContentsOK
    <1>11. Contents' = rest
           <2> HIDE DEF rest
           <2> QED BY <1>7, <1>9, <1>10, SeqEqual
    <1>12. StaleIndexIsSafe'
           <2>1. Used + amount_to_copy <= pool_size - 1 /\ amount_to_copy \in Nat
                 BY DEF Inv, StaleIndexIsSafe, FifoTypeOK, Cells
           <2>2. Used' + amount_to_copy <= pool_size - 1 /\ 0 <= Used'
                 <3> HIDE DEF n
                 <3> QED BY <1>1, <1>4, <2>1
           <2> QED BY <2>2 DEF StaleIndexIsSafe, Consume, wvars
    <1>13. NoTornCopy'
           BY DEF Inv, NoTornCopy, Consume, wvars, Ahead
    <1>14. Inv'
           BY <1>5, <1>12, <1>13 DEF Inv, IdleOK, Consume, wvars
    <1> QED BY <1>1, <1>7, <1>8, <1>11, <1>14

LEMMA NextInv == ASSUME FifoAssumption PROVE Inv /\ [RingNext]_ring_vars => Inv'
    <1> SUFFICES ASSUME Inv, [RingNext]_ring_vars PROVE Inv'
        OBVIOUS
    <1>1. CASE WriteStart
          BY <1>1, WriteStartInv
    <1>2. CASE WriteByte
          BY <1>2, WriteByteInv
    <1>3. CASE WritePublish
          BY <1>3, WritePublishInv
    <1>4. CASE GetData \/ \E n \in Lengths : ReadStart(n)
          BY <1>4, ReadBegins
    <1>5. CASE ReadAvailable
          BY <1>5, ReadAvailableInv
    <1>6. CASE ReadByte
          BY <1>6, ReadByteInv
    <1>7. CASE Consume
          BY <1>7, ConsumeInv
    <1>8. CASE UNCHANGED ring_vars
          BY <1>8 DEF ring_vars, wvars, rvars, Inv, FifoTypeOK, StaleIndexIsSafe, NoTornCopy,
                      IdleOK, Used, Contents, Ahead
    <1>9. CASE WriteRoom
          BY <1>9, WriteRoomInv
    <1> QED BY <1>1, <1>2, <1>3, <1>4, <1>5, <1>6, <1>7, <1>8, <1>9
            DEF RingNext, Producer, Consumer

-----------------------------------------------------------------------------
\* The indices of fifo.c never leave the pool, whatever the interleaving.
THEOREM TypeCorrect ==
    ASSUME FifoAssumption PROVE RingSpec => []FifoTypeOK
    <1>1. Inv => FifoTypeOK
          BY DEF Inv
    <1>2. RingInit => Inv
          BY InitInv
    <1>3. Inv /\ [RingNext]_ring_vars => Inv'
          BY NextInv
    <1> QED BY <1>1, <1>2, <1>3, PTL DEF RingSpec

\* The room and the count each side of fifo.c works with, though computed from
\* two readings of an index that moves, hold until its call ends.
THEOREM StaleIndexSafe ==
    ASSUME FifoAssumption PROVE RingSpec => []StaleIndexIsSafe
    <1>1. Inv => StaleIndexIsSafe
          BY DEF Inv
    <1>2. RingInit => Inv
          BY InitInv
    <1>3. Inv /\ [RingNext]_ring_vars => Inv'
          BY NextInv
    <1> QED BY <1>1, <1>2, <1>3, PTL DEF RingSpec

\* Neither side of fifo.c overwrites bytes the other is copying.
THEOREM NeverTorn ==
    ASSUME FifoAssumption PROVE RingSpec => []NoTornCopy
    <1>1. Inv => NoTornCopy
          BY DEF Inv
    <1>2. RingInit => Inv
          BY InitInv
    <1>3. Inv /\ [RingNext]_ring_vars => Inv'
          BY NextInv
    <1> QED BY <1>1, <1>2, <1>3, PTL DEF RingSpec

\* The space queries of fifo.c agree in every reachable state.
THEOREM QueriesAlwaysAgree ==
    ASSUME FifoAssumption PROVE RingSpec => []QueriesAgree
    <1>1. Inv => QueriesAgree
          <2> SUFFICES ASSUME Inv PROVE QueriesAgree
              OBVIOUS
          <2>1. /\ Used \in 0 .. pool_size - 1
                /\ ring_buffer_used_space = Used
                /\ ring_buffer_free_space = pool_size - 1 - Used
                BY Distances DEF Inv, FifoTypeOK
          <2> QED BY <2>1 DEF QueriesAgree, ring_buffer_is_full
    <1>2. RingInit => Inv
          BY InitInv
    <1>3. Inv /\ [RingNext]_ring_vars => Inv'
          BY NextInv
    <1> QED BY <1>1, <1>2, <1>3, PTL DEF RingSpec

\* fifo.c implements a single-producer single-consumer byte queue of size - 1
\* bytes without any lock, but for the bytes behind a block and the peeks past
\* the end of the pool that the second reading of MIN lets through.
THEOREM SpscRefinement ==
    ASSUME FifoAssumption PROVE RingSpec => IsSpscQueue
    <1>1. RingInit => Spsc!QInit
          <2> SUFFICES ASSUME RingInit PROVE Contents = <<>>
              BY DEF RingInit, Spsc!QInit
          <2>1. Inv /\ Used = 0
                BY InitInv DEF RingInit, Used
          <2>2. Contents \in Seq(Byte) /\ Len(Contents) = 0
                BY <2>1, ContentsAt DEF Inv, ContentsOK
          <2> QED BY <2>2
    <1>2. Inv /\ [RingNext]_ring_vars => [Spsc!QNext \/ PastEnd]_(Spsc!qvars)
          <2> SUFFICES ASSUME Inv, [RingNext]_ring_vars
                       PROVE  [Spsc!QNext \/ PastEnd]_(Spsc!qvars)
              OBVIOUS
          <2> USE DEF Spsc!QNext, Spsc!qvars
          <2>1. CASE WriteStart
                <3>1. Contents' = Contents
                      BY <2>1, SameContents DEF WriteStart
                <3> QED BY <2>1, <3>1 DEF WriteStart, rvars, Spsc!QOffer, Inv, IdleOK
          <2>2. CASE WriteByte
                BY <2>2, WriteByteInv DEF WriteByte, rvars
          <2>3. CASE WritePublish
                <3>1. /\ Len(Contents') \in Len(Contents) .. pool_size - 1
                      /\ \A i \in 1 .. Len(Contents) : Contents'[i] = Contents[i]
                      /\ \A i \in 1 .. Len(Contents') - Len(Contents) :
                             i <= Len(wdata) => Contents'[Len(Contents) + i] = wdata[i]
                      BY <2>3, WritePublishInv
                <3>2. wdata' = <<>> /\ got' = got
                      BY <2>3 DEF WritePublish, rvars
                <3>3. Spsc!QAccept
                      BY <3>1, <3>2 DEF Spsc!QAccept
                <3> QED BY <3>3
          <2>4. CASE WriteRoom
                <3>1. Contents' = Contents
                      BY <2>4, SameContents DEF WriteRoom
                <3> QED BY <2>4, <3>1 DEF WriteRoom, rvars
          <2>5. CASE GetData \/ \E n \in Lengths : ReadStart(n)
                <3>1. Contents' = Contents
                      BY <2>5, SameContents DEF GetData, ReadStart
                <3> QED BY <2>5, <3>1 DEF GetData, ReadStart, wvars
          <2>6. CASE ReadAvailable \/ ReadByte
                <3>1. Contents' = Contents
                      BY <2>6, SameContents DEF ReadAvailable, ReadByte
                <3> QED BY <2>6, <3>1 DEF ReadAvailable, ReadByte, wvars
          <2>7. CASE Consume
                <3>1. /\ Len(data) \in 0 .. Len(Contents)
                      /\ \/ rpc = "peek" /\ head_index + Len(data) > pool_size
                         \/ got' = SubSeq(Contents, 1, Len(data))
                      /\ Contents' = SubSeq(Contents, Len(data) + 1, Len(Contents))
                      BY <2>7, ConsumeInv
                <3>2. wdata' = wdata
                      BY <2>7 DEF Consume, wvars
                <3>3. Spsc!QTake \/ PastEnd
                      BY <3>1, <3>2 DEF Spsc!QTake, Spsc!QSkip, PastEnd
                <3> QED BY <3>3
          <2>8. CASE UNCHANGED ring_vars
                <3>1. Contents' = Contents
                      BY <2>8, SameContents DEF ring_vars
                <3> QED BY <2>8, <3>1 DEF ring_vars, wvars, rvars
          <2> QED BY <2>1, <2>2, <2>3, <2>4, <2>5, <2>6, <2>7, <2>8
                  DEF RingNext, Producer, Consumer
    <1>3. RingInit => Inv
          BY InitInv
    <1>4. Inv /\ [RingNext]_ring_vars => Inv'
          BY NextInv
    <1> QED BY <1>1, <1>2, <1>3, <1>4, PTL DEF RingSpec, IsSpscQueue
=============================================================================
