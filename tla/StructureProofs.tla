-------------------------- MODULE StructureProofs ---------------------------
(***************************************************************************)
(* Theorems about the message queue of message_queue.c, for every size of  *)
(* the block and of a header and every set of messages, and about the      *)
(* read-write lock of resalloc.c, for every set of threads.                *)
(***************************************************************************)
EXTENDS MessageQueue, RwRes, WellFoundedInduction, TLAPS

-----------------------------------------------------------------------------
(* The message queue.                                                      *)

Headers == [byte : {Junk}, start : Nat, size : Nat, state : States]

\* A block with n headers at its end, which name the messages one behind the
\* other from its start up to c.
Shape(m, c, t, n) ==
    /\ n \in Nat /\ t = mq_get(n - 1) /\ c \in Nat /\ c <= t
    /\ DOMAIN m = 0 .. MemSize - 1
    /\ \A i \in 0 .. n - 1 : m[mq_get(i)] \in Headers
    /\ \A i \in 0 .. n - 1 : m[mq_get(i)].start =
           IF i = 0 THEN 0 ELSE m[mq_get(i - 1)].start + m[mq_get(i - 1)].size
    /\ c = IF n = 0 THEN 0 ELSE m[mq_get(n - 1)].start + m[mq_get(n - 1)].size
    /\ \A i \in 0 .. n - 1, j \in 0 .. n - 1 :
           i <= j => m[mq_get(i)].start <= m[mq_get(j)].start

MqInv ==
    /\ curr_sz = mq_currsz(curr, queue_tail)
    /\ \E n \in Nat : Shape(mem, curr, queue_tail, n)

\* Natural numbers times a positive one.
LEMMA Times ==
    ASSUME NEW h \in Nat, h > 0, NEW i \in Int, NEW j \in Int, i < j
    PROVE  i * h + h <= j * h
    <1> DEFINE d == j - i - 1
    <1>1. d \in Nat /\ j = i + d + 1
          OBVIOUS
    <1>2. d * h \in Nat
          BY <1>1
    <1>3. j * h = i * h + d * h + h
          BY <1>1
    <1>4. i * h \in Int
          OBVIOUS
    <1> HIDE DEF d
    <1> QED BY <1>2, <1>3, <1>4

\* Headers lie one below the other, mq_get(-1) being the end of the block.
LEMMA GetFacts ==
    /\ \A i \in Int : mq_get(i) \in Int
    /\ mq_get(-1) = MemSize
    /\ \A i \in Int : mq_get(i - 1) = mq_get(i) + HeaderSize
    /\ \A i, j \in Int : i < j => mq_get(j) + HeaderSize <= mq_get(i)
    /\ \A i, j, k \in Int : mq_get(i) - mq_get(j) = mq_get(i + k) - mq_get(j + k)
    /\ \A i \in Int : HeaderSize * (i + 1) = MemSize - mq_get(i)
    <1>1. HeaderSize \in Nat /\ HeaderSize > 0 /\ MemSize \in Nat
          BY LayoutAssumption
    <1>2. \A i \in Int : mq_get(i) \in Int
          BY <1>1 DEF mq_get
    <1>3. mq_get(-1) = MemSize
          BY <1>1 DEF mq_get
    <1>4. \A i \in Int : mq_get(i - 1) = mq_get(i) + HeaderSize
          BY <1>1 DEF mq_get
    <1>5. ASSUME NEW i \in Int, NEW j \in Int, i < j PROVE mq_get(j) + HeaderSize <= mq_get(i)
          <2>1. (i + 1) * HeaderSize + HeaderSize <= (j + 1) * HeaderSize
                BY <1>1, <1>5, Times
          <2>2. (i + 1) * HeaderSize \in Int /\ (j + 1) * HeaderSize \in Int
                BY <1>1
          <2> QED BY <1>1, <2>1, <2>2 DEF mq_get
    <1>6. ASSUME NEW i \in Int, NEW j \in Int, NEW k \in Int
          PROVE  mq_get(i) - mq_get(j) = mq_get(i + k) - mq_get(j + k)
          BY <1>1 DEF mq_get
    <1>7. \A i \in Int : HeaderSize * (i + 1) = MemSize - mq_get(i)
          BY <1>1 DEF mq_get
    <1> QED BY <1>2, <1>3, <1>4, <1>5, <1>6, <1>7

\* Division with a remainder.
LEMMA DivFacts ==
    ASSUME NEW h \in Nat, h > 0, NEW k \in Nat
    PROVE  /\ k \div h \in Int /\ k % h \in Int
           /\ k = h * (k \div h) + (k % h) /\ 0 <= k % h /\ k % h < h
    <1>1. k \div h \in Int
          OBVIOUS
    <1>2. k % h \in Int /\ 0 <= k % h /\ k % h < h
          OBVIOUS
    <1>3. k = h * (k \div h) + (k % h)
          OBVIOUS
    <1> QED BY <1>1, <1>2, <1>3

\* mq_length counts them.
LEMMA LengthFacts == \A n \in Nat : mq_length(mq_get(n - 1)) = n
    <1> SUFFICES ASSUME NEW n \in Nat PROVE mq_length(mq_get(n - 1)) = n
        OBVIOUS
    <1> DEFINE h == HeaderSize  k == n * h  q == k \div h  r == k % h
    <1>1. h \in Nat /\ h > 0 /\ MemSize \in Nat
          BY LayoutAssumption
    <1>2. k \in Nat /\ mq_get(n - 1) = MemSize - k
          BY <1>1 DEF mq_get
    <1>3. MemSize - mq_get(n - 1) = k
          BY <1>1, <1>2
    <1>4. q \in Int /\ r \in Int /\ k = h * q + r /\ 0 <= r /\ r < h
          <2> HIDE DEF h, k
          <2> QED BY <1>1, <1>2, DivFacts DEF q, r
    <1>5. n * h \in Int /\ n * h = h * q + r
          BY <1>2, <1>4
    <1> HIDE DEF h, k, q, r
    <1>6. ~(q < n)
          <2> SUFFICES ASSUME q < n PROVE FALSE
              OBVIOUS
          <2>1. q * h + h <= n * h
                BY <1>1, <1>4, Times
          <2>2. h * q = q * h /\ q * h \in Int
                BY <1>1, <1>4
          <2> QED BY <1>1, <1>4, <1>5, <2>1, <2>2
    <1>7. ~(n < q)
          <2> SUFFICES ASSUME n < q PROVE FALSE
              OBVIOUS
          <2>1. n * h + h <= q * h
                BY <1>1, <1>4, Times
          <2>2. h * q = q * h /\ q * h \in Int
                BY <1>1, <1>4
          <2> QED BY <1>1, <1>4, <1>5, <2>1, <2>2
    <1>8. q = n
          BY <1>4, <1>6, <1>7
    <1> QED BY <1>3, <1>8 DEF mq_length, q, h

\* Where the headers of a block are.
LEMMA PlaceFacts ==
    ASSUME NEW m, NEW c, NEW t, NEW n, Shape(m, c, t, n)
    PROVE  /\ t \in Int /\ t <= MemSize
           /\ \A i \in 0 .. n - 1 : mq_get(i) \in 0 .. MemSize - 1 /\ t <= mq_get(i)
           /\ n > 0 => t = mq_get(n - 1) /\ t \in 0 .. MemSize - 1
    <1>1. HeaderSize \in Nat /\ HeaderSize > 0 /\ MemSize \in Nat
          BY LayoutAssumption
    <1>2. n \in Nat /\ t = mq_get(n - 1) /\ c \in Nat /\ c <= t
          BY DEF Shape
    <1>3. t \in Int
          BY <1>2, GetFacts
    <1>4. ASSUME NEW i \in 0 .. n - 1 PROVE mq_get(i) \in 0 .. MemSize - 1 /\ t <= mq_get(i)
          <2>1. i \in Int /\ -1 < i /\ (i = n - 1 \/ i < n - 1) /\ n - 1 \in Int
                BY <1>2
          <2>2. mq_get(i) + HeaderSize <= MemSize /\ mq_get(i) \in Int
                BY <2>1, GetFacts
          <2>3. i < n - 1 => mq_get(n - 1) + HeaderSize <= mq_get(i)
                BY <2>1, GetFacts
          <2>4. t <= mq_get(i)
                BY <1>1, <1>2, <1>3, <2>1, <2>2, <2>3
          <2> QED BY <1>1, <1>2, <1>3, <2>2, <2>4
    <1>5. n = 0 => t = MemSize
          BY <1>2, GetFacts
    <1>6. n > 0 => t \in 0 .. MemSize - 1
          <2>1. n > 0 => n - 1 \in 0 .. n - 1
                BY <1>2
          <2> QED BY <1>2, <1>4, <2>1
    <1>7. t <= MemSize
          BY <1>1, <1>2, <1>5, <1>6
    <1> QED BY <1>2, <1>3, <1>4, <1>6, <1>7

\* mq_register puts a message that fits into curr_sz behind the others.  One of
\* no bytes would fit where there is no room for its header.
LEMMA RegisterShape ==
    ASSUME NEW l, NEW n, Shape(l.mem, l.curr, l.tail, n), NEW bytes,
           Len(bytes) \in Nat \ {0}, Len(bytes) <= mq_currsz(l.curr, l.tail)
    PROVE  LET r == mq_register(l, bytes)
           IN  Shape(r.mem, r.curr, r.tail, n + 1) /\ r.size = mq_currsz(r.curr, r.tail)
    <1> DEFINE m == l.mem  c == l.curr  t == l.tail  L == Len(bytes)
               r == mq_register(l, bytes)  tail == t - HeaderSize
               packed == [a \in DOMAIN m |->
                            IF a \in Region(c, L) THEN Cell(bytes[a - c + 1]) ELSE m[a]]
               item == Item(c, L, "UNSENT")
    <1>1. HeaderSize \in Nat /\ HeaderSize > 0 /\ MemSize \in Nat
          BY LayoutAssumption
    <1>2. /\ n \in Nat /\ t = mq_get(n - 1) /\ c \in Nat /\ c <= t /\ t \in Int /\ t <= MemSize
          /\ DOMAIN m = 0 .. MemSize - 1
          BY PlaceFacts DEF Shape
    <1>3. /\ r.mem = WithItem(packed, tail, item) /\ r.curr = c + L /\ r.tail = tail
          /\ r.size = mq_currsz(c + L, tail)
          BY DEF mq_register, Layout
    <1>4. L \in Nat /\ L > 0 /\ tail \in Int /\ c + L <= tail
          BY <1>1, <1>2 DEF mq_currsz
    <1>5. tail = mq_get(n)
          <2>1. mq_get(n - 1) = mq_get(n) + HeaderSize /\ mq_get(n) \in Int
                BY <1>2, GetFacts
          <2> QED BY <1>1, <1>2, <2>1
    <1>6. /\ DOMAIN r.mem = 0 .. MemSize - 1
          /\ \A a \in 0 .. MemSize - 1 : r.mem[a] =
                IF a \in Region(tail, HeaderSize) THEN item
                ELSE IF a \in Region(c, L) THEN Cell(bytes[a - c + 1]) ELSE m[a]
          BY <1>2, <1>3 DEF WithItem
    <1> HIDE DEF m, c, t, L, r, tail, packed
    <1> HIDE DEF item
    <1>7. r.mem[mq_get(n)] = item
          <2>1. tail \in 0 .. MemSize - 1
                BY <1>1, <1>2, <1>4 DEF tail
          <2>2. tail \in Region(tail, HeaderSize)
                BY <1>1, <1>4 DEF Region
          <2> QED BY <1>5, <1>6, <2>1, <2>2
    <1>8. ASSUME NEW i \in 0 .. n - 1 PROVE r.mem[mq_get(i)] = m[mq_get(i)]
          <2>1. mq_get(i) \in 0 .. MemSize - 1 /\ t <= mq_get(i)
                BY PlaceFacts DEF m, c, t
          <2>2. mq_get(i) \notin Region(tail, HeaderSize)
                BY <1>1, <1>2, <2>1 DEF Region, tail
          <2>3. mq_get(i) \notin Region(c, L)
                BY <1>1, <1>2, <1>4, <2>1 DEF Region, tail
          <2> QED BY <1>6, <2>1, <2>2, <2>3
    <1>9. item \in Headers /\ item.start = c /\ item.size = L
          BY <1>2, <1>4 DEF item, Item, Headers, States
    <1>10. \A i \in 0 .. n - 1 : m[mq_get(i)] \in Headers
           BY DEF Shape, m
    <1>11. \A i \in 0 .. n : r.mem[mq_get(i)] \in Headers
           BY <1>2, <1>7, <1>8, <1>9, <1>10
    <1>12. c = IF n = 0 THEN 0 ELSE m[mq_get(n - 1)].start + m[mq_get(n - 1)].size
           BY DEF Shape, m, c
    <1>13. ASSUME NEW i \in 0 .. n
           PROVE  r.mem[mq_get(i)].start =
                      IF i = 0 THEN 0 ELSE r.mem[mq_get(i - 1)].start + r.mem[mq_get(i - 1)].size
           <2>1. CASE i = n
                 <3>1. n > 0 => n - 1 \in 0 .. n - 1
                       BY <1>2
                 <3> QED BY <1>2, <1>7, <1>8, <1>9, <1>12, <2>1, <3>1
           <2>2. CASE i # n
                 <3>1. i \in 0 .. n - 1 /\ (i # 0 => i - 1 \in 0 .. n - 1)
                       BY <1>2, <2>2
                 <3>2. m[mq_get(i)].start =
                          IF i = 0 THEN 0 ELSE m[mq_get(i - 1)].start + m[mq_get(i - 1)].size
                       BY <3>1 DEF Shape, m
                 <3> QED BY <1>8, <3>1, <3>2
           <2> QED BY <2>1, <2>2
    <1>14. ASSUME NEW i \in 0 .. n, NEW j \in 0 .. n, i <= j
           PROVE  r.mem[mq_get(i)].start <= r.mem[mq_get(j)].start
           <2>1. CASE j # n
                 <3>1. i \in 0 .. n - 1 /\ j \in 0 .. n - 1
                       BY <1>2, <1>14, <2>1
                 <3>2. m[mq_get(i)].start <= m[mq_get(j)].start
                       BY <1>14, <3>1 DEF Shape, m
                 <3> QED BY <1>8, <3>1, <3>2
           <2>2. CASE j = n /\ i = n
                 BY <1>2, <1>7, <1>9, <2>2
           <2>3. CASE j = n /\ i # n
                 <3>1. i \in 0 .. n - 1 /\ n - 1 \in 0 .. n - 1 /\ i <= n - 1 /\ n # 0
                       BY <1>2, <2>3
                 <3>2. m[mq_get(i)].start <= m[mq_get(n - 1)].start
                       BY <3>1 DEF Shape, m
                 <3>3. m[mq_get(i)] \in Headers /\ m[mq_get(n - 1)] \in Headers
                       BY <1>10, <3>1
                 <3>4. /\ m[mq_get(i)].start \in Nat
                       /\ m[mq_get(n - 1)].start \in Nat /\ m[mq_get(n - 1)].size \in Nat
                       BY <3>3 DEF Headers
                 <3>5. m[mq_get(i)].start <= c
                       BY <1>12, <3>1, <3>2, <3>4
                 <3> QED BY <1>7, <1>8, <1>9, <2>3, <3>1, <3>5
           <2> QED BY <2>1, <2>2, <2>3
    <1>15. /\ n + 1 \in Nat /\ (n + 1) - 1 = n /\ c + L \in Nat /\ n + 1 # 0
           BY <1>2, <1>4
    <1>16. Shape(r.mem, c + L, tail, n + 1)
           BY <1>4, <1>5, <1>6, <1>7, <1>9, <1>11, <1>13, <1>14, <1>15 DEF Shape
    <1> QED BY <1>3, <1>16 DEF r, tail

\* A non-empty set of natural numbers has a least element.
LEMMA LeastNumber ==
    ASSUME NEW S, S \subseteq Nat, S # {}
    PROVE  \E n \in S : \A m \in S : n <= m
    <1>1. PICK n \in S : \A m \in S : ~(<<m, n>> \in OpToRel(<, Nat))
          BY NatLessThanWellFounded, WFMin
    <1>2. ASSUME NEW m \in S PROVE n <= m
          <2>1. ~(<<m, n>> \in {pair \in Nat \X Nat : pair[1] < pair[2]})
                BY <1>1 DEF OpToRel
          <2> QED BY <2>1
    <1> QED BY <1>2

\* mq_clean drops the messages in front of the first that is not complete and
\* moves the others, bytes and headers, whatever lies where they go.
LEMMA CleanShape ==
    ASSUME NEW m, NEW c, NEW t, NEW n, Shape(m, c, t, n)
    PROVE  LET r == mq_clean(m, c, t)
           IN  /\ r.size = mq_currsz(r.curr, r.tail)
               /\ \E k \in Nat : Shape(r.mem, r.curr, r.tail, k)
    <1> DEFINE r       == mq_clean(m, c, t)
               live    == {i \in 0 .. n - 1 : m[mq_get(i)].state # "COMPLETE"}
               head    == Min(live)
               start   == m[mq_get(head)].start
               last    == n - 1 - head
               first   == Moved(m, 0, start, c - start)
               moved   == Moved(first, mq_get(last), t, HeaderSize * (last + 1))
               bumped  == [a \in DOMAIN m |->
                              IF a >= mq_get(last) THEN [moved[a] EXCEPT !.start = @ - start]
                              ELSE moved[a]]
    <1>1. HeaderSize \in Nat /\ HeaderSize > 0 /\ MemSize \in Nat
          BY LayoutAssumption
    <1>2. /\ n \in Nat /\ t = mq_get(n - 1) /\ c \in Nat /\ c <= t /\ t \in Int /\ t <= MemSize
          /\ DOMAIN m = 0 .. MemSize - 1
          <2>1. t \in Int /\ t <= MemSize
                BY PlaceFacts
          <2> QED BY <2>1 DEF Shape
    <1>3. mq_length(t) = n
          BY <1>2, LengthFacts
    <1>4. r = IF live = {} THEN Layout(m, 0, MemSize)
              ELSE IF head = 0 THEN Layout(m, c, t)
              ELSE Layout(bumped, c - start, mq_get(last))
          BY <1>3 DEF mq_clean
    <1> HIDE DEF r, bumped
    <1>5. CASE live = {}
          <2>1. r.mem = m /\ r.curr = 0 /\ r.tail = MemSize /\ r.size = mq_currsz(0, MemSize)
                BY <1>4, <1>5 DEF Layout
          <2>2. Shape(m, 0, MemSize, 0)
                BY <1>1, <1>2, GetFacts DEF Shape
          <2> QED BY <2>1, <2>2 DEF r
    <1>6. CASE live # {} /\ head = 0
          <2>1. r.mem = m /\ r.curr = c /\ r.tail = t /\ r.size = mq_currsz(c, t)
                BY <1>4, <1>6 DEF Layout
          <2> QED BY <1>2, <2>1 DEF r
    <1>7. CASE live # {} /\ head # 0
          <2>1. /\ r.mem = bumped /\ r.curr = c - start /\ r.tail = mq_get(last)
                /\ r.size = mq_currsz(c - start, mq_get(last))
                BY <1>4, <1>7 DEF Layout
          <2>2. head \in 0 .. n - 1
                <3>1. live \subseteq Nat
                      BY <1>2
                <3>2. \E i \in live : \A j \in live : i <= j
                      BY <1>7, <3>1, LeastNumber
                <3>3. head \in live
                      <4> HIDE DEF live
                      <4> QED BY <3>2 DEF Min
                <3> QED BY <3>3
          <2> HIDE DEF live, head
          <2>3. /\ head \in Nat /\ 0 < head /\ head <= n - 1 /\ last \in Nat /\ last = n - 1 - head
                /\ last < n - 1 /\ last + head = n - 1
                BY <1>2, <1>7, <2>2
          <2> HIDE DEF last
          <2>4. \A i \in 0 .. n - 1 :
                    /\ m[mq_get(i)] \in Headers
                    /\ m[mq_get(i)].start \in Nat /\ m[mq_get(i)].size \in Nat
                    /\ m[mq_get(i)].state \in States
                BY DEF Shape, Headers
          <2>5. start \in Nat
                BY <2>2, <2>4
          <2>6. \A i \in 0 .. n - 1 : head <= i => start <= m[mq_get(i)].start
                BY <2>2 DEF Shape
          <2> HIDE DEF start
          <2>7. c = m[mq_get(n - 1)].start + m[mq_get(n - 1)].size
                BY <2>3 DEF Shape
          <2>8. start <= c /\ c - start \in Nat
                <3>1. n - 1 \in 0 .. n - 1 /\ head <= n - 1
                      BY <1>2, <2>3
                <3> QED BY <2>4, <2>5, <2>6, <2>7, <3>1
          <2>9. /\ mq_get(last) \in Int /\ t <= mq_get(last) /\ mq_get(last) \in 0 .. MemSize - 1
                /\ HeaderSize * (last + 1) = MemSize - mq_get(last)
                <3>1. last \in 0 .. n - 1 /\ last \in Int
                      BY <1>2, <2>3
                <3> QED BY <3>1, PlaceFacts, GetFacts
          <2>10. ASSUME NEW a \in 0 .. MemSize - 1, t <= a PROVE first[a] = m[a]
                 <3>1. a \notin Region(0, c - start)
                       BY <1>2, <2>5, <2>8, <2>10 DEF Region
                 <3> QED BY <1>2, <3>1 DEF Moved
          <2>11. DOMAIN first = 0 .. MemSize - 1
                 BY <1>2 DEF Moved
          <2> HIDE DEF first
          <2>12. ASSUME NEW a \in 0 .. MemSize - 1, mq_get(last) <= a
                 PROVE  moved[a] = first[a - mq_get(last) + t]
                 <3>1. a \in Region(mq_get(last), HeaderSize * (last + 1))
                       BY <1>1, <2>9, <2>12 DEF Region
                 <3> QED BY <2>11, <3>1 DEF Moved
          <2> HIDE DEF moved
          <2>13. ASSUME NEW j \in 0 .. last
                 PROVE  /\ j + head \in 0 .. n - 1
                        /\ bumped[mq_get(j)] =
                              [m[mq_get(j + head)] EXCEPT !.start = @ - start]
                 <3>1. j \in Int /\ j + head \in 0 .. n - 1 /\ j \in 0 .. n - 1
                       BY <1>2, <2>3
                 <3>2. mq_get(j) \in 0 .. MemSize - 1 /\ mq_get(j) \in Int
                       BY <3>1, PlaceFacts
                 <3>3. mq_get(last) <= mq_get(j)
                       <4>1. j < last => mq_get(last) + HeaderSize <= mq_get(j)
                             BY <2>3, <3>1, GetFacts
                       <4> QED BY <1>1, <2>3, <2>9, <3>2, <4>1
                 <3>4. mq_get(j + head) \in 0 .. MemSize - 1 /\ t <= mq_get(j + head)
                       BY <3>1, PlaceFacts
                 <3>5. mq_get(j) - mq_get(last) = mq_get(j + head) - mq_get(last + head)
                       <4>1. \A i, k, d \in Int :
                                mq_get(i) - mq_get(k) = mq_get(i + d) - mq_get(k + d)
                             BY GetFacts
                       <4>2. j \in Int /\ last \in Int /\ head \in Int
                             BY <2>3, <3>1
                       <4> QED BY <4>1, <4>2
                 <3>6. mq_get(j) - mq_get(last) + t = mq_get(j + head)
                       BY <1>2, <2>3, <2>9, <3>2, <3>4, <3>5
                 <3>7. moved[mq_get(j)] = m[mq_get(j + head)]
                       BY <2>10, <2>12, <3>2, <3>3, <3>4, <3>6
                 <3> QED BY <1>2, <3>1, <3>2, <3>3, <3>7 DEF bumped
          <2>14. ASSUME NEW j \in 0 .. last
                 PROVE  /\ bumped[mq_get(j)] \in Headers
                        /\ bumped[mq_get(j)].start = m[mq_get(j + head)].start - start
                        /\ bumped[mq_get(j)].size = m[mq_get(j + head)].size
                 <3>1. j + head \in 0 .. n - 1 /\ head <= j + head
                       BY <2>3, <2>13
                 <3>2. m[mq_get(j + head)] \in Headers /\ m[mq_get(j + head)].start - start \in Nat
                       BY <2>4, <2>5, <2>6, <3>1
                 <3> QED BY <2>13, <3>2 DEF Headers
          <2>15. ASSUME NEW j \in 0 .. last
                 PROVE  bumped[mq_get(j)].start =
                            IF j = 0 THEN 0
                            ELSE bumped[mq_get(j - 1)].start + bumped[mq_get(j - 1)].size
                 <3>1. CASE j = 0
                       BY <2>3, <2>5, <2>14, <3>1 DEF start
                 <3>2. CASE j # 0
                       <4> DEFINE p == j + head
                       <4>1. /\ j - 1 \in 0 .. last /\ p \in 0 .. n - 1 /\ p # 0 /\ p - 1 \in 0 .. n - 1
                             /\ (j - 1) + head = p - 1
                             BY <1>2, <2>3, <3>2
                       <4>2. /\ bumped[mq_get(j)].start = m[mq_get(p)].start - start
                             /\ bumped[mq_get(j - 1)].start = m[mq_get(p - 1)].start - start
                             /\ bumped[mq_get(j - 1)].size = m[mq_get(p - 1)].size
                             BY <2>14, <4>1
                       <4> HIDE DEF p
                       <4>3. m[mq_get(p)].start = m[mq_get(p - 1)].start + m[mq_get(p - 1)].size
                             <5>1. \A i \in 0 .. n - 1 : m[mq_get(i)].start =
                                      IF i = 0 THEN 0
                                      ELSE m[mq_get(i - 1)].start + m[mq_get(i - 1)].size
                                   BY DEF Shape
                             <5> QED BY <4>1, <5>1
                       <4>4. m[mq_get(p - 1)].start \in Nat /\ m[mq_get(p - 1)].size \in Nat
                             BY <2>4, <4>1
                       <4> QED BY <2>5, <3>2, <4>2, <4>3, <4>4
                 <3> QED BY <3>1, <3>2
          <2>16. ASSUME NEW i \in 0 .. last, NEW j \in 0 .. last, i <= j
                 PROVE  bumped[mq_get(i)].start <= bumped[mq_get(j)].start
                 <3>1. i + head \in 0 .. n - 1 /\ j + head \in 0 .. n - 1 /\ i + head <= j + head
                       BY <1>2, <2>3, <2>16
                 <3>2. m[mq_get(i + head)].start <= m[mq_get(j + head)].start
                       BY <3>1 DEF Shape
                 <3> QED BY <2>4, <2>5, <2>14, <3>1, <3>2
          <2>17. c - start = bumped[mq_get(last)].start + bumped[mq_get(last)].size
                 <3>1. last \in 0 .. last /\ n - 1 \in 0 .. n - 1
                       BY <1>2, <2>3
                 <3> QED BY <2>3, <2>4, <2>5, <2>7, <2>14, <3>1
          <2>18. /\ last + 1 \in Nat /\ (last + 1) - 1 = last /\ last + 1 # 0
                 /\ c - start <= mq_get(last)
                 BY <1>2, <2>3, <2>5, <2>8, <2>9
          <2>19. DOMAIN bumped = 0 .. MemSize - 1
                 BY <1>2 DEF bumped
          <2>20. Shape(bumped, c - start, mq_get(last), last + 1)
                 BY <2>8, <2>14, <2>15, <2>16, <2>17, <2>18, <2>19 DEF Shape
          <2> QED BY <2>1, <2>18, <2>20 DEF r
    <1> QED BY <1>5, <1>6, <1>7

\* Marking a message writes over its own header only.
LEMMA MarkShape ==
    ASSUME NEW n, Shape(mem, curr, queue_tail, n), NEW i \in 1 .. n, NEW s \in States
    PROVE  Shape(WithItem(mem, mq_get(i - 1), [mem[mq_get(i - 1)] EXCEPT !.state = s]),
                 curr, queue_tail, n)
    <1> DEFINE item == [mem[mq_get(i - 1)] EXCEPT !.state = s]
               w    == WithItem(mem, mq_get(i - 1), item)
    <1>1. HeaderSize \in Nat /\ HeaderSize > 0 /\ MemSize \in Nat
          BY LayoutAssumption
    <1>2. n \in Nat /\ DOMAIN mem = 0 .. MemSize - 1 /\ i - 1 \in 0 .. n - 1
          BY DEF Shape
    <1>3. mem[mq_get(i - 1)] \in Headers
          BY <1>2 DEF Shape
    <1>4. item \in Headers /\ item.start = mem[mq_get(i - 1)].start /\ item.size = mem[mq_get(i - 1)].size
          BY <1>3 DEF Headers
    <1>5. /\ DOMAIN w = 0 .. MemSize - 1
          /\ \A a \in 0 .. MemSize - 1 :
                w[a] = IF a \in Region(mq_get(i - 1), HeaderSize) THEN item ELSE mem[a]
          BY <1>2 DEF WithItem
    <1> HIDE DEF item, w
    <1>6. ASSUME NEW j \in 0 .. n - 1
          PROVE  /\ w[mq_get(j)] \in Headers
                 /\ w[mq_get(j)].start = mem[mq_get(j)].start
                 /\ w[mq_get(j)].size = mem[mq_get(j)].size
          <2>1. mq_get(j) \in 0 .. MemSize - 1 /\ mq_get(i - 1) \in 0 .. MemSize - 1
                BY <1>2, PlaceFacts
          <2>2. CASE j = i - 1
                <3>1. mq_get(j) \in Region(mq_get(i - 1), HeaderSize)
                      BY <1>1, <2>1, <2>2 DEF Region
                <3> QED BY <1>4, <1>5, <2>1, <2>2, <3>1
          <2>3. CASE j # i - 1
                <3>1. j \in Int /\ i - 1 \in Int /\ (j < i - 1 \/ i - 1 < j)
                      BY <1>2, <2>3
                <3>2. \/ mq_get(i - 1) + HeaderSize <= mq_get(j)
                      \/ mq_get(j) + HeaderSize <= mq_get(i - 1)
                      BY <3>1, GetFacts
                <3>3. mq_get(j) \notin Region(mq_get(i - 1), HeaderSize)
                      BY <1>1, <2>1, <3>2 DEF Region
                <3>4. w[mq_get(j)] = mem[mq_get(j)]
                      BY <1>5, <2>1, <3>3
                <3> QED BY <3>4 DEF Shape
          <2> QED BY <2>2, <2>3
    <1>7. ASSUME NEW j \in 0 .. n - 1
          PROVE  w[mq_get(j)].start =
                     IF j = 0 THEN 0 ELSE w[mq_get(j - 1)].start + w[mq_get(j - 1)].size
          <2>1. j # 0 => j - 1 \in 0 .. n - 1
                BY <1>2
          <2>2. mem[mq_get(j)].start =
                    IF j = 0 THEN 0 ELSE mem[mq_get(j - 1)].start + mem[mq_get(j - 1)].size
                BY DEF Shape
          <2> QED BY <1>6, <2>1, <2>2
    <1>8. ASSUME NEW j \in 0 .. n - 1, NEW k \in 0 .. n - 1, j <= k
          PROVE  w[mq_get(j)].start <= w[mq_get(k)].start
          <2>1. mem[mq_get(j)].start <= mem[mq_get(k)].start
                BY <1>8 DEF Shape
          <2> QED BY <1>6, <2>1
    <1>9. curr = IF n = 0 THEN 0 ELSE w[mq_get(n - 1)].start + w[mq_get(n - 1)].size
          <2>1. n # 0 => n - 1 \in 0 .. n - 1
                BY <1>2
          <2>2. curr = IF n = 0 THEN 0 ELSE mem[mq_get(n - 1)].start + mem[mq_get(n - 1)].size
                BY DEF Shape
          <2> QED BY <1>6, <2>1, <2>2
    <1>10. Shape(w, curr, queue_tail, n)
           BY <1>5, <1>6, <1>7, <1>8, <1>9 DEF Shape
    <1> QED BY <1>10 DEF w, item

\* An empty block: no message, and curr_sz is what one header leaves of it.
LEMMA MqInitInv == Init => MqInv
    <1> SUFFICES ASSUME Init PROVE MqInv
        OBVIOUS
    <1>1. MemSize \in Nat
          BY LayoutAssumption
    <1>2. Shape(mem, 0, MemSize, 0)
          BY <1>1, GetFacts DEF Init, Shape
    <1> QED BY <1>2 DEF Init, MqInv

\* mq_try_pack registers a message that fits, now or after cleaning.
LEMMA PackInv == ASSUME MqInv, NEW bytes \in Payloads, mq_try_pack(bytes) PROVE MqInv'
    <1> DEFINE now     == [mem |-> mem, curr |-> curr, tail |-> queue_tail, size |-> curr_sz]
               cleaned == mq_clean(mem, curr, queue_tail)
    <1>1. Len(bytes) \in Nat \ {0}
          BY LayoutAssumption
    <1>2. PICK n \in Nat : Shape(mem, curr, queue_tail, n)
          BY DEF MqInv
    <1>3. Shape(now.mem, now.curr, now.tail, n)
          BY <1>2
    <1>4. /\ cleaned.size = mq_currsz(cleaned.curr, cleaned.tail)
          /\ \E k \in Nat : Shape(cleaned.mem, cleaned.curr, cleaned.tail, k)
          BY <1>2, CleanShape
    <1>5. PICK k \in Nat : Shape(cleaned.mem, cleaned.curr, cleaned.tail, k)
          BY <1>4
    <1>6. Len(bytes) <= curr_sz => Len(bytes) <= mq_currsz(now.curr, now.tail)
          BY DEF MqInv
    <1>7. Install(IF Len(bytes) <= curr_sz THEN mq_register(now, bytes)
                  ELSE IF Len(bytes) <= curr_sz \/ Len(bytes) <= cleaned.size
                       THEN mq_register(cleaned, bytes)
                  ELSE cleaned)
          BY DEF mq_try_pack
    <1> HIDE DEF now, cleaned
    <1>8. CASE Len(bytes) <= curr_sz
          <2> DEFINE r == mq_register(now, bytes)
          <2>1. Shape(r.mem, r.curr, r.tail, n + 1) /\ r.size = mq_currsz(r.curr, r.tail)
                BY <1>1, <1>3, <1>6, <1>8, RegisterShape
          <2>2. mem' = r.mem /\ curr' = r.curr /\ queue_tail' = r.tail /\ curr_sz' = r.size
                BY <1>7, <1>8 DEF Install
          <2> HIDE DEF r
          <2>3. curr_sz' = mq_currsz(curr', queue_tail') /\ Shape(mem', curr', queue_tail', n + 1)
                BY <2>1, <2>2
          <2> QED BY <2>3 DEF MqInv, mq_currsz, Shape, mq_get
    <1>9. CASE ~(Len(bytes) <= curr_sz) /\ Len(bytes) <= cleaned.size
          <2> DEFINE r == mq_register(cleaned, bytes)
          <2>1. Shape(r.mem, r.curr, r.tail, k + 1) /\ r.size = mq_currsz(r.curr, r.tail)
                BY <1>1, <1>4, <1>5, <1>9, RegisterShape
          <2>2. mem' = r.mem /\ curr' = r.curr /\ queue_tail' = r.tail /\ curr_sz' = r.size
                BY <1>7, <1>9 DEF Install
          <2> HIDE DEF r
          <2>3. curr_sz' = mq_currsz(curr', queue_tail') /\ Shape(mem', curr', queue_tail', k + 1)
                BY <2>1, <2>2
          <2> QED BY <2>3 DEF MqInv, mq_currsz, Shape, mq_get
    <1>10. CASE ~(Len(bytes) <= curr_sz) /\ ~(Len(bytes) <= cleaned.size)
          <2>1. /\ mem' = cleaned.mem /\ curr' = cleaned.curr
                /\ queue_tail' = cleaned.tail /\ curr_sz' = cleaned.size
                BY <1>7, <1>10 DEF Install
          <2>2. curr_sz' = mq_currsz(curr', queue_tail') /\ Shape(mem', curr', queue_tail', k)
                BY <1>4, <1>5, <2>1
          <2> QED BY <2>2 DEF MqInv, mq_currsz, Shape, mq_get
    <1> QED BY <1>8, <1>9, <1>10

\* mq_pack, the state changes of messages and mq_clean all keep the layout.
LEMMA MqNextInv == MqInv /\ [Next]_vars => MqInv'
    <1> SUFFICES ASSUME MqInv, [Next]_vars PROVE MqInv'
        OBVIOUS
    <1>1. CASE \E bytes \in Payloads : mq_try_pack(bytes)
          BY <1>1, PackInv
    <1>2. CASE Clean
          <2> DEFINE r == mq_clean(mem, curr, queue_tail)
          <2>1. r.size = mq_currsz(r.curr, r.tail) /\ \E k \in Nat : Shape(r.mem, r.curr, r.tail, k)
                BY CleanShape DEF MqInv
          <2>2. mem' = r.mem /\ curr' = r.curr /\ queue_tail' = r.tail /\ curr_sz' = r.size
                BY <1>2 DEF Clean, Install
          <2> HIDE DEF r
          <2>3. /\ curr_sz' = mq_currsz(curr', queue_tail')
                /\ \E k \in Nat : Shape(mem', curr', queue_tail', k)
                BY <2>1, <2>2
          <2> QED BY <2>3 DEF MqInv, mq_currsz, Shape, mq_get
    <1>3. ASSUME NEW i \in 1 .. mq_length(queue_tail), NEW s \in States, Mark(i, s) PROVE MqInv'
          <2>1. PICK n \in Nat : Shape(mem, curr, queue_tail, n)
                BY DEF MqInv
          <2>2. mq_length(queue_tail) = n
                BY <2>1, LengthFacts DEF Shape
          <2>3. Shape(mem', curr', queue_tail', n)
                BY <1>3, <2>1, <2>2, MarkShape DEF Mark
          <2>4. curr_sz' = mq_currsz(curr', queue_tail')
                BY <1>3 DEF Mark, MqInv
          <2> QED BY <2>3, <2>4 DEF MqInv, mq_currsz, Shape, mq_get
    <1>4. CASE (\E s \in States : mq_find(s)) \/ UNCHANGED vars
          BY <1>4 DEF mq_find, vars, MqInv, mq_currsz, Shape, mq_get
    <1> QED BY <1>1, <1>2, <1>3, <1>4 DEF Next

\* Whatever is packed, marked and cleaned, no message and no header of
\* message_queue.c overlaps another: the messages lie one behind the other from
\* the start of the block, the headers stay above them, and curr_sz is what
\* mq_currsz gives.
THEOREM QueueKeepsLayout == Spec => []LayoutOK
    <1>1. ASSUME MqInv PROVE LayoutOK
          <2>1. PICK n \in Nat : Shape(mem, curr, queue_tail, n)
                BY <1>1 DEF MqInv
          <2>2. mq_length(queue_tail) = n
                BY <2>1, LengthFacts DEF Shape
          <2>3. \A i \in 0 .. n - 1 : mem[mq_get(i)].state \in States
                BY <2>1 DEF Shape, Headers
          <2> QED BY <1>1, <2>1, <2>2, <2>3 DEF LayoutOK, MqInv, Shape
    <1> QED BY MqInitInv, MqNextInv, <1>1, PTL DEF Spec

-----------------------------------------------------------------------------
(* The read-write lock.                                                    *)

\* What RwTypeOK leaves out: the types of writer, hold and refused, and what a
\* thread holds at each place of rw_requestW, rw_requestR and rw_release.
PlaceOK ==
    /\ writer \in Threads \cup {NoThread}
    /\ hold \in [Threads -> {"none", "R", "W"}]
    /\ refused \in [Threads -> BOOLEAN]
    /\ \A t \in Threads :
          /\ pc[t] \in {"owner", "unlocked", "clear"} => hold[t] = "none"
          /\ pc[t] \in {"wrlock", "rdlock"} => hold[t] # "R"

RwInv == RwTypeOK /\ PlaceOK /\ OwnerHolds /\ RefusedOnlyOwner

\* The initial state: the lock is free and nobody is recorded as its owner.
LEMMA RwInitInv == RwAssumption /\ RwInit => RwInv
    BY DEF RwAssumption, RwInit, RwInv, RwTypeOK, PlaceOK, OwnerHolds, RefusedOnlyOwner

\* Calls of rw_requestW and rw_requestR up to the pthread call.  The test of
\* mtid refuses only the holder of the lock, because an idle thread that mtid
\* names has not released it.
LEMMA RequestInv ==
    ASSUME RwAssumption, RwInv, NEW t \in Threads, RequestW(t) \/ RequestR(t)
    PROVE  RwInv'
    <1> USE DEF RwInv, RwTypeOK, PlaceOK, Goto, Request, RwAssumption
    <1>1. CASE RequestW(t)
          BY <1>1 DEF RequestW, OwnerHolds, RefusedOnlyOwner
    <1>2. CASE RequestR(t) /\ mtid = t
          <2>1. writer = t /\ hold[t] = "W"
                BY <1>2 DEF RequestR, OwnerHolds
          <2> QED BY <1>2, <2>1 DEF RequestR, Refuse, OwnerHolds, RefusedOnlyOwner
    <1>3. CASE RequestR(t) /\ mtid # t
          BY <1>3 DEF RequestR, OwnerHolds, RefusedOnlyOwner
    <1> QED BY <1>1, <1>2, <1>3

\* The pthread calls return and rw_requestW stores the owner.
LEMMA LockInv ==
    ASSUME RwAssumption, RwInv, NEW t \in Threads, Wrlock(t) \/ Rdlock(t) \/ SetOwner(t)
    PROVE  RwInv'
    <1> USE DEF RwInv, RwTypeOK, PlaceOK, Goto, RwAssumption
    <1>1. CASE Wrlock(t) /\ writer = NoThread
          <2>1. \A u \in Threads : hold[u] = "none" /\ pc[u] # "owner"
                BY <1>1 DEF Wrlock
          <2> QED BY <1>1, <2>1 DEF Wrlock, OwnerHolds, RefusedOnlyOwner
    <1>2. CASE Wrlock(t) /\ writer # NoThread
          BY <1>2 DEF Wrlock, Refuse, OwnerHolds, RefusedOnlyOwner
    <1>3. CASE Rdlock(t) /\ writer = NoThread
          <2>1. /\ \A u \in Threads : hold[u] # "W" /\ pc[u] # "owner" /\ ~refused[u]
                BY <1>3 DEF Rdlock, RefusedOnlyOwner
          <2> QED BY <1>3, <2>1 DEF Rdlock, OwnerHolds, RefusedOnlyOwner
    <1>4. CASE Rdlock(t) /\ writer # NoThread
          BY <1>4 DEF Rdlock, Refuse, OwnerHolds, RefusedOnlyOwner
    <1>5. CASE SetOwner(t)
          BY <1>5 DEF SetOwner, OwnerHolds, RefusedOnlyOwner
    <1> QED BY <1>1, <1>2, <1>3, <1>4, <1>5

\* rw_tryW and rw_tryR that get the lock.
LEMMA TryInv ==
    ASSUME RwAssumption, RwInv, NEW t \in Threads, TryW(t) \/ TryR(t)
    PROVE  RwInv'
    <1> USE DEF RwInv, RwTypeOK, PlaceOK, RwAssumption
    <1>1. \A u \in Threads : hold[u] # "W" /\ pc[u] # "owner" /\ ~refused[u]
          BY DEF TryW, TryR, RefusedOnlyOwner
    <1>2. CASE TryW(t)
          BY <1>1, <1>2 DEF TryW, OwnerHolds, RefusedOnlyOwner
    <1>3. CASE TryR(t)
          BY <1>1, <1>3 DEF TryR, OwnerHolds, RefusedOnlyOwner
    <1> QED BY <1>2, <1>3

\* rw_release, with the test and the store of mtid outside the lock: a thread
\* goes on from the test to "idle" only when mtid names somebody else.
LEMMA ReleaseInv ==
    ASSUME RwAssumption, RwInv, NEW t \in Threads, Unlock(t) \/ TestOwner(t) \/ ClearOwner(t)
    PROVE  RwInv'
    <1> USE DEF RwInv, RwTypeOK, PlaceOK, Goto, RwAssumption
    <1>1. CASE Unlock(t) /\ hold[t] = "W"
          <2>1. writer = t /\ readers = {}
                BY <1>1 DEF Unlock
          <2> QED BY <1>1, <2>1 DEF Unlock, OwnerHolds, RefusedOnlyOwner
    <1>2. CASE Unlock(t) /\ hold[t] = "R"
          BY <1>2 DEF Unlock, OwnerHolds, RefusedOnlyOwner
    <1>3. CASE TestOwner(t)
          BY <1>3 DEF TestOwner, OwnerHolds, RefusedOnlyOwner
    <1>4. CASE ClearOwner(t)
          BY <1>4 DEF ClearOwner, OwnerHolds, RefusedOnlyOwner
    <1> QED BY <1>1, <1>2, <1>3, <1>4 DEF Unlock

\* Every step of every thread preserves the invariant.
LEMMA RwNextInv == RwAssumption /\ RwInv /\ [RwNext]_rw_vars => RwInv'
    <1> SUFFICES ASSUME RwAssumption, RwInv, [RwNext]_rw_vars PROVE RwInv'
        OBVIOUS
    <1>1. CASE UNCHANGED rw_vars
          BY <1>1 DEF rw_vars, RwInv, RwTypeOK, PlaceOK, OwnerHolds, RefusedOnlyOwner
    <1>2. CASE RwNext
          BY <1>2, RequestInv, LockInv, TryInv, ReleaseInv DEF RwNext, Step
    <1> QED BY <1>1, <1>2

\* mtid is stored and cleared outside the pthread lock by several threads at
\* once.  Still, in every reachable state it names no thread that neither holds
\* the write lock nor is just giving it back, the threads believe to hold what
\* the lock gave them, and only the holder of the write lock is refused.
THEOREM OwnerIsRight ==
    ASSUME RwAssumption
    PROVE  RwSpec => []LockOK
    <1>1. RwInv => LockOK
          BY DEF RwInv, LockOK
    <1> QED BY RwInitInv, RwNextInv, <1>1, PTL DEF RwSpec
=============================================================================
