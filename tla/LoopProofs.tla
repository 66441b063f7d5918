---------------------------- MODULE LoopProofs ------------------------------
(***************************************************************************)
(* Theorems about the three event loops, for every set of descriptors,     *)
(* timers and timeouts: the epoll reactor of net_event.c (NetEvent), the   *)
(* select loop of selector.c (Selector) and the loop of ubox (UboxEvent).  *)
(***************************************************************************)
EXTENDS UboxEvent, NetEvent, Selector, FiniteSetTheorems, SequenceTheorems,
        WellFoundedInduction, TLAPS

\* A timeout is in the list once at most: event_timeout_set takes a pending one
\* out before it changes its time.
Once(s) == \A m, n \in DOMAIN s : s[m] = s[n] => m = n

-----------------------------------------------------------------------------
(* Sequences without repetition.                                           *)

\* A non-empty set of natural numbers has a least element.
LEMMA LeastNumber ==
    ASSUME NEW S, S \subseteq Nat, S # {}
    PROVE  \E n \in S : \A m \in S : n <= m
    <1>1. PICK n \in S : \A m \in S : ~(<<m, n>> \in OpToRel(<, Nat))
          BY NatLessThanWellFounded, WFMin
    <1>2. ASSUME NEW m \in S PROVE n <= m
          <2>1. ~(<<m, n>> \in {pair \in Nat \X Nat : pair[1] < pair[2]})
                BY <1>1 DEF OpToRel
          <2> QED BY <2>1
    <1> QED BY <1>2

\* Min of FiniteSetsExt is that element.
LEMMA MinFacts ==
    ASSUME NEW S, S \subseteq Nat, S # {}
    PROVE  Min(S) \in S /\ \A m \in S : Min(S) <= m
    BY LeastNumber DEF Min

\* What list_del leaves: the other elements, in their places or one before.
LEMMA RemoveAtFacts ==
    ASSUME NEW T, NEW s \in Seq(T), NEW i \in 1 .. Len(s)
    PROVE  /\ RemoveAt(s, i) \in Seq(T) /\ Len(RemoveAt(s, i)) = Len(s) - 1
           /\ \A n \in 1 .. Len(s) - 1 :
                 RemoveAt(s, i)[n] = IF n < i THEN s[n] ELSE s[n + 1]
    <1> DEFINE a == SubSeq(s, 1, i - 1)
               b == SubSeq(s, i + 1, Len(s))
    <1>1. Len(s) \in Nat /\ i \in Nat /\ 1 <= i /\ i <= Len(s)
          OBVIOUS
    <1>2. \A n \in 1 .. Len(s) : s[n] \in T
          BY ElementOfSeq
    <1>3. a \in Seq(T) /\ Len(a) = i - 1 /\ \A n \in 1 .. i - 1 : a[n] = s[n]
          BY <1>1, <1>2, SubSeqProperties
    <1>4. b \in Seq(T) /\ Len(b) = Len(s) - i /\ \A n \in 1 .. Len(s) - i : b[n] = s[n + i]
          BY <1>1, <1>2, SubSeqProperties
    <1> HIDE DEF a, b
    <1>5. RemoveAt(s, i) = a \o b
          BY DEF RemoveAt, a, b
    <1>6. a \o b \in Seq(T) /\ Len(a \o b) = Len(s) - 1
          <2>1. a \o b \in Seq(T) /\ Len(a \o b) = Len(a) + Len(b)
                BY <1>3, <1>4, ConcatProperties
          <2> QED BY <1>1, <1>3, <1>4, <2>1
    <1>7. \A n \in 1 .. Len(s) - 1 : (a \o b)[n] = IF n < i THEN s[n] ELSE s[n + 1]
          BY <1>1, <1>3, <1>4, ConcatProperties
    <1> QED BY <1>5, <1>6, <1>7

\* What list_add_tail leaves: the element before place i.
LEMMA InsertAtFacts ==
    ASSUME NEW T, NEW s \in Seq(T), NEW e \in T, NEW i \in 1 .. Len(s) + 1
    PROVE  /\ InsertAt(s, i, e) \in Seq(T) /\ Len(InsertAt(s, i, e)) = Len(s) + 1
           /\ \A n \in 1 .. Len(s) + 1 :
                 InsertAt(s, i, e)[n] = IF n < i THEN s[n] ELSE IF n = i THEN e ELSE s[n - 1]
    <1> DEFINE a == SubSeq(s, 1, i - 1)
               b == SubSeq(s, i, Len(s))
               c == a \o <<e>>
    <1>1. Len(s) \in Nat /\ i \in Nat /\ 1 <= i /\ i <= Len(s) + 1
          OBVIOUS
    <1>2. \A n \in 1 .. Len(s) : s[n] \in T
          BY ElementOfSeq
    <1>3. a \in Seq(T) /\ Len(a) = i - 1 /\ \A n \in 1 .. i - 1 : a[n] = s[n]
          BY <1>1, <1>2, SubSeqProperties
    <1>4. /\ b \in Seq(T) /\ Len(b) = Len(s) + 1 - i
          /\ \A n \in 1 .. Len(s) + 1 - i : b[n] = s[n + i - 1]
          BY <1>1, <1>2, SubSeqProperties
    <1>5. <<e>> \in Seq(T) /\ Len(<<e>>) = 1 /\ <<e>>[1] = e
          OBVIOUS
    <1> HIDE DEF a, b
    <1>6. c \in Seq(T) /\ Len(c) = i /\ \A n \in 1 .. i : c[n] = IF n < i THEN s[n] ELSE e
          BY <1>1, <1>3, <1>5, ConcatProperties
    <1> HIDE DEF c
    <1>7. InsertAt(s, i, e) = c \o b
          BY DEF InsertAt, a, b, c
    <1>8. /\ c \o b \in Seq(T) /\ Len(c \o b) = Len(c) + Len(b)
          /\ \A n \in 1 .. Len(c) + Len(b) :
                (c \o b)[n] = IF n <= Len(c) THEN c[n] ELSE b[n - Len(c)]
          BY <1>4, <1>6, ConcatProperties
    <1>9. Len(c \o b) = Len(s) + 1
          BY <1>1, <1>4, <1>6, <1>8
    <1>10. ASSUME NEW n \in 1 .. Len(s) + 1
           PROVE  (c \o b)[n] = IF n < i THEN s[n] ELSE IF n = i THEN e ELSE s[n - 1]
          <2>1. n \in 1 .. Len(c) + Len(b)
                BY <1>1, <1>4, <1>6
          <2>2. CASE n <= i
                BY <1>1, <1>6, <1>8, <2>1, <2>2
          <2>3. CASE ~(n <= i)
                <3>1. n - i \in 1 .. Len(s) + 1 - i /\ n - i + i - 1 = n - 1
                      BY <1>1, <2>3
                <3>2. b[n - i] = s[n - i + i - 1]
                      BY <1>4, <3>1
                <3>3. (c \o b)[n] = b[n - i]
                      BY <1>1, <1>6, <1>8, <2>1, <2>3
                <3> QED BY <1>1, <2>3, <3>1, <3>2, <3>3
          <2> QED BY <2>2, <2>3
    <1> QED BY <1>7, <1>8, <1>9, <1>10

-----------------------------------------------------------------------------
(* What tv_diff says of two times.                                         *)

\* a is before b, or later by less than tv_diff can see: whole milliseconds are
\* counted only between the microseconds of two times.
Before(a, b) ==
    \/ a[1] < b[1]
    \/ a[1] = b[1] /\ a[2] - b[2] < Grain
    \/ a[1] = b[1] + 1 /\ a[2] = 0 /\ b[2] = Second

Timeval == Nat \X (0 .. Second)

\* C's quotient of two microseconds that are a second apart at most.
LEMMA Quotient ==
    ASSUME NEW g \in Nat \ {0}, NEW k \in Nat \ {0}, NEW x \in 0 .. k * g
    PROVE  /\ x \div g \in 0 .. k /\ g * (x \div g) <= x /\ x < g * (x \div g) + g
           /\ (x \div g = 0 <=> x < g) /\ (x \div g = k <=> x = k * g)
    <1> DEFINE q == x \div g
    <1>0. k * g \in Nat /\ x \in Nat
          OBVIOUS
    <1>1. q \in Nat /\ g * q <= x /\ x < g * q + g
          BY <1>0, Z3
    <1> HIDE DEF q
    <1>2. ASSUME NEW a \in Nat, NEW b \in Nat, a < b PROVE g * a + g <= g * b
          <2>1. PICK d \in Nat : b = a + 1 + d
                <3>1. b - a - 1 \in Nat /\ b = a + 1 + (b - a - 1)
                      BY <1>2
                <3> QED BY <3>1
          <2>2. g * b = g * a + g + g * d /\ g * d >= 0
                BY <2>1
          <2> QED BY <2>2, <1>2
    <1>3. q <= k
          <2>1. CASE k < q
                <3>1. g * k + g <= g * q
                      BY <1>1, <1>2, <2>1
                <3>2. g * k = k * g /\ g * q \in Nat
                      BY <1>1
                <3> QED BY <1>0, <1>1, <3>1, <3>2
          <2> QED BY <1>1, <2>1
    <1>4. q = 0 <=> x < g
          <2>1. ASSUME q # 0 PROVE g <= x
                <3>1. g * 0 + g <= g * q
                      BY <1>1, <1>2, <2>1
                <3> QED BY <1>0, <1>1, <3>1
          <2>2. ASSUME q = 0 PROVE x < g
                <3>1. g * q = 0
                      BY <2>2
                <3> QED BY <1>1, <3>1
          <2> QED BY <1>0, <2>1, <2>2
    <1>5. q = k <=> x = k * g
          <2>1. ASSUME q = k PROVE x = k * g
                <3>1. g * q = k * g
                      BY <2>1
                <3> QED BY <1>0, <1>1, <3>1
          <2>2. ASSUME x = k * g, q < k PROVE FALSE
                <3>1. g * q + g <= g * k /\ g * k = k * g
                      BY <1>1, <1>2, <2>2
                <3> QED BY <1>0, <1>1, <2>2, <3>1
          <2> QED BY <1>1, <1>3, <2>1, <2>2
    <1> QED BY <1>1, <1>3, <1>4, <1>5 DEF q

\* What the assumption says of the units of time.
LEMMA Units ==
    ASSUME UnitsAssumption
    PROVE  Grain \in Nat \ {0} /\ Thousand \in Nat \ {0} /\ Second \in Nat \ {0} /\ Grain <= Second
    <1>1. Grain \in Nat \ {0} /\ Thousand \in Nat \ {0}
          BY DEF UnitsAssumption
    <1>2. PICK k \in Nat : Thousand = k + 1
          <2>1. Thousand - 1 \in Nat /\ Thousand = (Thousand - 1) + 1
                BY <1>1
          <2> QED BY <2>1
    <1>3. Second = k * Grain + Grain /\ k * Grain \in Nat
          BY <1>1, <1>2 DEF Second
    <1> QED BY <1>1, <1>3

\* The difference of the microseconds in whole milliseconds, as tv_diff has it.
Fraction(x, y) == IF x >= y THEN (x - y) \div Grain ELSE -((y - x) \div Grain)

\* What the quotient is, and that it rounds towards zero.
LEMMA FractionFacts ==
    ASSUME UnitsAssumption, NEW x \in 0 .. Second, NEW y \in 0 .. Second,
           NEW q, q = Fraction(x, y)
    PROVE  /\ q \in Int /\ -Thousand <= q /\ q <= Thousand
           /\ q <= 0 <=> x - y < Grain
           /\ q <= -Thousand <=> x = 0 /\ y = Second
           /\ Grain * q < x - y + Grain
           /\ Fraction(y, x) = -q
    <1>1. Grain \in Nat \ {0} /\ Thousand \in Nat \ {0} /\ Second \in Nat \ {0}
          BY Units
    <1>2. Second = Thousand * Grain
          BY DEF Second
    <1>3. CASE x >= y
          <2>1. x - y \in 0 .. Thousand * Grain /\ x - y \in 0 .. Second
                BY <1>1, <1>2, <1>3
          <2> DEFINE z == (x - y) \div Grain
          <2>2. /\ z \in 0 .. Thousand /\ Grain * z <= x - y
                /\ (z = 0 <=> x - y < Grain)
                BY <1>1, <2>1, Quotient
          <2>3. q = z /\ (x # y => Fraction(y, x) = -z) /\ (x = y => Fraction(y, x) = z)
                BY <1>3 DEF Fraction
          <2> HIDE DEF z
          <2>4. x = y => z = 0
                BY <1>1, <2>2
          <2>5. Grain * q = Grain * z
                BY <2>3
          <2> QED BY <1>1, <1>3, <2>1, <2>2, <2>3, <2>4, <2>5
    <1>4. CASE ~(x >= y)
          <2>1. y - x \in 0 .. Thousand * Grain /\ y - x \in 0 .. Second
                BY <1>1, <1>2, <1>4
          <2> DEFINE z == (y - x) \div Grain
          <2>2. /\ z \in 0 .. Thousand /\ y - x < Grain * z + Grain
                /\ (z = Thousand <=> y - x = Second)
                BY <1>1, <1>2, <2>1, Quotient
          <2>3. q = -z /\ Fraction(y, x) = z
                BY <1>4 DEF Fraction
          <2> HIDE DEF z
          <2>4. Grain * q = -(Grain * z) /\ Grain * z \in Int
                BY <1>1, <2>2, <2>3
          <2> QED BY <1>1, <1>4, <2>1, <2>2, <2>3, <2>4
    <1> QED BY <1>3, <1>4

\* A product with the sign of its first factor.
LEMMA Multiple ==
    ASSUME NEW d \in Int, NEW k \in Nat
    PROVE  /\ d * k \in Int
           /\ d = 0 => d * k = 0
           /\ d = 1 => d * k = k
           /\ d >= 1 => d * k >= k
           /\ d >= 2 => d * k >= k + k
           /\ d <= -1 => d * k <= -k
    <1>1. ASSUME NEW e \in Nat PROVE e * k \in Nat
          OBVIOUS
    <1>2. d >= 1 => d - 1 \in Nat /\ d * k = (d - 1) * k + k
          OBVIOUS
    <1>3. d >= 2 => d - 2 \in Nat /\ d * k = (d - 2) * k + k + k
          OBVIOUS
    <1>4. d <= -1 => -1 - d \in Nat /\ d * k = -((-1 - d) * k) - k
          OBVIOUS
    <1> QED BY <1>1, <1>2, <1>3, <1>4

\* What the sign of tv_diff says.
LEMMA tv_diffFacts ==
    ASSUME UnitsAssumption, NEW a \in Timeval, NEW b \in Timeval
    PROVE  /\ tv_diff(a, b) \in Int /\ tv_diff(b, a) = -tv_diff(a, b)
           /\ tv_diff(a, b) <= 0 <=> Before(a, b)
           /\ Grain * tv_diff(a, b) < TickOf(a) - TickOf(b) + Grain
    <1>1. Grain \in Nat \ {0} /\ Thousand \in Nat \ {0} /\ Second \in Nat \ {0}
          BY Units
    <1>2. a[1] \in Nat /\ b[1] \in Nat /\ a[2] \in 0 .. Second /\ b[2] \in 0 .. Second
          BY DEF Timeval
    <1> DEFINE q == Fraction(a[2], b[2])
               d == a[1] - b[1]
               m == d * Thousand
    <1>3. /\ q \in Int /\ -Thousand <= q /\ q <= Thousand
          /\ q <= 0 <=> a[2] - b[2] < Grain
          /\ q <= -Thousand <=> a[2] = 0 /\ b[2] = Second
          /\ Grain * q < a[2] - b[2] + Grain
          /\ Fraction(b[2], a[2]) = -q
          BY <1>2, FractionFacts
    <1>4. tv_diff(a, b) = m + q /\ tv_diff(b, a) = (b[1] - a[1]) * Thousand - q
          BY <1>3 DEF tv_diff, Fraction
    <1>5. (b[1] - a[1]) * Thousand = -m
          BY <1>1, <1>2
    <1>6. d \in Int /\ d = a[1] - b[1]
          BY <1>2
    <1> HIDE DEF q, d
    <1>7. /\ m \in Int
          /\ d = 0 => m = 0
          /\ d = 1 => m = Thousand
          /\ d >= 2 => m >= Thousand + Thousand
          /\ d <= -1 => m <= -Thousand
          BY <1>1, <1>6, Multiple
    <1>8. Grain * m = d * Second
          BY <1>1, <1>6 DEF Second
    <1>9. TickOf(a) - TickOf(b) = d * Second + (a[2] - b[2]) /\ d * Second \in Int
          <2>1. a[1] * Second - b[1] * Second = d * Second
                BY <1>1, <1>2, <1>6
          <2> QED BY <1>1, <1>2, <1>6, <2>1 DEF TickOf
    <1>10. Grain * (m + q) = Grain * m + Grain * q
          BY <1>1, <1>3, <1>7
    <1> HIDE DEF m
    <1>11. m + q <= 0 <=> Before(a, b)
          <2>1. CASE d <= -1
                BY <1>1, <1>2, <1>3, <1>6, <1>7, <2>1 DEF Before
          <2>2. CASE d = 0
                BY <1>1, <1>2, <1>3, <1>6, <1>7, <2>2 DEF Before
          <2>3. CASE d = 1
                BY <1>1, <1>2, <1>3, <1>6, <1>7, <2>3 DEF Before
          <2>4. CASE d >= 2
                BY <1>1, <1>2, <1>3, <1>6, <1>7, <2>4 DEF Before
          <2> QED BY <1>6, <2>1, <2>2, <2>3, <2>4
    <1>12. tv_diff(a, b) \in Int /\ tv_diff(b, a) = -tv_diff(a, b)
          BY <1>3, <1>4, <1>5, <1>7
    <1>13. Grain * q \in Int
          BY <1>1, <1>3
    <1>14. Grain * tv_diff(a, b) < TickOf(a) - TickOf(b) + Grain
          BY <1>1, <1>2, <1>3, <1>4, <1>8, <1>9, <1>10, <1>13
    <1> QED BY <1>4, <1>11, <1>12, <1>14

\* Seconds weigh more than what is left of a time.
LEMMA TickFacts ==
    ASSUME UnitsAssumption, NEW a \in Timeval, NEW b \in Timeval
    PROVE  /\ TickOf(a) \in Nat /\ TickOf(b) \in Nat
           /\ a[1] = b[1] => TickOf(a) - TickOf(b) = a[2] - b[2]
           /\ a[1] < b[1] => TickOf(a) + b[2] + Second <= TickOf(b) + a[2]
           /\ a[1] = b[1] + 1 => TickOf(a) - TickOf(b) = Second + a[2] - b[2]
    <1>1. Second \in Nat \ {0}
          BY Units
    <1>2. a[1] \in Nat /\ b[1] \in Nat /\ a[2] \in 0 .. Second /\ b[2] \in 0 .. Second
          BY DEF Timeval
    <1> DEFINE d == b[1] - a[1]
               m == a[1] * Second
               n == b[1] * Second
    <1>3. m \in Nat /\ n \in Nat /\ n - m = d * Second /\ d \in Int
          BY <1>1, <1>2
    <1>4. /\ d = 0 => d * Second = 0
          /\ d >= 1 => d * Second >= Second
          /\ d * Second \in Int
          BY <1>1, <1>3, Multiple
    <1>5. d = -1 => d * Second = -Second
          BY <1>1
    <1>6. TickOf(a) = m + a[2] /\ TickOf(b) = n + b[2]
          BY DEF TickOf
    <1>7. /\ a[1] = b[1] => d = 0
          /\ a[1] < b[1] => d >= 1
          /\ a[1] = b[1] + 1 => d = -1
          BY <1>2
    <1> HIDE DEF d, m, n
    <1> QED BY <1>1, <1>2, <1>3, <1>4, <1>5, <1>6, <1>7

\* A time that is before another is less than a millisecond later at most.
LEMMA BeforeTicks ==
    ASSUME UnitsAssumption, NEW a \in Timeval, NEW b \in Timeval, Before(a, b)
    PROVE  TickOf(a) - TickOf(b) < Grain
    <1>1. a[2] \in 0 .. Second /\ b[2] \in 0 .. Second /\ Grain \in Nat \ {0} /\ Second \in Nat
          BY Units DEF Timeval
    <1> QED BY <1>1, TickFacts DEF Before

\* A timeout that an inserted one goes before is followed by later ones only.
LEMMA BeforeTransfers ==
    ASSUME UnitsAssumption, NEW p \in Timeval, NEW d \in Timeval, NEW k \in Timeval,
           ~Before(p, d), Before(p, k)
    PROVE  Before(d, k)
    <1>1. /\ p[1] \in Nat /\ d[1] \in Nat /\ k[1] \in Nat /\ Grain \in Nat \ {0} /\ Second \in Nat
          /\ p[2] \in 0 .. Second /\ d[2] \in 0 .. Second /\ k[2] \in 0 .. Second
          BY Units DEF Timeval
    <1> QED BY <1>1 DEF Before

\* No timeout behind one that is not due can have been due.
LEMMA BeforeNotDue ==
    ASSUME UnitsAssumption, NEW h \in Timeval, NEW v \in Timeval, NEW k \in Timeval,
           v[2] < Second, ~Before(h, v), Before(h, k)
    PROVE  TickOf(k) > TickOf(v)
    <1>1. /\ h[1] \in Nat /\ v[1] \in Nat /\ k[1] \in Nat /\ Grain \in Nat \ {0} /\ Second \in Nat
          /\ h[2] \in 0 .. Second /\ v[2] \in 0 .. Second /\ k[2] \in 0 .. Second
          BY Units DEF Timeval
    <1>2. v[1] < k[1] \/ (v[1] = k[1] /\ v[2] < k[2])
          BY <1>1 DEF Before
    <1> QED BY <1>1, <1>2, TickFacts

\* event_gettime takes a clock apart without loss.
LEMMA gettimeFacts ==
    ASSUME UnitsAssumption, NEW n \in Nat
    PROVE  gettime(n) \in Timeval /\ gettime(n)[2] < Second /\ TickOf(gettime(n)) = n
    <1>1. Second \in Nat \ {0}
          BY Units
    <1> DEFINE q == n \div Second
               m == n % Second
    <1>2. q \in Nat /\ m \in 0 .. Second /\ m < Second /\ q * Second + m = n
          BY <1>1, Z3
    <1> HIDE DEF q, m
    <1>3. gettime(n) = <<q, m>>
          BY DEF gettime, q, m
    <1> QED BY <1>2, <1>3 DEF Timeval, TickOf

\* The time event_timeout_set computes has at most a million microseconds.
LEMMA DueTimeType ==
    ASSUME UnitsAssumption, NEW at \in Nat, NEW ms \in Nat
    PROVE  DueTime(at, ms) \in Timeval
    <1>1. Grain \in Nat \ {0} /\ Thousand \in Nat \ {0} /\ Second \in Nat \ {0} /\ Grain <= Second
          BY Units
    <1> DEFINE x == at % Second
               k == ms % Thousand
               y == k * Grain
               a == at \div Second
               b == ms \div Thousand
    <1>2. x \in Nat /\ x < Second /\ a \in Nat
          BY <1>1, Z3
    <1>3. k \in Nat /\ k < Thousand /\ b \in Nat
          BY <1>1, Z3
    <1> HIDE DEF x, k, a, b
    <1>4. y \in Nat /\ y <= Second
          <2>1. Thousand - k \in Nat /\ (Thousand - k) * Grain \in Nat
                BY <1>1, <1>3
          <2>2. (Thousand - k) * Grain = Second - y
                BY <1>1, <1>3 DEF Second
          <2> QED BY <1>1, <1>3, <2>1, <2>2
    <1> HIDE DEF y
    <1>5. DueTime(at, ms) = IF x + y > Second THEN <<a + b + 1, (x + y) - Second>> ELSE <<a + b, x + y>>
          BY Zenon DEF DueTime, x, k, y, a, b
    <1>6. /\ a + b + 1 \in Nat /\ a + b \in Nat
          /\ x + y > Second => (x + y) - Second \in 0 .. Second
          /\ ~(x + y > Second) => x + y \in 0 .. Second
          BY <1>1, <1>2, <1>3, <1>4
    <1> QED BY <1>5, <1>6 DEF Timeval

-----------------------------------------------------------------------------
(* The list of timeouts, of either loop.                                   *)

\* The list in order, as far as tv_diff tells.
InOrder(s, at) == \A m, n \in DOMAIN s : m < n => Before(at[s[m]], at[s[n]])

\* Taking a timeout off the list keeps the others and their order.
LEMMA RemoveFacts ==
    ASSUME NEW T, NEW t, NEW s \in Seq(T), Once(s), NEW of, InOrder(s, of),
           NEW r, r = RemoveFirst(s, t)
    PROVE  r \in Seq(T) /\ Once(r) /\ InOrder(r, of) /\ Range(r) = Range(s) \ {t}
    <1>1. Len(s) \in Nat /\ DOMAIN s = 1 .. Len(s)
          OBVIOUS
    <1>2. CASE ~ \E i \in 1 .. Len(s) : s[i] = t
          <2>1. r = s
                BY <1>2 DEF RemoveFirst
          <2>2. t \notin Range(s)
                BY <1>1, <1>2 DEF Range
          <2> QED BY <2>1, <2>2
    <1>3. CASE \E i \in 1 .. Len(s) : s[i] = t
          <2> DEFINE I == {i \in 1 .. Len(s) : s[i] = t}
          <2>1. I \subseteq Nat /\ I # {}
                BY <1>1, <1>3
          <2>2. PICK i \in I : i = Min(I)
                BY <2>1, MinFacts
          <2>3. r = RemoveAt(s, i)
                BY <1>3, <2>1, <2>2 DEF RemoveFirst, SelectInSeq
          <2>4. i \in 1 .. Len(s) /\ s[i] = t
                OBVIOUS
          <2> HIDE DEF I
          <2>5. /\ r \in Seq(T) /\ Len(r) = Len(s) - 1
                /\ \A n \in 1 .. Len(s) - 1 : r[n] = IF n < i THEN s[n] ELSE s[n + 1]
                BY <2>3, <2>4, RemoveAtFacts
          <2>6. DOMAIN r = 1 .. Len(s) - 1
                BY <2>5
          <2> DEFINE p(n) == IF n < i THEN n ELSE n + 1
          <2>7. \A n \in 1 .. Len(s) - 1 :
                   p(n) \in 1 .. Len(s) /\ p(n) # i /\ r[n] = s[p(n)]
                BY <1>1, <2>4, <2>5
          <2>8. \A m, n \in 1 .. Len(s) - 1 : (m < n => p(m) < p(n)) /\ (p(m) = p(n) => m = n)
                BY <1>1, <2>4
          <2>9. \A k \in 1 .. Len(s) : k # i => \E n \in 1 .. Len(s) - 1 : p(n) = k
                <3> SUFFICES ASSUME NEW k \in 1 .. Len(s), k # i
                             PROVE  \E n \in 1 .. Len(s) - 1 : p(n) = k
                    OBVIOUS
                <3>1. CASE k < i
                      <4>1. k \in 1 .. Len(s) - 1 /\ p(k) = k
                            BY <1>1, <2>4, <3>1
                      <4> QED BY <4>1
                <3>2. CASE k > i
                      <4>1. k - 1 \in 1 .. Len(s) - 1 /\ p(k - 1) = k
                            BY <1>1, <2>4, <3>2
                      <4> QED BY <4>1
                <3> QED BY <1>1, <2>4, <3>1, <3>2
          <2> HIDE DEF p
          <2>10. Once(r)
                <3>1. ASSUME NEW m \in 1 .. Len(s) - 1, NEW n \in 1 .. Len(s) - 1,
                             r[m] = r[n]
                      PROVE  m = n
                      <4>1. s[p(m)] = s[p(n)] /\ p(m) \in DOMAIN s /\ p(n) \in DOMAIN s
                            BY <1>1, <2>7, <3>1
                      <4>2. p(m) = p(n)
                            BY <4>1 DEF Once
                      <4> QED BY <2>8, <4>2
                <3> QED BY <2>6, <3>1 DEF Once
          <2>11. InOrder(r, of)
                <3>1. ASSUME NEW m \in 1 .. Len(s) - 1, NEW n \in 1 .. Len(s) - 1, m < n
                      PROVE  Before(of[r[m]], of[r[n]])
                      <4>1. /\ r[m] = s[p(m)] /\ r[n] = s[p(n)] /\ p(m) < p(n)
                            /\ p(m) \in DOMAIN s /\ p(n) \in DOMAIN s
                            BY <1>1, <2>7, <2>8, <3>1
                      <4> QED BY <4>1 DEF InOrder
                <3> QED BY <2>6, <3>1 DEF InOrder
          <2>12. ASSUME NEW u PROVE u \in Range(r) <=> u \in Range(s) /\ u # t
                <3>1. ASSUME NEW n \in DOMAIN r, u = r[n] PROVE u \in Range(s) /\ u # t
                      <4>1. p(n) \in DOMAIN s /\ u = s[p(n)] /\ p(n) # i /\ i \in DOMAIN s
                            BY <1>1, <2>4, <2>6, <2>7, <3>1
                      <4> QED BY <2>4, <4>1 DEF Once, Range
                <3>2. ASSUME NEW k \in DOMAIN s, u = s[k], u # t PROVE u \in Range(r)
                      <4>1. k \in 1 .. Len(s) /\ k # i
                            BY <1>1, <2>4, <3>2
                      <4>2. PICK n \in 1 .. Len(s) - 1 : p(n) = k
                            BY <2>9, <4>1
                      <4>3. n \in DOMAIN r /\ r[n] = u
                            BY <2>6, <2>7, <3>2, <4>2
                      <4> QED BY <4>3 DEF Range
                <3> QED BY <3>1, <3>2 DEF Range
          <2> QED BY <2>5, <2>10, <2>11, <2>12
    <1> QED BY <1>2, <1>3

\* event_timeout_add keeps a list in order.
LEMMA PlacedFacts ==
    ASSUME UnitsAssumption, NEW T, NEW s \in Seq(T), NEW t \in T, NEW due \in Timeval,
           NEW of \in [T -> Timeval], Once(s), InOrder(s, of), t \notin Range(s),
           NEW r, r = Placed(s, of, t, due), NEW new, new = [of EXCEPT ![t] = due]
    PROVE  r \in Seq(T) /\ Once(r) /\ InOrder(r, new)
    <1> DEFINE later == {n \in DOMAIN s : tv_diff(of[s[n]], due) > 0}
               all == later \cup {Len(s) + 1}
               i == Min(all)
               p(n) == IF n < i THEN n ELSE n - 1
    <1>1. Len(s) \in Nat /\ DOMAIN s = 1 .. Len(s) /\ \A n \in 1 .. Len(s) : s[n] \in T
          BY ElementOfSeq
    <1>2. \A n \in 1 .. Len(s) : s[n] # t
          BY <1>1 DEF Range
    <1>3. all \subseteq 1 .. Len(s) + 1 /\ all # {}
          BY <1>1
    <1>4. i \in 1 .. Len(s) + 1 /\ i \in all /\ \A n \in all : i <= n
          <2> HIDE DEF all
          <2>1. all \subseteq Nat
                BY <1>1, <1>3
          <2> QED BY <1>3, <2>1, MinFacts
    <1>5. \A n \in 1 .. Len(s) : of[s[n]] \in Timeval /\ new[s[n]] = of[s[n]]
          BY <1>1, <1>2
    <1>6. new[t] = due
          OBVIOUS
    <1>7. \A n \in 1 .. Len(s) : n < i => Before(of[s[n]], due)
          <2> SUFFICES ASSUME NEW n \in 1 .. Len(s), n < i PROVE Before(of[s[n]], due)
              OBVIOUS
          <2>1. n \notin all /\ n \in DOMAIN s
                <3> HIDE DEF i, all
                <3> QED BY <1>1, <1>4
          <2>2. /\ tv_diff(of[s[n]], due) \in Int
                /\ tv_diff(of[s[n]], due) <= 0 <=> Before(of[s[n]], due)
                BY <1>5, tv_diffFacts
          <2> QED BY <2>1, <2>2
    <1>8. i <= Len(s) => ~Before(of[s[i]], due) /\ Before(due, of[s[i]])
          <2> SUFFICES ASSUME i <= Len(s)
                       PROVE  ~Before(of[s[i]], due) /\ Before(due, of[s[i]])
              OBVIOUS
          <2>1. i \in 1 .. Len(s) /\ tv_diff(of[s[i]], due) > 0
                <3> HIDE DEF i, later
                <3>1. i # Len(s) + 1 /\ i \in 1 .. Len(s)
                      BY <1>1, <1>4
                <3>2. i \in later
                      BY <1>4, <3>1
                <3> QED BY <3>1, <3>2 DEF later
          <2> DEFINE a == of[s[i]]
          <2>2. a \in Timeval /\ tv_diff(a, due) > 0
                BY <1>5, <2>1
          <2> HIDE DEF a
          <2>3. /\ tv_diff(a, due) \in Int /\ tv_diff(due, a) = -tv_diff(a, due)
                /\ tv_diff(a, due) <= 0 <=> Before(a, due)
                /\ tv_diff(due, a) <= 0 <=> Before(due, a)
                BY <2>2, tv_diffFacts
          <2> QED BY <2>2, <2>3 DEF a
    <1>9. r = InsertAt(s, i, t)
          BY DEF Placed
    <1> HIDE DEF i, all
    <1>10. /\ r \in Seq(T) /\ Len(r) = Len(s) + 1
          /\ \A n \in 1 .. Len(s) + 1 :
                r[n] = IF n < i THEN s[n] ELSE IF n = i THEN t ELSE s[n - 1]
          <2>1. /\ InsertAt(s, i, t) \in Seq(T) /\ Len(InsertAt(s, i, t)) = Len(s) + 1
                /\ \A n \in 1 .. Len(s) + 1 :
                      InsertAt(s, i, t)[n] = IF n < i THEN s[n] ELSE IF n = i THEN t ELSE s[n - 1]
                BY <1>4, InsertAtFacts
          <2> QED BY <1>9, <2>1
    <1>11. DOMAIN r = 1 .. Len(s) + 1
          BY <1>10
    <1>12. r[i] = t
          BY <1>4, <1>10
    <1>13. \A n \in 1 .. Len(s) + 1 : n # i =>
             p(n) \in 1 .. Len(s) /\ r[n] = s[p(n)] /\ (n < i <=> p(n) < i)
          BY <1>1, <1>4, <1>10
    <1>14. \A m, n \in 1 .. Len(s) + 1 : (m # i /\ n # i) =>
             (m < n => p(m) < p(n)) /\ (p(m) = p(n) => m = n)
          BY <1>1, <1>4
    <1> HIDE DEF p
    <1>15. Once(r)
          BY <1>1, <1>2, <1>11, <1>12, <1>13, <1>14 DEF Once
    <1>16. ASSUME NEW m \in 1 .. Len(s) + 1, NEW n \in 1 .. Len(s) + 1, m < n
           PROVE  Before(new[r[m]], new[r[n]])
          <2>1. CASE m = i
                <3>1. n # i /\ p(n) \in 1 .. Len(s) /\ r[n] = s[p(n)] /\ ~(p(n) < i)
                      BY <1>4, <1>13, <1>16, <2>1
                <3>2. i \in 1 .. Len(s) /\ (p(n) = i \/ i < p(n))
                      BY <1>1, <1>4, <3>1
                <3>3. CASE p(n) = i
                      BY <1>5, <1>6, <1>8, <1>12, <2>1, <3>1, <3>2, <3>3
                <3>4. CASE i < p(n)
                      <4>1. Before(of[s[i]], of[s[p(n)]])
                            BY <1>1, <3>1, <3>2, <3>4 DEF InOrder
                      <4>2. ~Before(of[s[i]], due)
                            BY <1>8, <3>2
                      <4>3. of[s[i]] \in Timeval /\ of[s[p(n)]] \in Timeval
                            BY <1>5, <3>1, <3>2
                      <4>4. Before(due, of[s[p(n)]])
                            BY <4>1, <4>2, <4>3, BeforeTransfers
                      <4> QED BY <1>5, <1>6, <1>12, <2>1, <3>1, <4>4
                <3> QED BY <3>2, <3>3, <3>4
          <2>2. CASE n = i
                <3>1. m # i /\ p(m) \in 1 .. Len(s) /\ r[m] = s[p(m)] /\ p(m) < i
                      BY <1>4, <1>13, <1>16, <2>2
                <3> QED BY <1>5, <1>6, <1>7, <1>12, <2>2, <3>1
          <2>3. CASE m # i /\ n # i
                <3>1. /\ p(m) \in 1 .. Len(s) /\ r[m] = s[p(m)]
                      /\ p(n) \in 1 .. Len(s) /\ r[n] = s[p(n)] /\ p(m) < p(n)
                      BY <1>13, <1>14, <1>16, <2>3
                <3>2. Before(of[s[p(m)]], of[s[p(n)]])
                      BY <1>1, <3>1 DEF InOrder
                <3> QED BY <1>5, <3>1, <3>2
          <2> QED BY <2>1, <2>2, <2>3
    <1>17. InOrder(r, new)
          BY <1>11, <1>16 DEF InOrder
    <1> QED BY <1>10, <1>15, <1>17

\* And which timeouts the list holds then.
LEMMA PlacedRange ==
    ASSUME NEW T, NEW s \in Seq(T), NEW t \in T, NEW of, NEW due
    PROVE  Range(Placed(s, of, t, due)) = Range(s) \cup {t}
    <1> DEFINE later == {n \in DOMAIN s : tv_diff(of[s[n]], due) > 0}
               all == later \cup {Len(s) + 1}
               i == Min(all)
               r == InsertAt(s, i, t)
               p(n) == IF n < i THEN n ELSE n - 1
    <1>1. Len(s) \in Nat /\ DOMAIN s = 1 .. Len(s)
          OBVIOUS
    <1>2. Placed(s, of, t, due) = r
          BY DEF Placed
    <1>3. all \subseteq 1 .. Len(s) + 1 /\ all # {}
          BY <1>1
    <1>4. i \in 1 .. Len(s) + 1
          <2> HIDE DEF all
          <2>1. all \subseteq Nat
                BY <1>1, <1>3
          <2> QED BY <1>3, <2>1, MinFacts
    <1> HIDE DEF i, all
    <1>5. /\ Len(r) = Len(s) + 1 /\ r \in Seq(T)
          /\ \A n \in 1 .. Len(s) + 1 :
                r[n] = IF n < i THEN s[n] ELSE IF n = i THEN t ELSE s[n - 1]
          BY <1>4, InsertAtFacts
    <1> HIDE DEF r
    <1>6. DOMAIN r = 1 .. Len(s) + 1
          BY <1>5
    <1>7. r[i] = t
          BY <1>4, <1>5
    <1>8. \A n \in 1 .. Len(s) + 1 : n # i => p(n) \in 1 .. Len(s) /\ r[n] = s[p(n)]
          BY <1>1, <1>4, <1>5
    <1>9. \A k \in 1 .. Len(s) : \E n \in 1 .. Len(s) + 1 : r[n] = s[k]
          <2> SUFFICES ASSUME NEW k \in 1 .. Len(s)
                       PROVE  \E n \in 1 .. Len(s) + 1 : r[n] = s[k]
              OBVIOUS
          <2>1. CASE k < i
                <3>1. k \in 1 .. Len(s) + 1 /\ r[k] = s[k]
                      BY <1>1, <1>4, <1>5, <2>1
                <3> QED BY <3>1
          <2>2. CASE ~(k < i)
                <3>1. k + 1 \in 1 .. Len(s) + 1 /\ ~(k + 1 < i) /\ k + 1 # i /\ (k + 1) - 1 = k
                      BY <1>1, <1>4, <2>2
                <3>2. r[k + 1] = s[k]
                      BY <1>5, <3>1
                <3> QED BY <3>1, <3>2
          <2> QED BY <2>1, <2>2
    <1> HIDE DEF p
    <1>10. ASSUME NEW u PROVE u \in Range(r) <=> u \in Range(s) \/ u = t
          <2>1. ASSUME NEW n \in DOMAIN r, u = r[n] PROVE u \in Range(s) \/ u = t
                <3>1. n = i \/ (p(n) \in DOMAIN s /\ u = s[p(n)])
                      BY <1>1, <1>6, <1>8, <2>1
                <3> QED BY <1>7, <2>1, <3>1 DEF Range
          <2>2. ASSUME NEW k \in DOMAIN s, u = s[k] PROVE u \in Range(r)
                BY <1>1, <1>6, <1>9, <2>2 DEF Range
          <2>3. t \in Range(r)
                BY <1>4, <1>6, <1>7 DEF Range
          <2> QED BY <2>1, <2>2, <2>3 DEF Range
    <1>11. Range(r) = Range(s) \cup {t}
          BY <1>10
    <1> QED BY <1>2, <1>11

\* What event_process_timeouts leaves when it takes the head off.
LEMMA TailFacts ==
    ASSUME NEW T, NEW s \in Seq(T), s # <<>>, Once(s), NEW of, InOrder(s, of),
           NEW r, r = Tail(s), NEW h, h = Head(s)
    PROVE  h \in T /\ r \in Seq(T) /\ Once(r) /\ InOrder(r, of)
    <1>1. /\ Len(s) \in Nat \ {0} /\ DOMAIN s = 1 .. Len(s) /\ h = s[1] /\ h \in T
          /\ r \in Seq(T) /\ Len(r) = Len(s) - 1 /\ DOMAIN r = 1 .. Len(s) - 1
          /\ \A n \in 1 .. Len(s) - 1 : r[n] = s[n + 1]
          OBVIOUS
    <1>2. \A n \in 1 .. Len(s) - 1 : n + 1 \in 1 .. Len(s) /\ n + 1 # 1
          BY <1>1
    <1>3. Once(r) /\ InOrder(r, of)
          <2>1. ASSUME NEW m \in 1 .. Len(s) - 1, NEW n \in 1 .. Len(s) - 1
                PROVE  /\ r[m] = r[n] => m = n
                       /\ m < n => Before(of[r[m]], of[r[n]])
                <3>1. /\ m + 1 \in DOMAIN s /\ n + 1 \in DOMAIN s /\ r[m] = s[m + 1] /\ r[n] = s[n + 1]
                      /\ m + 1 = n + 1 => m = n
                      /\ m < n => m + 1 < n + 1
                      BY <1>1, <1>2
                <3> QED BY <3>1 DEF Once, InOrder
          <2> QED BY <1>1, <2>1 DEF Once, InOrder
    <1> QED BY <1>1, <1>3

\* And which timeouts it leaves.
LEMMA TailRange ==
    ASSUME NEW T, NEW s \in Seq(T), s # <<>>, Once(s)
    PROVE  Range(Tail(s)) = Range(s) \ {Head(s)}
    <1> DEFINE r == Tail(s)
               h == Head(s)
    <1>1. /\ Len(s) \in Nat \ {0} /\ DOMAIN s = 1 .. Len(s) /\ h = s[1]
          /\ Len(r) = Len(s) - 1 /\ DOMAIN r = 1 .. Len(s) - 1
          /\ \A n \in 1 .. Len(s) - 1 : r[n] = s[n + 1]
          OBVIOUS
    <1>2. \A n \in 1 .. Len(s) - 1 : n + 1 \in 1 .. Len(s) /\ n + 1 # 1
          BY <1>1
    <1> HIDE DEF r, h
    <1>3. ASSUME NEW u PROVE u \in Range(r) <=> u \in Range(s) /\ u # h
          <2>1. ASSUME NEW n \in DOMAIN r, u = r[n] PROVE u \in Range(s) /\ u # h
                <3>1. n + 1 \in DOMAIN s /\ 1 \in DOMAIN s /\ u = s[n + 1] /\ n + 1 # 1
                      BY <1>1, <1>2, <2>1
                <3> QED BY <1>1, <3>1 DEF Once, Range
          <2>2. ASSUME NEW k \in DOMAIN s, u = s[k], u # h PROVE u \in Range(r)
                <3>1. k - 1 \in 1 .. Len(s) - 1 /\ (k - 1) + 1 = k
                      BY <1>1, <2>2
                <3>2. k - 1 \in DOMAIN r /\ r[k - 1] = u
                      BY <1>1, <2>2, <3>1
                <3> QED BY <3>2 DEF Range
          <2> QED BY <2>1, <2>2 DEF Range
    <1>4. Range(r) = Range(s) \ {h}
          BY <1>3
    <1> QED BY <1>4 DEF r, h

\* The head of the list is before the others, as far as tv_diff tells.
LEMMA HeadFacts ==
    ASSUME UnitsAssumption, NEW T, NEW s \in Seq(T), NEW of \in [T -> Timeval], InOrder(s, of),
           NEW n \in DOMAIN s, NEW h, h = of[Head(s)], NEW k, k = of[s[n]]
    PROVE  s # <<>> /\ h \in Timeval /\ k \in Timeval /\ Before(h, k)
    <1>1. /\ Len(s) \in Nat /\ DOMAIN s = 1 .. Len(s) /\ s # <<>> /\ Head(s) = s[1]
          /\ 1 \in DOMAIN s /\ (n = 1 \/ 1 < n)
          OBVIOUS
    <1>2. h \in Timeval /\ k \in Timeval
          BY <1>1
    <1>3. CASE n = 1
          <2>1. h = k /\ h[1] \in Nat /\ h[2] \in Int
                BY <1>1, <1>2, <1>3 DEF Timeval
          <2> QED BY <1>1, <1>2, <2>1, Units DEF Before
    <1>4. CASE 1 < n
          BY <1>1, <1>2, <1>4 DEF InOrder
    <1> QED BY <1>1, <1>3, <1>4

\* What the difference between the head h and a time n says of another timeout,
\* k: the sleep it allows, and that k is not due when h is not.
LEMMA NextTimeout ==
    ASSUME UnitsAssumption, NEW h \in Timeval, NEW k \in Timeval, Before(h, k), NEW n \in Nat,
           NEW d, d = tv_diff(h, gettime(n))
    PROVE  /\ d \in Int /\ n + Grain * d < TickOf(k) + 2 * Grain
           /\ d > 0 => TickOf(k) > n
    <1> DEFINE v == gettime(n)
    <1>1. v \in Timeval /\ v[2] < Second /\ TickOf(v) = n
          BY gettimeFacts
    <1>2. d = tv_diff(h, v)
          OBVIOUS
    <1> HIDE DEF v
    <1>3. d \in Int /\ (d <= 0 <=> Before(h, v)) /\ Grain * d < TickOf(h) - n + Grain
          BY <1>1, <1>2, tv_diffFacts
    <1>4. TickOf(h) - TickOf(k) < Grain
          BY BeforeTicks
    <1>5. TickOf(h) \in Nat /\ TickOf(k) \in Nat
          BY TickFacts
    <1>6. Grain \in Nat /\ Grain * d \in Int
          BY <1>3, Units
    <1>7. n + Grain * d < TickOf(k) + 2 * Grain
          BY <1>3, <1>4, <1>5, <1>6
    <1>8. ASSUME d > 0 PROVE TickOf(k) > n
          <2>1. ~Before(h, v)
                BY <1>3, <1>8
          <2> QED BY <1>1, <2>1, BeforeNotDue
    <1> QED BY <1>3, <1>7, <1>8

-----------------------------------------------------------------------------
(* The reactor of net_event.c.                                             *)

\* What is known besides the types: each timeout is in the list once at most,
\* the list is in order as far as tv_diff tells, and none of it was due when
\* event_process_timeouts ended.
ListOK ==
    /\ clock \in Nat /\ tv \in Nat
    /\ Once(list) /\ InOrder(list, time)
    /\ pc = "poll" => ~IsDue

Inv == TypeOK /\ ListOK

LEMMA InitInv == NetEventAssumption /\ Init => Inv
    <1> SUFFICES ASSUME NetEventAssumption, Init PROVE Inv
        OBVIOUS
    <1>1. list \in Seq(Timeouts) /\ DOMAIN list = {}
          BY DEF Init
    <1>2. Once(list) /\ InOrder(list, time)
          BY <1>1 DEF Once, InOrder
    <1>3. <<0, 0>> \in Nat \X (0 .. Second)
          BY Units DEF NetEventAssumption
    <1> QED BY <1>1, <1>2, <1>3 DEF NetEventAssumption, Init, Inv, TypeOK, ListOK

\* A call on the timeouts: event_timeout_set or event_timeout_cancel.
LEMMA TimeoutCallInv ==
    ASSUME Inv, pc \in {"setup", "timeout_cb", "fd_cb"},
           list' \in Seq(Timeouts), Once(list'), InOrder(list', time'),
           time' \in [Timeouts -> Timeval],
           UNCHANGED <<registered, flags, freed, interest, ready, clock, tv, pc, cur>>
    PROVE  Inv'
    <1>1. TypeOK'
          BY DEF Inv, TypeOK, Timeval
    <1> QED BY <1>1 DEF Inv, ListOK

\* The calls the program makes.
LEMMA ApiInv == ASSUME NetEventAssumption, Inv, API PROVE Inv'
    <1>0. UnitsAssumption
          BY DEF NetEventAssumption
    <1>1. CASE LoopCancel
          BY <1>1 DEF LoopCancel, Call, fdvars, tmvars, Inv, TypeOK, ListOK
    <1>2. ASSUME NEW f \in Fds, FdDelete(f) PROVE Inv'
          BY <1>2 DEF FdDelete, Call, tmvars, Inv, TypeOK, ListOK
    <1>3. ASSUME NEW f \in Fds, NEW fl \in (SUBSET Flags) \ {{}}, FdAdd(f, fl) PROVE Inv'
          <2>1. fl \in SUBSET Flags /\ fl # {}
                OBVIOUS
          <2>2. /\ flags' \in [Fds -> SUBSET Flags] /\ interest' \in [Fds -> SUBSET Flags]
                /\ registered' \in [Fds -> BOOLEAN]
                BY <1>3, <2>1 DEF FdAdd, Inv, TypeOK
          <2>3. \A g \in Fds : interest'[g] # {} <=> registered'[g]
                BY <1>3, <2>1 DEF FdAdd, Inv, TypeOK
          <2> QED BY <1>3, <2>2, <2>3 DEF FdAdd, Call, tmvars, Inv, TypeOK, ListOK
    <1>4. /\ list \in Seq(Timeouts) /\ Once(list) /\ InOrder(list, time)
          /\ time \in [Timeouts -> Timeval]
          BY DEF Inv, TypeOK, ListOK, Timeval
    <1>5. ASSUME NEW t \in Timeouts
          PROVE  /\ Without(t) \in Seq(Timeouts) /\ Once(Without(t)) /\ InOrder(Without(t), time)
                 /\ Range(Without(t)) = Range(list) \ {t}
          BY <1>4, RemoveFacts DEF Without
    <1>6. ASSUME NEW t \in Timeouts, TimeoutCancel(t) PROVE Inv'
          <2>1. /\ list' = Without(t) /\ time' = time /\ pc \in {"setup", "timeout_cb", "fd_cb"}
                /\ UNCHANGED <<registered, flags, freed, interest, ready, clock, tv, pc, cur>>
                BY <1>6 DEF TimeoutCancel, Call, fdvars
          <2> QED BY <1>4, <1>5, <2>1, TimeoutCallInv
    <1>7. ASSUME NEW t \in Timeouts, NEW ms \in Delays, TimeoutSet(t, ms) PROVE Inv'
          <2> DEFINE due == DueTime(clock, ms)
          <2>1. due \in Timeval
                <3>1. ms \in Nat /\ clock \in Nat
                      BY DEF NetEventAssumption, Inv, ListOK
                <3> QED BY <1>0, <3>1, DueTimeType
          <2>2. /\ list' = Placed(Without(t), time, t, due) /\ time' = [time EXCEPT ![t] = due]
                /\ pc \in {"setup", "timeout_cb", "fd_cb"}
                /\ UNCHANGED <<registered, flags, freed, interest, ready, clock, tv, pc, cur>>
                BY <1>7 DEF TimeoutSet, Inserted, Call, fdvars
          <2> HIDE DEF due
          <2>3. t \notin Range(Without(t))
                BY <1>5
          <2>4. list' \in Seq(Timeouts) /\ Once(list') /\ InOrder(list', time')
                BY <1>0, <1>4, <1>5, <2>1, <2>2, <2>3, PlacedFacts
          <2>5. time' \in [Timeouts -> Timeval]
                BY <1>4, <2>1, <2>2
          <2> QED BY <2>2, <2>4, <2>5, TimeoutCallInv
    <1> QED BY <1>1, <1>2, <1>3, <1>6, <1>7 DEF API

\* event_fetch_events sets a mask to something, or deletes the descriptor.
LEMMA FetchInv == ASSUME NetEventAssumption, Inv, Fetch PROVE Inv'
    <1>1. ASSUME NEW f \in Fds
          PROVE  /\ registered[f] => NewInterest(f) # {} /\ NewInterest(f) \in SUBSET Flags
                 /\ ~registered[f] => NewInterest(f) = {} /\ Reports(f) = {}
          BY DEF NewInterest, Reports, Flags, Inv, TypeOK
    <1> DEFINE failed == {f \in Fds : HUP \in Reports(f)}
    <1>2. /\ registered' = [f \in Fds |-> registered[f] /\ f \notin failed]
          /\ interest' = [f \in Fds |-> IF f \in failed THEN {} ELSE NewInterest(f)]
          /\ freed' \in {freed, freed \cup failed} /\ failed \subseteq Fds
          /\ pc' = "events"
          /\ UNCHANGED <<flags, ready, list, time, event_canclled, clock, tv, calls>>
          BY DEF Fetch, tmvars
    <1> HIDE DEF failed
    <1>3. registered' \in [Fds -> BOOLEAN] /\ interest' \in [Fds -> SUBSET Flags] /\ freed' \subseteq Fds
          BY <1>1, <1>2 DEF Inv, TypeOK
    <1>4. \A f \in Fds : interest'[f] # {} <=> registered'[f]
          BY <1>1, <1>2 DEF Inv, TypeOK
    <1> QED BY <1>2, <1>3, <1>4 DEF Inv, TypeOK, ListOK

\* Firing a timeout takes the first one out.
LEMMA FireInv == ASSUME Inv, Fire PROVE Inv'
    <1>1. list \in Seq(Timeouts) /\ list # <<>> /\ Once(list) /\ InOrder(list, time) /\ list' = Tail(list)
          BY DEF Fire, IsDue, Inv, TypeOK, ListOK
    <1>2. list' \in Seq(Timeouts) /\ Once(list') /\ InOrder(list', time)
          BY <1>1, TailFacts
    <1> QED BY <1>2 DEF Fire, fdvars, Inv, TypeOK, ListOK

LEMMA LoopInv == ASSUME NetEventAssumption, Inv, LoopStep PROVE Inv'
    <1> USE DEF fdvars, tmvars
    <1>1. CASE Turn \/ Ask
          BY <1>1 DEF Turn, Ask, Inv, TypeOK, ListOK
    <1>2. CASE TimeoutsDone
          BY <1>2 DEF TimeoutsDone, IsDue, Inv, TypeOK, ListOK
    <1>3. CASE TimeoutReturn \/ Expire \/ CallFd \/ EventsDone
          BY <1>3 DEF TimeoutReturn, Expire, CallFd, EventsDone, Inv, TypeOK, ListOK
    <1>4. CASE FdReturn
          BY <1>4 DEF FdReturn, Inv, TypeOK, ListOK
    <1> QED BY <1>1, <1>2, <1>3, <1>4, FireInv, FetchInv DEF LoopStep

LEMMA NextInv == NetEventAssumption /\ Inv /\ [Next]_vars => Inv'
    <1> SUFFICES ASSUME NetEventAssumption, Inv, [Next]_vars PROVE Inv'
        OBVIOUS
    <1> USE DEF fdvars, tmvars, IsDue
    <1>1. CASE Tick
          BY <1>1 DEF Tick, Inv, TypeOK, ListOK
    <1>2. CASE \E f \in Fds, x \in Flags \cup {HUP} : Occur(f, x)
          BY <1>2 DEF Occur, Inv, TypeOK, ListOK
    <1>3. CASE UNCHANGED vars
          BY <1>3 DEF vars, Inv, TypeOK, ListOK
    <1> QED BY <1>1, <1>2, <1>3, ApiInv, LoopInv DEF Next

\* The head of the list is before the others, so what the loop learns of it
\* holds of them up to what tv_diff rounds off.
LEMMA SleepLemma == NetEventAssumption /\ Inv => NetNoOverdue
    <1> SUFFICES ASSUME NetEventAssumption, Inv PROVE NoOverdue
        BY DEF Inv, NetNoOverdue
    <1>0. UnitsAssumption
          BY DEF NetEventAssumption
    <1>1. /\ list \in Seq(Timeouts) /\ InOrder(list, time) /\ time \in [Timeouts -> Timeval]
          /\ tv \in Nat /\ DOMAIN list = 1 .. Len(list)
          BY DEF Inv, TypeOK, ListOK, Timeval
    <1>2. ASSUME NEW m \in DOMAIN list, NEW n \in DOMAIN list, m < n
          PROVE  TickOf(time[list[m]]) - TickOf(time[list[n]]) < Grain
          <2>1. time[list[m]] \in Timeval /\ time[list[n]] \in Timeval
                BY <1>1
          <2>2. Before(time[list[m]], time[list[n]])
                BY <1>1, <1>2 DEF InOrder
          <2> QED BY <1>0, <2>1, <2>2, BeforeTicks
    <1>3. ASSUME NEW n \in DOMAIN list
          PROVE  /\ pc = "poll" => TickOf(time[list[n]]) > tv
                 /\ Sleep # -1
                 /\ Sleep = 0 \/ tv + Grain * Sleep < TickOf(time[list[n]]) + 2 * Grain
          <2> DEFINE h == time[Head(list)]
                     k == time[list[n]]
                     d == tv_diff(h, gettime(tv))
          <2>1. list # <<>> /\ h \in Timeval /\ k \in Timeval /\ Before(h, k)
                BY <1>0, <1>1, HeadFacts
          <2>2. /\ IsDue <=> d <= 0
                /\ Sleep = IF d < 0 THEN 0 ELSE d
                BY <2>1 DEF IsDue, Sleep
          <2> HIDE DEF h, k
          <2>3. d \in Int /\ tv + Grain * d < TickOf(k) + 2 * Grain /\ (d > 0 => TickOf(k) > tv)
                BY <1>0, <1>1, <2>1, NextTimeout
          <2> HIDE DEF d
          <2>4. pc = "poll" => TickOf(k) > tv
                BY <2>2, <2>3 DEF Inv, ListOK
          <2>5. Sleep # -1 /\ (Sleep = 0 \/ tv + Grain * Sleep < TickOf(k) + 2 * Grain)
                BY <2>2, <2>3
          <2> QED BY <2>4, <2>5 DEF k
    <1> QED BY <1>2, <1>3 DEF NoOverdue

\* The reactor keeps the pending timeouts in order up to what tv_diff rounds
\* off, leaves none that was due when event_process_timeouts ends and never
\* sleeps two milliseconds past one, whatever callbacks set, set again and
\* cancel, and the epoll set holds exactly the registered descriptors, for any
\* number of them.
THEOREM ReactorNeverOversleeps ==
    ASSUME NetEventAssumption PROVE Spec => []NetNoOverdue
    <1>1. Init => Inv
          BY InitInv
    <1>2. Inv /\ [Next]_vars => Inv'
          BY NextInv
    <1>3. Inv => NetNoOverdue
          BY SleepLemma
    <1> QED BY <1>1, <1>2, <1>3, PTL DEF Spec

-----------------------------------------------------------------------------
(* The select loop.                                                        *)

\* maxfd is no lower than any descriptor in use, whatever was cleared.
MaxfdOK == \A f \in SelFds : in_use[f] => f <= maxfd

SelInv == SelTypeOK /\ MaxfdOK /\ NoLostSignal

-----------------------------------------------------------------------------
\* The loop of sel_clr_fd_handlers finds the highest descriptor in use up to f,
\* or -1.
LEMMA HighestFacts ==
    ASSUME NEW f \in Nat, NEW used
    PROVE  /\ Highest(f, used) \in -1 .. f
           /\ \A g \in 0 .. f : used[g] => g <= Highest(f, used)
    <1> DEFINE S == {-1} \cup {g \in 0 .. f : used[g]}
               D == {f - g : g \in S}
    <1>1. S \subseteq -1 .. f /\ -1 \in S
          OBVIOUS
    <1>2. D \subseteq Nat
          BY <1>1
    <1>3. PICK d \in D : \A e \in D : d <= e
          <2>1. D # {}
                BY <1>1
          <2> HIDE DEF D
          <2> QED BY <1>2, <2>1, LeastNumber
    <1>4. PICK m \in S : d = f - m
          BY <1>3
    <1>5. \A g \in S : m >= g
          <2> TAKE g \in S
          <2>1. f - g \in D
                OBVIOUS
          <2>2. d <= f - g
                BY <1>3, <2>1
          <2> HIDE DEF S, D
          <2> QED BY <1>1, <1>4, <2>2
    <1> HIDE DEF S
    <1>6. Max(S) \in S /\ \A g \in S : Max(S) >= g
          BY <1>5 DEF Max
    <1>7. Highest(f, used) = Max(S)
          BY DEF Highest, S
    <1> QED BY <1>1, <1>6, <1>7 DEF S

LEMMA SelInitInv == SelectorAssumption /\ SelInit => SelInv
    BY DEF SelectorAssumption, SelInit, SelInv, SelTypeOK, MaxfdOK, NoLostSignal,
       SelFds, SelEvents, Signals

\* The calls the program makes.
LEMMA SelApiInv == ASSUME SelectorAssumption, SelInv, SelApi PROVE SelInv'
    <1> USE DEF SelInv, SelCall, sigvars
    <1>1. CASE \E t \in Timers : StopTimer(t) \/ \E ms \in SelTimeouts : StartTimer(t, ms)
          BY <1>1 DEF StopTimer, StartTimer, Started, sel_fdvars, SelTypeOK, MaxfdOK,
             NoLostSignal
    <1>2. ASSUME NEW f \in SelFds, NEW kinds \in SUBSET Kinds, SetHandlers(f, kinds) PROVE SelInv'
          <2>1. SelTypeOK' /\ NoLostSignal'
                BY <1>2 DEF SetHandlers, timers, SelTypeOK, NoLostSignal, SelFds,
                   SelectorAssumption
          <2>2. MaxfdOK'
                BY <1>2 DEF SetHandlers, SelTypeOK, MaxfdOK, SelFds, SelectorAssumption
          <2> QED BY <2>1, <2>2
    <1>3. ASSUME NEW f \in SelFds, ClrHandlers(f) PROVE SelInv'
          <2>1. f \in Nat /\ maxfd \in Int /\ MaxFd \in Nat /\ f <= MaxFd
                BY DEF SelFds, SelTypeOK, SelectorAssumption
          <2>2. /\ Highest(f, in_use') \in -1 .. f
                /\ \A g \in 0 .. f : in_use'[g] => g <= Highest(f, in_use')
                BY <2>1, HighestFacts
          <2>3. SelTypeOK' /\ NoLostSignal'
                BY <1>3, <2>1, <2>2 DEF ClrHandlers, timers, SelTypeOK, NoLostSignal
          <2>4. MaxfdOK'
                <3> SUFFICES ASSUME NEW g \in SelFds, in_use'[g] PROVE g <= maxfd'
                    BY DEF MaxfdOK
                <3>1. in_use[g] /\ g # f
                      BY <1>3 DEF ClrHandlers, SelTypeOK
                <3>2. g <= maxfd /\ g \in Nat
                      BY <3>1 DEF MaxfdOK, SelFds
                <3>3. CASE f = maxfd
                      <4>1. maxfd' = Highest(f, in_use')
                            BY <1>3, <3>3 DEF ClrHandlers
                      <4>2. g \in 0 .. f
                            BY <2>1, <3>2, <3>3
                      <4> QED BY <2>2, <4>1, <4>2
                <3> QED BY <1>3, <3>2, <3>3 DEF ClrHandlers
          <2> QED BY <2>3, <2>4
    <1>4. CASE \E e \in SelEvents : in_use[e[1]] /\ (Enable(e) \/ Disable(e))
          BY <1>4 DEF Enable, Disable, timers, SelTypeOK, MaxfdOK, NoLostSignal
    <1> QED BY <1>1, <1>2, <1>3, <1>4 DEF SelApi

\* The steps of the loop.
LEMMA SelLoopInv == ASSUME SelectorAssumption, SelInv, SelLoopStep PROVE SelInv'
    <1> USE DEF SelInv, Goto, timers, sel_fdvars, sigvars
    <1>1. CASE StartLoop \/ NoTimerDue
          BY <1>1 DEF StartLoop, NoTimerDue, SelTypeOK, MaxfdOK, NoLostSignal
    <1>2. CASE \E t \in Timers : FireTimer(t)
          BY <1>2 DEF FireTimer, SelTypeOK, MaxfdOK, NoLostSignal
    <1>3. CASE TimerReturn
          BY <1>3 DEF TimerReturn, Started, SelTypeOK, MaxfdOK, NoLostSignal,
             SelectorAssumption
    <1>4. CASE Select
          BY <1>4 DEF Select, Watched, SelTypeOK, MaxfdOK, NoLostSignal
    <1>5. CASE ServeFd
          <2>1. /\ sel_pc = "fds" /\ tmp' \subseteq tmp /\ enabled' \subseteq enabled
                /\ sel_pc' \in {"fds", "fd_cb"}
                /\ UNCHANGED <<running, timeout, handle, in_use, maxfd, got, arrived, unseen>>
                BY <1>5 DEF ServeFd
          <2> QED BY <2>1 DEF SelTypeOK, MaxfdOK, NoLostSignal
    <1>6. CASE SelFdReturn \/ FdsDone
          BY <1>6 DEF SelFdReturn, FdsDone, SelTypeOK, MaxfdOK, NoLostSignal
    <1>7. ASSUME NEW s \in Signals, TestSignal(s) \/ NoSignal(s) PROVE SelInv'
          BY <1>7 DEF TestSignal, NoSignal, Test, After, Signals, SelTypeOK,
             MaxfdOK, NoLostSignal
    <1>8. CASE ClearSignal \/ CallSignal \/ SignalReturn
          BY <1>8 DEF ClearSignal, CallSignal, SignalReturn, After, SelTypeOK, MaxfdOK,
             NoLostSignal
    <1> QED BY <1>1, <1>2, <1>3, <1>4, <1>5, <1>6, <1>7, <1>8 DEF SelLoopStep

LEMMA SelNextInv == SelectorAssumption /\ SelInv /\ [SelNext]_sel_vars => SelInv'
    <1> SUFFICES ASSUME SelectorAssumption, SelInv, [SelNext]_sel_vars PROVE SelInv'
        OBVIOUS
    <1> USE DEF timers, sel_fdvars, sigvars
    <1>1. CASE \E s \in Signals : Signal(s)
          BY <1>1 DEF Signal, SelInv, SelTypeOK, MaxfdOK, NoLostSignal
    <1>2. CASE SelTick \/ \E e \in SelEvents : SelOccur(e)
          BY <1>2 DEF SelTick, SelOccur, SelInv, SelTypeOK, MaxfdOK, NoLostSignal
    <1>3. CASE UNCHANGED sel_vars
          BY <1>3 DEF sel_vars, SelInv, SelTypeOK, MaxfdOK, NoLostSignal
    <1> QED BY <1>1, <1>2, <1>3, SelApiInv, SelLoopInv DEF SelNext

\* However callbacks set, clear, enable and disable handlers, select looks at
\* every enabled event of a descriptor in use, though maxfd moves both ways;
\* and a signal that arrives while its flag is tested or cleared, or after its
\* handler was called, is remembered or has a call of its handler to come,
\* for any number of timers, descriptors, calls and signals.
THEOREM SelectorOverlooksNothing ==
    ASSUME SelectorAssumption PROVE SelSpec => []NothingOverlooked
    <1>1. SelInv => NothingOverlooked
          BY DEF SelInv, NothingOverlooked, SelTypeOK, WatchesAll, Watched, MaxfdOK,
             SelEvents
    <1> QED BY <1>1, SelInitInv, SelNextInv, PTL DEF SelSpec

-----------------------------------------------------------------------------
(* The steps of the loop of ubox.                                          *)

\* The types, the order of the list, and what is known between the end of
\* event_process_timeouts and the end of epoll_wait.
UboxInv ==
    /\ UboxTypeOK /\ deadline \in Int
    /\ InOrder(timeout_head, ubox_time)
    /\ ubox_pc = "poll" => ~HeadIsDue
    /\ SleepsNotTooLong

\* event_loop_init sets up an empty list.
LEMMA UboxInitInv == UboxAssumption /\ UboxInit => UboxInv
    <1> SUFFICES ASSUME UboxAssumption, UboxInit PROVE UboxInv
        OBVIOUS
    <1>1. timeout_head = <<>> /\ DOMAIN timeout_head = {} /\ timeout_head \in Seq(UboxTimers)
          BY DEF UboxInit
    <1>2. InOrder(timeout_head, ubox_time) /\ IsInjective(timeout_head) /\ Range(timeout_head) = {}
          BY <1>1 DEF InOrder, IsInjective, Range
    <1>3. Second \in Nat \ {0} /\ EVENT_MAX_EVENTS \in Nat \ {0} /\ UboxMaxTime \in Nat
          BY Units DEF UboxAssumption
    <1>4. <<0, 0>> \in Nat \X (0 .. Second)
          BY <1>3
    <1>5. UboxTypeOK
          BY <1>1, <1>2, <1>3, <1>4 DEF UboxInit, UboxTypeOK
    <1> QED BY <1>2, <1>5 DEF UboxInit, UboxInv, SleepsNotTooLong

\* What a list with these properties gives the type invariant.
LEMMA UboxListType ==
    ASSUME UboxTypeOK
    PROVE  /\ timeout_head \in Seq(UboxTimers) /\ Once(timeout_head)
           /\ Range(timeout_head) = {t \in UboxTimers : pending[t]}
           /\ ubox_time \in [UboxTimers -> Timeval] /\ pending \in [UboxTimers -> BOOLEAN]
    BY DEF UboxTypeOK, Once, IsInjective, Timeval

\* A call on a timeout: event_timeout_set or event_timeout_cancel.
LEMMA UboxTimeoutCallInv ==
    ASSUME UboxAssumption, UboxInv, UserCode,
           timeout_head' \in Seq(UboxTimers), Once(timeout_head'), InOrder(timeout_head', ubox_time'),
           Range(timeout_head') = {t \in UboxTimers : pending'[t]},
           ubox_time' \in [UboxTimers -> Timeval], pending' \in [UboxTimers -> BOOLEAN],
           UNCHANGED <<now, loop, files, readable, hup, fetched>>
    PROVE  UboxInv'
    <1>1. ubox_pc' = ubox_pc /\ ubox_pc \notin {"poll", "wait"}
          BY DEF UserCode, loop
    <1>2. UboxTypeOK'
          BY DEF UboxInv, UboxTypeOK, Once, IsInjective, Timeval, loop, files, fetched
    <1>3. SleepsNotTooLong'
          BY <1>1 DEF SleepsNotTooLong
    <1> QED BY <1>1, <1>2, <1>3 DEF UboxInv, loop

\* event_timeout_cancel.
LEMMA UboxTimeoutCancelInv ==
    ASSUME UboxAssumption, UboxInv, NEW t \in UboxTimers, UboxTimeoutCancel(t)
    PROVE  UboxInv'
    <1>1. /\ timeout_head \in Seq(UboxTimers) /\ Once(timeout_head)
          /\ Range(timeout_head) = {u \in UboxTimers : pending[u]}
          /\ ubox_time \in [UboxTimers -> Timeval] /\ pending \in [UboxTimers -> BOOLEAN]
          /\ InOrder(timeout_head, ubox_time)
          BY UboxListType DEF UboxInv
    <1>2. /\ timeout_head' = UboxWithout(t) /\ pending' = [pending EXCEPT ![t] = FALSE]
          /\ ubox_time' = ubox_time
          /\ UserCode /\ UNCHANGED <<now, loop, files, readable, hup, fetched>>
          BY DEF UboxTimeoutCancel, UboxCall
    <1>3. /\ timeout_head' \in Seq(UboxTimers) /\ Once(timeout_head')
          /\ InOrder(timeout_head', ubox_time)
          /\ Range(timeout_head') = Range(timeout_head) \ {t}
          BY <1>1, <1>2, RemoveFacts DEF UboxWithout
    <1>4. Range(timeout_head') = {u \in UboxTimers : pending'[u]}
          BY <1>1, <1>2, <1>3
    <1>5. pending' \in [UboxTimers -> BOOLEAN]
          BY <1>1, <1>2
    <1> QED BY <1>1, <1>2, <1>3, <1>4, <1>5, UboxTimeoutCallInv

\* event_timeout_set, whether or not the timeout is pending.
LEMMA UboxTimeoutSetInv ==
    ASSUME UboxAssumption, UboxInv, NEW t \in UboxTimers, NEW ms \in Msecs, UboxTimeoutSet(t, ms)
    PROVE  UboxInv'
    <1>1. /\ timeout_head \in Seq(UboxTimers) /\ Once(timeout_head)
          /\ Range(timeout_head) = {u \in UboxTimers : pending[u]}
          /\ ubox_time \in [UboxTimers -> Timeval] /\ pending \in [UboxTimers -> BOOLEAN]
          /\ InOrder(timeout_head, ubox_time)
          BY UboxListType DEF UboxInv
    <1> DEFINE due == DueTime(now, ms)
               s == UboxWithout(t)
    <1>2. due \in Timeval
          <2>1. ms \in Nat /\ now \in Nat
                BY DEF UboxAssumption, UboxInv, UboxTypeOK
          <2> QED BY <2>1, DueTimeType DEF UboxAssumption
    <1>3. /\ timeout_head' = Placed(s, ubox_time, t, due) /\ pending' = [pending EXCEPT ![t] = TRUE]
          /\ ubox_time' = [ubox_time EXCEPT ![t] = due]
          /\ UserCode /\ UNCHANGED <<now, loop, files, readable, hup, fetched>>
          BY DEF UboxTimeoutSet, UboxCall
    <1>4. /\ s \in Seq(UboxTimers) /\ Once(s) /\ InOrder(s, ubox_time)
          /\ Range(s) = Range(timeout_head) \ {t}
          BY <1>1, RemoveFacts DEF UboxWithout
    <1> HIDE DEF due, s
    <1>5. /\ timeout_head' \in Seq(UboxTimers) /\ Once(timeout_head')
          /\ InOrder(timeout_head', ubox_time')
          /\ Range(timeout_head') = Range(s) \cup {t}
          <2>1. t \notin Range(s)
                BY <1>4
          <2>2. UnitsAssumption
                BY DEF UboxAssumption
          <2> DEFINE r == Placed(s, ubox_time, t, due)
                     new == [ubox_time EXCEPT ![t] = due]
          <2>3. ubox_time \in [UboxTimers -> Timeval]
                BY <1>1
          <2>4. r \in Seq(UboxTimers) /\ Once(r) /\ InOrder(r, new)
                BY <1>2, <1>4, <2>1, <2>2, <2>3, PlacedFacts
          <2>5. Range(r) = Range(s) \cup {t}
                BY <1>4, PlacedRange
          <2>6. timeout_head' = r /\ ubox_time' = new
                BY <1>3 DEF r, new
          <2> QED BY <2>4, <2>5, <2>6
    <1>6. Range(timeout_head') = {u \in UboxTimers : pending'[u]}
          BY <1>1, <1>3, <1>4, <1>5
    <1>7. pending' \in [UboxTimers -> BOOLEAN] /\ ubox_time' \in [UboxTimers -> Timeval]
          BY <1>1, <1>2, <1>3
    <1> QED BY <1>3, <1>5, <1>6, <1>7, UboxTimeoutCallInv

\* event_process_timeouts takes the head off the list.
LEMMA FireTimeoutInv == ASSUME UboxAssumption, UboxInv, FireTimeout PROVE UboxInv'
    <1>1. /\ timeout_head \in Seq(UboxTimers) /\ Once(timeout_head)
          /\ Range(timeout_head) = {u \in UboxTimers : pending[u]}
          /\ ubox_time \in [UboxTimers -> Timeval] /\ pending \in [UboxTimers -> BOOLEAN]
          /\ InOrder(timeout_head, ubox_time)
          BY UboxListType DEF UboxInv
    <1>2. /\ timeout_head # <<>> /\ timeout_head' = Tail(timeout_head) /\ ubox_time' = ubox_time
          /\ pending' = [pending EXCEPT ![Head(timeout_head)] = FALSE]
          /\ ubox_pc' = "timeout_cb"
          /\ UNCHANGED <<now, ubox_tv, deadline, event_cancelled, files, readable, hup, fetched>>
          BY DEF FireTimeout, HeadIsDue
    <1> DEFINE s == timeout_head
               r == timeout_head'
               h == Head(timeout_head)
    <1>3. h \in UboxTimers /\ r \in Seq(UboxTimers) /\ Once(r) /\ InOrder(r, ubox_time)
          BY <1>1, <1>2, TailFacts
    <1>4. Range(r) = Range(s) \ {h}
          BY <1>1, <1>2, TailRange
    <1> HIDE DEF s, r, h
    <1>5. pending' \in [UboxTimers -> BOOLEAN] /\ \A u \in UboxTimers : pending'[u] <=> pending[u] /\ u # h
          BY <1>1, <1>2, <1>3 DEF h
    <1>6. Range(r) = {u \in UboxTimers : pending'[u]}
          BY <1>1, <1>4, <1>5 DEF s
    <1>7. UboxTypeOK'
          BY <1>1, <1>2, <1>3, <1>5, <1>6
             DEF UboxInv, UboxTypeOK, Once, IsInjective, Timeval, files, fetched, r
    <1> QED BY <1>2, <1>3, <1>7 DEF UboxInv, SleepsNotTooLong, r

\* event_get_next_timeout: the time to the head of the list is less than two
\* milliseconds longer than the time to any timeout.
LEMMA PollInv == ASSUME UboxAssumption, UboxInv, Poll PROVE UboxInv'
    <1>1. /\ timeout_head \in Seq(UboxTimers) /\ Once(timeout_head)
          /\ Range(timeout_head) = {u \in UboxTimers : pending[u]}
          /\ ubox_time \in [UboxTimers -> Timeval] /\ pending \in [UboxTimers -> BOOLEAN]
          /\ InOrder(timeout_head, ubox_time)
          BY UboxListType DEF UboxInv
    <1> DEFINE h == ubox_time[Head(timeout_head)]
               next == tv_diff(h, gettime(now))
    <1>2. /\ ubox_pc' = "wait" /\ ubox_tv' = now /\ now' = now
          /\ UNCHANGED <<ubox_time, pending, timeout_head, event_cancelled, files, readable, hup, fetched>>
          /\ deadline' = CASE timeout_head = <<>> -> -1
                           [] timeout_head # <<>> /\ next < 0 -> now
                           [] OTHER -> now + Grain * next
          BY DEF Poll, ubox_timers
    <1>3. now \in Nat /\ now \in 0 .. UboxMaxTime
          BY DEF UboxInv, UboxTypeOK, UboxAssumption
    <1>4. UnitsAssumption /\ Grain \in Nat
          BY Units DEF UboxAssumption
    <1>5. ASSUME NEW k \in DOMAIN timeout_head
          PROVE  /\ timeout_head # <<>> /\ next \in Int
                 /\ now + Grain * next < TickOf(ubox_time[timeout_head[k]]) + 2 * Grain
          <2>1. /\ timeout_head # <<>> /\ h \in Timeval /\ ubox_time[timeout_head[k]] \in Timeval
                /\ Before(h, ubox_time[timeout_head[k]])
                BY <1>1, <1>4, HeadFacts
          <2> HIDE DEF h
          <2> QED BY <1>3, <1>4, <2>1, NextTimeout
    <1>6. timeout_head # <<>> => next \in Int
          <2>1. timeout_head # <<>> => 1 \in DOMAIN timeout_head
                BY <1>1
          <2> HIDE DEF next
          <2> QED BY <1>5, <2>1
    <1> HIDE DEF next
    <1>7. /\ timeout_head = <<>> => deadline' = -1
          /\ timeout_head # <<>> /\ next < 0 => deadline' = now
          /\ timeout_head # <<>> /\ ~(next < 0) => deadline' = now + Grain * next
          BY <1>2, Zenon
    <1>8. timeout_head # <<>> /\ ~(next < 0) => Grain * next \in Nat
          BY <1>4, <1>6
    <1>9. deadline' \in Int /\ (timeout_head # <<>> => deadline' # -1)
          BY <1>3, <1>7, <1>8
    <1>10. ASSUME NEW t \in UboxTimers, pending[t]
           PROVE  /\ deadline' # -1
                  /\ deadline' < TickOf(ubox_time[t]) + 2 * Grain \/ deadline' = now
          <2>1. PICK k \in DOMAIN timeout_head : timeout_head[k] = t
                BY <1>1, <1>10 DEF Range
          <2>2. timeout_head # <<>> /\ now + Grain * next < TickOf(ubox_time[t]) + 2 * Grain
                BY <1>5, <2>1
          <2> QED BY <1>7, <1>9, <2>2
    <1>11. SleepsNotTooLong'
          BY <1>2, <1>10 DEF SleepsNotTooLong, TickOf
    <1>12. UboxTypeOK'
          BY <1>2, <1>3 DEF UboxInv, UboxTypeOK, files, fetched
    <1>13. InOrder(timeout_head', ubox_time')
          BY <1>1, <1>2
    <1> QED BY <1>2, <1>9, <1>11, <1>12, <1>13 DEF UboxInv

\* What epoll_wait fills in are descriptors, no more than there is room for.
LEMMA UboxFetchInv == ASSUME UboxAssumption, UboxInv, UboxFetch PROVE UboxInv'
    <1> DEFINE all == epoll \cap (readable \cup hup)
    <1>1. PICK events \in SUBSET all :
            /\ Cardinality(events) = Min({EVENT_MAX_EVENTS, Cardinality(all)})
            /\ \E s \in SetToSeqs(events) :
                 cur_fds' = [i \in DOMAIN cur_fds |->
                                IF i < Cardinality(events) THEN s[i + 1] ELSE cur_fds[i]]
            /\ cur_nfds' = Cardinality(events)
            /\ ubox_registered' = [f \in UboxFds |-> ubox_registered[f] /\ f \notin events \cap hup]
          BY DEF UboxFetch
    <1>2. /\ ubox_pc' = "events"
          /\ UNCHANGED <<now, ubox_time, pending, timeout_head, ubox_tv, deadline, event_cancelled,
                         epoll, readable, hup, cur_fd>>
          BY DEF UboxFetch, ubox_timers
    <1>3. /\ epoll \subseteq UboxFds /\ IsFiniteSet(UboxFds) /\ EVENT_MAX_EVENTS \in Nat \ {0}
          /\ cur_fds \in [0 .. EVENT_MAX_EVENTS - 1 -> UboxFds \cup {NoFd}]
          BY DEF UboxInv, UboxTypeOK, UboxAssumption
    <1>4. all \subseteq UboxFds /\ events \subseteq UboxFds
          BY <1>3
    <1> HIDE DEF all
    <1>5. Cardinality(all) \in Nat /\ Cardinality(events) \in Nat
          <2>1. IsFiniteSet(all) /\ IsFiniteSet(events)
                BY <1>3, <1>4, FS_Subset
          <2> QED BY <2>1, FS_CardinalityType
    <1>6. Cardinality(events) <= EVENT_MAX_EVENTS
          <2> DEFINE S == {EVENT_MAX_EVENTS, Cardinality(all)}
          <2>1. S \subseteq Nat /\ S # {} /\ EVENT_MAX_EVENTS \in S
                BY <1>3, <1>5
          <2> HIDE DEF S
          <2>2. Min(S) <= EVENT_MAX_EVENTS
                BY <2>1, MinFacts
          <2> QED BY <1>1, <2>2 DEF S
    <1>7. cur_fds' \in [0 .. EVENT_MAX_EVENTS - 1 -> UboxFds \cup {NoFd}]
          <2>1. PICK s \in SetToSeqs(events) :
                   cur_fds' = [i \in DOMAIN cur_fds |->
                                  IF i < Cardinality(events) THEN s[i + 1] ELSE cur_fds[i]]
                BY <1>1
          <2>2. s \in [1 .. Cardinality(events) -> events]
                BY DEF SetToSeqs
          <2>3. DOMAIN cur_fds = 0 .. EVENT_MAX_EVENTS - 1
                BY <1>3
          <2>4. ASSUME NEW i \in 0 .. EVENT_MAX_EVENTS - 1
                PROVE  (IF i < Cardinality(events) THEN s[i + 1] ELSE cur_fds[i])
                          \in UboxFds \cup {NoFd}
                <3>1. CASE i < Cardinality(events)
                      <4>1. i + 1 \in 1 .. Cardinality(events)
                            BY <1>5, <3>1
                      <4>2. s[i + 1] \in UboxFds
                            BY <1>4, <2>2, <4>1
                      <4> QED BY <3>1, <4>2
                <3>2. CASE ~(i < Cardinality(events))
                      BY <1>3, <3>2
                <3> QED BY <3>1, <3>2
          <2> QED BY <2>1, <2>3, <2>4
    <1>8. cur_nfds' \in 0 .. EVENT_MAX_EVENTS
          BY <1>1, <1>3, <1>5, <1>6
    <1>9. ubox_registered' \in [UboxFds -> BOOLEAN]
          BY <1>1 DEF UboxInv, UboxTypeOK
    <1>10. UboxTypeOK'
          BY <1>2, <1>7, <1>8, <1>9 DEF UboxInv, UboxTypeOK
    <1> QED BY <1>2, <1>10 DEF UboxInv, SleepsNotTooLong, InOrder

\* The other steps leave the timeouts alone.
LEMMA UboxQuietInv ==
    ASSUME UboxAssumption, UboxInv,
           UNCHANGED <<ubox_time, pending, timeout_head, deadline>>,
           now' \in 0 .. UboxMaxTime, ubox_tv' \in 0 .. now',
           ubox_registered' \in [UboxFds -> BOOLEAN], epoll' \subseteq UboxFds,
           cur_fds' = cur_fds, cur_fd' \in 0 .. EVENT_MAX_EVENTS,
           cur_nfds' \in 0 .. EVENT_MAX_EVENTS,
           ubox_pc' = "poll" => ubox_tv' = ubox_tv /\ (ubox_pc = "poll" \/ ~HeadIsDue),
           ubox_pc' = "wait" => ubox_tv' = ubox_tv /\ ubox_pc = "wait"
    PROVE  UboxInv'
    <1>1. UboxTypeOK'
          BY DEF UboxInv, UboxTypeOK
    <1>2. SleepsNotTooLong'
          BY DEF UboxInv, SleepsNotTooLong, TickOf
    <1>3. ubox_pc' = "poll" => ~HeadIsDue'
          BY DEF UboxInv, HeadIsDue, tv_diff, gettime
    <1> QED BY <1>1, <1>2, <1>3 DEF UboxInv, InOrder

\* Every step keeps the invariant.
LEMMA UboxNextInv == UboxAssumption /\ UboxInv /\ [UboxNext]_ubox_vars => UboxInv'
    <1> SUFFICES ASSUME UboxAssumption, UboxInv, [UboxNext]_ubox_vars PROVE UboxInv'
        OBVIOUS
    <1>1. /\ now \in 0 .. UboxMaxTime /\ ubox_tv \in 0 .. now /\ UboxMaxTime \in Nat
          /\ ubox_registered \in [UboxFds -> BOOLEAN] /\ epoll \subseteq UboxFds
          /\ cur_fds \in [0 .. EVENT_MAX_EVENTS - 1 -> UboxFds \cup {NoFd}]
          /\ cur_fd \in 0 .. EVENT_MAX_EVENTS /\ cur_nfds \in 0 .. EVENT_MAX_EVENTS
          /\ EVENT_MAX_EVENTS \in Nat \ {0}
          BY DEF UboxInv, UboxTypeOK, UboxAssumption
    <1> USE DEF ubox_timers, files, fetched, loop
    <1>2. CASE UNCHANGED ubox_vars
          BY <1>1, <1>2, UboxQuietInv DEF ubox_vars
    <1>3. ASSUME NEW f \in UboxFds, UboxFdAdd(f) \/ UboxFdDelete(f) \/ Arrive(f) \/ Hangup(f)
          PROVE  UboxInv'
          <2>1. /\ UNCHANGED <<ubox_time, pending, timeout_head, deadline, now, ubox_tv, ubox_pc>>
                /\ UNCHANGED <<cur_fds, cur_fd, cur_nfds>>
                BY <1>3 DEF UboxFdAdd, UboxFdDelete, Arrive, Hangup
          <2>2. ubox_registered' \in [UboxFds -> BOOLEAN] /\ epoll' \subseteq UboxFds
                BY <1>1, <1>3 DEF UboxFdAdd, UboxFdDelete, Arrive, Hangup
          <2> QED BY <1>1, <2>1, <2>2, UboxQuietInv
    <1>4. CASE UboxLoopCancel
          BY <1>1, <1>4, UboxQuietInv DEF UboxLoopCancel
    <1>5. CASE Return
          <2>1. ubox_pc' \notin {"poll", "wait"}
                BY <1>5 DEF Return
          <2>2. /\ UNCHANGED <<ubox_time, pending, timeout_head, deadline, now, ubox_tv>>
                /\ UNCHANGED <<ubox_registered, epoll, cur_fds, cur_fd, cur_nfds>>
                BY <1>5 DEF Return
          <2> QED BY <1>1, <2>1, <2>2, UboxQuietInv
    <1>6. CASE LoopDone
          <2>1. /\ ubox_pc' = "done" /\ timeout_head' = <<>> /\ epoll' = {}
                /\ pending' = [t \in UboxTimers |-> FALSE]
                /\ UNCHANGED <<now, ubox_time, ubox_tv, deadline, ubox_registered, fetched>>
                BY <1>6 DEF LoopDone
          <2>2. /\ timeout_head' \in Seq(UboxTimers) /\ DOMAIN timeout_head' = {}
                BY <2>1
          <2>3. /\ IsInjective(timeout_head') /\ InOrder(timeout_head', ubox_time')
                /\ Range(timeout_head') = {}
                BY <2>2 DEF IsInjective, InOrder, Range
          <2>4. UboxTypeOK'
                BY <2>1, <2>2, <2>3 DEF UboxInv, UboxTypeOK
          <2> QED BY <2>1, <2>3, <2>4 DEF UboxInv, SleepsNotTooLong
    <1>7. CASE UboxTick
          <2>1. /\ now' \in 0 .. UboxMaxTime /\ ubox_tv' \in 0 .. now'
                /\ UNCHANGED <<ubox_time, pending, timeout_head, deadline, ubox_tv, ubox_pc>>
                /\ UNCHANGED <<ubox_registered, epoll, cur_fds, cur_fd, cur_nfds>>
                BY <1>1, <1>7 DEF UboxTick
          <2> QED BY <1>1, <2>1, UboxQuietInv
    <1>8. CASE RunHead \/ UboxTimeoutsDone \/ WaitTimeout \/ DispatchOutside \/ UboxEventsDone
          <2>1. /\ UNCHANGED <<ubox_time, pending, timeout_head, deadline, now>>
                /\ UNCHANGED <<ubox_registered, epoll, cur_fds, cur_fd, cur_nfds>>
                BY <1>8 DEF RunHead, UboxTimeoutsDone, WaitTimeout, DispatchOutside, UboxEventsDone
          <2>2. /\ ubox_tv' \in 0 .. now' /\ ubox_pc' # "wait"
                /\ ubox_pc' = "poll" => ubox_tv' = ubox_tv /\ ~HeadIsDue
                BY <1>1, <1>8, <2>1
                   DEF RunHead, UboxTimeoutsDone, WaitTimeout, DispatchOutside, UboxEventsDone
          <2> QED BY <1>1, <2>1, <2>2, UboxQuietInv
    <1>9. CASE Dispatch
          <2>1. /\ UNCHANGED <<ubox_time, pending, timeout_head, deadline, now, ubox_tv>>
                /\ UNCHANGED <<ubox_registered, epoll, cur_fds>>
                /\ ubox_pc' \notin {"poll", "wait"}
                BY <1>9 DEF Dispatch
          <2>2. cur_fd' \in 0 .. EVENT_MAX_EVENTS /\ cur_nfds' \in 0 .. EVENT_MAX_EVENTS
                BY <1>1, <1>9 DEF Dispatch
          <2> QED BY <1>1, <2>1, <2>2, UboxQuietInv
    <1> QED BY <1>2, <1>3, <1>4, <1>5, <1>6, <1>7, <1>8, <1>9, UboxTimeoutSetInv,
               UboxTimeoutCancelInv, FireTimeoutInv, PollInv, UboxFetchInv
            DEF UboxNext, UboxLoopStep

\* The invariant says what NoLoopOversleeps says: the first timeout of the list
\* is before the others, so when it is not due, none is.
LEMMA UboxInvSuffices ==
    ASSUME UboxAssumption, UboxInv
    PROVE  NoLoopOversleeps
    <1>1. /\ timeout_head \in Seq(UboxTimers) /\ Once(timeout_head)
          /\ Range(timeout_head) = {u \in UboxTimers : pending[u]}
          /\ ubox_time \in [UboxTimers -> Timeval]
          /\ InOrder(timeout_head, ubox_time)
          BY UboxListType DEF UboxInv
    <1>2. /\ Len(timeout_head) \in Nat /\ DOMAIN timeout_head = 1 .. Len(timeout_head)
          /\ \A n \in DOMAIN timeout_head : ubox_time[timeout_head[n]] \in Timeval
          BY <1>1
    <1>3. UnitsAssumption
          BY DEF UboxAssumption
    <1>4. OrderedList
          BY <1>1, <1>2, <1>3, BeforeTicks DEF OrderedList, InOrder
    <1>5. ASSUME ubox_pc = "poll", NEW t \in UboxTimers, pending[t]
          PROVE  TickOf(ubox_time[t]) > ubox_tv
          <2> DEFINE h == ubox_time[Head(timeout_head)]
                     k == ubox_time[t]
          <2>1. PICK n \in DOMAIN timeout_head : timeout_head[n] = t
                BY <1>1, <1>5 DEF Range
          <2>2. timeout_head # <<>> /\ h \in Timeval /\ k \in Timeval /\ Before(h, k)
                BY <1>1, <1>3, <2>1, HeadFacts
          <2>3. ~(tv_diff(h, gettime(ubox_tv)) <= 0)
                BY <1>5, <2>2 DEF UboxInv, HeadIsDue
          <2>4. ubox_tv \in Nat
                BY DEF UboxInv, UboxTypeOK, UboxAssumption
          <2> HIDE DEF h, k
          <2>5. /\ tv_diff(h, gettime(ubox_tv)) \in Int
                /\ tv_diff(h, gettime(ubox_tv)) > 0 => TickOf(k) > ubox_tv
                BY <1>3, <2>2, <2>4, NextTimeout
          <2> QED BY <2>3, <2>5 DEF k
    <1>6. NoOverdueTimeout
          BY <1>5 DEF NoOverdueTimeout
    <1> QED BY <1>4, <1>6 DEF UboxInv, NoLoopOversleeps

\* The loop of ubox keeps the pending timeouts in order up to what tv_diff
\* rounds off, leaves none that was due when event_process_timeouts ends, and
\* never tells epoll_wait to sleep two milliseconds past one, for every set of
\* timeouts, descriptors and delays and whatever the callbacks set and cancel.
THEOREM UboxNeverOversleeps ==
    ASSUME UboxAssumption
    PROVE  UboxSpec => []NoLoopOversleeps
    <1>1. UboxInit => UboxInv
          BY UboxInitInv
    <1>2. UboxInv /\ [UboxNext]_ubox_vars => UboxInv'
          BY UboxNextInv
    <1>3. UboxInv => NoLoopOversleeps
          BY UboxInvSuffices
    <1> QED BY <1>1, <1>2, <1>3, PTL DEF UboxSpec
=============================================================================
