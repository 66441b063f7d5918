---------------------------- MODULE SharedProofs ----------------------------
(***************************************************************************)
(* Theorems about three structures that are used while they change: the    *)
(* thread pool of fun_threadpool with one worker, for every capacity of    *)
(* the queue and every number of calls; the timers of timerfd.c with their *)
(* edge-triggered epoll, for every number of timers, descriptors and       *)
(* calls; and the safe list of ubox, for every set of elements, every      *)
(* depth of loops within loops and every number of calls.                  *)
(***************************************************************************)
EXTENDS ThreadPool, TimerMap, SafeList, FiniteSetTheorems, SequenceTheorems,
        WellFoundedInduction, TLAPS

Num(b) == IF b THEN 1 ELSE 0

\* Where the application has stored a task and not yet sent its event.
Adding == Num(app.pc \in {"args", "load", "store", "signal"})

\* Where it has stored a task and size does not count it yet.
Uncounted == Num(app.pc \in {"args", "load", "store"})

\* Where a worker has taken an event and not yet counted the task out, and where
\* it has and has not yet called it.
Popping(w) == Num(worker[w].pc \in {"test", "slot", "head", "load", "store"})
Holding(w) == Num(worker[w].pc \in {"run", "call"})

\* The tasks the worker has taken out.
Taken(w) == Len(executed) + Holding(w)

WorkerRecord == [pc : WorkerPC, fd : Fds, slot : Slots, seen : 0 .. Capacity, task : Task]

\* The types, and what a single worker relies on: the descriptor it read is open
\* until it closes it.
BaseOK(w) ==
    /\ tasks \in [Slots -> Task]
    /\ head \in Slots /\ tail \in Slots
    /\ ready \subseteq Fds
    /\ shutdown \in BOOLEAN
    /\ app \in [pc : AppPC, calls : 0 .. MaxAdds, seen : 0 .. Capacity]
    /\ worker \in [Workers -> WorkerRecord]
    /\ queued \in Seq(Tasks) /\ executed \in Seq(Task) /\ lost \in Nat
    /\ worker[w].pc = "take" => worker[w].fd \in ready
    /\ shutdown <=> app.pc \in {"join", "destroyed"}
    /\ app.pc \in {"fill", "args"} => app.calls >= 1
    /\ Cardinality(ready) + Num(app.pc = "fill") + Adding <= app.calls

\* size stays in its range, although both threads store what they made of an
\* older value: what the application found too small to be full only shrinks,
\* and what the worker found too large to be empty only grows.
RangeOK(w) ==
    /\ size \in 0 .. Capacity
    /\ app.pc \in {"fill", "args", "load"} => size < Capacity
    /\ app.pc = "store" => size <= app.seen /\ app.seen < Capacity
    /\ worker[w].pc \in {"slot", "head", "load"} => size >= 1
    /\ worker[w].pc = "store" => 1 <= worker[w].seen /\ worker[w].seen <= size

\* The tasks stored bound the events sent and with them the slots the worker comes
\* upon.  What is stored and not taken out is counted by size, but for the lost
\* increments, and for as many there is an event on its way, open or in the hands
\* of the worker.
CountOK(w) ==
    /\ Len(executed) + Popping(w) + Holding(w) + Cardinality(ready) + Adding <= Len(queued)
    /\ Len(queued) <= Taken(w) + lost + size + Uncounted
    /\ Len(queued) <= Taken(w) + lost + Cardinality(ready) + Popping(w) + Adding
    /\ lost = 0 => Len(queued) <= Taken(w) + Capacity
    /\ worker[w].pc = "exited" => shutdown /\ size = 0
    /\ app.pc = "destroyed" => worker[w].pc = "exited"

\* The slots are used in turn.
PositionOK(w) ==
    /\ tail = (Len(queued) - Num(app.pc = "args")) % Capacity
    /\ head = (Len(executed) + Num(worker[w].pc \in {"load", "store", "run", "call"})) % Capacity
    /\ worker[w].pc \in {"head", "load", "store", "run", "call"} =>
          worker[w].slot = Len(executed) % Capacity

\* x is the i-th task of the queue, or one stored a number of rounds later.
Later(q, x, i) == \E j \in i .. Len(q) : q[j] = x /\ (j - i) % Capacity = 0

TaskIs(task, i) == Later(queued, task.run, i) /\ Later(queued, task.args, i)

\* Each slot holds a task of its own rounds, the last one stored or, in its second
\* half while that is being stored, the one before.
SlotsOK ==
    /\ \A i \in 1 .. Len(queued) : Later(queued, tasks[SlotOf(i)].run, i)
    /\ \A i \in 1 .. Len(queued) - Num(app.pc = "args") : Later(queued, tasks[SlotOf(i)].args, i)
    /\ app.pc = "args" => Len(queued) >= 1 /\ queued[Len(queued)] = app.calls

RunOK(w) ==
    /\ worker[w].pc = "call" => TaskIs(worker[w].task, Len(executed) + 1)
    /\ \A i \in 1 .. Len(executed) : TaskIs(executed[i], i)

\* As long as no increment was lost, a waiting task is still in its slot.
WaitOK(w) ==
    lost = 0 => \A i \in Taken(w) + 1 .. Len(queued) :
                    /\ tasks[SlotOf(i)].run = queued[i]
                    /\ tasks[SlotOf(i)].args = queued[i] \/ (app.pc = "args" /\ i = Len(queued))

NumbersOK(w) == BaseOK(w) /\ RangeOK(w) /\ CountOK(w)

PoolInv(w) == NumbersOK(w) /\ PositionOK(w) /\ SlotsOK /\ RunOK(w) /\ WaitOK(w)

-----------------------------------------------------------------------------
\* A non-empty set of natural numbers has a least element.
LEMMA LeastNumber ==
    ASSUME NEW S, S \subseteq Nat, S # {}
    PROVE  \E n \in S : \A m \in S : n <= m
    <1>1. PICK n \in S : \A m \in S : ~(<<m, n>> \in OpToRel(<, Nat))
          BY NatLessThanWellFounded, WFMin
    <1>2. ASSUME NEW m \in S PROVE n <= m
          <2>1. ~(<<m, n>> \in {pair \in Nat \X Nat : pair[1] < pair[2]})
                BY <1>1 DEF OpToRel
          <2> QED BY <2>1
    <1> QED BY <1>2

\* The numbers of open descriptors.
LEMMA ReadyFinite ==
    ASSUME NEW S, S \subseteq Fds, MaxAdds \in Nat
    PROVE  IsFiniteSet(S) /\ Cardinality(S) \in Nat /\ Cardinality(S) <= MaxAdds
    <1>1. IsFiniteSet(Fds) /\ Cardinality(Fds) = MaxAdds
          BY FS_Interval DEF Fds
    <1> QED BY <1>1, FS_Subset, FS_CardinalityType

\* eventfd returns a number that was free: there is one, for at most one
\* descriptor is open for every call of threadpool_add.
LEMMA NewFd ==
    ASSUME NEW S, S \subseteq Fds, MaxAdds \in Nat, Cardinality(S) < MaxAdds,
           NEW T, T = S \cup {CHOOSE f \in Fds \ S : \A g \in Fds \ S : f <= g}
    PROVE  T \subseteq Fds /\ Cardinality(T) = Cardinality(S) + 1
    <1> DEFINE n == CHOOSE f \in Fds \ S : \A g \in Fds \ S : f <= g
    <1>1. IsFiniteSet(S) /\ S # Fds
          <2>1. Cardinality(Fds) = MaxAdds
                BY FS_Interval DEF Fds
          <2> QED BY <2>1, ReadyFinite
    <1>2. \E f \in Fds \ S : \A g \in Fds \ S : f <= g
          <2>1. Fds \ S # {}
                BY <1>1
          <2>2. Fds \ S \subseteq Nat
                BY DEF Fds
          <2> QED BY <2>1, <2>2, LeastNumber
    <1>3. n \in Fds \ S
          BY <1>2
    <1> QED BY <1>1, <1>3, FS_AddElement

\* close of an open descriptor.
LEMMA CloseFd ==
    ASSUME NEW S, IsFiniteSet(S), NEW fd \in S, NEW T, T = S \ {fd}
    PROVE  Cardinality(T) = Cardinality(S) - 1
    BY FS_RemoveElement


\* Division with a remainder.
LEMMA DivMod ==
    ASSUME NEW C \in Nat \ {0}, NEW a \in Nat
    PROVE  /\ a \div C \in Nat /\ a % C \in 0 .. C - 1
           /\ a = C * (a \div C) + (a % C)
    <1>1. a \div C \in Nat
          OBVIOUS
    <1>2. a % C \in 0 .. C - 1
          OBVIOUS
    <1>3. a = C * (a \div C) + (a % C)
          OBVIOUS
    <1> QED BY <1>1, <1>2, <1>3

\* Quotient and remainder are unique.
LEMMA ModUnique ==
    ASSUME NEW C \in Nat \ {0}, NEW q \in Nat, NEW r \in 0 .. C - 1
    PROVE  (C * q + r) % C = r
    BY SMTT(30)

\* An index counted on with the modulus at each step.
LEMMA ModNext ==
    ASSUME NEW C \in Nat \ {0}, NEW a \in Nat
    PROVE  (a + 1) % C = ((a % C) + 1) % C
    <1> DEFINE q == a \div C  r == a % C
    <1>1. q \in Nat /\ r \in 0 .. C - 1 /\ a = C * q + r
          BY DivMod
    <1> HIDE DEF q, r
    <1>2. CASE r = C - 1
          <2>1. a + 1 = C * (q + 1) + 0 /\ q + 1 \in Nat /\ 0 \in 0 .. C - 1
                BY <1>1, <1>2
          <2>2. (a + 1) % C = 0
                BY <2>1, ModUnique
          <2>3. (r + 1) % C = 0
                BY <1>2
          <2> QED BY <2>2, <2>3 DEF r
    <1>3. CASE r # C - 1
          <2>1. a + 1 = C * q + (r + 1) /\ r + 1 \in 0 .. C - 1
                BY <1>1, <1>3
          <2>2. (a + 1) % C = r + 1
                BY <1>1, <2>1, ModUnique
          <2>3. (r + 1) % C = r + 1
                BY <2>1
          <2> QED BY <2>2, <2>3 DEF r
    <1> QED BY <1>2, <1>3

\* Places of one slot are whole rounds apart.
LEMMA ModSame ==
    ASSUME NEW C \in Nat \ {0}, NEW a \in Nat, NEW b \in Nat, a <= b, a % C = b % C
    PROVE  (b - a) % C = 0
    <1> DEFINE q == a \div C  s == b \div C  r == a % C
    <1>1. /\ q \in Nat /\ s \in Nat /\ r \in 0 .. C - 1 /\ a = C * q + r
          /\ b = C * s + r
          BY DivMod
    <1> HIDE DEF q, r, s
    <1>2. C * q <= C * s /\ b - a = C * s - C * q
          BY <1>1
    <1>3. q <= s
          <2> SUFFICES ASSUME s < q PROVE FALSE
              BY <1>1
          <2>1. C * q = C * s + C * (q - s) /\ C * (q - s) > 0
                BY <1>1
          <2> QED BY <1>1, <1>2, <2>1
    <1>4. b - a = C * (s - q) + 0 /\ s - q \in Nat /\ 0 \in 0 .. C - 1
          BY <1>1, <1>2, <1>3
    <1> QED BY <1>4, ModUnique

\* Places less than a round apart have different slots.
LEMMA ModNear ==
    ASSUME NEW C \in Nat \ {0}, NEW a \in Nat, NEW b \in Nat, a < b, b < a + C
    PROVE  a % C # b % C
    <1> SUFFICES ASSUME a % C = b % C PROVE FALSE
        OBVIOUS
    <1>1. (b - a) % C = 0
          <2>1. a <= b
                OBVIOUS
          <2> QED BY <2>1, ModSame
    <1>2. b - a \in 1 .. C - 1
          OBVIOUS
    <1>3. \A x \in 1 .. C - 1 : x % C = x
          OBVIOUS
    <1> QED BY <1>1, <1>2, <1>3
-----------------------------------------------------------------------------
(* Types, the range of size and the counts.                                *)

\* What the types say of the numbers involved.
LEMMA Numbers ==
    ASSUME PoolAssumption, NEW w, Workers = {w}, BaseOK(w)
    PROVE  /\ Capacity \in Nat \ {0} /\ MaxAdds \in Nat \ {0}
           /\ app.calls \in Nat /\ app.calls <= MaxAdds /\ app.seen \in 0 .. Capacity
           /\ worker[w].seen \in 0 .. Capacity /\ lost \in Nat
           /\ Len(queued) \in Nat /\ Len(executed) \in Nat
           /\ IsFiniteSet(ready) /\ Cardinality(ready) \in Nat
           /\ app.pc \in AppPC /\ worker[w].pc \in WorkerPC
    <1>1. Capacity \in Nat \ {0} /\ MaxAdds \in Nat \ {0}
          BY DEF PoolAssumption
    <1>2. /\ app.calls \in Nat /\ app.calls <= MaxAdds /\ app.seen \in 0 .. Capacity
          /\ worker[w].seen \in 0 .. Capacity /\ lost \in Nat
          /\ app.pc \in AppPC /\ worker[w].pc \in WorkerPC
          BY <1>1 DEF BaseOK, WorkerRecord
    <1>3. Len(queued) \in Nat /\ Len(executed) \in Nat
          BY DEF BaseOK
    <1> QED BY <1>1, <1>2, <1>3, ReadyFinite DEF BaseOK

\* The initial state.
LEMMA PoolInit == ASSUME PoolAssumption, NEW w, Workers = {w}, Init PROVE PoolInv(w)
    <1>1. Capacity \in Nat \ {0} /\ MaxAdds \in Nat \ {0}
          BY DEF PoolAssumption
    <1>2. 0 \in Slots /\ 1 \in Fds /\ Cleared \in Task
          BY <1>1 DEF Slots, Fds, Cleared, Task
    <1>3. Cardinality({}) = 0
          BY FS_EmptySet
    <1>4. /\ Len(queued) = 0 /\ Len(executed) = 0 /\ worker[w].pc = "wait" /\ app.pc = "idle"
          /\ app.calls = 0 /\ app.seen = 0 /\ ready = {} /\ head = 0 /\ tail = 0 /\ size = 0
          /\ lost = 0 /\ ~shutdown
          BY DEF Init
    <1>5. BaseOK(w)
          <2>1. /\ app \in [pc : AppPC, calls : 0 .. MaxAdds, seen : 0 .. Capacity]
                /\ worker \in [Workers -> WorkerRecord]
                BY <1>1, <1>2 DEF Init, AppPC, WorkerPC, WorkerRecord
          <2>2. tasks \in [Slots -> Task] /\ queued \in Seq(Tasks) /\ executed \in Seq(Task)
                BY <1>2 DEF Init
          <2>3. head \in Slots /\ tail \in Slots /\ ready \subseteq Fds /\ shutdown \in BOOLEAN /\ lost \in Nat
                BY <1>2 DEF Init
          <2> QED BY <1>3, <1>4, <2>1, <2>2, <2>3 DEF BaseOK, Num, Adding
    <1>6. RangeOK(w) /\ CountOK(w)
          BY <1>1, <1>3, <1>4 DEF RangeOK, CountOK, Num, Adding, Uncounted, Popping, Holding, Taken
    <1>7. PositionOK(w)
          <2>1. 0 % Capacity = 0
                BY <1>1
          <2> QED BY <1>4, <2>1 DEF PositionOK, Num
    <1>8. SlotsOK /\ RunOK(w) /\ WaitOK(w)
          BY <1>4 DEF SlotsOK, RunOK, WaitOK, Num, Taken, Holding
    <1> QED BY <1>5, <1>6, <1>7, <1>8 DEF PoolInv, NumbersOK

\* The steps of the application: types.
LEMMA BaseApp ==
    ASSUME PoolAssumption, NEW w, Workers = {w}, BaseOK(w), RangeOK(w), AppStep
    PROVE  BaseOK(w)'
    <1>1. /\ Capacity \in Nat \ {0} /\ MaxAdds \in Nat \ {0}
          /\ app.calls \in Nat /\ app.calls <= MaxAdds /\ Cardinality(ready) \in Nat
          /\ size \in 0 .. Capacity
          BY Numbers DEF RangeOK
    <1> DEFINE R == [pc : AppPC, calls : 0 .. MaxAdds, seen : 0 .. Capacity]
    <1>2. /\ UNCHANGED <<head, worker, executed, lost>>
          /\ app \in R
          BY DEF AppStep, Push, AddBegin, AddRefused, PushFill, PushArgs, PushLoad, PushSize,
                 Signal, Destroy, Joined, BaseOK, queue
    <1> USE DEF BaseOK, Num, Adding, AppPC, queue
    <1>3. CASE AddBegin
          <2>1. /\ app'.calls = app.calls + 1 /\ app'.seen = app.seen /\ app.pc = "idle"
                /\ app'.pc \in {"idle", "fill"} /\ app.calls < MaxAdds /\ app' \in R
                /\ UNCHANGED <<tasks, tail, ready, shutdown, queued>>
                <3>1. PICK next \in {"idle", "fill"} : app' = [app EXCEPT !.calls = @ + 1, !.pc = next]
                      BY <1>3 DEF AddBegin
                <3>2. app.pc = "idle" /\ app.calls + 1 \in 0 .. MaxAdds
                      BY <1>1, <1>3 DEF AddBegin
                <3>3. app' = [pc |-> next, calls |-> app.calls + 1, seen |-> app.seen]
                      BY <1>2, <3>1
                <3>4. next \in AppPC /\ app.seen \in 0 .. Capacity
                      BY <1>2
                <3> QED BY <1>3, <3>2, <3>3, <3>4 DEF AddBegin
          <2> QED BY <1>1, <1>2, <2>1
    <1>4. CASE AddRefused
          <2>1. /\ app'.calls = app.calls + 1 /\ app'.seen = app.seen /\ app.pc = "destroyed"
                /\ app'.pc = "destroyed" /\ app.calls < MaxAdds /\ app' \in R
                /\ UNCHANGED <<tasks, tail, ready, shutdown, queued>>
                BY <1>1, <1>4 DEF AddRefused
          <2> QED BY <1>1, <1>2, <2>1
    <1>5. CASE PushFill
          <2>1. app.calls \in Tasks /\ app.pc = "fill" /\ size # Capacity
                BY <1>1, <1>5 DEF PushFill, Tasks, RangeOK
          <2>2. /\ app'.calls = app.calls /\ app'.pc = "args" /\ app' \in R
                /\ UNCHANGED <<tail, ready, shutdown>>
                BY <1>1, <1>5, <2>1 DEF PushFill
          <2>3. /\ tasks' = [tasks EXCEPT ![tail] = [tasks[tail] EXCEPT !.run = app.calls]]
                /\ queued' = Append(queued, app.calls)
                BY <1>5, <2>1 DEF PushFill
          <2>4. [tasks[tail] EXCEPT !.run = app.calls] \in Task
                BY <2>1 DEF Task
          <2>5. tasks' \in [Slots -> Task]
                BY <2>3, <2>4
          <2>6. queued' \in Seq(Tasks)
                BY <2>1, <2>3, AppendProperties
          <2> QED BY <1>1, <1>2, <2>1, <2>2, <2>5, <2>6
    <1>6. CASE PushArgs
          <2>1. app.calls \in Tasks /\ app.pc = "args"
                BY <1>1, <1>6 DEF PushArgs, Tasks
          <2>2. /\ app'.calls = app.calls /\ app'.pc = "load" /\ app' \in R
                /\ UNCHANGED <<ready, shutdown, queued>>
                BY <1>1, <1>6, <2>1 DEF PushArgs
          <2>3. /\ tasks' = [tasks EXCEPT ![tail] = [tasks[tail] EXCEPT !.args = app.calls]]
                /\ tail' = (tail + 1) % Capacity
                BY <1>6, <2>1 DEF PushArgs
          <2>4. [tasks[tail] EXCEPT !.args = app.calls] \in Task
                BY <2>1 DEF Task
          <2>5. tasks' \in [Slots -> Task]
                BY <2>3, <2>4
          <2>6. tail' \in Slots
                <3>1. tail \in Nat
                      BY <1>1 DEF Slots
                <3> HIDE DEF BaseOK
                <3> QED BY <1>1, <2>3, <3>1 DEF Slots
          <2> QED BY <1>1, <1>2, <2>1, <2>2, <2>5, <2>6
    <1>7. CASE PushLoad
          <2>1. /\ app'.calls = app.calls /\ app.pc = "load" /\ app'.pc = "store" /\ app' \in R
                /\ UNCHANGED <<tasks, tail, ready, shutdown, queued>>
                BY <1>1, <1>7 DEF PushLoad
          <2> QED BY <1>1, <1>2, <2>1
    <1>8. CASE PushSize
          <2>1. /\ app'.calls = app.calls /\ app.pc = "store" /\ app'.pc = "signal" /\ app' \in R
                /\ UNCHANGED <<tasks, tail, ready, shutdown, queued>>
                BY <1>1, <1>8 DEF PushSize
          <2> QED BY <1>1, <1>2, <2>1
    <1>9. CASE Signal
          <2>1. Cardinality(ready) < MaxAdds
                BY <1>1, <1>9 DEF Signal
          <2>2. ready' \subseteq Fds /\ Cardinality(ready') = Cardinality(ready) + 1 /\ ready \subseteq ready'
                BY <1>1, <1>9, <2>1, NewFd DEF Signal
          <2>3. /\ app'.pc = "idle" /\ app.pc = "signal" /\ app'.calls = app.calls /\ app' \in R
                /\ UNCHANGED <<tasks, tail, shutdown, queued>>
                BY <1>9 DEF Signal
          <2> QED BY <1>1, <1>2, <2>2, <2>3
    <1>10. CASE Destroy \/ Joined
          <2>1. /\ app.pc \in {"idle", "join"} /\ app'.pc \in {"join", "destroyed"}
                /\ app'.calls = app.calls /\ app' \in R /\ shutdown' = TRUE
                /\ UNCHANGED <<tasks, tail, ready, queued>>
                BY <1>1, <1>10 DEF Destroy, Joined
          <2> QED BY <1>1, <1>2, <2>1
    <1> QED BY <1>3, <1>4, <1>5, <1>6, <1>7, <1>8, <1>9, <1>10 DEF AppStep, Push

\* The steps of the worker: types.
LEMMA BaseWorker ==
    ASSUME PoolAssumption, NEW w, Workers = {w}, BaseOK(w), RangeOK(w), WorkerStep(w)
    PROVE  BaseOK(w)'
    <1>1. /\ Capacity \in Nat \ {0} /\ MaxAdds \in Nat \ {0}
          /\ IsFiniteSet(ready) /\ Cardinality(ready) \in Nat /\ size \in 0 .. Capacity
          /\ app.calls \in Nat /\ lost \in Nat /\ worker[w].seen \in 0 .. Capacity
          BY Numbers DEF RangeOK
    <1>2. /\ UNCHANGED <<tasks, tail, shutdown, app, queued>>
          /\ worker \in [Workers -> WorkerRecord]
          BY DEF WorkerStep, Wake, Take, PopTest, PopSlot, PopHead, PopLoad, PopSize, ReadTask,
                 Run, Check, BaseOK, queue
    <1> DEFINE Rest == /\ ready' = ready /\ worker' \in [Workers -> WorkerRecord]
                       /\ worker'[w].pc # "take" /\ lost' \in Nat
    <1>3. ASSUME Rest, head' \in Slots, executed' \in Seq(Task) PROVE BaseOK(w)'
          BY <1>2, <1>3 DEF BaseOK, Adding
    <1> USE DEF queue, Goto
    <1>4. CASE Wake(w)
          <2>1. PICK fd \in ready : worker' = [worker EXCEPT ![w].pc = "take", ![w].fd = fd]
                BY <1>4 DEF Wake
          <2>2. worker' = [worker EXCEPT ![w] = [worker[w] EXCEPT !.pc = "take", !.fd = fd]]
                BY <2>1
          <2>3. [worker[w] EXCEPT !.pc = "take", !.fd = fd] \in WorkerRecord
                BY <1>2 DEF BaseOK, WorkerRecord, WorkerPC
          <2>4. worker'[w].fd \in ready /\ worker' \in [Workers -> WorkerRecord]
                BY <1>2, <2>2, <2>3 DEF WorkerRecord
          <2> QED BY <1>2, <1>4, <2>4 DEF Wake, BaseOK, Adding
    <1>5. CASE Take(w)
          <2>1. worker[w].fd \in ready /\ ready' = ready \ {worker[w].fd}
                BY <1>5 DEF Take, BaseOK
          <2>2. ready' \subseteq Fds /\ Cardinality(ready') = Cardinality(ready) - 1
                BY <1>1, <2>1, CloseFd DEF BaseOK
          <2>3. worker'[w].pc = "test" /\ worker' \in [Workers -> WorkerRecord]
                BY <1>2, <1>5 DEF Take, WorkerRecord, WorkerPC
          <2>4. UNCHANGED <<head, executed, lost>>
                BY <1>5 DEF Take
          <2>5. Cardinality(ready') + Num(app.pc = "fill") + Adding <= app.calls
                BY <1>1, <2>2 DEF BaseOK, Num, Adding
          <2> QED BY <1>2, <2>2, <2>3, <2>4, <2>5 DEF BaseOK, Adding
    <1>6. CASE PopTest(w) \/ PopSlot(w) \/ PopLoad(w) \/ Check(w)
          <2>1. /\ worker' \in [Workers -> WorkerRecord] /\ worker'[w].pc # "take"
                /\ UNCHANGED <<head, executed, lost, ready>>
                <3>1. CASE PopTest(w)
                      BY <1>2, <3>1 DEF PopTest, WorkerRecord, WorkerPC
                <3>2. CASE PopSlot(w)
                      <4>1. head \in Slots
                            BY DEF BaseOK
                      <4> QED BY <1>2, <3>2, <4>1 DEF PopSlot, WorkerRecord, WorkerPC
                <3>3. CASE PopLoad(w)
                      BY <1>1, <1>2, <3>3 DEF PopLoad, WorkerRecord, WorkerPC
                <3>4. CASE Check(w)
                      BY <1>2, <3>4 DEF Check, WorkerRecord, WorkerPC
                <3> QED BY <1>6, <3>1, <3>2, <3>3, <3>4
          <2> QED BY <1>3, <2>1 DEF BaseOK
    <1>7. CASE PopHead(w)
          <2>1. \A h \in Slots : (h + 1) % Capacity \in Slots
                BY <1>1 DEF Slots
          <2>2. head' \in Slots
                BY <1>2, <1>7, <2>1 DEF PopHead, BaseOK, WorkerRecord
          <2>3. /\ worker' \in [Workers -> WorkerRecord] /\ worker'[w].pc # "take"
                /\ UNCHANGED <<executed, lost, ready>>
                BY <1>2, <1>7 DEF PopHead, WorkerRecord, WorkerPC
          <2> QED BY <1>3, <2>2, <2>3 DEF BaseOK
    <1>8. CASE PopSize(w)
          <2>1. lost' \in Nat
                <3>1. worker[w].seen <= size
                      BY <1>8 DEF PopSize, RangeOK
                <3> QED BY <1>1, <1>8, <3>1 DEF PopSize
          <2>2. /\ worker' \in [Workers -> WorkerRecord] /\ worker'[w].pc # "take"
                /\ UNCHANGED <<head, executed, ready>>
                BY <1>2, <1>8 DEF PopSize, WorkerRecord, WorkerPC
          <2> QED BY <1>3, <2>1, <2>2 DEF BaseOK
    <1>9. CASE ReadTask(w)
          <2>1. tasks[worker[w].slot] \in Task
                BY <1>2 DEF BaseOK, WorkerRecord
          <2>2. /\ worker' \in [Workers -> WorkerRecord] /\ worker'[w].pc # "take"
                /\ UNCHANGED <<head, executed, lost, ready>>
                BY <1>2, <1>9, <2>1 DEF ReadTask, WorkerRecord, WorkerPC
          <2> QED BY <1>3, <2>2 DEF BaseOK
    <1>10. CASE Run(w)
          <2>1. PICK task \in {[run |-> worker[w].task.run, args |-> tasks[worker[w].slot].args],
                               [run |-> tasks[worker[w].slot].run, args |-> worker[w].task.args]} :
                    executed' = Append(executed, task)
                BY <1>10 DEF Run
          <2>2. tasks[worker[w].slot] \in Task /\ worker[w].task \in Task
                BY <1>2 DEF BaseOK, WorkerRecord
          <2>3. task \in Task
                BY <2>1, <2>2 DEF Task
          <2>4. executed' \in Seq(Task)
                BY <2>1, <2>3, AppendProperties DEF BaseOK
          <2>5. /\ worker' \in [Workers -> WorkerRecord] /\ worker'[w].pc # "take"
                /\ UNCHANGED <<head, lost, ready>>
                BY <1>2, <1>10 DEF Run, WorkerRecord, WorkerPC
          <2> QED BY <1>3, <2>4, <2>5 DEF BaseOK
    <1> QED BY <1>4, <1>5, <1>6, <1>7, <1>8, <1>9, <1>10 DEF WorkerStep

\* size stays in its range.
LEMMA RangeNext ==
    ASSUME PoolAssumption, NEW w, Workers = {w}, BaseOK(w), RangeOK(w), AppStep \/ WorkerStep(w)
    PROVE  RangeOK(w)'
    <1>1. /\ Capacity \in Nat \ {0} /\ size \in 0 .. Capacity
          /\ app.seen \in 0 .. Capacity /\ worker[w].seen \in 0 .. Capacity
          BY Numbers DEF RangeOK
    <1>2. /\ worker \in [Workers -> WorkerRecord]
          /\ app \in [pc : AppPC, calls : 0 .. MaxAdds, seen : 0 .. Capacity]
          BY DEF BaseOK
    <1> USE DEF RangeOK, queue, Goto
    <1>3. CASE AddBegin
          <2>1. /\ app'.pc = (IF size = Capacity THEN "idle" ELSE "fill")
                /\ size' = size /\ worker' = worker
                BY <1>2, <1>3 DEF AddBegin
          <2> QED BY <1>1, <2>1
    <1>4. CASE AddRefused \/ Signal \/ Destroy \/ Joined
          <2>1. app'.pc \in {"idle", "join", "destroyed"} /\ size' = size /\ worker' = worker
                BY <1>2, <1>4 DEF AddRefused, Signal, Destroy, Joined
          <2> QED BY <1>1, <2>1
    <1>5. CASE PushFill \/ PushArgs
          <2>1. size < Capacity
                BY <1>1, <1>5 DEF PushFill, PushArgs
          <2>2. app'.pc \in {"args", "load"} /\ size' = size /\ worker' = worker
                BY <1>1, <1>2, <1>5, <2>1 DEF PushFill, PushArgs
          <2> QED BY <1>1, <2>1, <2>2
    <1>6. CASE PushLoad
          <2>1. /\ app'.pc = "store" /\ app'.seen = size /\ size < Capacity
                /\ size' = size /\ worker' = worker
                BY <1>2, <1>6 DEF PushLoad
          <2> QED BY <1>1, <2>1
    <1>7. CASE PushSize
          <2>1. /\ app'.pc = "signal" /\ size' = app.seen + 1 /\ worker' = worker
                /\ size <= app.seen /\ app.seen < Capacity
                BY <1>2, <1>7 DEF PushSize
          <2> QED BY <1>1, <2>1
    <1>8. CASE PopTest(w)
          <2>1. /\ worker'[w].pc = (IF size = 0 THEN "check" ELSE "slot")
                /\ size' = size /\ app' = app
                BY <1>2, <1>8 DEF PopTest
          <2> QED BY <1>1, <2>1
    <1>9. CASE PopSlot(w) \/ PopHead(w)
          <2>1. worker'[w].pc \in {"head", "load"} /\ size' = size /\ app' = app /\ size >= 1
                <3>1. CASE PopSlot(w)
                      BY <1>2, <3>1 DEF PopSlot
                <3>2. CASE PopHead(w)
                      BY <1>2, <3>2 DEF PopHead
                <3> QED BY <1>9, <3>1, <3>2
          <2> QED BY <1>1, <2>1
    <1>10. CASE PopLoad(w)
          <2>1. /\ worker'[w].pc = "store" /\ worker'[w].seen = size /\ size >= 1
                /\ size' = size /\ app' = app
                BY <1>2, <1>10 DEF PopLoad
          <2> QED BY <1>1, <2>1
    <1>11. CASE PopSize(w)
          <2>1. /\ worker'[w].pc = "run" /\ size' = worker[w].seen - 1 /\ app' = app
                /\ 1 <= worker[w].seen /\ worker[w].seen <= size
                BY <1>2, <1>11 DEF PopSize
          <2> QED BY <1>1, <2>1
    <1>12. CASE Wake(w) \/ Take(w) \/ ReadTask(w) \/ Run(w) \/ Check(w)
          <2>1. worker'[w].pc \notin {"slot", "head", "load", "store"} /\ size' = size /\ app' = app
                <3>1. CASE Wake(w)
                      BY <1>2, <3>1 DEF Wake
                <3>2. CASE Take(w)
                      BY <1>2, <3>2 DEF Take
                <3>5. CASE Run(w)
                      BY <1>2, <3>5 DEF Run
                <3>3. CASE ReadTask(w)
                      BY <1>2, <3>3 DEF ReadTask
                <3>4. CASE Check(w)
                      BY <1>2, <3>4 DEF Check
                <3> QED BY <1>12, <3>1, <3>2, <3>3, <3>4, <3>5
          <2> QED BY <1>1, <2>1
    <1> QED BY <1>3, <1>4, <1>5, <1>6, <1>7, <1>8, <1>9, <1>10, <1>11, <1>12
            DEF AppStep, Push, WorkerStep

\* The counts, after steps of the application.
LEMMA CountApp ==
    ASSUME PoolAssumption, NEW w, Workers = {w}, BaseOK(w), RangeOK(w), CountOK(w), AppStep
    PROVE  CountOK(w)'
    <1>1. /\ Capacity \in Nat \ {0} /\ MaxAdds \in Nat \ {0}
          /\ app.calls \in Nat /\ app.calls <= MaxAdds /\ app.seen \in 0 .. Capacity
          /\ size \in 0 .. Capacity /\ lost \in Nat
          /\ Len(queued) \in Nat /\ Len(executed) \in Nat
          /\ Cardinality(ready) \in Nat
          BY Numbers DEF RangeOK
    <1>2. UNCHANGED <<worker, executed, lost>> /\ Taken(w)' = Taken(w)
          BY DEF AppStep, Push, AddBegin, AddRefused, PushFill, PushArgs, PushLoad, PushSize,
                 Signal, Destroy, Joined, Taken, Holding
    <1>3. Taken(w) \in Nat
          BY <1>1 DEF Taken, Holding, Num
    <1>4. app \in [pc : AppPC, calls : 0 .. MaxAdds, seen : 0 .. Capacity]
          BY DEF BaseOK
    <1>5. (shutdown <=> app.pc \in {"join", "destroyed"})
          BY DEF BaseOK
    <1> USE DEF CountOK, Num, Adding, Uncounted, Popping, Holding, queue
    <1>6. CASE AddBegin
          <2>1. /\ app'.pc \in {"idle", "fill"} /\ app.pc = "idle"
                /\ UNCHANGED <<size, queued, ready, shutdown>>
                BY <1>4, <1>6 DEF AddBegin
          <2> QED BY <1>1, <1>2, <1>3, <2>1
    <1>7. CASE AddRefused
          <2>1. app'.pc = "destroyed" /\ app.pc = "destroyed" /\ UNCHANGED <<size, queued, ready, shutdown>>
                BY <1>4, <1>7 DEF AddRefused
          <2> QED BY <1>1, <1>2, <1>3, <2>1
    <1>8. CASE PushFill
          <2>1. app.pc = "fill" /\ size < Capacity
                BY <1>8 DEF PushFill, RangeOK
          <2>2. /\ app'.pc = "args" /\ UNCHANGED <<size, ready, shutdown>>
                /\ queued' = Append(queued, app.calls) /\ app.calls \in Tasks
                <3>1. size # Capacity
                      BY <1>1, <2>1
                <3>2. /\ app'.pc = "args" /\ UNCHANGED <<size, ready, shutdown>>
                      /\ queued' = Append(queued, app.calls)
                      BY <1>4, <1>8, <3>1 DEF PushFill
                <3>3. app.calls \in Tasks
                      BY <1>1, <2>1 DEF Tasks, BaseOK
                <3> QED BY <3>2, <3>3
          <2>3. Len(queued') = Len(queued) + 1
                BY <2>2, AppendProperties DEF BaseOK
          <2>4. /\ Adding = 0 /\ Adding' = 1
                /\ Uncounted = 0
                /\ Uncounted' = 1
                BY <2>1, <2>2
          <2>5. /\ Popping(w) \in Nat /\ Holding(w) \in Nat
                /\ Popping(w)' = Popping(w) /\ Holding(w)' = Holding(w)
                BY <1>2 DEF Num
          <2> HIDE DEF Num, Adding, Uncounted, Popping, Holding
          <2>11. Len(executed') + Popping(w)' + Holding(w)' + Cardinality(ready') + Adding' <= Len(queued')
                BY <1>1, <1>2, <1>3, <1>5, <2>1, <2>2, <2>3, <2>4, <2>5
          <2>12. Len(queued') <= Taken(w)' + lost' + size' + Uncounted'
                BY <1>1, <1>2, <1>3, <1>5, <2>1, <2>2, <2>3, <2>4, <2>5
          <2>13. Len(queued') <= Taken(w)' + lost' + Cardinality(ready') + Popping(w)' + Adding'
                BY <1>1, <1>2, <1>3, <1>5, <2>1, <2>2, <2>3, <2>4, <2>5
          <2>14. lost' = 0 => Len(queued') <= Taken(w)' + Capacity
                BY <1>1, <1>2, <1>3, <1>5, <2>1, <2>2, <2>3, <2>4, <2>5
          <2>15. worker'[w].pc = "exited" => shutdown' /\ size' = 0
                BY <1>1, <1>2, <1>3, <1>5, <2>1, <2>2, <2>3, <2>4, <2>5
          <2>16. app'.pc = "destroyed" => worker'[w].pc = "exited"
                BY <1>1, <1>2, <1>3, <1>5, <2>1, <2>2, <2>3, <2>4, <2>5
          <2> QED BY <2>11, <2>12, <2>13, <2>14, <2>15, <2>16
    <1>9. CASE PushArgs \/ PushLoad
          <2>1. /\ app'.pc \in {"load", "store"} /\ app.pc \in {"args", "load"}
                /\ UNCHANGED <<size, queued, ready, shutdown>>
                BY <1>4, <1>9 DEF PushArgs, PushLoad
          <2> QED BY <1>1, <1>2, <1>3, <2>1
    <1>10. CASE PushSize
          <2>1. /\ app'.pc = "signal" /\ app.pc = "store" /\ size' = app.seen + 1
                /\ size <= app.seen /\ UNCHANGED <<queued, ready, shutdown>>
                BY <1>4, <1>10 DEF PushSize, RangeOK
          <2>2. Adding = 1 /\ Adding' = 1 /\ Uncounted = 1 /\ Uncounted' = 0
                BY <2>1
          <2>3. /\ Popping(w) \in Nat /\ Holding(w) \in Nat
                /\ Popping(w)' = Popping(w) /\ Holding(w)' = Holding(w)
                BY <1>2
          <2>6. /\ Len(executed) + Popping(w) + Holding(w) + Cardinality(ready) + Adding <= Len(queued)
                /\ Len(queued) <= Taken(w) + lost + size + Uncounted
                /\ Len(queued) <= Taken(w) + lost + Cardinality(ready) + Popping(w) + Adding
                /\ lost = 0 => Len(queued) <= Taken(w) + Capacity
                OBVIOUS
          <2>7. /\ Len(queued') = Len(queued) /\ lost' = lost /\ Taken(w)' = Taken(w)
                /\ Cardinality(ready') = Cardinality(ready) /\ Len(executed') = Len(executed)
                BY <1>2, <2>1
          <2>8. /\ size' = app.seen + 1 /\ size <= app.seen
                BY <2>1
          <2> HIDE DEF CountOK, Num, Adding, Uncounted, Popping, Holding
          <2>11. Len(executed') + Popping(w)' + Holding(w)' + Cardinality(ready') + Adding' <= Len(queued')
                BY <1>1, <1>2, <1>3, <1>5, <2>1, <2>2, <2>3, <2>6
          <2>12. Len(queued') <= Taken(w)' + lost' + size' + Uncounted'
                BY <1>1, <1>3, <2>2, <2>6, <2>7, <2>8
          <2>13. Len(queued') <= Taken(w)' + lost' + Cardinality(ready') + Popping(w)' + Adding'
                BY <1>1, <1>2, <1>3, <1>5, <2>1, <2>2, <2>3, <2>6
          <2>14. lost' = 0 => Len(queued') <= Taken(w)' + Capacity
                BY <1>1, <1>2, <1>3, <1>5, <2>1, <2>2, <2>3, <2>6
          <2>15. worker'[w].pc = "exited" => shutdown' /\ size' = 0
                BY <1>2, <1>5, <2>1 DEF CountOK
          <2>16. app'.pc = "destroyed" => worker'[w].pc = "exited"
                BY <1>2, <2>1 DEF CountOK
          <2> QED BY <2>11, <2>12, <2>13, <2>14, <2>15, <2>16 DEF CountOK
    <1>11. CASE Signal
          <2>1. Cardinality(ready) < MaxAdds
                BY <1>1, <1>11 DEF Signal, BaseOK
          <2>2. Cardinality(ready') = Cardinality(ready) + 1
                BY <1>1, <1>11, <2>1, NewFd DEF Signal, BaseOK
          <2>3. /\ app'.pc = "idle" /\ app.pc = "signal"
                /\ UNCHANGED <<size, queued, shutdown>>
                BY <1>4, <1>11 DEF Signal
          <2>4. /\ Adding = 1 /\ Adding' = 0
                /\ Uncounted = 0
                /\ Uncounted' = 0
                BY <2>3
          <2>5. /\ Popping(w) \in Nat /\ Holding(w) \in Nat
                /\ Popping(w)' = Popping(w) /\ Holding(w)' = Holding(w)
                BY <1>2 DEF Num
          <2> HIDE DEF Num, Adding, Uncounted, Popping, Holding
          <2>11. Len(executed') + Popping(w)' + Holding(w)' + Cardinality(ready') + Adding' <= Len(queued')
                BY <1>1, <1>2, <1>3, <2>2, <2>3, <2>4, <2>5
          <2>12. Len(queued') <= Taken(w)' + lost' + size' + Uncounted'
                BY <1>1, <1>2, <1>3, <2>2, <2>3, <2>4, <2>5
          <2>13. Len(queued') <= Taken(w)' + lost' + Cardinality(ready') + Popping(w)' + Adding'
                BY <1>1, <1>2, <1>3, <2>2, <2>3, <2>4, <2>5
          <2>14. lost' = 0 => Len(queued') <= Taken(w)' + Capacity
                BY <1>1, <1>2, <1>3, <2>2, <2>3, <2>4, <2>5
          <2>15. worker'[w].pc = "exited" => shutdown' /\ size' = 0
                BY <1>1, <1>2, <1>3, <2>2, <2>3, <2>4, <2>5
          <2>16. app'.pc = "destroyed" => worker'[w].pc = "exited"
                BY <1>1, <1>2, <1>3, <2>2, <2>3, <2>4, <2>5
          <2> QED BY <2>11, <2>12, <2>13, <2>14, <2>15, <2>16
    <1>12. CASE Destroy
          <2>1. /\ app'.pc = "join" /\ app.pc = "idle" /\ shutdown'
                /\ UNCHANGED <<size, queued, ready>>
                BY <1>4, <1>12 DEF Destroy
          <2> QED BY <1>1, <1>2, <1>3, <2>1
    <1>13. CASE Joined
          <2>1. /\ app'.pc = "destroyed" /\ app.pc = "join" /\ worker[w].pc = "exited"
                /\ UNCHANGED <<size, queued, ready, shutdown>>
                BY <1>4, <1>13 DEF Joined
          <2> QED BY <1>1, <1>2, <1>3, <2>1
    <1> QED BY <1>6, <1>7, <1>8, <1>9, <1>10, <1>11, <1>12, <1>13 DEF AppStep, Push

\* A decrement of a value read earlier loses what was added since.
LEMMA TornSum ==
    ASSUME NEW l \in Nat, NEW n \in Int, NEW seen \in Int, NEW l2, NEW n2,
           n2 = seen - 1, l2 = l + (n - seen)
    PROVE  l2 + n2 = (l + n) - 1
    OBVIOUS

\* The counts, after steps of the worker.
LEMMA CountWorker ==
    ASSUME PoolAssumption, NEW w, Workers = {w}, BaseOK(w), RangeOK(w), CountOK(w), WorkerStep(w)
    PROVE  CountOK(w)'
    <1>1. /\ Capacity \in Nat \ {0} /\ size \in 0 .. Capacity /\ lost \in Nat
          /\ worker[w].seen \in 0 .. Capacity
          /\ Len(queued) \in Nat /\ Len(executed) \in Nat
          /\ IsFiniteSet(ready) /\ Cardinality(ready) \in Nat
          BY Numbers DEF RangeOK
    <1>2. /\ UNCHANGED <<app, queued, shutdown>>
          /\ worker \in [Workers -> WorkerRecord]
          BY DEF WorkerStep, Wake, Take, PopTest, PopSlot, PopHead, PopLoad, PopSize, ReadTask,
                 Run, Check, BaseOK
    <1> USE DEF CountOK, Num, Adding, Uncounted, Popping, Holding, Taken, queue, Goto
    <1>3. CASE Wake(w) \/ PopSlot(w) \/ PopHead(w) \/ PopLoad(w) \/ ReadTask(w)
          <2>1. UNCHANGED <<size, executed, ready, lost>>
                BY <1>3 DEF Wake, PopSlot, PopHead, PopLoad, ReadTask
          <2>2. \/ worker[w].pc = "wait" /\ worker'[w].pc = "take"
                \/ worker[w].pc \in {"slot", "head", "load"} /\ worker'[w].pc \in {"head", "load", "store"}
                \/ worker[w].pc = "run" /\ worker'[w].pc = "call"
                <3>1. CASE Wake(w)
                      BY <1>2, <3>1 DEF Wake
                <3>2. CASE PopSlot(w)
                      BY <1>2, <3>2 DEF PopSlot
                <3>3. CASE PopHead(w)
                      BY <1>2, <3>3 DEF PopHead
                <3>4. CASE PopLoad(w)
                      BY <1>2, <3>4 DEF PopLoad
                <3>5. CASE ReadTask(w)
                      BY <1>2, <3>5 DEF ReadTask
                <3> QED BY <1>3, <3>1, <3>2, <3>3, <3>4, <3>5
          <2> QED BY <1>1, <1>2, <2>1, <2>2
    <1>4. CASE Take(w)
          <2>1. worker[w].fd \in ready /\ ready' = ready \ {worker[w].fd}
                BY <1>4 DEF Take, BaseOK
          <2>2. Cardinality(ready') = Cardinality(ready) - 1
                BY <1>1, <2>1, CloseFd
          <2>3. /\ worker'[w].pc = "test" /\ worker[w].pc = "take"
                /\ UNCHANGED <<size, executed, lost>>
                BY <1>2, <1>4 DEF Take
          <2>4. /\ Popping(w) = 0 /\ Popping(w)' = 1 /\ Holding(w) = 0 /\ Holding(w)' = 0
                /\ Adding \in Nat /\ Adding' = Adding /\ Uncounted \in Nat /\ Uncounted' = Uncounted
                BY <1>2, <2>3
          <2>5. /\ Len(executed) + Popping(w) + Holding(w) + Cardinality(ready) + Adding <= Len(queued)
                /\ Len(queued) <= Len(executed) + Holding(w) + lost + size + Uncounted
                /\ Len(queued) <= Len(executed) + Holding(w) + lost + Cardinality(ready) + Popping(w) + Adding
                /\ lost = 0 => Len(queued) <= Len(executed) + Holding(w) + Capacity
                OBVIOUS
          <2>6. worker'[w].pc # "exited" /\ app.pc # "destroyed"
                BY <2>3
          <2> DEFINE c == Cardinality(ready)
                     d == Cardinality(ready')
                     p == Popping(w)
                     h == Holding(w)
                     a == Adding
                     u == Uncounted
                     e == Len(executed)
                     q == Len(queued)
          <2>7. /\ c \in Nat /\ d = c - 1 /\ p = 0 /\ h = 0 /\ a \in Nat /\ u \in Nat /\ e \in Nat /\ q \in Nat
                /\ e + p + h + c + a <= q /\ q <= e + h + lost + size + u
                /\ q <= e + h + lost + c + p + a /\ (lost = 0 => q <= e + h + Capacity)
                BY <1>1, <2>2, <2>4, <2>5
          <2> HIDE DEF CountOK, Num, Adding, Uncounted, Popping, Holding, Taken, c, d, p, h, a, u, e, q
          <2>8. /\ e + 1 + 0 + d + a <= q /\ q <= e + 0 + lost + size + u
                /\ q <= e + 0 + lost + d + 1 + a /\ (lost = 0 => q <= e + 0 + Capacity)
                <3>1. lost \in Nat /\ size \in Nat /\ Capacity \in Nat
                      BY <1>1
                <3>2. d \in Int
                      BY <2>7
                <3>3. e + 1 + 0 + d + a <= q
                      BY <2>7, <3>2
                <3>4. q <= e + 0 + lost + size + u
                      BY <2>7, <3>1
                <3>5. q <= e + 0 + lost + d + 1 + a
                      BY <2>7, <3>1, <3>2
                <3>6. lost = 0 => q <= e + 0 + Capacity
                      BY <2>7, <3>1
                <3> QED BY <3>3, <3>4, <3>5, <3>6
          <2>9. /\ Len(executed') = e /\ Len(queued') = q /\ Cardinality(ready') = d /\ lost' = lost
                /\ size' = size /\ Popping(w)' = 1 /\ Holding(w)' = 0 /\ Adding' = a /\ Uncounted' = u
                BY <1>2, <2>3, <2>4 DEF d, a, u, e, q
          <2> QED BY <1>2, <2>6, <2>8, <2>9 DEF CountOK, Taken
    <1>5. CASE PopTest(w)
          <2>1. /\ worker'[w].pc = (IF size = 0 THEN "check" ELSE "slot") /\ worker[w].pc = "test"
                /\ UNCHANGED <<size, executed, ready, lost>>
                BY <1>2, <1>5 DEF PopTest
          <2>2. /\ Popping(w) = 1 /\ Holding(w) = 0
                /\ Popping(w)' = (IF size = 0 THEN 0 ELSE 1)
                /\ Holding(w)' = 0
                BY <2>1
          <2>3. /\ Adding \in {0, 1} /\ Adding' = Adding
                /\ Uncounted \in Nat
                /\ Uncounted' = Uncounted
                /\ Uncounted <= Adding
                BY <1>2
          <2>4. Taken(w) = Len(executed) /\ Taken(w)' = Len(executed)
                BY <1>1, <2>1, <2>2
          <2>6. /\ Len(executed) + Popping(w) + Holding(w) + Cardinality(ready) + Adding <= Len(queued)
                /\ Len(queued) <= Taken(w) + lost + size + Uncounted
                /\ Len(queued) <= Taken(w) + lost + Cardinality(ready) + Popping(w) + Adding
                /\ lost = 0 => Len(queued) <= Taken(w) + Capacity
                OBVIOUS
          <2>7. /\ Len(queued') = Len(queued) /\ Cardinality(ready') = Cardinality(ready)
                /\ Len(executed') = Len(executed) /\ lost' = lost /\ size' = size
                BY <1>2, <2>1
          <2> HIDE DEF CountOK, Num, Adding, Uncounted, Popping, Holding, Taken
          <2>11. Len(executed') + Popping(w)' + Holding(w)' + Cardinality(ready') + Adding' <= Len(queued')
                <3>1. Popping(w)' \in 0 .. 1 /\ Holding(w)' = 0 /\ Adding' = Adding /\ Adding \in 0 .. 1
                      BY <2>2, <2>3
                <3>2. Len(executed) + 1 + 0 + Cardinality(ready) + Adding <= Len(queued)
                      BY <2>2, <2>6
                <3>3. Len(executed) \in Nat /\ Cardinality(ready) \in Nat /\ Len(queued) \in Nat
                      BY <1>1
                <3>4. Len(executed) + Popping(w)' + 0 + Cardinality(ready) + Adding <= Len(queued)
                      BY <3>1, <3>2, <3>3
                <3> QED BY <2>7, <3>1, <3>4
          <2>12. Len(queued') <= Taken(w)' + lost' + size' + Uncounted'
                BY <1>1, <2>2, <2>3, <2>4, <2>6, <2>7
          <2>13. Len(queued') <= Taken(w)' + lost' + Cardinality(ready') + Popping(w)' + Adding'
                BY <1>1, <2>2, <2>3, <2>4, <2>6, <2>7
          <2>14. lost' = 0 => Len(queued') <= Taken(w)' + Capacity
                BY <1>1, <2>2, <2>3, <2>4, <2>6, <2>7
          <2>15. worker'[w].pc = "exited" => shutdown' /\ size' = 0
                BY <1>1, <1>2, <2>1, <2>2, <2>3, <2>4, <2>6
          <2>16. app'.pc = "destroyed" => worker'[w].pc = "exited"
                BY <1>1, <1>2, <2>1, <2>2, <2>3, <2>4, <2>6 DEF CountOK
          <2> QED BY <2>11, <2>12, <2>13, <2>14, <2>15, <2>16 DEF CountOK
    <1>6. CASE PopSize(w)
          <2>1. /\ worker'[w].pc = "run" /\ worker[w].pc = "store"
                /\ size' = worker[w].seen - 1 /\ lost' = lost + (size - worker[w].seen)
                /\ worker[w].seen <= size /\ UNCHANGED <<executed, ready>>
                BY <1>2, <1>6 DEF PopSize, RangeOK
          <2>2. /\ Popping(w) = 1 /\ Holding(w) = 0
                /\ Popping(w)' = 0 /\ Holding(w)' = 1
                BY <2>1
          <2>3. /\ Adding \in Nat /\ Adding' = Adding
                /\ Uncounted \in Nat
                /\ Uncounted' = Uncounted
                BY <1>2
          <2>4. Taken(w) = Len(executed) /\ Taken(w)' = Len(executed) + 1
                BY <1>1, <2>1
          <2>6. /\ Len(executed) + Popping(w) + Holding(w) + Cardinality(ready) + Adding <= Len(queued)
                /\ Len(queued) <= Taken(w) + lost + size + Uncounted
                /\ Len(queued) <= Taken(w) + lost + Cardinality(ready) + Popping(w) + Adding
                /\ lost = 0 => Len(queued) <= Taken(w) + Capacity
                OBVIOUS
          <2>8. /\ size' = worker[w].seen - 1 /\ lost' = lost + (size - worker[w].seen)
                /\ worker[w].seen <= size
                BY <2>1
          <2>7. /\ Len(queued') = Len(queued) /\ Cardinality(ready') = Cardinality(ready)
                /\ Len(executed') = Len(executed)
                BY <1>2, <2>1
          <2> HIDE DEF CountOK, Num, Adding, Uncounted, Popping, Holding, Taken
          <2>10. /\ lost \in Nat /\ size \in Int /\ worker[w].seen \in Int
                 /\ Len(queued) \in Nat /\ Len(executed) \in Nat /\ Cardinality(ready) \in Nat
                 /\ Capacity \in Nat
                BY <1>1
          <2>9. lost' + size' = (lost + size) - 1 /\ lost' >= lost /\ lost' \in Nat /\ size' \in Int
                <3>1. lost' >= lost
                      BY <2>8, <2>10
                <3>2. size' \in Int
                      BY <2>8, <2>10
                <3>3. lost' \in Nat
                      BY <2>8, <2>10, <3>1
                <3>4. lost' + size' = (lost + size) - 1
                      <4> DEFINE a == lost  n == size  k == worker[w].seen  b == lost'  m == size'
                      <4>1. a \in Nat /\ n \in Int /\ k \in Int
                            BY <2>10
                      <4>2. m = k - 1 /\ b = a + (n - k)
                            BY <2>8
                      <4> HIDE DEF a, n, k, b, m
                      <4>3. b + m = (a + n) - 1
                            BY <4>1, <4>2, TornSum
                      <4> QED BY <4>3 DEF a, n, b, m
                <3> QED BY <3>1, <3>2, <3>3, <3>4
          <2> DEFINE q == Len(queued)  e == Len(executed)  c == Cardinality(ready)
                     l == lost  l2 == lost'  s == size  s2 == size'  a == Adding  u == Uncounted
          <2>5. /\ q \in Nat /\ e \in Nat /\ c \in Nat /\ l \in Nat /\ l2 \in Nat /\ s \in Int
                /\ s2 \in Int /\ a \in Nat /\ u \in Nat /\ l2 + s2 = (l + s) - 1 /\ l2 >= l
                /\ q <= e + l + s + u /\ q <= e + l + c + 1 + a
                BY <2>2, <2>3, <2>4, <2>6, <2>9, <2>10
          <2>11. Len(executed') + Popping(w)' + Holding(w)' + Cardinality(ready') + Adding' <= Len(queued')
                BY <1>1, <2>2, <2>3, <2>4, <2>6, <2>7, <2>8
          <2>12. Len(queued') <= Taken(w)' + lost' + size' + Uncounted'
                <3>1. q <= e + 1 + l2 + s2 + u
                      <4> HIDE DEF q, e, c, l, l2, s, s2, a, u
                      <4> QED BY <2>5
                <3> QED BY <2>3, <2>4, <2>7, <3>1
          <2>13. Len(queued') <= Taken(w)' + lost' + Cardinality(ready') + Popping(w)' + Adding'
                <3>1. q <= e + 1 + l2 + c + 0 + a
                      <4> HIDE DEF q, e, c, l, l2, s, s2, a, u
                      <4> QED BY <2>5
                <3> QED BY <2>2, <2>3, <2>4, <2>7, <3>1
          <2>14. ASSUME lost' = 0 PROVE Len(queued') <= Taken(w)' + Capacity
                <3>1. lost = 0
                      BY <2>9, <2>10, <2>14
                <3>2. Len(queued) <= Len(executed) + Capacity
                      BY <2>4, <2>6, <3>1
                <3> QED BY <2>4, <2>7, <2>10, <3>2
          <2>15. worker'[w].pc = "exited" => shutdown' /\ size' = 0
                BY <1>1, <1>2, <2>1, <2>2, <2>3, <2>4, <2>6
          <2>16. app'.pc = "destroyed" => worker'[w].pc = "exited"
                BY <1>1, <1>2, <2>1, <2>2, <2>3, <2>4, <2>6 DEF CountOK
          <2> QED BY <2>11, <2>12, <2>13, <2>14, <2>15, <2>16 DEF CountOK
    <1>7. CASE Run(w)
          <2>1. Len(executed') = Len(executed) + 1
                BY <1>7 DEF Run, BaseOK
          <2>2. /\ worker'[w].pc = "check" /\ worker[w].pc = "call"
                /\ UNCHANGED <<size, ready, lost>>
                BY <1>2, <1>7 DEF Run
          <2> QED BY <1>1, <1>2, <2>1, <2>2
    <1>8. CASE Check(w)
          <2>1. /\ worker'[w].pc = (IF shutdown /\ size = 0 THEN "exited" ELSE "wait")
                /\ worker[w].pc = "check" /\ UNCHANGED <<size, executed, ready, lost>>
                BY <1>2, <1>8 DEF Check
          <2> QED BY <1>1, <1>2, <2>1
    <1> QED BY <1>3, <1>4, <1>5, <1>6, <1>7, <1>8 DEF WorkerStep

\* The numbers stay in order.
LEMMA NumbersNext ==
    ASSUME PoolAssumption, NEW w, Workers = {w}, NumbersOK(w), AppStep \/ WorkerStep(w)
    PROVE  NumbersOK(w)'
    BY BaseApp, BaseWorker, RangeNext, CountApp, CountWorker DEF NumbersOK

-----------------------------------------------------------------------------
(* The slots and the order in which the tasks are run.                     *)

\* What is stored later does not take a slot's task away from it.
LEMMA LaterGrows ==
    ASSUME NEW q \in Seq(Tasks), NEW z \in Tasks, NEW x, NEW i \in Nat \ {0}, Later(q, x, i)
    PROVE  Later(Append(q, z), x, i)
    <1>1. PICK j \in i .. Len(q) : q[j] = x /\ (j - i) % Capacity = 0
          BY DEF Later
    <1>2. /\ Len(Append(q, z)) = Len(q) + 1
          /\ \A k \in 1 .. Len(q) : Append(q, z)[k] = q[k]
          BY AppendProperties
    <1>3. Len(q) \in Nat
          OBVIOUS
    <1>4. j \in 1 .. Len(q) /\ j \in i .. Len(Append(q, z))
          BY <1>2, <1>3
    <1>5. Append(q, z)[j] = x
          BY <1>1, <1>2, <1>4
    <1> QED BY <1>1, <1>4, <1>5 DEF Later

\* The slot of a task and those of the tasks a whole number of rounds on.
LEMMA SlotFacts ==
    ASSUME PoolAssumption, NEW n \in Nat \ {0}
    PROVE  /\ SlotOf(n) \in Slots
           /\ SlotOf(n + 1) = (SlotOf(n) + 1) % Capacity
           /\ \A i \in 1 .. n : SlotOf(i) = SlotOf(n) => (n - i) % Capacity = 0
           /\ \A i \in 1 .. n - 1 : n < i + Capacity => SlotOf(i) # SlotOf(n)
    <1>1. Capacity \in Nat \ {0} /\ n - 1 \in Nat
          BY DEF PoolAssumption
    <1>2. SlotOf(n) \in Slots
          BY <1>1, DivMod DEF SlotOf, Slots
    <1>3. SlotOf(n + 1) = (SlotOf(n) + 1) % Capacity
          <2>1. (n - 1) + 1 = n /\ (n + 1) - 1 = n
                OBVIOUS
          <2>2. ((n - 1) + 1) % Capacity = (((n - 1) % Capacity) + 1) % Capacity
                BY <1>1, ModNext
          <2> QED BY <2>1, <2>2 DEF SlotOf
    <1>4. ASSUME NEW i \in 1 .. n, SlotOf(i) = SlotOf(n) PROVE (n - i) % Capacity = 0
          <2>1. i - 1 \in Nat /\ i - 1 <= n - 1 /\ (n - 1) - (i - 1) = n - i
                OBVIOUS
          <2>2. (i - 1) % Capacity = (n - 1) % Capacity
                BY <1>4 DEF SlotOf
          <2>3. ((n - 1) - (i - 1)) % Capacity = 0
                BY <1>1, <2>1, <2>2, ModSame
          <2> QED BY <2>1, <2>3
    <1>5. ASSUME NEW i \in 1 .. n - 1, n < i + Capacity PROVE SlotOf(i) # SlotOf(n)
          <2>1. i - 1 \in Nat /\ i - 1 < n - 1 /\ n - 1 < (i - 1) + Capacity
                BY <1>1, <1>5
          <2> QED BY <1>1, <2>1, ModNear DEF SlotOf
    <1> QED BY <1>2, <1>3, <1>4, <1>5

\* The application fills the slots in turn: the two halves of a task, ...
LEMMA PlaceFill ==
    ASSUME PoolAssumption, NEW w, Workers = {w}, PoolInv(w), PushFill
    PROVE  PositionOK(w)' /\ SlotsOK' /\ RunOK(w)' /\ WaitOK(w)'
    <1> DEFINE n == Len(queued)
    <1>1. /\ Capacity \in Nat \ {0} /\ n \in Nat /\ Len(executed) \in Nat
          /\ size \in 0 .. Capacity /\ app.calls \in Tasks /\ lost \in Nat
          /\ app.pc = "fill" /\ size < Capacity
          <2>1. app.pc = "fill"
                BY DEF PushFill
          <2>2. BaseOK(w) /\ RangeOK(w)
                BY DEF PoolInv, NumbersOK
          <2>3. app.calls \in Tasks
                BY <2>1, <2>2, Numbers DEF BaseOK, Tasks
          <2> QED BY <2>1, <2>2, <2>3, Numbers DEF RangeOK
    <1>2. /\ queued \in Seq(Tasks) /\ tasks \in [Slots -> Task] /\ executed \in Seq(Task)
          /\ app \in [pc : AppPC, calls : 0 .. MaxAdds, seen : 0 .. Capacity]
          BY DEF PoolInv, NumbersOK, BaseOK
    <1>3. /\ tasks' = [tasks EXCEPT ![tail] = [tasks[tail] EXCEPT !.run = app.calls]]
          /\ queued' = Append(queued, app.calls)
          /\ app'.pc = "args" /\ app'.calls = app.calls
          /\ UNCHANGED <<head, tail, worker, executed, lost>>
          BY <1>1, <1>2 DEF PushFill
    <1>4. /\ Len(queued') = n + 1 /\ queued'[n + 1] = app.calls
          /\ \A k \in 1 .. n : queued'[k] = queued[k]
          BY <1>1, <1>2, <1>3, AppendProperties
    <1>5. tail = SlotOf(n + 1) /\ n + 1 \in Nat \ {0} /\ tail \in Slots
          <2>1. n + 1 - 1 = n /\ n - 0 = n
                BY <1>1
          <2>2. tail = (n - Num(app.pc = "args")) % Capacity
                BY DEF PoolInv, PositionOK
          <2>3. Num(app.pc = "args") = 0
                BY <1>1 DEF Num
          <2>4. tail \in Slots
                BY DEF PoolInv, NumbersOK, BaseOK
          <2> QED BY <1>1, <2>1, <2>2, <2>3, <2>4 DEF SlotOf
    <1>6. \A i \in 1 .. n + 1 : SlotOf(i) \in Slots
          BY <1>1, SlotFacts
    <1>7. /\ \A s \in Slots : tasks'[s].args = tasks[s].args
          /\ \A s \in Slots : s # tail => tasks'[s].run = tasks[s].run
          /\ tasks'[tail].run = app.calls
          BY <1>2, <1>3, <1>5 DEF Task
    <1>8. \A x : \A i \in Nat \ {0} : Later(queued, x, i) => Later(queued', x, i)
          BY <1>1, <1>2, <1>3, LaterGrows
    <1>9. PositionOK(w)'
          <2>1. tail' = ((n + 1) - 1) % Capacity
                BY <1>3, <1>5 DEF SlotOf
          <2>2. Num(app.pc = "args")' = 1
                BY <1>3 DEF Num
          <2>3. tail' = (Len(queued') - Num(app.pc = "args")') % Capacity
                BY <1>4, <2>1, <2>2
          <2> QED BY <1>3, <2>3 DEF PoolInv, PositionOK, Num
    <1>10. SlotsOK'
          <2>1. ASSUME NEW i \in 1 .. n + 1 PROVE Later(queued', tasks'[SlotOf(i)].run, i)
                <3>1. CASE SlotOf(i) = tail
                      <4>1. (n + 1 - i) % Capacity = 0
                            BY <1>5, <3>1, SlotFacts
                      <4>2. n + 1 \in i .. Len(queued')
                            BY <1>1, <1>4
                      <4> QED BY <1>4, <1>7, <3>1, <4>1, <4>2 DEF Later
                <3>2. CASE SlotOf(i) # tail
                      <4>1. i \in 1 .. n
                            BY <1>1, <1>5, <3>2
                      <4>2. Later(queued, tasks[SlotOf(i)].run, i)
                            BY <4>1 DEF PoolInv, SlotsOK
                      <4> QED BY <1>6, <1>7, <1>8, <3>2, <4>1, <4>2
                <3> QED BY <3>1, <3>2
          <2>2. ASSUME NEW i \in 1 .. n PROVE Later(queued', tasks'[SlotOf(i)].args, i)
                <3>1. i \in 1 .. n - Num(app.pc = "args") /\ i \in 1 .. n + 1
                      BY <1>1 DEF Num
                <3>2. Later(queued, tasks[SlotOf(i)].args, i)
                      BY <3>1 DEF PoolInv, SlotsOK
                <3> QED BY <1>6, <1>7, <1>8, <3>1, <3>2
          <2>3. Len(queued') - Num(app.pc = "args")' = n /\ Len(queued') >= 1
                BY <1>1, <1>3, <1>4 DEF Num
          <2> QED BY <1>3, <1>4, <2>1, <2>2, <2>3 DEF SlotsOK
    <1>11. RunOK(w)'
          <2>1. \A task : \A i \in Nat \ {0} : TaskIs(task, i) =>
                    Later(queued', task.run, i) /\ Later(queued', task.args, i)
                BY <1>8 DEF TaskIs
          <2>2. Len(executed) + 1 \in Nat \ {0} /\ \A i \in 1 .. Len(executed) : i \in Nat \ {0}
                BY <1>1
          <2> QED BY <1>3, <2>1, <2>2 DEF PoolInv, RunOK, TaskIs
    <1>12. WaitOK(w)'
          <2> SUFFICES ASSUME lost' = 0, NEW i \in Taken(w)' + 1 .. Len(queued')
                       PROVE  /\ tasks'[SlotOf(i)].run = queued'[i]
                              /\ \/ tasks'[SlotOf(i)].args = queued'[i]
                                 \/ app'.pc = "args" /\ i = Len(queued')
              BY DEF WaitOK
          <2>1. Taken(w)' = Taken(w) /\ Taken(w) \in Nat
                BY <1>1, <1>3 DEF Taken, Holding, Num
          <2>2. n < Taken(w) + Capacity
                <3>1. n <= Taken(w) + size
                      <4>1. n <= Taken(w) + lost + size + Uncounted /\ Uncounted = 0 /\ lost = 0
                            BY <1>1, <1>3 DEF PoolInv, NumbersOK, CountOK, Uncounted, Num
                      <4> QED BY <1>1, <2>1, <4>1
                <3> QED BY <1>1, <2>1, <3>1
          <2>3. CASE i = n + 1
                BY <1>3, <1>4, <1>5, <1>7, <2>3
          <2>4. CASE i # n + 1
                <3>1. i \in Taken(w) + 1 .. n /\ i \in 1 .. n
                      BY <1>1, <1>4, <2>1, <2>4
                <3>2. SlotOf(i) # tail
                      <4>1. i \in 1 .. (n + 1) - 1 /\ n + 1 < i + Capacity
                            BY <1>1, <2>1, <2>2, <3>1
                      <4> QED BY <1>5, <4>1, SlotFacts
                <3>3. tasks[SlotOf(i)].run = queued[i] /\ tasks[SlotOf(i)].args = queued[i]
                      BY <1>1, <1>3, <3>1 DEF PoolInv, WaitOK
                <3>4. SlotOf(i) \in Slots
                      BY <1>1, <1>6, <3>1
                <3> QED BY <1>4, <1>7, <3>1, <3>2, <3>3, <3>4
          <2> QED BY <2>3, <2>4
    <1> QED BY <1>9, <1>10, <1>11, <1>12

\* ... one after the other.
LEMMA PlaceArgs ==
    ASSUME PoolAssumption, NEW w, Workers = {w}, PoolInv(w), PushArgs
    PROVE  PositionOK(w)' /\ SlotsOK' /\ RunOK(w)' /\ WaitOK(w)'
    <1> DEFINE n == Len(queued)
    <1>1. /\ Capacity \in Nat \ {0} /\ n \in Nat \ {0} /\ Len(executed) \in Nat
          /\ lost \in Nat /\ app.pc = "args" /\ queued[n] = app.calls
          <2>1. app.pc = "args"
                BY DEF PushArgs
          <2>2. BaseOK(w)
                BY DEF PoolInv, NumbersOK
          <2>3. n >= 1 /\ queued[n] = app.calls
                BY <2>1 DEF PoolInv, SlotsOK
          <2> QED BY <2>1, <2>2, <2>3, Numbers
    <1>2. /\ tasks \in [Slots -> Task]
          /\ app \in [pc : AppPC, calls : 0 .. MaxAdds, seen : 0 .. Capacity]
          BY DEF PoolInv, NumbersOK, BaseOK
    <1>3. /\ tasks' = [tasks EXCEPT ![tail] = [tasks[tail] EXCEPT !.args = app.calls]]
          /\ tail' = (tail + 1) % Capacity
          /\ app'.pc = "load"
          /\ UNCHANGED <<head, queued, worker, executed, lost>>
          BY <1>1, <1>2 DEF PushArgs
    <1>4. tail = SlotOf(n) /\ tail \in Slots
          <2>1. tail = (n - Num(app.pc = "args")) % Capacity /\ Num(app.pc = "args") = 1
                BY <1>1 DEF PoolInv, PositionOK, Num
          <2>2. tail \in Slots
                BY DEF PoolInv, NumbersOK, BaseOK
          <2> QED BY <2>1, <2>2 DEF SlotOf
    <1>5. \A i \in 1 .. n : SlotOf(i) \in Slots
          BY <1>1, SlotFacts
    <1>6. /\ \A s \in Slots : tasks'[s].run = tasks[s].run
          /\ \A s \in Slots : s # tail => tasks'[s].args = tasks[s].args
          /\ tasks'[tail].args = app.calls
          BY <1>2, <1>3, <1>4 DEF Task
    <1>7. PositionOK(w)'
          <2>1. tail' = (n - 0) % Capacity
                <3>1. tail' = SlotOf(n + 1)
                      BY <1>1, <1>3, <1>4, SlotFacts
                <3>2. n + 1 - 1 = n - 0
                      BY <1>1
                <3> QED BY <3>1, <3>2 DEF SlotOf
          <2>2. Num(app.pc = "args")' = 0
                BY <1>3 DEF Num
          <2>3. tail' = (Len(queued') - Num(app.pc = "args")') % Capacity
                BY <1>3, <2>1, <2>2
          <2> QED BY <1>3, <2>3 DEF PoolInv, PositionOK, Num
    <1>8. SlotsOK'
          <2>1. ASSUME NEW i \in 1 .. n PROVE Later(queued, tasks'[SlotOf(i)].args, i)
                <3>1. CASE SlotOf(i) = tail
                      <4>1. (n - i) % Capacity = 0
                            BY <1>1, <1>4, <3>1, SlotFacts
                      <4>2. n \in i .. Len(queued)
                            BY <1>1
                      <4> QED BY <1>1, <1>6, <3>1, <4>1, <4>2 DEF Later
                <3>2. CASE SlotOf(i) # tail
                      <4>1. i \in 1 .. n - Num(app.pc = "args")
                            BY <1>1, <1>4, <3>2 DEF Num
                      <4>2. Later(queued, tasks[SlotOf(i)].args, i)
                            BY <4>1 DEF PoolInv, SlotsOK
                      <4> QED BY <1>5, <1>6, <3>2, <4>2
                <3> QED BY <3>1, <3>2
          <2>2. ASSUME NEW i \in 1 .. n PROVE Later(queued, tasks'[SlotOf(i)].run, i)
                BY <1>5, <1>6 DEF PoolInv, SlotsOK
          <2>3. Len(queued') - Num(app.pc = "args")' = n
                BY <1>1, <1>3 DEF Num
          <2> QED BY <1>3, <2>1, <2>2, <2>3 DEF SlotsOK
    <1>9. RunOK(w)'
          BY <1>3 DEF PoolInv, RunOK, TaskIs
    <1>10. WaitOK(w)'
          <2> SUFFICES ASSUME lost' = 0, NEW i \in Taken(w)' + 1 .. Len(queued')
                       PROVE  /\ tasks'[SlotOf(i)].run = queued'[i]
                              /\ tasks'[SlotOf(i)].args = queued'[i]
              BY DEF WaitOK
          <2>1. Taken(w)' = Taken(w) /\ Taken(w) \in Nat
                BY <1>1, <1>3 DEF Taken, Holding, Num
          <2>2. n <= Taken(w) + Capacity
                BY <1>3 DEF PoolInv, NumbersOK, CountOK
          <2>3. i \in Taken(w) + 1 .. n /\ i \in 1 .. n
                BY <1>1, <1>3, <2>1
          <2>4. /\ tasks[SlotOf(i)].run = queued[i]
                /\ tasks[SlotOf(i)].args = queued[i] \/ i = n
                BY <1>3, <2>3 DEF PoolInv, WaitOK
          <2>5. CASE i = n
                BY <1>1, <1>3, <1>4, <1>6, <2>4, <2>5
          <2>6. CASE i # n
                <3>1. i \in 1 .. n - 1 /\ n < i + Capacity
                      BY <1>1, <2>1, <2>2, <2>3, <2>6
                <3>2. SlotOf(i) # tail
                      BY <1>1, <1>4, <3>1, SlotFacts
                <3> QED BY <1>3, <1>5, <1>6, <2>3, <2>4, <2>6, <3>2
          <2> QED BY <2>5, <2>6
    <1> QED BY <1>7, <1>8, <1>9, <1>10

\* The other steps of the application leave the slots alone.
LEMMA PlaceApp ==
    ASSUME PoolAssumption, NEW w, Workers = {w}, PoolInv(w), AppStep
    PROVE  PositionOK(w)' /\ SlotsOK' /\ RunOK(w)' /\ WaitOK(w)'
    <1>1. CASE PushFill
          BY <1>1, PlaceFill
    <1>2. CASE PushArgs
          BY <1>2, PlaceArgs
    <1>3. CASE ~PushFill /\ ~PushArgs
          <2>1. app \in [pc : AppPC, calls : 0 .. MaxAdds, seen : 0 .. Capacity]
                BY DEF PoolInv, NumbersOK, BaseOK
          <2>2. /\ UNCHANGED <<tasks, head, tail, queued, executed, worker, lost>>
                /\ app.pc # "args" /\ app'.pc # "args"
                BY <1>3, <2>1 DEF AppStep, Push, AddBegin, AddRefused, PushLoad, PushSize, Signal,
                                  Destroy, Joined, queue
          <2>3. PositionOK(w)'
                BY <2>2 DEF PoolInv, PositionOK, Num
          <2>4. SlotsOK'
                BY <2>2 DEF PoolInv, SlotsOK, Num
          <2>5. RunOK(w)'
                BY <2>2 DEF PoolInv, RunOK, TaskIs
          <2>6. WaitOK(w)'
                BY <2>2 DEF PoolInv, WaitOK, Taken, Holding
          <2> QED BY <2>3, <2>4, <2>5, <2>6
    <1> QED BY <1>1, <1>2, <1>3

\* The worker comes upon a filled slot, ...
LEMMA TaskFound ==
    ASSUME PoolAssumption, NEW w, Workers = {w}, PoolInv(w),
           worker[w].pc \in {"run", "call"}
    PROVE  TaskIs(tasks[worker[w].slot], Len(executed) + 1)
    <1> DEFINE i == Len(executed) + 1
    <1>1. /\ Len(queued) \in Nat /\ Len(executed) \in Nat /\ Cardinality(ready) \in Nat
          BY Numbers DEF PoolInv, NumbersOK
    <1>2. i + Cardinality(ready) + Adding <= Len(queued)
          <2>1. Popping(w) = 0 /\ Holding(w) = 1
                BY DEF Popping, Holding, Num
          <2>2. Adding \in Nat
                BY DEF Adding, Num
          <2> QED BY <1>1, <2>1, <2>2 DEF PoolInv, NumbersOK, CountOK
    <1>3. i \in 1 .. Len(queued) /\ i \in 1 .. Len(queued) - Num(app.pc = "args")
          <2>1. Num(app.pc = "args") <= Adding /\ Adding \in Nat /\ Num(app.pc = "args") \in Nat
                BY DEF Adding, Num
          <2> QED BY <1>1, <1>2, <2>1
    <1>4. worker[w].slot = SlotOf(i)
          <2>1. i - 1 = Len(executed)
                BY <1>1
          <2> QED BY <2>1 DEF PoolInv, PositionOK, SlotOf
    <1> QED BY <1>3, <1>4 DEF PoolInv, SlotsOK, TaskIs

\* ... and one slot after another.
LEMMA PlaceWorker ==
    ASSUME PoolAssumption, NEW w, Workers = {w}, PoolInv(w), WorkerStep(w)
    PROVE  PositionOK(w)' /\ SlotsOK' /\ RunOK(w)' /\ WaitOK(w)'
    <1>1. /\ Capacity \in Nat \ {0} /\ Len(queued) \in Nat /\ Len(executed) \in Nat
          /\ lost \in Nat
          BY Numbers DEF PoolInv, NumbersOK
    <1>2. /\ UNCHANGED <<tasks, tail, queued, app>>
          /\ worker \in [Workers -> WorkerRecord]
          BY DEF WorkerStep, Wake, Take, PopTest, PopSlot, PopHead, PopLoad, PopSize, ReadTask,
                 Run, Check, queue, PoolInv, NumbersOK, BaseOK
    <1>3. SlotsOK'
          BY <1>2 DEF PoolInv, SlotsOK, Num
    <1>4. tail' = (Len(queued') - Num(app.pc = "args")') % Capacity
          BY <1>2 DEF PoolInv, PositionOK, Num
    <1>5. ASSUME UNCHANGED <<executed, lost>>, worker'[w].pc # "call",
                 worker[w].pc \notin {"run", "call"}, worker'[w].pc \notin {"run", "call"}
          PROVE  RunOK(w)' /\ WaitOK(w)'
          <2>1. RunOK(w)'
                BY <1>2, <1>5 DEF PoolInv, RunOK, TaskIs
          <2>2. Taken(w)' = Taken(w)
                BY <1>5 DEF Taken, Holding, Num
          <2>3. WaitOK(w)'
                BY <1>2, <1>5, <2>2 DEF PoolInv, WaitOK
          <2> QED BY <2>1, <2>3
    <1> USE DEF Goto, queue
    <1>6. CASE Wake(w) \/ Take(w) \/ PopTest(w) \/ Check(w)
          <2>1. /\ UNCHANGED <<head, executed, lost>>
                /\ worker'[w].pc \notin {"head", "load", "store", "run", "call"}
                /\ worker[w].pc \notin {"head", "load", "store", "run", "call"}
                <3>1. CASE Wake(w)
                      BY <1>2, <3>1 DEF Wake
                <3>2. CASE Take(w)
                      BY <1>2, <3>2 DEF Take
                <3>3. CASE PopTest(w)
                      BY <1>2, <3>3 DEF PopTest
                <3>4. CASE Check(w)
                      BY <1>2, <3>4 DEF Check
                <3> QED BY <1>6, <3>1, <3>2, <3>3, <3>4
          <2>2. PositionOK(w)'
                BY <1>4, <2>1 DEF PoolInv, PositionOK, Num
          <2> QED BY <1>3, <1>5, <2>1, <2>2
    <1>7. CASE PopSlot(w)
          <2>1. /\ UNCHANGED <<head, executed, lost>> /\ worker[w].pc = "slot"
                /\ worker'[w].pc = "head" /\ worker'[w].slot = head
                BY <1>2, <1>7 DEF PopSlot
          <2>2. head = (Len(executed) + 0) % Capacity /\ Len(executed) + 0 = Len(executed)
                BY <1>1, <2>1 DEF PoolInv, PositionOK, Num
          <2>3. PositionOK(w)'
                BY <1>4, <2>1, <2>2 DEF PositionOK, Num
          <2> QED BY <1>3, <1>5, <2>1, <2>3
    <1>8. CASE PopHead(w)
          <2>1. /\ UNCHANGED <<executed, lost>> /\ worker[w].pc = "head"
                /\ worker'[w].pc = "load" /\ worker'[w].slot = worker[w].slot
                /\ \E h \in {head, worker[w].slot} : head' = (h + 1) % Capacity
                BY <1>2, <1>8 DEF PopHead
          <2>2. /\ head = (Len(executed) + 0) % Capacity /\ Len(executed) + 0 = Len(executed)
                /\ worker[w].slot = Len(executed) % Capacity
                BY <1>1, <2>1 DEF PoolInv, PositionOK, Num
          <2>3. head' = (Len(executed) + 1) % Capacity
                BY <1>1, <2>1, <2>2, ModNext
          <2>4. PositionOK(w)'
                BY <1>4, <2>1, <2>2, <2>3 DEF PositionOK, Num
          <2> QED BY <1>3, <1>5, <2>1, <2>4
    <1>9. CASE PopLoad(w)
          <2>1. /\ UNCHANGED <<head, executed, lost>> /\ worker[w].pc = "load"
                /\ worker'[w].pc = "store" /\ worker'[w].slot = worker[w].slot
                BY <1>2, <1>9 DEF PopLoad
          <2>2. PositionOK(w)'
                BY <1>4, <2>1 DEF PoolInv, PositionOK, Num
          <2> QED BY <1>3, <1>5, <2>1, <2>2
    <1>10. CASE PopSize(w)
          <2>1. /\ UNCHANGED <<head, executed>> /\ worker[w].pc = "store"
                /\ worker'[w].pc = "run" /\ worker'[w].slot = worker[w].slot
                BY <1>2, <1>10 DEF PopSize
          <2>2. PositionOK(w)'
                BY <1>4, <2>1 DEF PoolInv, PositionOK, Num
          <2>3. RunOK(w)'
                BY <1>2, <2>1 DEF PoolInv, RunOK, TaskIs
          <2>4. lost' = 0 => lost = 0
                <3>1. lost' = lost + (size - worker[w].seen) /\ worker[w].seen <= size
                      BY <1>10 DEF PopSize, PoolInv, NumbersOK, RangeOK
                <3>2. size \in Int /\ worker[w].seen \in Int
                      <4>1. BaseOK(w) /\ size \in 0 .. Capacity
                            BY DEF PoolInv, NumbersOK, RangeOK
                      <4>2. worker[w].seen \in 0 .. Capacity
                            BY <4>1, Numbers
                      <4> QED BY <1>1, <4>1, <4>2
                <3> QED BY <1>1, <3>1, <3>2
          <2>5. Taken(w)' = Taken(w) + 1 /\ Taken(w) \in Nat
                BY <1>1, <2>1 DEF Taken, Holding, Num
          <2>6. WaitOK(w)'
                <3> SUFFICES ASSUME lost' = 0, NEW i \in Taken(w)' + 1 .. Len(queued')
                             PROVE  /\ tasks'[SlotOf(i)].run = queued'[i]
                                    /\ \/ tasks'[SlotOf(i)].args = queued'[i]
                                       \/ app'.pc = "args" /\ i = Len(queued')
                    BY DEF WaitOK
                <3>1. i \in Taken(w) + 1 .. Len(queued)
                      BY <1>1, <1>2, <2>5
                <3> QED BY <1>2, <2>4, <3>1 DEF PoolInv, WaitOK
          <2> QED BY <1>3, <2>2, <2>3, <2>6
    <1>11. CASE ReadTask(w)
          <2>1. /\ UNCHANGED <<head, executed, lost>> /\ worker[w].pc = "run"
                /\ worker'[w].pc = "call" /\ worker'[w].slot = worker[w].slot
                /\ worker'[w].task = tasks[worker[w].slot]
                BY <1>2, <1>11 DEF ReadTask
          <2>2. PositionOK(w)'
                BY <1>4, <2>1 DEF PoolInv, PositionOK, Num
          <2>3. TaskIs(tasks[worker[w].slot], Len(executed) + 1)
                BY <2>1, TaskFound
          <2>4. RunOK(w)'
                BY <1>2, <2>1, <2>3 DEF PoolInv, RunOK, TaskIs
          <2>5. Taken(w)' = Taken(w)
                BY <2>1 DEF Taken, Holding, Num
          <2>6. WaitOK(w)'
                BY <1>2, <2>1, <2>5 DEF PoolInv, WaitOK
          <2> QED BY <1>3, <2>2, <2>4, <2>6
    <1>12. CASE Run(w)
          <2>1. /\ UNCHANGED <<head, lost>> /\ worker[w].pc = "call" /\ worker'[w].pc = "check"
                BY <1>2, <1>12 DEF Run
          <2> DEFINE before == worker[w].task  now == tasks[worker[w].slot]
          <2>2. PICK task \in {[run |-> before.run, args |-> now.args],
                               [run |-> now.run, args |-> before.args]} :
                    executed' = Append(executed, task)
                BY <1>12 DEF Run
          <2>3. TaskIs(before, Len(executed) + 1) /\ TaskIs(now, Len(executed) + 1)
                BY <2>1, TaskFound DEF PoolInv, RunOK
          <2>4. TaskIs(task, Len(executed) + 1)
                BY <2>2, <2>3 DEF TaskIs
          <2>5. now \in Task /\ before \in Task /\ executed \in Seq(Task)
                BY <1>2 DEF PoolInv, NumbersOK, BaseOK, WorkerRecord
          <2>6. task \in Task
                BY <2>2, <2>5 DEF Task
          <2>7. /\ Len(executed') = Len(executed) + 1
                /\ \A k \in 1 .. Len(executed) : executed'[k] = executed[k]
                /\ executed'[Len(executed) + 1] = task
                BY <2>2, <2>5, <2>6, AppendProperties
          <2>8. PositionOK(w)'
                <3>1. head' = (Len(executed) + 1) % Capacity
                      BY <2>1 DEF PoolInv, PositionOK, Num
                <3>2. head' = (Len(executed') + 0) % Capacity
                      BY <1>1, <2>7, <3>1
                <3> QED BY <1>4, <2>1, <3>2 DEF PositionOK, Num
          <2>9. RunOK(w)'
                <3>1. ASSUME NEW i \in 1 .. Len(executed') PROVE TaskIs(executed'[i], i)
                      <4>1. CASE i = Len(executed) + 1
                            BY <2>4, <2>7, <4>1
                      <4>2. CASE i # Len(executed) + 1
                            <5>1. i \in 1 .. Len(executed)
                                  BY <1>1, <2>7, <4>2
                            <5> QED BY <2>7, <5>1 DEF PoolInv, RunOK
                      <4> QED BY <4>1, <4>2
                <3> QED BY <1>2, <2>1, <3>1 DEF RunOK, TaskIs
          <2>10. Taken(w)' = Taken(w)
                BY <1>1, <2>1, <2>7 DEF Taken, Holding, Num
          <2>11. WaitOK(w)'
                BY <1>2, <2>1, <2>10 DEF PoolInv, WaitOK
          <2> QED BY <1>3, <2>8, <2>9, <2>11
    <1> QED BY <1>6, <1>7, <1>8, <1>9, <1>10, <1>11, <1>12 DEF WorkerStep

\* Every step preserves the invariant.
LEMMA PoolNext ==
    ASSUME PoolAssumption, NEW w, Workers = {w}, PoolInv(w), [Next]_vars
    PROVE  PoolInv(w)'
    <1>1. CASE UNCHANGED vars
          <2>1. UNCHANGED <<tasks, head, tail, size, ready, shutdown, app, worker, queued, executed, lost>>
                BY <1>1 DEF vars
          <2>2. BaseOK(w)' /\ RangeOK(w)'
                BY <2>1 DEF PoolInv, NumbersOK, BaseOK, RangeOK, Adding, Num
          <2>3. CountOK(w)'
                BY <2>1 DEF PoolInv, NumbersOK, CountOK, Taken, Adding, Uncounted, Popping, Holding
          <2>4. PositionOK(w)' /\ SlotsOK' /\ RunOK(w)'
                BY <2>1 DEF PoolInv, PositionOK, SlotsOK, RunOK, TaskIs, Num
          <2>5. WaitOK(w)'
                BY <2>1 DEF PoolInv, WaitOK, Taken, Holding
          <2> QED BY <2>2, <2>3, <2>4, <2>5 DEF PoolInv, NumbersOK
    <1>2. CASE AppStep
          BY <1>2, NumbersNext, PlaceApp DEF PoolInv
    <1>3. CASE WorkerStep(w)
          BY <1>3, NumbersNext, PlaceWorker DEF PoolInv
    <1> QED BY <1>1, <1>2, <1>3 DEF Next

\* The one worker's share of Popped.
LEMMA PoppedIsTaken == ASSUME NEW w, Workers = {w} PROVE Popped = Taken(w)
    <1> DEFINE S == {v \in Workers : worker[v].pc \in {"run", "call"}}
    <1>1. CASE worker[w].pc \in {"run", "call"}
          <2>1. S = {w}
                BY <1>1
          <2>2. Cardinality(S) = 1
                BY <2>1, FS_Singleton
          <2> QED BY <1>1, <2>2 DEF Popped, Taken, Holding, Num
    <1>2. CASE worker[w].pc \notin {"run", "call"}
          <2>1. S = {}
                BY <1>2
          <2>2. Cardinality(S) = 0
                BY <2>1, FS_EmptySet
          <2> QED BY <1>2, <2>2 DEF Popped, Taken, Holding, Num
    <1> QED BY <1>1, <1>2

\* The one worker comes upon the tasks in the order the queue stored them, a slot
\* for each and never an empty one, however often the array comes round and
\* however size++ and size-- of thread_queue.c overlap: what it runs is the task
\* or one that was stored in the same slot rounds later, each half for itself.
THEOREM TasksRunInOrder ==
    ASSUME PoolAssumption, NEW w, Workers = {w}
    PROVE  Spec => []RunsInOrder
    <1>1. Init => PoolInv(w)
          BY PoolInit
    <1>2. PoolInv(w) /\ [Next]_vars => PoolInv(w)'
          BY PoolNext
    <1>3. PoolInv(w) => RunsInOrder
          <2> SUFFICES ASSUME PoolInv(w), NEW i \in DOMAIN executed,
                              NEW n \in {executed[i].run, executed[i].args}
                       PROVE  \E j \in i .. Len(queued) : queued[j] = n /\ (j - i) % Capacity = 0
              BY DEF RunsInOrder
          <2>1. executed \in Seq(Task)
                BY DEF PoolInv, NumbersOK, BaseOK
          <2>2. i \in 1 .. Len(executed)
                BY <2>1
          <2>3. TaskIs(executed[i], i)
                BY <2>2 DEF PoolInv, RunOK
          <2> QED BY <2>3 DEF TaskIs, Later
    <1> QED BY <1>1, <1>2, <1>3, PTL DEF Spec

\* With one worker the number of tasks stays between 0 and the capacity, although
\* size++ and size-- may lose one another's effect; and while no increment has
\* been lost, a task that waits in the queue keeps its slot, however often the
\* array comes round.
THEOREM WaitingTasksAreKept ==
    ASSUME PoolAssumption, NEW w, Workers = {w}
    PROVE  Spec => []WaitingTasksStay
    <1>1. Init => PoolInv(w)
          BY PoolInit
    <1>2. PoolInv(w) /\ [Next]_vars => PoolInv(w)'
          BY PoolNext
    <1>3. PoolInv(w) => WaitingTasksStay
          <2> SUFFICES ASSUME PoolInv(w) PROVE WaitingTasksStay
              OBVIOUS
          <2>1. TypeOK
                BY DEF PoolInv, NumbersOK, BaseOK, RangeOK, TypeOK, WorkerRecord
          <2>2. ASSUME lost = 0, NEW i \in Popped + 1 .. Len(queued)
                PROVE  \/ tasks[SlotOf(i)] = [run |-> queued[i], args |-> queued[i]]
                       \/ app.pc = "args" /\ i = Len(queued)
                <3>1. /\ tasks[SlotOf(i)].run = queued[i]
                      /\ tasks[SlotOf(i)].args = queued[i] \/ (app.pc = "args" /\ i = Len(queued))
                      BY <2>2, PoppedIsTaken DEF PoolInv, WaitOK
                <3>2. tasks[SlotOf(i)] \in Task
                      <4>1. Taken(w) \in Nat /\ Len(queued) \in Nat
                            <5>1. Len(executed) \in Nat /\ Len(queued) \in Nat
                                  BY Numbers DEF PoolInv, NumbersOK
                            <5> QED BY <5>1 DEF Taken, Holding, Num
                      <4>2. i \in Nat \ {0}
                            BY <4>1, PoppedIsTaken
                      <4>3. SlotOf(i) \in Slots
                            BY <4>2, SlotFacts
                      <4> QED BY <4>3 DEF PoolInv, NumbersOK, BaseOK
                <3> QED BY <3>1, <3>2 DEF Task
          <2> QED BY <2>1, <2>2 DEF WaitingTasksStay
    <1> QED BY <1>1, <1>2, <1>3, PTL DEF Spec

\* With one worker, when it sleeps in epoll_wait with nothing to read, or has left,
\* and no add is under way, every task stored has been run, but for one for each
\* increment of size that a decrement overwrote; and threadpool_destroy returns
\* only then.
THEOREM PoolLeavesNoTask ==
    ASSUME PoolAssumption, NEW w, Workers = {w}
    PROVE  Spec => []NoTaskLeft
    <1>1. Init => PoolInv(w)
          BY PoolInit
    <1>2. PoolInv(w) /\ [Next]_vars => PoolInv(w)'
          BY PoolNext
    <1>3. PoolInv(w) => NoTaskLeft
          <2> SUFFICES ASSUME PoolInv(w) PROVE NoTaskLeft
              OBVIOUS
          <2>1. /\ Len(queued) \in Nat /\ Len(executed) \in Nat /\ lost \in Nat
                /\ Cardinality({}) = 0
                BY Numbers, FS_EmptySet DEF PoolInv, NumbersOK
          <2>2. ASSUME worker[w].pc = "exited" PROVE Left <= lost
                <3>1. size = 0 /\ shutdown
                      BY <2>2 DEF PoolInv, NumbersOK, CountOK
                <3>2. Uncounted = 0 /\ Taken(w) = Len(executed)
                      BY <2>1, <2>2, <3>1 DEF PoolInv, NumbersOK, BaseOK, Uncounted, Taken, Holding, Num
                <3>3. Len(queued) <= Len(executed) + lost + 0 + 0
                      BY <3>1, <3>2 DEF PoolInv, NumbersOK, CountOK
                <3> QED BY <2>1, <3>3 DEF Left
          <2>3. ASSUME worker[w].pc = "wait", ready = {}, app.pc \in {"idle", "join", "destroyed"}
                PROVE  Left <= lost
                <3>1. Adding = 0 /\ Popping(w) = 0 /\ Taken(w) = Len(executed)
                      BY <2>1, <2>3 DEF Adding, Popping, Taken, Holding, Num
                <3>2. Len(queued) <= Len(executed) + lost + 0 + 0 + 0
                      BY <2>1, <2>3, <3>1 DEF PoolInv, NumbersOK, CountOK
                <3> QED BY <2>1, <3>2 DEF Left
          <2>4. NoLostWakeup
                BY <2>2, <2>3 DEF NoLostWakeup
          <2>5. DestroyDrains
                BY <2>2 DEF DestroyDrains, PoolInv, NumbersOK, CountOK
          <2> QED BY <2>4, <2>5 DEF NoTaskLeft
    <1> QED BY <1>1, <1>2, <1>3, PTL DEF Spec

-----------------------------------------------------------------------------
(* The timers of timerfd.c.                                                *)

\* What the theorem about the map needs beyond it: the thread a call is on, that
\* the loop has nothing left when it waits, and that the entry it has found stays
\* in the table, for only its own callbacks delete.
LoopOK ==
    /\ \/ call = NoCall
       \/ call \in [op : {"data", "grow", "add", "del"}, t : added, by : {"loop", "other"}]
    /\ call.op = "del" => call.by = "loop"
    /\ call.by = "loop" => OnLoopThread
    /\ events \in Seq(TimerFds) /\ edges \in Seq(TimerFds)
    /\ pc \in {"setup", "wait"} => events = <<>>
    /\ pc = "event" => events # <<>>
    /\ pc = "walk" => iter = NoIter \/ (iter \in TimerFds /\ Lookup(iter) # {})
    /\ pc = "exec" => iter \in TimerFds /\ Lookup(iter) # {}

\* A lookup finds one entry at most.
HashOK ==
    /\ mHash \subseteq [key : TimerFds \cup {Closed}, matches : BOOLEAN, data : Timers \cup {NoData}]
    /\ \A e, f \in mHash : (e.matches /\ f.matches /\ e.key = f.key) => e = f
    /\ call.op = "grow" => Lookup(Fd(call.t)) = {}

\* The descriptors epoll watches.
TableOK ==
    /\ \A t \in added : timer[t].live
    /\ \A t \in Timers : ~timer[t].live => Fd(t) = Closed
    /\ \A t \in Timers : Fd(t) \in watched <=> t \in added /\ Fd(t) # Closed /\ call.t # t

MapInv == MapTypeOK /\ EntriesAreLive /\ EdgesKept /\ LoopOK /\ HashOK /\ TableOK

\* What Append adds to epoll's queue.
LEMMA EdgeAppended ==
    ASSUME NEW T, NEW q \in Seq(T), IsInjective(q), NEW x \in T, x \notin Range(q)
    PROVE  /\ Append(q, x) \in Seq(T) /\ IsInjective(Append(q, x))
           /\ Range(Append(q, x)) = Range(q) \cup {x}
    <1> DEFINE r == Append(q, x)
    <1>1. /\ r \in Seq(T) /\ DOMAIN q = 1 .. Len(q) /\ DOMAIN r = 1 .. Len(q) + 1
          /\ Len(q) \in Nat /\ r[Len(q) + 1] = x
          /\ \A k \in 1 .. Len(q) : r[k] = q[k]
          OBVIOUS
    <1> HIDE DEF r
    <1>2. \A k \in DOMAIN r : k \in DOMAIN q \/ k = Len(q) + 1
          BY <1>1
    <1>3. \A k \in DOMAIN q : k \in DOMAIN r /\ r[k] = q[k]
          BY <1>1
    <1>4. \A k \in DOMAIN q : q[k] # x
          BY DEF Range
    <1>5. Range(r) = Range(q) \cup {x}
          <2>1. Len(q) + 1 \in DOMAIN r
                BY <1>1
          <2> QED BY <1>1, <1>2, <1>3, <2>1 DEF Range
    <1>6. IsInjective(r)
          BY <1>1, <1>2, <1>3, <1>4 DEF IsInjective
    <1> QED BY <1>1, <1>5, <1>6 DEF r

\* What EPOLL_CTL_DEL and close leave of it.
LEMMA EdgeRemoved ==
    ASSUME NEW T, NEW q \in Seq(T), IsInjective(q), NEW x
    PROVE  /\ Without(q, x) \in Seq(T) /\ IsInjective(Without(q, x))
           /\ Range(Without(q, x)) = Range(q) \ {x}
    <1>1. CASE x \notin Range(q)
          BY <1>1 DEF Without
    <1>2. CASE x \in Range(q)
          <2>1. PICK i \in DOMAIN q : q[i] = x /\ Without(q, x) = RemoveAt(q, i)
                BY <1>2 DEF Without, Range
          <2> DEFINE a == SubSeq(q, 1, i - 1)
                     b == SubSeq(q, i + 1, Len(q))
                     r == a \o b
                     p(n) == IF n < i THEN n ELSE n + 1
          <2>2. /\ Len(q) \in Nat /\ DOMAIN q = 1 .. Len(q) /\ i \in Nat /\ 1 <= i /\ i <= Len(q)
                /\ \A n \in 1 .. Len(q) : q[n] \in T
                BY <2>1, ElementOfSeq
          <2>3. a \in Seq(T) /\ Len(a) = i - 1 /\ \A n \in 1 .. i - 1 : a[n] = q[n]
                BY <2>2, SubSeqProperties
          <2>4. b \in Seq(T) /\ Len(b) = Len(q) - i /\ \A n \in 1 .. Len(q) - i : b[n] = q[n + i]
                BY <2>2, SubSeqProperties
          <2>5. Without(q, x) = r
                BY <2>1 DEF RemoveAt
          <2> HIDE DEF a, b
          <2>6. r \in Seq(T) /\ Len(r) = Len(q) - 1
                <3>1. r \in Seq(T) /\ Len(r) = Len(a) + Len(b)
                      BY <2>3, <2>4, ConcatProperties
                <3> QED BY <2>2, <2>3, <2>4, <3>1
          <2>7. \A n \in 1 .. Len(q) - 1 : r[n] = q[p(n)] /\ p(n) \in DOMAIN q /\ p(n) # i
                <3>1. \A n \in 1 .. Len(q) - 1 : r[n] = IF n < i THEN q[n] ELSE q[n + 1]
                      <4>1. \A n \in 1 .. Len(a) + Len(b) :
                               r[n] = IF n <= Len(a) THEN a[n] ELSE b[n - Len(a)]
                            BY <2>3, <2>4, ConcatProperties
                      <4>2. ASSUME NEW n \in 1 .. Len(q) - 1
                            PROVE  r[n] = IF n < i THEN q[n] ELSE q[n + 1]
                            <5> HIDE DEF r
                            <5>1. r[n] = IF n <= i - 1 THEN a[n] ELSE b[n - (i - 1)]
                                  BY <2>2, <2>3, <2>4, <4>1
                            <5>2. n < i => n \in 1 .. i - 1
                                  BY <2>2
                            <5>3. ~(n < i) => n - (i - 1) \in 1 .. Len(q) - i /\ n - (i - 1) + i = n + 1
                                  BY <2>2
                            <5> QED BY <2>2, <2>3, <2>4, <5>1, <5>2, <5>3
                      <4> QED BY <4>2
                <3>2. \A n \in 1 .. Len(q) - 1 : p(n) \in DOMAIN q /\ p(n) # i
                      BY <2>2
                <3> QED BY <3>1, <3>2
          <2>8. \A m, n \in 1 .. Len(q) - 1 : p(m) = p(n) => m = n
                BY <2>2
          <2>9. \A m \in DOMAIN q : m # i => \E n \in 1 .. Len(q) - 1 : p(n) = m
                <3>1. ASSUME NEW m \in DOMAIN q, m # i
                      PROVE  \E n \in 1 .. Len(q) - 1 : p(n) = m
                      <4>1. CASE m < i
                            BY <2>2, <4>1
                      <4>2. CASE m > i
                            <5>1. m - 1 \in 1 .. Len(q) - 1 /\ p(m - 1) = m
                                  BY <2>2, <4>2
                            <5> QED BY <5>1
                      <4> QED BY <2>2, <3>1, <4>1, <4>2
                <3> QED BY <3>1
          <2>10. DOMAIN r = 1 .. Len(q) - 1
                BY <2>6
          <2> HIDE DEF r, p
          <2>11. IsInjective(r)
                BY <2>7, <2>8, <2>10 DEF IsInjective
          <2>12. Range(r) = Range(q) \ {x}
                <3>1. \A n \in DOMAIN r : r[n] \in Range(q) /\ r[n] # x
                      BY <2>1, <2>7, <2>10 DEF Range, IsInjective
                <3>2. \A m \in DOMAIN q : q[m] # x => \E n \in DOMAIN r : r[n] = q[m]
                      BY <2>1, <2>7, <2>9, <2>10
                <3> QED BY <3>1, <3>2 DEF Range
          <2> QED BY <2>5, <2>6, <2>11, <2>12
    <1> QED BY <1>1, <1>2

\* What epoll_wait leaves in it.
LEMMA EdgesLeft ==
    ASSUME NEW T, NEW q \in Seq(T), IsInjective(q), NEW n \in 0 .. Len(q)
    PROVE  /\ SubSeq(q, n + 1, Len(q)) \in Seq(T) /\ IsInjective(SubSeq(q, n + 1, Len(q)))
           /\ Range(SubSeq(q, n + 1, Len(q))) = {q[k] : k \in n + 1 .. Len(q)}
    <1> DEFINE rest == SubSeq(q, n + 1, Len(q))
    <1>1. /\ Len(q) \in Nat /\ DOMAIN q = 1 .. Len(q) /\ n \in Nat /\ n <= Len(q)
          /\ \A k \in 1 .. Len(q) : q[k] \in T
          BY ElementOfSeq
    <1>2. /\ rest \in Seq(T) /\ Len(rest) = Len(q) - n /\ DOMAIN rest = 1 .. Len(q) - n
          /\ \A k \in 1 .. Len(q) - n : rest[k] = q[k + n]
          <2> DEFINE m == n + 1
                     l == Len(q)
          <2>1. m \in Int /\ l \in Int /\ m \in Nat \ {0} /\ m - 1 <= l /\ \A k \in m .. l : q[k] \in T
                BY <1>1
          <2>2. rest = SubSeq(q, m, l)
                OBVIOUS
          <2> HIDE DEF m, l, rest
          <2>3. /\ rest \in Seq(T) /\ Len(rest) = IF m <= l THEN l - m + 1 ELSE 0
                /\ \A k \in 1 .. l - m + 1 : rest[k] = q[m + k - 1]
                BY <2>1, <2>2, SubSeqProperties
          <2>4. Len(rest) = l - n /\ l - m + 1 = l - n /\ DOMAIN rest = 1 .. l - n
                BY <1>1, <2>1, <2>3 DEF m
          <2>5. \A k \in 1 .. l - n : m + k - 1 = k + n
                BY <1>1, <2>1 DEF m
          <2> QED BY <2>3, <2>4, <2>5 DEF l
    <1> HIDE DEF rest
    <1>3. \A k \in DOMAIN rest : k + n \in DOMAIN q /\ k + n \in n + 1 .. Len(q)
          BY <1>1, <1>2
    <1>4. IsInjective(rest)
          <2>1. \A j, k \in DOMAIN rest : j + n = k + n => j = k
                BY <1>1, <1>2
          <2> QED BY <1>2, <1>3, <2>1 DEF IsInjective
    <1>5. \A k \in n + 1 .. Len(q) : k - n \in DOMAIN rest /\ rest[k - n] = q[k]
          BY <1>1, <1>2
    <1>6. Range(rest) = {q[k] : k \in n + 1 .. Len(q)}
          <2>1. \A x \in Range(rest) : \E k \in n + 1 .. Len(q) : x = q[k]
                BY <1>2, <1>3 DEF Range
          <2>2. \A k \in n + 1 .. Len(q) : q[k] \in Range(rest)
                BY <1>5 DEF Range
          <2> QED BY <2>1, <2>2
    <1> QED BY <1>2, <1>4, <1>6 DEF rest

\* What it hands over.
LEMMA EventsFetched ==
    ASSUME NEW T, NEW q \in Seq(T), NEW n \in 0 .. Len(q), NEW S, S \subseteq 1 .. n,
           NEW at \in [1 .. Cardinality(S) -> S], Range(at) = S,
           NEW es, es = [k \in DOMAIN at |-> q[at[k]]]
    PROVE  es \in Seq(T) /\ \A k \in S : q[k] \in Range(es)
    <1>1. Len(q) \in Nat /\ n \in Nat /\ \A k \in 1 .. n : q[k] \in T
          BY ElementOfSeq
    <1>2. Cardinality(S) \in Nat
          <2>1. S \subseteq 1 .. n /\ IsFiniteSet(1 .. n)
                BY <1>1, FS_Interval
          <2> QED BY <2>1, FS_Subset, FS_CardinalityType
    <1>3. \A k \in 1 .. Cardinality(S) : q[at[k]] \in T
          BY <1>1
    <1>4. [k \in 1 .. Cardinality(S) |-> q[at[k]]] \in Seq(T)
          BY <1>2, <1>3
    <1>5. DOMAIN at = 1 .. Cardinality(S)
          OBVIOUS
    <1>6. \A k \in S : q[k] \in Range(es)
          BY DEF Range
    <1> QED BY <1>4, <1>5, <1>6

\* The next event and the others.
LEMMA EventTaken ==
    ASSUME NEW T, NEW s \in Seq(T), s # <<>>
    PROVE  Head(s) \in T /\ Tail(s) \in Seq(T) /\ Range(s) = {Head(s)} \cup Range(Tail(s))
    <1>1. /\ Head(s) \in T /\ Tail(s) \in Seq(T) /\ Len(s) \in Nat /\ DOMAIN s = 1 .. Len(s)
          /\ Len(s) > 0 /\ Head(s) = s[1] /\ DOMAIN Tail(s) = 1 .. Len(s) - 1
          /\ \A i \in 1 .. Len(s) - 1 : Tail(s)[i] = s[i + 1]
          BY HeadTailProperties
    <1>2. \A k \in DOMAIN s : k = 1 \/ (k - 1 \in DOMAIN Tail(s) /\ Tail(s)[k - 1] = s[k])
          BY <1>1
    <1>3. 1 \in DOMAIN s /\ \A k \in DOMAIN Tail(s) : k + 1 \in DOMAIN s /\ s[k + 1] = Tail(s)[k]
          BY <1>1
    <1>4. Range(s) \subseteq {Head(s)} \cup Range(Tail(s))
          BY <1>1, <1>2 DEF Range
    <1>5. {Head(s)} \cup Range(Tail(s)) \subseteq Range(s)
          BY <1>1, <1>3 DEF Range
    <1> QED BY <1>1, <1>4, <1>5

\* Descriptors have one owner.
LEMMA Owners ==
    ASSUME TimerMapAssumption, MapInv
    PROVE  /\ TimerFds \subseteq Nat \ {0} /\ Closed \notin TimerFds
           /\ \A t \in Timers : Fd(t) \in TimerFds \cup {Closed}
           /\ \A t, u \in Timers : Fd(t) = Fd(u) /\ Fd(t) # Closed => t = u
           /\ \A t \in Timers : Fd(t) \in open <=> Fd(t) # Closed
           /\ Closed \notin open
    <1>1. TimerFds \subseteq Nat \ {0} /\ Closed \notin TimerFds
          BY DEF TimerMapAssumption, TimerFds, Closed
    <1>2. \A t \in Timers : Fd(t) \in TimerFds \cup {Closed}
          BY DEF MapInv, MapTypeOK, Fd
    <1>3. \A t, u \in Timers : Fd(t) = Fd(u) /\ Fd(t) # Closed => t = u
          BY DEF MapInv, MapTypeOK
    <1>4. open = {Fd(t) : t \in Timers} \ {Closed}
          BY DEF MapInv, MapTypeOK
    <1> QED BY <1>1, <1>2, <1>3, <1>4

\* The entries a lookup may find.
LEMMA Entries ==
    ASSUME TimerMapAssumption, MapInv
    PROVE  /\ NoData \notin Timers /\ added \subseteq Timers
           /\ \A e \in mHash : e.data \in Timers \cup {NoData}
           /\ \A e \in mHash : (e.matches /\ e.data = NoData) =>
                 call.op = "data" /\ Fd(call.t) = e.key
           /\ \A e \in mHash : (e.matches /\ e.data # NoData) =>
                 timer[e.data].live /\ e.data \in added /\ Fd(e.data) = e.key
    BY DEF MapInv, TimerMapAssumption, NoData, MapTypeOK, HashOK, EntriesAreLive

\* A step that leaves the timers, the table and the call alone.
LEMMA SameMap ==
    ASSUME MapInv, UNCHANGED <<timer, mHash, added, call>>
    PROVE  /\ \A u : Fd(u)' = Fd(u) /\ (InMap(u)' <=> InMap(u))
           /\ \A x : Lookup(x)' = Lookup(x)
           /\ HashOK'
           /\ pc' # "undefined" => EntriesAreLive'
    <1>1. \A u : Fd(u)' = Fd(u)
          BY DEF Fd
    <1>2. \A x : Lookup(x)' = Lookup(x)
          BY DEF Lookup
    <1>3. \A u : InMap(u)' <=> InMap(u)
          BY <1>1, <1>2 DEF InMap
    <1>4. HashOK'
          BY <1>1, <1>2 DEF MapInv, HashOK, TimerFds, Closed, NoData
    <1>5. pc' # "undefined" => EntriesAreLive'
          BY <1>1 DEF MapInv, EntriesAreLive, NoData
    <1> QED BY <1>1, <1>2, <1>3, <1>4, <1>5

\* Before the first call.
LEMMA MapInitInv == MapInit => MapInv
    <1> SUFFICES ASSUME MapInit PROVE MapInv
        OBVIOUS
    <1>1. \A t \in Timers : Fd(t) = Closed
          BY DEF MapInit, Fd
    <1>2. {Fd(t) : t \in Timers} \ {Closed} = {}
          BY <1>1
    <1>3. MapTypeOK
          BY <1>1, <1>2 DEF MapInit, MapTypeOK, Range, IsInjective
    <1>4. EntriesAreLive /\ EdgesKept
          BY DEF MapInit, EntriesAreLive, EdgesKept
    <1>5. LoopOK
          BY DEF MapInit, LoopOK, NoCall
    <1>6. HashOK
          BY DEF MapInit, HashOK, NoCall
    <1>7. TableOK
          BY <1>1 DEF MapInit, TableOK
    <1> QED BY <1>3, <1>4, <1>5, <1>6, <1>7 DEF MapInv

\* A new timer takes a descriptor nobody has, which is in no queue.
LEMMA CreateInv ==
    ASSUME TimerMapAssumption, MapInv, NEW t \in Timers, NEW repeat \in BOOLEAN,
           create_timer(t, repeat)
    PROVE  MapInv'
    <1> DEFINE fd == Fd(t)'
    <1>0. TimerMapAssumption /\ MapInv
          OBVIOUS
    <1>1. /\ fd \in TimerFds \ open
          /\ timer' = [timer EXCEPT ![t] = [live |-> TRUE, mTimerid |-> fd, mRepeat |-> repeat]]
          <2> DEFINE free == TimerFds \ open
                     f == CHOOSE f \in free : \A g \in free : f <= g
          <2>1. free # {} /\ timer' = [timer EXCEPT ![t] =
                                [live |-> TRUE, mTimerid |-> f, mRepeat |-> repeat]]
                BY DEF create_timer
          <2>2. free \subseteq Nat
                BY <1>0, Owners
          <2>3. \E n \in free : \A m \in free : n <= m
                BY <2>1, <2>2, LeastNumber
          <2>4. f \in free
                BY <2>3
          <2> HIDE DEF f, free
          <2>5. timer \in [Timers -> [live : BOOLEAN, mTimerid : TimerFds \cup {Closed},
                                      mRepeat : BOOLEAN]]
                BY DEF MapInv, MapTypeOK
          <2>6. f = fd
                BY <2>1, <2>5 DEF Fd
          <2> QED BY <2>1, <2>4, <2>6 DEF free
    <1>2. /\ open' = open \cup {fd} /\ ~timer[t].live /\ calls' = calls + 1 /\ call = NoCall
          /\ UNCHANGED <<mHash, added, armed, periodic, expired, watched, edges, call, pc, events, iter>>
          <2>1. timer \in [Timers -> [live : BOOLEAN, mTimerid : TimerFds \cup {Closed},
                                      mRepeat : BOOLEAN]]
                BY DEF MapInv, MapTypeOK
          <2> QED BY <2>1 DEF create_timer, Call, epoll, listen, Fd
    <1> HIDE DEF fd
    <1>3. /\ Closed \notin TimerFds /\ Closed \notin open
          /\ \A u \in Timers : Fd(u) \in TimerFds \cup {Closed}
          /\ \A u, v \in Timers : Fd(v) = Fd(u) /\ Fd(v) # Closed => v = u
          /\ \A u \in Timers : Fd(u) \in open <=> Fd(u) # Closed
          BY <1>0, Owners
    <1>4. timer \in [Timers -> [live : BOOLEAN, mTimerid : TimerFds \cup {Closed}, mRepeat : BOOLEAN]]
          BY DEF MapInv, MapTypeOK
    <1>5. t \notin added /\ Fd(t) = Closed
          BY <1>2 DEF MapInv, TableOK
    <1>6. /\ Fd(t)' = fd /\ timer[t]'.live
          /\ \A u \in Timers : u # t => Fd(u)' = Fd(u) /\ timer'[u] = timer[u]
          BY <1>1, <1>4 DEF Fd
    <1>7. MapTypeOK'
          <2>1. timer' \in [Timers -> [live : BOOLEAN, mTimerid : TimerFds \cup {Closed},
                                       mRepeat : BOOLEAN]]
                BY <1>1, <1>4
          <2>2. \A u, v \in Timers : (u # v /\ Fd(u)' # Closed) => Fd(u)' # Fd(v)'
                BY <1>1, <1>3, <1>6
          <2>3. open' = {Fd(u)' : u \in Timers} \ {Closed}
                <3>1. open = {Fd(u) : u \in Timers} \ {Closed}
                      BY DEF MapInv, MapTypeOK
                <3>2. \A x : x \in open' <=> x # Closed /\ \E u \in Timers : x = Fd(u)'
                      BY <1>1, <1>2, <1>3, <1>5, <1>6, <3>1
                <3> QED BY <3>2
          <2> QED BY <1>2, <2>1, <2>2, <2>3 DEF MapInv, MapTypeOK, Fd, Closed
    <1>8. \A u \in added : u \in Timers /\ u # t /\ Fd(u)' = Fd(u) /\ timer'[u] = timer[u]
          BY <1>5, <1>6 DEF MapInv, MapTypeOK
    <1>9. EntriesAreLive'
          <2>1. \A e \in mHash : e.matches => timer'[e.data].live /\ e.data \in added
                                               /\ Fd(e.data)' = e.key
                BY <1>0, <1>2, <1>8, Entries DEF NoCall
          <2>2. \A e \in mHash : e.matches => e.data # NoData
                BY <1>0, <1>2, Entries DEF NoCall
          <2> QED BY <1>2, <2>1, <2>2 DEF MapInv, EntriesAreLive, Fd, NoData
    <1>10. EdgesKept'
          <2>1. \A u \in added : Lookup(Fd(u))' = Lookup(Fd(u))
                BY <1>2, <1>8 DEF Lookup
          <2>2. \A u \in Timers : InMap(u)' => InMap(u) /\ u \in added
                BY <1>2, <2>1 DEF InMap
          <2> QED BY <1>2, <1>8, <2>2 DEF MapInv, EdgesKept
    <1>11. LoopOK' /\ HashOK'
          BY <1>2 DEF MapInv, LoopOK, HashOK, OnLoopThread, NoCall, NoIter, NoData, Lookup, Closed,
                      TimerFds
    <1>12. TableOK'
          <2>1. \A u \in added : timer'[u].live
                BY <1>8 DEF MapInv, TableOK
          <2>2. \A u \in Timers : ~timer'[u].live => Fd(u)' = Closed
                BY <1>6 DEF MapInv, TableOK
          <2>3. \A u \in Timers : Fd(u)' \in watched <=> u \in added /\ Fd(u)' # Closed /\ call.t # u
                <3>1. fd \notin watched
                      BY <1>1 DEF MapInv, MapTypeOK
                <3> QED BY <1>5, <1>6, <3>1 DEF MapInv, TableOK
          <2> QED BY <1>2, <2>1, <2>2, <2>3 DEF TableOK, Fd, Closed
    <1> QED BY <1>7, <1>9, <1>10, <1>11, <1>12 DEF MapInv

\* timerfd_settime takes back an expiration.
LEMMA StartInv ==
    ASSUME MapInv, NEW t \in Timers, timer_start(t)
    PROVE  MapInv'
    <1>1. /\ armed' = armed \cup {Fd(t)} /\ periodic' \subseteq periodic \cup {Fd(t)}
          /\ expired' \subseteq expired /\ Fd(t) # Closed
          /\ UNCHANGED <<timer, mHash, added, open, watched, edges, call, pc, events, iter>>
          BY DEF timer_start, epoll, listen
    <1>2. Fd(t) \in open
          BY <1>1 DEF MapInv, MapTypeOK
    <1>3. MapTypeOK'
          BY <1>1, <1>2 DEF MapInv, MapTypeOK, Fd, Closed
    <1>4. HashOK' /\ EntriesAreLive' /\ \A u : Fd(u)' = Fd(u) /\ (InMap(u)' <=> InMap(u))
          BY <1>1, SameMap DEF MapInv, EntriesAreLive
    <1>5. EdgesKept'
          BY <1>1, <1>4 DEF MapInv, EdgesKept
    <1>6. LoopOK' /\ TableOK'
          BY <1>1 DEF MapInv, LoopOK, TableOK, OnLoopThread, NoCall, NoIter, Closed, TimerFds, Fd, Lookup
    <1> QED BY <1>3, <1>4, <1>5, <1>6 DEF MapInv

\* A new entry, linked while nothing is found under its key and a call that is to
\* fill it is under way.
LEMMA LinkInv ==
    ASSUME TimerMapAssumption, MapInv, NEW t \in Timers, call.op \notin {"data", "del"},
           Lookup(Fd(t)) = {}, Link(Fd(t)), call'.op = "data", call'.t = t,
           UNCHANGED <<timer, pc>>, added' = added \cup {t}
    PROVE  /\ HashOK' /\ EntriesAreLive' /\ mHash \subseteq mHash'
           /\ \A u \in Timers : InMap(u)' => (u # t /\ (call.t # u => InMap(u)))
    <1>0. TimerMapAssumption /\ MapInv
          OBVIOUS
    <1>1. PICK m \in BOOLEAN : mHash' = mHash \cup {[key |-> Fd(t), matches |-> m, data |-> NoData]}
          BY DEF Link
    <1> DEFINE new == [key |-> Fd(t), matches |-> m, data |-> NoData]
    <1>2. Fd(t) \in TimerFds \cup {Closed} /\ \A u : Fd(u)' = Fd(u)
          BY <1>0, Owners DEF Fd
    <1>3. new.key = Fd(t) /\ new.data = NoData /\ \A e \in mHash : e.matches => e.key # new.key
          BY DEF Lookup
    <1>4. HashOK'
          <2>1. new \in [key : TimerFds \cup {Closed}, matches : BOOLEAN, data : Timers \cup {NoData}]
                BY <1>2
          <2>2. mHash' \subseteq [key : TimerFds \cup {Closed}, matches : BOOLEAN,
                                  data : Timers \cup {NoData}]
                BY <1>1, <2>1 DEF MapInv, HashOK
          <2>3. \A e, f \in mHash' : (e.matches /\ f.matches /\ e.key = f.key) => e = f
                <3> HIDE DEF new
                <3>1. mHash' = mHash \cup {new}
                      BY <1>1 DEF new
                <3> QED BY <1>3, <3>1 DEF MapInv, HashOK
          <2> QED BY <2>2, <2>3 DEF HashOK, TimerFds, Closed, NoData
    <1>5. EntriesAreLive'
          <2>1. \A e \in mHash : e.matches =>
                    e.data # NoData /\ timer[e.data].live /\ e.data \in added' /\ Fd(e.data) = e.key
                BY <1>0, Entries
          <2>2. pc' # "undefined"
                BY DEF MapInv, EntriesAreLive
          <2> QED BY <1>1, <1>2, <2>1, <2>2 DEF EntriesAreLive, NoData
    <1>6. ASSUME NEW u \in Timers, InMap(u)' PROVE u # t /\ (call.t # u => InMap(u))
          <2>1. /\ u \in added' /\ u # t
                /\ \E e \in mHash' : e.key = Fd(u) /\ e.matches /\ e.data = u
                BY <1>2, <1>6 DEF InMap, Lookup
          <2>2. u # NoData
                BY <1>0, Entries
          <2>3. \E e \in mHash : e.key = Fd(u) /\ e.matches /\ e.data = u
                BY <1>1, <2>1, <2>2
          <2> QED BY <2>1, <2>3 DEF InMap, Lookup
    <1> QED BY <1>1, <1>4, <1>5, <1>6

\* addTimer enters the timer: nothing that was found before is lost by it.
LEMMA AddHashInv ==
    ASSUME TimerMapAssumption, MapInv, NEW t \in Timers, AddHash(t)
    PROVE  MapInv'
    <1>0. TimerMapAssumption /\ MapInv
          OBVIOUS
    <1>1. /\ timer[t].live /\ t \notin added /\ call = NoCall /\ added' = added \cup {t}
          /\ call'.t = t
          /\ UNCHANGED <<timer, open, armed, periodic, expired, watched, edges, events, iter>>
          /\ call'.op \in {"data", "grow"} /\ call'.by \in {"loop", "other"}
          /\ call'.by = "loop" => OnLoopThread
          /\ call' \in [op : {"data", "grow"}, t : added', by : {"loop", "other"}]
          /\ pc' = pc \/ (pc = "walk" /\ pc' = "torn")
          /\ \/ call'.op = "data" /\ pc' = pc /\ Lookup(Fd(t)) = {} /\ Link(Fd(t))
             \/ call'.op = "data" /\ pc' = pc /\ mHash' = mHash
             \/ call'.op = "grow" /\ mHash' = mHash /\ Lookup(Fd(t)) = {}
          <2>1. PICK by \in Callers :
                   \/ /\ call' = [op |-> "data", t |-> t, by |-> by]
                      /\ IF Lookup(Fd(t)) = {} THEN Link(Fd(t)) ELSE UNCHANGED mHash
                      /\ UNCHANGED pc
                   \/ /\ Lookup(Fd(t)) = {}
                      /\ call' = [op |-> "grow", t |-> t, by |-> by]
                      /\ pc' = IF pc = "walk" THEN "torn" ELSE pc
                      /\ UNCHANGED mHash
                BY DEF AddHash
          <2>2. by \in {"loop", "other"} /\ (by = "loop" => OnLoopThread)
                BY DEF Callers
          <2>3. /\ call'.t = t /\ call'.op \in {"data", "grow"} /\ call'.by = by
                /\ pc' = pc \/ (pc = "walk" /\ pc' = "torn")
                /\ \/ call'.op = "data" /\ pc' = pc /\ Lookup(Fd(t)) = {} /\ Link(Fd(t))
                   \/ call'.op = "data" /\ pc' = pc /\ mHash' = mHash
                   \/ call'.op = "grow" /\ mHash' = mHash /\ Lookup(Fd(t)) = {}
                <3>1. CASE call' = [op |-> "data", t |-> t, by |-> by]
                      BY <2>1, <3>1
                <3>2. CASE call' = [op |-> "grow", t |-> t, by |-> by]
                      BY <2>1, <3>2
                <3> QED BY <2>1, <3>1, <3>2
          <2>4. /\ timer[t].live /\ t \notin added /\ call = NoCall /\ added' = added \cup {t}
                /\ UNCHANGED <<timer, open, armed, periodic, expired, watched, edges, events, iter>>
                BY DEF AddHash, Call, kernel, epoll
          <2>5. call' \in [op : {"data", "grow"}, t : added', by : {"loop", "other"}]
                BY <2>1, <2>2, <2>4
          <2> QED BY <2>2, <2>3, <2>4, <2>5
    <1>2. /\ call.op = "none" /\ call.t = "none" /\ call.by = "none" /\ "none" \notin Timers
          BY <1>0, <1>1 DEF NoCall, TimerMapAssumption
    <1>3. MapTypeOK'
          BY <1>1 DEF MapInv, MapTypeOK, Fd, Closed
    <1>4. /\ HashOK' /\ EntriesAreLive' /\ mHash \subseteq mHash'
          /\ \A u \in Timers : InMap(u)' => InMap(u)
          <2>1. CASE Lookup(Fd(t)) = {} /\ Link(Fd(t)) /\ call'.op = "data" /\ pc' = pc
                BY <1>0, <1>1, <1>2, <2>1, LinkInv
          <2>2. CASE mHash' = mHash
                <3>1. \A u : Fd(u)' = Fd(u) /\ Lookup(Fd(u))' = Lookup(Fd(u))
                      BY <1>1, <2>2 DEF Fd, Lookup
                <3>2. HashOK'
                      <4>1. (call.op = "grow" => Lookup(Fd(call.t)) = {})'
                            BY <1>1, <2>2 DEF Lookup, Fd
                      <4> QED BY <2>2, <4>1 DEF MapInv, HashOK, TimerFds, Closed, NoData
                <3>3. EntriesAreLive'
                      <4>1. \A e \in mHash : e.matches =>
                               e.data # NoData /\ timer[e.data].live /\ e.data \in added'
                               /\ Fd(e.data) = e.key
                            BY <1>0, <1>1, <1>2, Entries
                      <4>2. pc' # "undefined"
                            BY <1>1 DEF MapInv, EntriesAreLive
                      <4> QED BY <1>1, <2>2, <3>1, <4>1, <4>2 DEF EntriesAreLive, NoData
                <3>4. \A u \in Timers : InMap(u)' => InMap(u)
                      BY <1>1, <1>2, <3>1 DEF InMap
                <3> QED BY <2>2, <3>2, <3>3, <3>4
          <2> QED BY <1>1, <2>1, <2>2
    <1>5. EdgesKept'
          <2>1. \A u \in Timers : Fd(u)' = Fd(u)
                BY <1>1 DEF Fd
          <2> QED BY <1>1, <1>4, <2>1 DEF MapInv, EdgesKept
    <1>6. LoopOK'
          <2>1. \A x : Lookup(x) # {} => Lookup(x)' # {}
                BY <1>4 DEF Lookup
          <2>2. call'.by = "loop" => OnLoopThread'
                BY <1>1 DEF OnLoopThread
          <2> QED BY <1>1, <2>1, <2>2 DEF MapInv, LoopOK, NoIter, TimerFds
    <1>7. TableOK'
          <2>1. \A u \in added' : timer[u].live
                BY <1>1 DEF MapInv, TableOK
          <2>2. \A u \in Timers : Fd(u) \in watched <=> u \in added' /\ Fd(u) # Closed /\ call'.t # u
                BY <1>1, <1>2 DEF MapInv, TableOK
          <2> QED BY <1>1, <2>1, <2>2 DEF MapInv, TableOK, Fd, Closed
    <1> QED BY <1>3, <1>4, <1>5, <1>6, <1>7 DEF MapInv

\* The table has grown.
LEMMA GrownInv ==
    ASSUME TimerMapAssumption, MapInv, NEW t \in Timers, Grown(t)
    PROVE  MapInv'
    <1>0. TimerMapAssumption /\ MapInv
          OBVIOUS
    <1>1. /\ call.op = "grow" /\ call.t = t /\ Link(Fd(t)) /\ call' = [call EXCEPT !.op = "data"]
          /\ UNCHANGED <<timer, added, open, armed, periodic, expired, watched, edges, pc, events, iter>>
          BY DEF Grown, kernel, epoll, listen
    <1>2. t \in added /\ call.by \in {"loop", "other"} /\ Lookup(Fd(t)) = {}
          BY <1>1 DEF MapInv, LoopOK, HashOK, NoCall
    <1>3. /\ call'.op = "data" /\ call'.t = t /\ call'.by = call.by /\ added' = added \cup {t}
          /\ call' \in [op : {"data"}, t : added', by : {"loop", "other"}]
          <2>1. call \in [op : {"data", "grow", "add", "del"}, t : added, by : {"loop", "other"}]
                BY <1>1 DEF MapInv, LoopOK, NoCall
          <2> QED BY <1>1, <1>2, <2>1
    <1>4. MapTypeOK'
          BY <1>1 DEF MapInv, MapTypeOK, Fd, Closed
    <1>5. /\ HashOK' /\ EntriesAreLive' /\ mHash \subseteq mHash'
          /\ \A u \in Timers : InMap(u)' => InMap(u)
          BY <1>0, <1>1, <1>2, <1>3, LinkInv
    <1>6. EdgesKept'
          <2>1. \A u \in Timers : Fd(u)' = Fd(u)
                BY <1>1 DEF Fd
          <2> QED BY <1>1, <1>5, <2>1 DEF MapInv, EdgesKept
    <1>7. LoopOK'
          <2>1. \A x : Lookup(x) # {} => Lookup(x)' # {}
                BY <1>5 DEF Lookup
          <2> QED BY <1>1, <1>2, <1>3, <2>1 DEF MapInv, LoopOK, NoIter, TimerFds, OnLoopThread, NoCall
    <1>8. TableOK'
          BY <1>1, <1>3 DEF MapInv, TableOK, Fd, Closed
    <1> QED BY <1>4, <1>5, <1>6, <1>7, <1>8 DEF MapInv

\* The entry gets its data.
LEMMA AddDataInv ==
    ASSUME TimerMapAssumption, MapInv, NEW t \in Timers, AddData(t)
    PROVE  MapInv'
    <1>0. TimerMapAssumption /\ MapInv
          OBVIOUS
    <1>1. /\ call.op = "data" /\ call.t = t /\ call' = [call EXCEPT !.op = "add"]
          /\ UNCHANGED <<timer, added, open, armed, periodic, expired, watched, edges, pc, events, iter>>
          BY DEF AddData, kernel, epoll, listen
    <1>2. /\ t \in added
          /\ call'.op = "add" /\ call'.t = t /\ call'.by = call.by
          /\ call' \in [op : {"add"}, t : added', by : {"loop", "other"}]
          <2>1. call \in [op : {"data", "grow", "add", "del"}, t : added, by : {"loop", "other"}]
                BY <1>1 DEF MapInv, LoopOK, NoCall
          <2> QED BY <1>1, <2>1
    <1>3. PICK e \in mHash :
             /\ IF Lookup(Fd(t)) = {} THEN e.key = Fd(t) /\ e.data = NoData ELSE e \in Lookup(Fd(t))
             /\ mHash' = (mHash \ {e}) \cup {[e EXCEPT !.data = t]}
          BY DEF AddData
    <1> DEFINE new == [e EXCEPT !.data = t]
    <1>4. /\ e \in [key : TimerFds \cup {Closed}, matches : BOOLEAN, data : Timers \cup {NoData}]
          /\ e.key = Fd(t) /\ e.matches = (Lookup(Fd(t)) # {})
          <2>1. e \in [key : TimerFds \cup {Closed}, matches : BOOLEAN, data : Timers \cup {NoData}]
                BY DEF MapInv, HashOK
          <2>2. CASE Lookup(Fd(t)) = {}
                BY <1>3, <2>1, <2>2 DEF Lookup
          <2>3. CASE Lookup(Fd(t)) # {}
                BY <1>3, <2>1, <2>3 DEF Lookup
          <2> QED BY <2>1, <2>2, <2>3
    <1>5. /\ new \in [key : TimerFds \cup {Closed}, matches : BOOLEAN, data : Timers \cup {NoData}]
          /\ new.key = e.key /\ new.matches = e.matches /\ new.data = t
          /\ mHash' = (mHash \ {e}) \cup {new}
          BY <1>3, <1>4
    <1> HIDE DEF new
    <1>6. \A u : Fd(u)' = Fd(u)
          BY <1>1 DEF Fd
    <1>7. MapTypeOK'
          BY <1>1 DEF MapInv, MapTypeOK, Fd, Closed
    <1>8. HashOK'
          <2>1. mHash' \subseteq [key : TimerFds \cup {Closed}, matches : BOOLEAN,
                                  data : Timers \cup {NoData}]
                BY <1>5 DEF MapInv, HashOK
          <2>2. \A f, g \in mHash' : (f.matches /\ g.matches /\ f.key = g.key) => f = g
                BY <1>5 DEF MapInv, HashOK
          <2> QED BY <1>2, <2>1, <2>2 DEF HashOK, TimerFds, Closed, NoData
    <1>9. EntriesAreLive'
          <2>1. \A f \in mHash \ {e} : f.matches => f.data # NoData
                <3>1. ASSUME NEW f \in mHash \ {e}, f.matches, f.data = NoData PROVE FALSE
                      <4>1. f.key = Fd(t)
                            BY <1>0, <1>1, <3>1, Entries
                      <4>2. e.matches
                            BY <1>4, <3>1, <4>1 DEF Lookup
                      <4> QED BY <1>4, <3>1, <4>1, <4>2 DEF MapInv, HashOK
                <3> QED BY <3>1
          <2>2. \A f \in mHash \ {e} : f.matches =>
                    timer[f.data].live /\ f.data \in added /\ Fd(f.data) = f.key
                BY <1>0, <2>1, Entries
          <2>3. new.data # NoData /\ timer[new.data].live /\ new.data \in added /\ Fd(new.data) = new.key
                BY <1>0, <1>2, <1>4, <1>5, Entries DEF MapInv, TableOK
          <2>4. pc' # "undefined"
                BY <1>1 DEF MapInv, EntriesAreLive
          <2> QED BY <1>1, <1>5, <1>6, <2>1, <2>2, <2>3, <2>4 DEF EntriesAreLive, NoData
    <1>10. EdgesKept'
          <2>1. \A u \in Timers : InMap(u)' => InMap(u)
                <3>1. ASSUME NEW u \in Timers, InMap(u)' PROVE InMap(u)
                      <4>1. /\ u \in added /\ u # t
                            /\ \E f \in mHash' : f.key = Fd(u) /\ f.matches /\ f.data = u
                            BY <1>1, <1>2, <1>6, <3>1 DEF InMap, Lookup
                      <4>2. \E f \in mHash : f.key = Fd(u) /\ f.matches /\ f.data = u
                            BY <1>5, <4>1
                      <4> QED BY <1>1, <4>1, <4>2 DEF InMap, Lookup
                <3> QED BY <3>1
          <2> QED BY <1>1, <1>6, <2>1 DEF MapInv, EdgesKept
    <1>11. LoopOK'
          <2>1. \A x : Lookup(x) # {} => Lookup(x)' # {}
                <3>1. ASSUME NEW x, NEW f \in Lookup(x) PROVE Lookup(x)' # {}
                      <4>1. CASE f = e
                            BY <1>5, <3>1, <4>1 DEF Lookup
                      <4>2. CASE f # e
                            BY <1>5, <3>1, <4>2 DEF Lookup
                      <4> QED BY <4>1, <4>2
                <3> QED BY <3>1
          <2> QED BY <1>1, <1>2, <2>1 DEF MapInv, LoopOK, NoIter, TimerFds, OnLoopThread, NoCall
    <1>12. TableOK'
          BY <1>1, <1>2 DEF MapInv, TableOK, Fd, Closed
    <1> QED BY <1>7, <1>8, <1>9, <1>10, <1>11, <1>12 DEF MapInv

\* EPOLL_CTL_ADD reports a timer that has expired meanwhile.
LEMMA AddEpollInv ==
    ASSUME TimerMapAssumption, MapInv, NEW t \in Timers, AddEpoll(t)
    PROVE  MapInv'
    <1>0. TimerMapAssumption /\ MapInv
          OBVIOUS
    <1>1. /\ call.op = "add" /\ call.t = t /\ call' = NoCall
          /\ watched' = watched \cup (open \cap {Fd(t)})
          /\ edges' = IF Fd(t) \in expired \ watched THEN Append(edges, Fd(t)) ELSE edges
          /\ UNCHANGED <<timer, mHash, added, open, armed, periodic, expired, pc, events, iter>>
          BY DEF AddEpoll, kernel, listen
    <1>2. /\ Closed \notin TimerFds /\ Closed \notin open
          /\ \A u \in Timers : Fd(u) \in TimerFds \cup {Closed}
          /\ \A u, v \in Timers : Fd(v) = Fd(u) /\ Fd(v) # Closed => v = u
          /\ \A u \in Timers : Fd(u) \in open <=> Fd(u) # Closed
          BY <1>0, Owners
    <1>3. /\ edges \in Seq(TimerFds) /\ IsInjective(edges) /\ Range(edges) \subseteq watched
          /\ expired \subseteq open /\ t \in added /\ Fd(t) \notin watched
          BY <1>1 DEF MapInv, MapTypeOK, LoopOK, TableOK, NoCall
    <1>4. /\ edges' \in Seq(TimerFds) /\ IsInjective(edges')
          /\ Range(edges') = Range(edges) \cup (expired \cap {Fd(t)})
          <2>1. CASE Fd(t) \in expired
                <3>1. Fd(t) \in TimerFds /\ Fd(t) \notin Range(edges)
                      BY <1>2, <1>3, <2>1
                <3> QED BY <1>1, <1>3, <2>1, <3>1, EdgeAppended
          <2>2. CASE Fd(t) \notin expired
                BY <1>1, <1>3, <2>2
          <2> QED BY <2>1, <2>2
    <1>5. Range(edges') \subseteq watched'
          BY <1>1, <1>3, <1>4
    <1>6. MapTypeOK'
          BY <1>1, <1>4, <1>5 DEF MapInv, MapTypeOK, Fd, Closed
    <1>7. \A u : Fd(u)' = Fd(u) /\ Lookup(u)' = Lookup(u)
          BY <1>1 DEF Fd, Lookup
    <1>8. EntriesAreLive'
          <2>1. \A e \in mHash : e.matches =>
                    e.data # NoData /\ timer[e.data].live /\ e.data \in added /\ Fd(e.data) = e.key
                BY <1>0, <1>1, Entries
          <2> QED BY <1>1, <1>7, <2>1 DEF MapInv, EntriesAreLive, NoData
    <1>9. EdgesKept'
          <2>1. ASSUME NEW u \in Timers, InMap(u)', Fd(u) \in expired, pc # "torn"
                PROVE  \/ Fd(u) \in Range(edges') \cup Range(events)
                       \/ pc \in {"walk", "exec"} /\ iter = Fd(u)
                <3>1. CASE u = t
                      BY <1>4, <2>1, <3>1
                <3>2. CASE u # t
                      <4>1. InMap(u)
                            BY <1>1, <1>7, <2>1, <3>2 DEF InMap
                      <4> QED BY <1>4, <2>1, <4>1 DEF MapInv, EdgesKept
                <3> QED BY <3>1, <3>2
          <2> QED BY <1>1, <1>7, <2>1 DEF EdgesKept
    <1>10. LoopOK' /\ HashOK'
          BY <1>1, <1>4, <1>7 DEF MapInv, LoopOK, HashOK, OnLoopThread, NoCall, NoIter, NoData, Closed,
                                  TimerFds
    <1>11. TableOK'
          <2>1. \A u \in Timers : Fd(u) \in watched' <=> u \in added /\ Fd(u) # Closed /\ "none" # u
                BY <1>1, <1>2, <1>3 DEF MapInv, TableOK, TimerMapAssumption
          <2> QED BY <1>1, <2>1 DEF MapInv, TableOK, Fd, Closed, NoCall
    <1> QED BY <1>6, <1>8, <1>9, <1>10, <1>11 DEF MapInv

\* EPOLL_CTL_DEL forgets an edge of the timer it takes out.
LEMMA DelEpollInv ==
    ASSUME TimerMapAssumption, MapInv, NEW t \in Timers, DelEpoll(t)
    PROVE  MapInv'
    <1>0. TimerMapAssumption /\ MapInv
          OBVIOUS
    <1>1. /\ t \in added /\ call = NoCall /\ OnLoopThread
          /\ watched' = watched \ {Fd(t)} /\ edges' = Without(edges, Fd(t))
          /\ call' = [op |-> "del", t |-> t, by |-> "loop"]
          /\ UNCHANGED <<timer, mHash, added, open, armed, periodic, expired, pc, events, iter>>
          BY DEF DelEpoll, Call, kernel, listen
    <1>2. /\ Closed \notin TimerFds /\ Closed \notin open
          /\ \A u, v \in Timers : Fd(v) = Fd(u) /\ Fd(v) # Closed => v = u
          BY <1>0, Owners
    <1>3. /\ edges \in Seq(TimerFds) /\ IsInjective(edges) /\ Range(edges) \subseteq watched
          /\ expired \subseteq open /\ added \subseteq Timers
          BY DEF MapInv, MapTypeOK, LoopOK
    <1>4. /\ edges' \in Seq(TimerFds) /\ IsInjective(edges')
          /\ Range(edges') = Range(edges) \ {Fd(t)}
          BY <1>1, <1>3, EdgeRemoved
    <1>5. MapTypeOK'
          <2>1. Range(edges') \subseteq watched'
                BY <1>1, <1>3, <1>4
          <2> QED BY <1>1, <1>4, <2>1 DEF MapInv, MapTypeOK, Fd, Closed
    <1>6. \A u : Fd(u)' = Fd(u) /\ Lookup(u)' = Lookup(u)
          BY <1>1 DEF Fd, Lookup
    <1>7. EntriesAreLive'
          <2>1. \A e \in mHash : e.matches =>
                    e.data # NoData /\ timer[e.data].live /\ e.data \in added /\ Fd(e.data) = e.key
                BY <1>0, <1>1, Entries DEF NoCall
          <2> QED BY <1>1, <1>6, <2>1 DEF MapInv, EntriesAreLive, NoData
    <1>8. EdgesKept'
          <2>1. ASSUME NEW u \in Timers, InMap(u)', Fd(u) \in expired, pc # "torn"
                PROVE  \/ Fd(u) \in Range(edges') \cup Range(events)
                       \/ pc \in {"walk", "exec"} /\ iter = Fd(u)
                <3>1. u # t /\ "none" # u
                      BY <1>1, <2>1 DEF InMap, TimerMapAssumption
                <3>2. InMap(u) /\ Fd(u) # Fd(t)
                      BY <1>1, <1>2, <1>3, <1>6, <2>1, <3>1 DEF InMap, NoCall
                <3> QED BY <1>4, <2>1, <3>2 DEF MapInv, EdgesKept
          <2> QED BY <1>1, <1>6, <2>1 DEF EdgesKept
    <1>9. LoopOK' /\ HashOK'
          BY <1>1, <1>4, <1>6 DEF MapInv, LoopOK, HashOK, OnLoopThread, NoCall, NoIter, NoData, Closed,
                                  TimerFds
    <1>10. TableOK'
          <2>1. \A u \in Timers : Fd(u) \in watched' <=> u \in added /\ Fd(u) # Closed /\ t # u
                BY <1>1, <1>2 DEF MapInv, TableOK, TimerMapAssumption, NoCall
          <2> QED BY <1>1, <2>1 DEF MapInv, TableOK, Fd, Closed
    <1> QED BY <1>5, <1>7, <1>8, <1>9, <1>10 DEF MapInv

\* hash_del takes out the entry of the timer and of no other that is open.
LEMMA DelHashInv ==
    ASSUME TimerMapAssumption, MapInv, NEW t \in Timers, DelHash(t)
    PROVE  MapInv'
    <1>0. TimerMapAssumption /\ MapInv
          OBVIOUS
    <1>1. /\ call.op = "del" /\ call.t = t /\ call' = NoCall /\ added' = added \ {t}
          /\ mHash' = mHash \ Lookup(Fd(t))
          /\ UNCHANGED <<timer, open, armed, periodic, expired, watched, edges, pc, events, iter>>
          BY DEF DelHash, kernel, epoll, listen
    <1>2. pc \in {"setup", "callback"} /\ \A u : Fd(u)' = Fd(u)
          BY <1>1 DEF MapInv, LoopOK, OnLoopThread, Fd
    <1>3. MapTypeOK'
          BY <1>1 DEF MapInv, MapTypeOK, Fd, Closed
    <1>4. EntriesAreLive'
          <2>1. \A e \in mHash' : e.matches =>
                    e.data # NoData /\ timer[e.data].live /\ e.data \in added' /\ Fd(e.data) = e.key
                BY <1>0, <1>1, Entries DEF Lookup
          <2> QED BY <1>1, <1>2, <2>1 DEF EntriesAreLive, NoData
    <1>5. EdgesKept'
          <2>1. \A u \in Timers : InMap(u)' => InMap(u)
                BY <1>1, <1>2 DEF InMap, Lookup
          <2> QED BY <1>1, <1>2, <2>1 DEF MapInv, EdgesKept
    <1>6. LoopOK' /\ HashOK'
          BY <1>1, <1>2 DEF MapInv, LoopOK, HashOK, OnLoopThread, NoCall, NoIter, NoData, Closed, TimerFds
    <1>7. TableOK'
          <2>1. \A u \in Timers : Fd(u) \in watched <=> u \in added' /\ Fd(u) # Closed /\ "none" # u
                BY <1>1 DEF MapInv, TableOK, TimerMapAssumption
          <2> QED BY <1>1, <2>1 DEF MapInv, TableOK, Fd, Closed, NoCall
    <1> QED BY <1>3, <1>4, <1>5, <1>6, <1>7 DEF MapInv

\* timer_stop and delete_timer: a timer that is not in the map is closed, and
\* with it its place in epoll.
LEMMA CloseInv ==
    ASSUME TimerMapAssumption, MapInv, NEW t \in Timers, timer_stop(t) \/ delete_timer(t)
    PROVE  MapInv'
    <1>0. TimerMapAssumption /\ MapInv
          OBVIOUS
    <1>1. /\ t \notin added /\ Close(Fd(t)) /\ call = NoCall
          /\ UNCHANGED <<mHash, added, call, pc, events, iter>>
          BY DEF timer_stop, delete_timer, Call, listen
    <1>2. timer \in [Timers -> [live : BOOLEAN, mTimerid : TimerFds \cup {Closed}, mRepeat : BOOLEAN]]
          BY DEF MapInv, MapTypeOK
    <1>3. /\ timer' \in [Timers -> [live : BOOLEAN, mTimerid : TimerFds \cup {Closed},
                                    mRepeat : BOOLEAN]]
          /\ Fd(t)' = Closed /\ \A u \in Timers : u # t => Fd(u)' = Fd(u) /\ timer'[u] = timer[u]
          <2>1. CASE timer_stop(t)
                <3>1. timer' = [timer EXCEPT ![t].mTimerid = Closed]
                      BY <2>1 DEF timer_stop
                <3> QED BY <1>2, <3>1 DEF Fd
          <2>2. CASE delete_timer(t)
                <3>1. timer' = [timer EXCEPT ![t] = [live |-> FALSE, mTimerid |-> Closed,
                                                     mRepeat |-> FALSE]]
                      BY <2>2 DEF delete_timer
                <3> QED BY <1>2, <3>1 DEF Fd
          <2> QED BY <2>1, <2>2
    <1>4. /\ Closed \notin TimerFds /\ Closed \notin open
          /\ \A u \in Timers : Fd(u) \in TimerFds \cup {Closed}
          /\ \A u, v \in Timers : Fd(v) = Fd(u) /\ Fd(v) # Closed => v = u
          BY <1>0, Owners
    <1>5. /\ open' = open \ {Fd(t)} /\ armed' = armed \ {Fd(t)} /\ periodic' = periodic \ {Fd(t)}
          /\ expired' = expired \ {Fd(t)} /\ watched' = watched \ {Fd(t)}
          /\ edges' = Without(edges, Fd(t))
          BY <1>1 DEF Close
    <1>6. /\ edges \in Seq(TimerFds) /\ IsInjective(edges) /\ Range(edges) \subseteq watched
          /\ expired \subseteq open /\ watched \subseteq open /\ added \subseteq Timers
          BY DEF MapInv, MapTypeOK, LoopOK
    <1>7. /\ edges' \in Seq(TimerFds) /\ IsInjective(edges')
          /\ Range(edges') = Range(edges) \ {Fd(t)}
          BY <1>5, <1>6, EdgeRemoved
    <1>8. \A u \in Timers : u # t => Fd(u) # Fd(t) \/ Fd(u) = Closed
          BY <1>4
    <1>9. MapTypeOK'
          <2>1. \A u, v \in Timers : (u # v /\ Fd(u)' # Closed) => Fd(u)' # Fd(v)'
                BY <1>3, <1>4
          <2>2. open' = {Fd(u)' : u \in Timers} \ {Closed}
                <3>1. open = {Fd(u) : u \in Timers} \ {Closed}
                      BY DEF MapInv, MapTypeOK
                <3>2. \A x : x \in open' <=> x # Closed /\ \E u \in Timers : x = Fd(u)'
                      BY <1>3, <1>4, <1>5, <1>8, <3>1
                <3> QED BY <3>2
          <2>3. Range(edges') \subseteq watched'
                BY <1>5, <1>6, <1>7
          <2>4. armed' \cup expired' \cup watched' \cup periodic' \subseteq open'
                BY <1>5 DEF MapInv, MapTypeOK
          <2> QED BY <1>1, <1>3, <1>7, <2>1, <2>2, <2>3, <2>4 DEF MapInv, MapTypeOK, Fd, Closed
    <1>10. \A u \in added : u \in Timers /\ u # t /\ Fd(u)' = Fd(u) /\ timer'[u] = timer[u]
          BY <1>1, <1>3, <1>6
    <1>11. EntriesAreLive'
          <2>1. \A e \in mHash : e.matches => timer'[e.data].live /\ e.data \in added
                                               /\ Fd(e.data)' = e.key
                BY <1>0, <1>1, <1>10, Entries DEF NoCall
          <2>2. \A e \in mHash : e.matches => e.data # NoData
                BY <1>0, <1>1, Entries DEF NoCall
          <2> QED BY <1>1, <2>1, <2>2 DEF MapInv, EntriesAreLive, Fd, NoData
    <1>12. EdgesKept'
          <2>1. ASSUME NEW u \in Timers, InMap(u)', Fd(u)' \in expired', pc # "torn"
                PROVE  \/ Fd(u)' \in Range(edges') \cup Range(events)
                       \/ pc \in {"walk", "exec"} /\ iter = Fd(u)'
                <3>1. u \in added
                      BY <1>1, <2>1 DEF InMap
                <3>2. Fd(u)' = Fd(u) /\ Fd(u) # Fd(t) /\ Fd(u) \in expired
                      BY <1>5, <1>10, <2>1, <3>1
                <3>3. InMap(u)
                      BY <1>1, <2>1, <3>2 DEF InMap, Lookup
                <3> QED BY <1>7, <2>1, <3>2, <3>3 DEF MapInv, EdgesKept
          <2> QED BY <1>1, <2>1 DEF EdgesKept
    <1>13. LoopOK' /\ HashOK'
          BY <1>1, <1>7 DEF MapInv, LoopOK, HashOK, OnLoopThread, NoCall, NoIter, NoData, Lookup, Closed,
                            TimerFds
    <1>14. TableOK'
          <2>1. \A u \in added : timer'[u].live
                BY <1>10 DEF MapInv, TableOK
          <2>2. \A u \in Timers : ~timer'[u].live => Fd(u)' = Closed
                BY <1>3 DEF MapInv, TableOK
          <2>3. \A u \in Timers : Fd(u)' \in watched' <=> u \in added /\ Fd(u)' # Closed /\ call.t # u
                <3>1. Closed \notin watched'
                      BY <1>4, <1>5, <1>6
                <3>2. ASSUME NEW u \in Timers, u # t
                      PROVE  Fd(u)' \in watched' <=> u \in added /\ Fd(u)' # Closed /\ call.t # u
                      BY <1>3, <1>4, <1>5, <1>8, <3>1, <3>2 DEF MapInv, TableOK
                <3> QED BY <1>1, <1>3, <3>1, <3>2
          <2> QED BY <1>1, <2>1, <2>2, <2>3 DEF TableOK, Fd, Closed
    <1> QED BY <1>9, <1>11, <1>12, <1>13, <1>14 DEF MapInv

\* epoll_wait: what it takes out of the queue is stale or in hand.
LEMMA WaitInv ==
    ASSUME TimerMapAssumption, MapInv, Wait
    PROVE  MapInv'
    <1> DEFINE n == IF Len(edges) < mMaxCnt THEN Len(edges) ELSE mMaxCnt
               fresh == {k \in 1 .. n : edges[k] \in expired}
    <1>1. /\ pc = "wait" /\ pc' = IF events' = <<>> THEN "wait" ELSE "event"
          /\ UNCHANGED <<timer, mHash, added, open, armed, periodic, expired, watched, call, iter>>
          BY DEF Wait, kernel
    <1>2. /\ edges' = SubSeq(edges, n + 1, Len(edges))
          /\ \E at \in [1 .. Cardinality(fresh) -> fresh] :
                Range(at) = fresh /\ events' = [k \in DOMAIN at |-> edges[at[k]]]
          BY DEF Wait
    <1>3. edges \in Seq(TimerFds) /\ IsInjective(edges) /\ n \in 0 .. Len(edges)
          BY DEF MapInv, MapTypeOK, LoopOK, TimerMapAssumption
    <1>4. /\ events' \in Seq(TimerFds) /\ edges' \in Seq(TimerFds) /\ IsInjective(edges')
          /\ Range(edges') \subseteq Range(edges)
          /\ Range(edges) \cap expired \subseteq Range(edges') \cup Range(events')
          <2>1. PICK at \in [1 .. Cardinality(fresh) -> fresh] :
                      Range(at) = fresh /\ events' = [k \in DOMAIN at |-> edges[at[k]]]
                BY <1>2
          <2>2. /\ fresh \subseteq 1 .. n
                /\ \A k \in 1 .. n : edges[k] \in expired => k \in fresh
                OBVIOUS
          <2> HIDE DEF n, fresh
          <2>3. /\ edges' \in Seq(TimerFds) /\ IsInjective(edges')
                /\ Range(edges') = {edges[k] : k \in n + 1 .. Len(edges)}
                BY <1>2, <1>3, EdgesLeft
          <2>4. events' \in Seq(TimerFds) /\ \A k \in fresh : edges[k] \in Range(events')
                <3>1. events' = [k \in DOMAIN at |-> edges[at[k]]] /\ Range(at) = fresh
                      BY <2>1
                <3> QED BY <1>3, <2>2, <3>1, EventsFetched
          <2>5. Len(edges) \in Nat /\ DOMAIN edges = 1 .. Len(edges)
                BY <1>3
          <2>6. \A k \in DOMAIN edges : k \in 1 .. n \/ k \in n + 1 .. Len(edges)
                BY <1>3, <2>5
          <2>7. \A k \in n + 1 .. Len(edges) : k \in DOMAIN edges
                BY <1>3, <2>5
          <2>8. Range(edges') \subseteq Range(edges)
                BY <2>3, <2>7 DEF Range
          <2>9. Range(edges) \cap expired \subseteq Range(edges') \cup Range(events')
                BY <2>2, <2>3, <2>4, <2>6 DEF Range
          <2> QED BY <2>3, <2>4, <2>8, <2>9
    <1> HIDE DEF n, fresh
    <1>5. events = <<>> /\ pc' \in {"wait", "event"}
          BY <1>1 DEF MapInv, LoopOK
    <1>6. MapTypeOK'
          BY <1>1, <1>4 DEF MapInv, MapTypeOK, Fd, Closed
    <1>7. HashOK' /\ EntriesAreLive' /\ \A u : Fd(u)' = Fd(u) /\ (InMap(u)' <=> InMap(u))
          BY <1>1, <1>5, SameMap
    <1>8. EdgesKept'
          <2>1. Range(events) = {}
                BY <1>5 DEF Range
          <2>2. \A u \in Timers : InMap(u) /\ Fd(u) \in expired =>
                    Fd(u) \in Range(edges') \cup Range(events')
                BY <1>1, <1>4, <2>1 DEF MapInv, EdgesKept
          <2> QED BY <1>1, <1>7, <2>2 DEF EdgesKept
    <1>9. LoopOK' /\ TableOK'
          BY <1>1, <1>4, <1>5 DEF MapInv, LoopOK, TableOK, OnLoopThread, NoCall, Closed, TimerFds, Fd
    <1> QED BY <1>6, <1>7, <1>8, <1>9 DEF MapInv

\* The next event: what the loop is to find under its key is settled.
LEMMA LookupInv ==
    ASSUME TimerMapAssumption, MapInv, LookupEvent
    PROVE  MapInv'
    <1> DEFINE fd == Head(events)
    <1>0. TimerMapAssumption /\ MapInv
          OBVIOUS
    <1>1. /\ pc = "event" /\ events' = Tail(events)
          /\ iter' = IF Lookup(fd) = {} THEN NoIter ELSE fd
          /\ pc' \in {"walk", "torn"}
          /\ UNCHANGED <<timer, mHash, added, open, armed, periodic, expired, watched, edges, call>>
          BY DEF LookupEvent, kernel, epoll
    <1>2. /\ fd \in TimerFds /\ events' \in Seq(TimerFds)
          /\ Range(events) = {fd} \cup Range(events')
          <2>1. events \in Seq(TimerFds) /\ events # <<>>
                BY <1>1 DEF MapInv, LoopOK
          <2> QED BY <1>1, <2>1, EventTaken
    <1> HIDE DEF fd
    <1>3. MapTypeOK'
          BY <1>1 DEF MapInv, MapTypeOK, Fd, Closed
    <1>4. /\ HashOK' /\ EntriesAreLive' /\ \A u : Fd(u)' = Fd(u) /\ (InMap(u)' <=> InMap(u))
          /\ \A x : Lookup(x)' = Lookup(x)
          BY <1>1, SameMap
    <1>5. EdgesKept'
          <2>1. ASSUME NEW u \in Timers, InMap(u), Fd(u) \in expired
                PROVE  Fd(u) \in Range(edges) \cup Range(events') \/ iter' = Fd(u)
                <3>1. Fd(u) \in Range(edges) \cup {fd} \cup Range(events')
                      BY <1>1, <1>2, <2>1 DEF MapInv, EdgesKept
                <3>2. Lookup(Fd(u)) # {}
                      BY <2>1 DEF InMap
                <3> QED BY <1>1, <3>1, <3>2
          <2> QED BY <1>1, <1>4, <2>1 DEF EdgesKept
    <1>6. LoopOK'
          <2>1. iter' = NoIter \/ (iter' \in TimerFds /\ Lookup(iter') # {})
                BY <1>1, <1>2
          <2>2. call.by # "loop" /\ call.op # "del"
                BY <1>1 DEF MapInv, LoopOK, OnLoopThread
          <2>3. pc' = "walk" => iter' = NoIter \/ (iter' \in TimerFds /\ Lookup(iter)' # {})
                BY <1>1, <2>1 DEF Lookup
          <2> QED BY <1>1, <1>2, <2>2, <2>3 DEF MapInv, LoopOK, NoCall, NoIter, TimerFds
    <1>7. TableOK'
          BY <1>1 DEF MapInv, TableOK, Closed, Fd
    <1> QED BY <1>3, <1>4, <1>5, <1>6, <1>7 DEF MapInv

\* What is reported of a timer: its entry is there, with the data of a living
\* timer or of one that is being added.
LEMMA FoundEntry ==
    ASSUME TimerMapAssumption, MapInv, pc = "exec"
    PROVE  /\ \E e \in Lookup(iter) : TRUE
           /\ \A e \in Lookup(iter) :
                 e.data # NoData => e.data \in Timers /\ timer[e.data].live /\ Fd(e.data) = iter
           /\ \A u \in Timers : (InMap(u) /\ Fd(u) = iter) => \A e \in Lookup(iter) : e.data = u
           /\ call.by # "loop" /\ iter \in TimerFds
    <1>1. /\ \A e \in mHash : e.data \in Timers \cup {NoData}
          /\ \A e \in mHash : (e.matches /\ e.data # NoData) =>
                timer[e.data].live /\ e.data \in added /\ Fd(e.data) = e.key
          BY Entries
    <1>2. Lookup(iter) # {} /\ iter \in TimerFds /\ call.by # "loop"
          BY DEF MapInv, LoopOK, OnLoopThread
    <1>3. ASSUME NEW u \in Timers, InMap(u), Fd(u) = iter, NEW e \in Lookup(iter)
          PROVE  e.data = u
          <2>1. PICK f \in mHash : f.key = iter /\ f.matches /\ f.data = u
                BY <1>3 DEF InMap, Lookup
          <2>2. e \in mHash /\ e.key = iter /\ e.matches
                BY <1>3 DEF Lookup
          <2>3. e = f
                BY <2>1, <2>2 DEF MapInv, HashOK
          <2> QED BY <2>1, <2>3
    <1>4. \A e \in Lookup(iter) :
             e.data # NoData => e.data \in Timers /\ timer[e.data].live /\ Fd(e.data) = iter
          BY <1>1 DEF Lookup
    <1> QED BY <1>2, <1>3, <1>4

\* timermap_listen goes on with what it found.
LEMMA FoundInv ==
    ASSUME TimerMapAssumption, MapInv, Return \/ Found \/ SkipNull
    PROVE  MapInv'
    <1>0. TimerMapAssumption /\ MapInv
          OBVIOUS
    <1>1. /\ UNCHANGED <<timer, mHash, added, open, armed, periodic, expired, watched, edges, call, events>>
          /\ call.by # "loop"
          /\ \/ /\ pc \in {"setup", "callback"} /\ iter' = iter
                /\ pc' = IF pc = "setup" \/ events = <<>> THEN "wait" ELSE "event"
             \/ pc = "walk" /\ iter = NoIter /\ iter' = iter /\ pc' = NextEvent
             \/ pc = "walk" /\ iter # NoIter /\ iter' = iter /\ pc' = "exec"
             \/ pc = "exec" /\ iter' = NoIter /\ pc' = NextEvent /\ \E e \in Lookup(iter) : e.data = NoData
          <2>1. CASE Return
                BY <2>1 DEF Return, OnLoopThread, kernel, epoll
          <2>2. CASE Found
                <3>1. pc = "walk" => call.by # "loop"
                      BY DEF MapInv, LoopOK, OnLoopThread
                <3> QED BY <2>2, <3>1 DEF Found, kernel, epoll
          <2>3. CASE SkipNull
                <3>1. pc = "exec" => call.by # "loop"
                      BY DEF MapInv, LoopOK, OnLoopThread
                <3> QED BY <2>3, <3>1 DEF SkipNull, kernel, epoll
          <2> QED BY <2>1, <2>2, <2>3
    <1>2. pc' \in {"wait", "event", "exec"} /\ pc \notin {"torn", "wait", "event"}
          BY <1>1 DEF NextEvent
    <1>3. MapTypeOK'
          BY <1>1, <1>2 DEF MapInv, MapTypeOK, Fd, Closed
    <1>4. /\ HashOK' /\ EntriesAreLive' /\ \A u : Fd(u)' = Fd(u) /\ (InMap(u)' <=> InMap(u))
          /\ \A x : Lookup(x)' = Lookup(x)
          BY <1>1, <1>2, SameMap
    <1>5. EdgesKept'
          <2>1. ASSUME NEW u \in Timers, InMap(u), Fd(u) \in expired
                PROVE  \/ Fd(u) \in Range(edges) \cup Range(events)
                       \/ pc' = "exec" /\ iter' = Fd(u)
                <3>1. \/ Fd(u) \in Range(edges) \cup Range(events)
                      \/ pc \in {"walk", "exec"} /\ iter = Fd(u)
                      BY <1>2, <2>1 DEF MapInv, EdgesKept
                <3>2. ASSUME pc \in {"walk", "exec"}, iter = Fd(u) PROVE pc' = "exec" /\ iter' = Fd(u)
                      <4>1. u # NoData
                            BY <1>0, Entries
                      <4>2. Fd(u) \in open
                            BY <2>1 DEF MapInv, MapTypeOK
                      <4>3. Fd(u) # NoIter
                            BY <1>0, <2>1, <4>2, Owners DEF NoIter
                      <4>4. pc = "exec" => ~\E e \in Lookup(iter) : e.data = NoData
                            BY <1>0, <2>1, <3>2, <4>1, FoundEntry
                      <4> QED BY <1>1, <3>2, <4>3, <4>4
                <3> QED BY <3>1, <3>2
          <2> QED BY <1>1, <1>4, <2>1 DEF EdgesKept
    <1>6. LoopOK'
          <2>1. pc' \in {"setup", "wait"} => events = <<>>
                BY <1>1 DEF MapInv, LoopOK, NextEvent
          <2>2. pc' = "event" => events # <<>>
                BY <1>1 DEF MapInv, LoopOK, NextEvent
          <2>3. pc' = "exec" => iter' \in TimerFds /\ Lookup(iter') # {}
                <3>1. pc' = "exec" => pc = "walk" /\ iter # NoIter /\ iter' = iter
                      BY <1>1 DEF NextEvent
                <3> QED BY <3>1 DEF MapInv, LoopOK
          <2>4. pc' = "exec" => iter' \in TimerFds /\ Lookup(iter)' # {}
                BY <1>1, <2>3 DEF Lookup
          <2>5. call.op # "del"
                BY <1>1 DEF MapInv, LoopOK
          <2> QED BY <1>1, <1>2, <2>1, <2>2, <2>4, <2>5 DEF MapInv, LoopOK, NoCall, NoIter, TimerFds
    <1>7. TableOK'
          BY <1>1 DEF MapInv, TableOK, Closed, Fd
    <1> QED BY <1>3, <1>4, <1>5, <1>6, <1>7 DEF MapInv

\* timer_exec.
LEMMA ExecInv ==
    ASSUME TimerMapAssumption, MapInv, Exec
    PROVE  MapInv'
    <1>0. TimerMapAssumption /\ MapInv /\ pc = "exec"
          BY DEF Exec
    <1>1. /\ \E e \in Lookup(iter) : TRUE
          /\ \A e \in Lookup(iter) : e.data \in Timers /\ timer[e.data].live /\ Fd(e.data) = iter
          /\ call.by # "loop" /\ iter \in TimerFds
          <2>1. \A e \in Lookup(iter) : e.data # NoData
                BY DEF Exec
          <2> QED BY <1>0, <2>1, FoundEntry
    <1>2. /\ iter' = NoIter
          /\ UNCHANGED <<timer, mHash, added, open, periodic, watched, edges, call, events>>
          /\ pc' = IF iter \in expired THEN "callback" ELSE NextEvent
          /\ armed' = IF iter \in expired THEN armed \cup (periodic \cap {iter}) ELSE armed
          /\ expired' = expired \ {iter}
          <2>1. PICK e \in Lookup(iter) :
                   /\ pc' = IF Fd(e.data) \in expired THEN "callback" ELSE NextEvent
                   /\ armed' = IF Fd(e.data) \in expired THEN armed \cup (periodic \cap {Fd(e.data)})
                               ELSE armed
                   /\ expired' = expired \ {Fd(e.data)}
                BY <1>1 DEF Exec
          <2>2. Fd(e.data) = iter
                BY <1>1
          <2>3. iter' = NoIter /\ UNCHANGED <<timer, mHash, added, open, periodic, watched, edges, call, events>>
                BY DEF Exec, epoll
          <2> QED BY <2>1, <2>2, <2>3
    <1>3. pc' \in {"callback", "wait", "event"}
          BY <1>2 DEF NextEvent
    <1>4. MapTypeOK'
          <2>1. armed' \cup expired' \cup watched \cup periodic \subseteq open
                BY <1>2 DEF MapInv, MapTypeOK
          <2> QED BY <1>2, <1>3, <2>1 DEF MapInv, MapTypeOK, Fd, Closed
    <1>5. HashOK' /\ EntriesAreLive' /\ \A u : Fd(u)' = Fd(u) /\ (InMap(u)' <=> InMap(u))
          BY <1>2, <1>3, SameMap
    <1>6. EdgesKept'
          <2>1. \A u \in Timers : InMap(u) /\ Fd(u) \in expired' =>
                    Fd(u) \in Range(edges) \cup Range(events)
                BY <1>0, <1>2 DEF MapInv, EdgesKept
          <2> QED BY <1>2, <1>5, <2>1 DEF EdgesKept
    <1>7. LoopOK'
          <2>1. pc' = "wait" => events = <<>>
                BY <1>2 DEF NextEvent
          <2>2. pc' = "event" => events # <<>>
                BY <1>2 DEF NextEvent
          <2>3. call.op # "del"
                BY <1>1 DEF MapInv, LoopOK
          <2> QED BY <1>1, <1>2, <1>3, <2>1, <2>2, <2>3 DEF MapInv, LoopOK, NoCall, TimerFds
    <1>8. TableOK'
          BY <1>2 DEF MapInv, TableOK, Closed, Fd
    <1> QED BY <1>4, <1>5, <1>6, <1>7, <1>8 DEF MapInv

\* An expiration is queued when epoll watches the descriptor; when it does not,
\* the timer is in no map or a call is about to put it there or to take it out.
LEMMA ExpireInv ==
    ASSUME TimerMapAssumption, MapInv, NEW fd \in TimerFds, Expire(fd)
    PROVE  MapInv'
    <1>1. /\ fd \in armed /\ armed' = armed \ {fd} /\ expired' = expired \cup {fd}
          /\ edges' = IF fd \in watched /\ fd \notin Range(edges) THEN Append(edges, fd) ELSE edges
          /\ UNCHANGED <<timer, mHash, added, open, periodic, watched, call, pc, events, iter>>
          BY DEF Expire, listen
    <1>2. /\ edges \in Seq(TimerFds) /\ IsInjective(edges) /\ Range(edges) \subseteq watched
          /\ fd \in open
          BY <1>1 DEF MapInv, MapTypeOK, LoopOK
    <1>3. /\ edges' \in Seq(TimerFds) /\ IsInjective(edges')
          /\ Range(edges') = Range(edges) \cup (watched \cap {fd})
          <2>1. CASE fd \in watched /\ fd \notin Range(edges)
                BY <1>1, <1>2, <2>1, EdgeAppended
          <2>2. CASE ~(fd \in watched /\ fd \notin Range(edges))
                BY <1>1, <1>2, <2>2
          <2> QED BY <2>1, <2>2
    <1>4. MapTypeOK'
          <2>1. Range(edges') \subseteq watched /\ armed' \cup expired' \cup watched \cup periodic \subseteq open
                BY <1>1, <1>2, <1>3 DEF MapInv, MapTypeOK
          <2> QED BY <1>1, <1>3, <2>1 DEF MapInv, MapTypeOK, Fd, Closed
    <1>5. HashOK' /\ EntriesAreLive' /\ \A u : Fd(u)' = Fd(u) /\ (InMap(u)' <=> InMap(u))
          BY <1>1, SameMap DEF MapInv, EntriesAreLive
    <1>6. EdgesKept'
          <2>1. ASSUME NEW u \in Timers, InMap(u), Fd(u) \in expired', pc # "torn"
                PROVE  \/ Fd(u) \in Range(edges') \cup Range(events)
                       \/ pc \in {"walk", "exec"} /\ iter = Fd(u)
                <3>1. CASE Fd(u) = fd
                      <4>1. Fd(u) # Closed
                            BY <1>2, <3>1 DEF MapInv, MapTypeOK
                      <4>2. Fd(u) \in watched
                            BY <2>1, <4>1 DEF MapInv, TableOK, InMap
                      <4> QED BY <1>3, <3>1, <4>2
                <3>2. CASE Fd(u) # fd
                      BY <1>1, <1>3, <2>1, <3>2 DEF MapInv, EdgesKept
                <3> QED BY <3>1, <3>2
          <2> QED BY <1>1, <1>5, <2>1 DEF EdgesKept
    <1>7. LoopOK' /\ TableOK'
          BY <1>1, <1>3 DEF MapInv, LoopOK, TableOK, OnLoopThread, NoCall, NoIter, Lookup, Closed, TimerFds, Fd
    <1> QED BY <1>4, <1>5, <1>6, <1>7 DEF MapInv

\* Every step of the application, of timermap_listen and of the kernel.
LEMMA MapNextInv ==
    ASSUME TimerMapAssumption PROVE MapInv /\ [MapNext]_map_vars => MapInv'
    <1> SUFFICES ASSUME MapInv, [MapNext]_map_vars PROVE MapInv'
        OBVIOUS
    <1>1. ASSUME NEW t \in Timers, MapAppStep(t) PROVE MapInv'
          <2>1. CASE \E repeat \in BOOLEAN : create_timer(t, repeat)
                BY <2>1, CreateInv
          <2>2. CASE timer_start(t) \/ AddHash(t) \/ DelEpoll(t)
                BY <2>2, StartInv, AddHashInv, DelEpollInv
          <2>3. CASE Finish(t)
                BY <2>3, GrownInv, AddDataInv, AddEpollInv, DelHashInv DEF Finish
          <2>4. CASE timer_stop(t) \/ delete_timer(t)
                BY <2>4, CloseInv
          <2> QED BY <1>1, <2>1, <2>2, <2>3, <2>4 DEF MapAppStep
    <1>2. CASE Return \/ LoopStep
          BY <1>2, WaitInv, LookupInv, FoundInv, ExecInv DEF LoopStep
    <1>3. ASSUME NEW fd \in TimerFds, Expire(fd) PROVE MapInv'
          BY <1>3, ExpireInv
    <1>4. CASE UNCHANGED map_vars
          <2>1. UNCHANGED <<timer, mHash, added, open, armed, periodic, expired, watched, edges,
                            call, pc, events, iter>>
                BY <1>4 DEF map_vars, kernel, epoll, listen
          <2>2. HashOK' /\ EntriesAreLive' /\ \A u : Fd(u)' = Fd(u) /\ (InMap(u)' <=> InMap(u))
                BY <2>1, SameMap DEF MapInv, EntriesAreLive
          <2>3. MapTypeOK' /\ EdgesKept'
                BY <2>1, <2>2 DEF MapInv, MapTypeOK, EdgesKept, Fd, Closed
          <2>4. LoopOK' /\ TableOK'
                BY <2>1 DEF MapInv, LoopOK, TableOK, OnLoopThread, NoCall, NoIter, Lookup, Closed, TimerFds, Fd
          <2> QED BY <2>2, <2>3, <2>4 DEF MapInv
    <1> QED BY <1>1, <1>2, <1>3, <1>4 DEF MapNext

\* For any timers and descriptors and any size of epoll_wait's batch, and with a
\* second thread that creates, starts and adds timers between the loop's steps,
\* within its walks along the table and even while its own addTimer is half done:
\* an entry that is found always leads to the living timer that owns the
\* descriptor or, for a moment, to none; the loop follows no freed pointer; and the
\* edge of an expired timer that is found is queued in epoll or in the hands of
\* timermap_listen, unless a rehash has torn the walk.
THEOREM MapLosesNoEdge ==
    ASSUME TimerMapAssumption PROVE MapSpec => []NoLostEdge
    <1>1. MapInv => NoLostEdge
          BY DEF MapInv, NoLostEdge
    <1>2. MapInv /\ [MapNext]_map_vars => MapInv'
          BY MapNextInv
    <1> QED BY MapInitInv, <1>1, <1>2, PTL DEF MapSpec

-----------------------------------------------------------------------------
(* The chains of iterators of a safe list.                                 *)

\* The places that hold a pointer to an iterator: a node's i and an iterator's
\* next_i.
Location == ({"node"} \X Nodes) \cup ({"iter"} \X Depths)
Iterator == [next : Nodes, next_i : Depths \cup {None}, head : Location]
ChainState == [i : [Nodes -> Depths \cup {None}], iter : [Depths -> Iterator]]

\* The iterators of the loops R hang on the nodes they go to next, doubly
\* linked, and none is reached by another's chain: along a chain rank falls.
Linked(s, R, rank) ==
    /\ \A x \in Nodes : s.i[x] # None => s.i[x] \in R /\ s.iter[s.i[x]].head = <<"node", x>>
    /\ \A d \in R :
         \/ s.iter[d].head = <<"node", s.iter[d].next>> /\ s.i[s.iter[d].next] = d
         \/ \E b \in R : /\ s.iter[d].head = <<"iter", b>> /\ s.iter[b].next_i = d
                         /\ s.iter[b].next = s.iter[d].next /\ rank[d] < rank[b]
    /\ \A d \in R : s.iter[d].next_i # None =>
         s.iter[d].next_i \in R /\ s.iter[s.iter[d].next_i].head = <<"iter", d>>

Chained(s, R) ==
    \E N \in Nat : \E rank \in [Depths -> 0 .. N] : Linked(s, R, rank)

\* A node is no iterator.
LEMMA Locations ==
    /\ \A x, b : <<"node", x>> # <<"iter", b>>
    /\ \A x, y : <<"node", x>> = <<"node", y>> => x = y
    /\ \A b, c : <<"iter", b>> = <<"iter", c>> => b = c
    OBVIOUS

\* The numbers of the loops.
LEMMA LoopNumbers ==
    ASSUME SafeListAssumption
    PROVE  None \notin Depths /\ Depths \subseteq Nat
    BY DEF SafeListAssumption, None, Depths

\* The parts of a state of the chains.
LEMMA ChainStateParts ==
    ASSUME NEW s \in ChainState
    PROVE  /\ s.i \in [Nodes -> Depths \cup {None}] /\ s.iter \in [Depths -> Iterator]
           /\ \A d \in Depths : /\ s.iter[d].next \in Nodes /\ s.iter[d].head \in Location
                                /\ s.iter[d].next_i \in Depths \cup {None}
    BY DEF ChainState, Iterator

\* The state r is s with the head of iterator d set to a location.
HeadSet(r, s, d, location) ==
    /\ r.i = s.i
    /\ \A e \in Depths :
         /\ r.iter[e].next = s.iter[e].next /\ r.iter[e].next_i = s.iter[e].next_i
         /\ r.iter[e].head = IF e = d THEN location ELSE s.iter[e].head

\* SetHead does that, and nothing when there is no iterator.
LEMMA SetHeadFacts ==
    ASSUME SafeListAssumption, NEW s \in ChainState, NEW d \in Depths \cup {None},
           NEW location \in Location
    PROVE  SetHead(s, d, location) \in ChainState /\ HeadSet(SetHead(s, d, location), s, d, location)
    <1> DEFINE r == SetHead(s, d, location)
    <1>1. None \notin Depths
          BY LoopNumbers
    <1>2. s.i \in [Nodes -> Depths \cup {None}] /\ s.iter \in [Depths -> Iterator]
          BY ChainStateParts
    <1>3. CASE d = None
          BY <1>1, <1>3 DEF SetHead, HeadSet
    <1>4. CASE d # None
          <2>1. d \in Depths
                BY <1>4
          <2> DEFINE f == s.iter
                     g == [f EXCEPT ![d].head = location]
          <2>2. r = [i |-> s.i, iter |-> g]
                BY <1>2, <1>4 DEF SetHead, ChainState
          <2>3. g \in [Depths -> Iterator]
                BY <1>2, <2>1 DEF Iterator
          <2>4. \A e \in Depths : /\ g[e].next = f[e].next /\ g[e].next_i = f[e].next_i
                                  /\ g[e].head = IF e = d THEN location ELSE f[e].head
                BY <1>2, <2>1 DEF Iterator
          <2> HIDE DEF g
          <2> QED BY <1>2, <2>2, <2>3, <2>4 DEF ChainState, HeadSet
    <1> QED BY <1>3, <1>4

\* The state r is s with d stored at a location.
Stored(r, s, location, d) ==
    /\ \A x \in Nodes : r.i[x] = IF location = <<"node", x>> THEN d ELSE s.i[x]
    /\ \A e \in Depths :
         /\ r.iter[e].next = s.iter[e].next /\ r.iter[e].head = s.iter[e].head
         /\ r.iter[e].next_i = IF location = <<"iter", e>> THEN d ELSE s.iter[e].next_i

\* Store does that, whether the location is a node's or an iterator's.
LEMMA StoreFacts ==
    ASSUME SafeListAssumption, NEW s \in ChainState, NEW d \in Depths \cup {None},
           NEW location \in Location
    PROVE  Store(s, location, d) \in ChainState /\ Stored(Store(s, location, d), s, location, d)
    <1> DEFINE r == Store(s, location, d)
    <1>1. s.i \in [Nodes -> Depths \cup {None}] /\ s.iter \in [Depths -> Iterator]
          BY ChainStateParts
    <1>2. ASSUME NEW y \in Nodes, location = <<"node", y>>
          PROVE  r \in ChainState /\ Stored(r, s, location, d)
          <2> DEFINE f == s.i
                     g == [f EXCEPT ![y] = d]
          <2>1. r = [i |-> g, iter |-> s.iter]
                BY <1>1, <1>2 DEF Store, ChainState
          <2>2. g \in [Nodes -> Depths \cup {None}] /\ \A x \in Nodes : g[x] = IF x = y THEN d ELSE f[x]
                BY <1>1
          <2> HIDE DEF g
          <2>3. r \in ChainState
                BY <1>1, <2>1, <2>2 DEF ChainState
          <2> QED BY <1>2, <2>1, <2>2, <2>3, Locations DEF Stored
    <1>3. ASSUME NEW b \in Depths, location = <<"iter", b>>
          PROVE  r \in ChainState /\ Stored(r, s, location, d)
          <2> DEFINE f == s.iter
                     g == [f EXCEPT ![b].next_i = d]
          <2>1. r = [i |-> s.i, iter |-> g]
                BY <1>1, <1>3 DEF Store, ChainState
          <2>2. g \in [Depths -> Iterator]
                BY <1>1 DEF Iterator
          <2>3. \A e \in Depths : /\ g[e].next = f[e].next /\ g[e].head = f[e].head
                                  /\ g[e].next_i = IF e = b THEN d ELSE f[e].next_i
                BY <1>1 DEF Iterator
          <2> HIDE DEF g
          <2>4. r \in ChainState
                BY <1>1, <2>1, <2>2 DEF ChainState
          <2> QED BY <1>3, <2>1, <2>3, <2>4, Locations DEF Stored
    <1> QED BY <1>2, <1>3 DEF Location

\* __safe_list_del_iterator, field by field: what d's place held is now what d
\* pointed to, and its head is d's.
Unhooked(r, s, h, c) ==
    /\ \A x \in Nodes : r.i[x] = IF h = <<"node", x>> THEN c ELSE s.i[x]
    /\ \A e \in Depths :
         /\ r.iter[e].next = s.iter[e].next
         /\ r.iter[e].next_i = IF h = <<"iter", e>> THEN c ELSE s.iter[e].next_i
         /\ r.iter[e].head = IF e = c THEN h ELSE s.iter[e].head

\* The store and the new head of the iterator behind d do not disturb each other.
LEMMA DelIteratorFields ==
    ASSUME SafeListAssumption, NEW s \in ChainState, NEW d \in Depths
    PROVE  /\ DelIterator(s, d) \in ChainState
           /\ Unhooked(DelIterator(s, d), s, s.iter[d].head, s.iter[d].next_i)
    <1> DEFINE h == s.iter[d].head
               c == s.iter[d].next_i
               q == Store(s, h, c)
               r == SetHead(q, c, h)
    <1>1. h \in Location /\ c \in Depths \cup {None}
          BY ChainStateParts
    <1> HIDE DEF h, c
    <1>2. q \in ChainState /\ Stored(q, s, h, c)
          BY <1>1, StoreFacts
    <1> HIDE DEF q
    <1>3. r \in ChainState /\ HeadSet(r, q, c, h)
          BY <1>1, <1>2, SetHeadFacts
    <1>4. DelIterator(s, d) = r
          BY DEF DelIterator, q, h, c
    <1> HIDE DEF r
    <1>5. Unhooked(r, s, h, c)
          BY <1>2, <1>3 DEF Stored, HeadSet, Unhooked
    <1> QED BY <1>3, <1>4, <1>5 DEF h, c

\* An iterator taken out of its chain leaves the chain of the others whole.
LEMMA DelIteratorFacts ==
    ASSUME SafeListAssumption, NEW s \in ChainState, NEW R \in SUBSET Depths, Chained(s, R),
           NEW d \in R, NEW r, r = DelIterator(s, d)
    PROVE  /\ r \in ChainState /\ Chained(r, R \ {d})
           /\ \A e \in Depths : r.iter[e].next = s.iter[e].next
    <1>1. d \in Depths /\ None \notin R /\ None \notin Depths
          BY LoopNumbers
    <1>2. PICK h, c : h = s.iter[d].head /\ c = s.iter[d].next_i
          OBVIOUS
    <1>0. r \in ChainState /\ Unhooked(r, s, h, c)
          BY <1>1, <1>2, DelIteratorFields
    <1>3. /\ r \in ChainState
          /\ \A x \in Nodes : r.i[x] = IF h = <<"node", x>> THEN c ELSE s.i[x]
          /\ \A e \in Depths :
               /\ r.iter[e].next = s.iter[e].next
               /\ r.iter[e].next_i = IF h = <<"iter", e>> THEN c ELSE s.iter[e].next_i
               /\ r.iter[e].head = IF e = c THEN h ELSE s.iter[e].head
          BY <1>0 DEF Unhooked
    <1>4. PICK N \in Nat : \E rank \in [Depths -> 0 .. N] : Linked(s, R, rank)
          BY DEF Chained
    <1>5. PICK rank \in [Depths -> 0 .. N] : Linked(s, R, rank)
          BY <1>4
    <1>6. \A e \in R : rank[e] \in Int /\ e \in Depths /\ s.iter[e].next \in Nodes
          BY ChainStateParts
    <1>7. \A x \in Nodes : s.i[x] # None => s.i[x] \in R /\ s.iter[s.i[x]].head = <<"node", x>>
          BY <1>5 DEF Linked
    <1>8. \A e \in R :
             \/ s.iter[e].head = <<"node", s.iter[e].next>> /\ s.i[s.iter[e].next] = e
             \/ \E b \in R : /\ s.iter[e].head = <<"iter", b>> /\ s.iter[b].next_i = e
                             /\ s.iter[b].next = s.iter[e].next /\ rank[e] < rank[b]
          BY <1>5 DEF Linked
    <1>9. \A e \in R : s.iter[e].next_i # None =>
             s.iter[e].next_i \in R /\ s.iter[s.iter[e].next_i].head = <<"iter", e>>
          BY <1>5 DEF Linked
    <1>10. c # None => /\ c \in R /\ s.iter[c].head = <<"iter", d>> /\ c # d
                       /\ s.iter[c].next = s.iter[d].next /\ rank[c] < rank[d]
          BY <1>2, <1>6, <1>8, <1>9, Locations
    <1>11. /\ \A e \in R : s.iter[e].head = <<"iter", d>> => e = c
           /\ \A e \in R : s.iter[e].head = h => e = d
          <2>1. ASSUME NEW e \in R, s.iter[e].head = <<"iter", d>> PROVE e = c
                BY <1>2, <1>8, <2>1, Locations
          <2>2. ASSUME NEW e \in R, s.iter[e].head = h PROVE e = d
                BY <1>2, <1>8, <2>2, Locations
          <2> QED BY <2>1, <2>2
    <1>12. ASSUME NEW x \in Nodes, r.i[x] # None
           PROVE  r.i[x] \in R \ {d} /\ r.iter[r.i[x]].head = <<"node", x>>
          <2>1. CASE h = <<"node", x>>
                <3>1. r.i[x] = c
                      BY <1>3, <2>1
                <3> QED BY <1>3, <1>6, <1>10, <1>12, <2>1, <3>1
          <2>2. CASE h # <<"node", x>>
                <3>1. r.i[x] = s.i[x]
                      BY <1>3, <2>2
                <3>2. s.i[x] \in R /\ s.iter[s.i[x]].head = <<"node", x>>
                      BY <1>7, <1>12, <3>1
                <3>3. s.i[x] # d /\ s.i[x] # c
                      BY <1>2, <1>10, <1>12, <2>2, <3>1, <3>2, Locations
                <3> QED BY <1>3, <1>6, <3>1, <3>2, <3>3
          <2> QED BY <2>1, <2>2
    <1>13. ASSUME NEW e \in R \ {d}
           PROVE  \/ r.iter[e].head = <<"node", r.iter[e].next>> /\ r.i[r.iter[e].next] = e
                  \/ \E b \in R \ {d} :
                       /\ r.iter[e].head = <<"iter", b>> /\ r.iter[b].next_i = e
                       /\ r.iter[b].next = r.iter[e].next /\ rank[e] < rank[b]
          <2>1. CASE e = c
                <3>1. /\ r.iter[e].head = h /\ r.iter[e].next = s.iter[d].next
                      /\ rank[e] < rank[d] /\ s.iter[d].next \in Nodes
                      BY <1>1, <1>3, <1>6, <1>10, <2>1
                <3>2. CASE h = <<"node", s.iter[d].next>>
                      BY <1>3, <2>1, <3>1, <3>2
                <3>3. ASSUME NEW b \in R, h = <<"iter", b>>, s.iter[b].next_i = d,
                             s.iter[b].next = s.iter[d].next, rank[d] < rank[b]
                      PROVE  \E b2 \in R \ {d} :
                                /\ r.iter[e].head = <<"iter", b2>> /\ r.iter[b2].next_i = e
                                /\ r.iter[b2].next = r.iter[e].next /\ rank[e] < rank[b2]
                      <4>1. b # d /\ rank[e] < rank[b]
                            BY <1>6, <3>1, <3>3
                      <4>2. r.iter[b].next_i = e /\ r.iter[b].next = r.iter[e].next
                            BY <1>3, <1>6, <2>1, <3>1, <3>3
                      <4> QED BY <3>1, <3>3, <4>1, <4>2
                <3> QED BY <1>2, <1>8, <3>2, <3>3
          <2>2. CASE e # c
                <3>1. /\ r.iter[e].head = s.iter[e].head /\ r.iter[e].next = s.iter[e].next
                      /\ s.iter[e].head # h /\ s.iter[e].next \in Nodes
                      BY <1>3, <1>6, <1>11, <2>2
                <3>2. CASE s.iter[e].head = <<"node", s.iter[e].next>> /\ s.i[s.iter[e].next] = e
                      BY <1>3, <3>1, <3>2
                <3>3. ASSUME NEW b \in R, s.iter[e].head = <<"iter", b>>, s.iter[b].next_i = e,
                             s.iter[b].next = s.iter[e].next, rank[e] < rank[b]
                      PROVE  \E b2 \in R \ {d} :
                                /\ r.iter[e].head = <<"iter", b2>> /\ r.iter[b2].next_i = e
                                /\ r.iter[b2].next = r.iter[e].next /\ rank[e] < rank[b2]
                      <4>1. b # d
                            BY <1>11, <2>2, <3>3
                      <4>2. r.iter[b].next_i = e /\ r.iter[b].next = r.iter[e].next
                            BY <1>3, <1>6, <3>1, <3>3
                      <4> QED BY <3>1, <3>3, <4>1, <4>2
                <3> QED BY <1>8, <3>2, <3>3
          <2> QED BY <2>1, <2>2
    <1>14. ASSUME NEW e \in R \ {d}, r.iter[e].next_i # None
           PROVE  r.iter[e].next_i \in R \ {d} /\ r.iter[r.iter[e].next_i].head = <<"iter", e>>
          <2>1. CASE h = <<"iter", e>>
                <3>1. r.iter[e].next_i = c
                      BY <1>3, <1>6, <2>1
                <3> QED BY <1>3, <1>6, <1>10, <1>14, <2>1, <3>1
          <2>2. CASE h # <<"iter", e>>
                <3>1. r.iter[e].next_i = s.iter[e].next_i
                      BY <1>3, <1>6, <2>2
                <3>2. s.iter[e].next_i \in R /\ s.iter[s.iter[e].next_i].head = <<"iter", e>>
                      BY <1>9, <1>14, <3>1
                <3>3. s.iter[e].next_i # d /\ s.iter[e].next_i # c
                      BY <1>2, <1>10, <1>14, <2>2, <3>1, <3>2, Locations
                <3> QED BY <1>3, <1>6, <3>1, <3>2, <3>3
          <2> QED BY <2>1, <2>2
    <1>15. Linked(r, R \ {d}, rank)
          BY <1>12, <1>13, <1>14 DEF Linked
    <1> QED BY <1>3, <1>15 DEF Chained

\* __safe_list_set_iterator, field by field: d is first on y, before f.
Hooked(r, s, y, d, f) ==
    /\ \A x \in Nodes : r.i[x] = IF x = y THEN d ELSE s.i[x]
    /\ \A e \in Depths :
         /\ r.iter[e].next = IF e = d THEN y ELSE s.iter[e].next
         /\ r.iter[e].next_i = IF e = d THEN f ELSE s.iter[e].next_i
         /\ r.iter[e].head = IF e = f THEN <<"iter", d>>
                            ELSE IF e = d THEN <<"node", y>> ELSE s.iter[e].head

\* The iterator that was first on y, if any, is now behind d.
LEMMA SetIteratorFields ==
    ASSUME SafeListAssumption, NEW s \in ChainState, NEW d \in Depths, NEW x, NextOf(x) \in Nodes
    PROVE  /\ SetIterator(s, x, d) \in ChainState
           /\ Hooked(SetIterator(s, x, d), s, NextOf(x), d, s.i[NextOf(x)])
    <1> DEFINE y == NextOf(x)
               f == s.i[y]
               new == [next |-> y, next_i |-> f, head |-> <<"node", y>>]
               si == s.i
               st == s.iter
               ui == [si EXCEPT ![y] = d]
               ut == [st EXCEPT ![d] = new]
               u == [i |-> ui, iter |-> ut]
               r == SetHead(u, f, <<"iter", d>>)
    <1>1. SetIterator(s, x, d) = r
          BY DEF SetIterator
    <1>2. y \in Nodes
          OBVIOUS
    <1> HIDE DEF y
    <1>3. s.i \in [Nodes -> Depths \cup {None}] /\ s.iter \in [Depths -> Iterator]
          BY ChainStateParts
    <1>4. f \in Depths \cup {None}
          BY <1>2, <1>3
    <1> HIDE DEF f
    <1>5. new \in Iterator /\ new.next = y /\ new.next_i = f /\ new.head = <<"node", y>>
          BY <1>2, <1>4 DEF Iterator, Location
    <1> HIDE DEF new
    <1>7. ui \in [Nodes -> Depths \cup {None}] /\ \A z \in Nodes : ui[z] = IF z = y THEN d ELSE s.i[z]
          BY <1>2, <1>3
    <1>8. ut \in [Depths -> Iterator] /\ \A e \in Depths : ut[e] = IF e = d THEN new ELSE s.iter[e]
          BY <1>3, <1>5
    <1> HIDE DEF ui, ut, u
    <1>9. u \in ChainState /\ u.i = ui /\ u.iter = ut
          BY <1>7, <1>8 DEF ChainState, u
    <1>10. <<"iter", d>> \in Location
          BY DEF Location
    <1>11. r \in ChainState /\ HeadSet(r, u, f, <<"iter", d>>)
          BY <1>4, <1>9, <1>10, SetHeadFacts
    <1> HIDE DEF r
    <1>12. Hooked(r, s, y, d, f)
          BY <1>5, <1>7, <1>8, <1>9, <1>11 DEF HeadSet, Hooked
    <1> QED BY <1>1, <1>11, <1>12 DEF y, f

\* An iterator put first on a node leaves the chains whole.
LEMMA SetIteratorFacts ==
    ASSUME SafeListAssumption, NEW s \in ChainState, NEW R \in SUBSET Depths, Chained(s, R),
           NEW d \in Depths \ R, NEW x, NextOf(x) \in Nodes, NEW r, r = SetIterator(s, x, d)
    PROVE  /\ r \in ChainState /\ Chained(r, R \cup {d})
           /\ \A e \in Depths : r.iter[e].next = IF e = d THEN NextOf(x) ELSE s.iter[e].next
    <1>1. None \notin R /\ None \notin Depths
          BY LoopNumbers
    <1>2. PICK y, f : y = NextOf(x) /\ f = s.i[y]
          OBVIOUS
    <1>3. y \in Nodes /\ r \in ChainState /\ Hooked(r, s, y, d, f)
          BY <1>2, SetIteratorFields
    <1>4. /\ \A z \in Nodes : r.i[z] = IF z = y THEN d ELSE s.i[z]
          /\ \A e \in Depths :
               /\ r.iter[e].next = IF e = d THEN y ELSE s.iter[e].next
               /\ r.iter[e].next_i = IF e = d THEN f ELSE s.iter[e].next_i
               /\ r.iter[e].head = IF e = f THEN <<"iter", d>>
                                  ELSE IF e = d THEN <<"node", y>> ELSE s.iter[e].head
          BY <1>3 DEF Hooked
    <1>5. PICK N \in Nat : \E rank \in [Depths -> 0 .. N] : Linked(s, R, rank)
          BY DEF Chained
    <1>6. PICK rank \in [Depths -> 0 .. N] : Linked(s, R, rank)
          BY <1>5
    <1>7. \A e \in R : e \in Depths /\ e # d /\ s.iter[e].next \in Nodes
          BY ChainStateParts
    <1>8. \A z \in Nodes : s.i[z] # None => s.i[z] \in R /\ s.iter[s.i[z]].head = <<"node", z>>
          BY <1>6 DEF Linked
    <1>9. \A e \in R :
             \/ s.iter[e].head = <<"node", s.iter[e].next>> /\ s.i[s.iter[e].next] = e
             \/ \E b \in R : /\ s.iter[e].head = <<"iter", b>> /\ s.iter[b].next_i = e
                             /\ s.iter[b].next = s.iter[e].next /\ rank[e] < rank[b]
          BY <1>6 DEF Linked
    <1>10. \A e \in R : s.iter[e].next_i # None =>
             s.iter[e].next_i \in R /\ s.iter[s.iter[e].next_i].head = <<"iter", e>>
          BY <1>6 DEF Linked
    <1>11. f # None => f \in R /\ s.iter[f].head = <<"node", y>> /\ s.iter[f].next = y
          BY <1>2, <1>3, <1>8, <1>9, Locations
    <1>12. f # d /\ d # None
          BY <1>1, <1>7, <1>11
    <1> DEFINE new == [rank EXCEPT ![d] = N + 1]
    <1>13. /\ new \in [Depths -> 0 .. N + 1] /\ N + 1 \in Nat
           /\ \A e \in R : new[e] = rank[e] /\ new[e] < new[d]
          BY <1>7
    <1> HIDE DEF new
    <1>14. ASSUME NEW z \in Nodes, r.i[z] # None
           PROVE  r.i[z] \in R \cup {d} /\ r.iter[r.i[z]].head = <<"node", z>>
          <2>1. CASE z = y
                BY <1>4, <1>12, <2>1
          <2>2. CASE z # y
                <3>1. r.i[z] = s.i[z]
                      BY <1>4, <2>2
                <3>2. s.i[z] \in R /\ s.iter[s.i[z]].head = <<"node", z>>
                      BY <1>8, <1>14, <3>1
                <3>3. s.i[z] # f /\ s.i[z] # d
                      BY <1>7, <1>11, <1>14, <2>2, <3>1, <3>2, Locations
                <3> QED BY <1>4, <1>7, <3>1, <3>2, <3>3
          <2> QED BY <2>1, <2>2
    <1>15. ASSUME NEW e \in R \cup {d}
           PROVE  \/ r.iter[e].head = <<"node", r.iter[e].next>> /\ r.i[r.iter[e].next] = e
                  \/ \E b \in R \cup {d} :
                       /\ r.iter[e].head = <<"iter", b>> /\ r.iter[b].next_i = e
                       /\ r.iter[b].next = r.iter[e].next /\ new[e] < new[b]
          <2>1. CASE e = d
                BY <1>3, <1>4, <1>12, <2>1
          <2>2. CASE e = f /\ e \in R
                <3>1. /\ r.iter[e].head = <<"iter", d>> /\ r.iter[d].next_i = e
                      /\ r.iter[d].next = y /\ r.iter[e].next = y /\ new[e] < new[d]
                      BY <1>1, <1>4, <1>7, <1>11, <1>12, <1>13, <2>2
                <3> QED BY <3>1
          <2>3. CASE e # f /\ e \in R
                <3>1. /\ r.iter[e].head = s.iter[e].head /\ r.iter[e].next = s.iter[e].next
                      /\ s.iter[e].next \in Nodes
                      BY <1>4, <1>7, <2>3
                <3>2. CASE s.iter[e].head = <<"node", s.iter[e].next>> /\ s.i[s.iter[e].next] = e
                      BY <1>2, <1>4, <2>3, <3>1, <3>2
                <3>3. ASSUME NEW b \in R, s.iter[e].head = <<"iter", b>>, s.iter[b].next_i = e,
                             s.iter[b].next = s.iter[e].next, rank[e] < rank[b]
                      PROVE  \E b2 \in R \cup {d} :
                                /\ r.iter[e].head = <<"iter", b2>> /\ r.iter[b2].next_i = e
                                /\ r.iter[b2].next = r.iter[e].next /\ new[e] < new[b2]
                      <4>1. r.iter[b].next_i = e /\ r.iter[b].next = r.iter[e].next /\ new[e] < new[b]
                            BY <1>4, <1>7, <1>13, <2>3, <3>1, <3>3
                      <4> QED BY <3>1, <3>3, <4>1
                <3> QED BY <1>9, <2>3, <3>2, <3>3
          <2> QED BY <2>1, <2>2, <2>3
    <1>16. ASSUME NEW e \in R \cup {d}, r.iter[e].next_i # None
           PROVE  r.iter[e].next_i \in R \cup {d} /\ r.iter[r.iter[e].next_i].head = <<"iter", e>>
          <2>1. CASE e = d
                <3>1. r.iter[e].next_i = f
                      BY <1>4, <2>1
                <3> QED BY <1>4, <1>7, <1>11, <1>16, <2>1, <3>1
          <2>2. CASE e \in R
                <3>1. r.iter[e].next_i = s.iter[e].next_i
                      BY <1>4, <1>7, <2>2
                <3>2. s.iter[e].next_i \in R /\ s.iter[s.iter[e].next_i].head = <<"iter", e>>
                      BY <1>10, <1>16, <2>2, <3>1
                <3>3. s.iter[e].next_i # f /\ s.iter[e].next_i # d
                      BY <1>7, <1>11, <1>16, <3>1, <3>2, Locations
                <3> QED BY <1>4, <1>7, <3>1, <3>2, <3>3
          <2> QED BY <2>1, <2>2
    <1>17. Linked(r, R \cup {d}, new)
          BY <1>14, <1>15, <1>16 DEF Linked
    <1>18. Chained(r, R \cup {d})
          BY <1>13, <1>17 DEF Chained
    <1> QED BY <1>2, <1>3, <1>4, <1>18

\* A node some iterator hangs on has a first one and a last one.
LEMMA ChainEnds ==
    ASSUME SafeListAssumption, NEW s \in ChainState, NEW R \in SUBSET Depths, Chained(s, R),
           NEW x \in Nodes, NEW a \in R, s.iter[a].next = x
    PROVE  /\ s.i[x] # None
           /\ \E d \in R : s.iter[d].next = x /\ s.iter[d].next_i = None
    <1>1. None \notin R
          BY LoopNumbers
    <1>2. PICK N \in Nat : \E rank \in [Depths -> 0 .. N] : Linked(s, R, rank)
          BY DEF Chained
    <1>3. PICK rank \in [Depths -> 0 .. N] : Linked(s, R, rank)
          BY <1>2
    <1>4. \A e \in R : rank[e] \in Nat /\ rank[e] <= N
          OBVIOUS
    <1>5. \A e \in R :
             \/ s.iter[e].head = <<"node", s.iter[e].next>> /\ s.i[s.iter[e].next] = e
             \/ \E b \in R : /\ s.iter[e].head = <<"iter", b>> /\ s.iter[b].next_i = e
                             /\ s.iter[b].next = s.iter[e].next /\ rank[e] < rank[b]
          BY <1>3 DEF Linked
    <1>6. \A e \in R : s.iter[e].next_i # None =>
             s.iter[e].next_i \in R /\ s.iter[s.iter[e].next_i].head = <<"iter", e>>
          BY <1>3 DEF Linked
    <1> DEFINE On_x == {e \in R : s.iter[e].next = x}
               low == {rank[e] : e \in On_x}
               high == {N - rank[e] : e \in On_x}
    <1>7. low \subseteq Nat /\ low # {} /\ high \subseteq Nat /\ high # {}
          BY <1>4
    <1>8. PICK d \in On_x : \A e \in On_x : rank[d] <= rank[e]
          <2>1. PICK n \in low : \A m \in low : n <= m
                BY <1>7, LeastNumber
          <2> QED BY <2>1
    <1>9. PICK t \in On_x : \A e \in On_x : rank[e] <= rank[t]
          <2>1. PICK n \in high : \A m \in high : n <= m
                BY <1>7, LeastNumber
          <2>2. PICK t \in On_x : n = N - rank[t]
                BY <2>1
          <2>3. \A e \in On_x : N - rank[t] <= N - rank[e]
                BY <2>1, <2>2
          <2>4. \A e \in On_x : rank[e] <= rank[t]
                BY <1>4, <2>3
          <2> QED BY <2>4
    <1>10. s.iter[d].next_i = None
          <2> SUFFICES ASSUME s.iter[d].next_i # None PROVE FALSE
              OBVIOUS
          <2> DEFINE c == s.iter[d].next_i
          <2>1. c \in R /\ s.iter[c].head = <<"iter", d>>
                BY <1>6
          <2> HIDE DEF c
          <2>2. c \in On_x /\ rank[c] < rank[d]
                BY <1>5, <2>1, Locations
          <2> QED BY <1>4, <1>8, <2>2
    <1>11. s.i[x] = t
          <2>1. ASSUME NEW b \in R, s.iter[b].next = s.iter[t].next, rank[t] < rank[b] PROVE FALSE
                BY <1>4, <1>9, <2>1
          <2> QED BY <1>5, <2>1
    <1> QED BY <1>1, <1>10, <1>11

\* The chain of e moved to the front of next's, field by field: the iterators M
\* that went to e go to next, f is first there, and t, the last, is before g.
Moved(r, s, e, next, M, f, t, g) ==
    /\ \A x \in Nodes : r.i[x] = IF x = e THEN None ELSE IF x = next THEN f ELSE s.i[x]
    /\ \A d \in Depths :
         /\ r.iter[d].next = IF d \in M THEN next ELSE s.iter[d].next
         /\ r.iter[d].next_i = IF d = t THEN g ELSE s.iter[d].next_i
         /\ r.iter[d].head = IF d = g THEN <<"iter", t>>
                            ELSE IF d = f THEN <<"node", next>> ELSE s.iter[d].head

\* The writes at the end of safe_list_del, one after the other.
LEMMA MoveChainFields ==
    ASSUME SafeListAssumption, chains \in ChainState, NEW e \in Nodes, NEW next \in Nodes, next # e,
           Tail_(e) \in Depths
    PROVE  /\ MoveChain(e, next) \in ChainState
           /\ Moved(MoveChain(e, next), chains, e, next, On(e), safe_i[e], Tail_(e), safe_i[next])
    <1>1. chains.i = safe_i /\ chains.iter = safe_iter
          BY DEF chains
    <1>2. safe_i \in [Nodes -> Depths \cup {None}] /\ safe_iter \in [Depths -> Iterator]
          BY <1>1, ChainStateParts
    <1> DEFINE M == On(e)
               f == safe_i[e]
               g == safe_i[next]
               t == Tail_(e)
               ai == [safe_i EXCEPT ![next] = f, ![e] = None]
               at == [d \in Depths |-> [safe_iter[d] EXCEPT !.next = IF d \in M THEN next ELSE @]]
               a == [i |-> ai, iter |-> at]
               b == SetHead(a, f, <<"node", next>>)
               c == Store(b, <<"iter", t>>, g)
               r == SetHead(c, g, <<"iter", t>>)
    <1>3. MoveChain(e, next) = r
          BY DEF MoveChain
    <1>4. f \in Depths \cup {None} /\ g \in Depths \cup {None} /\ t \in Depths
          BY <1>2
    <1> HIDE DEF f, g, t, M
    <1>5. /\ ai \in [Nodes -> Depths \cup {None}]
          /\ \A x \in Nodes : ai[x] = IF x = e THEN None ELSE IF x = next THEN f ELSE safe_i[x]
          BY <1>2, <1>4
    <1>6. /\ at \in [Depths -> Iterator]
          /\ \A d \in Depths :
               /\ at[d].next = IF d \in M THEN next ELSE safe_iter[d].next
               /\ at[d].next_i = safe_iter[d].next_i /\ at[d].head = safe_iter[d].head
          BY <1>2 DEF Iterator
    <1> HIDE DEF ai, at
    <1>7. a \in ChainState /\ a.i = ai /\ a.iter = at
          BY <1>5, <1>6 DEF ChainState
    <1>8. <<"node", next>> \in Location /\ <<"iter", t>> \in Location
          BY <1>4 DEF Location
    <1> HIDE DEF a
    <1>9. b \in ChainState /\ HeadSet(b, a, f, <<"node", next>>)
          BY <1>4, <1>7, <1>8, SetHeadFacts
    <1> HIDE DEF b
    <1>10. c \in ChainState /\ Stored(c, b, <<"iter", t>>, g)
          BY <1>4, <1>8, <1>9, StoreFacts
    <1> HIDE DEF c
    <1>11. r \in ChainState /\ HeadSet(r, c, g, <<"iter", t>>)
          BY <1>4, <1>8, <1>10, SetHeadFacts
    <1> HIDE DEF r
    <1>12. /\ \A x \in Nodes : b.i[x] = ai[x] /\ c.i[x] = b.i[x] /\ r.i[x] = c.i[x]
           /\ \A d \in Depths : b.iter[d].next = at[d].next /\ c.iter[d].next = b.iter[d].next
                                 /\ r.iter[d].next = c.iter[d].next
          BY <1>7, <1>9, <1>10, <1>11, Locations DEF HeadSet, Stored
    <1>13. \A d \in Depths :
             /\ b.iter[d].next_i = at[d].next_i
             /\ c.iter[d].next_i = IF d = t THEN g ELSE b.iter[d].next_i
             /\ r.iter[d].next_i = c.iter[d].next_i
          BY <1>7, <1>9, <1>10, <1>11, Locations DEF HeadSet, Stored
    <1>14. \A d \in Depths :
             /\ b.iter[d].head = IF d = f THEN <<"node", next>> ELSE at[d].head
             /\ c.iter[d].head = b.iter[d].head
             /\ r.iter[d].head = IF d = g THEN <<"iter", t>> ELSE c.iter[d].head
          BY <1>7, <1>9, <1>10, <1>11 DEF HeadSet, Stored
    <1>15. Moved(r, chains, e, next, M, f, t, g)
          BY <1>1, <1>5, <1>6, <1>12, <1>13, <1>14 DEF Moved
    <1> QED BY <1>3, <1>11, <1>15 DEF M, f, g, t

\* Moving a chain leaves the chains whole, and no iterator on e.
LEMMA MoveChainFacts ==
    ASSUME SafeListAssumption, NEW s \in ChainState, NEW R \in SUBSET Depths, Chained(s, R),
           NEW e \in Nodes, NEW next \in Nodes, next # e, s.i[e] # None,
           NEW M, M = {d \in R : s.iter[d].next = e},
           NEW t \in M, s.iter[t].next_i = None,
           NEW r, r \in ChainState, Moved(r, s, e, next, M, s.i[e], t, s.i[next])
    PROVE  Chained(r, R)
    <1>1. None \notin R /\ None \notin Depths
          BY LoopNumbers
    <1>2. PICK f, g : f = s.i[e] /\ g = s.i[next]
          OBVIOUS
    <1>3. /\ \A x \in Nodes : r.i[x] = IF x = e THEN None ELSE IF x = next THEN f ELSE s.i[x]
          /\ \A d \in Depths :
               /\ r.iter[d].next = IF d \in M THEN next ELSE s.iter[d].next
               /\ r.iter[d].next_i = IF d = t THEN g ELSE s.iter[d].next_i
               /\ r.iter[d].head = IF d = g THEN <<"iter", t>>
                                  ELSE IF d = f THEN <<"node", next>> ELSE s.iter[d].head
          BY <1>2 DEF Moved
    <1>4. PICK N \in Nat : \E rank \in [Depths -> 0 .. N] : Linked(s, R, rank)
          BY DEF Chained
    <1>5. PICK rank \in [Depths -> 0 .. N] : Linked(s, R, rank)
          BY <1>4
    <1>6. \A d \in R : d \in Depths /\ s.iter[d].next \in Nodes /\ rank[d] \in 0 .. N
          BY ChainStateParts
    <1>7. \A x \in Nodes : s.i[x] # None => s.i[x] \in R /\ s.iter[s.i[x]].head = <<"node", x>>
          BY <1>5 DEF Linked
    <1>8. \A d \in R :
             \/ s.iter[d].head = <<"node", s.iter[d].next>> /\ s.i[s.iter[d].next] = d
             \/ \E b \in R : /\ s.iter[d].head = <<"iter", b>> /\ s.iter[b].next_i = d
                             /\ s.iter[b].next = s.iter[d].next /\ rank[d] < rank[b]
          BY <1>5 DEF Linked
    <1>9. \A d \in R : s.iter[d].next_i # None =>
             s.iter[d].next_i \in R /\ s.iter[s.iter[d].next_i].head = <<"iter", d>>
          BY <1>5 DEF Linked
    <1>10. f \in R /\ s.iter[f].head = <<"node", e>> /\ s.iter[f].next = e /\ f \in M
          BY <1>2, <1>7, <1>8, Locations
    <1>11. g # None => g \in R /\ s.iter[g].head = <<"node", next>> /\ s.iter[g].next = next /\ g \notin M
          BY <1>2, <1>7, <1>8, Locations
    <1>12. t \in R /\ s.iter[t].next = e /\ f # g
          BY <1>1, <1>10, <1>11
    <1> DEFINE new == [d \in Depths |-> IF d \in M THEN rank[d] + N + 1 ELSE rank[d]]
    <1>13. /\ new \in [Depths -> 0 .. N + N + 1] /\ N + N + 1 \in Nat
           /\ \A d, b \in R : (rank[d] < rank[b] /\ (d \in M <=> b \in M)) => new[d] < new[b]
           /\ \A d, b \in R : (d \notin M /\ b \in M) => new[d] < new[b]
          <2>1. \A d \in Depths : rank[d] \in Nat /\ rank[d] <= N
                OBVIOUS
          <2>2. \A d \in R : new[d] = IF d \in M THEN rank[d] + N + 1 ELSE rank[d]
                BY <1>6
          <2>3. new \in [Depths -> 0 .. N + N + 1] /\ N + N + 1 \in Nat
                BY <2>1
          <2> HIDE DEF new
          <2> QED BY <1>6, <2>1, <2>2, <2>3
    <1> HIDE DEF new
    <1>14. ASSUME NEW x \in Nodes, r.i[x] # None
           PROVE  r.i[x] \in R /\ r.iter[r.i[x]].head = <<"node", x>>
          <2>1. x # e
                BY <1>3, <1>14
          <2>2. CASE x = next
                BY <1>3, <1>6, <1>10, <1>12, <2>1, <2>2
          <2>3. CASE x # next
                <3>1. r.i[x] = s.i[x]
                      BY <1>3, <2>1, <2>3
                <3>2. s.i[x] \in R /\ s.iter[s.i[x]].head = <<"node", x>>
                      BY <1>7, <1>14, <3>1
                <3>3. s.i[x] # f /\ s.i[x] # g
                      BY <1>10, <1>11, <1>14, <2>1, <2>3, <3>1, <3>2, Locations
                <3> QED BY <1>3, <1>6, <3>1, <3>2, <3>3
          <2> QED BY <2>2, <2>3
    <1>15. ASSUME NEW d \in R
           PROVE  \/ r.iter[d].head = <<"node", r.iter[d].next>> /\ r.i[r.iter[d].next] = d
                  \/ \E b \in R :
                       /\ r.iter[d].head = <<"iter", b>> /\ r.iter[b].next_i = d
                       /\ r.iter[b].next = r.iter[d].next /\ new[d] < new[b]
          <2>1. CASE d = f
                BY <1>3, <1>6, <1>10, <1>12, <2>1
          <2>2. CASE d = g
                <3>1. /\ r.iter[d].head = <<"iter", t>> /\ r.iter[t].next_i = d
                      /\ r.iter[t].next = next /\ r.iter[d].next = next
                      BY <1>1, <1>3, <1>6, <1>11, <1>12, <2>2
                <3>2. new[d] < new[t]
                      BY <1>1, <1>11, <1>12, <1>13, <2>2
                <3> QED BY <1>12, <3>1, <3>2
          <2>3. CASE d # f /\ d # g
                <3>1. r.iter[d].head = s.iter[d].head /\ s.iter[d].next \in Nodes
                      BY <1>3, <1>6, <2>3
                <3>2. CASE s.iter[d].head = <<"node", s.iter[d].next>> /\ s.i[s.iter[d].next] = d
                      <4>1. s.iter[d].next # e /\ s.iter[d].next # next
                            BY <1>2, <2>3, <3>2
                      <4>2. r.iter[d].next = s.iter[d].next
                            BY <1>3, <1>6, <4>1
                      <4> QED BY <1>3, <3>1, <3>2, <4>1, <4>2
                <3>3. ASSUME NEW b \in R, s.iter[d].head = <<"iter", b>>, s.iter[b].next_i = d,
                             s.iter[b].next = s.iter[d].next, rank[d] < rank[b]
                      PROVE  \E b2 \in R :
                                /\ r.iter[d].head = <<"iter", b2>> /\ r.iter[b2].next_i = d
                                /\ r.iter[b2].next = r.iter[d].next /\ new[d] < new[b2]
                      <4>1. b # t /\ (d \in M <=> b \in M)
                            BY <1>1, <3>3
                      <4>2. r.iter[b].next_i = d /\ r.iter[b].next = r.iter[d].next
                            BY <1>3, <1>6, <3>3, <4>1
                      <4>3. new[d] < new[b]
                            BY <1>13, <3>3, <4>1
                      <4> QED BY <3>1, <3>3, <4>2, <4>3
                <3> QED BY <1>8, <3>2, <3>3
          <2> QED BY <2>1, <2>2, <2>3
    <1>16. ASSUME NEW d \in R, r.iter[d].next_i # None
           PROVE  r.iter[d].next_i \in R /\ r.iter[r.iter[d].next_i].head = <<"iter", d>>
          <2>1. CASE d = t
                <3>1. r.iter[d].next_i = g
                      BY <1>3, <1>6, <2>1
                <3> QED BY <1>3, <1>6, <1>11, <1>16, <2>1, <3>1
          <2>2. CASE d # t
                <3>1. r.iter[d].next_i = s.iter[d].next_i
                      BY <1>3, <1>6, <2>2
                <3>2. s.iter[d].next_i \in R /\ s.iter[s.iter[d].next_i].head = <<"iter", d>>
                      BY <1>9, <1>16, <3>1
                <3>3. s.iter[d].next_i # f /\ s.iter[d].next_i # g
                      BY <1>10, <1>11, <1>16, <3>1, <3>2, Locations
                <3> QED BY <1>3, <1>6, <3>1, <3>2, <3>3
          <2> QED BY <2>1, <2>2
    <1>17. Linked(r, R, new)
          BY <1>14, <1>15, <1>16 DEF Linked
    <1> QED BY <1>13, <1>17 DEF Chained

-----------------------------------------------------------------------------
(* What a loop over a safe list has visited.                               *)

Distinct(l) == \A m, n \in DOMAIN l : l[m] = l[n] => m = n

\* The loop that goes to x next has place n of the list before it.
Ahead(l, x, n) == \E m \in 1 .. n : l[m] = x

\* What is before the loop has not been visited; what is behind it has, if the
\* loop found it in the list; what is not in the list counts as not visited.
Counted(l, x, S, v) ==
    /\ S \subseteq Range(l)
    /\ v \in [Elements -> 0 .. 1]
    /\ \A e \in Elements \ Range(l) : v[e] = 0
    /\ \A n \in DOMAIN l : /\ Ahead(l, x, n) => v[l[n]] = 0
                           /\ ~Ahead(l, x, n) /\ l[n] \in S => v[l[n]] = 1

\* The places of a list without repetition.
LEMMA Places ==
    ASSUME SafeListAssumption, NEW l \in Seq(Elements), Distinct(l)
    PROVE  /\ Len(l) \in Nat /\ DOMAIN l = 1 .. Len(l)
           /\ \A n \in DOMAIN l : l[n] \in Elements /\ l[n] # ListHead
           /\ \A k, n \in DOMAIN l : Ahead(l, l[k], n) <=> k <= n
           /\ \A n \in DOMAIN l : ~Ahead(l, ListHead, n)
    <1>1. /\ Len(l) \in Nat /\ DOMAIN l = 1 .. Len(l)
          /\ \A n \in DOMAIN l : l[n] \in Elements /\ l[n] # ListHead
          BY DEF SafeListAssumption
    <1>2. ASSUME NEW k \in DOMAIN l, NEW n \in DOMAIN l
          PROVE  Ahead(l, l[k], n) <=> k <= n
          <2>1. ASSUME NEW m \in 1 .. n, l[m] = l[k] PROVE k <= n
                <3>1. m \in DOMAIN l
                      BY <1>1
                <3> QED BY <1>1, <2>1, <3>1 DEF Distinct
          <2>2. k <= n => k \in 1 .. n
                BY <1>1
          <2> QED BY <2>1, <2>2 DEF Ahead
    <1>3. ASSUME NEW n \in DOMAIN l PROVE ~Ahead(l, ListHead, n)
          <2>1. \A m \in 1 .. n : m \in DOMAIN l
                BY <1>1
          <2> QED BY <1>1, <2>1 DEF Ahead
    <1> QED BY <1>1, <1>2, <1>3

\* list.next.
LEMMA NextOfFacts ==
    ASSUME SafeListAssumption, safe_list \in Seq(Elements), Distinct(safe_list),
           NEW k \in DOMAIN safe_list, NEW y, y = NextOf(safe_list[k])
    PROVE  /\ y = IF k = Len(safe_list) THEN ListHead ELSE safe_list[k + 1]
           /\ y \in Range(safe_list) \cup {ListHead} /\ y \in Nodes /\ y # safe_list[k]
           /\ \A n \in DOMAIN safe_list : Ahead(safe_list, y, n) <=> k < n
    <1> DEFINE l == safe_list
    <1>1. /\ Len(l) \in Nat /\ DOMAIN l = 1 .. Len(l)
          /\ \A n \in DOMAIN l : l[n] \in Elements /\ l[n] # ListHead
          /\ \A m, n \in DOMAIN l : Ahead(l, l[m], n) <=> m <= n
          /\ \A n \in DOMAIN l : ~Ahead(l, ListHead, n)
          BY Places
    <1>2. (CHOOSE n \in DOMAIN l : l[n] = l[k]) = k
          BY DEF Distinct
    <1>3. y = IF k = Len(l) THEN ListHead ELSE l[k + 1]
          BY <1>1, <1>2 DEF NextOf
    <1>4. CASE k = Len(l)
          BY <1>1, <1>3, <1>4 DEF Nodes
    <1>5. CASE k # Len(l)
          <2>1. k + 1 \in DOMAIN l /\ y = l[k + 1] /\ k + 1 # k
                BY <1>1, <1>3, <1>5
          <2>2. y \in Range(l) /\ y \in Nodes /\ y # l[k]
                BY <1>1, <2>1 DEF Range, Nodes, Distinct
          <2>3. \A n \in DOMAIN l : Ahead(l, y, n) <=> k < n
                BY <1>1, <2>1
          <2> QED BY <1>3, <2>2, <2>3
    <1> QED BY <1>4, <1>5

\* A loop that begins has visited the first element.
LEMMA CountBegin ==
    ASSUME SafeListAssumption, safe_list \in Seq(Elements), Distinct(safe_list), safe_list # <<>>
    PROVE  /\ 1 \in DOMAIN safe_list
           /\ Counted(safe_list, NextOf(safe_list[1]), Range(safe_list),
                      [e \in Elements |-> IF e = safe_list[1] THEN 1 ELSE 0])
    <1> DEFINE l == safe_list
               v == [e \in Elements |-> IF e = l[1] THEN 1 ELSE 0]
    <1>1. /\ Len(l) \in Nat /\ DOMAIN l = 1 .. Len(l)
          /\ \A n \in DOMAIN l : l[n] \in Elements
          BY Places
    <1>2. 1 \in DOMAIN l
          BY <1>1
    <1>3. \A n \in DOMAIN l : Ahead(l, NextOf(l[1]), n) <=> 1 < n
          BY <1>2, NextOfFacts
    <1>4. /\ v \in [Elements -> 0 .. 1]
          /\ \A n \in DOMAIN l : (n = 1 => v[l[n]] = 1) /\ (n # 1 => v[l[n]] = 0)
          BY <1>1, <1>2 DEF Distinct
    <1>5. \A e \in Elements \ Range(l) : v[e] = 0
          BY <1>2 DEF Range
    <1> HIDE DEF v
    <1>6. Counted(l, NextOf(l[1]), Range(l), v)
          BY <1>1, <1>3, <1>4, <1>5 DEF Counted
    <1> QED BY <1>2, <1>6 DEF v

\* A loop that goes on visits the element it goes to.
LEMMA CountVisit ==
    ASSUME SafeListAssumption, safe_list \in Seq(Elements), Distinct(safe_list),
           NEW k \in DOMAIN safe_list, NEW S, NEW v, Counted(safe_list, safe_list[k], S, v)
    PROVE  /\ v[safe_list[k]] = 0
           /\ Counted(safe_list, NextOf(safe_list[k]), S, [v EXCEPT ![safe_list[k]] = 1])
    <1> DEFINE l == safe_list
               w == [v EXCEPT ![l[k]] = 1]
    <1>1. /\ Len(l) \in Nat /\ DOMAIN l = 1 .. Len(l)
          /\ \A n \in DOMAIN l : l[n] \in Elements
          /\ \A n \in DOMAIN l : Ahead(l, l[k], n) <=> k <= n
          BY Places
    <1>2. \A n \in DOMAIN l : Ahead(l, NextOf(l[k]), n) <=> k < n
          BY NextOfFacts
    <1>3. v \in [Elements -> 0 .. 1]
          BY DEF Counted
    <1>4. /\ w \in [Elements -> 0 .. 1] /\ w[l[k]] = 1
          /\ \A e \in Elements : e # l[k] => w[e] = v[e]
          BY <1>1, <1>3
    <1>5. \A e \in Elements \ Range(l) : e # l[k]
          BY DEF Range
    <1>6. v[l[k]] = 0
          BY <1>1 DEF Counted
    <1> HIDE DEF w
    <1>7. ASSUME NEW n \in DOMAIN l
          PROVE  /\ Ahead(l, NextOf(l[k]), n) => w[l[n]] = 0
                 /\ ~Ahead(l, NextOf(l[k]), n) /\ l[n] \in S => w[l[n]] = 1
          <2>1. CASE n = k
                BY <1>1, <1>2, <1>4, <2>1
          <2>2. CASE n # k
                <3>1. l[n] # l[k] /\ w[l[n]] = v[l[n]]
                      BY <1>1, <1>4, <2>2 DEF Distinct
                <3>2. Ahead(l, NextOf(l[k]), n) <=> Ahead(l, l[k], n)
                      BY <1>1, <1>2, <2>2
                <3> QED BY <3>1, <3>2 DEF Counted
          <2> QED BY <2>1, <2>2
    <1>8. Counted(l, NextOf(l[k]), S, w)
          BY <1>4, <1>5, <1>7 DEF Counted
    <1> QED BY <1>6, <1>8 DEF w

\* A loop that has come to the end has missed nothing.
LEMMA CountEnd ==
    ASSUME SafeListAssumption, NEW l \in Seq(Elements), Distinct(l),
           NEW S, NEW v, Counted(l, ListHead, S, v)
    PROVE  {e \in S \cap Range(l) : v[e] = 0} = {}
    <1>1. \A n \in DOMAIN l : ~Ahead(l, ListHead, n)
          BY Places
    <1> QED BY <1>1 DEF Counted, Range

\* safe_list_add adds behind everything, or at the loop's end.
LEMMA CountAppend ==
    ASSUME SafeListAssumption, NEW l \in Seq(Elements), Distinct(l),
           NEW a \in Elements \ Range(l), NEW r, r = Append(l, a)
    PROVE  /\ r \in Seq(Elements) /\ Distinct(r) /\ Range(r) = Range(l) \cup {a}
           /\ \A x, S, v : Counted(l, x, S, v) => Counted(r, x, S, v)
    <1>1. /\ Len(l) \in Nat /\ DOMAIN l = 1 .. Len(l)
          /\ \A n \in DOMAIN l : l[n] \in Elements
          BY Places
    <1>2. /\ r \in Seq(Elements) /\ DOMAIN r = 1 .. Len(l) + 1
          /\ r[Len(l) + 1] = a /\ \A n \in 1 .. Len(l) : r[n] = l[n]
          BY <1>1
    <1>3. \A n \in DOMAIN l : l[n] # a
          BY DEF Range
    <1>4. Distinct(r)
          <2> SUFFICES ASSUME NEW m \in 1 .. Len(l) + 1, NEW n \in 1 .. Len(l) + 1, r[m] = r[n]
                       PROVE  m = n
              BY <1>2 DEF Distinct
          <2>1. m = Len(l) + 1 \/ m \in DOMAIN l
                BY <1>1
          <2>2. n = Len(l) + 1 \/ n \in DOMAIN l
                BY <1>1
          <2> QED BY <1>1, <1>2, <1>3, <2>1, <2>2 DEF Distinct
    <1>5. Range(r) = Range(l) \cup {a}
          <2>1. \A n \in DOMAIN r : n \in DOMAIN l \/ n = Len(l) + 1
                BY <1>1, <1>2
          <2>2. Len(l) + 1 \in DOMAIN r /\ \A n \in DOMAIN l : n \in DOMAIN r
                BY <1>1, <1>2
          <2> QED BY <1>1, <1>2, <2>1, <2>2 DEF Range
    <1>6. ASSUME NEW x, NEW S, NEW v, Counted(l, x, S, v) PROVE Counted(r, x, S, v)
          <2>1. /\ S \subseteq Range(l) /\ v \in [Elements -> 0 .. 1]
                /\ \A e \in Elements \ Range(l) : v[e] = 0
                BY <1>6 DEF Counted
          <2>2. v[a] = 0 /\ a \notin S
                BY <2>1
          <2>3. ASSUME NEW n \in DOMAIN r
                PROVE  /\ Ahead(r, x, n) => v[r[n]] = 0
                       /\ ~Ahead(r, x, n) /\ r[n] \in S => v[r[n]] = 1
                <3>1. CASE n = Len(l) + 1
                      BY <1>2, <2>2, <3>1
                <3>2. CASE n \in DOMAIN l
                      <4>1. \A m \in 1 .. n : r[m] = l[m]
                            BY <1>1, <1>2, <3>2
                      <4>2. Ahead(r, x, n) <=> Ahead(l, x, n)
                            BY <4>1 DEF Ahead
                      <4> QED BY <1>1, <1>2, <1>6, <3>2, <4>2 DEF Counted
                <3> QED BY <1>1, <1>2, <3>1, <3>2
          <2> QED BY <1>5, <2>1, <2>3 DEF Counted
    <1> QED BY <1>2, <1>4, <1>5, <1>6

\* safe_list_add_first adds behind every loop.
LEMMA CountPrepend ==
    ASSUME SafeListAssumption, NEW l \in Seq(Elements), Distinct(l),
           NEW a \in Elements \ Range(l), NEW r, r = <<a>> \o l
    PROVE  /\ r \in Seq(Elements) /\ Distinct(r) /\ Range(r) = Range(l) \cup {a}
           /\ \A x, S, v : x # a /\ Counted(l, x, S, v) => Counted(r, x, S, v)
    <1>1. /\ Len(l) \in Nat /\ DOMAIN l = 1 .. Len(l)
          /\ \A n \in DOMAIN l : l[n] \in Elements
          BY Places
    <1>2. /\ r \in Seq(Elements) /\ DOMAIN r = 1 .. Len(l) + 1
          /\ r[1] = a /\ \A n \in 1 .. Len(l) + 1 : n # 1 => r[n] = l[n - 1]
          BY <1>1
    <1>3. /\ \A n \in DOMAIN l : l[n] # a
          /\ \A n \in DOMAIN l : n + 1 \in DOMAIN r /\ r[n + 1] = l[n]
          /\ \A n \in DOMAIN r : n # 1 => n - 1 \in DOMAIN l /\ r[n] = l[n - 1]
          BY <1>1, <1>2 DEF Range
    <1>4. Distinct(r)
          <2> SUFFICES ASSUME NEW m \in DOMAIN r, NEW n \in DOMAIN r, r[m] = r[n] PROVE m = n
              BY DEF Distinct
          <2>1. CASE m = 1 \/ n = 1
                BY <1>2, <1>3, <2>1
          <2>2. CASE m # 1 /\ n # 1
                <3>1. m - 1 = n - 1
                      BY <1>3, <2>2 DEF Distinct
                <3> QED BY <1>2, <3>1
          <2> QED BY <2>1, <2>2
    <1>5. Range(r) = Range(l) \cup {a}
          <2>1. 1 \in DOMAIN r
                BY <1>1, <1>2
          <2>2. ASSUME NEW n \in DOMAIN r PROVE r[n] \in Range(l) \cup {a}
                BY <1>2, <1>3 DEF Range
          <2>3. ASSUME NEW n \in DOMAIN l PROVE l[n] \in Range(r)
                <3>1. n + 1 \in DOMAIN r /\ r[n + 1] = l[n]
                      BY <1>3
                <3> QED BY <3>1 DEF Range
          <2>4. a \in Range(r)
                BY <1>2, <2>1 DEF Range
          <2> QED BY <2>2, <2>3, <2>4 DEF Range
    <1>6. ASSUME NEW x, NEW S, NEW v, x # a, Counted(l, x, S, v) PROVE Counted(r, x, S, v)
          <2>1. /\ S \subseteq Range(l) /\ v \in [Elements -> 0 .. 1]
                /\ \A e \in Elements \ Range(l) : v[e] = 0
                BY <1>6 DEF Counted
          <2>2. v[a] = 0 /\ a \notin S
                BY <2>1
          <2>3. ASSUME NEW n \in DOMAIN r
                PROVE  /\ Ahead(r, x, n) => v[r[n]] = 0
                       /\ ~Ahead(r, x, n) /\ r[n] \in S => v[r[n]] = 1
                <3>1. CASE n = 1
                      BY <1>2, <2>2, <3>1
                <3>2. CASE n # 1
                      <4>1. n - 1 \in DOMAIN l /\ r[n] = l[n - 1]
                            BY <1>3, <3>2
                      <4>2. ASSUME NEW m \in 1 .. n, r[m] = x PROVE Ahead(l, x, n - 1)
                            <5>1. m \in DOMAIN r /\ m # 1
                                  BY <1>2, <1>6, <4>2
                            <5>2. m - 1 \in 1 .. n - 1 /\ l[m - 1] = x
                                  BY <1>2, <1>3, <4>2, <5>1
                            <5> QED BY <5>2 DEF Ahead
                      <4>3. ASSUME NEW m \in 1 .. n - 1, l[m] = x PROVE Ahead(r, x, n)
                            <5>1. m \in DOMAIN l /\ m + 1 \in 1 .. n
                                  BY <1>1, <1>2, <4>1, <4>3
                            <5>2. r[m + 1] = x
                                  BY <1>3, <4>3, <5>1
                            <5> QED BY <5>1, <5>2 DEF Ahead
                      <4>4. Ahead(r, x, n) <=> Ahead(l, x, n - 1)
                            BY <4>2, <4>3 DEF Ahead
                      <4> QED BY <1>6, <4>1, <4>4 DEF Counted
                <3> QED BY <3>1, <3>2
          <2> QED BY <1>5, <2>1, <2>3 DEF Counted
    <1> QED BY <1>2, <1>4, <1>5, <1>6

\* Min of FiniteSetsExt is the least number of a set.
LEMMA MinOfSet ==
    ASSUME NEW S, S \subseteq Nat, S # {}
    PROVE  Min(S) \in S /\ \A m \in S : Min(S) <= m
    BY LeastNumber DEF Min

\* What list_del leaves: the other elements, in their places or one before.
LEMMA ListDel ==
    ASSUME SafeListAssumption, NEW l \in Seq(Elements), Distinct(l), NEW k \in DOMAIN l,
           NEW r, r = RemoveFirst(l, l[k])
    PROVE  /\ r \in Seq(Elements) /\ DOMAIN r = 1 .. Len(l) - 1
           /\ \A n \in 1 .. Len(l) - 1 : r[n] = IF n < k THEN l[n] ELSE l[n + 1]
    <1>1. /\ Len(l) \in Nat /\ DOMAIN l = 1 .. Len(l)
          /\ \A n \in DOMAIN l : l[n] \in Elements
          BY Places
    <1> DEFINE I == {i \in 1 .. Len(l) : l[i] = l[k]}
               a == SubSeq(l, 1, k - 1)
               b == SubSeq(l, k + 1, Len(l))
    <1>2. I \subseteq Nat /\ I # {} /\ \A i \in I : i = k
          BY <1>1 DEF Distinct
    <1>3. Min(I) = k
          BY <1>2, MinOfSet
    <1>4. r = RemoveAt(l, k)
          BY <1>2, <1>3 DEF RemoveFirst, SelectInSeq
    <1>5. k \in Nat /\ 1 <= k /\ k <= Len(l)
          BY <1>1
    <1> HIDE DEF I
    <1>6. a \in Seq(Elements) /\ Len(a) = k - 1 /\ \A n \in 1 .. k - 1 : a[n] = l[n]
          BY <1>1, <1>5, SubSeqProperties
    <1>7. b \in Seq(Elements) /\ Len(b) = Len(l) - k /\ \A n \in 1 .. Len(l) - k : b[n] = l[n + k]
          BY <1>1, <1>5, SubSeqProperties
    <1> HIDE DEF a, b
    <1>8. r = a \o b
          BY <1>4 DEF RemoveAt, a, b
    <1>9. r \in Seq(Elements) /\ Len(r) = Len(l) - 1
          <2>1. a \o b \in Seq(Elements) /\ Len(a \o b) = Len(a) + Len(b)
                BY <1>6, <1>7, ConcatProperties
          <2> QED BY <1>1, <1>5, <1>6, <1>7, <1>8, <2>1
    <1>10. \A n \in 1 .. Len(l) - 1 : (a \o b)[n] = IF n < k THEN l[n] ELSE l[n + 1]
          <2>1. \A n \in 1 .. Len(a) + Len(b) :
                   (a \o b)[n] = IF n <= Len(a) THEN a[n] ELSE b[n - Len(a)]
                BY <1>6, <1>7, ConcatProperties
          <2> SUFFICES ASSUME NEW n \in 1 .. Len(l) - 1
                       PROVE  (a \o b)[n] = IF n < k THEN l[n] ELSE l[n + 1]
              OBVIOUS
          <2>2. (a \o b)[n] = IF n <= k - 1 THEN a[n] ELSE b[n - (k - 1)]
                BY <1>1, <1>5, <1>6, <1>7, <2>1
          <2>3. CASE n < k
                <3>1. n \in 1 .. k - 1
                      BY <1>1, <1>5, <2>3
                <3> QED BY <1>5, <1>6, <2>2, <2>3, <3>1
          <2>4. CASE n >= k
                <3>1. n - (k - 1) \in 1 .. Len(l) - k /\ (n - (k - 1)) + k = n + 1
                      BY <1>1, <1>5, <2>4
                <3>2. b[n - (k - 1)] = l[n + 1]
                      BY <1>7, <3>1
                <3> QED BY <1>1, <1>5, <2>2, <2>4, <3>2
          <2>5. n < k \/ n >= k
                BY <1>1, <1>5
          <2> QED BY <2>3, <2>4, <2>5
    <1> QED BY <1>8, <1>9, <1>10

\* safe_list_del: a loop that was to go to the deleted element has behind it
\* what it had, and goes on with the element after it.
LEMMA CountRemove ==
    ASSUME SafeListAssumption, safe_list \in Seq(Elements), Distinct(safe_list),
           NEW k \in DOMAIN safe_list, NEW e, e = safe_list[k],
           NEW r, r = RemoveFirst(safe_list, e)
    PROVE  /\ r \in Seq(Elements) /\ Distinct(r) /\ Range(r) = Range(safe_list) \ {e}
           /\ \A S, v : \A x \in Range(safe_list) \cup {ListHead} :
                 Counted(safe_list, x, S, v) =>
                     Counted(r, IF x = e THEN NextOf(e) ELSE x, S \ {e}, [v EXCEPT ![e] = 0])
    <1> DEFINE l == safe_list
               p(n) == IF n < k THEN n ELSE n + 1
    <1>1. /\ Len(l) \in Nat /\ DOMAIN l = 1 .. Len(l)
          /\ \A n \in DOMAIN l : l[n] \in Elements
          /\ \A m, n \in DOMAIN l : Ahead(l, l[m], n) <=> m <= n
          /\ \A n \in DOMAIN l : ~Ahead(l, ListHead, n)
          BY Places
    <1>2. /\ r \in Seq(Elements) /\ DOMAIN r = 1 .. Len(l) - 1
          /\ \A n \in 1 .. Len(l) - 1 : r[n] = IF n < k THEN l[n] ELSE l[n + 1]
          BY ListDel
    <1>3. \A n \in DOMAIN r : n \in Nat /\ p(n) \in DOMAIN l /\ p(n) # k /\ r[n] = l[p(n)]
          BY <1>1, <1>2
    <1>4. \A m, n \in DOMAIN r : (p(m) = p(n) => m = n) /\ (p(m) <= p(n) <=> m <= n)
          BY <1>1, <1>2
    <1>5. ASSUME NEW j \in DOMAIN l, j # k
          PROVE  \E n \in DOMAIN r : p(n) = j
          <2>1. CASE j < k
                <3>1. j \in DOMAIN r /\ p(j) = j
                      BY <1>1, <1>2, <2>1
                <3> QED BY <3>1
          <2>2. CASE j > k
                <3>1. j - 1 \in DOMAIN r /\ p(j - 1) = j
                      BY <1>1, <1>2, <2>2
                <3> QED BY <3>1
          <2> QED BY <1>1, <1>5, <2>1, <2>2
    <1> HIDE DEF p
    <1>6. Distinct(r)
          BY <1>3, <1>4 DEF Distinct
    <1>7. \A n \in DOMAIN r : r[n] # e /\ r[n] \in Range(l)
          BY <1>3 DEF Distinct, Range
    <1>8. Range(r) = Range(l) \ {e}
          <2>1. ASSUME NEW j \in DOMAIN l, l[j] # e PROVE l[j] \in Range(r)
                <3>1. PICK n \in DOMAIN r : p(n) = j
                      BY <1>5, <2>1
                <3> QED BY <1>3, <3>1 DEF Range
          <2> QED BY <1>7, <2>1 DEF Range
    <1>9. /\ \A m, n \in DOMAIN r : Ahead(r, r[m], n) <=> m <= n
          /\ \A n \in DOMAIN r : ~Ahead(r, ListHead, n)
          BY <1>2, <1>6, Places
    <1>10. ASSUME NEW j \in DOMAIN l, j # k, NEW n \in DOMAIN r
           PROVE  Ahead(r, l[j], n) <=> j <= p(n)
          <2>1. PICK m \in DOMAIN r : p(m) = j
                BY <1>5, <1>10
          <2>2. l[j] = r[m]
                BY <1>3, <2>1
          <2> QED BY <1>4, <1>9, <2>1, <2>2
    <1>11. ASSUME NEW x \in Range(l) \cup {ListHead}, x # e, NEW n \in DOMAIN r
           PROVE  Ahead(r, x, n) <=> Ahead(l, x, p(n))
          <2>1. CASE x = ListHead
                BY <1>1, <1>3, <1>9, <2>1
          <2>2. ASSUME NEW j \in DOMAIN l, x = l[j]
                PROVE  Ahead(r, x, n) <=> Ahead(l, x, p(n))
                BY <1>1, <1>3, <1>10, <1>11, <2>2
          <2> QED BY <2>1, <2>2 DEF Range
    <1>12. /\ NextOf(e) \in Range(l) \cup {ListHead} /\ NextOf(e) # e
           /\ \A n \in DOMAIN l : Ahead(l, NextOf(e), n) <=> k < n
          BY NextOfFacts
    <1>13. \A n \in DOMAIN r : Ahead(r, NextOf(e), n) <=> Ahead(l, e, p(n))
          <2> SUFFICES ASSUME NEW n \in DOMAIN r
                       PROVE  Ahead(r, NextOf(e), n) <=> Ahead(l, e, p(n))
              OBVIOUS
          <2>1. Ahead(r, NextOf(e), n) <=> Ahead(l, NextOf(e), p(n))
                BY <1>11, <1>12
          <2>2. p(n) \in DOMAIN l /\ p(n) # k
                BY <1>3
          <2>3. k < p(n) <=> k <= p(n)
                BY <1>1, <2>2
          <2> QED BY <1>1, <1>12, <2>1, <2>2, <2>3
    <1>14. ASSUME NEW S, NEW v, NEW x \in Range(l) \cup {ListHead}, Counted(l, x, S, v)
           PROVE  Counted(r, IF x = e THEN NextOf(e) ELSE x, S \ {e}, [v EXCEPT ![e] = 0])
          <2> DEFINE y == IF x = e THEN NextOf(e) ELSE x
                     w == [v EXCEPT ![e] = 0]
          <2>1. /\ S \subseteq Range(l) /\ v \in [Elements -> 0 .. 1]
                /\ \A a \in Elements \ Range(l) : v[a] = 0
                BY <1>14 DEF Counted
          <2>2. e \in Elements
                BY <1>1
          <2>3. /\ w \in [Elements -> 0 .. 1] /\ w[e] = 0
                /\ \A a \in Elements : a # e => w[a] = v[a]
                BY <2>1, <2>2
          <2>4. \A n \in DOMAIN r : Ahead(r, y, n) <=> Ahead(l, x, p(n))
                BY <1>11, <1>13
          <2> HIDE DEF w, y
          <2>5. ASSUME NEW n \in DOMAIN r
                PROVE  /\ Ahead(r, y, n) => w[r[n]] = 0
                       /\ ~Ahead(r, y, n) /\ r[n] \in S \ {e} => w[r[n]] = 1
                <3>1. p(n) \in DOMAIN l /\ r[n] = l[p(n)] /\ r[n] # e /\ r[n] \in Elements
                      BY <1>1, <1>3, <1>7
                <3>2. w[r[n]] = v[l[p(n)]]
                      BY <2>3, <3>1
                <3>3. /\ Ahead(l, x, p(n)) => v[l[p(n)]] = 0
                      /\ ~Ahead(l, x, p(n)) /\ l[p(n)] \in S => v[l[p(n)]] = 1
                      BY <1>14, <3>1 DEF Counted
                <3> QED BY <2>4, <3>1, <3>2, <3>3
          <2>6. \A a \in Elements \ Range(r) : w[a] = 0
                BY <1>8, <2>1, <2>3
          <2>7. Counted(r, y, S \ {e}, w)
                BY <1>8, <2>1, <2>3, <2>5, <2>6 DEF Counted
          <2> QED BY <2>7 DEF w, y
    <1> QED BY <1>2, <1>6, <1>8, <1>14

-----------------------------------------------------------------------------
(* The calls of a safe list and the steps of its loops.                    *)

\* The list has no repetition, the iterators of the running loops are chained,
\* and each of these loops has counted its visits up to the node it goes to.
SafeInv ==
    /\ safe_list \in Seq(Elements) /\ Distinct(safe_list)
    /\ chains \in ChainState /\ depth \in 0 .. MaxDepth
    /\ Chained(chains, Running)
    /\ since \in [Depths -> SUBSET Elements] /\ visits \in [Depths -> [Elements -> 0 .. 1]]
    /\ missed = {}
    /\ \A d \in Running :
         /\ safe_iter[d].next \in Range(safe_list) \cup {ListHead}
         /\ Counted(safe_list, safe_iter[d].next, since[d], visits[d])

\* Only the iterators of the loops that run matter.
LEMMA ChainedFrame ==
    ASSUME NEW s, NEW r, NEW R, Chained(s, R), r.i = s.i, \A d \in R : r.iter[d] = s.iter[d]
    PROVE  Chained(r, R)
    <1>1. ASSUME NEW rank, Linked(s, R, rank) PROVE Linked(r, R, rank)
          <2>1. \A x \in Nodes : r.i[x] # None => r.i[x] \in R /\ r.iter[r.i[x]].head = <<"node", x>>
                BY <1>1 DEF Linked
          <2>2. ASSUME NEW d \in R
                PROVE  \/ r.iter[d].head = <<"node", r.iter[d].next>> /\ r.i[r.iter[d].next] = d
                       \/ \E b \in R : /\ r.iter[d].head = <<"iter", b>> /\ r.iter[b].next_i = d
                                       /\ r.iter[b].next = r.iter[d].next /\ rank[d] < rank[b]
                BY <1>1 DEF Linked
          <2>3. \A d \in R : r.iter[d].next_i # None =>
                   r.iter[d].next_i \in R /\ r.iter[r.iter[d].next_i].head = <<"iter", d>>
                BY <1>1 DEF Linked
          <2> QED BY <2>1, <2>2, <2>3 DEF Linked
    <1> QED BY <1>1 DEF Chained

\* The chains after a step that stores s.
LEMMA ChainsNext ==
    ASSUME NEW s \in ChainState, safe_i' = s.i, safe_iter' = s.iter
    PROVE  chains' = s
    BY DEF chains, ChainState

\* The loops that run are numbered from 1.
LEMMA RunningFacts ==
    ASSUME SafeListAssumption, depth \in 0 .. MaxDepth
    PROVE  /\ Running \subseteq Depths /\ depth \in Nat
           /\ depth > 0 => /\ depth \in Running /\ depth \in Depths
                           /\ Running \ {depth} = 1 .. depth - 1
           /\ depth < MaxDepth => /\ depth + 1 \in Depths \ Running
                                  /\ Running \cup {depth + 1} = 1 .. depth + 1
    BY DEF SafeListAssumption, Running, Depths

\* An empty list on which no loop runs.
LEMMA SafeInitInv == ASSUME SafeListAssumption, SafeInit PROVE SafeInv
    <1>1. /\ safe_list = <<>> /\ depth = 0 /\ missed = {}
          /\ safe_i = [x \in Nodes |-> None] /\ safe_iter = [d \in Depths |-> Idle]
          /\ since = [d \in Depths |-> {}]
          /\ visits = [d \in Depths |-> [e \in Elements |-> 0]]
          BY DEF SafeInit
    <1>2. Running = {} /\ depth \in 0 .. MaxDepth
          BY <1>1 DEF Running, SafeListAssumption
    <1>3. Idle \in Iterator
          BY DEF Idle, Iterator, Location, Nodes
    <1>4. chains \in ChainState
          BY <1>1, <1>3 DEF chains, ChainState
    <1>5. Chained(chains, Running)
          <2> DEFINE rank == [d \in Depths |-> 0]
          <2>1. rank \in [Depths -> 0 .. 0]
                OBVIOUS
          <2>2. \A x \in Nodes : chains.i[x] = None
                BY <1>1 DEF chains
          <2> HIDE DEF rank
          <2>3. Linked(chains, Running, rank)
                BY <1>2, <2>2 DEF Linked
          <2> QED BY <2>1, <2>3 DEF Chained
    <1>6. safe_list \in Seq(Elements) /\ Distinct(safe_list)
          BY <1>1 DEF Distinct
    <1>7. since \in [Depths -> SUBSET Elements] /\ visits \in [Depths -> [Elements -> 0 .. 1]]
          BY <1>1
    <1> QED BY <1>1, <1>2, <1>4, <1>5, <1>6, <1>7 DEF SafeInv

\* An element that is not in the list carries no iterator, so safe_list_add
\* does not cut a chain when it sets i to null.
LEMMA SafeAddInv ==
    ASSUME SafeListAssumption, SafeInv, NEW e \in Elements, NEW first \in BOOLEAN, SafeAdd(e, first)
    PROVE  SafeInv'
    <1>1. /\ e \notin Range(safe_list)
          /\ safe_list' = IF first THEN <<e>> \o safe_list ELSE Append(safe_list, e)
          /\ safe_i' = [safe_i EXCEPT ![e] = None]
          /\ UNCHANGED <<safe_iter, safe_cur, depth, since, visits, missed>>
          BY DEF SafeAdd
    <1>2. e \in Nodes /\ e # ListHead
          BY DEF Nodes, SafeListAssumption
    <1>3. safe_i \in [Nodes -> Depths \cup {None}] /\ chains.i = safe_i /\ chains.iter = safe_iter
          <2>1. chains.i = safe_i /\ chains.iter = safe_iter
                BY DEF chains
          <2> QED BY <2>1, ChainStateParts DEF SafeInv
    <1>4. safe_i[e] = None
          <2> SUFFICES ASSUME safe_i[e] # None PROVE FALSE
              OBVIOUS
          <2>1. PICK rank : Linked(chains, Running, rank)
                BY DEF SafeInv, Chained
          <2>2. PICK d \in Running : safe_iter[d].head = <<"node", e>>
                BY <1>2, <1>3, <2>1 DEF Linked
          <2>3. safe_iter[d].next = e
                BY <1>3, <2>1, <2>2, Locations DEF Linked
          <2> QED BY <1>1, <1>2, <2>3 DEF SafeInv
    <1>5. safe_i' = safe_i
          BY <1>1, <1>3, <1>4
    <1>6. chains' = chains /\ Running' = Running /\ safe_iter' = safe_iter
          BY <1>1, <1>5 DEF chains, Running
    <1>7. /\ safe_list' \in Seq(Elements) /\ Distinct(safe_list')
          /\ Range(safe_list') = Range(safe_list) \cup {e}
          /\ \A x, S, v : x # e /\ Counted(safe_list, x, S, v) => Counted(safe_list', x, S, v)
          <2>1. CASE first
                BY <1>1, <2>1, CountPrepend DEF SafeInv
          <2>2. CASE ~first
                BY <1>1, <2>2, CountAppend DEF SafeInv
          <2> QED BY <2>1, <2>2
    <1>8. ASSUME NEW d \in Running
          PROVE  /\ safe_iter[d].next \in Range(safe_list') \cup {ListHead}
                 /\ Counted(safe_list', safe_iter[d].next, since[d], visits[d])
          <2>1. /\ safe_iter[d].next \in Range(safe_list) \cup {ListHead}
                /\ Counted(safe_list, safe_iter[d].next, since[d], visits[d])
                BY <1>8 DEF SafeInv
          <2>2. safe_iter[d].next # e
                BY <1>1, <1>2, <2>1
          <2> QED BY <1>7, <2>1, <2>2
    <1> QED BY <1>1, <1>6, <1>7, <1>8 DEF SafeInv

\* The iterators of a deleted element go on with the element after it.
LEMMA DelChains ==
    ASSUME SafeListAssumption, SafeInv, NEW e \in Nodes, NEW next \in Nodes, next # e,
           NEW s, s = IF safe_i[e] = None THEN chains ELSE MoveChain(e, next)
    PROVE  /\ s \in ChainState /\ Chained(s, Running)
           /\ \A d \in Running :
                 s.iter[d].next = IF safe_iter[d].next = e THEN next ELSE safe_iter[d].next
    <1>1. chains.i = safe_i /\ chains.iter = safe_iter
          BY DEF chains
    <1>2. Running \subseteq Depths
          BY RunningFacts DEF SafeInv
    <1>3. chains \in ChainState /\ Chained(chains, Running)
          BY DEF SafeInv
    <1>4. CASE safe_i[e] = None
          <2>1. \A d \in Running : safe_iter[d].next # e
                BY <1>1, <1>2, <1>3, <1>4, ChainEnds
          <2> QED BY <1>1, <1>3, <1>4, <2>1
    <1>5. CASE safe_i[e] # None
          <2>1. s = MoveChain(e, next)
                BY <1>5
          <2>2. On(e) = {d \in Running : chains.iter[d].next = e}
                BY <1>1 DEF On, Running
          <2>3. \E d \in On(e) : safe_iter[d].next_i = None
                <3>1. PICK rank : Linked(chains, Running, rank)
                      BY <1>3 DEF Chained
                <3>2. PICK d \in Running : safe_iter[d].head = <<"node", e>>
                      BY <1>1, <1>5, <3>1 DEF Linked
                <3>3. safe_iter[d].next = e
                      BY <1>1, <3>1, <3>2, Locations DEF Linked
                <3>4. \E c \in Running : safe_iter[c].next = e /\ safe_iter[c].next_i = None
                      BY <1>1, <1>2, <1>3, <3>3, ChainEnds
                <3> QED BY <1>1, <2>2, <3>4
          <2>4. Tail_(e) \in On(e) /\ safe_iter[Tail_(e)].next_i = None
                BY <2>3 DEF Tail_
          <2>5. Tail_(e) \in Depths
                BY <1>2, <2>2, <2>4
          <2>6. s \in ChainState /\ Moved(s, chains, e, next, On(e), safe_i[e], Tail_(e), safe_i[next])
                BY <1>3, <2>1, <2>5, MoveChainFields
          <2>7. Chained(s, Running)
                BY <1>1, <1>2, <1>3, <1>5, <2>2, <2>4, <2>6, MoveChainFacts
          <2>8. \A d \in Depths : s.iter[d].next = IF d \in On(e) THEN next ELSE safe_iter[d].next
                BY <1>1, <2>6 DEF Moved
          <2> QED BY <1>1, <1>2, <2>2, <2>6, <2>7, <2>8
    <1> QED BY <1>4, <1>5

\* safe_list_del: the loops that were to go to e go to its successor.
LEMMA SafeDelInv ==
    ASSUME SafeListAssumption, SafeInv, NEW e \in Elements, SafeDel(e)
    PROVE  SafeInv'
    <1> DEFINE next == NextOf(e)
    <1>1. PICK s : s = IF safe_i[e] = None THEN chains ELSE MoveChain(e, next)
          OBVIOUS
    <1>2. /\ e \in Range(safe_list) /\ safe_list' = RemoveFirst(safe_list, e)
          /\ safe_i' = s.i /\ safe_iter' = s.iter
          /\ since' = [d \in Depths |-> since[d] \ {e}]
          /\ visits' = [d \in Depths |-> [visits[d] EXCEPT ![e] = 0]]
          /\ depth' = depth /\ missed' = missed
          BY <1>1 DEF SafeDel, DelTo
    <1>3. PICK k \in DOMAIN safe_list : e = safe_list[k]
          BY <1>2 DEF Range
    <1>4. next \in Range(safe_list) \cup {ListHead} /\ next \in Nodes /\ next # e
          BY <1>3, NextOfFacts DEF SafeInv
    <1>5. /\ safe_list' \in Seq(Elements) /\ Distinct(safe_list')
          /\ Range(safe_list') = Range(safe_list) \ {e}
          /\ \A S, v : \A x \in Range(safe_list) \cup {ListHead} :
                Counted(safe_list, x, S, v) =>
                    Counted(safe_list', IF x = e THEN next ELSE x, S \ {e}, [v EXCEPT ![e] = 0])
          BY <1>2, <1>3, CountRemove DEF SafeInv
    <1> HIDE DEF next
    <1>6. e \in Nodes /\ e # ListHead
          BY DEF Nodes, SafeListAssumption
    <1>7. /\ s \in ChainState /\ Chained(s, Running)
          /\ \A d \in Running :
                s.iter[d].next = IF safe_iter[d].next = e THEN next ELSE safe_iter[d].next
          BY <1>1, <1>4, <1>6, DelChains
    <1>8. chains' = s /\ Running' = Running
          BY <1>2, <1>7, ChainsNext DEF Running
    <1>9. Running \subseteq Depths
          BY RunningFacts DEF SafeInv
    <1>10. /\ since' \in [Depths -> SUBSET Elements] /\ visits' \in [Depths -> [Elements -> 0 .. 1]]
          BY <1>2 DEF SafeInv
    <1>11. ASSUME NEW d \in Running
           PROVE  /\ safe_iter'[d].next \in Range(safe_list') \cup {ListHead}
                  /\ Counted(safe_list', safe_iter'[d].next, since'[d], visits'[d])
          <2>1. /\ safe_iter[d].next \in Range(safe_list) \cup {ListHead}
                /\ Counted(safe_list, safe_iter[d].next, since[d], visits[d])
                BY <1>11 DEF SafeInv
          <2>2. safe_iter'[d].next = IF safe_iter[d].next = e THEN next ELSE safe_iter[d].next
                BY <1>2, <1>7
          <2>3. since'[d] = since[d] \ {e} /\ visits'[d] = [visits[d] EXCEPT ![e] = 0]
                BY <1>2, <1>9
          <2>4. Counted(safe_list', safe_iter'[d].next, since'[d], visits'[d])
                <3>1. Counted(safe_list', IF safe_iter[d].next = e THEN next ELSE safe_iter[d].next,
                              since[d] \ {e}, [visits[d] EXCEPT ![e] = 0])
                      BY <1>5, <2>1
                <3> QED BY <2>2, <2>3, <3>1
          <2> QED BY <1>4, <1>5, <1>6, <2>1, <2>2, <2>4
    <1> QED BY <1>2, <1>5, <1>7, <1>8, <1>10, <1>11 DEF SafeInv

\* safe_list_for_each hangs a new iterator behind the first element.
LEMMA ForEachInv ==
    ASSUME SafeListAssumption, SafeInv, ForEach
    PROVE  SafeInv'
    <1> DEFINE new == [e \in Elements |-> IF e = safe_list[1] THEN 1 ELSE 0]
    <1>1. PICK d, s : d = depth + 1 /\ s = SetIterator(chains, safe_list[1], d)
          OBVIOUS
    <1>2. /\ depth < MaxDepth /\ safe_list # <<>>
          /\ safe_i' = s.i /\ safe_iter' = s.iter /\ depth' = d
          /\ since' = [since EXCEPT ![d] = Range(safe_list)]
          /\ visits' = [visits EXCEPT ![d] = new]
          /\ safe_list' = safe_list /\ missed' = missed
          BY <1>1 DEF ForEach
    <1>3. /\ Running \subseteq Depths /\ d \in Depths \ Running /\ d \in 0 .. MaxDepth
          /\ Running' = Running \cup {d}
          BY <1>1, <1>2, RunningFacts DEF SafeInv, Running, Depths
    <1>4. /\ 1 \in DOMAIN safe_list
          /\ Counted(safe_list, NextOf(safe_list[1]), Range(safe_list), new)
          BY <1>2, CountBegin DEF SafeInv
    <1>5. NextOf(safe_list[1]) \in Range(safe_list) \cup {ListHead} /\ NextOf(safe_list[1]) \in Nodes
          BY <1>4, NextOfFacts DEF SafeInv
    <1>6. /\ s \in ChainState /\ Chained(s, Running \cup {d})
          /\ \A e \in Depths : s.iter[e].next = IF e = d THEN NextOf(safe_list[1]) ELSE safe_iter[e].next
          <2>1. chains \in ChainState /\ Chained(chains, Running) /\ chains.iter = safe_iter
                BY DEF SafeInv, chains
          <2>2. /\ s \in ChainState /\ Chained(s, Running \cup {d})
                /\ \A e \in Depths : s.iter[e].next =
                      IF e = d THEN NextOf(safe_list[1]) ELSE chains.iter[e].next
                BY <1>1, <1>3, <1>5, <2>1, SetIteratorFacts
          <2> QED BY <2>1, <2>2
    <1>7. chains' = s
          BY <1>2, <1>6, ChainsNext
    <1>8. Range(safe_list) \subseteq Elements /\ new \in [Elements -> 0 .. 1]
          BY DEF SafeInv, Range
    <1> HIDE DEF new
    <1>9. /\ since' \in [Depths -> SUBSET Elements] /\ visits' \in [Depths -> [Elements -> 0 .. 1]]
          /\ since'[d] = Range(safe_list) /\ visits'[d] = new
          /\ \A e \in Running : since'[e] = since[e] /\ visits'[e] = visits[e]
          BY <1>2, <1>3, <1>8 DEF SafeInv
    <1>10. ASSUME NEW e \in Running \cup {d}
           PROVE  /\ safe_iter'[e].next \in Range(safe_list) \cup {ListHead}
                  /\ Counted(safe_list, safe_iter'[e].next, since'[e], visits'[e])
          <2>1. CASE e = d
                <3>1. safe_iter'[e].next = NextOf(safe_list[1])
                      BY <1>2, <1>3, <1>6, <2>1
                <3> QED BY <1>4, <1>5, <1>9, <2>1, <3>1
          <2>2. CASE e \in Running
                <3>1. safe_iter'[e].next = safe_iter[e].next
                      BY <1>2, <1>3, <1>6, <2>2
                <3> QED BY <1>9, <2>2, <3>1 DEF SafeInv
          <2> QED BY <2>1, <2>2
    <1> QED BY <1>2, <1>3, <1>6, <1>7, <1>9, <1>10 DEF SafeInv

\* The innermost loop ends; the others stay as they are.
LEMMA EndLoopInv ==
    ASSUME SafeListAssumption, SafeInv, depth > 0,
           NEW s \in ChainState, Chained(s, Running \ {depth}),
           \A d \in Depths : d # depth => s.iter[d].next = safe_iter[d].next,
           EndLoop(s, {})
    PROVE  SafeInv'
    <1>1. /\ safe_i' = s.i /\ safe_iter' = [s.iter EXCEPT ![depth] = Idle]
          /\ since' = [since EXCEPT ![depth] = {}]
          /\ visits' = [visits EXCEPT ![depth] = [e \in Elements |-> 0]]
          /\ depth' = depth - 1 /\ missed' = {} /\ safe_list' = safe_list
          BY DEF EndLoop
    <1>2. /\ Running \subseteq Depths /\ depth \in Depths /\ depth' \in 0 .. MaxDepth
          /\ Running' = Running \ {depth}
          <2>1. /\ Running \subseteq Depths /\ depth \in Depths /\ depth \in 0 .. MaxDepth
                /\ Running \ {depth} = 1 .. depth - 1
                BY RunningFacts DEF SafeInv
          <2>2. MaxDepth \in Nat
                BY DEF SafeListAssumption
          <2>3. depth' \in 0 .. MaxDepth
                BY <1>1, <2>1, <2>2
          <2> QED BY <1>1, <2>1, <2>3 DEF Running
    <1>3. s.i \in [Nodes -> Depths \cup {None}] /\ s.iter \in [Depths -> Iterator]
          BY ChainStateParts
    <1>4. Idle \in Iterator
          BY DEF Idle, Iterator, Location, Nodes
    <1>5. /\ safe_iter' \in [Depths -> Iterator]
          /\ \A d \in Depths : d # depth => safe_iter'[d] = s.iter[d]
          BY <1>1, <1>2, <1>3, <1>4
    <1>6. chains' \in ChainState /\ chains'.i = s.i /\ chains'.iter = safe_iter'
          BY <1>1, <1>3, <1>5 DEF chains, ChainState
    <1>7. Chained(chains', Running')
          BY <1>2, <1>5, <1>6, ChainedFrame
    <1>8. /\ since' \in [Depths -> SUBSET Elements] /\ visits' \in [Depths -> [Elements -> 0 .. 1]]
          /\ \A d \in Depths : d # depth => since'[d] = since[d] /\ visits'[d] = visits[d]
          BY <1>1, <1>2 DEF SafeInv
    <1>9. ASSUME NEW d \in Running'
          PROVE  /\ safe_iter'[d].next \in Range(safe_list) \cup {ListHead}
                 /\ Counted(safe_list, safe_iter'[d].next, since'[d], visits'[d])
          <2>1. d \in Running /\ d # depth /\ d \in Depths
                BY <1>2
          <2>2. safe_iter'[d].next = safe_iter[d].next
                BY <1>5, <2>1
          <2> QED BY <1>8, <2>1, <2>2 DEF SafeInv
    <1> QED BY <1>1, <1>2, <1>6, <1>7, <1>8, <1>9 DEF SafeInv

\* A callback that returns nonzero takes the iterator of its loop off.
LEMMA BreakInv ==
    ASSUME SafeListAssumption, SafeInv, Break
    PROVE  SafeInv'
    <1>1. depth > 0 /\ EndLoop(DelIterator(chains, depth), {})
          BY DEF Break, SafeInv
    <1>2. Running \in SUBSET Depths /\ depth \in Running
          BY <1>1, RunningFacts DEF SafeInv
    <1>3. chains \in ChainState /\ Chained(chains, Running) /\ chains.iter = safe_iter
          BY DEF SafeInv, chains
    <1>4. PICK s : s = DelIterator(chains, depth)
          OBVIOUS
    <1>5. /\ s \in ChainState /\ Chained(s, Running \ {depth})
          /\ \A d \in Depths : s.iter[d].next = chains.iter[d].next
          BY <1>2, <1>3, <1>4, DelIteratorFacts
    <1> QED BY <1>1, <1>3, <1>4, <1>5, EndLoopInv

\* The loop goes on.
LEMMA ContinueInv ==
    ASSUME SafeListAssumption, SafeInv, Continue
    PROVE  SafeInv'
    <1>1. PICK x, q, s : /\ x = safe_iter[depth].next /\ q = DelIterator(chains, depth)
                         /\ s = SetIterator(q, x, depth)
          OBVIOUS
    <1>2. /\ depth > 0
          /\ x = ListHead =>
                EndLoop(DelIterator(s, depth),
                        missed \cup {e \in since[depth] \cap Range(safe_list) : visits[depth][e] = 0})
          /\ x # ListHead => /\ safe_i' = s.i /\ safe_iter' = s.iter /\ Visit(depth, x)
                             /\ UNCHANGED <<safe_list, depth, since, missed, safe_calls>>
          BY <1>1 DEF Continue
    <1>3. Running \subseteq Depths /\ depth \in Running /\ depth \in Depths
          BY <1>2, RunningFacts DEF SafeInv
    <1>4. chains \in ChainState /\ Chained(chains, Running) /\ chains.iter = safe_iter
          BY DEF SafeInv, chains
    <1>5. /\ x \in Range(safe_list) \cup {ListHead}
          /\ Counted(safe_list, x, since[depth], visits[depth])
          BY <1>1, <1>3 DEF SafeInv
    <1>6. /\ q \in ChainState /\ Chained(q, Running \ {depth})
          /\ \A d \in Depths : q.iter[d].next = safe_iter[d].next
          <2>1. /\ q \in ChainState /\ Chained(q, Running \ {depth})
                /\ \A d \in Depths : q.iter[d].next = chains.iter[d].next
                BY <1>1, <1>3, <1>4, DelIteratorFacts
          <2> QED BY <1>4, <2>1
    <1>7. NextOf(x) \in Nodes
          <2>1. CASE x = ListHead
                <3>1. safe_list # <<>> => safe_list[1] \in Elements
                      BY DEF SafeInv
                <3> QED BY <2>1, <3>1 DEF NextOf, Nodes
          <2>2. ASSUME NEW k \in DOMAIN safe_list, x = safe_list[k] PROVE NextOf(x) \in Nodes
                BY <2>2, NextOfFacts DEF SafeInv
          <2> QED BY <1>5, <2>1, <2>2 DEF Range
    <1>8. /\ s \in ChainState /\ Chained(s, Running)
          /\ \A d \in Depths : s.iter[d].next = IF d = depth THEN NextOf(x) ELSE safe_iter[d].next
          <2>1. Running \ {depth} \in SUBSET Depths /\ depth \in Depths \ (Running \ {depth})
                BY <1>3
          <2>2. /\ s \in ChainState /\ Chained(s, (Running \ {depth}) \cup {depth})
                /\ \A d \in Depths : s.iter[d].next = IF d = depth THEN NextOf(x) ELSE q.iter[d].next
                BY <1>1, <1>6, <1>7, <2>1, SetIteratorFacts
          <2>3. (Running \ {depth}) \cup {depth} = Running
                BY <1>3
          <2> QED BY <1>6, <2>2, <2>3
    <1>9. CASE x = ListHead
          <2>1. {e \in since[depth] \cap Range(safe_list) : visits[depth][e] = 0} = {}
                BY <1>5, <1>9, CountEnd DEF SafeInv
          <2>2. EndLoop(DelIterator(s, depth), {})
                BY <1>2, <1>9, <2>1 DEF SafeInv
          <2>3. PICK r : r = DelIterator(s, depth)
                OBVIOUS
          <2>4. /\ r \in ChainState /\ Chained(r, Running \ {depth})
                /\ \A d \in Depths : r.iter[d].next = s.iter[d].next
                <3>1. Running \in SUBSET Depths /\ depth \in Running
                      BY <1>3
                <3> QED BY <1>8, <2>3, <3>1, DelIteratorFacts
          <2>5. \A d \in Depths : d # depth => r.iter[d].next = safe_iter[d].next
                BY <1>8, <2>4
          <2> QED BY <1>2, <2>2, <2>3, <2>4, <2>5, EndLoopInv
    <1>10. CASE x # ListHead
          <2>1. PICK k \in DOMAIN safe_list : x = safe_list[k]
                BY <1>5, <1>10 DEF Range
          <2>2. /\ visits[depth][x] = 0
                /\ Counted(safe_list, NextOf(x), since[depth], [visits[depth] EXCEPT ![x] = 1])
                BY <1>5, <2>1, CountVisit DEF SafeInv
          <2>3. NextOf(x) \in Range(safe_list) \cup {ListHead}
                BY <2>1, NextOfFacts DEF SafeInv
          <2>4. /\ safe_i' = s.i /\ safe_iter' = s.iter /\ safe_list' = safe_list
                /\ depth' = depth /\ since' = since /\ missed' = missed
                /\ visits' = [visits EXCEPT ![depth][x] = IF @ < 2 THEN @ + 1 ELSE @]
                BY <1>2, <1>10 DEF Visit
          <2>5. x \in Elements
                BY <2>1 DEF SafeInv
          <2>6. visits \in [Depths -> [Elements -> 0 .. 1]]
                BY DEF SafeInv
          <2>7. visits' = [visits EXCEPT ![depth] = [visits[depth] EXCEPT ![x] = 1]]
                BY <1>3, <2>2, <2>4, <2>5, <2>6
          <2>8. /\ visits' \in [Depths -> [Elements -> 0 .. 1]]
                /\ visits'[depth] = [visits[depth] EXCEPT ![x] = 1]
                /\ \A d \in Depths : d # depth => visits'[d] = visits[d]
                BY <1>3, <2>5, <2>6, <2>7
          <2>9. chains' = s /\ Running' = Running
                BY <1>8, <2>4, ChainsNext DEF Running
          <2>10. ASSUME NEW d \in Running
                 PROVE  /\ safe_iter'[d].next \in Range(safe_list) \cup {ListHead}
                        /\ Counted(safe_list, safe_iter'[d].next, since[d], visits'[d])
                <3>1. CASE d = depth
                      <4>1. safe_iter'[d].next = NextOf(x)
                            BY <1>3, <1>8, <2>4, <3>1
                      <4> QED BY <2>2, <2>3, <2>8, <3>1, <4>1
                <3>2. CASE d # depth
                      <4>1. safe_iter'[d].next = safe_iter[d].next /\ visits'[d] = visits[d]
                            BY <1>3, <1>8, <2>4, <2>8, <3>2
                      <4> QED BY <4>1 DEF SafeInv
                <3> QED BY <3>1, <3>2
          <2> QED BY <1>8, <2>4, <2>8, <2>9, <2>10 DEF SafeInv
    <1> QED BY <1>9, <1>10

\* Every step keeps the invariant.
LEMMA SafeNextInv ==
    ASSUME SafeListAssumption, SafeInv, [SafeNext]_safe_vars
    PROVE  SafeInv'
    <1>1. CASE UNCHANGED safe_vars
          BY <1>1 DEF safe_vars, SafeInv, chains, Running
    <1>2. CASE SafeNext
          BY <1>2, SafeDelInv, SafeAddInv, ForEachInv, BreakInv, ContinueInv DEF SafeNext
    <1> QED BY <1>1, <1>2

\* What the invariant says of the chains and the visits.
LEMMA SafeInvVisits ==
    ASSUME SafeListAssumption, SafeInv
    PROVE  VisitsEachOnce
    <1>1. Running \subseteq Depths
          BY RunningFacts DEF SafeInv
    <1>2. chains.i = safe_i /\ chains.iter = safe_iter
          BY DEF chains
    <1>3. SafeTypeOK
          <2>1. safe_i \in [Nodes -> Depths \cup {None}]
                BY <1>2, ChainStateParts DEF SafeInv
          <2>2. IsInjective(safe_list)
                BY DEF IsInjective, Distinct, SafeInv
          <2> QED BY <2>1, <2>2 DEF SafeTypeOK, SafeInv
    <1>4. PICK rank : Linked(chains, Running, rank)
          BY DEF SafeInv, Chained
    <1>5. ChainsOK
          <2>1. ASSUME NEW d \in Running, NEW at, at = safe_iter[d].head
                PROVE  /\ d = IF at[1] = "node" THEN safe_i[at[2]] ELSE safe_iter[at[2]].next_i
                       /\ at[1] = "node" => at[2] = safe_iter[d].next
                       /\ at[1] = "iter" => at[2] \in Running /\ safe_iter[at[2]].next = safe_iter[d].next
                <3>1. CASE at = <<"node", safe_iter[d].next>> /\ safe_i[safe_iter[d].next] = d
                      BY <3>1
                <3>2. ASSUME NEW b \in Running, at = <<"iter", b>>, safe_iter[b].next_i = d,
                             safe_iter[b].next = safe_iter[d].next
                      PROVE  /\ d = IF at[1] = "node" THEN safe_i[at[2]] ELSE safe_iter[at[2]].next_i
                             /\ at[1] = "node" => at[2] = safe_iter[d].next
                             /\ at[1] = "iter" =>
                                   at[2] \in Running /\ safe_iter[at[2]].next = safe_iter[d].next
                      BY <3>2
                <3> QED BY <1>2, <1>4, <2>1, <3>1, <3>2 DEF Linked
          <2>2. \A d \in Running : safe_iter[d].next_i # None =>
                   safe_iter[d].next_i \in Running /\ safe_iter[safe_iter[d].next_i].head = <<"iter", d>>
                BY <1>2, <1>4 DEF Linked
          <2>3. \A x \in Nodes : safe_i[x] # None =>
                   safe_i[x] \in Running /\ safe_iter[safe_i[x]].head = <<"node", x>>
                BY <1>2, <1>4 DEF Linked
          <2> QED BY <2>1, <2>2, <2>3 DEF ChainsOK
    <1>6. NoneMissed
          <2>1. \A d \in Running : \A e \in Elements : visits[d][e] \in 0 .. 1
                BY <1>1 DEF SafeInv
          <2> QED BY <2>1 DEF NoneMissed, SafeInv
    <1> QED BY <1>3, <1>5, <1>6 DEF VisitsEachOnce

\* However deep the loops of a safe list are nested and whatever their
\* callbacks add and delete, each loop visits once every element that stays in
\* the list, and the iterators stay chained on the nodes their loops go to.
THEOREM SafeListVisitsEachOnce ==
    ASSUME SafeListAssumption
    PROVE  SafeSpec => []VisitsEachOnce
    <1>1. SafeInit => SafeInv
          BY SafeInitInv
    <1>2. SafeInv /\ [SafeNext]_safe_vars => SafeInv'
          BY SafeNextInv
    <1>3. SafeInv => VisitsEachOnce
          BY SafeInvVisits
    <1> QED BY <1>1, <1>2, <1>3, PTL DEF SafeSpec
=============================================================================
