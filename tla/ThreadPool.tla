----------------------------- MODULE ThreadPool -----------------------------
(***************************************************************************)
(* The thread pool of fun_threadpool: threadpool.c on top of the eventfd   *)
(* queue of thread_async.c and the task array of thread_queue.c.  No part  *)
(* of it takes a lock.  One application thread adds tasks and then         *)
(* destroys the pool; each worker loops over pop, run and the exit test.   *)
(* An action is a piece of a thread's code that touches shared state once  *)
(* (or that no other thread can tell from one that does).  The properties  *)
(* are those of a pool with one worker: two may pop the same slot, or one  *)
(* that was never filled, and keep none of them.                           *)
(***************************************************************************)
EXTENDS Integers, Sequences, FiniteSets, SequencesExt

CONSTANTS
    Workers,        \* the threads threadpool_create started
    Capacity,       \* queue_size
    MaxAdds         \* bound: how many times the application calls threadpool_add

PoolAssumption ==
    /\ IsFiniteSet(Workers) /\ Workers # {}
    /\ {Capacity, MaxAdds} \subseteq Nat \ {0}

Tasks == 1 .. MaxAdds       \* the n-th call of threadpool_add brings task n
NoTask == 0                 \* a calloc'ed slot: run is a null pointer
Task == [run : Tasks \cup {NoTask}, args : Tasks \cup {NoTask}]
Cleared == [run |-> NoTask, args |-> NoTask]
Slots == 0 .. Capacity - 1
Fds == 1 .. MaxAdds         \* eventfd numbers

VARIABLES
    tasks, head, tail, size,    \* thread_queue_t
    ready,          \* the open eventfds, all registered and readable
    shutdown,       \* pool->shutdown is one of its two nonzero values
    app,            \* the application thread: pc, calls of add begun, loaded size
    worker,         \* each worker: pc, events[0].data.fd, task slot, loaded size, half read task
    queued,         \* tasks in the order the queue stored them
    executed,       \* function and argument of each call, in the order the workers made them
    lost            \* history: increments of size that a decrement overwrote

queue == <<tasks, head, tail, size>>
vars == <<tasks, head, tail, size, ready, shutdown, app, worker,
          queued, executed, lost>>

Init ==
    /\ tasks = [s \in Slots |-> Cleared]
    /\ head = 0 /\ tail = 0 /\ size = 0
    /\ ready = {}
    /\ shutdown = FALSE
    /\ app = [pc |-> "idle", calls |-> 0, seen |-> 0]
    /\ worker = [w \in Workers |-> [pc |-> "wait", fd |-> 1, slot |-> 0, seen |-> 0,
                                   task |-> Cleared]]
    /\ queued = <<>> /\ executed = <<>> /\ lost = 0

----------------------------------------------------------------------------
(* The application thread.                                                 *)

\* threadpool_add up to the queue's first is_full test.  A full queue makes
\* push return 0, which the caller ignores: the call still returns 0.
AddBegin ==
    /\ app.pc = "idle" /\ ~shutdown /\ app.calls < MaxAdds
    /\ app' = [app EXCEPT !.calls = @ + 1, !.pc = IF size = Capacity THEN "idle" ELSE "fill"]
    /\ UNCHANGED <<queue, ready, shutdown, worker, queued, executed, lost>>

\* threadpool_add once the pool is shut down: refused with threadpool_shutdown.
AddRefused ==
    /\ app.pc = "destroyed" /\ app.calls < MaxAdds
    /\ app' = [app EXCEPT !.calls = @ + 1]
    /\ UNCHANGED <<queue, ready, shutdown, worker, queued, executed, lost>>

\* thread_queue_push_tail, first half of a task; its own is_full test skips the
\* store, and the event is sent all the same.
PushFill ==
    /\ app.pc = "fill"
    /\ IF size = Capacity
       THEN /\ app' = [app EXCEPT !.pc = "signal"]
            /\ UNCHANGED <<tasks, queued>>
       ELSE /\ tasks' = [tasks EXCEPT ![tail].run = app.calls]
            /\ queued' = Append(queued, app.calls)
            /\ app' = [app EXCEPT !.pc = "args"]
    /\ UNCHANGED <<head, tail, size, ready, shutdown, worker, executed, lost>>

FaultyPushArgs ==
    /\ app.pc = "args"
    /\ tasks' = [tasks EXCEPT ![tail].args = app.calls]
    /\ tail' = tail
    /\ app' = [app EXCEPT !.pc = "load"]
    /\ UNCHANGED <<head, size, ready, shutdown, worker, queued, executed, lost>>

\* The second half, and the tail, which no other thread looks at.
PushArgs ==
    /\ app.pc = "args"
    /\ tasks' = [tasks EXCEPT ![tail].args = app.calls]
    /\ tail' = (tail + 1) % Capacity
    /\ app' = [app EXCEPT !.pc = "load"]
    /\ UNCHANGED <<head, size, ready, shutdown, worker, queued, executed, lost>>

\* size++ reads size ...
PushLoad ==
    /\ app.pc = "load"
    /\ app' = [app EXCEPT !.pc = "store", !.seen = size]
    /\ UNCHANGED <<queue, ready, shutdown, worker, queued, executed, lost>>

\* ... and stores one more, whatever has become of size meanwhile.
PushSize ==
    /\ app.pc = "store"
    /\ size' = app.seen + 1
    /\ app' = [app EXCEPT !.pc = "signal"]
    /\ UNCHANGED <<tasks, head, tail, ready, shutdown, worker, queued, executed, lost>>

FaultySignal ==
    /\ app.pc = "signal"
    /\ ready' = IF size > 1 THEN ready
                ELSE ready \cup {CHOOSE f \in Fds \ ready : \A g \in Fds \ ready : f <= g}
    /\ app' = [app EXCEPT !.pc = "idle"]
    /\ UNCHANGED <<queue, shutdown, worker, queued, executed, lost>>

\* eventfd, epoll_ctl and write: a new descriptor, the lowest free number,
\* becomes readable for every waiting worker.  Then threadpool_add returns 0.
Signal ==
    /\ app.pc = "signal"
    /\ ready' = ready \cup {CHOOSE f \in Fds \ ready : \A g \in Fds \ ready : f <= g}
    /\ app' = [app EXCEPT !.pc = "idle"]
    /\ UNCHANGED <<queue, shutdown, worker, queued, executed, lost>>

\* threadpool_destroy up to the joins: the queue's destroy operation does
\* nothing.  (A second call only returns threadpool_shutdown.)
Destroy ==
    /\ app.pc = "idle" /\ ~shutdown
    /\ shutdown' = TRUE
    /\ app' = [app EXCEPT !.pc = "join"]
    /\ UNCHANGED <<queue, ready, worker, queued, executed, lost>>

\* The last pthread_join returns.  threadpool_free refuses a started pool.
Joined ==
    /\ app.pc = "join" /\ \A w \in Workers : worker[w].pc = "exited"
    /\ app' = [app EXCEPT !.pc = "destroyed"]
    /\ UNCHANGED <<queue, ready, shutdown, worker, queued, executed, lost>>

----------------------------------------------------------------------------
(* A worker.                                                               *)

Goto(w, pc) == worker' = [worker EXCEPT ![w].pc = pc]

\* epoll_wait(-1) returns; the descriptors are level triggered, so any number
\* of workers may be handed the same one.
Wake(w) ==
    /\ worker[w].pc = "wait"
    /\ \E fd \in ready : worker' = [worker EXCEPT ![w].pc = "take", ![w].fd = fd]
    /\ UNCHANGED <<queue, ready, shutdown, app, queued, executed, lost>>

\* read and close of that descriptor number, whatever it names by now.
Take(w) ==
    /\ worker[w].pc = "take"
    /\ ready' = ready \ {worker[w].fd}
    /\ Goto(w, "test")
    /\ UNCHANGED <<queue, shutdown, app, queued, executed, lost>>

\* thread_queue_pop_head's is_empty test.
PopTest(w) ==
    /\ worker[w].pc = "test"
    /\ Goto(w, IF size = 0 THEN "check" ELSE "slot")
    /\ UNCHANGED <<queue, ready, shutdown, app, queued, executed, lost>>

\* t = &tasks[head].
PopSlot(w) ==
    /\ worker[w].pc = "slot"
    /\ worker' = [worker EXCEPT ![w].pc = "head", ![w].slot = head]
    /\ UNCHANGED <<queue, ready, shutdown, app, queued, executed, lost>>

FaultyPopHead(w) ==
    /\ worker[w].pc = "head"
    /\ head' = (worker[w].slot + 2) % Capacity
    /\ Goto(w, "load")
    /\ UNCHANGED <<tasks, tail, size, ready, shutdown, app, queued, executed, lost>>

\* head = (head + 1) % capcity, with head loaded again or kept from t.
PopHead(w) ==
    /\ worker[w].pc = "head"
    /\ \E h \in {head, worker[w].slot} : head' = (h + 1) % Capacity
    /\ Goto(w, "load")
    /\ UNCHANGED <<tasks, tail, size, ready, shutdown, app, queued, executed, lost>>

\* size-- reads size ...
PopLoad(w) ==
    /\ worker[w].pc = "load"
    /\ worker' = [worker EXCEPT ![w].pc = "store", ![w].seen = size]
    /\ UNCHANGED <<queue, ready, shutdown, app, queued, executed, lost>>

\* ... and stores one less: what was added to size meanwhile is lost.
PopSize(w) ==
    /\ worker[w].pc = "store"
    /\ size' = worker[w].seen - 1
    /\ lost' = lost + (size - worker[w].seen)
    /\ Goto(w, "run")
    /\ UNCHANGED <<tasks, head, tail, ready, shutdown, app, queued, executed>>

\* task->run(task->args), through the pointer into a slot already given back:
\* one of the two members is read ...
ReadTask(w) ==
    /\ worker[w].pc = "run"
    /\ worker' = [worker EXCEPT ![w].pc = "call", ![w].task = tasks[worker[w].slot]]
    /\ UNCHANGED <<queue, ready, shutdown, app, queued, executed, lost>>

\* ... and then the other, in the order the compiler chose.
Run(w) ==
    /\ worker[w].pc = "call"
    /\ LET before == worker[w].task
           now == tasks[worker[w].slot]
       IN  \E task \in {[run |-> before.run, args |-> now.args],
                       [run |-> now.run, args |-> before.args]} :
              executed' = Append(executed, task)
    /\ Goto(w, "check")
    /\ UNCHANGED <<queue, ready, shutdown, app, queued, lost>>

\* The worker leaves its loop once the pool is shut down and the queue empty.
Check(w) ==
    /\ worker[w].pc = "check"
    /\ Goto(w, IF shutdown /\ size = 0 THEN "exited" ELSE "wait")
    /\ UNCHANGED <<queue, ready, shutdown, app, queued, executed, lost>>

----------------------------------------------------------------------------
Push == PushFill \/ PushArgs \/ PushLoad \/ PushSize \/ Signal

AppStep == AddBegin \/ AddRefused \/ Push \/ Destroy \/ Joined

WorkerStep(w) ==
    \/ Wake(w) \/ Take(w) \/ PopTest(w) \/ PopSlot(w) \/ PopHead(w)
    \/ PopLoad(w) \/ PopSize(w) \/ ReadTask(w) \/ Run(w) \/ Check(w)

Next == AppStep \/ \E w \in Workers : WorkerStep(w)

\* The kernel schedules every thread that can go on.  The application may
\* stop adding, but it finishes a call it has begun.
Fairness ==
    /\ \A w \in Workers : WF_vars(WorkerStep(w))
    /\ WF_vars(Push \/ Joined)

Spec == Init /\ [][Next]_vars /\ Fairness

----------------------------------------------------------------------------
AppPC == {"idle", "fill", "args", "load", "store", "signal", "join", "destroyed"}
WorkerPC == {"wait", "take", "test", "slot", "head", "load", "store", "run", "call",
             "check", "exited"}

\* The type of the state.
TypeOK ==
    /\ tasks \in [Slots -> Task]
    /\ head \in Slots /\ tail \in Slots /\ size \in 0 .. Capacity
    /\ ready \subseteq Fds
    /\ shutdown \in BOOLEAN
    /\ app \in [pc : AppPC, calls : 0 .. MaxAdds, seen : 0 .. Capacity]
    /\ worker \in [Workers -> [pc : WorkerPC, fd : Fds, slot : Slots, seen : 0 .. Capacity,
                               task : Task]]
    /\ queued \in Seq(Tasks) /\ executed \in Seq(Task) /\ lost \in Nat

\* The worker comes upon the tasks in the order the queue stored them, one slot
\* for each and never an empty one.  When the array has come round it may find
\* there, or half of it, the task of a later round: it uses its slot after giving
\* it back (threadpool.c:14-19).
RunsInOrder ==
    \A i \in DOMAIN executed : \A n \in {executed[i].run, executed[i].args} :
        \E j \in i .. Len(queued) : queued[j] = n /\ (j - i) % Capacity = 0

\* Tasks taken out of the queue.
Popped == Len(executed) + Cardinality({w \in Workers : worker[w].pc \in {"run", "call"}})

\* The slot of the i-th task stored.
SlotOf(i) == (i - 1) % Capacity

\* The number of tasks stays between 0 and the capacity, though decrements may
\* be lost as well and size then is too high; and as long as no increment was
\* lost, no task that waits in the queue is overwritten, however often the array
\* comes round (thread_queue.c:66 guards it by size alone).
WaitingTasksStay ==
    /\ TypeOK
    /\ lost = 0 =>
          \A i \in Popped + 1 .. Len(queued) :
              \/ tasks[SlotOf(i)] = [run |-> queued[i], args |-> queued[i]]
              \/ app.pc = "args" /\ i = Len(queued)

\* What is left when the worker has come to rest: a task for each increment lost.
Left == Len(queued) - Len(executed)

\* No wakeup is lost: when every worker sleeps or has left and no add is under
\* way, the tasks stored have been run, but for one for each increment of size
\* that was lost (one eventfd per task, thread_async.c:52-75).
NoLostWakeup ==
    ((\A w \in Workers : \/ worker[w].pc = "exited"
                         \/ (worker[w].pc = "wait" /\ ready = {}))
        /\ app.pc \in {"idle", "join", "destroyed"})
    => Left <= lost

\* threadpool_destroy returns only when the tasks stored were run, with the same
\* exception.
DestroyDrains == app.pc = "destroyed" => Left <= lost

\* Nobody sleeps, and nobody returns from destroy, while a stored task waits that
\* size counts.
NoTaskLeft == NoLostWakeup /\ DestroyDrains

\* Every task that was queued is run some day, but for one for each increment
\* lost: again and again the worker has caught up.
EveryTaskRuns == []<>(Left <= lost)
=============================================================================
