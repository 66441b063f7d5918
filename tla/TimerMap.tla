------------------------------ MODULE TimerMap ------------------------------
(***************************************************************************)
(* The timers of fun_timer/timerfd.c: timerfd descriptors watched by an    *)
(* edge-triggered epoll, a hash table from descriptor numbers to timers,   *)
(* and the loop of timermap_listen.  Nothing is locked.  The application   *)
(* calls from the callbacks, which run on the loop's thread, and (if       *)
(* OtherThread) adds timers from a thread of its own as well, while the    *)
(* loop goes on.  It is orderly: its own calls do not overlap, and it      *)
(* takes a timer out of the map before it stops or deletes it.             *)
(***************************************************************************)
EXTENDS Integers, Sequences, FiniteSets, SequencesExt

CONSTANTS
    Timers,
    NumFds,             \* bound: descriptors the process may open, 1 .. NumFds
    mMaxCnt,            \* how many events one epoll_wait fetches
    OtherThread,        \* whether a second thread adds timers
    MaxCalls            \* bound: calls of the application

TimerMapAssumption ==
    /\ IsFiniteSet(Timers) /\ "none" \notin Timers
    /\ {NumFds, mMaxCnt} \subseteq Nat \ {0} /\ MaxCalls \in Nat
    /\ OtherThread \in BOOLEAN

TimerFds == 1 .. NumFds
Closed == -1        \* mTimerid after timer_stop

VARIABLES
    timer,          \* timerfd_t: allocated, mTimerid, mRepeat
    mHash,          \* the entries: key, whether its copy compares equal to it, data
    added,          \* the application's own view: timers it has put in the map
    open, armed, periodic, expired, \* the kernel's timerfds
    watched, edges, \* epoll: registered, and the queue of edges not reported yet
    call,           \* the call under way: what it does next, its timer, its thread
    pc, events, iter,   \* timermap_listen; iter is the key of the entry found
    calls

kernel == <<open, armed, periodic, expired>>
epoll == <<watched, edges>>
listen == <<pc, events, iter>>
map_vars == <<timer, mHash, added, kernel, epoll, call, listen, calls>>

NoIter == 0
NoData == "none"
NoCall == [op |-> "none", t |-> "none", by |-> "none"]

MapInit ==
    /\ timer = [t \in Timers |-> [live |-> FALSE, mTimerid |-> Closed, mRepeat |-> FALSE]]
    /\ mHash = {} /\ added = {}
    /\ open = {} /\ armed = {} /\ periodic = {} /\ expired = {}
    /\ watched = {} /\ edges = <<>>
    /\ call = NoCall
    /\ pc = "setup" /\ events = <<>> /\ iter = NoIter
    /\ calls = 0

----------------------------------------------------------------------------
(* The application's calls.                                                *)

OnLoopThread == pc \in {"setup", "callback"}

\* The threads a call may come from.
Callers == {by \in {"loop", "other"} : IF by = "loop" THEN OnLoopThread ELSE OtherThread}

Call == call = NoCall /\ calls < MaxCalls /\ calls' = calls + 1

Fd(t) == timer[t].mTimerid

\* epoll's queue has a descriptor at most once.
Without(queue, fd) ==
    IF fd \in Range(queue) THEN RemoveAt(queue, CHOOSE k \in DOMAIN queue : queue[k] = fd)
    ELSE queue

create_timer(t, repeat) ==
    LET free == TimerFds \ open
        fd == CHOOSE f \in free : \A g \in free : f <= g
    IN  /\ Call /\ Callers # {}
        /\ ~timer[t].live /\ free # {}
        /\ timer' = [timer EXCEPT ![t] = [live |-> TRUE, mTimerid |-> fd, mRepeat |-> repeat]]
        /\ open' = open \cup {fd}
        /\ UNCHANGED <<mHash, added, armed, periodic, expired, epoll, call, listen>>

\* timer_start (set_timer_interval ends in it too): timerfd_settime.
timer_start(t) ==
    /\ Call /\ Callers # {}
    /\ timer[t].live /\ Fd(t) # Closed
    /\ armed' = armed \cup {Fd(t)}
    /\ periodic' = IF timer[t].mRepeat THEN periodic \cup {Fd(t)} ELSE periodic \ {Fd(t)}
    /\ expired' = expired \ {Fd(t)}
    /\ UNCHANGED <<timer, mHash, added, open, epoll, call, listen>>

\* A lookup finds the entry of a key, unless its copy, made without the final
\* zero, runs on into what the allocator left behind it.
Lookup(fd) == {e \in mHash : e.key = fd /\ e.matches}

\* hash_lookadd links the new entry at the head of its bucket, its data still a
\* null pointer.
Link(fd) == \E m \in BOOLEAN : mHash' = mHash \cup {[key |-> fd, matches |-> m, data |-> NoData]}

\* addTimer, up to the entry.  The table may be full (TimerHash says when) and
\* has to grow before: a walk along its buckets that is under way is torn.
AddHash(t) ==
    /\ Call /\ timer[t].live /\ t \notin added
    /\ added' = added \cup {t}
    /\ \E by \in Callers :
          \/ /\ call' = [op |-> "data", t |-> t, by |-> by]
             /\ IF Lookup(Fd(t)) = {} THEN Link(Fd(t)) ELSE UNCHANGED mHash
             /\ UNCHANGED pc
          \/ /\ Lookup(Fd(t)) = {}
             /\ call' = [op |-> "grow", t |-> t, by |-> by]
             /\ pc' = IF pc = "walk" THEN "torn" ELSE pc
             /\ UNCHANGED mHash
    /\ UNCHANGED <<timer, kernel, epoll, events, iter>>

\* rehash is done; the entry is linked in the larger table.
Grown(t) ==
    /\ call.op = "grow" /\ call.t = t
    /\ Link(Fd(t))
    /\ call' = [call EXCEPT !.op = "data"]
    /\ UNCHANGED <<timer, added, kernel, epoll, listen, calls>>

\* The end of hash_add: the entry that was found or made gets its data.
AddData(t) ==
    /\ call.op = "data" /\ call.t = t
    /\ \E e \in mHash :
          /\ IF Lookup(Fd(t)) = {} THEN e.key = Fd(t) /\ e.data = NoData ELSE e \in Lookup(Fd(t))
          /\ mHash' = (mHash \ {e}) \cup {[e EXCEPT !.data = t]}
    /\ call' = [call EXCEPT !.op = "add"]
    /\ UNCHANGED <<timer, added, kernel, epoll, listen, calls>>

\* The rest of addTimer: EPOLL_CTL_ADD reports at once a timer that has expired.
AddEpoll(t) ==
    /\ call.op = "add" /\ call.t = t
    /\ call' = NoCall
    /\ watched' = watched \cup (open \cap {Fd(t)})
    /\ edges' = IF Fd(t) \in expired \ watched THEN Append(edges, Fd(t)) ELSE edges
    /\ UNCHANGED <<timer, mHash, added, kernel, listen, calls>>

\* delTimer up to hash_del: EPOLL_CTL_DEL.
DelEpoll(t) ==
    /\ Call /\ OnLoopThread
    /\ t \in added
    /\ watched' = watched \ {Fd(t)} /\ edges' = Without(edges, Fd(t))
    /\ call' = [op |-> "del", t |-> t, by |-> "loop"]
    /\ UNCHANGED <<timer, mHash, added, kernel, listen>>

FaultyDelHash(t) ==
    /\ call.op = "del" /\ call.t = t
    /\ call' = NoCall /\ added' = added \ {t}
    /\ UNCHANGED <<timer, mHash, kernel, epoll, listen, calls>>

\* hash_del frees the entry it finds.
DelHash(t) ==
    /\ call.op = "del" /\ call.t = t
    /\ call' = NoCall /\ added' = added \ {t}
    /\ mHash' = mHash \ Lookup(Fd(t))
    /\ UNCHANGED <<timer, kernel, epoll, listen, calls>>

\* close takes a descriptor from epoll as well.
Close(fd) ==
    /\ open' = open \ {fd} /\ armed' = armed \ {fd}
    /\ periodic' = periodic \ {fd} /\ expired' = expired \ {fd}
    /\ watched' = watched \ {fd} /\ edges' = Without(edges, fd)

timer_stop(t) ==
    /\ Call /\ OnLoopThread
    /\ timer[t].live /\ t \notin added
    /\ Close(Fd(t))
    /\ timer' = [timer EXCEPT ![t].mTimerid = Closed]
    /\ UNCHANGED <<mHash, added, call, listen>>

delete_timer(t) ==
    /\ Call /\ OnLoopThread
    /\ timer[t].live /\ t \notin added
    /\ Close(Fd(t))
    /\ timer' = [timer EXCEPT ![t] = [live |-> FALSE, mTimerid |-> Closed, mRepeat |-> FALSE]]
    /\ UNCHANGED <<mHash, added, call, listen>>

\* The application calls timermap_listen, or the callback returns, whatever the
\* other thread is doing.
Return ==
    /\ OnLoopThread /\ call.by # "loop"
    /\ pc' = IF pc = "setup" \/ events = <<>> THEN "wait" ELSE "event"
    /\ UNCHANGED <<timer, mHash, added, kernel, epoll, call, events, iter, calls>>

----------------------------------------------------------------------------
(* timermap_listen.  mActive is never cleared.                             *)

NextEvent == IF events = <<>> THEN "wait" ELSE "event"

\* epoll_wait reports of the first mMaxCnt edges, in their order, those that
\* are not stale.
Wait ==
    /\ pc = "wait"
    /\ edges # <<>>
    /\ LET n == IF Len(edges) < mMaxCnt THEN Len(edges) ELSE mMaxCnt
           fresh == {k \in 1 .. n : edges[k] \in expired}
       IN  /\ \E at \in [1 .. Cardinality(fresh) -> fresh] :
                  /\ Range(at) = fresh
                  /\ \A j, k \in DOMAIN at : j < k => at[j] < at[k]
                  /\ events' = [k \in DOMAIN at |-> edges[at[k]]]
           /\ edges' = SubSeq(edges, n + 1, Len(edges))
    /\ pc' = IF events' = <<>> THEN "wait" ELSE "event"
    /\ UNCHANGED <<timer, mHash, added, kernel, watched, call, iter, calls>>

\* hash_lookup for the next event.  What the walk finds is settled when it reads
\* the head of the bucket, for the other thread only links entries before it;
\* in a table that is being rehashed there is no telling.
LookupEvent ==
    /\ pc = "event"
    /\ events' = Tail(events)
    /\ iter' = IF Lookup(Head(events)) = {} THEN NoIter ELSE Head(events)
    /\ pc' = IF call.op = "grow" THEN "torn" ELSE "walk"
    /\ UNCHANGED <<timer, mHash, added, kernel, epoll, call, calls>>

\* The end of the walk.
Found ==
    /\ pc = "walk"
    /\ pc' = IF iter = NoIter THEN NextEvent ELSE "exec"
    /\ UNCHANGED <<timer, mHash, added, kernel, epoll, call, events, iter, calls>>

FaultyExec ==
    /\ pc = "exec"
    /\ \E e \in Lookup(iter) :
          pc' = IF e.data = NoData THEN NextEvent
                ELSE IF timer[e.data].live THEN "callback" ELSE "undefined"
    /\ iter' = NoIter
    /\ UNCHANGED <<timer, mHash, added, kernel, epoll, call, events, calls>>

\* An entry that has no data yet is passed over.
SkipNull ==
    /\ pc = "exec" /\ \E e \in Lookup(iter) : e.data = NoData
    /\ pc' = NextEvent /\ iter' = NoIter
    /\ UNCHANGED <<timer, mHash, added, kernel, epoll, call, events, calls>>

\* timer_exec: a read of the timer's descriptor, then the callback if it had
\* expired.  An entry or a timer freed meanwhile is no longer ours to use.
Exec ==
    /\ pc = "exec" /\ \A e \in Lookup(iter) : e.data # NoData
    /\ IF \E e \in Lookup(iter) : timer[e.data].live
       THEN \E e \in Lookup(iter) :
              LET fd == Fd(e.data)
              IN  /\ pc' = IF fd \in expired THEN "callback" ELSE NextEvent
                  /\ armed' = IF fd \in expired THEN armed \cup (periodic \cap {fd}) ELSE armed
                  /\ expired' = expired \ {fd}
       ELSE pc' = "undefined" /\ UNCHANGED <<armed, expired>>
    /\ iter' = NoIter
    /\ UNCHANGED <<timer, mHash, added, open, periodic, epoll, call, events, calls>>

\* The kernel: a periodic timer runs again only when it has been read.
Expire(fd) ==
    /\ fd \in armed
    /\ armed' = armed \ {fd} /\ expired' = expired \cup {fd}
    /\ edges' = IF fd \in watched /\ fd \notin Range(edges) THEN Append(edges, fd) ELSE edges
    /\ UNCHANGED <<timer, mHash, added, open, periodic, watched, call, listen, calls>>

----------------------------------------------------------------------------
\* The steps of a call that has begun.
Finish(t) == Grown(t) \/ AddData(t) \/ AddEpoll(t) \/ DelHash(t)

MapAppStep(t) ==
    \/ \E repeat \in BOOLEAN : create_timer(t, repeat)
    \/ timer_start(t) \/ AddHash(t) \/ DelEpoll(t) \/ Finish(t)
    \/ timer_stop(t) \/ delete_timer(t)

LoopStep == Wait \/ LookupEvent \/ Found \/ SkipNull \/ Exec

MapNext ==
    \/ \E t \in Timers : MapAppStep(t)
    \/ Return \/ LoopStep
    \/ \E fd \in TimerFds : Expire(fd)

\* The threads run, callbacks return and time passes.
MapSpec ==
    /\ MapInit /\ [][MapNext]_map_vars
    /\ WF_map_vars(LoopStep) /\ WF_map_vars(Return)
    /\ \A t \in Timers : WF_map_vars(Finish(t))
    /\ \A fd \in TimerFds : WF_map_vars(Expire(fd))

----------------------------------------------------------------------------
\* The type of the state.
MapTypeOK ==
    /\ timer \in [Timers -> [live : BOOLEAN, mTimerid : TimerFds \cup {Closed}, mRepeat : BOOLEAN]]
    /\ \A t, u \in Timers : (t # u /\ Fd(t) # Closed) => Fd(t) # Fd(u)
    /\ added \subseteq Timers
    /\ open = {Fd(t) : t \in Timers} \ {Closed}
    /\ armed \cup expired \cup watched \cup periodic \subseteq open
    /\ Range(edges) \subseteq watched /\ IsInjective(edges)
    /\ pc \in {"setup", "wait", "event", "walk", "exec", "callback", "torn", "undefined"}

\* Descriptor numbers are used again, events fetched before a deletion are
\* handled after it, yet an entry a lookup may find always leads to the living
\* timer that owns the descriptor, or not yet to any, and the loop never follows
\* a freed pointer.
EntriesAreLive ==
    /\ pc # "undefined"
    /\ \A e \in mHash : e.matches =>
          IF e.data = NoData THEN call.op = "data" /\ Fd(call.t) = e.key
          ELSE timer[e.data].live /\ e.data \in added /\ Fd(e.data) = e.key

\* The timers of the map that a lookup finds, addTimer having returned.
InMap(t) == t \in added /\ call.t # t /\ \E e \in Lookup(Fd(t)) : e.data = t

\* No wakeup is lost to the edge-triggered epoll: such a timer, once expired, is in
\* the hands of the loop or will be reported.
EdgesKept ==
    \A t \in Timers :
        (InMap(t) /\ Fd(t) \in expired /\ pc # "torn") =>
            Fd(t) \in Range(edges) \cup Range(events) \/ (pc \in {"walk", "exec"} /\ iter = Fd(t))

\* The map and the edge-triggered epoll of timerfd.c work together: an entry
\* that is found leads to the living timer that owns the descriptor, though
\* numbers are used again and events handled after a deletion, and no expired
\* timer that is found is forgotten, whatever is called from the callbacks and, to
\* create, start and add timers, from a second thread, until that makes the table
\* grow while the loop walks along it.
NoLostEdge == MapTypeOK /\ EntriesAreLive /\ EdgesKept

\* A periodic timer of the map is called again and again ("once or period",
\* timerfd.h) if its key compares equal to its copy: it never stays expired.
PeriodicIsServed ==
    \A t \in Timers :
        []<>( \/ ~(InMap(t) /\ Fd(t) \in expired /\ timer[t].mRepeat)
              \/ pc \in {"setup", "torn", "undefined"} )
=============================================================================
