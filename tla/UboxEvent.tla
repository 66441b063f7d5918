----------------------------- MODULE UboxEvent -----------------------------
(***************************************************************************)
(* The single-threaded event loop of fun_event/ubox/event.c: timeouts in a *)
(* list, file descriptors in epoll, and callbacks that may set and cancel  *)
(* timeouts, add and delete descriptors and cancel the loop while the loop *)
(* is in the middle of its own work.                                       *)
(***************************************************************************)
EXTENDS EventTime, FiniteSets

CONSTANTS
    UboxTimers,         \* the application's event_timeout records
    UboxFds,            \* its event_fd records, each on a descriptor of its own
    Msecs,              \* the msecs it passes to event_timeout_set
    UboxMaxTime,        \* bound: the last tick
    UboxMaxCalls,       \* bound: the application's calls in all
    EVENT_MAX_EVENTS

UboxAssumption ==
    /\ IsFiniteSet(UboxTimers) /\ IsFiniteSet(UboxFds)
    /\ UnitsAssumption /\ Msecs \subseteq Nat
    /\ {UboxMaxTime, UboxMaxCalls} \subseteq Nat
    /\ EVENT_MAX_EVENTS \in Nat \ {0}

VARIABLES
    now,            \* CLOCK_MONOTONIC
    ubox_time,      \* event_timeout.time
    pending,        \* event_timeout.pending
    timeout_head,   \* the list of timeouts
    ubox_calls,     \* how many calls the application has made
    ubox_pc,        \* where event_loop_run is
    ubox_tv,        \* the time it last asked for
    deadline,       \* until when epoll_wait sleeps, -1 for ever
    event_cancelled,
    ubox_registered,    \* event_fd.registered
    epoll,          \* the descriptors epoll watches
    readable, hup,  \* what the descriptors have to report
    cur_fds, cur_fd, cur_nfds   \* the fetched events and the place in them

ubox_timers == <<ubox_time, pending, timeout_head>>
files == <<ubox_registered, epoll>>
fetched == <<cur_fds, cur_fd, cur_nfds>>
loop == <<ubox_pc, ubox_tv, deadline, event_cancelled>>
ubox_vars == <<now, ubox_calls, ubox_timers, loop, files, readable, hup, fetched>>

NoFd == "NULL"

UboxInit ==
    /\ now = 0 /\ ubox_calls = 0
    /\ ubox_time = [t \in UboxTimers |-> <<0, 0>>] /\ pending = [t \in UboxTimers |-> FALSE]
    /\ timeout_head = <<>>
    /\ ubox_pc = "setup" /\ ubox_tv = 0 /\ deadline = -1 /\ event_cancelled = FALSE
    /\ ubox_registered = [f \in UboxFds |-> FALSE] /\ epoll = {}
    /\ readable = {} /\ hup = {}
    /\ cur_fds = [i \in 0 .. EVENT_MAX_EVENTS - 1 |-> NoFd]
    /\ cur_fd = 0 /\ cur_nfds = 0

----------------------------------------------------------------------------
(* The calls of the application: before the loop runs and in callbacks.    *)

UserCode == ubox_pc \in {"setup", "timeout_cb", "fd_cb"}

UboxCall == UserCode /\ ubox_calls < UboxMaxCalls /\ ubox_calls' = ubox_calls + 1

UboxWithout(t) == RemoveFirst(timeout_head, t)

\* event_timeout_set: cancels a pending timeout, asks for the time, inserts.
UboxTimeoutSet(t, msecs) ==
    LET due == DueTime(now, msecs)
    IN  /\ UboxCall
        /\ timeout_head' = Placed(UboxWithout(t), ubox_time, t, due)
        /\ ubox_time' = [ubox_time EXCEPT ![t] = due]
        /\ pending' = [pending EXCEPT ![t] = TRUE]
        /\ UNCHANGED <<now, loop, files, readable, hup, fetched>>

UboxTimeoutCancel(t) ==
    /\ UboxCall /\ pending[t]
    /\ timeout_head' = UboxWithout(t)
    /\ pending' = [pending EXCEPT ![t] = FALSE]
    /\ UNCHANGED <<now, ubox_time, loop, files, readable, hup, fetched>>

\* event_fd_add on a record set up for its descriptor: EPOLL_CTL_MOD if it is
\* registered, else EPOLL_CTL_ADD, which fails for a watched descriptor.
UboxFdAdd(f) ==
    /\ UboxCall
    /\ ubox_registered' = [ubox_registered EXCEPT ![f] = @ \/ f \notin epoll]
    /\ epoll' = epoll \cup {f}
    /\ UNCHANGED <<now, ubox_timers, loop, readable, hup, fetched>>

\* event_fd_delete: __event_fd_delete clears the record's descriptor before it
\* passes it to EPOLL_CTL_DEL, so epoll keeps watching the real one.
UboxFdDelete(f) ==
    /\ UboxCall
    /\ ubox_registered' = [ubox_registered EXCEPT ![f] = FALSE]
    /\ UNCHANGED <<now, ubox_timers, loop, epoll, readable, hup, fetched>>

\* event_loop_cancel.
UboxLoopCancel ==
    /\ UboxCall
    /\ event_cancelled' = TRUE
    /\ UNCHANGED <<now, ubox_timers, ubox_pc, ubox_tv, deadline, files, readable, hup, fetched>>

\* The application calls event_loop_run, or a callback returns to the loop.
Return ==
    /\ UserCode
    /\ ubox_pc' = CASE ubox_pc = "setup"      -> "run"
                    [] ubox_pc = "timeout_cb" -> "timeouts"
                    [] OTHER                  -> "events"
    /\ UNCHANGED <<now, ubox_calls, ubox_timers, ubox_tv, deadline, event_cancelled, files,
                   readable, hup, fetched>>

\* event_loop_done once the loop has ended: epoll is closed, the list emptied.
LoopDone ==
    /\ ubox_pc = "ended"
    /\ ubox_pc' = "done" /\ event_cancelled' = TRUE
    /\ epoll' = {}
    /\ timeout_head' = <<>> /\ pending' = [t \in UboxTimers |-> FALSE]
    /\ UNCHANGED <<now, ubox_calls, ubox_time, ubox_tv, deadline, ubox_registered, readable,
                   hup, fetched>>

----------------------------------------------------------------------------
(* event_loop_run.                                                         *)

\* The head of the loop: leave, or ask for the time.
RunHead ==
    /\ ubox_pc = "run"
    /\ IF event_cancelled THEN ubox_pc' = "ended" /\ UNCHANGED ubox_tv
       ELSE ubox_pc' = "timeouts" /\ ubox_tv' = now
    /\ UNCHANGED <<now, ubox_calls, ubox_timers, deadline, event_cancelled, files, readable,
                   hup, fetched>>

FaultyHeadIsDue ==
    timeout_head # <<>> /\ tv_diff(ubox_time[Head(timeout_head)], gettime(ubox_tv)) < 0

HeadIsDue == timeout_head # <<>> /\ tv_diff(ubox_time[Head(timeout_head)], gettime(ubox_tv)) <= 0

\* event_process_timeouts takes the first timeout off the list and calls it.
FireTimeout ==
    /\ ubox_pc = "timeouts" /\ HeadIsDue
    /\ timeout_head' = Tail(timeout_head)
    /\ pending' = [pending EXCEPT ![Head(timeout_head)] = FALSE]
    /\ ubox_pc' = "timeout_cb"
    /\ UNCHANGED <<now, ubox_calls, ubox_time, ubox_tv, deadline, event_cancelled, files,
                   readable, hup, fetched>>

\* No timeout is due any more.
UboxTimeoutsDone ==
    /\ ubox_pc = "timeouts" /\ ~HeadIsDue
    /\ ubox_pc' = IF event_cancelled THEN "ended" ELSE "poll"
    /\ UNCHANGED <<now, ubox_calls, ubox_timers, ubox_tv, deadline, event_cancelled, files,
                   readable, hup, fetched>>

\* event_get_next_timeout, which becomes epoll_wait's argument.
Poll ==
    /\ ubox_pc = "poll"
    /\ ubox_pc' = "wait" /\ ubox_tv' = now
    /\ LET next == tv_diff(ubox_time[Head(timeout_head)], gettime(now))
       IN  deadline' = CASE timeout_head = <<>> -> -1
                         [] timeout_head # <<>> /\ next < 0 -> now
                         [] OTHER -> now + Grain * next
    /\ UNCHANGED <<now, ubox_calls, ubox_timers, event_cancelled, files, readable, hup,
                   fetched>>

\* event_fetch_events: epoll_wait reports what is watched and ready, as much of
\* it as the array holds and in some order; a descriptor that hung up is deleted
\* on the way.
UboxFetch ==
    /\ ubox_pc = "wait"
    /\ \E events \in SUBSET (epoll \cap (readable \cup hup)) :
        /\ events # {}
        /\ Cardinality(events) =
             Min({EVENT_MAX_EVENTS, Cardinality(epoll \cap (readable \cup hup))})
        /\ \E s \in SetToSeqs(events) :
             cur_fds' = [i \in DOMAIN cur_fds |->
                            IF i < Cardinality(events) THEN s[i + 1] ELSE cur_fds[i]]
        /\ cur_nfds' = Cardinality(events)
        /\ ubox_registered' = [f \in UboxFds |-> ubox_registered[f] /\ f \notin events \cap hup]
    /\ ubox_pc' = "events"
    /\ UNCHANGED <<now, ubox_calls, ubox_timers, ubox_tv, deadline, event_cancelled, epoll,
                   readable, hup, cur_fd>>

\* epoll_wait times out.
WaitTimeout ==
    /\ ubox_pc = "wait" /\ deadline # -1 /\ now >= deadline
    /\ epoll \cap (readable \cup hup) = {}
    /\ ubox_pc' = "run"
    /\ UNCHANGED <<now, ubox_calls, ubox_timers, ubox_tv, deadline, event_cancelled, files,
                   readable, hup, fetched>>

\* One turn of event_process_events: cur_fd is static and goes on from where
\* the last batch left it.  The callback reads what its descriptor has.
Dispatch ==
    /\ ubox_pc = "events" /\ cur_nfds > 0 /\ cur_fd < EVENT_MAX_EVENTS
    /\ cur_fd' = cur_fd + 1 /\ cur_nfds' = cur_nfds - 1
    /\ ubox_pc' = IF cur_fds[cur_fd] = NoFd THEN "events" ELSE "fd_cb"
    /\ readable' = readable \ {cur_fds[cur_fd]}
    /\ UNCHANGED <<now, ubox_calls, ubox_timers, ubox_tv, deadline, event_cancelled, files, hup,
                   cur_fds>>

\* Past the end of cur_fds: nothing is known of the program from here on.
DispatchOutside ==
    /\ ubox_pc = "events" /\ cur_nfds > 0 /\ cur_fd >= EVENT_MAX_EVENTS
    /\ ubox_pc' = "undefined"
    /\ UNCHANGED <<now, ubox_calls, ubox_timers, ubox_tv, deadline, event_cancelled, files,
                   readable, hup, fetched>>

UboxEventsDone ==
    /\ ubox_pc = "events" /\ cur_nfds = 0
    /\ ubox_pc' = "run"
    /\ UNCHANGED <<now, ubox_calls, ubox_timers, ubox_tv, deadline, event_cancelled, files,
                   readable, hup, fetched>>

----------------------------------------------------------------------------
(* The world: time passes, peers send and hang up.                         *)

UboxTick ==
    /\ now < UboxMaxTime /\ now' = now + 1
    /\ UNCHANGED <<ubox_calls, ubox_timers, loop, files, readable, hup, fetched>>

Arrive(f) ==
    /\ f \notin readable
    /\ readable' = readable \cup {f}
    /\ UNCHANGED <<now, ubox_calls, ubox_timers, loop, files, hup, fetched>>

Hangup(f) ==
    /\ f \notin hup
    /\ hup' = hup \cup {f}
    /\ UNCHANGED <<now, ubox_calls, ubox_timers, loop, files, readable, fetched>>

----------------------------------------------------------------------------
UboxLoopStep ==
    \/ RunHead \/ FireTimeout \/ UboxTimeoutsDone \/ Poll \/ UboxFetch \/ WaitTimeout
    \/ Dispatch \/ DispatchOutside \/ UboxEventsDone

UboxNext ==
    \/ \E t \in UboxTimers, d \in Msecs : UboxTimeoutSet(t, d)
    \/ \E t \in UboxTimers : UboxTimeoutCancel(t)
    \/ \E f \in UboxFds : UboxFdAdd(f) \/ UboxFdDelete(f) \/ Arrive(f) \/ Hangup(f)
    \/ UboxLoopCancel \/ Return \/ LoopDone \/ UboxLoopStep \/ UboxTick

\* The loop's thread runs, callbacks return and time passes.
UboxSpec ==
    /\ UboxInit /\ [][UboxNext]_ubox_vars
    /\ WF_ubox_vars(UboxLoopStep) /\ WF_ubox_vars(Return) /\ WF_ubox_vars(UboxTick)

----------------------------------------------------------------------------
\* The type of the state, with the list of timeouts holding exactly the
\* pending ones, each once (event.h:52).
UboxTypeOK ==
    /\ now \in 0 .. UboxMaxTime /\ ubox_tv \in 0 .. now
    /\ ubox_time \in [UboxTimers -> Nat \X (0 .. Second)] /\ pending \in [UboxTimers -> BOOLEAN]
    /\ timeout_head \in Seq(UboxTimers)
    /\ IsInjective(timeout_head)
    /\ Range(timeout_head) = {t \in UboxTimers : pending[t]}
    /\ ubox_registered \in [UboxFds -> BOOLEAN] /\ epoll \subseteq UboxFds
    /\ cur_fds \in [0 .. EVENT_MAX_EVENTS - 1 -> UboxFds \cup {NoFd}]
    /\ cur_fd \in 0 .. EVENT_MAX_EVENTS /\ cur_nfds \in 0 .. EVENT_MAX_EVENTS

\* The list is in order up to what tv_diff cannot see: no timeout stands before
\* one that is due a millisecond or more earlier.
OrderedList ==
    \A i, j \in 1 .. Len(timeout_head) :
        i < j => TickOf(ubox_time[timeout_head[i]]) - TickOf(ubox_time[timeout_head[j]]) < Grain

\* Whatever the callbacks set and cancel in between, when
\* event_process_timeouts ends, no timeout that was due when it began is left.
NoOverdueTimeout ==
    ubox_pc = "poll" => \A t \in UboxTimers : pending[t] => TickOf(ubox_time[t]) > ubox_tv

\* epoll_wait is never told to sleep two milliseconds past a pending timeout:
\* the order of the list and tv_diff may each be wrong by less than one.
SleepsNotTooLong ==
    ubox_pc = "wait" => \A t \in UboxTimers :
        pending[t] =>
            deadline # -1 /\ (deadline < TickOf(ubox_time[t]) + 2 * Grain \/ deadline = ubox_tv)

\* What the loop promises of its timeouts: the list holds the pending ones, in
\* order up to what tv_diff rounds off, event_process_timeouts leaves none that
\* was due, and epoll_wait is not told to sleep well past one.
NoLoopOversleeps == UboxTypeOK /\ OrderedList /\ NoOverdueTimeout /\ SleepsNotTooLong

UboxUnserved(t) ==
    /\ pending[t] /\ TickOf(ubox_time[t]) + 2 * Grain <= UboxMaxTime
    /\ ~event_cancelled /\ ubox_pc \notin {"setup", "undefined"}

\* A timeout that falls due (well before time stops) is called, cancelled or
\* set anew, or the loop is cancelled.
UboxTimeoutsFire == \A t \in UboxTimers : []<>~UboxUnserved(t)
=============================================================================
