------------------------------ MODULE NetEvent ------------------------------
(***************************************************************************)
(* The reactor of fun_network/libnet/source/net_event.c: one thread, an    *)
(* epoll set, a sorted list of timeouts, callbacks into the program.  When *)
(* epoll reports an fd the reactor sets its interest mask anew.  One that  *)
(* has failed it deletes and hands to h_free, which frees the event_fd     *)
(* unless the program has cleared that field of the reactor.  It keeps the *)
(* pointer all the same and calls h_fd through it: nothing is known of the *)
(* program once it has done so with a freed one.                           *)
(***************************************************************************)
EXTENDS EventTime

CONSTANTS
    Fds, Timeouts,
    Delays,             \* the msecs event_timeout_set is called with
    Fails,              \* the fds that may fail (EPOLLERR, EPOLLHUP)
    Frees,              \* h_free is what event_loop_new has set, or NULL
    MaxTime, MaxCalls   \* bounds: the last tick, calls from the program

NetEventAssumption ==
    /\ UnitsAssumption /\ Delays \subseteq Nat
    /\ Fails \subseteq Fds /\ Frees \in BOOLEAN /\ MaxTime \in Nat

READ == "read"
WRITE == "write"
Flags == {READ, WRITE}
HUP == "hup"

VARIABLES
    registered, flags,  \* of each event_fd
    freed,              \* the event_fds handed to h_free
    interest,           \* the epoll set: what each fd in it is watched for
    ready,              \* the state of each fd
    list, time,         \* the timeouts that are pending, in order; each one's time
    event_canclled,
    clock, tv,
    pc,
    cur,                \* cur_fds still to process: the event_fd and its events
    calls

fdvars == <<registered, flags, freed, interest>>
tmvars == <<list, time>>
vars == <<fdvars, ready, tmvars, event_canclled, clock, tv, pc, cur, calls>>

\* event_loop_new.
Init ==
    /\ registered = [f \in Fds |-> FALSE] /\ flags = [f \in Fds |-> {}]
    /\ freed = {} /\ interest = [f \in Fds |-> {}] /\ ready = [f \in Fds |-> {}]
    /\ list = <<>> /\ time = [t \in Timeouts |-> <<0, 0>>]
    /\ event_canclled = FALSE
    /\ clock = 0 /\ tv = 0
    /\ pc = "setup" /\ cur = <<>> /\ calls = 0

----------------------------------------------------------------------------
(* What the program calls, before the loop and in its callbacks.           *)

Call ==
    /\ pc \in {"setup", "timeout_cb", "fd_cb"}
    /\ calls < MaxCalls /\ calls' = calls + 1
    /\ UNCHANGED <<ready, clock, tv, pc, cur>>

\* event_fd_delete.
FdDelete(f) ==
    /\ Call /\ f \notin freed /\ registered[f]
    /\ registered' = [registered EXCEPT ![f] = FALSE]
    /\ interest' = [interest EXCEPT ![f] = {}]
    /\ UNCHANGED <<flags, freed, tmvars, event_canclled>>

\* event_fd_add with READ or WRITE; without either it is event_fd_delete.
FdAdd(f, fl) ==
    /\ Call /\ f \notin freed
    /\ flags' = [flags EXCEPT ![f] = fl]
    /\ interest' = [interest EXCEPT ![f] = fl]
    /\ registered' = [registered EXCEPT ![f] = TRUE]
    /\ UNCHANGED <<freed, tmvars, event_canclled>>

FaultyInserted(s, t, at) == Append(s, t)

\* event_timeout_add of a timeout for the time at.
Inserted(s, t, at) == Placed(s, time, t, at)

Without(t) == RemoveFirst(list, t)

\* event_timeout_set; a pending timeout is cancelled first.
TimeoutSet(t, ms) ==
    /\ Call
    /\ time' = [time EXCEPT ![t] = DueTime(clock, ms)]
    /\ list' = Inserted(Without(t), t, DueTime(clock, ms))
    /\ UNCHANGED <<fdvars, event_canclled>>

\* event_timeout_cancel.
TimeoutCancel(t) ==
    /\ Call /\ Contains(list, t)
    /\ list' = Without(t)
    /\ UNCHANGED <<time, fdvars, event_canclled>>

\* event_loop_cancel.
LoopCancel ==
    /\ Call /\ event_canclled' = TRUE
    /\ UNCHANGED <<fdvars, tmvars>>

API ==
    \/ LoopCancel
    \/ \E t \in Timeouts : TimeoutCancel(t) \/ \E ms \in Delays : TimeoutSet(t, ms)
    \/ \E f \in Fds : FdDelete(f) \/ \E fl \in (SUBSET Flags) \ {{}} : FdAdd(f, fl)

----------------------------------------------------------------------------
(* event_loop_run.                                                         *)

\* The head of the loop.
Turn ==
    /\ pc \in {"setup", "top"}
    /\ pc' = IF event_canclled THEN "end" ELSE "timeouts"
    /\ tv' = clock
    /\ UNCHANGED <<fdvars, ready, tmvars, event_canclled, clock, cur, calls>>

\* The test of event_process_timeouts, against the time the turn began.
IsDue == list # <<>> /\ tv_diff(time[Head(list)], gettime(tv)) <= 0

Fire ==
    /\ pc = "timeouts" /\ pc' = "timeout_cb"
    /\ IsDue
    /\ list' = Tail(list)
    /\ UNCHANGED <<fdvars, ready, time, event_canclled, clock, tv, cur, calls>>

TimeoutReturn ==
    /\ pc = "timeout_cb" /\ pc' = "timeouts"
    /\ UNCHANGED <<fdvars, ready, tmvars, event_canclled, clock, tv, cur, calls>>

TimeoutsDone ==
    /\ pc = "timeouts" /\ ~IsDue
    /\ pc' = IF event_canclled THEN "end" ELSE "poll"
    /\ UNCHANGED <<fdvars, ready, tmvars, event_canclled, clock, tv, cur, calls>>

\* The second event_gettime.
Ask ==
    /\ pc = "poll" /\ pc' = "wait"
    /\ tv' = clock
    /\ UNCHANGED <<fdvars, ready, tmvars, event_canclled, clock, cur, calls>>

FaultySleep == IF list = <<>> THEN -1 ELSE MaxTime

\* event_get_next_timeout, in milliseconds; -1 waits for ever.
Sleep ==
    IF list = <<>> THEN -1
    ELSE IF tv_diff(time[Head(list)], gettime(tv)) < 0 THEN 0
    ELSE tv_diff(time[Head(list)], gettime(tv))

\* epoll_wait without an event for that long.
Expire ==
    /\ pc = "wait" /\ pc' = "top"
    /\ Sleep # -1 /\ clock >= tv + Grain * Sleep
    /\ UNCHANGED <<fdvars, ready, tmvars, event_canclled, clock, tv, cur, calls>>

\* What epoll reports of an fd in the set.
Reports(f) == IF registered[f] THEN ready[f] \cap (interest[f] \cup {HUP}) ELSE {}

\* The mask of a reported fd is set to EPOLLOUT when it is readable, and then
\* to EPOLLIN in either case.
NewInterest(f) == IF Reports(f) \cap Flags # {} THEN {READ} ELSE interest[f]

\* cur->events.  A readable one has just had its mask set to EPOLLOUT, which
\* is taken for an event.
Events(f) == IF READ \in Reports(f) THEN {READ, WRITE} ELSE Reports(f) \cap {WRITE}

\* event_fetch_events.  One that has failed is deleted, and freed by h_free.
Fetch ==
    /\ pc = "wait" /\ pc' = "events"
    /\ \E f \in Fds : Reports(f) # {}
    /\ LET failed == {f \in Fds : HUP \in Reports(f)}
       IN  /\ registered' = [f \in Fds |-> registered[f] /\ f \notin failed]
           /\ interest' = [f \in Fds |-> IF f \in failed THEN {} ELSE NewInterest(f)]
           /\ freed' = IF Frees THEN freed \cup failed ELSE freed
    /\ \E s \in SetToSeqs({f \in Fds : Reports(f) # {}}) :
          cur' = [n \in DOMAIN s |-> [fd |-> s[n], events |-> Events(s[n])]]
    /\ UNCHANGED <<flags, ready, tmvars, event_canclled, clock, tv, calls>>

\* event_process_events calls h_fd, through the event_fd that may be freed.
CallFd ==
    /\ pc = "events" /\ cur # <<>>
    /\ pc' = IF Head(cur).fd \in freed THEN "undefined" ELSE "fd_cb"
    /\ UNCHANGED <<fdvars, ready, tmvars, event_canclled, clock, tv, cur, calls>>

\* The callback returns; it has read or written, or left some of it.
FdReturn ==
    /\ pc = "fd_cb" /\ pc' = "events"
    /\ \E done \in SUBSET (ready[Head(cur).fd] \ {HUP}) :
          ready' = [ready EXCEPT ![Head(cur).fd] = @ \ done]
    /\ cur' = Tail(cur)
    /\ UNCHANGED <<fdvars, tmvars, event_canclled, clock, tv, calls>>

EventsDone ==
    /\ pc = "events" /\ pc' = "top"
    /\ cur = <<>>
    /\ UNCHANGED <<fdvars, ready, tmvars, event_canclled, clock, tv, cur, calls>>

----------------------------------------------------------------------------
(* The environment.                                                        *)

Occur(f, x) ==
    /\ x \notin ready[f] /\ (x = HUP => f \in Fails)
    /\ ready' = [ready EXCEPT ![f] = @ \cup {x}]
    /\ UNCHANGED <<fdvars, tmvars, event_canclled, clock, tv, pc, cur, calls>>

Tick ==
    /\ clock < MaxTime /\ clock' = clock + 1
    /\ UNCHANGED <<fdvars, ready, tmvars, event_canclled, tv, pc, cur, calls>>

LoopStep ==
    \/ Turn \/ Fire \/ TimeoutReturn \/ TimeoutsDone \/ Ask
    \/ Expire \/ Fetch \/ CallFd \/ FdReturn \/ EventsDone

Next ==
    \/ LoopStep \/ API \/ Tick
    \/ \E f \in Fds, x \in Flags \cup {HUP} : Occur(f, x)

\* The loop runs, callbacks return and time goes on.
Spec == Init /\ [][Next]_vars /\ WF_vars(LoopStep) /\ WF_vars(Tick)

----------------------------------------------------------------------------
\* The type of the state; what is in the epoll set is what is registered.
TypeOK ==
    /\ registered \in [Fds -> BOOLEAN] /\ flags \in [Fds -> SUBSET Flags]
    /\ interest \in [Fds -> SUBSET Flags] /\ freed \subseteq Fds
    /\ \A f \in Fds : interest[f] # {} <=> registered[f]
    /\ list \in Seq(Timeouts) /\ time \in [Timeouts -> Nat \X (0 .. Second)]
    /\ tv <= clock /\ (cur # <<>> => pc \in {"events", "fd_cb", "undefined"})

\* In whatever order callbacks set and cancel them: no timeout stands before
\* one that is due a millisecond or more earlier, none that was due when
\* event_process_timeouts began is left when it ends, and the loop is not told
\* to sleep two milliseconds past a pending one.
NoOverdue ==
    /\ \A m, n \in DOMAIN list : m < n => TickOf(time[list[m]]) - TickOf(time[list[n]]) < Grain
    /\ pc = "poll" => \A n \in DOMAIN list : TickOf(time[list[n]]) > tv
    /\ pc = "wait" => \A n \in DOMAIN list :
          /\ Sleep # -1
          /\ Sleep = 0 \/ tv + Grain * Sleep < TickOf(time[list[n]]) + 2 * Grain

\* Both, with the types they rest on.
NetNoOverdue == TypeOK /\ NoOverdue

CurrentFd == IF pc = "fd_cb" THEN Head(cur).fd ELSE "none"
Unserved(f) ==
    /\ registered[f] /\ READ \in flags[f] /\ READ \in ready[f]
    /\ CurrentFd # f /\ ~event_canclled /\ pc # "undefined"
Waiting(t) ==
    /\ Contains(list, t) /\ TickOf(time[t]) + 2 * Grain <= MaxTime
    /\ ~event_canclled /\ pc # "undefined"

\* A readable fd registered for reading is handled, whatever the masks were
\* set to before and however soon the timeouts are due.  Nothing like it holds
\* of writing: the mask that NewInterest leaves is for reading.
ReadableIsServed == \A f \in Fds : []<>~Unserved(f)

\* A timeout due well before time stops fires or is cancelled, unless the loop
\* is.
TimeoutsFire == \A t \in Timeouts : []<>~Waiting(t)

\* A loop that a callback cancels ends, even when nothing more happens.
CancelEnds == []<>(~event_canclled \/ pc \in {"end", "undefined"})
=============================================================================
