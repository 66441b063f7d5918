------------------------------- MODULE MCLoops ------------------------------
(***************************************************************************)
(* Small instances of the three event loops: ubox's, net_event.c's and     *)
(* selector.c's.  scenario, chosen in the initial state, says which        *)
(* instance a behaviour exercises; the other loops stay as initialised.    *)
(***************************************************************************)
EXTENDS UboxEvent, NetEvent, Selector

VARIABLES
    scenario,
    w_now, w_time, w_pending, w_head, w_calls, w_pc, w_tv, w_deadline, w_cancelled, w_registered,
        w_epoll, w_readable, w_hup, w_fds, w_fd, w_nfds,
    fds_registered, fds_flags, fds_freed, fds_interest, fds_ready, fds_list, fds_time,
        fds_canclled, fds_clock, fds_tv, fds_pc, fds_cur, fds_calls,
    sig_running, sig_timeout, sig_handle, sig_in_use, sig_enabled, sig_maxfd, sig_got, sig_pc,
        sig_tmp, sig_serving, sig_clock, sig_ready, sig_calls, sig_arrived, sig_unseen

w_vars    == <<w_now, w_time, w_pending, w_head, w_calls, w_pc, w_tv, w_deadline, w_cancelled,
               w_registered, w_epoll, w_readable, w_hup, w_fds, w_fd, w_nfds>>
fds_vars  == <<fds_registered, fds_flags, fds_freed, fds_interest, fds_ready, fds_list, fds_time,
               fds_canclled, fds_clock, fds_tv, fds_pc, fds_cur, fds_calls>>
sig_vars  == <<sig_running, sig_timeout, sig_handle, sig_in_use, sig_enabled, sig_maxfd, sig_got,
               sig_pc, sig_tmp, sig_serving, sig_clock, sig_ready, sig_calls, sig_arrived,
               sig_unseen>>

\* ubox: three timeouts in a list that is inserted into at every place, with the
\* constants of the run; two that are waited for; one beside a descriptor, with
\* cur_fds of three places.
Late  == INSTANCE UboxEvent WITH
            UboxTimers <- {"a", "b"}, UboxFds <- {}, Msecs <- {0, 1}, UboxMaxTime <- 6,
            UboxMaxCalls <- 3,
            now <- w_now, ubox_time <- w_time, pending <- w_pending, timeout_head <- w_head,
            ubox_calls <- w_calls, ubox_pc <- w_pc, ubox_tv <- w_tv, deadline <- w_deadline,
            event_cancelled <- w_cancelled, ubox_registered <- w_registered, epoll <- w_epoll,
            readable <- w_readable, hup <- w_hup, cur_fds <- w_fds, cur_fd <- w_fd,
            cur_nfds <- w_nfds
Watch == INSTANCE UboxEvent WITH
            UboxTimers <- {"a"}, UboxFds <- {"f"}, Msecs <- {1}, UboxMaxTime <- 6,
            UboxMaxCalls <- 2, EVENT_MAX_EVENTS <- 3,
            now <- w_now, ubox_time <- w_time, pending <- w_pending, timeout_head <- w_head,
            ubox_calls <- w_calls, ubox_pc <- w_pc, ubox_tv <- w_tv, deadline <- w_deadline,
            event_cancelled <- w_cancelled, ubox_registered <- w_registered, epoll <- w_epoll,
            readable <- w_readable, hup <- w_hup, cur_fds <- w_fds, cur_fd <- w_fd,
            cur_nfds <- w_nfds

\* net_event.c: two timeouts, with the constants of the run; two descriptors
\* beside a timeout, of which one may fail and is not freed; and two of which
\* both may fail and one that fails is freed.
NetFds == INSTANCE NetEvent WITH
            Fds <- {"f", "g"}, Timeouts <- {"t"}, Delays <- {1}, Fails <- {"g"},
            Frees <- FALSE, MaxTime <- 2, MaxCalls <- 2,
            registered <- fds_registered, flags <- fds_flags, freed <- fds_freed,
            interest <- fds_interest, ready <- fds_ready, list <- fds_list, time <- fds_time,
            event_canclled <- fds_canclled, clock <- fds_clock, tv <- fds_tv, pc <- fds_pc,
            cur <- fds_cur, calls <- fds_calls

NetFree == INSTANCE NetEvent WITH
            Fds <- {"f", "g"}, Timeouts <- {}, Delays <- {}, Fails <- {"f", "g"},
            Frees <- TRUE, MaxTime <- 0, MaxCalls <- 2,
            registered <- fds_registered, flags <- fds_flags, freed <- fds_freed,
            interest <- fds_interest, ready <- fds_ready, list <- fds_list, time <- fds_time,
            event_canclled <- fds_canclled, clock <- fds_clock, tv <- fds_tv, pc <- fds_pc,
            cur <- fds_cur, calls <- fds_calls

\* selector.c: three descriptors whose handlers are set and cleared, with the
\* constants of the run; and signals beside a timer that is started again and
\* again.
Sig == INSTANCE Selector WITH
            Timers <- {"t1"}, SelTimeouts <- {2}, Periodic <- {"t1"}, MaxFd <- 0, Kinds <- {1, 2},
            Epoch <- 10, MaxTicks <- 1, SelMaxCalls <- 2, MaxSignals <- 2,
            running <- sig_running, timeout <- sig_timeout, handle <- sig_handle,
            in_use <- sig_in_use, enabled <- sig_enabled, maxfd <- sig_maxfd, got <- sig_got,
            sel_pc <- sig_pc, tmp <- sig_tmp, serving <- sig_serving, sel_clock <- sig_clock,
            sel_ready <- sig_ready, sel_calls <- sig_calls, arrived <- sig_arrived,
            unseen <- sig_unseen

ASSUME InstanceAssumption ==
    /\ UboxAssumption /\ Late!UboxAssumption /\ Watch!UboxAssumption
    /\ NetEventAssumption /\ NetFds!NetEventAssumption /\ NetFree!NetEventAssumption
    /\ SelectorAssumption /\ Sig!SelectorAssumption

MCInit ==
    /\ scenario \in {"order", "late", "watch", "timeouts", "fds", "freed", "handlers", "signals"}
    /\ UboxInit /\ IF scenario = "late" THEN Late!UboxInit ELSE Watch!UboxInit
    /\ Init /\ (IF scenario = "freed" THEN NetFree!Init ELSE NetFds!Init) /\ SelInit /\ Sig!SelInit

MCNext ==
    /\ UNCHANGED scenario
    /\ \/ /\ scenario = "order" /\ UboxNext
          /\ UNCHANGED <<w_vars, vars, fds_vars, sel_vars, sig_vars>>
       \/ /\ scenario = "late" /\ Late!UboxNext
          /\ UNCHANGED <<ubox_vars, vars, fds_vars, sel_vars, sig_vars>>
       \/ /\ scenario = "watch" /\ Watch!UboxNext
          /\ UNCHANGED <<ubox_vars, vars, fds_vars, sel_vars, sig_vars>>
       \/ /\ scenario = "timeouts" /\ Next
          /\ UNCHANGED <<ubox_vars, w_vars, fds_vars, sel_vars, sig_vars>>
       \/ /\ scenario = "fds" /\ NetFds!Next
          /\ UNCHANGED <<ubox_vars, w_vars, vars, sel_vars, sig_vars>>
       \/ /\ scenario = "freed" /\ NetFree!Next
          /\ UNCHANGED <<ubox_vars, w_vars, vars, sel_vars, sig_vars>>
       \/ /\ scenario = "handlers" /\ SelNext
          /\ UNCHANGED <<ubox_vars, w_vars, vars, fds_vars, sig_vars>>
       \/ /\ scenario = "signals" /\ Sig!SelNext
          /\ UNCHANGED <<ubox_vars, w_vars, vars, fds_vars, sel_vars>>

\* The fairness of the loops, each where it runs.
MCFairness ==
    /\ WF_w_vars(scenario = "late" /\ Late!UboxLoopStep)
    /\ WF_w_vars(scenario = "late" /\ Late!Return)
    /\ WF_w_vars(scenario = "late" /\ Late!UboxTick)
    /\ WF_w_vars(scenario = "watch" /\ Watch!UboxLoopStep)
    /\ WF_w_vars(scenario = "watch" /\ Watch!Return)
    /\ WF_w_vars(scenario = "watch" /\ Watch!UboxTick)
    /\ WF_vars(scenario = "timeouts" /\ LoopStep)
    /\ WF_vars(scenario = "timeouts" /\ Tick)
    /\ WF_fds_vars(scenario = "fds" /\ NetFds!LoopStep)
    /\ WF_fds_vars(scenario = "fds" /\ NetFds!Tick)
    /\ WF_fds_vars(scenario = "freed" /\ NetFree!LoopStep)
    /\ WF_sel_vars(scenario = "handlers" /\ SelLoopStep)

MCSpec ==
    /\ MCInit
    /\ [][MCNext]_<<scenario, ubox_vars, w_vars, vars, fds_vars, sel_vars, sig_vars>>
    /\ MCFairness

-----------------------------------------------------------------------------
\* UboxEvent, NetEvent: a timeout that falls due is called, cancelled or set
\* anew, and event_loop_cancel of net_event.c ends the loop, even when nothing
\* more happens; a loop that serves a descriptor oversleeps no more than one
\* that serves timeouts alone.
TimeoutsServed ==
    /\ \A t \in {"a", "b"} : []<>(scenario = "late" => ~Late!UboxUnserved(t))
    /\ []<>(scenario = "watch" => ~Watch!UboxUnserved("a"))
    /\ TimeoutsFire /\ CancelEnds
    /\ [](scenario = "watch" => Watch!NoLoopOversleeps)

\* NetEvent, Selector: a readable descriptor registered for reading is handled,
\* whatever event_fetch_events has set its mask to before and though another
\* one, or it itself, fails beside it (as long as h_free leaves it alone: nothing
\* can be said once a freed one is called), and no timeout is slept past
\* meanwhile; an event select could report is handled or no longer wanted; and
\* a signal that arrives while its flag is tested or cleared, or while its
\* handler runs, is remembered or has a call to come.
EventsServed ==
    /\ \A f \in {"f", "g"} : []<>(scenario = "fds" => ~NetFds!Unserved(f))
    /\ [](scenario = "fds" => NetFds!NetNoOverdue)
    /\ [](scenario = "freed" => NetFree!NetNoOverdue)
    /\ ReadyIsServed
    /\ [](scenario = "signals" => Sig!NothingOverlooked)
=============================================================================
