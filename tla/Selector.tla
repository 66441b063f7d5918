------------------------------ MODULE Selector ------------------------------
(***************************************************************************)
(* The select loop of fun_network/libnet/source/selector.c (fun_event/     *)
(* select holds an older copy): timers first, then the file descriptors,   *)
(* then the signals, with callbacks into the program that may call the     *)
(* selector again.  The timer tree is the set it implements (TimerSet).    *)
(* The program clears a file descriptor before it closes it, so select     *)
(* does not fail but for signals.                                          *)
(***************************************************************************)
EXTENDS Integers, FiniteSets, FiniteSetsExt

CONSTANTS
    Timers, SelTimeouts,
    Periodic,       \* the timers whose handlers start them again
    MaxFd,          \* file descriptors are 0 .. MaxFd, below FD_SETSIZE
    Kinds,          \* 1 read, 2 write, 3 except
    Epoch,          \* the time of day when the program starts
    MaxTicks, SelMaxCalls, MaxSignals   \* bounds: clock, calls, signals

SelectorAssumption ==
    /\ Kinds \subseteq 1 .. 3 /\ MaxFd \in Nat /\ Periodic \subseteq Timers
    /\ SelTimeouts \subseteq Nat /\ \A ms \in SelTimeouts : ms < Epoch

SelFds == 0 .. MaxFd
SelEvents == SelFds \X Kinds
Signals == {"hup", "int"}
Idle == <<0, 0>>

VARIABLES
    running, timeout,   \* the timer tree
    handle,             \* the kinds each fd has a handler for
    in_use, enabled, maxfd,
    got,                \* got_sighup, got_sigint
    sel_pc,
    tmp,                \* what select returned and is not yet handled
    serving,            \* the event, or <<signal>>, whose callback runs
    sel_clock,
    sel_ready,          \* the environment: events that have occurred
    sel_calls, arrived,
    unseen              \* history: signals that no handler has been called for since

timers == <<running, timeout>>
sel_fdvars == <<handle, in_use, enabled, maxfd>>
sigvars == <<got, arrived, unseen>>
sel_vars == <<timers, sel_fdvars, sigvars, sel_pc, tmp, serving, sel_clock, sel_ready, sel_calls>>

\* sel_alloc_selector, setup_signals.
SelInit ==
    /\ running = {} /\ timeout = [t \in Timers |-> 0]
    /\ handle = [f \in SelFds |-> {}] /\ in_use = [f \in SelFds |-> FALSE]
    /\ enabled = {} /\ maxfd = 0
    /\ got = {} /\ arrived = [s \in Signals |-> 0] /\ unseen = {}
    /\ sel_pc = "setup" /\ tmp = {} /\ serving = Idle
    /\ sel_clock = Epoch /\ sel_ready = {} /\ sel_calls = 0

----------------------------------------------------------------------------
(* What the program calls, before the loop and in its callbacks.           *)

SelCall ==
    /\ sel_pc \in {"setup", "timer_cb", "fd_cb", "sig_cb"}
    /\ sel_calls < SelMaxCalls /\ sel_calls' = sel_calls + 1
    /\ UNCHANGED <<sigvars, sel_pc, tmp, serving, sel_clock, sel_ready>>

\* sel_start_timer: the timeout, not the time at which it is over, goes into
\* the tree.
Started(t, ms) ==
    /\ running' = running \cup {t}
    /\ timeout' = [timeout EXCEPT ![t] = ms]

StartTimer(t, ms) == SelCall /\ t \notin running /\ Started(t, ms) /\ UNCHANGED sel_fdvars

\* sel_stop_timer.
StopTimer(t) ==
    /\ SelCall /\ t \in running
    /\ running' = running \ {t}
    /\ UNCHANGED <<timeout, sel_fdvars>>

FaultySetHandlers(f, kinds) ==
    /\ SelCall
    /\ in_use' = [in_use EXCEPT ![f] = TRUE]
    /\ handle' = [handle EXCEPT ![f] = kinds]
    /\ maxfd' = f
    /\ UNCHANGED <<timers, enabled>>

\* sel_set_fd_handlers.
SetHandlers(f, kinds) ==
    /\ SelCall
    /\ in_use' = [in_use EXCEPT ![f] = TRUE]
    /\ handle' = [handle EXCEPT ![f] = kinds]
    /\ maxfd' = IF f > maxfd THEN f ELSE maxfd
    /\ UNCHANGED <<timers, enabled>>

\* The loop at the end of sel_clr_fd_handlers.
Highest(f, used) == Max({-1} \cup {g \in 0 .. f : used[g]})

\* sel_clr_fd_handlers.
ClrHandlers(f) ==
    /\ SelCall
    /\ in_use' = [in_use EXCEPT ![f] = FALSE]
    /\ handle' = [handle EXCEPT ![f] = {}]
    /\ enabled' = {e \in enabled : e[1] # f}
    /\ maxfd' = IF f = maxfd THEN Highest(f, in_use') ELSE maxfd
    /\ UNCHANGED timers

\* sel_set_fd_read_handler, ..write_handler, ..except_handler.
Enable(e) == SelCall /\ enabled' = enabled \cup {e} /\ UNCHANGED <<timers, handle, in_use, maxfd>>
Disable(e) == SelCall /\ enabled' = enabled \ {e} /\ UNCHANGED <<timers, handle, in_use, maxfd>>

SelApi ==
    \/ \E t \in Timers : StopTimer(t) \/ \E ms \in SelTimeouts : StartTimer(t, ms)
    \/ \E f \in SelFds : ClrHandlers(f) \/ \E kinds \in SUBSET Kinds : SetHandlers(f, kinds)
    \/ \E e \in SelEvents : in_use[e[1]] /\ (Enable(e) \/ Disable(e))

----------------------------------------------------------------------------
(* sel_select_loop.                                                        *)

Goto(from, to) == sel_pc = from /\ sel_pc' = to

StartLoop ==
    /\ Goto("setup", "timers")
    /\ UNCHANGED <<timers, sel_fdvars, sigvars, tmp, serving, sel_clock, sel_ready, sel_calls>>

Due == {t \in running : /\ sel_clock >= timeout[t]
                        /\ \A u \in running : timeout[t] <= timeout[u]}

\* A timer that is due is taken out of the tree and its handler called.
FireTimer(t) ==
    /\ Goto("timers", "timer_cb")
    /\ t \in Due
    /\ running' = running \ {t}
    /\ serving' = <<t>>
    /\ UNCHANGED <<timeout, sel_fdvars, sigvars, tmp, sel_clock, sel_ready, sel_calls>>

\* The handler returns; that of a periodic timer has started it again.
TimerReturn ==
    /\ Goto("timer_cb", "timers")
    /\ LET t == serving[1]
       IN  IF t \in Periodic /\ t \notin running
           THEN \E ms \in SelTimeouts : Started(t, ms)
           ELSE UNCHANGED timers
    /\ serving' = Idle
    /\ UNCHANGED <<sel_fdvars, sigvars, tmp, sel_clock, sel_ready, sel_calls>>

\* None is due: on to select.
NoTimerDue ==
    /\ Goto("timers", "select")
    /\ Due = {}
    /\ UNCHANGED <<timers, sel_fdvars, sigvars, tmp, serving, sel_clock, sel_ready, sel_calls>>

\* What select is asked for.
Watched == {e \in enabled : e[1] <= maxfd}

FaultySelect ==
    /\ Goto("select", "fds")
    /\ Watched \cap sel_ready # {}
    /\ \E e \in Watched \cap sel_ready : tmp' = {e}
    /\ UNCHANGED <<timers, sel_fdvars, sigvars, serving, sel_clock, sel_ready, sel_calls>>

Select ==
    /\ Goto("select", "fds")
    /\ Watched \cap sel_ready # {}
    /\ tmp' = Watched \cap sel_ready
    /\ UNCHANGED <<timers, sel_fdvars, sigvars, serving, sel_clock, sel_ready, sel_calls>>

\* The turns of the loop over the fds that find something.
ServeFd ==
    /\ sel_pc = "fds"
    /\ LET left == {e \in tmp : e[1] <= maxfd}
           Before(e, f) == e[1] < f[1] \/ (e[1] = f[1] /\ e[2] <= f[2])
           e == CHOOSE x \in left : \A y \in left : Before(x, y)
       IN  /\ left # {}
           /\ tmp' = left \ {e}
           /\ IF e[2] \in handle[e[1]]
              THEN sel_pc' = "fd_cb" /\ serving' = e /\ UNCHANGED enabled
              ELSE sel_pc' = sel_pc /\ enabled' = enabled \ {e} /\ UNCHANGED serving
    /\ UNCHANGED <<timers, handle, in_use, maxfd, sigvars, sel_clock, sel_ready, sel_calls>>

\* The callback has handled the event, or left some of it.
SelFdReturn ==
    /\ Goto("fd_cb", "fds")
    /\ sel_ready' \in {sel_ready, sel_ready \ {serving}}
    /\ serving' = Idle
    /\ UNCHANGED <<timers, sel_fdvars, sigvars, tmp, sel_clock, sel_calls>>

FdsDone ==
    /\ Goto("fds", "signals")
    /\ \A e \in tmp : e[1] > maxfd
    /\ tmp' = {}
    /\ UNCHANGED <<timers, sel_fdvars, sigvars, serving, sel_clock, sel_ready, sel_calls>>

\* Where each flag is looked at: SIGHUP first, and once a turn.
Test(s) == IF s = "hup" THEN "signals" ELSE "sigint"
After(s) == IF s = "hup" THEN "sigint" ELSE "timers"

\* The flag is tested, cleared and only then the handler called, with the
\* signal free to arrive in between.
TestSignal(s) ==
    /\ Goto(Test(s), "clear")
    /\ s \in got
    /\ serving' = <<s>>
    /\ UNCHANGED <<timers, sel_fdvars, sigvars, tmp, sel_clock, sel_ready, sel_calls>>

ClearSignal ==
    /\ Goto("clear", "call")
    /\ got' = got \ {serving[1]}
    /\ UNCHANGED <<timers, sel_fdvars, arrived, unseen, tmp, serving, sel_clock, sel_ready,
                   sel_calls>>

CallSignal ==
    /\ Goto("call", "sig_cb")
    /\ unseen' = unseen \ {serving[1]}
    /\ UNCHANGED <<timers, sel_fdvars, got, arrived, tmp, serving, sel_clock, sel_ready,
                   sel_calls>>

SignalReturn ==
    /\ Goto("sig_cb", After(serving[1]))
    /\ serving' = Idle
    /\ UNCHANGED <<timers, sel_fdvars, sigvars, tmp, sel_clock, sel_ready, sel_calls>>

NoSignal(s) ==
    /\ Goto(Test(s), After(s))
    /\ s \notin got
    /\ UNCHANGED <<timers, sel_fdvars, sigvars, tmp, serving, sel_clock, sel_ready, sel_calls>>

----------------------------------------------------------------------------
(* The environment.                                                        *)

\* A signal sets its flag and ends a select that waits.  SIGINT is caught once
\* (SA_RESETHAND); the second ends the program.
Signal(s) ==
    /\ sel_pc # "dead" /\ arrived[s] < MaxSignals
    /\ arrived' = [arrived EXCEPT ![s] = @ + 1]
    /\ IF s = "int" /\ arrived[s] > 0
       THEN sel_pc' = "dead" /\ UNCHANGED <<got, unseen>>
       ELSE /\ got' = got \cup {s} /\ unseen' = unseen \cup {s}
            /\ sel_pc' = IF sel_pc = "select" THEN "signals" ELSE sel_pc
    /\ UNCHANGED <<timers, sel_fdvars, tmp, serving, sel_clock, sel_ready, sel_calls>>

SelOccur(e) ==
    /\ e \notin sel_ready /\ sel_ready' = sel_ready \cup {e}
    /\ UNCHANGED <<timers, sel_fdvars, sigvars, sel_pc, tmp, serving, sel_clock, sel_calls>>

SelTick ==
    /\ sel_clock < Epoch + MaxTicks /\ sel_clock' = sel_clock + 1
    /\ UNCHANGED <<timers, sel_fdvars, sigvars, sel_pc, tmp, serving, sel_ready, sel_calls>>

SelLoopStep ==
    \/ StartLoop \/ (\E t \in Timers : FireTimer(t)) \/ TimerReturn \/ NoTimerDue
    \/ Select \/ ServeFd \/ SelFdReturn \/ FdsDone
    \/ (\E s \in Signals : TestSignal(s) \/ NoSignal(s))
    \/ ClearSignal \/ CallSignal \/ SignalReturn

SelNext ==
    \/ SelLoopStep \/ SelApi \/ SelTick
    \/ \E s \in Signals : Signal(s)
    \/ \E e \in SelEvents : SelOccur(e)

\* The loop runs and callbacks return; nothing is assumed of the environment.
SelSpec == SelInit /\ [][SelNext]_sel_vars /\ WF_sel_vars(SelLoopStep)

----------------------------------------------------------------------------
\* The type of the state; a timer whose handler runs is not in the tree unless
\* the handler has started it again, and only events of one select are left.
SelTypeOK ==
    /\ running \subseteq Timers /\ timeout \in [Timers -> SelTimeouts \cup {0}]
    /\ handle \in [SelFds -> SUBSET Kinds] /\ in_use \in [SelFds -> BOOLEAN]
    /\ enabled \subseteq SelEvents /\ maxfd \in -1 .. MaxFd
    /\ got \subseteq Signals /\ tmp \subseteq SelEvents
    /\ (tmp # {} => sel_pc \in {"fds", "fd_cb", "dead"})

\* Whatever is set and cleared, select looks at every enabled event of a file
\* descriptor in use.
WatchesAll == \A e \in enabled : in_use[e[1]] => e \in Watched

\* A signal that no call of its handler has come after is remembered: by its
\* flag, or by the call that the loop is about to make.
NoLostSignal ==
    sel_pc # "dead" => unseen \subseteq got \cup (IF sel_pc = "call" THEN {serving[1]} ELSE {})

\* Nothing the program has asked for and nothing that has arrived is overlooked.
NothingOverlooked == SelTypeOK /\ WatchesAll /\ NoLostSignal

SelUnserved(e) ==
    /\ e \in enabled /\ e \in sel_ready /\ e[2] \in handle[e[1]]
    /\ serving # e /\ sel_pc \notin {"setup", "dead"}

\* An event that has occurred is handled, or no longer wanted, as long as no
\* handler starts its timer again.
ReadyIsServed == \A e \in SelEvents : []<>~SelUnserved(e)
=============================================================================
