------------------------------ MODULE TimerSet ------------------------------
(***************************************************************************)
(* What the timer tree of libnet/source/selector.c promises the select     *)
(* loop: the set of running timers, of which one with the smallest timeout *)
(* is taken to be fired, and from which any other can be stopped.          *)
(***************************************************************************)
EXTENDS Integers

CONSTANTS Timers, Timeouts, Null

VARIABLES
    running,    \* the timers started and neither fired nor stopped
    timeout,    \* what each running one was started with
    fired       \* the timer that fired last

Init ==
    /\ running = {} /\ fired = Null
    /\ timeout = [t \in Timers |-> 0]

Start(t, ms) ==
    /\ t \notin running
    /\ running' = running \cup {t}
    /\ timeout' = [timeout EXCEPT ![t] = ms]
    /\ UNCHANGED fired

Stop(t) ==
    /\ t \in running
    /\ running' = running \ {t}
    /\ timeout' = [timeout EXCEPT ![t] = 0]
    /\ UNCHANGED fired

Fire(t) ==
    /\ t \in running /\ \A u \in running : timeout[t] <= timeout[u]
    /\ running' = running \ {t} /\ fired' = t
    /\ timeout' = [timeout EXCEPT ![t] = 0]

Next == \E t \in Timers : Stop(t) \/ Fire(t) \/ \E ms \in Timeouts : Start(t, ms)

Spec == Init /\ [][Next]_<<running, timeout, fired>>
=============================================================================
