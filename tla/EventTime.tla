----------------------------- MODULE EventTime ------------------------------
(***************************************************************************)
(* The arithmetic of the timeouts of fun_event/ubox/event.c, and of        *)
(* fun_network/libnet/source/net_event.c, which repeats it word for word.  *)
(* Time is counted in ticks.  A struct timeval is a pair of seconds and    *)
(* ticks; the loops compare times in milliseconds of Grain ticks, rounding *)
(* the ticks of the pair towards zero, up or down (tv_diff).               *)
(***************************************************************************)
EXTENDS Integers, Sequences, SequencesExt

CONSTANTS
    Grain,              \* ticks in a millisecond
    Thousand            \* milliseconds in a second

UnitsAssumption == {Grain, Thousand} \subseteq Nat \ {0}

Second == Thousand * Grain

\* event_gettime, and the tick a struct timeval stands for.
gettime(tick) == <<tick \div Second, tick % Second>>
TickOf(v) == v[1] * Second + v[2]

\* The sum in event_timeout_set, which carries only when the microseconds
\* exceed a million.
DueTime(at, msecs) ==
    LET tick == (at % Second) + (msecs % Thousand) * Grain
        sec == (at \div Second) + (msecs \div Thousand)
    IN  IF tick > Second THEN <<sec + 1, tick - Second>> ELSE <<sec, tick>>

\* C's division of the microseconds rounds towards zero.
tv_diff(a, b) ==
    (a[1] - b[1]) * Thousand
        + (IF a[2] >= b[2] THEN (a[2] - b[2]) \div Grain ELSE -((b[2] - a[2]) \div Grain))

\* event_timeout_add's walk: before the first timeout that is later by a
\* millisecond or more; of[u] is the time of u.
Placed(list, of, t, due) ==
    LET later == {n \in DOMAIN list : tv_diff(of[list[n]], due) > 0}
    IN  InsertAt(list, Min(later \cup {Len(list) + 1}), t)
=============================================================================
