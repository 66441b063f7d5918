------------------------------ MODULE MCShared ------------------------------
(***************************************************************************)
(* Small instances of what is changed while someone else is using it: the  *)
(* thread pool, the byte ring of one producer and one consumer, the        *)
(* timerfd map with its event loop, the hash table and the list whose      *)
(* loops run over changing contents.  scenario, chosen in the initial      *)
(* state, says which instance a behaviour exercises; the other components  *)
(* stay as they were initialised.                                          *)
(***************************************************************************)
EXTENDS MCFifo, ThreadPool, TimerMap, SafeList

VARIABLES
    scenario,
    table_size, tab, nelem, entry, hash_pc, h, p, hash_calls, walk

hash_vars == <<table_size, tab, nelem, entry, hash_pc, h, p, hash_calls, walk>>

\* The timers of the run share two descriptor numbers and are used from the
\* callbacks; here from a second thread too, with one event at a time.
Threads == INSTANCE TimerMap WITH mMaxCnt <- 1, OtherThread <- TRUE, MaxCalls <- 6

\* Three keys, two of which collide in every table.
Hash == INSTANCE TimerHash WITH
            Keys <- {"a", "b", "c"}, Data <- {"x", "y"}, NoData <- "NoData",
            Hash <- [a |-> 1, b |-> 5, c |-> 4],
            InitialSize <- 1, SD_HASH_FULLTAB <- 1, SD_HASH_GROWTAB <- 4, MaxSize <- 4,
            MaxCalls <- 2, size <- table_size, pc <- hash_pc, calls <- hash_calls

ASSUME InstanceAssumption ==
    /\ FifoAssumption /\ PoolAssumption
    /\ TimerMapAssumption /\ Threads!TimerMapAssumption
    /\ Hash!HashAssumption /\ SafeListAssumption

MCInit ==
    /\ scenario \in {"pool", "ring", "map", "threads", "hash", "list"}
    /\ Init /\ RingInit /\ OneMark /\ MapInit /\ Hash!Init /\ SafeInit

MCNext ==
    /\ UNCHANGED scenario
    /\ \/ scenario = "pool" /\ Next /\ UNCHANGED <<ring_vars, map_vars, hash_vars, safe_vars>>
       \/ /\ scenario = "ring" /\ RingNext /\ OneMark'
          /\ UNCHANGED <<vars, map_vars, hash_vars, safe_vars>>
       \/ /\ \/ scenario = "map" /\ MapNext
             \/ scenario = "threads" /\ Threads!MapNext
          /\ UNCHANGED <<vars, ring_vars, hash_vars, safe_vars>>
       \/ scenario = "hash" /\ Hash!Next /\ UNCHANGED <<vars, ring_vars, map_vars, safe_vars>>
       \/ scenario = "list" /\ SafeNext /\ UNCHANGED <<vars, ring_vars, map_vars, hash_vars>>

\* The fairness of ThreadPool, TimerMap and TimerHash, each where it runs.
MCFairness ==
    /\ WF_vars(scenario = "pool" /\ WorkerStep("w"))
    /\ WF_vars(scenario = "pool" /\ (Push \/ Joined))
    /\ WF_map_vars(scenario = "map" /\ LoopStep)
    /\ WF_map_vars(scenario = "map" /\ Return)
    /\ WF_map_vars(scenario = "threads" /\ Threads!LoopStep)
    /\ WF_map_vars(scenario = "threads" /\ Threads!Return)
    /\ \A t \in Timers :
        /\ WF_map_vars(scenario = "map" /\ Finish(t))
        /\ WF_map_vars(scenario = "threads" /\ Threads!Finish(t))
    /\ \A fd \in TimerFds :
        /\ WF_map_vars(scenario = "map" /\ Expire(fd))
        /\ WF_map_vars(scenario = "threads" /\ Threads!Expire(fd))
    /\ WF_hash_vars(scenario = "hash" /\ Hash!EnterBucket)
    /\ WF_hash_vars(scenario = "hash" /\ Hash!CallbackReturn(0))
    /\ WF_hash_vars(scenario = "hash" /\ Hash!ForeachReturn)

MCSpec ==
    MCInit /\ [][MCNext]_<<scenario, vars, ring_vars, map_vars, hash_vars, safe_vars>> /\ MCFairness

-----------------------------------------------------------------------------
\* TimerHash implements KeyMap.  Every entry is where hash_lookup looks for its
\* key and where hash_begin and hash_iter_next come by, across rehash and the
\* deletions of a callback; only the entry under the callback may have lost its
\* key, and it is not freed while hash_foreach has to go on from it.
\* hash_foreach hands over every entry once, unless the table grew.
TableIsMap ==
    /\ [](/\ Hash!TypeOK /\ Hash!LookupFindsKeys /\ Hash!IteratorVisitsAll
          /\ Hash!EmptiedIsCurrent /\ Hash!CurrentIsChained /\ Hash!ForeachVisitsEach)
    /\ Hash!ImplementsMap

\* ThreadPool, TimerMap, TimerHash: the worker catches up with what was stored,
\* but for one task for each lost increment of size, a periodic timer in the map
\* never stays expired, hash_foreach comes to its end.
WorkIsDone ==
    /\ EveryTaskRuns
    /\ PeriodicIsServed
    /\ Hash!ForeachEnds
=============================================================================
