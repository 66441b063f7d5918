------------------------------- MODULE RwRes -------------------------------
(***************************************************************************)
(* The read-write lock of fun_thread/resalloc.c: a pthread_rwlock and      *)
(* mtid, the thread that holds it for writing, which is set after the lock *)
(* is taken and cleared after it is given back, outside the lock.          *)
(* A thread holds the lock at most once, but the holder of the write lock  *)
(* may ask again: mtid is there to refuse it.                              *)
(***************************************************************************)
EXTENDS Naturals, FiniteSets

CONSTANTS
    Threads,
    NoThread,           \* 0 in the code
    DetectsDeadlock     \* whether the pthread library returns EDEADLK, as it may

RwAssumption ==
    /\ IsFiniteSet(Threads) /\ NoThread \notin Threads
    /\ DetectsDeadlock \in BOOLEAN

VARIABLES
    writer, readers,    \* pthread_rwlock_t
    mtid,
    pc,                 \* where each thread is
    hold,               \* what each thread believes to hold: "none", "R" or "W"
    refused             \* the thread's last request was answered -1

rw_vars == <<writer, readers, mtid, pc, hold, refused>>

RwInit ==
    /\ writer = NoThread /\ readers = {}
    /\ mtid = NoThread
    /\ pc = [t \in Threads |-> "idle"]
    /\ hold = [t \in Threads |-> "none"]
    /\ refused = [t \in Threads |-> FALSE]

Goto(t, place) == pc' = [pc EXCEPT ![t] = place]
Refuse(t) == Goto(t, "idle") /\ refused' = [refused EXCEPT ![t] = TRUE]

Request(t) == pc[t] = "idle" /\ hold[t] # "R"

----------------------------------------------------------------------------
\* rw_requestW: what the test of mtid finds is overwritten by the call that
\* follows it.
RequestW(t) ==
    /\ Request(t)
    /\ Goto(t, "wrlock")
    /\ refused' = [refused EXCEPT ![t] = FALSE]
    /\ UNCHANGED <<writer, readers, mtid, hold>>

\* pthread_rwlock_wrlock returns.
Wrlock(t) ==
    /\ pc[t] = "wrlock"
    /\ \/ /\ writer = NoThread /\ readers = {}
          /\ writer' = t
          /\ Goto(t, "owner") /\ UNCHANGED refused
       \/ /\ writer = t /\ DetectsDeadlock
          /\ Refuse(t) /\ UNCHANGED writer
    /\ UNCHANGED <<readers, mtid, hold>>

SetOwner(t) ==
    /\ pc[t] = "owner"
    /\ mtid' = t
    /\ hold' = [hold EXCEPT ![t] = "W"]
    /\ Goto(t, "idle")
    /\ UNCHANGED <<writer, readers, refused>>

\* rw_requestR up to the lock; the owner is refused.
RequestR(t) ==
    /\ Request(t)
    /\ IF mtid = t THEN Refuse(t)
       ELSE Goto(t, "rdlock") /\ refused' = [refused EXCEPT ![t] = FALSE]
    /\ UNCHANGED <<writer, readers, mtid, hold>>

\* pthread_rwlock_rdlock returns.
Rdlock(t) ==
    /\ pc[t] = "rdlock"
    /\ \/ /\ writer = NoThread
          /\ readers' = readers \cup {t} /\ hold' = [hold EXCEPT ![t] = "R"]
          /\ Goto(t, "idle") /\ UNCHANGED refused
       \/ /\ writer = t /\ DetectsDeadlock
          /\ Refuse(t) /\ UNCHANGED <<readers, hold>>
    /\ UNCHANGED <<writer, mtid>>

\* rw_tryW, which leaves mtid alone, and rw_tryR; a busy lock is refused.
TryW(t) ==
    /\ pc[t] = "idle" /\ hold[t] = "none"
    /\ writer = NoThread /\ readers = {}
    /\ writer' = t /\ hold' = [hold EXCEPT ![t] = "W"]
    /\ UNCHANGED <<readers, mtid, pc, refused>>

TryR(t) ==
    /\ pc[t] = "idle" /\ hold[t] = "none"
    /\ writer = NoThread
    /\ readers' = readers \cup {t} /\ hold' = [hold EXCEPT ![t] = "R"]
    /\ UNCHANGED <<writer, mtid, pc, refused>>

FaultyUnlock(t) ==
    /\ pc[t] = "idle" /\ hold[t] # "none"
    /\ writer' = NoThread /\ readers' = readers \ {t}
    /\ hold' = [hold EXCEPT ![t] = "none"] /\ refused' = [refused EXCEPT ![t] = FALSE]
    /\ UNCHANGED <<pc, mtid>>

\* rw_release: pthread_rwlock_unlock ...
Unlock(t) ==
    /\ pc[t] = "idle" /\ hold[t] # "none"
    /\ IF hold[t] = "W" THEN writer' = NoThread /\ UNCHANGED readers
       ELSE readers' = readers \ {t} /\ UNCHANGED writer
    /\ hold' = [hold EXCEPT ![t] = "none"] /\ refused' = [refused EXCEPT ![t] = FALSE]
    /\ Goto(t, "unlocked")
    /\ UNCHANGED mtid

\* ... then the test of mtid, and the store, each racing with the next owner.
TestOwner(t) ==
    /\ pc[t] = "unlocked"
    /\ Goto(t, IF mtid = t THEN "clear" ELSE "idle")
    /\ UNCHANGED <<writer, readers, mtid, hold, refused>>

ClearOwner(t) ==
    /\ pc[t] = "clear"
    /\ mtid' = NoThread
    /\ Goto(t, "idle")
    /\ UNCHANGED <<writer, readers, hold, refused>>

Step(t) ==
    \/ Wrlock(t) \/ SetOwner(t) \/ Rdlock(t) \/ Unlock(t) \/ TestOwner(t) \/ ClearOwner(t)

RwNext == \E t \in Threads : RequestW(t) \/ RequestR(t) \/ TryW(t) \/ TryR(t) \/ Step(t)

RwSpec == RwInit /\ [][RwNext]_rw_vars

----------------------------------------------------------------------------
\* The type of the state, with the lock as the threads believe it to be.
RwTypeOK ==
    /\ pc \in [Threads -> {"idle", "wrlock", "rdlock", "owner", "unlocked", "clear"}]
    /\ mtid \in Threads \cup {NoThread}
    /\ readers = {t \in Threads : hold[t] = "R"}
    /\ \A t \in Threads : writer = t <=> (hold[t] = "W" \/ pc[t] = "owner")
    /\ writer # NoThread => readers = {}

\* mtid, written outside the lock by two threads at once, never names a thread
\* that neither holds the write lock nor is just giving it back.
OwnerHolds ==
    \A t \in Threads : mtid = t => writer = t \/ pc[t] \in {"unlocked", "clear"}

\* A request is refused only to the holder of the write lock.
RefusedOnlyOwner == \A t \in Threads : refused[t] => hold[t] = "W"

\* The lock and its owner agree: mtid, written outside the lock, names no thread
\* that neither holds the write lock nor is just giving it back, so that
\* rw_requestR and rw_requestW refuse only the holder of the lock.
LockOK == RwTypeOK /\ OwnerHolds /\ RefusedOnlyOwner
=============================================================================
