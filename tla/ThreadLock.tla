----------------------------- MODULE ThreadLock -----------------------------
(***************************************************************************)
(* ThreadLock on POSIX (src/platform/threadlock_posix.hpp): a recursive    *)
(* mutex, and mOwner, a plain field that lock, tryLock and unlock write    *)
(* next to the call on the mutex.  lock writes it when the mutex is        *)
(* already held; unlock clears it when the mutex has already been given    *)
(* up, and clears it even if the caller still holds an outer level.        *)
(* isLocked and getOwner read the field alone.                             *)
(***************************************************************************)
EXTENDS Naturals

CONSTANTS Threads,     \* the threads that use the lock
          MaxDepth,    \* bound: levels a thread locks
          NoThread     \* INVALID_THREAD_ID

VARIABLES holder,      \* the thread that has the mutex
          depth,       \* how many levels of it
          mOwner,
          inLock       \* thread -> where it is with this lock

lockVars == <<holder, depth, mOwner, inLock>>

Init == /\ holder = NoThread
        /\ depth = 0
        /\ mOwner = NoThread
        /\ inLock = [t \in Threads |-> "outside"]

\* Defect: a mutex that keeps nobody out.
Acquire_Anyone(t) ==
  /\ inLock[t] \in {"outside", "inside"}
  /\ depth < MaxDepth
  /\ holder' = t
  /\ depth' = depth + 1
  /\ inLock' = [inLock EXCEPT ![t] = "acquired"]
  /\ UNCHANGED mOwner

(* The call on the mutex that succeeds.  The mutex is recursive: the       *)
(* thread that holds it gets another level.                                *)
Acquire(t) ==
  /\ inLock[t] \in {"outside", "inside"}
  /\ holder \in {NoThread, t}
  /\ depth < MaxDepth
  /\ holder' = t
  /\ depth' = depth + 1
  /\ inLock' = [inLock EXCEPT ![t] = "acquired"]
  /\ UNCHANGED mOwner

\* Defect: a tryLock that fails notes the owner as well.
NoteOwner_EvenFailed(t) ==
  /\ \/ inLock[t] = "acquired"
     \/ inLock[t] = "outside" /\ holder # NoThread
  /\ mOwner' = t
  /\ inLock' = [inLock EXCEPT ![t] = IF @ = "acquired" THEN "inside" ELSE @]
  /\ UNCHANGED <<holder, depth>>

(* lock and a successful tryLock note the owner afterwards.                *)
NoteOwner(t) ==
  /\ inLock[t] = "acquired"
  /\ mOwner' = t
  /\ inLock' = [inLock EXCEPT ![t] = "inside"]
  /\ UNCHANGED <<holder, depth>>

(* unlock gives up one level of the mutex ...                              *)
Release(t) ==
  /\ inLock[t] = "inside"
  /\ depth' = depth - 1
  /\ holder' = IF depth = 1 THEN NoThread ELSE holder
  /\ inLock' = [inLock EXCEPT ![t] = "released"]
  /\ UNCHANGED mOwner

\* Defect: unlock leaves mOwner.
ForgetOwner_Never(t) ==
  /\ inLock[t] = "released"
  /\ inLock' = [inLock EXCEPT ![t] = IF holder = t THEN "inside" ELSE "outside"]
  /\ UNCHANGED <<holder, depth, mOwner>>

(* ... and then forgets the owner, whoever that is by now.                 *)
ForgetOwner(t) ==
  /\ inLock[t] = "released"
  /\ mOwner' = NoThread
  /\ inLock' = [inLock EXCEPT ![t] = IF holder = t THEN "inside" ELSE "outside"]
  /\ UNCHANGED <<holder, depth>>

Next == \E t \in Threads :
          Acquire(t) \/ NoteOwner(t) \/ Release(t) \/ ForgetOwner(t)

Spec == Init /\ [][Next]_lockVars
-----------------------------------------------------------------------------
TypeOK == /\ holder \in Threads \cup {NoThread}
          /\ depth \in 0 .. MaxDepth
          /\ mOwner \in Threads \cup {NoThread}
          /\ inLock \in [Threads -> {"outside", "acquired", "inside", "released"}]

(* A thread that asks getOwner outside any call on the lock, and finds     *)
(* itself, does hold it (mOwner is written in lock and cleared in unlock). *)
OwnerIsHolder ==
  \A t \in Threads : mOwner = t /\ inLock[t] # "released" => holder = t

(* Once every thread has left, isLocked says so: no late write of mOwner   *)
(* by lock survives the unlock of the same thread.                         *)
QuietMeansUnlocked ==
  (\A t \in Threads : inLock[t] = "outside") => mOwner = NoThread /\ holder = NoThread

=============================================================================
