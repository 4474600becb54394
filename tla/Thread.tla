------------------------------- MODULE Thread -------------------------------
(***************************************************************************)
(* Thread on POSIX (src/thread.cpp, src/platform/thread_posix.hpp) and the *)
(* two ThreadEvents it is built on (src/platform/threadevent_posix.hpp).   *)
(* The pthread is created with the object and waits for mStartEvent; one   *)
(* other thread, the owner, calls start, join and the destructor; any      *)
(* thread may call requestAbort.  A ThreadEvent is a flag under a mutex    *)
(* with a condition variable, and wait does three things to mind: the      *)
(* timed wait reads the flag before it takes the mutex, it does not read   *)
(* it again under the mutex, and neither wait looks again after waking.    *)
(***************************************************************************)
CONSTANTS Threads,
          Careless   \* the threads used beyond the tests' discipline: requestAbort
                     \* before run is entered, delete of an object never started,
                     \* a platform whose waits for mStartEvent end unsignalled

VARIABLES mStatus, mAborting,
          started, finished,  \* m_set of mStartEvent and of mFinishEvent
          object,             \* "whole", "base" (derived part gone) or "deleted"
          body,               \* where the pthread is in exec
          owner,              \* where the owner is in a call on the object
          sawEnd              \* history: the timed join began when the pthread had ended

threadVars == <<mStatus, mAborting, started, finished, object, body, owner, sawEnd>>

Init ==
  /\ mStatus = [t \in Threads |-> "READY"]
  /\ mAborting = [t \in Threads |-> FALSE]
  /\ started = [t \in Threads |-> FALSE]
  /\ finished = [t \in Threads |-> FALSE]
  /\ object = [t \in Threads |-> "whole"]
  /\ body = [t \in Threads |-> "created"]
  /\ owner = [t \in Threads |-> "idle"]
  /\ sawEnd = [t \in Threads |-> FALSE]

Body(t, from, to) == body[t] = from /\ body' = [body EXCEPT ![t] = to]
Owner(t, from, to) == owner[t] = from /\ owner' = [owner EXCEPT ![t] = to]
-----------------------------------------------------------------------------
(* The pthread: exec.                                                      *)

(* mStartEvent->wait(): the flag is read under the mutex.                  *)
AwaitStart(t) ==
  /\ Body(t, "created", IF started[t] THEN "awake" ELSE "blocked")
  /\ UNCHANGED <<mStatus, mAborting, started, finished, object, owner, sawEnd>>

(* A wait for a condition may end unsignalled.  For mFinishEvent that only *)
(* means that the owner goes on to pthread_join.                           *)
WakeSpuriously(t) ==
  /\ object[t] # "deleted"
  /\ \/ t \in Careless /\ Body(t, "blocked", "awake") /\ UNCHANGED owner
     \/ Owner(t, "waiting", "joining") /\ UNCHANGED body
  /\ UNCHANGED <<mStatus, mAborting, started, finished, object, sawEnd>>

\* Defect: the test of mAborting the wrong way round.
EnterRun_Inverted(t) ==
  /\ Body(t, "awake", IF mAborting[t] THEN "run" ELSE "ended")
  /\ UNCHANGED <<mStatus, mAborting, started, finished, object, owner, sawEnd>>

(* An abort request that is already there skips run, and everything after  *)
(* it: neither mFinishEvent nor mStatus is touched.                        *)
EnterRun(t) ==
  /\ Body(t, "awake", IF mAborting[t] THEN "ended" ELSE "run")
  /\ UNCHANGED <<mStatus, mAborting, started, finished, object, owner, sawEnd>>

ReturnFromRun(t) ==
  /\ Body(t, "run", "returned")
  /\ UNCHANGED <<mStatus, mAborting, started, finished, object, owner, sawEnd>>

(* pthread_exit inside run: nothing of exec behind it happens.             *)
ExitInRun(t) ==
  /\ Body(t, "run", "ended")
  /\ UNCHANGED <<mStatus, mAborting, started, finished, object, owner, sawEnd>>

\* Defect: the event is signalled without its flag.
SetFinished_SignalOnly(t) ==
  /\ Body(t, "returned", "signalled")
  /\ owner' = [owner EXCEPT ![t] = IF @ = "waiting" THEN "joining" ELSE @]
  /\ UNCHANGED <<mStatus, mAborting, started, finished, object, sawEnd>>

(* mFinishEvent->set() wakes the owner if it already waits.                *)
SetFinished(t) ==
  /\ Body(t, "returned", "signalled")
  /\ finished' = [finished EXCEPT ![t] = TRUE]
  /\ owner' = [owner EXCEPT ![t] = IF @ = "waiting" THEN "joining" ELSE @]
  /\ UNCHANGED <<mStatus, mAborting, started, object, sawEnd>>

MarkFinished(t) ==
  /\ Body(t, "signalled", "ended")
  /\ mStatus' = [mStatus EXCEPT ![t] = "FINISHED"]
  /\ UNCHANGED <<mAborting, started, finished, object, owner, sawEnd>>
-----------------------------------------------------------------------------
(* The owner.  start, called once: the status, then the event.             *)
Start(t) ==
  /\ object[t] = "whole" /\ mStatus[t] = "READY"
  /\ Owner(t, "idle", "starting")
  /\ mStatus' = [mStatus EXCEPT ![t] = "RUNNING"]
  /\ UNCHANGED <<mAborting, started, finished, object, body, sawEnd>>

SetStarted(t) ==
  /\ Owner(t, "starting", "idle")
  /\ started' = [started EXCEPT ![t] = TRUE]
  /\ body' = [body EXCEPT ![t] = IF @ = "blocked" THEN "awake" ELSE @]
  /\ UNCHANGED <<mStatus, mAborting, finished, object, sawEnd>>

(* join(-1) goes straight to pthread_join.  (On READY and JOINED objects   *)
(* both joins return at once and change nothing.)                          *)
Joinable(t) == object[t] = "whole" /\ mStatus[t] \in {"RUNNING", "FINISHED"}

JoinForever(t) ==
  /\ Joinable(t)
  /\ Owner(t, "idle", "joining")
  /\ UNCHANGED <<mStatus, mAborting, started, finished, object, body, sawEnd>>

\* Defect: the timed wait does not look at the flag at all.
TimedJoin_IgnoresFlag(t) ==
  /\ Joinable(t)
  /\ Owner(t, "idle", "not set")
  /\ sawEnd' = [sawEnd EXCEPT ![t] = body[t] = "ended"]
  /\ UNCHANGED <<mStatus, mAborting, started, finished, object, body>>

(* join(timeout): mFinishEvent->wait(timeout) reads the flag unlocked ...  *)
TimedJoin(t) ==
  /\ Joinable(t)
  /\ Owner(t, "idle", IF finished[t] THEN "joining" ELSE "not set")
  /\ sawEnd' = [sawEnd EXCEPT ![t] = body[t] = "ended"]
  /\ UNCHANGED <<mStatus, mAborting, started, finished, object, body>>

(* ... and sleeps on the condition without another look at it.             *)
WaitFinished(t) ==
  /\ Owner(t, "not set", "waiting")
  /\ UNCHANGED <<mStatus, mAborting, started, finished, object, body, sawEnd>>

(* join returns FALSE.                                                     *)
TimeOut(t) ==
  /\ Owner(t, "waiting", "timed out")
  /\ UNCHANGED <<mStatus, mAborting, started, finished, object, body, sawEnd>>

GiveUp(t) ==
  /\ Owner(t, "timed out", "idle")
  /\ UNCHANGED <<mStatus, mAborting, started, finished, object, body, sawEnd>>

\* Defect: no pthread_join.
Joined_NoWait(t) ==
  /\ Owner(t, "joining", "idle")
  /\ mStatus' = [mStatus EXCEPT ![t] = "JOINED"]
  /\ UNCHANGED <<mAborting, started, finished, object, body, sawEnd>>

(* pthread_join returns when exec has.                                     *)
Joined(t) ==
  /\ body[t] = "ended"
  /\ Owner(t, "joining", "idle")
  /\ mStatus' = [mStatus EXCEPT ![t] = "JOINED"]
  /\ UNCHANGED <<mAborting, started, finished, object, body, sawEnd>>

(* delete: the destructor of the derived class ends first, then ~Thread    *)
(* deletes the implementation, whose destructor asks to abort and joins.   *)
Delete(t) ==
  /\ object[t] = "whole" /\ owner[t] = "idle"
  /\ mStatus[t] = "READY" => t \in Careless
  /\ object' = [object EXCEPT ![t] = "base"]
  /\ UNCHANGED <<mStatus, mAborting, started, finished, body, owner, sawEnd>>

\* Defect: the destructor asks to abort and does not join.
Destroy_NoJoin(t) ==
  /\ object[t] = "base" /\ owner[t] = "idle"
  /\ mAborting' = [mAborting EXCEPT ![t] = @ \/ mStatus[t] \in {"READY", "RUNNING"}]
  /\ object' = [object EXCEPT ![t] = "deleted"]
  /\ UNCHANGED <<mStatus, started, finished, body, owner, sawEnd>>

Destroy(t) ==
  /\ object[t] = "base" /\ owner[t] = "idle"
  /\ mAborting' = [mAborting EXCEPT ![t] = @ \/ mStatus[t] \in {"READY", "RUNNING"}]
  /\ \/ /\ mStatus[t] \in {"RUNNING", "FINISHED"}
        /\ owner' = [owner EXCEPT ![t] = "joining"]
        /\ UNCHANGED object
     \/ /\ mStatus[t] \in {"READY", "JOINED"}
        /\ object' = [object EXCEPT ![t] = "deleted"]
        /\ UNCHANGED owner
  /\ UNCHANGED <<mStatus, started, finished, body, sawEnd>>

RequestAbort(t) ==
  /\ object[t] = "whole"
  /\ body[t] \in {"created", "blocked", "awake"} => t \in Careless
  /\ mAborting' = [mAborting EXCEPT ![t] = TRUE]
  /\ UNCHANGED <<mStatus, started, finished, object, body, owner, sawEnd>>
-----------------------------------------------------------------------------
PthreadStep(t) == \/ AwaitStart(t) \/ EnterRun(t)
                  \/ SetFinished(t) \/ MarkFinished(t)
OwnerReturns(t) == \/ SetStarted(t) \/ WaitFinished(t) \/ TimeOut(t) \/ GiveUp(t)
                   \/ Joined(t) \/ Destroy(t)
OwnerCalls(t) == \/ Start(t) \/ JoinForever(t) \/ TimedJoin(t)
                 \/ Delete(t)

Next == \E t \in Threads :
          \/ PthreadStep(t) \/ ReturnFromRun(t) \/ ExitInRun(t) \/ WakeSpuriously(t)
          \/ OwnerReturns(t) \/ OwnerCalls(t) \/ RequestAbort(t)

Spec == Init /\ [][Next]_threadVars
-----------------------------------------------------------------------------
TypeOK ==
  /\ mStatus \in [Threads -> {"READY", "RUNNING", "FINISHED", "JOINED"}]
  /\ mAborting \in [Threads -> BOOLEAN]
  /\ started \in [Threads -> BOOLEAN]
  /\ finished \in [Threads -> BOOLEAN]
  /\ object \in [Threads -> {"whole", "base", "deleted"}]
  /\ body \in [Threads -> {"created", "blocked", "awake", "run", "returned",
                           "signalled", "ended"}]
  /\ owner \in [Threads -> {"idle", "starting", "joining", "not set", "waiting",
                            "timed out"}]
  /\ sawEnd \in [Threads -> BOOLEAN]

(* A pthread that still has steps of exec ahead finds its object: every    *)
(* one of them reads or writes a field of it (the destructor of XpfThread  *)
(* has to join before it deletes the events).                              *)
NoUseAfterDelete ==
  \A t \in Threads \ Careless : object[t] = "deleted" => body[t] = "ended"

(* The status goes READY, RUNNING, FINISHED, JOINED and never back.        *)
(* MarkFinished writes it after the event that lets the owner go on: that  *)
(* write must not land on a JOINED object.                                 *)
StatusGoesForward ==
  [][\A t \in Threads \ Careless : mStatus'[t] = mStatus[t] \/
       <<mStatus[t], mStatus'[t]>> \in
          {<<"READY", "RUNNING">>, <<"RUNNING", "FINISHED">>,
           <<"RUNNING", "JOINED">>, <<"FINISHED", "JOINED">>}]_mStatus

(* A timed join that began when the pthread had ended does not time out:   *)
(* "return false on timeout (and this thread is still running)".           *)
FalseMeansRunning == \A t \in Threads : owner[t] = "timed out" => ~sawEnd[t]
=============================================================================
