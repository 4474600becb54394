------------------------------ MODULE Threading ------------------------------
(***************************************************************************)
(* Threads at work, as tests/threading/threading_test.cpp puts them: each  *)
(* run() adds to a shared sum under a ScopedThreadLock, and the owner      *)
(* polls with join(0) or joins for good.  Or run() works with coroutines,  *)
(* as tests/coroutine does on its one thread, and may end the thread under *)
(* the Thread object.  Composes Thread, ThreadLock and Coroutine: a thread *)
(* is at its lock or in its coroutines only while its object is in run().  *)
(***************************************************************************)
EXTENDS Naturals, FiniteSets

CONSTANTS Threads, NoThread, MaxDepth, Careless,
          Tasks,     \* what run() does: thread -> "sum" or "coroutines"
          Contexts, None

ASSUME ThreadingAssumption ==
  /\ NoThread \notin Threads
  /\ IsFiniteSet(Threads)
  /\ MaxDepth \in Nat \ {0}
  /\ Careless \subseteq Threads

VARIABLES mStatus, mAborting, started, finished, object, body, owner, sawEnd,
          holder, depth, mOwner, inLock,
          inited, key, created, specific, heap, running, at,
          task,    \* one of Tasks
          sum,     \* _g_hot.sum
          work,    \* thread -> "to do", "loaded" or "added"
          loaded   \* thread -> the sum it read

T == INSTANCE Thread
L == INSTANCE ThreadLock
C == INSTANCE Coroutine

ASSUME CoroutineAssumption == C!NoneIsNull

threadState == <<mStatus, mAborting, started, finished, object, body, owner, sawEnd>>
lockState == <<holder, depth, mOwner, inLock>>
coroutineState == <<inited, key, created, specific, heap, running, at>>
client == <<task, sum, work, loaded>>
vars == <<threadState, lockState, coroutineState, client>>

Init == /\ T!Init /\ L!Init /\ C!Init
        /\ task \in Tasks
        /\ sum = 0
        /\ work = [t \in Threads |-> "to do"]
        /\ loaded = [t \in Threads |-> 0]
-----------------------------------------------------------------------------
(* run(): the lock, one or more levels deep, is given up after the sum has *)
(* been read and written.  A tryLock that fails changes nothing.           *)
TakeLock(t) == /\ body[t] = "run" /\ task[t] = "sum" /\ work[t] = "to do"
               /\ L!Acquire(t)
               /\ UNCHANGED <<threadState, coroutineState, client>>

NoteOwner(t) == L!NoteOwner(t) /\ UNCHANGED <<threadState, coroutineState, client>>

LoadSum(t) == /\ inLock[t] = "inside" /\ work[t] = "to do"
              /\ work' = [work EXCEPT ![t] = "loaded"]
              /\ loaded' = [loaded EXCEPT ![t] = sum]
              /\ UNCHANGED <<threadState, lockState, coroutineState, task, sum>>

StoreSum(t) == /\ work[t] = "loaded"
               /\ sum' = loaded[t] + 1
               /\ work' = [work EXCEPT ![t] = "added"]
               /\ UNCHANGED <<threadState, lockState, coroutineState, task, loaded>>

LeaveLock(t) == /\ work[t] = "added"
                /\ L!Release(t)
                /\ UNCHANGED <<threadState, coroutineState, client>>

ForgetOwner(t) == L!ForgetOwner(t) /\ UNCHANGED <<threadState, coroutineState, client>>

ReturnFromRun(t) == /\ work[t] = "added" /\ inLock[t] = "outside"
                    /\ T!ReturnFromRun(t)
                    /\ UNCHANGED <<lockState, coroutineState, client>>

RunStep(t) == \/ TakeLock(t) \/ NoteOwner(t) \/ LoadSum(t) \/ StoreSum(t)
              \/ LeaveLock(t) \/ ForgetOwner(t) \/ ReturnFromRun(t)

(* run() of the other kind.  What ends the thread there, pthread_exit or   *)
(* the return of a subcoroutine, ends exec as well.                        *)
CoroutineStep(t) ==
  /\ body[t] = "run" /\ task[t] = "coroutines"
  /\ \/ C!CoroutineStep(t) /\ UNCHANGED threadState
     \/ C!Leave(t, "returned") /\ T!ReturnFromRun(t)
     \/ (C!Leave(t, "exited") \/ C!Exit(t)) /\ T!ExitInRun(t)
  /\ UNCHANGED <<lockState, client>>

(* The owner of a thread with coroutines lets it run to its end before it  *)
(* polls.                                                                  *)
LeavesAlone(t) == task[t] = "coroutines" /\ started[t] /\ body[t] \in {"created", "blocked", "awake", "run"}

ThreadStep(t) == /\ \/ T!PthreadStep(t) \/ T!OwnerReturns(t)
                    \/ T!OwnerCalls(t) /\ ~LeavesAlone(t)
                    \/ T!RequestAbort(t) /\ task[t] = "sum"
                    \/ T!WakeSpuriously(t)
                 /\ UNCHANGED <<lockState, coroutineState, client>>

(* The program ends when every object has been deleted.                    *)
Quit == (\A t \in Threads : object[t] = "deleted") /\ UNCHANGED vars

Next == (\E t \in Threads : RunStep(t) \/ CoroutineStep(t) \/ ThreadStep(t)) \/ Quit

(* The scheduler runs every thread that can run; a condition wait with a   *)
(* timeout ends; the owner polls until its join succeeds.                  *)
Fairness ==
  \A t \in Threads :
    /\ WF_vars(TakeLock(t))
    /\ WF_vars(RunStep(t) /\ ~TakeLock(t))
    /\ WF_vars(T!PthreadStep(t) /\ ThreadStep(t))
    /\ WF_vars(T!OwnerReturns(t) /\ ThreadStep(t))
    /\ WF_vars(T!TimedJoin(t) /\ ThreadStep(t))

Spec == Init /\ [][Next]_vars /\ Fairness
-----------------------------------------------------------------------------
(* No addition is lost: "Expecting matched sum" of the threading test, at  *)
(* every moment and not only at its end.                                   *)
SumIsExact == sum = Cardinality({t \in Threads : work[t] = "added"})

(* Its coroutines ended the thread inside run().                           *)
Exited(t) == at[t] \in {"ended", "exited"}

(* An object that reads JOINED and was not asked to abort has been through *)
(* the whole of run(), its lock given up and no coroutine left at work.    *)
JoinedDidItsWork ==
  \A t \in Threads : mStatus[t] = "JOINED" /\ ~mAborting[t] =>
    /\ task[t] = "sum" => work[t] = "added" /\ inLock[t] = "outside"
    /\ task[t] = "coroutines" => running[t] = None /\ (at[t] = "returned" \/ Exited(t))

NoUseAfterDelete == T!NoUseAfterDelete
FalseMeansRunning == T!FalseMeansRunning

(* ... it does as far as no abort request came before run was entered and  *)
(* no coroutine has ended the thread inside it.                            *)
CarefulFalseMeansRunning ==
  \A t \in Threads \ Careless : owner[t] = "timed out" => ~sawEnd[t] \/ Exited(t)

StatusGoesForward == T!StatusGoesForward
OwnerIsHolder == L!OwnerIsHolder
QuietMeansUnlocked == L!QuietMeansUnlocked
CurrentIsRunning == C!CurrentIsRunning
SlotsAreMemory == C!SlotsAreMemory

(* A started thread that is not told to abort is joined in the end by an   *)
(* owner that polls with a timed join, although the wait may miss the      *)
(* signal of mFinishEvent every time it gets to sleep.                     *)
StartedIsJoined ==
  \A t \in Threads \ Careless : started[t] /\ task[t] = "sum" ~> (mStatus[t] = "JOINED" \/ mAborting[t])
=============================================================================
