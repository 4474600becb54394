--------------------------- MODULE Threading_proofs ---------------------------
(***************************************************************************)
(* Theorems about Threading, for every number of threads and every depth   *)
(* of the lock: what the owner field of ThreadLock says, that no addition  *)
(* to the shared sum is lost, that a Thread is deleted and joined behind   *)
(* its end, and that the managers of the coroutines tell the truth.        *)
(***************************************************************************)
EXTENDS Threading, FiniteSetTheorems, TLAPS

\* The lock: a thread past the mutex holds it until it gives the last level up,
\* and mOwner names nobody who is outside.
LockInv ==
    /\ L!TypeOK
    /\ holder = NoThread <=> depth = 0
    /\ \A t \in Threads : inLock[t] \in {"acquired", "inside"} => holder = t
    /\ \A t \in Threads : inLock[t] = "outside" => holder # t /\ mOwner # t

\* The sum: what a thread has read is still there when it writes.
SumInv ==
    /\ work \in [Threads -> {"to do", "loaded", "added"}]
    /\ loaded \in [Threads -> Nat]
    /\ sum \in Nat
    /\ \A t \in Threads : work[t] = "loaded" => inLock[t] = "inside" /\ loaded[t] = sum

-----------------------------------------------------------------------------
(* The lock *)

LEMMA LockInit == Init => LockInv
<1> SUFFICES ASSUME L!Init PROVE LockInv
    BY DEF Init
<1>1. L!TypeOK
    BY ThreadingAssumption DEF L!Init, L!TypeOK
<1>2. holder = NoThread <=> depth = 0
    BY DEF L!Init
<1>3. ASSUME NEW t \in Threads
      PROVE  inLock[t] = "outside" /\ holder # t /\ mOwner # t
    BY <1>3, ThreadingAssumption DEF L!Init
<1> QED
    BY <1>1, <1>2, <1>3 DEF LockInv

LEMMA LockAcquire ==
    ASSUME LockInv, NEW t \in Threads, L!Acquire(t)
    PROVE  LockInv'
<1>1. L!TypeOK'
    BY ThreadingAssumption DEF LockInv, L!TypeOK, L!Acquire
<1>2. (holder = NoThread <=> depth = 0)'
    BY ThreadingAssumption DEF LockInv, L!TypeOK, L!Acquire
<1>3. ASSUME NEW u \in Threads
      PROVE  /\ (inLock[u] \in {"acquired", "inside"} => holder = u)'
             /\ (inLock[u] = "outside" => holder # u /\ mOwner # u)'
    BY <1>3, ThreadingAssumption DEF LockInv, L!TypeOK, L!Acquire
<1> QED
    BY <1>1, <1>2, <1>3 DEF LockInv

LEMMA LockNoteOwner ==
    ASSUME LockInv, NEW t \in Threads, L!NoteOwner(t)
    PROVE  LockInv'
<1>1. L!TypeOK'
    BY DEF LockInv, L!TypeOK, L!NoteOwner
<1>2. (holder = NoThread <=> depth = 0)'
    BY DEF LockInv, L!NoteOwner
<1>3. ASSUME NEW u \in Threads
      PROVE  /\ (inLock[u] \in {"acquired", "inside"} => holder = u)'
             /\ (inLock[u] = "outside" => holder # u /\ mOwner # u)'
    BY <1>3 DEF LockInv, L!TypeOK, L!NoteOwner
<1> QED
    BY <1>1, <1>2, <1>3 DEF LockInv

LEMMA LockRelease ==
    ASSUME LockInv, NEW t \in Threads, L!Release(t)
    PROVE  LockInv'
<1>1. holder = t /\ depth \in 1 .. MaxDepth
    BY ThreadingAssumption DEF LockInv, L!TypeOK, L!Release
<1>2. L!TypeOK'
    BY <1>1, ThreadingAssumption DEF LockInv, L!TypeOK, L!Release
<1>3. (holder = NoThread <=> depth = 0)'
    BY <1>1, ThreadingAssumption DEF L!Release
<1>4. ASSUME NEW u \in Threads
      PROVE  /\ (inLock[u] \in {"acquired", "inside"} => holder = u)'
             /\ (inLock[u] = "outside" => holder # u /\ mOwner # u)'
    BY <1>1, <1>4, ThreadingAssumption DEF LockInv, L!TypeOK, L!Release
<1> QED
    BY <1>2, <1>3, <1>4 DEF LockInv

LEMMA LockForgetOwner ==
    ASSUME LockInv, NEW t \in Threads, L!ForgetOwner(t)
    PROVE  LockInv'
<1>1. L!TypeOK'
    BY DEF LockInv, L!TypeOK, L!ForgetOwner
<1>2. (holder = NoThread <=> depth = 0)'
    BY DEF LockInv, L!ForgetOwner
<1>3. ASSUME NEW u \in Threads
      PROVE  /\ (inLock[u] \in {"acquired", "inside"} => holder = u)'
             /\ (inLock[u] = "outside" => holder # u /\ mOwner # u)'
    BY <1>3, ThreadingAssumption DEF LockInv, L!TypeOK, L!ForgetOwner
<1> QED
    BY <1>1, <1>2, <1>3 DEF LockInv

\* Whatever a thread does elsewhere leaves the lock alone.
LEMMA LockFrame == LockInv /\ UNCHANGED lockState => LockInv'
BY DEF lockState, LockInv, L!TypeOK

LEMMA LockNext == LockInv /\ [Next]_vars => LockInv'
<1> SUFFICES ASSUME LockInv, [Next]_vars PROVE LockInv'
    OBVIOUS
<1>1. ASSUME NEW t \in Threads, RunStep(t) PROVE LockInv'
  <2>1. CASE TakeLock(t)
      BY <2>1, LockAcquire DEF TakeLock
  <2>2. CASE NoteOwner(t)
      BY <2>2, LockNoteOwner DEF NoteOwner
  <2>3. CASE LeaveLock(t)
      BY <2>3, LockRelease DEF LeaveLock
  <2>4. CASE ForgetOwner(t)
      BY <2>4, LockForgetOwner DEF ForgetOwner
  <2>5. CASE LoadSum(t) \/ StoreSum(t) \/ ReturnFromRun(t)
      BY <2>5, LockFrame DEF LoadSum, StoreSum, ReturnFromRun
  <2> QED
      BY <1>1, <2>1, <2>2, <2>3, <2>4, <2>5 DEF RunStep
<1>2. ASSUME NEW t \in Threads, CoroutineStep(t) \/ ThreadStep(t) PROVE LockInv'
    BY <1>2, LockFrame DEF CoroutineStep, ThreadStep
<1>3. CASE Quit \/ UNCHANGED vars
    BY <1>3, LockFrame DEF Quit, vars
<1> QED
    BY <1>1, <1>2, <1>3 DEF Next

LEMMA LockCorrect == Spec => []LockInv
BY LockInit, LockNext, PTL DEF Spec

\* A thread that asks getOwner outside any call on the lock, and finds itself,
\* holds the mutex, although mOwner is written and cleared outside it.
THEOREM OwnerCorrect == Spec => []OwnerIsHolder
<1>1. LockInv => OwnerIsHolder
    BY DEF LockInv, L!TypeOK, OwnerIsHolder, L!OwnerIsHolder
<1> QED
    BY <1>1, LockCorrect, PTL

\* When every thread has left the lock, isLocked says so: the late write of mOwner in
\* lock does not survive the unlock of the same thread.
THEOREM QuietCorrect == Spec => []QuietMeansUnlocked
<1>1. LockInv => QuietMeansUnlocked
    BY DEF LockInv, L!TypeOK, QuietMeansUnlocked, L!QuietMeansUnlocked
<1> QED
    BY <1>1, LockCorrect, PTL

-----------------------------------------------------------------------------
(* The shared sum *)

Added == {t \in Threads : work[t] = "added"}

LEMMA AddedIsFinite == IsFiniteSet(Added)
BY ThreadingAssumption, FS_Subset DEF Added

LEMMA SumInit == Init => SumInv /\ SumIsExact
<1> SUFFICES ASSUME Init PROVE SumInv /\ SumIsExact
    OBVIOUS
<1>1. SumInv
    BY DEF Init, SumInv
<1>2. Added = {} /\ sum = 0
    BY DEF Init, Added
<1> QED
    BY <1>1, <1>2, FS_EmptySet DEF SumIsExact, Added

\* A thread inside the lock reads: nobody writes until it has written.
LEMMA SumLoad ==
    ASSUME LockInv, SumInv, SumIsExact, NEW t \in Threads, LoadSum(t)
    PROVE  SumInv' /\ SumIsExact'
<1>1. work' = [work EXCEPT ![t] = "loaded"] /\ loaded' = [loaded EXCEPT ![t] = sum]
    BY DEF LoadSum
<1>2. sum' = sum /\ inLock' = inLock /\ inLock[t] = "inside" /\ work[t] = "to do"
    BY DEF LoadSum, lockState
<1>3. SumInv'
    BY <1>1, <1>2 DEF SumInv
<1>4. Added' = Added
    BY <1>1, <1>2 DEF SumInv, Added
<1> QED
    BY <1>2, <1>3, <1>4 DEF SumIsExact, Added

\* The one that writes is the only one that has read.
LEMMA SumStore ==
    ASSUME LockInv, SumInv, SumIsExact, NEW t \in Threads, StoreSum(t)
    PROVE  SumInv' /\ SumIsExact'
<1>1. work' = [work EXCEPT ![t] = "added"] /\ loaded' = loaded /\ inLock' = inLock
    BY DEF StoreSum, lockState
<1>2. work[t] = "loaded" /\ loaded[t] = sum /\ inLock[t] = "inside" /\ sum' = sum + 1
    BY DEF StoreSum, SumInv
<1>3. ASSUME NEW u \in Threads, u # t PROVE work[u] # "loaded"
    BY <1>2, <1>3 DEF SumInv, LockInv
<1>4. SumInv'
  <2>1. work' \in [Threads -> {"to do", "loaded", "added"}]
      BY <1>1 DEF SumInv
  <2>2. loaded' \in [Threads -> Nat]
      BY <1>1 DEF SumInv
  <2>3. sum' \in Nat
    <3>1. sum \in Nat
        BY DEF SumInv
    <3> QED
        BY <1>2, <3>1
  <2>4. ASSUME NEW u \in Threads PROVE work'[u] # "loaded"
      BY <1>1, <1>3 DEF SumInv
  <2> QED
      BY <2>1, <2>2, <2>3, <2>4 DEF SumInv
<1>5. Added' = Added \union {t} /\ t \notin Added
    BY <1>1, <1>2 DEF SumInv, Added
<1>6. Cardinality(Added') = Cardinality(Added) + 1
    BY <1>5, AddedIsFinite, FS_AddElement
<1> QED
    BY <1>2, <1>4, <1>6 DEF SumIsExact, Added

\* A thread that has not read moves about the lock.
LEMMA SumLock ==
    ASSUME SumInv, SumIsExact, NEW t \in Threads, UNCHANGED client,
           work[t] # "loaded",
           \A u \in Threads \ {t} : inLock'[u] = inLock[u]
    PROVE  SumInv' /\ SumIsExact'
<1>1. work' = work /\ sum' = sum /\ loaded' = loaded
    BY DEF client
<1>2. SumInv'
    BY <1>1 DEF SumInv
<1>3. SumIsExact'
    BY <1>1 DEF SumIsExact
<1> QED
    BY <1>2, <1>3

\* What happens outside the lock and the sum leaves both alone.
LEMMA SumFrame ==
    ASSUME SumInv, SumIsExact, UNCHANGED <<lockState, client>>
    PROVE  SumInv' /\ SumIsExact'
<1>1. inLock' = inLock /\ work' = work /\ sum' = sum /\ loaded' = loaded
    BY DEF lockState, client
<1> QED
    BY <1>1 DEF SumInv, SumIsExact

LEMMA SumNext ==
    ASSUME LockInv, SumInv, SumIsExact, [Next]_vars
    PROVE  SumInv' /\ SumIsExact'
<1>1. ASSUME NEW t \in Threads, RunStep(t) PROVE SumInv' /\ SumIsExact'
  <2>1. CASE TakeLock(t)
    <3>1. UNCHANGED client /\ work[t] # "loaded"
        BY <2>1 DEF TakeLock
    <3>2. \A u \in Threads \ {t} : inLock'[u] = inLock[u]
        BY <2>1 DEF TakeLock, L!Acquire, LockInv, L!TypeOK
    <3> QED
        BY <3>1, <3>2, SumLock
  <2>2. CASE NoteOwner(t)
    <3>1. UNCHANGED client /\ work[t] # "loaded"
        BY <2>2 DEF NoteOwner, L!NoteOwner, SumInv
    <3>2. \A u \in Threads \ {t} : inLock'[u] = inLock[u]
        BY <2>2 DEF NoteOwner, L!NoteOwner, LockInv, L!TypeOK
    <3> QED
        BY <3>1, <3>2, SumLock
  <2>3. CASE LoadSum(t)
      BY <2>3, SumLoad
  <2>4. CASE StoreSum(t)
      BY <2>4, SumStore
  <2>5. CASE LeaveLock(t)
    <3>1. UNCHANGED client /\ work[t] # "loaded"
        BY <2>5 DEF LeaveLock
    <3>2. \A u \in Threads \ {t} : inLock'[u] = inLock[u]
        BY <2>5 DEF LeaveLock, L!Release, LockInv, L!TypeOK
    <3> QED
        BY <3>1, <3>2, SumLock
  <2>6. CASE ForgetOwner(t)
    <3>1. UNCHANGED client /\ work[t] # "loaded"
        BY <2>6 DEF ForgetOwner, L!ForgetOwner, SumInv
    <3>2. \A u \in Threads \ {t} : inLock'[u] = inLock[u]
        BY <2>6 DEF ForgetOwner, L!ForgetOwner, LockInv, L!TypeOK
    <3> QED
        BY <3>1, <3>2, SumLock
  <2>7. CASE ReturnFromRun(t)
      BY <2>7, SumFrame DEF ReturnFromRun
  <2> QED
      BY <1>1, <2>1, <2>2, <2>3, <2>4, <2>5, <2>6, <2>7 DEF RunStep
<1>2. ASSUME NEW t \in Threads, CoroutineStep(t) \/ ThreadStep(t)
      PROVE  SumInv' /\ SumIsExact'
    BY <1>2, SumFrame DEF CoroutineStep, ThreadStep
<1>3. CASE Quit \/ UNCHANGED vars
    BY <1>3, SumFrame DEF Quit, vars
<1> QED
    BY <1>1, <1>2, <1>3 DEF Next

\* No addition is lost ("Expecting matched sum" of the threading test), however many
\* threads add and however many levels deep they lock: the mutex keeps a thread
\* between its read and its write alone, also where mOwner is wrong.
THEOREM SumCorrect == Spec => []SumIsExact
<1>1. LockInv /\ SumInv /\ SumIsExact /\ [Next]_vars => (SumInv /\ SumIsExact)'
    BY SumNext
<1> QED
    BY <1>1, SumInit, LockCorrect, PTL DEF Spec

-----------------------------------------------------------------------------
(* Thread *)

\* Of a thread used within the discipline of the tests: it is past its wait only
\* when it was started, RUNNING until it ends, and JOINED only behind its end; its
\* object is taken apart when it was started and deleted when it is JOINED.
InOrder(t) ==
    /\ body[t] \notin {"created", "blocked"} => started[t]
    /\ started[t] /\ body[t] # "ended" => mStatus[t] = "RUNNING"
    /\ started[t] => mStatus[t] # "READY" /\ owner[t] # "starting"
    /\ owner[t] = "starting" => mStatus[t] = "RUNNING"
    /\ owner[t] \in {"joining", "not set", "waiting", "timed out"} => mStatus[t] # "READY"
    /\ mStatus[t] = "JOINED" => body[t] = "ended"
    /\ object[t] # "whole" => mStatus[t] # "READY"
    /\ object[t] = "deleted" => mStatus[t] = "JOINED"

ThreadInv ==
    /\ T!TypeOK
    /\ \A t \in Threads \ Careless : InOrder(t)

LEMMA ThreadInit == Init => ThreadInv
<1> SUFFICES ASSUME T!Init PROVE ThreadInv
    BY DEF Init
<1>1. T!TypeOK
    BY DEF T!Init, T!TypeOK
<1>2. ASSUME NEW t \in Threads PROVE InOrder(t)
    BY <1>2 DEF T!Init, InOrder
<1> QED
    BY <1>1, <1>2 DEF ThreadInv

\* Threads move as Thread says, whatever run() does: Threading implements Thread.
LEMMA ThreadMoves == [Next]_vars => [T!Next]_threadState
<1> SUFFICES ASSUME [Next]_vars PROVE T!Next \/ UNCHANGED threadState
    OBVIOUS
<1>1. ASSUME NEW t \in Threads, RunStep(t) PROVE T!Next \/ UNCHANGED threadState
    BY <1>1 DEF RunStep, TakeLock, NoteOwner, LoadSum, StoreSum, LeaveLock, ForgetOwner,
                ReturnFromRun, T!Next
<1>2. ASSUME NEW t \in Threads, CoroutineStep(t) PROVE T!Next \/ UNCHANGED threadState
    BY <1>2 DEF CoroutineStep, T!Next
<1>3. ASSUME NEW t \in Threads, ThreadStep(t) PROVE T!Next
    BY <1>3 DEF ThreadStep, T!Next
<1>4. CASE Quit \/ UNCHANGED vars
    BY <1>4 DEF Quit, vars
<1> QED
    BY <1>1, <1>2, <1>3, <1>4 DEF Next

LEMMA ThreadFrame == ThreadInv /\ UNCHANGED threadState => ThreadInv'
BY DEF threadState, ThreadInv, T!TypeOK, InOrder

\* A step of one thread or of its owner.
LEMMA ThreadStepKeeps ==
    ASSUME ThreadInv, NEW t \in Threads,
           \/ T!PthreadStep(t) \/ T!ReturnFromRun(t) \/ T!ExitInRun(t) \/ T!WakeSpuriously(t)
           \/ T!OwnerReturns(t) \/ T!OwnerCalls(t) \/ T!RequestAbort(t)
    PROVE  ThreadInv'
<1>1. CASE T!AwaitStart(t)
  <2>1. T!TypeOK'
      BY <1>1 DEF ThreadInv, T!TypeOK, T!AwaitStart, T!Body
  <2>2. ASSUME NEW u \in Threads \ Careless PROVE InOrder(u)'
      BY <1>1, <2>2 DEF ThreadInv, T!TypeOK, InOrder, T!AwaitStart, T!Body
  <2> QED
      BY <2>1, <2>2 DEF ThreadInv
<1>2. CASE T!WakeSpuriously(t)
  <2>1. T!TypeOK'
      BY <1>2 DEF ThreadInv, T!TypeOK, T!WakeSpuriously, T!Body, T!Owner
  <2>2. ASSUME NEW u \in Threads \ Careless PROVE InOrder(u)'
    <3>1. UNCHANGED <<mStatus, started, object>> /\ InOrder(u)
        BY <1>2, <2>2 DEF ThreadInv, T!WakeSpuriously
    <3>2. CASE u # t
      <4>1. body'[u] = body[u] /\ owner'[u] = owner[u]
          BY <1>2, <2>2, <3>2 DEF ThreadInv, T!TypeOK, T!WakeSpuriously, T!Body, T!Owner
      <4> QED
          BY <3>1, <4>1 DEF InOrder
    <3>3. CASE u = t
      <4>1. owner[t] = "waiting" /\ owner'[t] = "joining" /\ body' = body
          BY <1>2, <2>2, <3>3 DEF ThreadInv, T!TypeOK, T!WakeSpuriously, T!Owner
      <4> QED
          BY <3>1, <3>3, <4>1 DEF InOrder
    <3> QED
        BY <3>2, <3>3
  <2> QED
      BY <2>1, <2>2 DEF ThreadInv
<1>3. CASE T!EnterRun(t)
  <2>1. T!TypeOK'
      BY <1>3 DEF ThreadInv, T!TypeOK, T!EnterRun, T!Body
  <2>2. ASSUME NEW u \in Threads \ Careless PROVE InOrder(u)'
      BY <1>3, <2>2 DEF ThreadInv, T!TypeOK, InOrder, T!EnterRun, T!Body
  <2> QED
      BY <2>1, <2>2 DEF ThreadInv
<1>4. CASE T!ReturnFromRun(t)
  <2>1. T!TypeOK'
      BY <1>4 DEF ThreadInv, T!TypeOK, T!ReturnFromRun, T!Body
  <2>2. ASSUME NEW u \in Threads \ Careless PROVE InOrder(u)'
      BY <1>4, <2>2 DEF ThreadInv, T!TypeOK, InOrder, T!ReturnFromRun, T!Body
  <2> QED
      BY <2>1, <2>2 DEF ThreadInv
<1>5. CASE T!ExitInRun(t)
  <2>1. T!TypeOK'
      BY <1>5 DEF ThreadInv, T!TypeOK, T!ExitInRun, T!Body
  <2>2. ASSUME NEW u \in Threads \ Careless PROVE InOrder(u)'
      BY <1>5, <2>2 DEF ThreadInv, T!TypeOK, InOrder, T!ExitInRun, T!Body
  <2> QED
      BY <2>1, <2>2 DEF ThreadInv
<1>6. CASE T!SetFinished(t)
  <2>1. T!TypeOK'
      BY <1>6 DEF ThreadInv, T!TypeOK, T!SetFinished, T!Body
  <2>2. ASSUME NEW u \in Threads \ Careless PROVE InOrder(u)'
      BY <1>6, <2>2 DEF ThreadInv, T!TypeOK, InOrder, T!SetFinished, T!Body
  <2> QED
      BY <2>1, <2>2 DEF ThreadInv
<1>7. CASE T!MarkFinished(t)
  <2>1. T!TypeOK'
      BY <1>7 DEF ThreadInv, T!TypeOK, T!MarkFinished, T!Body
  <2>2. ASSUME NEW u \in Threads \ Careless PROVE InOrder(u)'
      BY <1>7, <2>2 DEF ThreadInv, T!TypeOK, InOrder, T!MarkFinished, T!Body
  <2> QED
      BY <2>1, <2>2 DEF ThreadInv
<1>8. CASE T!Start(t)
  <2>1. T!TypeOK'
      BY <1>8 DEF ThreadInv, T!TypeOK, T!Start, T!Owner
  <2>2. ASSUME NEW u \in Threads \ Careless PROVE InOrder(u)'
      BY <1>8, <2>2 DEF ThreadInv, T!TypeOK, InOrder, T!Start, T!Owner
  <2> QED
      BY <2>1, <2>2 DEF ThreadInv
<1>9. CASE T!SetStarted(t)
  <2>1. T!TypeOK'
      BY <1>9 DEF ThreadInv, T!TypeOK, T!SetStarted, T!Owner
  <2>2. ASSUME NEW u \in Threads \ Careless PROVE InOrder(u)'
      BY <1>9, <2>2 DEF ThreadInv, T!TypeOK, InOrder, T!SetStarted, T!Owner
  <2> QED
      BY <2>1, <2>2 DEF ThreadInv
<1>10. CASE T!JoinForever(t)
  <2>1. T!TypeOK'
      BY <1>10 DEF ThreadInv, T!TypeOK, T!JoinForever, T!Owner, T!Joinable
  <2>2. ASSUME NEW u \in Threads \ Careless PROVE InOrder(u)'
      BY <1>10, <2>2 DEF ThreadInv, T!TypeOK, InOrder, T!JoinForever, T!Owner, T!Joinable
  <2> QED
      BY <2>1, <2>2 DEF ThreadInv
<1>11. CASE T!TimedJoin(t)
  <2>1. T!TypeOK'
      BY <1>11 DEF ThreadInv, T!TypeOK, T!TimedJoin, T!Owner, T!Joinable
  <2>2. ASSUME NEW u \in Threads \ Careless PROVE InOrder(u)'
      BY <1>11, <2>2 DEF ThreadInv, T!TypeOK, InOrder, T!TimedJoin, T!Owner, T!Joinable
  <2> QED
      BY <2>1, <2>2 DEF ThreadInv
<1>12. CASE T!WaitFinished(t)
  <2>1. T!TypeOK'
      BY <1>12 DEF ThreadInv, T!TypeOK, T!WaitFinished, T!Owner
  <2>2. ASSUME NEW u \in Threads \ Careless PROVE InOrder(u)'
      BY <1>12, <2>2 DEF ThreadInv, T!TypeOK, InOrder, T!WaitFinished, T!Owner
  <2> QED
      BY <2>1, <2>2 DEF ThreadInv
<1>13. CASE T!TimeOut(t)
  <2>1. T!TypeOK'
      BY <1>13 DEF ThreadInv, T!TypeOK, T!TimeOut, T!Owner
  <2>2. ASSUME NEW u \in Threads \ Careless PROVE InOrder(u)'
      BY <1>13, <2>2 DEF ThreadInv, T!TypeOK, InOrder, T!TimeOut, T!Owner
  <2> QED
      BY <2>1, <2>2 DEF ThreadInv
<1>14. CASE T!GiveUp(t)
  <2>1. T!TypeOK'
      BY <1>14 DEF ThreadInv, T!TypeOK, T!GiveUp, T!Owner
  <2>2. ASSUME NEW u \in Threads \ Careless PROVE InOrder(u)'
      BY <1>14, <2>2 DEF ThreadInv, T!TypeOK, InOrder, T!GiveUp, T!Owner
  <2> QED
      BY <2>1, <2>2 DEF ThreadInv
<1>15. CASE T!Joined(t)
  <2>1. T!TypeOK'
      BY <1>15 DEF ThreadInv, T!TypeOK, T!Joined, T!Owner
  <2>2. ASSUME NEW u \in Threads \ Careless PROVE InOrder(u)'
      BY <1>15, <2>2 DEF ThreadInv, T!TypeOK, InOrder, T!Joined, T!Owner
  <2> QED
      BY <2>1, <2>2 DEF ThreadInv
<1>16. CASE T!Delete(t)
  <2>1. T!TypeOK'
      BY <1>16 DEF ThreadInv, T!TypeOK, T!Delete
  <2>2. ASSUME NEW u \in Threads \ Careless PROVE InOrder(u)'
      BY <1>16, <2>2 DEF ThreadInv, T!TypeOK, InOrder, T!Delete
  <2> QED
      BY <2>1, <2>2 DEF ThreadInv
<1>17. CASE T!Destroy(t)
  <2>1. T!TypeOK'
      BY <1>17 DEF ThreadInv, T!TypeOK, T!Destroy
  <2>2. ASSUME NEW u \in Threads \ Careless PROVE InOrder(u)'
    <3>1. UNCHANGED <<mStatus, started, body>> /\ object[t] = "base" /\ InOrder(u)
        BY <1>17, <2>2 DEF ThreadInv, T!Destroy
    <3>2. CASE u # t
      <4>1. object'[u] = object[u] /\ owner'[u] = owner[u]
          BY <1>17, <2>2, <3>2 DEF ThreadInv, T!TypeOK, T!Destroy
      <4> QED
          BY <3>1, <4>1 DEF InOrder
    <3>3. CASE u = t /\ mStatus[t] \in {"RUNNING", "FINISHED"}
      <4>1. owner'[t] = "joining" /\ object' = object
          BY <1>17, <2>2, <3>3 DEF ThreadInv, T!TypeOK, T!Destroy
      <4> QED
          BY <3>1, <3>3, <4>1 DEF InOrder
    <3>4. CASE u = t /\ mStatus[t] \notin {"RUNNING", "FINISHED"}
      <4>1. object'[t] = "deleted" /\ owner' = owner /\ mStatus[t] \in {"READY", "JOINED"}
          BY <1>17, <2>2, <3>4 DEF ThreadInv, T!TypeOK, T!Destroy
      <4> QED
          BY <3>1, <3>4, <4>1 DEF InOrder
    <3> QED
        BY <3>2, <3>3, <3>4
  <2> QED
      BY <2>1, <2>2 DEF ThreadInv
<1>18. CASE T!RequestAbort(t)
  <2>1. T!TypeOK'
      BY <1>18 DEF ThreadInv, T!TypeOK, T!RequestAbort
  <2>2. ASSUME NEW u \in Threads \ Careless PROVE InOrder(u)'
      BY <1>18, <2>2 DEF ThreadInv, T!TypeOK, InOrder, T!RequestAbort
  <2> QED
      BY <2>1, <2>2 DEF ThreadInv
<1> QED
    BY <1>1, <1>2, <1>3, <1>4, <1>5, <1>6, <1>7, <1>8, <1>9, <1>10, <1>11, <1>12,
       <1>13, <1>14, <1>15, <1>16, <1>17, <1>18 DEF T!PthreadStep, T!OwnerReturns, T!OwnerCalls

LEMMA ThreadCorrect == Spec => []ThreadInv
<1>1. ThreadInv /\ [Next]_vars => ThreadInv'
  <2>1. ThreadInv /\ T!Next => ThreadInv'
      BY ThreadStepKeeps DEF T!Next
  <2> QED
      BY <2>1, ThreadMoves, ThreadFrame
<1> QED
    BY <1>1, ThreadInit, PTL DEF Spec

\* A pthread with steps of exec ahead of it finds its object: the destructor
\* deletes what it has joined.
THEOREM DeleteCorrect == Spec => []NoUseAfterDelete
<1>1. ThreadInv => NoUseAfterDelete
    BY DEF ThreadInv, InOrder, NoUseAfterDelete, T!NoUseAfterDelete
<1> QED
    BY <1>1, ThreadCorrect, PTL

\* The status of a thread goes READY, RUNNING, FINISHED, JOINED: the FINISHED which
\* exec writes behind its event comes before pthread_join returns.
THEOREM StatusCorrect == Spec => StatusGoesForward
<1> DEFINE Forward(t) ==
             <<mStatus[t], mStatus'[t]>> \in
                {<<"READY", "RUNNING">>, <<"RUNNING", "FINISHED">>,
                 <<"RUNNING", "JOINED">>, <<"FINISHED", "JOINED">>}
<1>1. ASSUME ThreadInv, T!Next, NEW u \in Threads \ Careless
      PROVE  mStatus'[u] = mStatus[u] \/ Forward(u)
  <2>1. PICK t \in Threads : \/ T!Start(t) \/ T!MarkFinished(t) \/ T!Joined(t) \/ UNCHANGED mStatus
      BY <1>1 DEF T!Next, T!PthreadStep, T!OwnerReturns, T!OwnerCalls, T!AwaitStart, T!EnterRun,
                  T!SetFinished, T!ReturnFromRun, T!ExitInRun, T!WakeSpuriously, T!SetStarted,
                  T!WaitFinished, T!TimeOut, T!GiveUp, T!Destroy, T!JoinForever, T!TimedJoin,
                  T!Delete, T!RequestAbort
  <2>2. mStatus \in [Threads -> {"READY", "RUNNING", "FINISHED", "JOINED"}] /\ InOrder(u)
      BY <1>1 DEF ThreadInv, T!TypeOK
  <2>3. CASE u # t \/ UNCHANGED mStatus
      BY <2>1, <2>2, <2>3 DEF T!Start, T!MarkFinished, T!Joined
  <2>4. CASE u = t /\ T!Start(t)
      BY <2>2, <2>4 DEF T!Start
  <2>5. CASE u = t /\ T!MarkFinished(t)
    <3>1. mStatus[u] = "RUNNING"
        BY <2>2, <2>5 DEF T!MarkFinished, T!Body, InOrder
    <3> QED
        BY <2>2, <2>5, <3>1 DEF T!MarkFinished
  <2>6. CASE u = t /\ T!Joined(t)
    <3>1. mStatus[u] # "READY"
        BY <2>2, <2>6 DEF T!Joined, T!Owner, InOrder
    <3> QED
        BY <2>2, <2>6, <3>1 DEF T!Joined
  <2> QED
      BY <2>1, <2>3, <2>4, <2>5, <2>6
<1>2. ThreadInv /\ [Next]_vars =>
        [\A t \in Threads \ Careless : mStatus'[t] = mStatus[t] \/ Forward(t)]_mStatus
    BY <1>1, ThreadMoves DEF threadState
<1> QED
    BY <1>2, ThreadCorrect, PTL DEF Spec, StatusGoesForward, T!StatusGoesForward

-----------------------------------------------------------------------------
(* Coroutine *)

CP == INSTANCE Coroutine_proofs

\* Coroutines move as Coroutine says, whatever else run() and the owner do:
\* Threading implements Coroutine.
LEMMA CoroutinesMove == [Next]_vars => [C!Next]_coroutineState
<1> SUFFICES ASSUME [Next]_vars PROVE C!Next \/ UNCHANGED coroutineState
    OBVIOUS
<1>1. ASSUME NEW t \in Threads, RunStep(t) \/ ThreadStep(t) PROVE UNCHANGED coroutineState
    BY <1>1 DEF RunStep, TakeLock, NoteOwner, LoadSum, StoreSum, LeaveLock, ForgetOwner,
                ReturnFromRun, ThreadStep
<1>2. ASSUME NEW t \in Threads, CoroutineStep(t) PROVE C!Next
    BY <1>2 DEF CoroutineStep, C!Next
<1>3. CASE Quit \/ UNCHANGED vars
    BY <1>3 DEF Quit, vars
<1> QED
    BY <1>1, <1>2, <1>3 DEF Next


LEMMA SameCoroutines ==
    /\ C!NoneIsNull <=> CP!NoneIsNull
    /\ C!Init <=> CP!Init
    /\ \A t : C!CoroutineStep(t) <=> CP!CoroutineStep(t)
    /\ \A t : C!Exit(t) <=> CP!Exit(t)
    /\ \A t, p : C!Leave(t, p) <=> CP!Leave(t, p)
    /\ C!CurrentIsRunning <=> CP!CurrentIsRunning
    /\ C!SlotsAreMemory <=> CP!SlotsAreMemory
<1>1. C!NoneIsNull <=> CP!NoneIsNull
    BY DEF C!NoneIsNull, CP!NoneIsNull, C!Managers, CP!Managers
<1>2. C!Init <=> CP!Init
  <2>1. C!Cardinality(Threads) = CP!Cardinality(Threads)
      BY DEF C!Cardinality, CP!Cardinality
  <2>2. C!Keys = CP!Keys
      BY <2>1 DEF C!Keys, CP!Keys
  <2> QED
      BY <2>2 DEF C!Init, CP!Init, C!NoContext, CP!NoContext
<1>3. \A t : C!Manager(t) = CP!Manager(t)
    BY DEF C!Manager, CP!Manager
<1>4. C!FreeContexts = CP!FreeContexts
    BY DEF C!FreeContexts, CP!FreeContexts
<1>5. C!New = CP!New
    BY <1>4 DEF C!New, CP!New, C!Min, CP!Min
<1>6. C!CurrentIsRunning <=> CP!CurrentIsRunning
    BY <1>3 DEF C!CurrentIsRunning, CP!CurrentIsRunning, C!OneKey, CP!OneKey
<1>7. C!SlotsAreMemory <=> CP!SlotsAreMemory
    BY <1>3 DEF C!SlotsAreMemory, CP!SlotsAreMemory, C!OneKey, CP!OneKey
<1>8. \A t : C!Exit(t) <=> CP!Exit(t)
    BY DEF C!Exit, CP!Exit, C!Goes, CP!Goes
<1>9. \A t, p : C!Leave(t, p) <=> CP!Leave(t, p)
    BY <1>3 DEF C!Leave, CP!Leave, C!Goes, CP!Goes, C!IsMain, CP!IsMain
<1>10. ASSUME NEW t PROVE C!CoroutineStep(t) <=> CP!CoroutineStep(t)
  <2>1. \A p : C!Goes(t, p) <=> CP!Goes(t, p)
      BY DEF C!Goes, CP!Goes
  <2>2. \A m : C!Manages(t, m) <=> CP!Manages(t, m)
      BY DEF C!Manages, CP!Manages
  <2>3. \A a, b : C!Swap(t, a, b) <=> CP!Swap(t, a, b)
      BY DEF C!Swap, CP!Swap
  <2>4. C!LookAtFlag(t) <=> CP!LookAtFlag(t)
      BY DEF C!LookAtFlag, CP!LookAtFlag, C!Goes, CP!Goes
  <2>5. C!CreateKey(t) <=> CP!CreateKey(t)
      BY DEF C!CreateKey, CP!CreateKey, C!Goes, CP!Goes
  <2>6. C!SetFlag(t) <=> CP!SetFlag(t)
      BY DEF C!SetFlag, CP!SetFlag, C!Goes, CP!Goes
  <2>7. C!Install(t) <=> CP!Install(t)
      BY <1>3, <1>4, <1>5, <2>1, <2>2 DEF C!Install, CP!Install
  <2>8. C!CreateCoroutine(t) <=> CP!CreateCoroutine(t)
      BY <1>3, <1>4, <1>5, <2>1, <2>2 DEF C!CreateCoroutine, CP!CreateCoroutine
  <2>9. C!ShutDown(t) <=> CP!ShutDown(t)
      BY DEF C!ShutDown, CP!ShutDown, C!Goes, CP!Goes, C!Manages, CP!Manages,
             C!Manager, CP!Manager, C!NoContext, CP!NoContext
  <2>10. C!FreeCurrent(t) <=> CP!FreeCurrent(t)
      BY DEF C!FreeCurrent, CP!FreeCurrent, C!Goes, CP!Goes, C!NoContext, CP!NoContext
  <2>11. \A c : C!SwitchToCoroutine(t, c) <=> CP!SwitchToCoroutine(t, c)
      BY DEF C!SwitchToCoroutine, CP!SwitchToCoroutine, C!Manages, CP!Manages,
             C!Manager, CP!Manager, C!Swap, CP!Swap
  <2>12. \A c : C!DeleteOther(t, c) <=> CP!DeleteOther(t, c)
      BY DEF C!DeleteOther, CP!DeleteOther, C!Manages, CP!Manages,
             C!Manager, CP!Manager, C!NoContext, CP!NoContext
  <2> QED
      BY <2>4, <2>5, <2>6, <2>7, <2>8, <2>9, <2>10, <2>11, <2>12
      DEF C!CoroutineStep, CP!CoroutineStep
<1> QED
    BY <1>1, <1>2, <1>6, <1>7, <1>8, <1>9, <1>10

LEMMA CoroutineCorrect == Spec => []CP!CoroutineInv
<1>1. CP!NoneIsNull /\ CP!IsFiniteSet(Threads)
    BY CoroutineAssumption, ThreadingAssumption, SameCoroutines DEF IsFiniteSet, CP!IsFiniteSet
<1>2. Init => CP!CoroutineInv
    BY <1>1, SameCoroutines, CP!CoroutineInit DEF Init
<1>3. [Next]_vars => [CP!Next]_(CP!coroutineVars)
    BY CoroutinesMove, SameCoroutines DEF C!Next, CP!Next, coroutineState, CP!coroutineVars
<1>4. CP!CoroutineInv /\ [Next]_vars => CP!CoroutineInv'
    BY <1>1, <1>3, CP!CoroutineNext
<1> QED
    BY <1>2, <1>4, PTL DEF Spec

\* Whoever asks GetCurrentCoroutine is told itself, after any sequence of switches,
\* creations and deletions of any number of threads, and a switch that comes back
\* finds what it left; except where two threads created the key of the managers.
THEOREM CurrentCorrect == Spec => []CurrentIsRunning
<1>1. CP!CoroutineInv => CurrentIsRunning
    BY CoroutineAssumption, SameCoroutines, CP!InvMeansCurrent DEF CurrentIsRunning
<1> QED
    BY <1>1, CoroutineCorrect, PTL

\* DeleteCoroutine frees nothing that SwitchToCoroutine can still find, and a shutdown
\* leaves no context of its thread behind, whichever threads use the memory next.
THEOREM SlotsCorrect == Spec => []SlotsAreMemory
<1>1. CP!CoroutineInv => SlotsAreMemory
    BY SameCoroutines, CP!InvMeansSlots DEF SlotsAreMemory
<1> QED
    BY <1>1, CoroutineCorrect, PTL

-----------------------------------------------------------------------------
(* All three together *)

Waiting == {"created", "blocked", "awake"}
Behind == {"returned", "signalled"}

\* run() was gone through, its lock given up and no coroutine left at work.
Done(t) ==
    /\ task[t] = "sum" => work[t] = "added" /\ inLock[t] = "outside"
    /\ task[t] = "coroutines" => running[t] = None /\ (at[t] = "returned" \/ Exited(t))

\* The lock is used in run() by those without coroutines; exec ends behind run(), or
\* because of a request; who is JOINED has ended.
Job(t) ==
    /\ inLock[t] # "outside" => body[t] = "run" /\ task[t] # "coroutines"
    /\ task[t] = "coroutines" => work[t] = "to do"
    /\ body[t] \in Behind => Done(t)
    /\ body[t] = "ended" => Done(t) \/ mAborting[t]
    /\ mStatus[t] = "JOINED" => body[t] = "ended"

\* As long as the object is whole, exec ends by setting mFinishEvent, or inside run();
\* so a timed join that found the thread ended, and slept, found it ended inside run().
End(t) ==
    /\ body[t] \in Waiting /\ object[t] = "whole" => ~mAborting[t]
    /\ body[t] = "signalled" => finished[t]
    /\ body[t] = "ended" /\ object[t] = "whole" => finished[t] \/ Exited(t)
    /\ owner[t] \in {"not set", "waiting", "timed out"} /\ sawEnd[t] => Exited(t)

WorkInv ==
    /\ DOMAIN at = Threads /\ DOMAIN running = Threads
    /\ \A t \in Threads : Job(t)
    /\ \A t \in Threads \ Careless : End(t)

LEMMA WorkInit == Init => WorkInv
<1> SUFFICES ASSUME Init PROVE WorkInv
    OBVIOUS
<1>1. DOMAIN at = Threads /\ DOMAIN running = Threads
    BY DEF Init, C!Init
<1>2. ASSUME NEW t \in Threads PROVE Job(t) /\ End(t)
    BY <1>2 DEF Init, T!Init, L!Init, Job, End, Done, Waiting, Behind
<1> QED
    BY <1>1, <1>2 DEF WorkInv

\* What a thread does with its coroutines: it is not one that they have ended.
LEMMA CoroutineEffect ==
    ASSUME WorkInv, NEW t \in Threads,
           C!CoroutineStep(t) \/ C!Exit(t) \/ C!Leave(t, "returned") \/ C!Leave(t, "exited")
    PROVE  /\ ~Exited(t)
           /\ DOMAIN at' = Threads /\ DOMAIN running' = Threads
           /\ \A u \in Threads \ {t} : at'[u] = at[u] /\ running'[u] = running[u]
<1>1. DOMAIN at = Threads /\ DOMAIN running = Threads
    BY DEF WorkInv
<1>2. \E p : at' = at \/ at' = [at EXCEPT ![t] = p]
    BY DEF C!CoroutineStep, C!Exit, C!Leave, C!LookAtFlag, C!CreateKey, C!SetFlag, C!Install,
           C!CreateCoroutine, C!ShutDown, C!FreeCurrent, C!SwitchToCoroutine, C!DeleteOther, C!Goes
<1>3. \E r : running' = running \/ running' = [running EXCEPT ![t] = r]
    BY DEF C!CoroutineStep, C!Exit, C!Leave, C!LookAtFlag, C!CreateKey, C!SetFlag, C!Install,
           C!CreateCoroutine, C!ShutDown, C!FreeCurrent, C!SwitchToCoroutine, C!DeleteOther, C!Swap
<1>4. ~Exited(t)
    BY DEF C!CoroutineStep, C!Exit, C!Leave, C!LookAtFlag, C!CreateKey, C!SetFlag, C!Install,
           C!CreateCoroutine, C!ShutDown, C!FreeCurrent, C!SwitchToCoroutine, C!DeleteOther, Exited
<1> QED
    BY <1>1, <1>2, <1>3, <1>4

\* What the pthread and the owner do to an object outside run().
LEMMA ThreadEffect ==
    ASSUME T!TypeOK, NEW t \in Threads, NEW u \in Threads,
           \/ T!PthreadStep(t) \/ T!WakeSpuriously(t)
           \/ T!OwnerReturns(t) \/ T!OwnerCalls(t) \/ T!RequestAbort(t)
    PROVE  /\ mAborting[u] => mAborting'[u]
           /\ body'[u] \in Behind => body[u] \in Behind
           /\ body'[u] = "ended" => body[u] \in {"ended", "signalled"} \/ mAborting[u]
           /\ body[u] \in {"run", "ended"} => body'[u] = body[u]
           /\ mStatus'[u] = "JOINED" => mStatus[u] = "JOINED" \/ body[u] = "ended"
<1>1. CASE T!PthreadStep(t)
    BY <1>1 DEF T!TypeOK, Behind, T!PthreadStep, T!AwaitStart, T!EnterRun, T!SetFinished, T!MarkFinished, T!Body
<1>2. CASE T!WakeSpuriously(t)
    BY <1>2 DEF T!TypeOK, Behind, T!WakeSpuriously, T!Body
<1>3. CASE T!OwnerReturns(t)
    BY <1>3 DEF T!TypeOK, Behind, T!OwnerReturns, T!SetStarted, T!WaitFinished, T!TimeOut, T!GiveUp,
                T!Joined, T!Destroy
<1>4. CASE T!OwnerCalls(t)
    BY <1>4 DEF T!TypeOK, Behind, T!OwnerCalls, T!Start, T!JoinForever, T!TimedJoin, T!Delete
<1>5. CASE T!RequestAbort(t)
    BY <1>5 DEF T!TypeOK, Behind, T!RequestAbort
<1> QED
    BY <1>1, <1>2, <1>3, <1>4, <1>5

LEMMA EndEffect ==
    ASSUME T!TypeOK, NEW t \in Threads, NEW u \in Threads \ Careless, End(u),
           UNCHANGED coroutineState,
           \/ T!PthreadStep(t) \/ T!WakeSpuriously(t)
           \/ T!OwnerReturns(t) \/ T!OwnerCalls(t) \/ T!RequestAbort(t)
    PROVE  End(u)'
<1>0. at' = at /\ (Exited(u)' <=> Exited(u))
    BY DEF coroutineState, Exited
<1> HIDE DEF Exited
<1>1. CASE T!PthreadStep(t)
    BY <1>0, <1>1 DEF T!TypeOK, End, Waiting, T!PthreadStep, T!AwaitStart, T!EnterRun, T!SetFinished, T!MarkFinished, T!Body
<1>2. CASE T!WakeSpuriously(t)
    BY <1>0, <1>2 DEF T!TypeOK, End, Waiting, T!WakeSpuriously, T!Body, T!Owner
<1>3. CASE T!OwnerReturns(t)
    BY <1>0, <1>3 DEF T!TypeOK, End, Waiting, T!OwnerReturns, T!SetStarted, T!WaitFinished, T!TimeOut, T!GiveUp,
                T!Joined, T!Destroy, T!Owner
<1>4. CASE T!OwnerCalls(t)
  <2>1. CASE T!TimedJoin(t)
    <3>1. UNCHANGED <<mAborting, finished, object, body>>
        BY <2>1 DEF T!TimedJoin
    <3>2. CASE u # t
      <4>1. owner'[u] = owner[u] /\ sawEnd'[u] = sawEnd[u]
          BY <2>1, <3>2 DEF T!TypeOK, T!TimedJoin, T!Owner
      <4> QED
          BY <1>0, <3>1, <4>1 DEF End
    <3>3. CASE u = t
      <4>1. /\ object[t] = "whole" /\ (finished[t] => owner'[t] = "joining")
            /\ sawEnd'[t] => body[t] = "ended"
          BY <2>1, <3>3 DEF T!TypeOK, T!TimedJoin, T!Owner, T!Joinable
      <4> QED
          BY <1>0, <3>1, <3>3, <4>1 DEF End
    <3> QED
        BY <3>2, <3>3
  <2>2. CASE T!Start(t) \/ T!JoinForever(t) \/ T!Delete(t)
      BY <1>0, <2>2 DEF T!TypeOK, End, Waiting, T!Start, T!JoinForever, T!Delete, T!Owner
  <2> QED
      BY <1>4, <2>1, <2>2 DEF T!OwnerCalls
<1>5. CASE T!RequestAbort(t)
    BY <1>0, <1>5 DEF T!TypeOK, End, Waiting, T!RequestAbort
<1> QED
    BY <1>1, <1>2, <1>3, <1>4, <1>5

\* A step outside run() leaves it as it is.
LEMMA WorkThread ==
    ASSUME WorkInv, ThreadInv, NEW t \in Threads, ThreadStep(t)
    PROVE  WorkInv'
<1>1. /\ \/ T!PthreadStep(t) \/ T!WakeSpuriously(t)
         \/ T!OwnerReturns(t) \/ T!OwnerCalls(t) \/ T!RequestAbort(t)
      /\ UNCHANGED <<inLock, running, at, task, work>> /\ UNCHANGED coroutineState
    BY DEF ThreadStep, lockState, coroutineState, client
<1>2. T!TypeOK
    BY DEF ThreadInv
<1>3. ASSUME NEW u \in Threads PROVE Job(u)'
  <2>1. Done(u) <=> Done(u)'
      BY <1>1 DEF Done, Exited
  <2>2. Job(u)
      BY DEF WorkInv
  <2>3. /\ mAborting[u] => mAborting'[u]
        /\ body'[u] \in Behind => body[u] \in Behind
        /\ body'[u] = "ended" => body[u] \in {"ended", "signalled"} \/ mAborting[u]
        /\ body[u] \in {"run", "ended"} => body'[u] = body[u]
        /\ mStatus'[u] = "JOINED" => mStatus[u] = "JOINED" \/ body[u] = "ended"
      BY <1>1, <1>2, ThreadEffect
  <2> QED
      BY <1>1, <2>1, <2>2, <2>3 DEF Job, Behind
<1>4. ASSUME NEW u \in Threads \ Careless PROVE End(u)'
    BY <1>1, <1>2, EndEffect DEF WorkInv
<1> QED
    BY <1>1, <1>3, <1>4 DEF WorkInv

\* A step inside run() that goes neither out of it nor into coroutines.
LEMMA WorkLock ==
    ASSUME WorkInv, UNCHANGED <<threadState, coroutineState, task>>, NEW t \in Threads,
           body[t] = "run", task[t] # "coroutines",
           \A u \in Threads \ {t} : inLock'[u] = inLock[u] /\ work'[u] = work[u]
    PROVE  WorkInv'
<1>1. UNCHANGED <<mStatus, mAborting, started, finished, object, body, owner, sawEnd>>
    BY DEF threadState
<1>2. UNCHANGED <<at, running, task>>
    BY DEF coroutineState
<1>3. ASSUME NEW u \in Threads PROVE Job(u)'
  <2>1. Job(u)
      BY DEF WorkInv
  <2>2. CASE u = t
      BY <1>1, <1>2, <2>1, <2>2 DEF Job, Behind
  <2>3. CASE u # t
    <3>1. Done(u) <=> Done(u)'
        BY <1>2, <2>3 DEF Done, Exited
    <3> QED
        BY <1>1, <1>2, <2>1, <2>3, <3>1 DEF Job
  <2> QED
      BY <2>2, <2>3
<1>4. ASSUME NEW u \in Threads \ Careless PROVE End(u)'
    BY <1>1, <1>2 DEF WorkInv, End, Exited
<1> QED
    BY <1>2, <1>3, <1>4 DEF WorkInv

LEMMA WorkNext ==
    ASSUME WorkInv, LockInv, SumInv, ThreadInv, [Next]_vars
    PROVE  WorkInv'
<1>1. ASSUME NEW t \in Threads, RunStep(t) PROVE WorkInv'
  <2>1. CASE TakeLock(t)
    <3>1. /\ UNCHANGED <<threadState, coroutineState, task, work>>
          /\ body[t] = "run" /\ task[t] # "coroutines"
        BY <2>1 DEF TakeLock, client
    <3>2. \A u \in Threads \ {t} : inLock'[u] = inLock[u]
        BY <2>1 DEF TakeLock, L!Acquire, LockInv, L!TypeOK
    <3> QED
        BY <3>1, <3>2, WorkLock
  <2>2. CASE NoteOwner(t) \/ LeaveLock(t) \/ ForgetOwner(t)
    <3>1. UNCHANGED <<threadState, coroutineState, task, work>> /\ inLock[t] # "outside"
        BY <2>2 DEF NoteOwner, LeaveLock, ForgetOwner, L!NoteOwner, L!Release, L!ForgetOwner, client
    <3>2. \A u \in Threads \ {t} : inLock'[u] = inLock[u]
        BY <2>2 DEF NoteOwner, LeaveLock, ForgetOwner, L!NoteOwner, L!Release, L!ForgetOwner,
                    LockInv, L!TypeOK
    <3>3. body[t] = "run" /\ task[t] # "coroutines"
        BY <3>1 DEF WorkInv, Job
    <3> QED
        BY <3>1, <3>2, <3>3, WorkLock
  <2>3. CASE LoadSum(t) \/ StoreSum(t)
    <3>1. UNCHANGED <<threadState, coroutineState, task, inLock>> /\ inLock[t] = "inside"
        BY <2>3 DEF LoadSum, StoreSum, lockState, SumInv
    <3>2. \A u \in Threads \ {t} : work'[u] = work[u]
        BY <2>3 DEF LoadSum, StoreSum, SumInv
    <3>3. body[t] = "run" /\ task[t] # "coroutines"
        BY <3>1 DEF WorkInv, Job
    <3> QED
        BY <3>1, <3>2, <3>3, WorkLock
  <2>4. CASE ReturnFromRun(t)
    <3>1. /\ UNCHANGED <<inLock, running, at, task, work>>
          /\ UNCHANGED <<mStatus, mAborting, started, finished, object, owner, sawEnd>>
          /\ body[t] = "run" /\ body' = [body EXCEPT ![t] = "returned"]
          /\ work[t] = "added" /\ inLock[t] = "outside"
        BY <2>4 DEF ReturnFromRun, T!ReturnFromRun, T!Body, lockState, coroutineState, client
    <3>2. body'[t] = "returned" /\ \A u \in Threads \ {t} : body'[u] = body[u]
        BY <3>1 DEF ThreadInv, T!TypeOK
    <3>3. ASSUME NEW u \in Threads PROVE Job(u)'
      <4>1. Job(u) /\ (Done(u)' <=> Done(u))
          BY <3>1 DEF WorkInv, Done, Exited
      <4>2. u = t => Done(u)
          BY <3>1, <4>1 DEF Done, Job
      <4> QED
          BY <3>1, <3>2, <4>1, <4>2 DEF Job, Behind
    <3>4. ASSUME NEW u \in Threads \ Careless PROVE End(u)'
        BY <3>1, <3>2 DEF WorkInv, End, Exited, Waiting
    <3> QED
        BY <3>1, <3>3, <3>4 DEF WorkInv
  <2> QED
      BY <1>1, <2>1, <2>2, <2>3, <2>4 DEF RunStep
<1>2. ASSUME NEW t \in Threads, CoroutineStep(t) PROVE WorkInv'
  <2>1. /\ body[t] = "run" /\ task[t] = "coroutines" /\ UNCHANGED <<inLock, task, work>>
        /\ UNCHANGED <<mStatus, mAborting, started, finished, object, owner, sawEnd>>
      BY <1>2 DEF CoroutineStep, threadState, lockState, client, T!ReturnFromRun, T!ExitInRun
  <2>2. \/ body' = body
        \/ /\ body' = [body EXCEPT ![t] = "returned"]
           /\ at' = [at EXCEPT ![t] = "returned"] /\ running' = [running EXCEPT ![t] = None]
        \/ \E p \in {"exited", "ended"} :
           /\ body' = [body EXCEPT ![t] = "ended"]
           /\ at' = [at EXCEPT ![t] = p] /\ running' = [running EXCEPT ![t] = None]
      BY <1>2 DEF CoroutineStep, threadState, T!ReturnFromRun, T!ExitInRun, T!Body,
                  C!Leave, C!Exit, C!Goes
  <2>3. /\ ~Exited(t) /\ DOMAIN at' = Threads /\ DOMAIN running' = Threads
        /\ \A u \in Threads \ {t} : at'[u] = at[u] /\ running'[u] = running[u]
      BY <1>2, CoroutineEffect DEF CoroutineStep
  <2>4. DOMAIN at = Threads /\ DOMAIN running = Threads /\ DOMAIN body = Threads
      BY DEF WorkInv, ThreadInv, T!TypeOK
  <2>5. /\ \A u \in Threads \ {t} : body'[u] = body[u]
        /\ \/ body'[t] = "run"
           \/ body'[t] = "returned" /\ at'[t] = "returned" /\ running'[t] = None
           \/ body'[t] = "ended" /\ at'[t] \in {"exited", "ended"} /\ running'[t] = None
      BY <2>1, <2>2, <2>4
  <2>6. Job(t)' /\ (t \notin Careless => End(t)')
    <3>1. Job(t) /\ (t \notin Careless => End(t))
        BY DEF WorkInv
    <3>2. body'[t] # "run" => Done(t)'
        BY <2>1, <2>5 DEF Done, Exited
    <3>3. body'[t] = "ended" => Exited(t)'
        BY <2>5 DEF Exited
    <3>4. Job(t)'
        BY <2>1, <2>5, <3>1, <3>2 DEF Job, Behind
    <3>5. ASSUME t \notin Careless PROVE End(t)'
        BY <2>1, <2>3, <2>5, <3>1, <3>3, <3>5 DEF End, Waiting
    <3> QED
        BY <3>4, <3>5
  <2>7. ASSUME NEW u \in Threads \ {t} PROVE Job(u)' /\ (u \notin Careless => End(u)')
    <3>1. Job(u) /\ (u \notin Careless => End(u)) /\ (Done(u)' <=> Done(u)) /\ (Exited(u)' <=> Exited(u))
        BY <2>1, <2>3 DEF WorkInv, Done, Exited
    <3> QED
        BY <2>1, <2>5, <3>1 DEF Job, End
  <2> QED
      BY <2>3, <2>6, <2>7 DEF WorkInv
<1>3. ASSUME NEW t \in Threads, ThreadStep(t) PROVE WorkInv'
    BY <1>3, WorkThread
<1>4. CASE Quit \/ UNCHANGED vars
  <2>1. UNCHANGED <<mStatus, mAborting, started, finished, object, body, owner, sawEnd>>
      BY <1>4 DEF Quit, vars, threadState
  <2>2. UNCHANGED <<inLock, running, at, task, work>>
      BY <1>4 DEF Quit, vars, lockState, coroutineState, client
  <2> QED
      BY <2>1, <2>2 DEF WorkInv, Job, End, Done, Exited
<1> QED
    BY <1>1, <1>2, <1>3, <1>4 DEF Next

LEMMA WorkCorrect == Spec => []WorkInv
<1>1. LockInv /\ SumInv /\ SumIsExact /\ [Next]_vars => (SumInv /\ SumIsExact)'
    BY SumNext
<1>2. WorkInv /\ LockInv /\ SumInv /\ ThreadInv /\ [Next]_vars => WorkInv'
    BY WorkNext
<1> QED
    BY <1>1, <1>2, SumInit, WorkInit, LockCorrect, ThreadCorrect, PTL DEF Spec

\* A thread that reads JOINED, and was not asked to abort, has been through the whole
\* of run(): join does not return on the signal of mFinishEvent but on pthread_join.
THEOREM JoinCorrect == Spec => []JoinedDidItsWork
<1>1. WorkInv => JoinedDidItsWork
    BY DEF WorkInv, Job, Done, JoinedDidItsWork
<1> QED
    BY <1>1, WorkCorrect, PTL

\* join(timeout) that returns FALSE began when the thread was still running, or its
\* coroutines ended it inside run(): exec reaches MarkFinished by way of mFinishEvent,
\* and a request that comes before run() comes from the destructor alone.
THEOREM FalseCorrect == Spec => []CarefulFalseMeansRunning
<1>1. WorkInv => CarefulFalseMeansRunning
    BY DEF WorkInv, End, CarefulFalseMeansRunning
<1> QED
    BY <1>1, WorkCorrect, PTL
=============================================================================
