--------------------------- MODULE NetIoMux_proofs ---------------------------
(***************************************************************************)
(* Theorems about NetIoMux, for every number of endpoints, worker threads  *)
(* and operations: its types, its ready list, that it implements AsyncIo,  *)
(* that no operation is forgotten, and that assertions hold for an         *)
(* application that keeps to one operation per endpoint.                   *)
(***************************************************************************)
EXTENDS NetIoMux, SequenceTheorems, FiniteSetTheorems, TLAPS

\* A thread past the pop has an endpoint, and one inside the critical section
\* has one with a context.
CurIsEndpoint ==
    \A w \in Workers :
      pc[w] \in {"enter", "rd", "wr", "rearm"} => cur[w] \in Endpoints

Typed == TypeOK /\ CurIsEndpoint

-----------------------------------------------------------------------------
(* Type correctness *)

\* The updates of an operation that performIoLocked makes.
LEMMA RecordUpdates ==
    ASSUME NEW r \in Records, NEW b \in BOOLEAN, NEW c \in BOOLEAN, NEW d \in BOOLEAN
    PROVE  /\ [r EXCEPT !.err = b] \in Records
           /\ [r EXCEPT !.prov = b] \in Records
           /\ [r EXCEPT !.prov = b, !.err = c] \in Records
           /\ [r EXCEPT !.peer = b, !.err = c] \in Records
           /\ [r EXCEPT !.err = b, !.peer = c] \in Records
           /\ [r EXCEPT !.err = b, !.conn = c] \in Records
           /\ [r EXCEPT !.peer = b, !.prov = c, !.err = d] \in Records
           /\ [r EXCEPT !.peer = b, !.prov = c, !.conn = d] \in Records
BY DEF Records

LEMMA NewRecord ==
    ASSUME NEW ep \in Endpoints, NEW kind \in Kinds, NEW b \in BOOLEAN
    PROVE  [Blank EXCEPT !.ep = ep, !.kind = kind, !.peer = b] \in Records
BY DEF Blank, Records

LEMMA TypedInit == Init => Typed
<1> SUFFICES ASSUME Init PROVE Typed
    OBVIOUS
<1>1. Blank \in Records
    BY DEF Blank, Records
<1>2. TypeOK
    BY <1>1, ConstantsAssumption DEF Init, TypeOK, Statuses, AllAnswers, Locations, Failures, Ops
<1>3. CurIsEndpoint
    BY DEF Init, CurIsEndpoint
<1> QED
    BY <1>2, <1>3 DEF Typed

\* Taking one element out of a sequence.
LEMMA RemoveAtProperties ==
    ASSUME NEW S, NEW s \in Seq(S), NEW i \in DOMAIN s
    PROVE  /\ RemoveAt(s, i) \in Seq(S)
           /\ Len(RemoveAt(s, i)) = Len(s) - 1
           /\ \A j \in 1 .. Len(s) - 1 :
                RemoveAt(s, i)[j] = IF j < i THEN s[j] ELSE s[j + 1]
<1> DEFINE a == SubSeq(s, 1, i - 1)
           b == SubSeq(s, i + 1, Len(s))
<1>1. /\ a \in Seq(S) /\ Len(a) = i - 1
      /\ \A j \in 1 .. i - 1 : a[j] = s[j]
    BY SubSeqProperties, LenProperties
<1>2. /\ b \in Seq(S) /\ Len(b) = Len(s) - i
      /\ \A j \in 1 .. Len(s) - i : b[j] = s[i + j]
    BY SubSeqProperties, LenProperties
<1>3. RemoveAt(s, i) = a \o b
    BY DEF RemoveAt
<1>4. i \in 1 .. Len(s) /\ Len(s) \in Nat
    BY LenProperties
<1> HIDE DEF a, b
<1>5. /\ a \o b \in Seq(S)
      /\ Len(a \o b) = Len(a) + Len(b)
      /\ \A j \in 1 .. Len(a) + Len(b) :
           (a \o b)[j] = IF j <= Len(a) THEN a[j] ELSE b[j - Len(a)]
    BY <1>1, <1>2, ConcatProperties
<1>6. Len(a \o b) = Len(s) - 1
    BY <1>1, <1>2, <1>4, <1>5
<1>7. ASSUME NEW j \in 1 .. Len(s) - 1
      PROVE  (a \o b)[j] = IF j < i THEN s[j] ELSE s[j + 1]
    <2> DEFINE n == Len(s)
    <2>0. n \in Nat /\ i \in 1 .. n /\ j \in 1 .. n - 1
        BY <1>4
    <2>1. Len(a) = i - 1 /\ Len(b) = n - i /\ j \in 1 .. Len(a) + Len(b)
        BY <1>1, <1>2, <2>0
    <2> HIDE DEF n
    <2>2. ASSUME j < i
          PROVE  (a \o b)[j] = s[j]
        <3>1. j <= i - 1 /\ j \in 1 .. i - 1
            BY <2>0, <2>2
        <3> QED
            BY <1>1, <1>5, <2>1, <3>1
    <2>3. ASSUME ~(j < i)
          PROVE  (a \o b)[j] = s[j + 1]
        <3>1. ~(j <= i - 1) /\ j - (i - 1) \in 1 .. n - i /\ i + (j - (i - 1)) = j + 1
            BY <2>0, <2>3
        <3>2. (a \o b)[j] = b[j - (i - 1)]
            BY <1>5, <2>1, <3>1
        <3>3. \A k \in 1 .. n - i : b[k] = s[i + k]
            BY <1>2 DEF n
        <3> QED
            BY <3>1, <3>2, <3>3
    <2> QED
        BY <2>2, <2>3
<1> QED
    BY <1>3, <1>5, <1>6, <1>7

LEMMA TypedApplication ==
    ASSUME Typed, failed = "no", Application
    PROVE  Typed'
<1> USE DEF Typed, TypeOK, CurIsEndpoint, ctxVars, opVars, osVars, workerVars
<1>1. ASSUME NEW ep \in Endpoints, Join(ep) PROVE Typed'
    BY <1>1 DEF Join
<1>2. ASSUME NEW ep \in Endpoints, Close(ep) PROVE Typed'
    BY <1>2 DEF Close, Statuses
<1>3. ASSUME NEW ep \in Endpoints, Depart(ep) PROVE Typed'
    <2>1. readyList' \in Seq(Endpoints)
        BY <1>3, RemoveAtProperties DEF Depart, Unlist
    <2>2. answer' \in [Ops -> AllAnswers]
        BY <1>3 DEF Depart, AllAnswers
    <2> QED
        BY <1>3, <2>1, <2>2 DEF Depart
<1>4. ASSUME NEW ep \in Endpoints, NEW kind \in Kinds, Submit(ep, kind) PROVE Typed'
    <2>1. issued + 1 \in Ops /\ issued' \in 0 .. MaxOps
        BY <1>4, ConstantsAssumption DEF Submit, MaySubmit, Ops
    <2>2. op' \in [Ops -> Records]
        <3> DEFINE new == [Blank EXCEPT !.ep = ep, !.kind = kind,
                              !.peer = kind \in {"RECVFROM", "SENDTO", "ACCEPT"}]
        <3>1. (kind \in {"RECVFROM", "SENDTO", "ACCEPT"}) \in BOOLEAN
            OBVIOUS
        <3>2. new \in Records
            BY <3>1, NewRecord
        <3>3. op' = [op EXCEPT ![issued + 1] = new]
            BY <1>4 DEF Submit
        <3> QED
            BY <2>1, <3>2, <3>3
    <2>3. /\ rdq' \in [Endpoints -> Seq(Ops)]
          /\ wrq' \in [Endpoints -> Seq(Ops)]
        <3>1. /\ Append(rdq[ep], issued + 1) \in Seq(Ops)
              /\ Append(wrq[ep], issued + 1) \in Seq(Ops)
            BY <2>1
        <3> QED
            BY <1>4, <3>1 DEF Submit, AppendAsyncOp
    <2>4. /\ ready' \in [Endpoints -> BOOLEAN]
          /\ readyList' \in Seq(Endpoints)
        <3>1. Append(readyList, ep) \in Seq(Endpoints)
            OBVIOUS
        <3> QED
            BY <1>4, <3>1 DEF Submit, AppendAsyncOp
    <2> QED
        BY <1>4, <2>1, <2>2, <2>3, <2>4 DEF Submit
<1>5. ASSUME NEW val \in BOOLEAN, SetEnable(val) PROVE Typed'
    BY <1>5 DEF SetEnable
<1>6. ASSUME NEW w \in Workers, RunAgain(w) PROVE Typed'
    BY <1>6 DEF RunAgain, Goto, Locations
<1> QED
    BY <1>1, <1>2, <1>3, <1>4, <1>5, <1>6 DEF Application

LEMMA TypedNetwork ==
    ASSUME Typed, Network
    PROVE  Typed'
<1> USE DEF Typed, TypeOK, CurIsEndpoint, ctxVars, opVars, osVars, workerVars
<1>1. ASSUME NEW ep \in Endpoints, NetReadable(ep) PROVE Typed'
    BY <1>1 DEF NetReadable
<1>2. ASSUME NEW ep \in Endpoints, NetWritable(ep) PROVE Typed'
    BY <1>2 DEF NetWritable
<1>3. ASSUME NEW ep \in Endpoints, NetHup(ep) PROVE Typed'
    BY <1>3 DEF NetHup
<1> QED
    BY <1>1, <1>2, <1>3 DEF Network

\* Whatever performIoLocked does to an operation and its endpoint is well typed.
LEMMA TypedPerform ==
    ASSUME Typed, NEW ep \in Endpoints, NEW o \in Ops,
           Completes(ep, o) \/ WouldBlock(ep, o)
    PROVE  /\ op' \in [Ops -> Records]
           /\ status' \in [Endpoints -> Statuses]
           /\ joined' \in [Endpoints -> BOOLEAN]
           /\ readable' \in [Endpoints -> BOOLEAN]
           /\ writable' \in [Endpoints -> BOOLEAN]
           /\ hup' \in [Endpoints -> BOOLEAN]
<1>1. /\ op \in [Ops -> Records]
      /\ status \in [Endpoints -> Statuses]
      /\ joined \in [Endpoints -> BOOLEAN]
      /\ readable \in [Endpoints -> BOOLEAN]
      /\ writable \in [Endpoints -> BOOLEAN]
      /\ hup \in [Endpoints -> BOOLEAN]
    BY DEF Typed, TypeOK
<1>2. op[o] \in Records /\ op[o].peer \in BOOLEAN
    BY <1>1 DEF Records
<1>3. {"LISTENING", "ACCEPTING", "CONNECTED", "CONNECTING", "INIT", "INVALID"}
        \subseteq Statuses
    BY DEF Statuses
\* It is enough to know the new value of the operation.
<1>4. ASSUME NEW r \in Records, op' = [op EXCEPT ![o] = r]
      PROVE  op' \in [Ops -> Records]
    BY <1>1, <1>4
<1>5. CASE Reject(ep, o)
    BY <1>1, <1>2, <1>5, RecordUpdates DEF Reject
<1>6. CASE Transfer(ep, o)
    <2>1. PICK failure \in BOOLEAN, more \in BOOLEAN :
            /\ op' = [op EXCEPT ![o] = [@ EXCEPT !.prov = TRUE, !.err = failure]]
            /\ \/ readable' = [readable EXCEPT ![ep] = more] /\ UNCHANGED writable
               \/ writable' = [writable EXCEPT ![ep] = more] /\ UNCHANGED readable
        BY <1>6 DEF Transfer
    <2> QED
        BY <1>1, <1>2, <1>4, <1>6, <2>1, RecordUpdates DEF Transfer
<1>7. CASE Accept(ep, o)
    <2>1. PICK failure \in BOOLEAN :
            op' = [op EXCEPT ![o] = [@ EXCEPT !.prov = TRUE, !.err = failure]]
        BY <1>7 DEF Accept
    <2>2. op' \in [Ops -> Records]
        BY <1>2, <1>4, <2>1, RecordUpdates
    <2>3. status' \in [Endpoints -> Statuses] /\ joined' \in [Endpoints -> BOOLEAN]
        <3>1. \/ \E tep \in Endpoints, made \in {"CONNECTED", "INVALID"} :
                   /\ status' = [status EXCEPT ![tep] = made, ![ep] = "LISTENING"]
                   /\ joined' = [joined EXCEPT ![tep] = TRUE]
              \/ status' = [status EXCEPT ![ep] = "LISTENING"] /\ joined' = joined
            BY <1>7 DEF Accept
        <3>2. CASE status' = [status EXCEPT ![ep] = "LISTENING"] /\ joined' = joined
            BY <1>1, <1>3, <3>2
        <3>3. ASSUME NEW tep \in Endpoints, NEW made \in {"CONNECTED", "INVALID"},
                     status' = [status EXCEPT ![tep] = made, ![ep] = "LISTENING"],
                     joined' = [joined EXCEPT ![tep] = TRUE]
              PROVE  status' \in [Endpoints -> Statuses] /\ joined' \in [Endpoints -> BOOLEAN]
            BY <1>1, <1>3, <3>3
        <3> QED
            BY <3>1, <3>2, <3>3
    <2> QED
        BY <1>1, <1>7, <2>2, <2>3 DEF Accept
<1>8. CASE ConnectEnds(ep, o)
    <2>1. \/ op' = [op EXCEPT ![o] = [@ EXCEPT !.peer = TRUE, !.err = FALSE]]
          \/ op' = [op EXCEPT ![o] = [@ EXCEPT !.peer = TRUE, !.prov = TRUE, !.err = FALSE]]
          \/ op' = [op EXCEPT ![o] = [@ EXCEPT !.peer = TRUE, !.prov = TRUE, !.err = TRUE]]
        BY <1>8 DEF ConnectEnds
    <2>2. op' \in [Ops -> Records]
        BY <1>2, <1>4, <2>1, RecordUpdates
    <2> QED
        BY <1>1, <1>3, <1>8, <2>2 DEF ConnectEnds
<1>9. CASE ConnectFinishes(ep, o)
    <2>1. \/ op' = [op EXCEPT ![o] = [@ EXCEPT !.err = FALSE, !.conn = FALSE]]
          \/ \E errno \in BOOLEAN :
               op' = [op EXCEPT ![o] = [@ EXCEPT !.err = errno, !.peer = FALSE]]
        BY <1>9 DEF ConnectFinishes
    <2>2. op' \in [Ops -> Records]
        BY <1>2, <1>4, <2>1, RecordUpdates
    <2> QED
        BY <1>1, <1>3, <1>9, <2>2 DEF ConnectFinishes
<1>10. CASE TransferBlocks(ep, o)
    BY <1>1, <1>2, <1>10, RecordUpdates DEF TransferBlocks
<1>11. CASE AcceptBlocks(ep, o)
    BY <1>1, <1>2, <1>3, <1>11, RecordUpdates DEF AcceptBlocks
<1>12. CASE ConnectBlocks(ep, o)
    <2>1. op' = [op EXCEPT ![o] = [@ EXCEPT !.peer = TRUE, !.prov = TRUE, !.conn = TRUE]]
        BY <1>12 DEF ConnectBlocks
    <2>2. op' \in [Ops -> Records]
        BY <1>2, <1>4, <2>1, RecordUpdates
    <2> QED
        BY <1>1, <1>3, <1>12, <2>2 DEF ConnectBlocks
<1> QED
    BY <1>5, <1>6, <1>7, <1>8, <1>9, <1>10, <1>11, <1>12 DEF Completes, WouldBlock

LEMMA TypedRunOnce ==
    ASSUME Typed, NEW w \in Workers, RunOnce(w)
    PROVE  Typed'
<1> USE DEF Typed, TypeOK, CurIsEndpoint, ctxVars, opVars, osVars, workerVars
\* A thread that goes to a place outside the critical section.
<1>1. ASSUME NEW l \in {"top", "wait", "stopped"}, Goto(w, l) PROVE Typed'
    BY <1>1 DEF Goto, Locations
\* A failed assertion.
<1>2. ASSUME NEW label \in Failures, AssertFails(label) PROVE Typed'
    BY <1>2 DEF AssertFails
<1>3. AfterReady(w) \in {"top", "wait"}
    BY DEF AfterReady
<1>4. CASE Stop(w) \/ EnterDeparted(w) \/ EndDispatch(w)
    BY <1>1, <1>3, <1>4 DEF Stop, EnterDeparted, EndDispatch
<1>5. CASE EndRead(w) \/ EndWrite(w)
    BY <1>5 DEF EndRead, EndWrite, Goto, Locations
<1>6. CASE Emit(w)
    <2>1. op' \in [Ops -> Records] /\ answer' \in [Ops -> AllAnswers] /\ doneList' \in Seq(Ops)
        <3>1. CASE doneList = <<>>
            BY <1>6, <3>1 DEF Emit
        <3>2. CASE doneList # <<>>
            <4>1. Head(doneList) \in Ops /\ Tail(doneList) \in Seq(Ops)
                BY <3>2
            <4>2. Report(Head(doneList)) \in AllAnswers
                BY DEF Report, AllAnswers, Answers
            <4>3. \A o \in Ops : [Blank EXCEPT !.ep = op[o].ep, !.kind = op[o].kind] \in Records
                BY DEF Blank, Records
            <4> QED
                BY <1>6, <3>2, <4>1, <4>2, <4>3 DEF Emit
        <3> QED
            BY <3>1, <3>2
    <2> QED
        BY <1>6, <2>1 DEF Emit, Locations
<1>7. CASE PopReady(w)
    <2>1. readyList # <<>> => Head(readyList) \in Endpoints /\ Tail(readyList) \in Seq(Endpoints)
        OBVIOUS
    <2>2. (Len(readyList) - 1 >= MaxReadyLen) \in BOOLEAN
        OBVIOUS
    <2>3. /\ pc' \in [Workers -> Locations]
          /\ cur' \in [Workers -> Endpoints \union {NoEp}]
          /\ skip' \in [Workers -> BOOLEAN]
          /\ readyList' \in Seq(Endpoints)
          /\ CurIsEndpoint'
        <3>1. CASE readyList = <<>>
            <4>1. /\ pc' = [pc EXCEPT ![w] = "wait"]
                  /\ cur' = [cur EXCEPT ![w] = NoEp]
                  /\ skip' = [skip EXCEPT ![w] = FALSE]
                  /\ readyList' = readyList
                BY <1>7, <3>1 DEF PopReady
            <4> QED
                BY <4>1 DEF Locations
        <3>2. CASE readyList # <<>>
            <4> DEFINE ep == Head(readyList)
                       long == Len(readyList) - 1 >= MaxReadyLen
            <4>1. /\ pc' = [pc EXCEPT ![w] = "enter"]
                  /\ cur' = [cur EXCEPT ![w] = ep]
                  /\ skip' = [skip EXCEPT ![w] = long]
                  /\ readyList' = Tail(readyList)
                BY <1>7, <3>2 DEF PopReady
            <4>2. ep \in Endpoints /\ long \in BOOLEAN /\ Tail(readyList) \in Seq(Endpoints)
                BY <2>1, <2>2, <3>2
            <4> HIDE DEF ep, long
            <4> QED
                BY <4>1, <4>2 DEF Locations
        <3> QED
            BY <3>1, <3>2
    <2>4. UNCHANGED <<ctxVars, opVars, doneList, enable, osVars, evts, failed>>
        BY <1>7 DEF PopReady
    <2> QED
        BY <2>3, <2>4
<1>8. CASE Enter(w)
    <2>1. CASE AssertFails("ready on enter")
        BY <1>2, <2>1 DEF Failures
    <2>2. CASE ~AssertFails("ready on enter")
        <3>1. /\ pc[w] = "enter"
              /\ lock' = [lock EXCEPT ![cur[w]] = w]
              /\ ready' = [ready EXCEPT ![cur[w]] = FALSE]
              /\ pc' = [pc EXCEPT ![w] = "rd"]
              /\ UNCHANGED <<status, joined, rdq, wrq, opVars, readyList, doneList, enable,
                             osVars, cur, skip, evts, failed>>
            BY <1>8, <2>2 DEF Enter
        <3>2. cur[w] \in Endpoints
            BY <3>1
        <3> QED
            BY <3>1, <3>2 DEF Locations
    <2> QED
        BY <2>1, <2>2
<1>9. CASE PerformRead(w)
    <2>1. cur[w] \in Endpoints /\ rdq[cur[w]] \in Seq(Ops) /\ rdq[cur[w]] # <<>>
        BY <1>9 DEF PerformRead
    <2>2. Head(rdq[cur[w]]) \in Ops /\ Tail(rdq[cur[w]]) \in Seq(Ops)
        BY <2>1
    <2>3. CASE StatusAssertFails(cur[w], Head(rdq[cur[w]]))
        BY <1>2, <1>9, <2>3 DEF PerformRead, Failures
    <2>4. CASE ~StatusAssertFails(cur[w], Head(rdq[cur[w]]))
        <3>1. Completes(cur[w], Head(rdq[cur[w]])) \/ WouldBlock(cur[w], Head(rdq[cur[w]]))
            BY <1>9, <2>4 DEF PerformRead
        <3>2. /\ op' \in [Ops -> Records]
              /\ status' \in [Endpoints -> Statuses]
              /\ joined' \in [Endpoints -> BOOLEAN]
              /\ readable' \in [Endpoints -> BOOLEAN]
              /\ writable' \in [Endpoints -> BOOLEAN]
              /\ hup' \in [Endpoints -> BOOLEAN]
            BY <2>1, <2>2, <3>1, TypedPerform
        <3>3. rdq' \in [Endpoints -> Seq(Ops)] /\ doneList' \in Seq(Ops)
            <4>1. \/ /\ rdq' = [rdq EXCEPT ![cur[w]] = Tail(rdq[cur[w]])]
                     /\ doneList' = Append(doneList, Head(rdq[cur[w]]))
                  \/ UNCHANGED <<rdq, doneList>>
                BY <1>9, <2>4 DEF PerformRead
            <4>2. Append(doneList, Head(rdq[cur[w]])) \in Seq(Ops)
                BY <2>2
            <4>3. rdq' \in [Endpoints -> Seq(Ops)]
                BY <2>1, <2>2, <4>1
            <4> QED
                BY <4>1, <4>2, <4>3
        <3>4. pc' = pc \/ pc' = [pc EXCEPT ![w] = "wr"] \/ pc' = [pc EXCEPT ![w] = "rearm"]
            BY <1>9, <2>4 DEF PerformRead
        <3>5. pc' \in [Workers -> Locations] /\ CurIsEndpoint'
            BY <1>9, <2>1, <2>4, <3>4 DEF PerformRead, Locations
        <3> QED
            BY <1>9, <2>4, <3>2, <3>3, <3>5 DEF PerformRead
    <2> QED
        BY <2>3, <2>4
<1>10. CASE PerformWrite(w)
    <2>1. cur[w] \in Endpoints /\ wrq[cur[w]] \in Seq(Ops) /\ wrq[cur[w]] # <<>>
        BY <1>10 DEF PerformWrite
    <2>2. Head(wrq[cur[w]]) \in Ops /\ Tail(wrq[cur[w]]) \in Seq(Ops)
        BY <2>1
    <2>3. CASE StatusAssertFails(cur[w], Head(wrq[cur[w]]))
        BY <1>2, <1>10, <2>3 DEF PerformWrite, Failures
    <2>4. CASE ~StatusAssertFails(cur[w], Head(wrq[cur[w]]))
        <3>1. Completes(cur[w], Head(wrq[cur[w]])) \/ WouldBlock(cur[w], Head(wrq[cur[w]]))
            BY <1>10, <2>4 DEF PerformWrite
        <3>2. /\ op' \in [Ops -> Records]
              /\ status' \in [Endpoints -> Statuses]
              /\ joined' \in [Endpoints -> BOOLEAN]
              /\ readable' \in [Endpoints -> BOOLEAN]
              /\ writable' \in [Endpoints -> BOOLEAN]
              /\ hup' \in [Endpoints -> BOOLEAN]
            BY <2>1, <2>2, <3>1, TypedPerform
        <3>3. wrq' \in [Endpoints -> Seq(Ops)] /\ doneList' \in Seq(Ops)
            <4>1. \/ /\ wrq' = [wrq EXCEPT ![cur[w]] = Tail(wrq[cur[w]])]
                     /\ doneList' = Append(doneList, Head(wrq[cur[w]]))
                  \/ UNCHANGED <<wrq, doneList>>
                BY <1>10, <2>4 DEF PerformWrite
            <4>2. Append(doneList, Head(wrq[cur[w]])) \in Seq(Ops)
                BY <2>2
            <4>3. wrq' \in [Endpoints -> Seq(Ops)]
                BY <2>1, <2>2, <4>1
            <4> QED
                BY <4>1, <4>2, <4>3
        <3>4. pc' = pc \/ pc' = [pc EXCEPT ![w] = "wr"] \/ pc' = [pc EXCEPT ![w] = "rearm"]
            BY <1>10, <2>4 DEF PerformWrite
        <3>5. pc' \in [Workers -> Locations] /\ CurIsEndpoint'
            BY <1>10, <2>1, <2>4, <3>4 DEF PerformWrite, Locations
        <3> QED
            BY <1>10, <2>4, <3>2, <3>3, <3>5 DEF PerformWrite
    <2> QED
        BY <2>3, <2>4
<1>11. CASE Rearm(w)
    BY <1>3, <1>11 DEF Rearm, Interest, Locations
<1>12. CASE EpollWait(w)
    <2>1. CASE Deliverable = {}
        BY <1>12, <2>1 DEF EpollWait, Locations
    <2>2. CASE Deliverable # {}
        <3>1. PICK batch \in SUBSET Deliverable :
                /\ evts' = [evts EXCEPT ![w] = {[ep |-> ep, hup |-> hup[ep]] : ep \in batch}]
                /\ armed' = [ep \in Endpoints |-> IF ep \in batch THEN {} ELSE armed[ep]]
            BY <1>12, <2>2 DEF EpollWait
        <3>2. {[ep |-> ep, hup |-> hup[ep]] : ep \in batch} \subseteq Events
            BY DEF Deliverable, Events
        <3> QED
            BY <1>12, <2>2, <3>1, <3>2 DEF EpollWait, Locations
    <2> QED
        BY <2>1, <2>2
<1>13. CASE EpollInterrupted(w)
    BY <1>1, <1>2, <1>13 DEF EpollInterrupted, Failures, Refusals
<1>14. CASE Dispatch(w)
    <2>1. PICK e \in evts[w] :
            IF Asserts /\ ready[e.ep]
              THEN AssertFails("ready on event")
              ELSE /\ IF e.hup THEN AbortAll(e.ep) ELSE List(e.ep)
                   /\ evts' = [evts EXCEPT ![w] = @ \ {e}]
                   /\ UNCHANGED <<status, joined, lock, issued, answer, enable, osVars,
                                  pc, cur, skip, failed>>
        BY <1>14 DEF Dispatch
    <2>2. e.ep \in Endpoints
        BY DEF Events
    <2>3. CASE Asserts /\ ready[e.ep]
        BY <1>2, <2>1, <2>3 DEF Failures
    <2>4. CASE ~(Asserts /\ ready[e.ep]) /\ e.hup
        <3>1. AbortAll(e.ep)
            BY <2>1, <2>4
        <3>2. \A o \in Ops : [op[o] EXCEPT !.err = TRUE] \in Records
            BY RecordUpdates
        <3>3. op' \in [Ops -> Records]
            BY <3>1, <3>2 DEF AbortAll
        <3>4. doneList \o rdq[e.ep] \o wrq[e.ep] \in Seq(Ops)
            BY <2>2
        <3>5. /\ evts' = [evts EXCEPT ![w] = @ \ {e}]
              /\ UNCHANGED <<status, joined, lock, issued, answer, enable, osVars,
                             pc, cur, skip, failed>>
            BY <2>1, <2>4
        <3>6. rdq' \in [Endpoints -> Seq(Ops)] /\ wrq' \in [Endpoints -> Seq(Ops)]
            BY <2>2, <3>1 DEF AbortAll
        <3> QED
            BY <2>2, <3>1, <3>3, <3>4, <3>5, <3>6 DEF AbortAll
    <2>5. CASE ~(Asserts /\ ready[e.ep]) /\ ~e.hup
        <3>1. List(e.ep)
            BY <2>1, <2>5
        <3>2. /\ evts' = [evts EXCEPT ![w] = @ \ {e}]
              /\ UNCHANGED <<status, joined, lock, issued, answer, enable, osVars,
                             pc, cur, skip, failed>>
            BY <2>1, <2>5
        <3>3. Append(readyList, e.ep) \in Seq(Endpoints)
            BY <2>2
        <3> QED
            BY <2>2, <3>1, <3>2, <3>3 DEF List
    <2> QED
        BY <2>3, <2>4, <2>5
<1>15. CASE RearmFails(w)
    <2>1. CASE Asserts
        BY <1>2, <1>15, <2>1 DEF RearmFails, Failures, Refusals
    <2>2. CASE ~Asserts
        <3>1. /\ pc[w] = "rearm"
              /\ refused' = refused \union {cur[w]}
              /\ lock' = [lock EXCEPT ![cur[w]] = NoWorker]
              /\ cur' = [cur EXCEPT ![w] = NoEp]
              /\ pc' = [pc EXCEPT ![w] = AfterReady(w)]
              /\ UNCHANGED <<status, joined, ready, rdq, wrq, opVars, readyList, doneList,
                             enable, armed, readable, writable, hup, skip, evts, failed>>
            BY <1>15, <2>2 DEF RearmFails
        <3>2. cur[w] \in Endpoints
            BY <3>1
        <3>3. pc' \in [Workers -> Locations] /\ CurIsEndpoint'
            BY <1>3, <3>1 DEF Locations
        <3>4. lock' \in [Endpoints -> Workers \union {NoWorker}] /\ refused' \subseteq Endpoints
            BY <3>1, <3>2
        <3> QED
            BY <3>1, <3>3, <3>4
    <2> QED
        BY <2>1, <2>2
<1>16. CASE AcceptAsserts(w)
    BY <1>2, <1>16 DEF AcceptAsserts, Failures, Refusals
<1> QED
    BY <1>4, <1>5, <1>6, <1>7, <1>8, <1>9, <1>10, <1>11, <1>12, <1>13, <1>14, <1>15, <1>16
    DEF RunOnce

LEMMA TypedNext ==
    ASSUME Typed, [Next]_vars
    PROVE  Typed'
<1>1. CASE UNCHANGED vars
    BY <1>1 DEF Typed, TypeOK, CurIsEndpoint, vars, ctxVars, opVars, osVars, workerVars
<1> QED
    BY <1>1, TypedApplication, TypedNetwork, TypedRunOnce DEF Next, Aborted

\* Every variable keeps the type its declaration in netiomux_epoll.hpp or the
\* system gives it, whatever the threads and the network do.
THEOREM TypeCorrect == Spec => []TypeOK
<1>1. Spec => []Typed
    BY TypedInit, TypedNext, PTL DEF Spec
<1>2. Typed => TypeOK
    BY DEF Typed
<1> QED
    BY <1>1, <1>2, PTL

-----------------------------------------------------------------------------
(* The ready flag and the ready list *)

LEMMA AppendAsSet ==
    ASSUME NEW S, NEW s \in Seq(S), NEW e \in S
    PROVE  /\ ToSet(Append(s, e)) = ToSet(s) \union {e}
           /\ IsInjective(s) /\ e \notin ToSet(s) => IsInjective(Append(s, e))
<1>1. /\ DOMAIN Append(s, e) = 1 .. Len(s) + 1
      /\ \A i \in 1 .. Len(s) : Append(s, e)[i] = s[i]
      /\ Append(s, e)[Len(s) + 1] = e
      /\ DOMAIN s = 1 .. Len(s)
      /\ Len(s) \in Nat
    BY AppendProperties, LenProperties
<1> QED
    BY <1>1 DEF ToSet, IsInjective

LEMMA TailAsSet ==
    ASSUME NEW S, NEW s \in Seq(S), s # <<>>, IsInjective(s)
    PROVE  /\ ToSet(Tail(s)) = ToSet(s) \ {Head(s)}
           /\ IsInjective(Tail(s))
           /\ Head(s) \in ToSet(s)
<1>1. /\ DOMAIN Tail(s) = 1 .. Len(s) - 1
      /\ \A i \in 1 .. Len(s) - 1 : Tail(s)[i] = s[i + 1]
      /\ Head(s) = s[1]
      /\ DOMAIN s = 1 .. Len(s)
      /\ Len(s) \in Nat /\ Len(s) > 0
    BY HeadTailProperties, LenProperties, EmptySeq
<1>2. IsInjective(Tail(s)) /\ Head(s) \in ToSet(s)
    BY <1>1 DEF ToSet, IsInjective
<1>3. ASSUME NEW x \in ToSet(Tail(s)) PROVE x \in ToSet(s) \ {Head(s)}
    BY <1>1 DEF ToSet, IsInjective
<1>4. ASSUME NEW x \in ToSet(s), x # Head(s) PROVE x \in ToSet(Tail(s))
    <2>1. PICK i \in 1 .. Len(s) : s[i] = x
        BY <1>1 DEF ToSet
    <2>2. i - 1 \in 1 .. Len(s) - 1 /\ (i - 1) + 1 = i
        BY <1>1, <1>4, <2>1
    <2> QED
        BY <1>1, <2>1, <2>2 DEF ToSet
<1> QED
    BY <1>2, <1>3, <1>4

LEMMA RemoveAtAsSet ==
    ASSUME NEW S, NEW s \in Seq(S), NEW i \in DOMAIN s, IsInjective(s)
    PROVE  /\ ToSet(RemoveAt(s, i)) = ToSet(s) \ {s[i]}
           /\ IsInjective(RemoveAt(s, i))
<1> DEFINE r == RemoveAt(s, i)
<1>1. /\ r \in Seq(S) /\ Len(r) = Len(s) - 1
      /\ \A j \in 1 .. Len(s) - 1 : r[j] = IF j < i THEN s[j] ELSE s[j + 1]
      /\ DOMAIN s = 1 .. Len(s) /\ Len(s) \in Nat
    BY RemoveAtProperties, LenProperties
<1>2. DOMAIN r = 1 .. Len(s) - 1
    BY <1>1, LenProperties
<1> HIDE DEF r
\* Where the elements of r were in s.
<1> DEFINE f(j) == IF j < i THEN j ELSE j + 1
<1>6. ASSUME NEW j \in 1 .. Len(s) - 1
      PROVE  r[j] = s[f(j)] /\ f(j) \in 1 .. Len(s) /\ f(j) # i
    BY <1>1
<1>7. ASSUME NEW j \in 1 .. Len(s) - 1, NEW k \in 1 .. Len(s) - 1, f(j) = f(k)
      PROVE  j = k
    BY <1>1, <1>7
<1>8. ASSUME NEW j \in 1 .. Len(s), NEW k \in 1 .. Len(s), s[j] = s[k]
      PROVE  j = k
    BY <1>1, <1>8 DEF IsInjective
<1> HIDE DEF f
<1>3. IsInjective(r)
    <2>1. ASSUME NEW j \in 1 .. Len(s) - 1, NEW k \in 1 .. Len(s) - 1, r[j] = r[k]
          PROVE  j = k
        BY <1>6, <1>7, <1>8, <2>1
    <2> QED
        BY <1>2, <2>1 DEF IsInjective
<1>4. ASSUME NEW x \in ToSet(r) PROVE x \in ToSet(s) \ {s[i]}
    <2>1. PICK j \in 1 .. Len(s) - 1 : x = r[j]
        BY <1>2, <1>4 DEF ToSet
    <2>2. x = s[f(j)] /\ f(j) \in 1 .. Len(s) /\ f(j) # i
        BY <1>6, <2>1
    <2>3. x # s[i]
        BY <1>1, <1>8, <2>2
    <2> QED
        BY <1>1, <2>2, <2>3 DEF ToSet
<1>5. ASSUME NEW x \in ToSet(s), x # s[i] PROVE x \in ToSet(r)
    <2>1. PICK k \in 1 .. Len(s) : s[k] = x
        BY <1>1 DEF ToSet
    <2>2. CASE k < i
        BY <1>1, <1>2, <2>1, <2>2 DEF ToSet
    <2>3. CASE k > i
        <3>1. k - 1 \in 1 .. Len(s) - 1 /\ ~(k - 1 < i) /\ (k - 1) + 1 = k
            BY <1>1, <2>3
        <3> QED
            BY <1>1, <1>2, <2>1, <3>1 DEF ToSet
    <2> QED
        BY <1>1, <1>5, <2>1, <2>2, <2>3
<1> QED
    BY <1>3, <1>4, <1>5 DEF r

\* What is on its way to a worker, or armed, has a context: a departure finds
\* nothing in flight because the threads have stopped.
ContextsExist ==
    /\ \A ep \in Endpoints : ready[ep] \/ armed[ep] # {} => joined[ep]
    /\ \A w \in Workers : Holds(w) => joined[cur[w]]
    /\ \A w \in Workers : evts[w] # {} => pc[w] = "dispatch"
    /\ \A w \in Workers : \A e \in evts[w] : joined[e.ep]

Inv == Typed /\ ReadyMeansListedOnce /\ ContextsExist

LEMMA InvInit == Init => Inv
<1> SUFFICES ASSUME Init PROVE Inv
    OBVIOUS
<1>1. Typed
    BY TypedInit
<1>2. ReadyMeansListedOnce
    BY DEF Init, ReadyMeansListedOnce, IsInjective, Listed, Entering, ToSet
<1>3. ContextsExist
    BY DEF Init, ContextsExist, Holds
<1> QED
    BY <1>1, <1>2, <1>3 DEF Inv

\* A step that leaves the flags, the list, the contexts and the events alone, and
\* takes no thread to or from the pop, preserves the invariant.
LEMMA InvFrame ==
    ASSUME Inv, Typed', NEW w \in Workers, NEW l \in Locations,
           UNCHANGED <<ready, readyList, joined, cur, armed, evts>>,
           pc[w] # "enter", l # "enter",
           pc' = [pc EXCEPT ![w] = l] \/ UNCHANGED pc,
           l \in {"rd", "wr", "rearm"} => Holds(w),
           evts[w] = {} \/ UNCHANGED pc
    PROVE  Inv'
<1>1. \A v \in Workers : pc[v] = "enter" <=> pc'[v] = "enter"
    BY DEF Inv, Typed, TypeOK
<1>2. ReadyMeansListedOnce'
    BY <1>1 DEF Inv, ReadyMeansListedOnce, Listed, Entering
<1>3. \A v \in Workers : /\ Holds(v)' => Holds(v)
                         /\ evts[v] # {} => pc'[v] = pc[v]
    BY DEF Inv, Typed, TypeOK, Holds
<1>4. ContextsExist'
    BY <1>3 DEF Inv, ContextsExist
<1> QED
    BY <1>2, <1>4 DEF Inv

LEMMA InvApplication ==
    ASSUME Inv, failed = "no", Application, Typed'
    PROVE  Inv'
<1> USE DEF Inv, ContextsExist, ctxVars, opVars, osVars, workerVars
<1>1. ASSUME NEW ep \in Endpoints, Join(ep) PROVE Inv'
    <2>1. ready' = ready
        BY <1>1 DEF Join, Typed, TypeOK
    <2>2. ReadyMeansListedOnce'
        BY <1>1, <2>1 DEF Join, ReadyMeansListedOnce, Listed, Entering
    <2>3. ContextsExist'
        BY <1>1, <2>1 DEF Join, Holds, Typed, TypeOK
    <2> QED
        BY <2>2, <2>3
<1>2. ASSUME NEW ep \in Endpoints, Close(ep) PROVE Inv'
    <2>1. ReadyMeansListedOnce'
        BY <1>2 DEF Close, ReadyMeansListedOnce, Listed, Entering
    <2>2. ContextsExist'
        BY <1>2 DEF Close, Holds, Typed, TypeOK
    <2> QED
        BY <2>1, <2>2
<1>3. ASSUME NEW ep \in Endpoints, Depart(ep) PROVE Inv'
    <2>1. \A w \in Workers : pc[w] # "enter" /\ evts[w] = {} /\ ~Holds(w)
        BY <1>3 DEF Depart, Holds
    <2>2. ready' = [ready EXCEPT ![ep] = FALSE]
        BY <1>3 DEF Depart
    <2>3. IsInjective(readyList') /\ ToSet(readyList') = ToSet(readyList) \ {ep}
        <3>1. CASE ready[ep] /\ ep \in ToSet(readyList)
            BY <1>3, <3>1, RemoveAtAsSet DEF Depart, Unlist, ReadyMeansListedOnce, Typed, TypeOK
        <3>2. CASE ~(ready[ep] /\ ep \in ToSet(readyList))
            <4>1. ep \notin ToSet(readyList)
                BY <3>2 DEF ReadyMeansListedOnce, Listed
            <4>2. readyList' = readyList
                BY <1>3, <3>2 DEF Depart, Unlist
            <4> QED
                BY <4>1, <4>2 DEF ReadyMeansListedOnce
        <3> QED
            BY <3>1, <3>2
    <2>4. ReadyMeansListedOnce'
        BY <1>3, <2>1, <2>2, <2>3
        DEF Depart, ReadyMeansListedOnce, Listed, Entering, Typed, TypeOK
    <2>5. ContextsExist'
        BY <1>3, <2>1, <2>2 DEF Depart, Holds, Typed, TypeOK
    <2> QED
        BY <2>4, <2>5
<1>4. ASSUME NEW ep \in Endpoints, NEW kind \in Kinds, Submit(ep, kind) PROVE Inv'
    <2>1. joined[ep] /\ UNCHANGED <<joined, armed, evts, pc, cur>>
        BY <1>4 DEF Submit, MaySubmit
    <2>2. CASE ready[ep]
        <3>1. UNCHANGED <<ready, readyList>>
            BY <1>4, <2>2 DEF Submit, AppendAsyncOp
        <3> QED
            BY <2>1, <3>1 DEF ReadyMeansListedOnce, Listed, Entering, Holds
    <2>3. CASE ~ready[ep]
        <3>1. ready' = [ready EXCEPT ![ep] = TRUE] /\ readyList' = Append(readyList, ep)
            BY <1>4, <2>3 DEF Submit, AppendAsyncOp
        <3>2. ep \notin ToSet(readyList) /\ \A w \in Workers : ~Entering(w, ep)
            BY <2>3 DEF ReadyMeansListedOnce, Listed
        <3>3. IsInjective(readyList') /\ ToSet(readyList') = ToSet(readyList) \union {ep}
            BY <3>1, <3>2, AppendAsSet DEF ReadyMeansListedOnce, Typed, TypeOK
        <3>4. ReadyMeansListedOnce'
            BY <2>1, <3>1, <3>2, <3>3
            DEF ReadyMeansListedOnce, Listed, Entering, Typed, TypeOK
        <3>5. ContextsExist'
            BY <2>1, <3>1 DEF Holds, Typed, TypeOK
        <3> QED
            BY <3>4, <3>5
    <2> QED
        BY <2>2, <2>3
<1>5. ASSUME NEW val \in BOOLEAN, SetEnable(val) PROVE Inv'
    BY <1>5 DEF SetEnable, ReadyMeansListedOnce, Listed, Entering, Holds
<1>6. ASSUME NEW w \in Workers, RunAgain(w) PROVE Inv'
    BY <1>6, InvFrame DEF RunAgain, Goto, Locations
<1> QED
    BY <1>1, <1>2, <1>3, <1>4, <1>5, <1>6 DEF Application

LEMMA InvNetwork ==
    ASSUME Inv, Network, Typed'
    PROVE  Inv'
<1>1. UNCHANGED <<ready, readyList, joined, armed, evts, pc, cur>>
    BY DEF Network, NetReadable, NetWritable, NetHup, ctxVars, osVars, workerVars
<1> QED
    BY <1>1 DEF Inv, ReadyMeansListedOnce, ContextsExist, Listed, Entering, Holds

\* Performing an operation takes no context away.
LEMMA PerformKeepsContexts ==
    ASSUME NEW ep \in Endpoints, NEW o, joined \in [Endpoints -> BOOLEAN],
           Completes(ep, o) \/ WouldBlock(ep, o)
    PROVE  \A e \in Endpoints : joined[e] => joined'[e]
BY DEF Completes, WouldBlock, Reject, Transfer, Accept, ConnectEnds, ConnectFinishes,
       TransferBlocks, AcceptBlocks, ConnectBlocks

LEMMA InvPerform ==
    ASSUME Inv, Typed', NEW w \in Workers, PerformRead(w) \/ PerformWrite(w)
    PROVE  Inv'
<1> USE DEF ctxVars, opVars, osVars, workerVars
<1>1. Holds(w) /\ cur[w] \in Endpoints
    BY DEF PerformRead, PerformWrite, Holds, Inv, Typed, CurIsEndpoint
<1>2. /\ UNCHANGED <<ready, readyList, armed, evts, cur>>
      /\ \A e \in Endpoints : joined[e] => joined'[e]
      /\ pc' = pc \/ pc' = [pc EXCEPT ![w] = "wr"] \/ pc' = [pc EXCEPT ![w] = "rearm"]
    BY <1>1, PerformKeepsContexts
    DEF PerformRead, PerformWrite, AssertFails, Inv, Typed, TypeOK
<1>3. \A v \in Workers : /\ pc'[v] = "enter" <=> pc[v] = "enter"
                         /\ Holds(v)' <=> Holds(v)
                         /\ pc'[v] = "dispatch" <=> pc[v] = "dispatch"
    BY <1>1, <1>2 DEF Inv, Typed, TypeOK, Holds
<1>4. ReadyMeansListedOnce'
    BY <1>2, <1>3 DEF Inv, ReadyMeansListedOnce, Listed, Entering
<1>5. \A v \in Workers : Holds(v) => cur[v] \in Endpoints
    BY DEF Inv, Typed, CurIsEndpoint, Holds
<1>6. \A v \in Workers : \A e \in evts[v] : e.ep \in Endpoints
    BY DEF Inv, Typed, TypeOK, Events
<1>7. ContextsExist'
    BY <1>2, <1>3, <1>5, <1>6 DEF Inv, ContextsExist
<1> QED
    BY <1>4, <1>7 DEF Inv

\* The pop moves the only listing of an endpoint to the thread.
LEMMA InvPopReady ==
    ASSUME Inv, Typed', NEW w \in Workers, PopReady(w)
    PROVE  Inv'
<1> USE DEF PopReady, ctxVars, opVars, osVars, workerVars
<1>1. pc[w] = "pop" /\ evts[w] = {}
    BY DEF Inv, ContextsExist
<1>2. CASE readyList = <<>>
    <2>1. \A v \in Workers : /\ pc'[v] = "enter" <=> pc[v] = "enter"
                             /\ Holds(v)' <=> Holds(v)
                             /\ pc[v] = "enter" \/ Holds(v) => cur'[v] = cur[v]
        BY <1>1, <1>2 DEF Inv, Typed, TypeOK, Holds
    <2>2. ReadyMeansListedOnce'
        BY <1>2, <2>1 DEF Inv, ReadyMeansListedOnce, Listed, Entering
    <2>3. UNCHANGED <<ready, joined, armed, evts>> /\ \A v \in Workers : v # w => pc'[v] = pc[v]
        BY <1>2 DEF Inv, Typed, TypeOK
    <2>4. ContextsExist'
        BY <1>1, <2>1, <2>3 DEF Inv, ContextsExist
    <2> QED
        BY <2>2, <2>4 DEF Inv
<1>3. CASE readyList # <<>>
    <2> DEFINE ep == Head(readyList)
    <2>1. /\ ToSet(readyList') = ToSet(readyList) \ {ep}
          /\ IsInjective(readyList')
          /\ ep \in ToSet(readyList)
        <3>1. readyList \in Seq(Endpoints) /\ IsInjective(readyList)
            BY DEF Inv, Typed, TypeOK, ReadyMeansListedOnce
        <3>2. readyList' = Tail(readyList)
            BY <1>3
        <3> QED
            BY <1>3, <3>1, <3>2, TailAsSet
    <2>2. /\ pc' = [pc EXCEPT ![w] = "enter"]
          /\ cur' = [cur EXCEPT ![w] = ep]
          /\ UNCHANGED <<ready, joined, armed, evts>>
        BY <1>3
    <2>3. \A v \in Workers : ~Entering(v, ep)
        BY <2>1 DEF Inv, ReadyMeansListedOnce, Listed, Entering
    <2> HIDE DEF ep
    <2>4. ReadyMeansListedOnce'
        <3>1. \A v \in Workers : v # w => pc'[v] = pc[v] /\ cur'[v] = cur[v]
            BY <2>2 DEF Inv, Typed, TypeOK
        <3>2. pc'[w] = "enter" /\ cur'[w] = ep
            BY <2>2 DEF Inv, Typed, TypeOK
        <3> QED
            BY <1>1, <2>1, <2>2, <2>3, <3>1, <3>2
            DEF Inv, ReadyMeansListedOnce, Listed, Entering
    <2>5. ContextsExist'
        <3>1. \A v \in Workers : /\ Holds(v)' => Holds(v) /\ cur'[v] = cur[v]
                                 /\ v # w => pc'[v] = pc[v]
            BY <2>2 DEF Inv, Typed, TypeOK, Holds
        <3> QED
            BY <1>1, <2>2, <3>1 DEF Inv, ContextsExist
    <2> QED
        BY <2>4, <2>5 DEF Inv
<1> QED
    BY <1>2, <1>3

\* The thread that enters takes the flag down, and nobody else has the endpoint.
LEMMA InvEnter ==
    ASSUME Inv, Typed', NEW w \in Workers, Enter(w)
    PROVE  Inv'
<1>1. cur[w] \in Endpoints /\ pc[w] = "enter" /\ joined[cur[w]] /\ evts[w] = {}
    BY DEF Enter, Inv, Typed, CurIsEndpoint, ContextsExist
<1>2. ready[cur[w]]
    BY <1>1 DEF Inv, ReadyMeansListedOnce, Entering
<1>3. /\ ready' = [ready EXCEPT ![cur[w]] = FALSE]
      /\ pc' = [pc EXCEPT ![w] = "rd"]
      /\ UNCHANGED <<readyList, joined, cur, armed, evts>>
    BY <1>2 DEF Enter, osVars
<1>4. ReadyMeansListedOnce'
    <2>1. \A v \in Workers : pc'[v] = "enter" <=> pc[v] = "enter" /\ v # w
        BY <1>1, <1>3 DEF Inv, Typed, TypeOK
    <2>2. ~Listed(cur[w]) /\ \A v \in Workers : Entering(v, cur[w]) => v = w
        BY <1>1 DEF Inv, ReadyMeansListedOnce, Entering
    <2>3. \A ep \in Endpoints : ready'[ep] <=> ready[ep] /\ ep # cur[w]
        BY <1>1, <1>3 DEF Inv, Typed, TypeOK
    <2>4. \A ep \in Endpoints, v \in Workers :
            Entering(v, ep)' <=> Entering(v, ep) /\ v # w
        BY <1>3, <2>1 DEF Entering
    <2>5. \A ep \in Endpoints :
            ready'[ep] <=> (Listed(ep) \/ \E v \in Workers : Entering(v, ep)')
        BY <1>1, <2>2, <2>3, <2>4 DEF Inv, ReadyMeansListedOnce, Entering
    <2> QED
        BY <1>3, <2>1, <2>5 DEF Inv, ReadyMeansListedOnce, Listed
<1>5. ContextsExist'
    BY <1>1, <1>3 DEF Inv, ContextsExist, Holds, Typed, TypeOK
<1> QED
    BY <1>4, <1>5 DEF Inv

LEMMA InvEpollWait ==
    ASSUME Inv, Typed', NEW w \in Workers, EpollWait(w)
    PROVE  Inv'
<1> USE DEF EpollWait, ctxVars, opVars, osVars, workerVars
<1>1. pc[w] = "wait" /\ evts[w] = {}
    BY DEF Inv, ContextsExist
<1>2. CASE Deliverable = {}
    BY <1>1, <1>2, InvFrame DEF Locations
<1>3. CASE Deliverable # {}
    <2>1. PICK batch \in SUBSET Deliverable :
            /\ evts' = [evts EXCEPT ![w] = {[ep |-> ep, hup |-> hup[ep]] : ep \in batch}]
            /\ armed' = [ep \in Endpoints |-> IF ep \in batch THEN {} ELSE armed[ep]]
            /\ pc' = [pc EXCEPT ![w] = "dispatch"]
        BY <1>3
    <2>2. UNCHANGED <<ready, readyList, joined, cur>>
        BY <1>3
    <2>3. \A ep \in batch : ep \in Endpoints /\ joined[ep]
        BY DEF Deliverable, Inv, ContextsExist
    <2>4. \A v \in Workers : /\ pc'[v] = "enter" <=> pc[v] = "enter"
                             /\ Holds(v)' <=> Holds(v)
                             /\ v # w => pc'[v] = pc[v] /\ evts'[v] = evts[v]
        BY <1>1, <2>1 DEF Inv, Typed, TypeOK, Holds
    <2>5. ReadyMeansListedOnce'
        BY <2>2, <2>4 DEF Inv, ReadyMeansListedOnce, Listed, Entering
    <2>6. pc'[w] = "dispatch" /\ \A e \in evts'[w] : joined[e.ep]
        BY <2>1, <2>3 DEF Inv, Typed, TypeOK
    <2>7. \A ep \in Endpoints : armed'[ep] # {} => armed[ep] # {}
        BY <2>1
    <2>8. ContextsExist'
        BY <2>2, <2>4, <2>6, <2>7 DEF Inv, ContextsExist
    <2> QED
        BY <2>5, <2>8 DEF Inv
<1> QED
    BY <1>2, <1>3

\* With the assertion compiled in, an event is handled only for an endpoint that
\* is not ready: it is listed for the first time.
LEMMA InvDispatch ==
    ASSUME Asserts, Inv, Typed', NEW w \in Workers, Dispatch(w)
    PROVE  Inv'
<1>1. PICK e \in evts[w] :
        IF Asserts /\ ready[e.ep]
          THEN AssertFails("ready on event")
          ELSE /\ IF e.hup THEN AbortAll(e.ep) ELSE List(e.ep)
               /\ evts' = [evts EXCEPT ![w] = @ \ {e}]
               /\ UNCHANGED <<status, joined, lock, issued, answer, enable, osVars,
                              pc, cur, skip, failed>>
    BY DEF Dispatch
<1>2. e.ep \in Endpoints /\ joined[e.ep]
    <2>1. e \in Events
        BY DEF Inv, Typed, TypeOK
    <2> QED
        BY <2>1 DEF Events, Inv, ContextsExist
<1>3. CASE ready[e.ep]
    <2>1. AssertFails("ready on event")
        BY <1>1, <1>3
    <2>2. UNCHANGED <<ready, readyList, joined, armed, evts, pc, cur>>
        BY <2>1 DEF AssertFails, ctxVars, osVars, workerVars
    <2> QED
        BY <2>2 DEF Inv, ReadyMeansListedOnce, ContextsExist, Listed, Entering, Holds
<1>4. CASE ~ready[e.ep]
    <2>1. /\ AbortAll(e.ep) \/ List(e.ep)
          /\ evts' = [evts EXCEPT ![w] = @ \ {e}]
          /\ UNCHANGED <<joined, armed, pc, cur>>
        BY <1>1, <1>4 DEF osVars
    <2>2. \A v \in Workers : evts'[v] \subseteq evts[v]
        BY <2>1 DEF Inv, Typed, TypeOK
    <2>3. e.ep \notin ToSet(readyList) /\ \A v \in Workers : ~Entering(v, e.ep)
        BY <1>2, <1>4 DEF Inv, ReadyMeansListedOnce, Listed
    <2>4. CASE AbortAll(e.ep)
        <3>1. UNCHANGED <<ready, readyList>>
            <4>1. readyList' = readyList /\ ready' = [ready EXCEPT ![e.ep] = FALSE]
                BY <2>4 DEF AbortAll
            <4>2. ready \in [Endpoints -> BOOLEAN]
                BY DEF Inv, Typed, TypeOK
            <4> QED
                BY <1>2, <1>4, <4>1, <4>2
        <3> QED
            BY <2>1, <2>2, <3>1
            DEF Inv, ReadyMeansListedOnce, ContextsExist, Listed, Entering, Holds
    <2>5. CASE List(e.ep)
        <3>1. ready' = [ready EXCEPT ![e.ep] = TRUE] /\ readyList' = Append(readyList, e.ep)
            BY <2>5 DEF List
        <3>2. IsInjective(readyList') /\ ToSet(readyList') = ToSet(readyList) \union {e.ep}
            <4>1. readyList \in Seq(Endpoints) /\ IsInjective(readyList)
                BY DEF Inv, ReadyMeansListedOnce, Typed, TypeOK
            <4> QED
                BY <1>2, <2>3, <3>1, <4>1, AppendAsSet
        <3>3. \A ep \in Endpoints : ready'[ep] <=> ready[ep] \/ ep = e.ep
            BY <1>2, <3>1 DEF Inv, Typed, TypeOK
        <3>4. ReadyMeansListedOnce'
            BY <1>2, <2>1, <2>3, <3>2, <3>3 DEF Inv, ReadyMeansListedOnce, Listed, Entering
        <3>5. ContextsExist'
            BY <1>2, <2>1, <2>2, <3>3 DEF Inv, ContextsExist, Holds
        <3> QED
            BY <3>4, <3>5 DEF Inv
    <2> QED
        BY <2>1, <2>4, <2>5
<1> QED
    BY <1>3, <1>4

LEMMA InvRunOnce ==
    ASSUME Asserts, Inv, Typed', NEW w \in Workers, RunOnce(w)
    PROVE  Inv'
<1>1. \A v \in Workers : pc[v] # "dispatch" => evts[v] = {}
    BY DEF Inv, ContextsExist
\* An endpoint that was popped is ready, so it has a context.
<1>2. ~EnterDeparted(w)
    <2>1. CASE pc[w] = "enter"
        <3>1. cur[w] \in Endpoints /\ ready[cur[w]]
            BY <2>1 DEF Inv, Typed, CurIsEndpoint, ReadyMeansListedOnce, Entering
        <3> QED
            BY <3>1 DEF Inv, ContextsExist, EnterDeparted
    <2> QED
        BY <2>1 DEF EnterDeparted
<1>3. ASSUME NEW l \in {"top", "wr", "rearm", "stopped"}, Goto(w, l), pc[w] # "enter",
             evts[w] = {}, l \in {"wr", "rearm"} => Holds(w)
      PROVE  Inv'
    <2>1. UNCHANGED <<ready, readyList, joined, cur, armed, evts>>
          /\ pc' = [pc EXCEPT ![w] = l]
        BY <1>3 DEF Goto, ctxVars, osVars
    <2>2. l \in Locations /\ l # "enter" /\ l # "rd"
        BY DEF Locations
    <2> QED
        BY <1>3, <2>1, <2>2, InvFrame
<1>4. CASE Stop(w) \/ EndRead(w) \/ EndWrite(w) \/ EndDispatch(w)
    BY <1>1, <1>3, <1>4 DEF Stop, EndRead, EndWrite, EndDispatch, Holds
<1>5. CASE EpollInterrupted(w) \/ RearmFails(w) \/ AcceptAsserts(w)
    <2>1. \E label : AssertFails(label)
        BY <1>5 DEF EpollInterrupted, RearmFails, AcceptAsserts
    <2>2. UNCHANGED <<ready, readyList, joined, armed, evts, pc, cur>>
        BY <2>1 DEF AssertFails, ctxVars, osVars, workerVars
    <2> QED
        BY <2>2 DEF Inv, ReadyMeansListedOnce, ContextsExist, Listed, Entering, Holds
<1>6. CASE Emit(w)
    <2>1. /\ UNCHANGED <<ready, readyList, joined, cur, armed, evts>>
          /\ pc[w] = "top" /\ pc' = [pc EXCEPT ![w] = "pop"]
        BY <1>6 DEF Emit, ctxVars, osVars
    <2> QED
        BY <1>1, <2>1, InvFrame DEF Locations
<1>7. CASE Rearm(w)
    <2>1. /\ UNCHANGED <<ready, readyList, joined, evts>>
          /\ pc[w] = "rearm" /\ pc' = [pc EXCEPT ![w] = AfterReady(w)]
          /\ cur' = [cur EXCEPT ![w] = NoEp]
          /\ \A ep \in Endpoints : ep # cur[w] => armed'[ep] = armed[ep]
        BY <1>7 DEF Rearm, Inv, Typed, TypeOK
    <2>2. AfterReady(w) \in {"top", "wait"}
        BY DEF AfterReady
    <2>3. \A v \in Workers : /\ pc'[v] = "enter" <=> pc[v] = "enter"
                             /\ v # w => cur'[v] = cur[v] /\ pc'[v] = pc[v]
        BY <2>1, <2>2 DEF Inv, Typed, TypeOK
    <2>4. joined[cur[w]] /\ ~Holds(w)'
        BY <2>1, <2>2 DEF Inv, ContextsExist, Holds, Typed, TypeOK
    <2>5. ReadyMeansListedOnce'
        BY <2>1, <2>3 DEF Inv, ReadyMeansListedOnce, Listed, Entering
    <2>6. ContextsExist'
        <3>1. \A v \in Workers : Holds(v)' => Holds(v) /\ v # w
            BY <2>3, <2>4 DEF Holds
        <3>2. \A ep \in Endpoints : ready'[ep] \/ armed'[ep] # {} => joined'[ep]
            BY <2>1, <2>4 DEF Inv, ContextsExist
        <3>3. \A v \in Workers : evts'[v] # {} => pc'[v] = "dispatch"
            BY <1>1, <2>1, <2>3
        <3> QED
            BY <2>1, <2>3, <3>1, <3>2, <3>3 DEF Inv, ContextsExist
    <2> QED
        BY <2>5, <2>6 DEF Inv
<1> QED
    BY <1>2, <1>4, <1>5, <1>6, <1>7, InvPopReady, InvEnter, InvPerform, InvEpollWait, InvDispatch
    DEF RunOnce

LEMMA InvNext ==
    ASSUME Asserts, Inv, [Next]_vars
    PROVE  Inv'
<1>1. Typed'
    BY TypedNext DEF Inv
<1>2. CASE UNCHANGED vars
    <2>1. UNCHANGED <<ready, readyList, joined, armed, evts, pc, cur>>
        BY <1>2 DEF vars, ctxVars, osVars, workerVars
    <2> QED
        BY <1>1, <2>1
        DEF Inv, ReadyMeansListedOnce, ContextsExist, Listed, Entering, Holds
<1>3. CASE Next
    BY <1>1, <1>2, <1>3, InvApplication, InvNetwork, InvRunOnce DEF Next, Aborted
<1> QED
    BY <1>2, <1>3

\* With the assertions compiled in, and up to the failure of one, the ready flag
\* of an AsyncContext, the ready list and the threads between the pop and the lock
\* agree, however the threads interleave and whatever the application submits.
THEOREM ReadyListCorrect == ASSUME Asserts PROVE Spec => []ReadyMeansListedOnce
<1>1. Inv /\ [Next]_vars => Inv'
    BY InvNext
<1>2. Inv => ReadyMeansListedOnce
    BY DEF Inv
<1> QED
    BY <1>1, <1>2, InvInit, PTL DEF Spec

-----------------------------------------------------------------------------
(* NetIoMux implements AsyncIo, with the assertions compiled in or not, with *)
(* signals and with departures; and no operation is forgotten.               *)
(*                                                                           *)
(* The mapping of NetIoMux's Promise is repeated with AsyncIo_proofs in the  *)
(* place of AsyncIo, so that the lemmas of that module speak of the          *)
(* multiplexer: its inductive invariant Io!Inv holds along every behaviour   *)
(* that refines AsyncIo, and tells how the queues of the multiplexer, its    *)
(* completion list and the answers are related.                              *)

\* The queue each operation submitted was appended to.
Home == [o \in Ops |-> IF o <= issued THEN HomeOf(o) ELSE Nowhere]
Answered == {o \in Ops : answer[o] \in Answers}
Abandoned == {o \in Ops : answer[o] = "abandoned"}

Io == INSTANCE AsyncIo_proofs WITH
    home <- Home, queue <- OpsIn, done <- doneList, answered <- Answered, dropped <- Abandoned

\* The read and the write queue of an endpoint, as AsyncIo names them.
ReadPlace(ep) == [ep |-> ep, dir |-> "read"]
WritePlace(ep) == [ep |-> ep, dir |-> "write"]

\* An endpoint without a context has nothing queued.
EmptyUnlessJoined == \A ep \in Endpoints : ~joined[ep] => rdq[ep] = <<>> /\ wrq[ep] = <<>>

\* The refinement's invariant.
Implements == Typed /\ Io!Inv /\ EmptyUnlessJoined

-----------------------------------------------------------------------------
(* The refinement mapping and the variables it depends on *)

LEMMA QueueOfPlace ==
    ASSUME NEW ep \in Endpoints
    PROVE  /\ ReadPlace(ep) \in Io!Places /\ OpsIn[ReadPlace(ep)] = rdq[ep]
           /\ WritePlace(ep) \in Io!Places /\ OpsIn[WritePlace(ep)] = wrq[ep]
           /\ ReadPlace(ep) # WritePlace(ep)
BY DEF ReadPlace, WritePlace, OpsIn, Io!Places, Io!Directions

LEMMA EveryPlace ==
    ASSUME NEW p \in Io!Places
    PROVE  \E ep \in Endpoints : p = ReadPlace(ep) \/ p = WritePlace(ep)
BY DEF Io!Places, Io!Directions, ReadPlace, WritePlace

LEMMA MappingFrame ==
    ASSUME UNCHANGED <<issued, op, answer, rdq, wrq, doneList>>
    PROVE  UNCHANGED Io!vars
BY DEF Io!vars, Home, HomeOf, OpsIn, Answered, Abandoned

\* The queues after a step, place by place.
LEMMA SameQueues ==
    ASSUME NEW Q, DOMAIN Q = Io!Places, Q = [p \in DOMAIN Q |-> Q[p]],
           \A ep \in Endpoints : Q[ReadPlace(ep)] = rdq'[ep] /\ Q[WritePlace(ep)] = wrq'[ep]
    PROVE  OpsIn' = Q
<1>1. ASSUME NEW p \in Io!Places
      PROVE  Q[p] = IF p.dir = "read" THEN rdq'[p.ep] ELSE wrq'[p.ep]
  <2>1. PICK ep \in Endpoints : p = ReadPlace(ep) \/ p = WritePlace(ep)
      BY EveryPlace
  <2>2. CASE p = ReadPlace(ep)
    <3>1. p.dir = "read" /\ p.ep = ep /\ Q[p] = rdq'[ep]
        BY <2>2 DEF ReadPlace
    <3> QED
        BY <3>1
  <2>3. CASE p = WritePlace(ep)
    <3>1. p.dir # "read" /\ p.ep = ep /\ Q[p] = wrq'[ep]
        BY <2>3 DEF WritePlace
    <3> QED
        BY <3>1
  <2> QED
      BY <2>1, <2>2, <2>3
<1>2. Io!Places = [ep : Endpoints, dir : {"read", "write"}]
    BY DEF Io!Places, Io!Directions
<1> QED
    BY <1>1, <1>2 DEF OpsIn

LEMMA PlacesDiffer ==
    ASSUME NEW ep \in Endpoints, NEW e \in Endpoints
    PROVE  /\ ReadPlace(e) # WritePlace(ep)
           /\ ReadPlace(e) = ReadPlace(ep) <=> e = ep
           /\ WritePlace(e) = WritePlace(ep) <=> e = ep
BY DEF ReadPlace, WritePlace

LEMMA OpsInDomain == DOMAIN OpsIn = Io!Places /\ OpsIn = [p \in Io!Places |-> OpsIn[p]]
BY DEF OpsIn, Io!Places, Io!Directions

LEMMA ReadQueueUpdate ==
    ASSUME NEW ep \in Endpoints, NEW s, rdq' = [rdq EXCEPT ![ep] = s], UNCHANGED wrq, Typed
    PROVE  OpsIn' = [OpsIn EXCEPT ![ReadPlace(ep)] = s]
<1> DEFINE Q == [OpsIn EXCEPT ![ReadPlace(ep)] = s]
<1>1. DOMAIN Q = Io!Places /\ Q = [p \in DOMAIN Q |-> Q[p]]
    BY OpsInDomain
<1>2. ASSUME NEW e \in Endpoints
      PROVE  Q[ReadPlace(e)] = rdq'[e] /\ Q[WritePlace(e)] = wrq'[e]
    BY QueueOfPlace, PlacesDiffer, OpsInDomain DEF Typed, TypeOK
<1> HIDE DEF Q
<1>3. OpsIn' = Q
    BY <1>1, <1>2, SameQueues
<1> QED
    BY <1>3 DEF Q

LEMMA WriteQueueUpdate ==
    ASSUME NEW ep \in Endpoints, NEW s, wrq' = [wrq EXCEPT ![ep] = s], UNCHANGED rdq, Typed
    PROVE  OpsIn' = [OpsIn EXCEPT ![WritePlace(ep)] = s]
<1> DEFINE Q == [OpsIn EXCEPT ![WritePlace(ep)] = s]
<1>1. DOMAIN Q = Io!Places /\ Q = [p \in DOMAIN Q |-> Q[p]]
    BY OpsInDomain
<1>2. ASSUME NEW e \in Endpoints
      PROVE  Q[ReadPlace(e)] = rdq'[e] /\ Q[WritePlace(e)] = wrq'[e]
    BY QueueOfPlace, PlacesDiffer, OpsInDomain DEF Typed, TypeOK
<1> HIDE DEF Q
<1>3. OpsIn' = Q
    BY <1>1, <1>2, SameQueues
<1> QED
    BY <1>3 DEF Q

LEMMA BothQueuesEmptied ==
    ASSUME NEW ep \in Endpoints, rdq' = [rdq EXCEPT ![ep] = <<>>],
           wrq' = [wrq EXCEPT ![ep] = <<>>], Typed
    PROVE  OpsIn' = [OpsIn EXCEPT ![ReadPlace(ep)] = <<>>, ![WritePlace(ep)] = <<>>]
<1> DEFINE Q == [OpsIn EXCEPT ![ReadPlace(ep)] = <<>>, ![WritePlace(ep)] = <<>>]
<1>1. DOMAIN Q = Io!Places /\ Q = [p \in DOMAIN Q |-> Q[p]]
    BY OpsInDomain
<1>2. ASSUME NEW e \in Endpoints
      PROVE  Q[ReadPlace(e)] = rdq'[e] /\ Q[WritePlace(e)] = wrq'[e]
    BY QueueOfPlace, PlacesDiffer, OpsInDomain DEF Typed, TypeOK
<1> HIDE DEF Q
<1>3. OpsIn' = Q
    BY <1>1, <1>2, SameQueues
<1> QED
    BY <1>3 DEF Q

-----------------------------------------------------------------------------
(* Steps of the application *)

\* What waits in a queue was submitted there and has no answer; what completed has none.
LEMMA QueuedAreUnanswered ==
    ASSUME Implements
    PROVE  /\ \A ep \in Endpoints : \A o \in ToSet(rdq[ep]) :
                o \in 1 .. issued /\ answer[o] = "none" /\ HomeOf(o) = ReadPlace(ep)
           /\ \A ep \in Endpoints : \A o \in ToSet(wrq[ep]) :
                o \in 1 .. issued /\ answer[o] = "none" /\ HomeOf(o) = WritePlace(ep)
           /\ \A o \in ToSet(doneList) : o \in 1 .. issued /\ answer[o] = "none"
<1>1. /\ Io!Known(issued, Home, OpsIn, doneList, Answered, Abandoned)
      /\ Io!Sorted(Home, OpsIn, doneList, Answered)
      /\ Io!Apart(OpsIn, doneList, Answered, Abandoned)
    BY DEF Implements, Io!Inv, Io!Good
<1>2. /\ answer \in [Ops -> AllAnswers] /\ issued \in Nat /\ doneList \in Seq(Ops)
      /\ \A ep \in Endpoints : rdq[ep] \in Seq(Ops) /\ wrq[ep] \in Seq(Ops)
    BY DEF Implements, Typed, TypeOK
<1>3. ASSUME NEW s \in Seq(Ops), NEW o \in ToSet(s) PROVE o \in Ops /\ o \in Int
  <2>1. \A i \in DOMAIN s : s[i] \in Ops
      BY ElementOfSeq, LenProperties
  <2> QED
      BY <2>1 DEF ToSet, Ops
<1>4. ASSUME NEW o \in Ops, o \notin Answered, o \notin Abandoned PROVE answer[o] = "none"
    BY <1>2, <1>4 DEF Answered, Abandoned, AllAnswers
<1>5. ASSUME NEW p \in Io!Places, OpsIn[p] \in Seq(Ops), NEW o \in ToSet(OpsIn[p])
      PROVE  o \in 1 .. issued /\ answer[o] = "none" /\ HomeOf(o) = p
  <2>1. o \in Ops /\ o \in Int
      BY <1>3, <1>5
  <2>2. o <= issued /\ Home[o] = p
      BY <1>1 DEF Io!Known, Io!ToSet, ToSet
  <2>3. o \notin Abandoned
      BY <1>1 DEF Io!Apart, Io!ToSet, ToSet
  <2>4. o \notin Answered
      BY <1>1, <2>1 DEF Io!Sorted, Io!Before, Io!ToSet, ToSet
  <2>5. HomeOf(o) = p
      BY <2>1, <2>2 DEF Home
  <2> QED
      BY <1>2, <1>4, <2>1, <2>2, <2>3, <2>4, <2>5 DEF Ops
<1>6. ASSUME NEW o \in ToSet(doneList) PROVE o \in 1 .. issued /\ answer[o] = "none"
  <2>1. o \in Ops /\ o \in Int
      BY <1>2, <1>3
  <2>2. o <= issued
      BY <1>1 DEF Io!Known, Io!ToSet, ToSet
  <2>3. o \notin Abandoned
      BY <1>1 DEF Io!Apart, Io!ToSet, ToSet
  <2>4. o \notin Answered
      BY <1>1, <2>1 DEF Io!Sorted, Io!Before, Io!ToSet, ToSet
  <2> QED
      BY <1>2, <1>4, <2>1, <2>2, <2>3, <2>4 DEF Ops
<1> QED
    BY <1>2, <1>5, <1>6, QueueOfPlace

LEMMA ImplementsInit == Init => Implements /\ Io!Init
<1> SUFFICES ASSUME Init PROVE Implements /\ Io!Init
    OBVIOUS
<1>1. Typed
    BY TypedInit
<1>2. Io!Init
  <2>1. Home = [o \in Ops |-> Nowhere]
      BY ConstantsAssumption DEF Init, Home, Ops
  <2>2. OpsIn = [p \in Io!Places |-> <<>>]
      BY DEF Init, OpsIn, Io!Places, Io!Directions
  <2>3. Answered = {} /\ Abandoned = {}
      BY DEF Init, Answered, Abandoned, Answers
  <2> QED
      BY <2>1, <2>2, <2>3 DEF Init, Io!Init, Io!Ops, Ops, Io!Nowhere, Nowhere
<1>3. Io!Inv
    BY <1>2, Io!InvInit, ConstantsAssumption
<1>4. EmptyUnlessJoined
    BY DEF Init, EmptyUnlessJoined
<1> QED
    BY <1>1, <1>2, <1>3, <1>4 DEF Implements

\* A context is new: nothing is queued before it and nothing after it.
LEMMA JoinStutters ==
    ASSUME Implements, NEW ep \in Endpoints, Join(ep)
    PROVE  UNCHANGED Io!vars
<1>1. rdq' = rdq /\ wrq' = wrq
    BY DEF Join, Implements, EmptyUnlessJoined, Typed, TypeOK
<1> QED
    BY <1>1, MappingFrame DEF Join, opVars

LEMMA SubmitSubmits ==
    ASSUME Implements, Typed', NEW ep \in Endpoints, NEW kind \in Kinds, Submit(ep, kind)
    PROVE  \E p \in Io!Places : Io!Submit(p)
<1> DEFINE o == issued + 1
           p == IF kind \in ReadKinds THEN ReadPlace(ep) ELSE WritePlace(ep)
           r == [Blank EXCEPT !.ep = ep, !.kind = kind,
                              !.peer = kind \in {"RECVFROM", "SENDTO", "ACCEPT"}]
<1>1. issued < MaxOps /\ issued \in Nat /\ o \in Ops
    BY ConstantsAssumption DEF Submit, MaySubmit, Implements, Typed, TypeOK, Ops
<1>2. p \in Io!Places
    BY QueueOfPlace
<1>3. op' = [op EXCEPT ![o] = r] /\ issued' = o /\ UNCHANGED <<answer, doneList>>
    BY DEF Submit, opVars
<1>4. r.ep = ep /\ r.kind = kind
    BY DEF Blank
<1> HIDE DEF r
<1>5. Home' = [Home EXCEPT ![o] = p]
  <2>1. op'[o] = r /\ \A x \in Ops : x # o => op'[x] = op[x]
      BY <1>1, <1>3 DEF Implements, Typed, TypeOK
  <2>2. p = [ep |-> op'[o].ep, dir |-> IF op'[o].kind \in ReadKinds THEN "read" ELSE "write"]
      BY <1>4, <2>1 DEF ReadPlace, WritePlace
  <2>3. ASSUME NEW x \in Ops, x # o PROVE Home'[x] = Home[x]
    <3>1. x <= o <=> x <= issued
        BY <1>1, <2>3 DEF Ops
    <3> QED
        BY <1>3, <2>1, <2>3, <3>1 DEF Home, HomeOf
  <2>4. Home'[o] = p
      BY <1>1, <1>3, <2>2 DEF Home, HomeOf
  <2> HIDE DEF p, o
  <2>5. Home' = [x \in Ops |-> Home'[x]] /\ Home = [x \in Ops |-> Home[x]]
      BY DEF Home
  <2> QED
      BY <1>1, <2>3, <2>4, <2>5
<1>6. OpsIn' = [OpsIn EXCEPT ![p] = Append(OpsIn[p], o)]
  <2>1. CASE kind \in ReadKinds
    <3>1. rdq' = [rdq EXCEPT ![ep] = Append(rdq[ep], o)] /\ UNCHANGED wrq
        BY <2>1 DEF Submit, AppendAsyncOp
    <3> QED
        BY <2>1, <3>1, ReadQueueUpdate, QueueOfPlace DEF Implements
  <2>2. CASE kind \notin ReadKinds
    <3>1. wrq' = [wrq EXCEPT ![ep] = Append(wrq[ep], o)] /\ UNCHANGED rdq
        BY <2>2 DEF Submit, AppendAsyncOp
    <3> QED
        BY <2>2, <3>1, WriteQueueUpdate, QueueOfPlace DEF Implements
  <2> QED
      BY <2>1, <2>2
<1> HIDE DEF p
<1>7. UNCHANGED <<Answered, Abandoned>>
    BY <1>3 DEF Answered, Abandoned
<1>8. Io!Submit(p)
    BY <1>1, <1>3, <1>5, <1>6, <1>7 DEF Io!Submit
<1> QED
    BY <1>2, <1>8

LEMMA DepartDrops ==
    ASSUME Implements, NEW ep \in Endpoints, Depart(ep)
    PROVE  Io!Drop(ep)
<1>1. OpsIn' = [OpsIn EXCEPT ![ReadPlace(ep)] = <<>>, ![WritePlace(ep)] = <<>>]
    BY BothQueuesEmptied DEF Depart, Implements
<1>2. UNCHANGED <<issued, Home, doneList>>
    BY DEF Depart, Home, HomeOf
<1> DEFINE gone == ToSet(rdq[ep]) \union ToSet(wrq[ep])
<1>3. ASSUME NEW o \in gone PROVE o \in Ops /\ answer[o] = "none"
    BY QueuedAreUnanswered, ConstantsAssumption DEF Implements, Typed, TypeOK, Ops
<1>4. \A o \in Ops : answer'[o] = IF o \in gone THEN "abandoned" ELSE answer[o]
    BY DEF Depart
<1> HIDE DEF gone
<1>5. Answered' = Answered
    BY <1>3, <1>4 DEF Answered, Answers
<1>6. Abandoned' = Abandoned \union gone
    BY <1>3, <1>4 DEF Abandoned
<1>7. gone = Io!ToSet(OpsIn[ReadPlace(ep)]) \union Io!ToSet(OpsIn[WritePlace(ep)])
    BY QueueOfPlace DEF gone, Io!ToSet, ToSet
<1> QED
    BY <1>1, <1>2, <1>5, <1>6, <1>7 DEF Io!Drop, ReadPlace, WritePlace

-----------------------------------------------------------------------------
(* Steps of a worker *)

\* performIoLocked leaves the endpoint and the kind of every operation.
LEMMA PerformKeepsHome ==
    ASSUME Typed, NEW ep \in Endpoints, NEW o \in Ops, Completes(ep, o) \/ WouldBlock(ep, o)
    PROVE  \A x \in Ops : op'[x].ep = op[x].ep /\ op'[x].kind = op[x].kind
<1>1. op \in [Ops -> Records] /\ op[o] \in Records
    BY DEF Typed, TypeOK
<1>2. ASSUME NEW r, r.ep = op[o].ep, r.kind = op[o].kind, op' = [op EXCEPT ![o] = r]
      PROVE  \A x \in Ops : op'[x].ep = op[x].ep /\ op'[x].kind = op[x].kind
    BY <1>1, <1>2
<1>3. CASE Reject(ep, o)
    BY <1>1, <1>2, <1>3 DEF Reject, Records
<1>4. CASE Transfer(ep, o)
    BY <1>1, <1>2, <1>4 DEF Transfer, Records
<1>5. CASE Accept(ep, o)
    BY <1>1, <1>2, <1>5 DEF Accept, Records
<1>6. CASE ConnectEnds(ep, o)
    BY <1>1, <1>2, <1>6 DEF ConnectEnds, Records
<1>7. CASE ConnectFinishes(ep, o)
    BY <1>1, <1>2, <1>7 DEF ConnectFinishes, Records
<1>8. CASE TransferBlocks(ep, o)
    BY <1>1, <1>2, <1>8 DEF TransferBlocks, Records
<1>9. CASE AcceptBlocks(ep, o)
    BY <1>1, <1>2, <1>9 DEF AcceptBlocks, Records
<1>10. CASE ConnectBlocks(ep, o)
    BY <1>1, <1>2, <1>10 DEF ConnectBlocks, Records
<1> QED
    BY <1>3, <1>4, <1>5, <1>6, <1>7, <1>8, <1>9, <1>10 DEF Completes, WouldBlock

\* An assertion that fails leaves everything but the label.
LEMMA AssertFailsStutters ==
    ASSUME NEW label, AssertFails(label)
    PROVE  UNCHANGED Io!vars
BY MappingFrame DEF AssertFails, ctxVars, opVars

LEMMA GotoStutters ==
    ASSUME NEW w \in Workers, NEW l, Goto(w, l)
    PROVE  UNCHANGED Io!vars
BY MappingFrame DEF Goto, ctxVars, opVars

LEMMA PerformReadCompletes ==
    ASSUME Implements, Typed', NEW w \in Workers, PerformRead(w)
    PROVE  UNCHANGED Io!vars \/ \E p \in Io!Places : Io!Complete(p)
<1> DEFINE ep == cur[w]
           o == Head(rdq[ep])
<1>1. ep \in Endpoints /\ rdq[ep] \in Seq(Ops) /\ rdq[ep] # <<>>
    BY DEF PerformRead, Implements, Typed, TypeOK, CurIsEndpoint
<1>2. o \in Ops
    BY <1>1
<1>3. CASE StatusAssertFails(ep, o)
    BY <1>3, AssertFailsStutters DEF PerformRead
<1>4. CASE ~StatusAssertFails(ep, o)
  <2>1. \/ /\ Completes(ep, o)
           /\ rdq' = [rdq EXCEPT ![ep] = Tail(rdq[ep])]
           /\ doneList' = Append(doneList, o)
        \/ WouldBlock(ep, o) /\ UNCHANGED <<rdq, doneList>>
      BY <1>4 DEF PerformRead
  <2>2. UNCHANGED <<wrq, issued, answer>>
      BY <1>4 DEF PerformRead
  <2>3. \A x \in Ops : op'[x].ep = op[x].ep /\ op'[x].kind = op[x].kind
      BY <1>1, <1>2, <2>1, PerformKeepsHome DEF Implements
  <2>4. UNCHANGED <<issued, Home, Answered, Abandoned>>
      BY <2>2, <2>3 DEF Home, HomeOf, Answered, Abandoned
  <2> HIDE DEF o
  <2>5. CASE UNCHANGED <<rdq, doneList>>
      BY <2>2, <2>4, <2>5 DEF Io!vars, OpsIn
  <2>6. CASE rdq' = [rdq EXCEPT ![ep] = Tail(rdq[ep])] /\ doneList' = Append(doneList, o)
    <3>1. OpsIn' = [OpsIn EXCEPT ![ReadPlace(ep)] = Tail(OpsIn[ReadPlace(ep)])]
        BY <1>1, <2>2, <2>6, ReadQueueUpdate, QueueOfPlace DEF Implements
    <3>2. OpsIn[ReadPlace(ep)] # <<>> /\ o = Head(OpsIn[ReadPlace(ep)])
        BY <1>1, QueueOfPlace DEF o
    <3>3. Io!Complete(ReadPlace(ep))
        BY <2>4, <2>6, <3>1, <3>2 DEF Io!Complete
    <3> QED
        BY <1>1, <3>3, QueueOfPlace
  <2> QED
      BY <2>1, <2>5, <2>6
<1> QED
    BY <1>3, <1>4

LEMMA PerformWriteCompletes ==
    ASSUME Implements, Typed', NEW w \in Workers, PerformWrite(w)
    PROVE  UNCHANGED Io!vars \/ \E p \in Io!Places : Io!Complete(p)
<1> DEFINE ep == cur[w]
           o == Head(wrq[ep])
<1>1. ep \in Endpoints /\ wrq[ep] \in Seq(Ops) /\ wrq[ep] # <<>>
    BY DEF PerformWrite, Implements, Typed, TypeOK, CurIsEndpoint
<1>2. o \in Ops
    BY <1>1
<1>3. CASE StatusAssertFails(ep, o)
    BY <1>3, AssertFailsStutters DEF PerformWrite
<1>4. CASE ~StatusAssertFails(ep, o)
  <2>1. \/ /\ Completes(ep, o)
           /\ wrq' = [wrq EXCEPT ![ep] = Tail(wrq[ep])]
           /\ doneList' = Append(doneList, o)
        \/ WouldBlock(ep, o) /\ UNCHANGED <<wrq, doneList>>
      BY <1>4 DEF PerformWrite
  <2>2. UNCHANGED <<rdq, issued, answer>>
      BY <1>4 DEF PerformWrite
  <2>3. \A x \in Ops : op'[x].ep = op[x].ep /\ op'[x].kind = op[x].kind
      BY <1>1, <1>2, <2>1, PerformKeepsHome DEF Implements
  <2>4. UNCHANGED <<issued, Home, Answered, Abandoned>>
      BY <2>2, <2>3 DEF Home, HomeOf, Answered, Abandoned
  <2> HIDE DEF o
  <2>5. CASE UNCHANGED <<wrq, doneList>>
      BY <2>2, <2>4, <2>5 DEF Io!vars, OpsIn
  <2>6. CASE wrq' = [wrq EXCEPT ![ep] = Tail(wrq[ep])] /\ doneList' = Append(doneList, o)
    <3>1. OpsIn' = [OpsIn EXCEPT ![WritePlace(ep)] = Tail(OpsIn[WritePlace(ep)])]
        BY <1>1, <2>2, <2>6, WriteQueueUpdate, QueueOfPlace DEF Implements
    <3>2. OpsIn[WritePlace(ep)] # <<>> /\ o = Head(OpsIn[WritePlace(ep)])
        BY <1>1, QueueOfPlace DEF o
    <3>3. Io!Complete(WritePlace(ep))
        BY <2>4, <2>6, <3>1, <3>2 DEF Io!Complete
    <3> QED
        BY <1>1, <3>3, QueueOfPlace
  <2> QED
      BY <2>1, <2>5, <2>6
<1> QED
    BY <1>3, <1>4

LEMMA EmitAnswers ==
    ASSUME Implements, NEW w \in Workers, Emit(w)
    PROVE  UNCHANGED Io!vars \/ Io!Answer
<1>1. CASE doneList = <<>>
  <2>1. UNCHANGED <<issued, op, answer, rdq, wrq, doneList>>
      BY <1>1 DEF Emit, ctxVars
  <2> QED
      BY <2>1, MappingFrame
<1>2. CASE doneList # <<>>
  <2> DEFINE o == Head(doneList)
             r == [Blank EXCEPT !.ep = op[o].ep, !.kind = op[o].kind]
             a == Report(o)
  <2>1. /\ doneList' = Tail(doneList) /\ answer' = [answer EXCEPT ![o] = a]
        /\ op' = [op EXCEPT ![o] = r] /\ UNCHANGED <<issued, rdq, wrq>>
      BY <1>2 DEF Emit, ctxVars
  <2>2. r.ep = op[o].ep /\ r.kind = op[o].kind /\ a \in Answers
      BY DEF Blank, Report, Answers
  <2>3. o \in ToSet(doneList) /\ o \in Ops
    <3>1. doneList \in Seq(Ops)
        BY DEF Implements, Typed, TypeOK
    <3>2. 1 \in DOMAIN doneList /\ o = doneList[1]
        BY <1>2, <3>1, HeadTailProperties, LenProperties, EmptySeq
    <3> QED
        BY <3>1, <3>2, ElementOfSeq DEF ToSet
  <2>4. answer[o] = "none"
      BY <2>3, QueuedAreUnanswered
  <2>5. op \in [Ops -> Records] /\ answer \in [Ops -> AllAnswers]
      BY DEF Implements, Typed, TypeOK
  <2> HIDE DEF r, a
  <2>6. Home' = Home
    <3>1. \A x \in Ops : op'[x].ep = op[x].ep /\ op'[x].kind = op[x].kind
        BY <2>1, <2>2, <2>3, <2>5
    <3> QED
        BY <2>1, <3>1 DEF Home, HomeOf
  <2>7. Answered' = Answered \union {o} /\ Abandoned' = Abandoned
    <3>1. \A x \in Ops : answer'[x] = IF x = o THEN a ELSE answer[x]
        BY <2>1, <2>3, <2>5
    <3> HIDE DEF o
    <3>2. "none" \notin Answers /\ "abandoned" \notin Answers
        BY DEF Answers
    <3> QED
        BY <2>2, <2>3, <2>4, <3>1, <3>2 DEF Answered, Abandoned
  <2>8. OpsIn' = OpsIn
      BY <2>1 DEF OpsIn
  <2> QED
      BY <1>2, <2>1, <2>6, <2>7, <2>8 DEF Io!Answer
<1> QED
    BY <1>1, <1>2

LEMMA DispatchAborts ==
    ASSUME Implements, NEW w \in Workers, Dispatch(w)
    PROVE  UNCHANGED Io!vars \/ \E ep \in Endpoints : Io!Abort(ep)
<1>1. PICK e \in evts[w] :
        IF Asserts /\ ready[e.ep]
          THEN AssertFails("ready on event")
          ELSE /\ IF e.hup THEN AbortAll(e.ep) ELSE List(e.ep)
               /\ UNCHANGED <<issued, answer>>
    BY DEF Dispatch
<1>2. e.ep \in Endpoints
  <2>1. e \in Events
      BY DEF Implements, Typed, TypeOK
  <2> QED
      BY <2>1 DEF Events
<1>3. CASE Asserts /\ ready[e.ep]
    BY <1>1, <1>3, AssertFailsStutters
<1>4. CASE List(e.ep) /\ UNCHANGED <<issued, answer>>
    BY <1>4, MappingFrame DEF List
<1>5. CASE AbortAll(e.ep) /\ UNCHANGED <<issued, answer>>
  <2> DEFINE aborted == ToSet(rdq[e.ep]) \union ToSet(wrq[e.ep])
  <2>1. \A x \in Ops : op'[x].ep = op[x].ep /\ op'[x].kind = op[x].kind
    <3>1. \A x \in Ops : op'[x] = IF x \in aborted THEN [op[x] EXCEPT !.err = TRUE] ELSE op[x]
        BY <1>5 DEF AbortAll
    <3>2. \A x \in Ops : op[x] \in Records
        BY DEF Implements, Typed, TypeOK
    <3> QED
        BY <3>1, <3>2 DEF Records
  <2>2. UNCHANGED <<issued, Home, Answered, Abandoned>>
      BY <1>5, <2>1 DEF Home, HomeOf, Answered, Abandoned
  <2>3. OpsIn' = [OpsIn EXCEPT ![ReadPlace(e.ep)] = <<>>, ![WritePlace(e.ep)] = <<>>]
      BY <1>2, <1>5, BothQueuesEmptied DEF AbortAll, Implements
  <2>4. doneList' = doneList \o OpsIn[ReadPlace(e.ep)] \o OpsIn[WritePlace(e.ep)]
      BY <1>2, <1>5, QueueOfPlace DEF AbortAll
  <2>5. Io!Abort(e.ep)
      BY <2>2, <2>3, <2>4 DEF Io!Abort, ReadPlace, WritePlace
  <2> QED
      BY <1>2, <2>5
<1> QED
    BY <1>1, <1>3, <1>4, <1>5

-----------------------------------------------------------------------------
(* Every step *)

LEMMA StepRefines ==
    ASSUME Implements, Typed', [Next]_vars
    PROVE  [Io!Next]_(Io!vars)
<1>1. CASE UNCHANGED vars
    BY <1>1, MappingFrame DEF vars, ctxVars, opVars
<1>2. ASSUME NEW ep \in Endpoints, Join(ep) PROVE UNCHANGED Io!vars
    BY <1>2, JoinStutters
<1>3. ASSUME NEW ep \in Endpoints, Close(ep) PROVE UNCHANGED Io!vars
    BY <1>3, MappingFrame DEF Close, opVars
<1>4. ASSUME NEW ep \in Endpoints, Depart(ep) PROVE Io!Next
    BY <1>4, DepartDrops DEF Io!Next
<1>5. ASSUME NEW ep \in Endpoints, NEW kind \in Kinds, Submit(ep, kind) PROVE Io!Next
    BY <1>5, SubmitSubmits DEF Io!Next
<1>6. ASSUME NEW val \in BOOLEAN, SetEnable(val) PROVE UNCHANGED Io!vars
    BY <1>6, MappingFrame DEF SetEnable, ctxVars, opVars
<1>7. CASE Application
  <2>1. ASSUME NEW w \in Workers, RunAgain(w) PROVE UNCHANGED Io!vars
      BY <2>1, GotoStutters DEF RunAgain
  <2> QED
      BY <1>2, <1>3, <1>4, <1>5, <1>6, <1>7, <2>1 DEF Application
<1>8. CASE Network
  <2>1. UNCHANGED <<issued, op, answer, rdq, wrq, doneList>>
      BY <1>8 DEF Network, NetReadable, NetWritable, NetHup, ctxVars, opVars
  <2> QED
      BY <2>1, MappingFrame
<1>9. ASSUME NEW w \in Workers, RunOnce(w) PROVE [Io!Next]_(Io!vars)
  <2>1. CASE Stop(w) \/ EnterDeparted(w) \/ EndRead(w) \/ EndWrite(w) \/ EndDispatch(w)
      BY <2>1, GotoStutters DEF Stop, EnterDeparted, EndRead, EndWrite, EndDispatch
  <2>2. CASE Emit(w)
      BY <2>2, EmitAnswers DEF Io!Next
  <2>3. CASE PopReady(w) \/ Rearm(w) \/ EpollWait(w)
      BY <2>3, MappingFrame DEF PopReady, Rearm, EpollWait, ctxVars, opVars
  <2>4. CASE Enter(w)
      BY <2>4, MappingFrame, AssertFailsStutters DEF Enter, opVars
  <2>5. CASE PerformRead(w)
      BY <2>5, PerformReadCompletes DEF Io!Next
  <2>6. CASE PerformWrite(w)
      BY <2>6, PerformWriteCompletes DEF Io!Next
  <2>7. CASE EpollInterrupted(w)
      BY <2>7, AssertFailsStutters, GotoStutters DEF EpollInterrupted
  <2>8. CASE Dispatch(w)
      BY <2>8, DispatchAborts DEF Io!Next
  <2>9. CASE RearmFails(w)
      BY <2>9, MappingFrame, AssertFailsStutters DEF RearmFails, opVars
  <2>10. CASE AcceptAsserts(w)
      BY <2>10, AssertFailsStutters DEF AcceptAsserts
  <2> QED
      BY <1>9, <2>1, <2>2, <2>3, <2>4, <2>5, <2>6, <2>7, <2>8, <2>9, <2>10 DEF RunOnce
<1> QED
    BY <1>1, <1>7, <1>8, <1>9 DEF Next, Aborted

\* Only Submit lengthens a queue, and it needs a context; only Depart takes one away.
LEMMA EmptyNext ==
    ASSUME Typed, EmptyUnlessJoined, [Next]_vars
    PROVE  EmptyUnlessJoined'
<1> USE DEF EmptyUnlessJoined
<1>1. ASSUME UNCHANGED <<joined, rdq, wrq>> PROVE EmptyUnlessJoined'
    BY <1>1
<1>2. ASSUME NEW ep \in Endpoints,
             rdq'[ep] = <<>> /\ wrq'[ep] = <<>>,
             \A e \in Endpoints : e # ep => /\ joined[e] => joined'[e]
                                            /\ rdq'[e] = rdq[e] /\ wrq'[e] = wrq[e]
      PROVE  EmptyUnlessJoined'
    BY <1>2
<1>3. ASSUME NEW ep \in Endpoints, Join(ep) \/ Depart(ep) PROVE EmptyUnlessJoined'
    BY <1>2, <1>3 DEF Join, Depart, Typed, TypeOK
<1>4. ASSUME NEW ep \in Endpoints, NEW kind \in Kinds, Submit(ep, kind) PROVE EmptyUnlessJoined'
  <2>1. joined[ep] /\ joined' = joined
      BY <1>4 DEF Submit, MaySubmit
  <2>2. \A e \in Endpoints : e # ep => rdq'[e] = rdq[e] /\ wrq'[e] = wrq[e]
      BY <1>4 DEF Submit, AppendAsyncOp, Typed, TypeOK
  <2> QED
      BY <2>1, <2>2
<1>5. CASE Application
  <2>1. ASSUME NEW ep \in Endpoints, Close(ep) PROVE EmptyUnlessJoined'
      BY <1>1, <2>1 DEF Close
  <2>2. ASSUME NEW val \in BOOLEAN, SetEnable(val) PROVE EmptyUnlessJoined'
      BY <1>1, <2>2 DEF SetEnable, ctxVars
  <2>3. ASSUME NEW w \in Workers, RunAgain(w) PROVE EmptyUnlessJoined'
      BY <1>1, <2>3 DEF RunAgain, Goto, ctxVars
  <2> QED
      BY <1>3, <1>4, <1>5, <2>1, <2>2, <2>3 DEF Application
<1>6. CASE Network
    BY <1>1, <1>6 DEF Network, NetReadable, NetWritable, NetHup, ctxVars
<1>7. ASSUME NEW w \in Workers, PerformRead(w) \/ PerformWrite(w) PROVE EmptyUnlessJoined'
  <2>1. cur[w] \in Endpoints /\ joined \in [Endpoints -> BOOLEAN]
        /\ rdq \in [Endpoints -> Seq(Ops)] /\ wrq \in [Endpoints -> Seq(Ops)]
      BY <1>7 DEF PerformRead, PerformWrite, Typed, TypeOK, CurIsEndpoint
  <2>2. CASE UNCHANGED <<joined, rdq, wrq>>
      BY <1>1, <2>2
  <2>3. ASSUME NEW o \in Ops, Completes(cur[w], o) \/ WouldBlock(cur[w], o),
               \/ UNCHANGED <<rdq, wrq>>
               \/ rdq' = [rdq EXCEPT ![cur[w]] = Tail(@)] /\ rdq[cur[w]] # <<>> /\ UNCHANGED wrq
               \/ wrq' = [wrq EXCEPT ![cur[w]] = Tail(@)] /\ wrq[cur[w]] # <<>> /\ UNCHANGED rdq
        PROVE  EmptyUnlessJoined'
    <3>1. \A e \in Endpoints : joined[e] => joined'[e]
        BY <2>1, <2>3, PerformKeepsContexts
    <3>2. \A e \in Endpoints : e # cur[w] => rdq'[e] = rdq[e] /\ wrq'[e] = wrq[e]
        BY <2>1, <2>3
    <3>3. CASE UNCHANGED <<rdq, wrq>>
        BY <3>1, <3>3
    <3>4. CASE rdq[cur[w]] # <<>> \/ wrq[cur[w]] # <<>>
        BY <2>1, <3>1, <3>2, <3>4
    <3> QED
        BY <2>3, <3>3, <3>4
  <2>4. CASE PerformRead(w)
    <3>1. Head(rdq[cur[w]]) \in Ops
        BY <2>1, <2>4 DEF PerformRead
    <3> QED
        BY <2>2, <2>3, <2>4, <3>1 DEF PerformRead, AssertFails, ctxVars
  <2>5. CASE PerformWrite(w)
    <3>1. Head(wrq[cur[w]]) \in Ops
        BY <2>1, <2>5 DEF PerformWrite
    <3> QED
        BY <2>2, <2>3, <2>5, <3>1 DEF PerformWrite, AssertFails, ctxVars
  <2> QED
      BY <1>7, <2>4, <2>5
<1>8. ASSUME NEW w \in Workers, Dispatch(w) PROVE EmptyUnlessJoined'
  <2>1. PICK e \in evts[w] :
          IF Asserts /\ ready[e.ep]
            THEN AssertFails("ready on event")
            ELSE /\ IF e.hup THEN AbortAll(e.ep) ELSE List(e.ep)
                 /\ joined' = joined
      BY <1>8 DEF Dispatch
  <2>2. e.ep \in Endpoints
    <3>1. e \in Events
        BY DEF Typed, TypeOK
    <3> QED
        BY <3>1 DEF Events
  <2>3. CASE AssertFails("ready on event") \/ (List(e.ep) /\ joined' = joined)
      BY <1>1, <2>3 DEF AssertFails, List, ctxVars
  <2>4. CASE AbortAll(e.ep) /\ joined' = joined
    <3>1. rdq'[e.ep] = <<>> /\ wrq'[e.ep] = <<>>
          /\ \A d \in Endpoints : d # e.ep => rdq'[d] = rdq[d] /\ wrq'[d] = wrq[d]
        BY <2>2, <2>4 DEF AbortAll, Typed, TypeOK
    <3> QED
        BY <1>2, <2>2, <2>4, <3>1
  <2> QED
      BY <2>1, <2>3, <2>4
<1>9. ASSUME NEW w \in Workers, RunOnce(w) PROVE EmptyUnlessJoined'
  <2>1. CASE Stop(w) \/ EnterDeparted(w) \/ EndRead(w) \/ EndWrite(w) \/ EndDispatch(w)
      BY <1>1, <2>1 DEF Stop, EnterDeparted, EndRead, EndWrite, EndDispatch, Goto, ctxVars
  <2>2. CASE Emit(w) \/ PopReady(w) \/ Rearm(w) \/ EpollWait(w) \/ EpollInterrupted(w)
      BY <1>1, <2>2 DEF Emit, PopReady, Rearm, EpollWait, EpollInterrupted, AssertFails, Goto, ctxVars
  <2>3. CASE Enter(w) \/ RearmFails(w) \/ AcceptAsserts(w)
      BY <1>1, <2>3 DEF Enter, RearmFails, AcceptAsserts, AssertFails, ctxVars
  <2> QED
      BY <1>7, <1>8, <1>9, <2>1, <2>2, <2>3 DEF RunOnce
<1>10. CASE UNCHANGED vars
    BY <1>1, <1>10 DEF vars, ctxVars
<1> QED
    BY <1>5, <1>6, <1>9, <1>10 DEF Next, Aborted

LEMMA ImplementsNext ==
    ASSUME Implements, [Next]_vars
    PROVE  Implements' /\ [Io!Next]_(Io!vars)
<1>1. Typed'
    BY TypedNext DEF Implements
<1>2. [Io!Next]_(Io!vars)
    BY <1>1, StepRefines
<1>3. Io!Inv'
    BY <1>2, Io!InvNext, ConstantsAssumption DEF Implements
<1>4. EmptyUnlessJoined'
    BY EmptyNext DEF Implements
<1> QED
    BY <1>1, <1>2, <1>3, <1>4 DEF Implements

\* The instance of AsyncIo whose theorems are used is the one NetIoMux names.
LEMMA SamePromise ==
    /\ Io!Init <=> Promise!Init
    /\ Io!Next <=> Promise!Next
    /\ Io!vars = Promise!vars
<1>1. Io!Init <=> Promise!Init
    BY DEF Io!Init, Promise!Init, Io!Places, Promise!Places, Io!Directions, Promise!Directions,
           Io!Ops, Promise!Ops, Io!Nowhere, Promise!Nowhere, Home, Answered, Abandoned
<1>2. Io!Next <=> Promise!Next
    BY DEF Io!Next, Promise!Next, Io!Submit, Promise!Submit, Io!Complete, Promise!Complete,
           Io!Abort, Promise!Abort, Io!Drop, Promise!Drop, Io!Answer, Promise!Answer,
           Io!Places, Promise!Places, Io!Directions, Promise!Directions,
           Io!ToSet, Promise!ToSet, Home, Answered, Abandoned
<1>3. Io!vars = Promise!vars
    BY DEF Io!vars, Promise!vars, Home, Answered, Abandoned
<1> QED
    BY <1>1, <1>2, <1>3

\* Whatever the workers, the callbacks and the network do, the queues of the
\* AsyncContexts, mCompletionList and the callbacks of runOnce behave as AsyncIo
\* says: operations leave the head of their queue for the completion list, or the
\* whole of an endpoint's does when it hangs up, and the list is answered in order.
THEOREM Refinement == Spec => ImplementsAsyncIo
<1>1. Init => Implements /\ Promise!Init
    BY ImplementsInit, SamePromise
<1>2. Implements /\ [Next]_vars => Implements' /\ [Promise!Next]_(Promise!vars)
  <2>1. ASSUME Implements, [Next]_vars PROVE Implements' /\ [Promise!Next]_(Promise!vars)
    <3>1. Implements' /\ (Io!Next \/ UNCHANGED Io!vars)
        BY <2>1, ImplementsNext
    <3>2. UNCHANGED Io!vars <=> UNCHANGED Promise!vars
        BY DEF Io!vars, Promise!vars, Home, Answered, Abandoned
    <3> QED
        BY <3>1, <3>2, SamePromise
  <2> QED
      BY <2>1
<1> QED
    BY <1>1, <1>2, PTL DEF Spec, ImplementsAsyncIo, Promise!Spec

LEMMA SameProperties ==
    /\ Io!InOrder <=> Promise!InOrder
    /\ Io!AccountedOnce <=> Promise!AccountedOnce
<1>1. Io!InOrder <=> Promise!InOrder
    BY DEF Io!InOrder, Promise!InOrder, Io!Precedes, Promise!Precedes, Io!Queued, Promise!Queued,
           Io!Places, Promise!Places, Io!Directions, Promise!Directions, Io!ToSet, Promise!ToSet,
           Home, Answered, Abandoned
<1>2. Io!AccountedOnce <=> Promise!AccountedOnce
    BY DEF Io!AccountedOnce, Promise!AccountedOnce, Io!Queued, Promise!Queued, Io!Ops, Promise!Ops,
           Io!Places, Promise!Places, Io!Directions, Promise!Directions, Io!ToSet, Promise!ToSet,
           Io!IsInjective, Promise!IsInjective, Home, Answered, Abandoned
<1> QED
    BY <1>1, <1>2

\* Operations of one direction of one endpoint are answered in the order in which
\* asyncRecv, asyncSend and the others were called, and each is in one queue, in the
\* completion list, answered or abandoned, once: what AsyncIo promises is kept by
\* the multiplexer.
THEOREM AnsweredInOrder == Spec => [](Promise!InOrder /\ Promise!AccountedOnce)
<1>1. Init => Implements
    BY ImplementsInit
<1>2. Implements /\ [Next]_vars => Implements'
    BY ImplementsNext
<1>3. Implements => Promise!InOrder /\ Promise!AccountedOnce
    BY Io!InvInOrder, Io!InvAccounted, SameProperties, ConstantsAssumption DEF Implements
<1> QED
    BY <1>1, <1>2, <1>3, PTL DEF Spec

-----------------------------------------------------------------------------
(* No operation is forgotten *)

\* Events are kept by a thread that handles them, and by no other.
EventsAreDispatched == \A w \in Workers : evts[w] # {} => pc[w] = "dispatch"

\* The endpoint is not forgotten, or epoll_ctl was refused.
Reachable(ep) ==
    \/ ready[ep] \/ lock[ep] # NoWorker \/ EventInFlight(ep) \/ ep \in refused
    \/ /\ rdq[ep] # <<>> => "IN" \in armed[ep]
       /\ wrq[ep] # <<>> => "OUT" \in armed[ep]

Wakes == Implements /\ EventsAreDispatched /\ NoLostWakeup

LEMMA WakesApplication ==
    ASSUME Wakes, Application
    PROVE  NoLostWakeup' /\ EventsAreDispatched'
<1> USE DEF Wakes, NoLostWakeup
<1>1. \A ep \in Endpoints : Reachable(ep)
    BY DEF Reachable
<1>2. ASSUME UNCHANGED <<ready, lock, evts, rdq, wrq, armed, refused>> PROVE NoLostWakeup'
    BY <1>2 DEF EventInFlight
<1>3. ASSUME NEW ep \in Endpoints, UNCHANGED <<evts, refused>>, Reachable(ep)',
             \A e \in Endpoints \ {ep} :
               /\ ready'[e] = ready[e] /\ lock'[e] = lock[e]
               /\ rdq'[e] = rdq[e] /\ wrq'[e] = wrq[e] /\ armed'[e] = armed[e]
      PROVE  NoLostWakeup'
    BY <1>3 DEF EventInFlight, Reachable
<1>4. ASSUME NEW ep \in Endpoints, Join(ep) PROVE NoLostWakeup' /\ EventsAreDispatched'
  <2>1. Reachable(ep)'
      BY <1>4 DEF Join, Reachable, Implements, Typed, TypeOK
  <2> QED
      BY <1>3, <1>4, <2>1
      DEF Join, EventsAreDispatched, osVars, workerVars, Implements, Typed, TypeOK
<1>5. ASSUME NEW ep \in Endpoints, Close(ep) PROVE NoLostWakeup' /\ EventsAreDispatched'
  <2>1. ASSUME NEW s \in {rdq[ep], wrq[ep]} PROVE s = <<>>
    <3>1. s \in Seq(Ops)
        BY DEF Implements, Typed, TypeOK
    <3>2. ASSUME NEW o \in ToSet(s) PROVE o \in Outstanding(ep)
      <4>1. o \in 1 .. issued /\ answer[o] = "none" /\ HomeOf(o).ep = ep
          BY <2>1, QueuedAreUnanswered DEF ReadPlace, WritePlace
      <4>2. op[o].ep = ep
          BY <4>1 DEF HomeOf
      <4> QED
          BY <4>1, <4>2 DEF Outstanding
    <3>3. ToSet(s) = {}
        BY <1>5, <3>2 DEF Close
    <3>4. s # <<>> => s[1] \in ToSet(s)
        BY <3>1, EmptySeq, LenProperties DEF ToSet
    <3> QED
        BY <3>3, <3>4
  <2>2. Reachable(ep)'
      BY <1>5, <2>1 DEF Close, Reachable
  <2> QED
      BY <1>3, <1>5, <2>2
      DEF Close, EventsAreDispatched, workerVars, Implements, Typed, TypeOK
<1>6. ASSUME NEW ep \in Endpoints, Depart(ep) PROVE NoLostWakeup' /\ EventsAreDispatched'
  <2>1. Reachable(ep)'
      BY <1>6 DEF Depart, Reachable, Implements, Typed, TypeOK
  <2> QED
      BY <1>3, <1>6, <2>1
      DEF Depart, EventsAreDispatched, workerVars, Implements, Typed, TypeOK
<1>7. ASSUME NEW ep \in Endpoints, NEW kind \in Kinds, Submit(ep, kind)
      PROVE  NoLostWakeup' /\ EventsAreDispatched'
  <2>1. ready'[ep] /\ \A e \in Endpoints : e # ep => /\ ready'[e] = ready[e]
                                               /\ rdq'[e] = rdq[e] /\ wrq'[e] = wrq[e]
      BY <1>7 DEF Submit, AppendAsyncOp, Implements, Typed, TypeOK
  <2>2. Reachable(ep)'
      BY <2>1 DEF Reachable
  <2> QED
      BY <1>3, <1>7, <2>1, <2>2 DEF Submit, EventsAreDispatched, osVars, workerVars
<1>8. ASSUME NEW val \in BOOLEAN, SetEnable(val) PROVE NoLostWakeup' /\ EventsAreDispatched'
    BY <1>2, <1>8 DEF SetEnable, EventsAreDispatched, ctxVars, osVars, workerVars
<1>9. ASSUME NEW w \in Workers, RunAgain(w) PROVE NoLostWakeup' /\ EventsAreDispatched'
  <2>1. NoLostWakeup'
      BY <1>2, <1>9 DEF RunAgain, Goto, ctxVars, osVars
  <2>2. EventsAreDispatched'
      BY <1>9 DEF RunAgain, Goto, EventsAreDispatched, Implements, Typed, TypeOK
  <2> QED
      BY <2>1, <2>2
<1> QED
    BY <1>4, <1>5, <1>6, <1>7, <1>8, <1>9 DEF Application

LEMMA WakesRunOnce ==
    ASSUME Wakes, NEW w \in Workers, RunOnce(w)
    PROVE  NoLostWakeup' /\ EventsAreDispatched'
<1> USE DEF Wakes, NoLostWakeup
<1>1. ASSUME UNCHANGED <<ready, lock, evts, rdq, wrq, armed, refused>> PROVE NoLostWakeup'
    BY <1>1 DEF EventInFlight
\* A thread that handles no event keeps none, wherever it goes.
<1>2. ASSUME UNCHANGED evts, pc[w] # "dispatch",
             \A v \in Workers : v # w => pc'[v] = pc[v]
      PROVE  EventsAreDispatched'
    BY <1>2 DEF EventsAreDispatched
<1>3. ASSUME NEW label, AssertFails(label) PROVE NoLostWakeup' /\ EventsAreDispatched'
    BY <1>1, <1>3 DEF AssertFails, EventsAreDispatched, ctxVars, osVars, workerVars
<1>4. ASSUME NEW l, Goto(w, l), pc[w] = "dispatch" => evts[w] = {}
      PROVE  NoLostWakeup' /\ EventsAreDispatched'
  <2>1. NoLostWakeup'
      BY <1>1, <1>4 DEF Goto, ctxVars, osVars
  <2>2. EventsAreDispatched'
      BY <1>4 DEF Goto, EventsAreDispatched, Implements, Typed, TypeOK
  <2> QED
      BY <2>1, <2>2
<1>5. pc \in [Workers -> Locations] /\ evts \in [Workers -> SUBSET Events]
    BY DEF Implements, Typed, TypeOK
<1>6. CASE Stop(w) \/ EnterDeparted(w) \/ EndRead(w) \/ EndWrite(w) \/ EndDispatch(w)
    BY <1>4, <1>6 DEF Stop, EnterDeparted, EndRead, EndWrite, EndDispatch
<1>7. CASE Emit(w) \/ PopReady(w)
  <2>1. UNCHANGED <<ready, lock, evts, rdq, wrq, armed, refused>> /\ pc[w] # "dispatch"
      BY <1>7 DEF Emit, PopReady, ctxVars, osVars
  <2>2. \A v \in Workers : v # w => pc'[v] = pc[v]
      BY <1>5, <1>7 DEF Emit, PopReady
  <2> QED
      BY <1>1, <1>2, <2>1, <2>2
\* A thread that enters has the lock of the endpoint it takes off.
<1>8. CASE Enter(w)
  <2>1. CASE AssertFails("ready on enter")
      BY <1>3, <2>1
  <2>2. CASE ~AssertFails("ready on enter")
    <3>1. /\ pc[w] = "enter" /\ lock' = [lock EXCEPT ![cur[w]] = w]
          /\ ready' = [ready EXCEPT ![cur[w]] = FALSE] /\ pc' = [pc EXCEPT ![w] = "rd"]
          /\ UNCHANGED <<rdq, wrq, evts, armed, refused>>
        BY <1>8, <2>2 DEF Enter, osVars
    <3>2. w # NoWorker
        BY ConstantsAssumption
    <3>3. NoLostWakeup'
        BY <3>1, <3>2 DEF EventInFlight, Implements, Typed, TypeOK
    <3> QED
        BY <1>2, <1>5, <3>1, <3>3
  <2> QED
      BY <2>1, <2>2
\* A queue that gets shorter needs no more than before.
<1>9. CASE PerformRead(w) \/ PerformWrite(w)
  <2>1. CASE \E label : AssertFails(label)
      BY <1>3, <2>1
  <2>2. CASE ~\E label : AssertFails(label)
    <3>1. /\ UNCHANGED <<ready, lock, evts, armed, refused>> /\ pc[w] # "dispatch"
          /\ \A v \in Workers : v # w => pc'[v] = pc[v]
        BY <1>5, <1>9, <2>2 DEF PerformRead, PerformWrite
    <3>2. \A ep \in Endpoints : /\ rdq'[ep] # <<>> => rdq[ep] # <<>>
                                /\ wrq'[ep] # <<>> => wrq[ep] # <<>>
        BY <1>9, <2>2 DEF PerformRead, PerformWrite, Implements, Typed, TypeOK
    <3>3. NoLostWakeup'
        BY <3>1, <3>2 DEF EventInFlight
    <3> QED
        BY <1>2, <3>1, <3>3
  <2> QED
      BY <2>1, <2>2
\* epoll is armed for what is left before the lock is given back.
<1>10. CASE Rearm(w)
  <2>1. /\ pc[w] = "rearm" /\ UNCHANGED <<ready, rdq, wrq, evts>>
        /\ lock' = [lock EXCEPT ![cur[w]] = NoWorker]
        /\ armed' = IF Interest(cur[w]) # {} THEN [armed EXCEPT ![cur[w]] = Interest(cur[w])]
                                             ELSE armed
        /\ refused' = refused \ {cur[w]}
      BY <1>10 DEF Rearm
  <2>2. cur[w] \in Endpoints /\ armed \in [Endpoints -> SUBSET {"IN", "OUT"}]
        /\ lock \in [Endpoints -> Workers \union {NoWorker}]
      BY <2>1 DEF Implements, Typed, TypeOK, CurIsEndpoint
  <2>3. /\ rdq[cur[w]] # <<>> => "IN" \in armed'[cur[w]]
        /\ wrq[cur[w]] # <<>> => "OUT" \in armed'[cur[w]]
      BY <2>1, <2>2 DEF Interest
  <2>4. \A ep \in Endpoints : ep # cur[w] => lock'[ep] = lock[ep] /\ armed'[ep] = armed[ep]
      BY <2>1, <2>2
  <2>5. NoLostWakeup'
      BY <2>1, <2>3, <2>4 DEF EventInFlight
  <2>6. \A v \in Workers : v # w => pc'[v] = pc[v]
      BY <1>5, <1>10 DEF Rearm
  <2> QED
      BY <1>2, <2>1, <2>5, <2>6
\* What epoll disarms it reports.
<1>11. CASE EpollWait(w)
  <2>1. CASE Deliverable = {}
    <3>1. UNCHANGED <<ready, lock, evts, rdq, wrq, armed, refused>> /\ pc[w] # "dispatch"
          /\ \A v \in Workers : v # w => pc'[v] = pc[v]
        BY <1>5, <1>11, <2>1 DEF EpollWait, ctxVars
    <3> QED
        BY <1>1, <1>2, <3>1
  <2>2. CASE Deliverable # {}
    <3>1. PICK batch \in SUBSET Deliverable :
            /\ evts' = [evts EXCEPT ![w] = {[ep |-> ep, hup |-> hup[ep]] : ep \in batch}]
            /\ armed' = [ep \in Endpoints |-> IF ep \in batch THEN {} ELSE armed[ep]]
            /\ pc' = [pc EXCEPT ![w] = "dispatch"]
        BY <1>11, <2>2 DEF EpollWait
    <3>2. UNCHANGED <<ready, lock, rdq, wrq, refused>> /\ evts[w] = {}
        BY <1>11 DEF EpollWait, ctxVars, EventsAreDispatched
    <3>3. \A v \in Workers : v # w => evts'[v] = evts[v] /\ pc'[v] = pc[v]
        BY <1>5, <3>1
    <3>4. pc'[w] = "dispatch" /\ evts'[w] = {[ep |-> ep, hup |-> hup[ep]] : ep \in batch}
        BY <1>5, <3>1
    <3>5. ASSUME NEW ep \in batch PROVE EventInFlight(ep)'
      <4>1. [ep |-> ep, hup |-> hup[ep]] \in evts'[w]
          BY <3>4
      <4> QED
          BY <4>1 DEF EventInFlight
    <3>6. \A ep \in Endpoints : EventInFlight(ep) => EventInFlight(ep)'
        BY <3>2, <3>3 DEF EventInFlight
    <3>7. \A ep \in Endpoints : ep \notin batch => armed'[ep] = armed[ep]
        BY <3>1
    <3>8. NoLostWakeup'
        BY <3>2, <3>5, <3>6, <3>7
    <3>9. EventsAreDispatched'
        BY <3>3, <3>4 DEF EventsAreDispatched
    <3> QED
        BY <3>8, <3>9
  <2> QED
      BY <2>1, <2>2
<1>12. CASE EpollInterrupted(w)
    BY <1>3, <1>4, <1>12 DEF EpollInterrupted
\* An endpoint whose event was handled has empty queues or is on the ready list.
<1>13. CASE Dispatch(w)
  <2>1. PICK e \in evts[w] :
          IF Asserts /\ ready[e.ep]
            THEN AssertFails("ready on event")
            ELSE /\ IF e.hup THEN AbortAll(e.ep) ELSE List(e.ep)
                 /\ evts' = [evts EXCEPT ![w] = @ \ {e}]
                 /\ UNCHANGED <<lock, armed, refused, pc>>
      BY <1>13 DEF Dispatch, osVars
  <2>2. e.ep \in Endpoints
    <3>1. e \in Events
        BY <1>5
    <3> QED
        BY <3>1 DEF Events
  <2>3. CASE AssertFails("ready on event")
      BY <1>3, <2>3
  <2>4. CASE ~AssertFails("ready on event")
    <3>1. /\ AbortAll(e.ep) \/ List(e.ep)
          /\ evts' = [evts EXCEPT ![w] = evts[w] \ {e}]
          /\ UNCHANGED <<lock, armed, refused, pc>>
        BY <2>1, <2>4
    <3>2. /\ \A d \in Endpoints : d # e.ep => /\ ready'[d] = ready[d]
                                             /\ rdq'[d] = rdq[d] /\ wrq'[d] = wrq[d]
          /\ ready'[e.ep] \/ (rdq'[e.ep] = <<>> /\ wrq'[e.ep] = <<>>)
        BY <2>2, <3>1 DEF AbortAll, List, Implements, Typed, TypeOK
    <3>3. \A v \in Workers : evts'[v] = IF v = w THEN evts[w] \ {e} ELSE evts[v]
        BY <1>5, <3>1
    <3>4. \A d \in Endpoints : d # e.ep /\ EventInFlight(d) => EventInFlight(d)'
        BY <3>3 DEF EventInFlight
    <3>5. NoLostWakeup'
        BY <3>1, <3>2, <3>4
    <3>6. EventsAreDispatched'
        BY <3>1, <3>3 DEF EventsAreDispatched
    <3> QED
        BY <3>5, <3>6
  <2> QED
      BY <2>3, <2>4
\* Nothing is armed, and that is recorded.
<1>14. CASE RearmFails(w)
  <2>1. CASE Asserts
      BY <1>3, <1>14, <2>1 DEF RearmFails
  <2>2. CASE ~Asserts
    <3>1. /\ pc[w] = "rearm" /\ UNCHANGED <<ready, rdq, wrq, evts, armed>>
          /\ lock' = [lock EXCEPT ![cur[w]] = NoWorker]
          /\ refused' = refused \union {cur[w]}
        BY <1>14, <2>2 DEF RearmFails
    <3>2. \A ep \in Endpoints : ep # cur[w] => lock'[ep] = lock[ep]
        BY <3>1 DEF Implements, Typed, TypeOK
    <3>3. NoLostWakeup'
        BY <3>1, <3>2 DEF EventInFlight
    <3>4. \A v \in Workers : v # w => pc'[v] = pc[v]
        BY <1>5, <1>14, <2>2 DEF RearmFails
    <3> QED
        BY <1>2, <3>1, <3>3, <3>4
  <2> QED
      BY <2>1, <2>2
<1>15. CASE AcceptAsserts(w)
    BY <1>3, <1>15 DEF AcceptAsserts
<1> QED
    BY <1>6, <1>7, <1>8, <1>9, <1>10, <1>11, <1>12, <1>13, <1>14, <1>15 DEF RunOnce

\* An operation that waits is never forgotten: its endpoint is ready, or a worker
\* holds its lock, or epoll watches its direction (armed again by runOnce before it
\* unlocks, taken down by EPOLLONESHOT), or a worker has its event.  Only where
\* runOnce last failed to arm epoll for the endpoint (netiomux_epoll.hpp:255-260,
\* without assertions) may it wait for the next operation of that endpoint.
THEOREM WakeupsKept == Spec => []NoLostWakeup
<1>1. Init => Wakes
    BY ImplementsInit DEF Wakes, Init, EventsAreDispatched, NoLostWakeup
<1>2. ASSUME Wakes, [Next]_vars PROVE Wakes'
  <2>1. Implements'
      BY <1>2, ImplementsNext DEF Wakes
  <2>2. CASE UNCHANGED vars
      BY <1>2, <2>1, <2>2
      DEF Wakes, EventsAreDispatched, NoLostWakeup, EventInFlight, vars, ctxVars, osVars, workerVars
  <2>3. CASE Network
    <3>1. UNCHANGED <<ready, lock, evts, rdq, wrq, armed, refused, pc>>
        BY <2>3 DEF Network, NetReadable, NetWritable, NetHup, ctxVars, workerVars
    <3> QED
        BY <1>2, <2>1, <3>1 DEF Wakes, EventsAreDispatched, NoLostWakeup, EventInFlight
  <2> QED
      BY <1>2, <2>1, <2>2, <2>3, WakesApplication, WakesRunOnce DEF Wakes, Next, Aborted
<1>3. Wakes => NoLostWakeup
    BY DEF Wakes
<1> QED
    BY <1>1, <1>2, <1>3, PTL DEF Spec

-----------------------------------------------------------------------------
(***************************************************************************)
(* An application that keeps to one unanswered operation per endpoint, and *)
(* does not take endpoints away, is safe from the assertions of runOnce    *)
(* and performIoLocked on the ready flag and the status, for every number  *)
(* of endpoints and worker threads, whatever system calls fail.            *)
(*                                                                         *)
(* The assertions look at one flag and one status; what keeps them true is *)
(* spread over the system.  An endpoint is in one place at a time: flagged *)
(* ready, with the worker that holds its lock, watched by epoll or among   *)
(* the events of one thread.  It is watched only while its operation waits,*)
(* and then the application submits no other.  The status is the one that  *)
(* operation expects, or has brought about.  Orderly is the conjunction,   *)
(* and is inductive.                                                       *)
(***************************************************************************)

\* The status of an endpoint whose operation would have blocked.
Underway(kind) ==
    CASE kind = "ACCEPT" -> "ACCEPTING"
      [] kind = "CONNECT" -> "CONNECTING"
      [] OTHER -> "CONNECTED"

\* The operations that wait at an endpoint, and whether a worker has it.
QueuedAt(ep) == ToSet(rdq[ep]) \union ToSet(wrq[ep])
Held(ep) == \E w \in Workers : Holds(w) /\ cur[w] = ep

\* The application keeps to one unanswered operation per endpoint.
OneEach == \A ep \in Endpoints : \A x, y \in Outstanding(ep) : x = y

\* A thread inside the critical section has the lock of its endpoint.
LocksHeld == \A w \in Workers : Holds(w) => lock[cur[w]] = w

\* An endpoint is in one place: on its way to a worker, with one, in epoll, or in
\* the events of one thread.
InOnePlace ==
    \A ep \in Endpoints :
      /\ ready[ep] => ~Held(ep)
      /\ ready[ep] \/ Held(ep) => armed[ep] = {}
      /\ ready[ep] \/ Held(ep) \/ armed[ep] # {} => ~EventInFlight(ep)

\* No two events are of one endpoint.
OneEvent ==
    \A v, w \in Workers : \A e \in evts[v], f \in evts[w] : e.ep = f.ep => v = w /\ e = f

\* epoll watches an endpoint only for an operation that would have blocked.
WaitsForWork ==
    \A ep \in Endpoints :
      armed[ep] # {} \/ EventInFlight(ep) =>
        QueuedAt(ep) # {} /\ \A o \in QueuedAt(ep) : op[o].prov

\* What a worker leaves behind in a queue would have blocked.
PassedOver ==
    \A w \in Workers :
      /\ pc[w] = "wr" => \A o \in ToSet(rdq[cur[w]]) : op[o].prov
      /\ pc[w] = "rearm" => \A o \in QueuedAt(cur[w]) : op[o].prov

\* The status is the one the queued operation expects, or has brought about.
StatusFits ==
    \A ep \in Endpoints : \A o \in QueuedAt(ep) :
      /\ status[ep] = IF op[o].prov THEN Underway(op[o].kind) ELSE Expected(op[o].kind)
      /\ op[o].kind = "CONNECT" => op[o].prov = op[o].conn

\* An endpoint with a context was constructed.
JoinedExist == \A ep \in Endpoints : joined[ep] => status[ep] # "NONE"

\* An endpoint accepts or connects only while its operation waits.
StatusHeld ==
    \A ep \in Endpoints :
      /\ status[ep] = "ACCEPTING" => rdq[ep] # <<>>
      /\ status[ep] = "CONNECTING" => hup[ep] \/ wrq[ep] # <<>>

\* A socket that listens does not hang up.
HupIsStream ==
    /\ \A ep \in Endpoints : hup[ep] => status[ep] \notin {"LISTENING", "ACCEPTING"}
    /\ \A w \in Workers : \A e \in evts[w] : e.hup => hup[e.ep]

\* A completed operation was provisioned, or its name did not resolve.
DoneValid ==
    \A o \in ToSet(doneList) : op[o].prov \/ (op[o].kind = "CONNECT" /\ op[o].peer)

Places == LocksHeld /\ InOnePlace /\ OneEvent
Work == WaitsForWork /\ PassedOver
StatusLaws == StatusFits /\ JoinedExist /\ StatusHeld /\ HupIsStream
Replies == OneEach /\ DoneValid /\ ValidOpsNotRejected

\* The inductive invariant, and the part of it this module proves of each step.
Kept == Places /\ Work /\ StatusLaws /\ Replies /\ OnlyRefusalsAssert
Orderly ==
    /\ Inv /\ Implements
    /\ Places /\ Work /\ StatusLaws /\ Replies
    /\ OnlyRefusalsAssert

-----------------------------------------------------------------------------
\* What waits at an endpoint is its only unanswered operation.
LEMMA QueueFacts ==
    ASSUME Orderly, NEW ep \in Endpoints
    PROVE  /\ QueuedAt(ep) \subseteq Outstanding(ep)
           /\ QueuedAt(ep) \subseteq Ops
           /\ \A x, y \in QueuedAt(ep) : x = y
           /\ \A o \in QueuedAt(ep) : op[o].ep = ep /\ o \notin ToSet(doneList) /\ o <= issued
           /\ \A o \in ToSet(rdq[ep]) : op[o].kind \in ReadKinds
           /\ \A o \in ToSet(wrq[ep]) : op[o].kind \notin ReadKinds
<1>0. Implements /\ OneEach
    BY DEF Orderly, Replies
<1>1. issued \in Nat /\ issued <= MaxOps /\ MaxOps \in Nat
    BY <1>0, ConstantsAssumption DEF Implements, Typed, TypeOK
<1>2. ASSUME NEW o \in QueuedAt(ep) 
      PROVE  /\ o \in 1 .. issued /\ answer[o] = "none" /\ op[o].ep = ep
             /\ o \in ToSet(rdq[ep]) => op[o].kind \in ReadKinds
             /\ o \in ToSet(wrq[ep]) => op[o].kind \notin ReadKinds
  <2>1. CASE o \in ToSet(rdq[ep])
    <3>1. o \in 1 .. issued /\ answer[o] = "none" /\ HomeOf(o) = ReadPlace(ep)
        BY <1>0, <2>1, QueuedAreUnanswered
    <3>2. HomeOf(o).ep = ep /\ HomeOf(o).dir = "read"
        BY <3>1 DEF ReadPlace
    <3>3. op[o].ep = ep /\ op[o].kind \in ReadKinds
        BY <3>2 DEF HomeOf
    <3>4. o \notin ToSet(wrq[ep])
      <4>1. o \in ToSet(wrq[ep]) => HomeOf(o).dir = "write"
          BY <1>0, QueuedAreUnanswered DEF WritePlace
      <4> QED
          BY <3>2, <4>1
    <3> QED
        BY <3>1, <3>3, <3>4
  <2>2. CASE o \in ToSet(wrq[ep])
    <3>1. o \in 1 .. issued /\ answer[o] = "none" /\ HomeOf(o) = WritePlace(ep)
        BY <1>0, <2>2, QueuedAreUnanswered
    <3>2. HomeOf(o).ep = ep /\ HomeOf(o).dir = "write"
        BY <3>1 DEF WritePlace
    <3>3. op[o].ep = ep /\ op[o].kind \notin ReadKinds
        BY <3>2 DEF HomeOf
    <3>4. o \notin ToSet(rdq[ep])
      <4>1. o \in ToSet(rdq[ep]) => HomeOf(o).dir = "read"
          BY <1>0, QueuedAreUnanswered DEF ReadPlace
      <4> QED
          BY <3>2, <4>1
    <3> QED
        BY <3>1, <3>3, <3>4
  <2> QED
      BY <2>1, <2>2 DEF QueuedAt
<1>3. QueuedAt(ep) \subseteq Outstanding(ep)
    BY <1>2 DEF Outstanding
<1>4. ASSUME NEW o \in QueuedAt(ep) PROVE o \notin ToSet(doneList)
  <2>1. Io!Sorted(Home, OpsIn, doneList, Answered)
      BY <1>0 DEF Implements, Io!Inv, Io!Good
  <2>2. PICK p \in Io!Places : o \in ToSet(OpsIn[p])
      BY QueueOfPlace DEF QueuedAt
  <2>3. o \in Int
      BY <1>2
  <2> QED
      BY <2>1, <2>2, <2>3 DEF Io!Sorted, Io!Before, Io!ToSet, ToSet
<1>5. \A o \in QueuedAt(ep) : o \in Ops /\ o <= issued
    BY <1>1, <1>2 DEF Ops
<1> QED
    BY <1>0, <1>2, <1>3, <1>4, <1>5 DEF OneEach, QueuedAt

\* A queue that is not empty holds one operation, and the other one none.
LEMMA OneQueued ==
    ASSUME Orderly, NEW ep \in Endpoints
    PROVE  /\ rdq[ep] # <<>> => /\ Head(rdq[ep]) \in Ops /\ QueuedAt(ep) = {Head(rdq[ep])}
                                /\ ToSet(rdq[ep]) = {Head(rdq[ep])}
                                /\ Tail(rdq[ep]) = <<>> /\ wrq[ep] = <<>>
           /\ wrq[ep] # <<>> => /\ Head(wrq[ep]) \in Ops /\ QueuedAt(ep) = {Head(wrq[ep])}
                                /\ ToSet(wrq[ep]) = {Head(wrq[ep])}
                                /\ Tail(wrq[ep]) = <<>> /\ rdq[ep] = <<>>
           /\ QueuedAt(ep) = {} <=> rdq[ep] = <<>> /\ wrq[ep] = <<>>
<1>1. rdq[ep] \in Seq(Ops) /\ wrq[ep] \in Seq(Ops) /\ Implements
    BY DEF Orderly, Implements, Typed, TypeOK
<1>2. /\ \A x, y \in QueuedAt(ep) : x = y
      /\ \A o \in ToSet(rdq[ep]) : op[o].kind \in ReadKinds
      /\ \A o \in ToSet(wrq[ep]) : op[o].kind \notin ReadKinds
    BY QueueFacts
<1>3. ASSUME NEW s \in Seq(Ops) PROVE s = <<>> <=> ToSet(s) = {}
  <2>1. ASSUME s # <<>> PROVE s[1] \in ToSet(s)
    <3>1. Len(s) \in Nat /\ Len(s) # 0 /\ DOMAIN s = 1 .. Len(s)
        BY <2>1, EmptySeq, LenProperties
    <3> QED
        BY <3>1 DEF ToSet
  <2>2. ToSet(<<>>) = {}
      BY DEF ToSet
  <2> QED
      BY <2>1, <2>2
<1>4. ASSUME NEW s \in Seq(Ops), s # <<>>, Io!Ordered(s, Home), \A x, y \in ToSet(s) : x = y
      PROVE  Head(s) \in Ops /\ ToSet(s) = {Head(s)} /\ Tail(s) = <<>>
  <2>1. /\ Head(s) \in Ops /\ Tail(s) \in Seq(Ops) /\ Head(s) = s[1]
        /\ Len(s) \in Nat /\ Len(s) > 0 /\ Len(Tail(s)) = Len(s) - 1 /\ DOMAIN s = 1 .. Len(s)
      BY <1>4, HeadTailProperties, EmptySeq, LenProperties
  <2>2. Head(s) \in ToSet(s)
      BY <2>1 DEF ToSet
  <2>3. ToSet(s) = {Head(s)}
      BY <1>4, <2>2
  <2>4. CASE Len(s) > 1
    <3>1. 2 \in DOMAIN s /\ 1 \in DOMAIN s /\ s[2] \in ToSet(s)
        BY <2>1, <2>4 DEF ToSet
    <3>2. s[2] = s[1] /\ s[1] \in Int
        BY <2>1, <2>3, <3>1 DEF Ops
    <3> QED
        BY <1>4, <3>1, <3>2 DEF Io!Ordered
  <2>5. CASE Len(s) = 1
    <3>1. Len(Tail(s)) = 0
        BY <2>1, <2>5
    <3>2. Tail(s) = <<>>
        BY <2>1, <3>1, EmptySeq
    <3> QED
        BY <2>1, <2>3, <3>2
  <2> QED
      BY <2>1, <2>4, <2>5
<1>5. Io!Ordered(rdq[ep], Home) /\ Io!Ordered(wrq[ep], Home)
    BY <1>1, QueueOfPlace DEF Implements, Io!Inv, Io!Good, Io!Sorted
<1>6. rdq[ep] # <<>> => Head(rdq[ep]) \in Ops /\ ToSet(rdq[ep]) = {Head(rdq[ep])} /\ Tail(rdq[ep]) = <<>>
    BY <1>1, <1>2, <1>4, <1>5 DEF QueuedAt
<1>7. wrq[ep] # <<>> => Head(wrq[ep]) \in Ops /\ ToSet(wrq[ep]) = {Head(wrq[ep])} /\ Tail(wrq[ep]) = <<>>
    BY <1>1, <1>2, <1>4, <1>5 DEF QueuedAt
<1>8. ToSet(rdq[ep]) = {} \/ ToSet(wrq[ep]) = {}
    BY <1>2 DEF QueuedAt
<1>9. /\ rdq[ep] = <<>> <=> ToSet(rdq[ep]) = {}
      /\ wrq[ep] = <<>> <=> ToSet(wrq[ep]) = {}
    BY <1>1, <1>3
<1> QED
    BY <1>6, <1>7, <1>8, <1>9 DEF QueuedAt

-----------------------------------------------------------------------------
(* What performIoLocked does to the only operation of an endpoint *)

LEMMA CompletesEffect ==
    ASSUME Orderly, NEW ep \in Endpoints, NEW o \in QueuedAt(ep), Completes(ep, o)
    PROVE  /\ op'[o].prov \/ (op'[o].kind = "CONNECT" /\ op'[o].peer)
           /\ \A x \in Ops \ {o} : op'[x] = op[x]
           /\ status'[ep] \notin {"ACCEPTING", "CONNECTING", "NONE"}
           /\ hup[ep] => status'[ep] # "LISTENING"
           /\ \A e \in Endpoints \ {ep} :
                \/ status'[e] = status[e]
                \/ status[e] = "NONE" /\ status'[e] \in {"CONNECTED", "INVALID"}
           /\ \A e \in Endpoints : joined'[e] => joined[e] \/ status'[e] # "NONE"
           /\ hup' = hup
<1>1. /\ o \in Ops /\ op \in [Ops -> Records] /\ op[o] \in Records
      /\ status \in [Endpoints -> Statuses] /\ joined \in [Endpoints -> BOOLEAN]
    BY QueueFacts DEF Orderly, Implements, Typed, TypeOK
<1>2. /\ status[ep] = IF op[o].prov THEN Underway(op[o].kind) ELSE Expected(op[o].kind)
      /\ op[o].kind = "CONNECT" => op[o].prov = op[o].conn
      /\ hup[ep] => status[ep] \notin {"LISTENING", "ACCEPTING"}
    BY DEF Orderly, StatusLaws, StatusFits, HupIsStream
<1>3. ~Rejected(ep, o)
    BY <1>2 DEF Rejected
<1>4. ASSUME NEW r, op' = [op EXCEPT ![o] = r]
      PROVE  op'[o] = r /\ \A x \in Ops \ {o} : op'[x] = op[x]
    BY <1>1, <1>4
<1>5. CASE Transfer(ep, o)
  <2>1. PICK failure \in BOOLEAN : op' = [op EXCEPT ![o] = [op[o] EXCEPT !.prov = TRUE, !.err = failure]]
      BY <1>5 DEF Transfer
  <2>2. op'[o].prov /\ \A x \in Ops \ {o} : op'[x] = op[x]
      BY <1>1, <1>4, <2>1 DEF Records
  <2>3. status[ep] = "CONNECTED" /\ UNCHANGED <<status, joined, hup>>
      BY <1>2, <1>5 DEF Transfer, Underway, Expected
  <2> QED
      BY <2>2, <2>3
<1>6. CASE Accept(ep, o)
  <2>1. \E failure \in BOOLEAN : op' = [op EXCEPT ![o] = [op[o] EXCEPT !.prov = TRUE, !.err = failure]]
      BY <1>6 DEF Accept
  <2>2. op'[o].prov /\ \A x \in Ops \ {o} : op'[x] = op[x]
      BY <1>1, <1>4, <2>1 DEF Records
  <2>3. ~hup[ep] /\ hup' = hup
      BY <1>2, <1>6 DEF Accept, Underway, Expected
  <2>4. \/ \E tep \in Endpoints \ {ep}, made \in {"CONNECTED", "INVALID"} :
             /\ status[tep] = "NONE"
             /\ status' = [status EXCEPT ![tep] = made, ![ep] = "LISTENING"]
             /\ joined' = [joined EXCEPT ![tep] = TRUE]
        \/ status' = [status EXCEPT ![ep] = "LISTENING"] /\ joined' = joined
      BY <1>6 DEF Accept
  <2> QED
      BY <1>1, <2>2, <2>3, <2>4
<1>7. CASE ConnectEnds(ep, o)
  <2>1. \/ /\ op' = [op EXCEPT ![o] = [op[o] EXCEPT !.peer = TRUE, !.err = FALSE]]
           /\ UNCHANGED status
        \/ /\ op' = [op EXCEPT ![o] = [op[o] EXCEPT !.peer = TRUE, !.prov = TRUE, !.err = FALSE]]
           /\ status' = [status EXCEPT ![ep] = "CONNECTED"]
        \/ /\ op' = [op EXCEPT ![o] = [op[o] EXCEPT !.peer = TRUE, !.prov = TRUE, !.err = TRUE]]
           /\ status' = [status EXCEPT ![ep] = "INIT"]
      BY <1>7 DEF ConnectEnds
  <2>2. status[ep] = "INIT" /\ op[o].kind = "CONNECT" /\ UNCHANGED <<joined, hup>>
      BY <1>2, <1>7 DEF ConnectEnds, Expected
  <2>3. /\ op'[o].prov \/ (op'[o].kind = "CONNECT" /\ op'[o].peer)
        /\ \A x \in Ops \ {o} : op'[x] = op[x]
    <3>1. \E r : /\ op' = [op EXCEPT ![o] = r]
                 /\ r.prov \/ (r.kind = "CONNECT" /\ r.peer)
      <4>1. [op[o] EXCEPT !.peer = TRUE, !.err = FALSE].peer
            /\ [op[o] EXCEPT !.peer = TRUE, !.err = FALSE].kind = "CONNECT"
          BY <1>1, <2>2 DEF Records
      <4>2. \A b \in BOOLEAN : [op[o] EXCEPT !.peer = TRUE, !.prov = TRUE, !.err = b].prov
          BY <1>1 DEF Records
      <4> QED
          BY <2>1, <4>1, <4>2
    <3> QED
        BY <1>4, <3>1
  <2> QED
      BY <1>1, <2>1, <2>2, <2>3
<1>8. CASE ConnectFinishes(ep, o)
  <2>1. \/ /\ op' = [op EXCEPT ![o] = [op[o] EXCEPT !.err = FALSE, !.conn = FALSE]]
           /\ status' = [status EXCEPT ![ep] = "CONNECTED"]
        \/ /\ \E errno \in BOOLEAN : op' = [op EXCEPT ![o] = [op[o] EXCEPT !.err = errno, !.peer = FALSE]]
           /\ status' = [status EXCEPT ![ep] = "INIT"]
      BY <1>8 DEF ConnectFinishes
  <2>2. op[o].prov /\ UNCHANGED <<joined, hup>>
      BY <1>8 DEF ConnectFinishes
  <2>3. op'[o].prov /\ \A x \in Ops \ {o} : op'[x] = op[x]
    <3>1. \E r : op' = [op EXCEPT ![o] = r] /\ r.prov
      <4>1. [op[o] EXCEPT !.err = FALSE, !.conn = FALSE].prov
          BY <1>1, <2>2 DEF Records
      <4>2. \A b \in BOOLEAN : [op[o] EXCEPT !.err = b, !.peer = FALSE].prov
          BY <1>1, <2>2 DEF Records
      <4> QED
          BY <2>1, <4>1, <4>2
    <3> QED
        BY <1>4, <3>1
  <2> QED
      BY <1>1, <2>1, <2>2, <2>3
<1> QED
    BY <1>3, <1>5, <1>6, <1>7, <1>8 DEF Completes, Reject

LEMMA BlocksEffect ==
    ASSUME Orderly, NEW ep \in Endpoints, NEW o \in QueuedAt(ep), WouldBlock(ep, o)
    PROVE  /\ op'[o].prov
           /\ op'[o].kind = op[o].kind
           /\ op[o].kind = "CONNECT" => op'[o].conn
           /\ \A x \in Ops \ {o} : op'[x] = op[x]
           /\ status'[ep] = Underway(op[o].kind)
           /\ hup'[ep] => status'[ep] # "ACCEPTING"
           /\ hup'[ep] => hup[ep]
           /\ \A e \in Endpoints \ {ep} : status'[e] = status[e] /\ hup'[e] = hup[e]
           /\ joined' = joined
<1>1. /\ o \in Ops /\ op \in [Ops -> Records] /\ op[o] \in Records
      /\ status \in [Endpoints -> Statuses] /\ hup \in [Endpoints -> BOOLEAN]
    BY QueueFacts DEF Orderly, Implements, Typed, TypeOK
<1>2. /\ status[ep] = IF op[o].prov THEN Underway(op[o].kind) ELSE Expected(op[o].kind)
      /\ op[o].kind = "CONNECT" => op[o].prov = op[o].conn
      /\ hup[ep] => status[ep] \notin {"LISTENING", "ACCEPTING"}
    BY DEF Orderly, StatusLaws, StatusFits, HupIsStream
<1>3. ASSUME NEW r, op' = [op EXCEPT ![o] = r]
      PROVE  op'[o] = r /\ \A x \in Ops \ {o} : op'[x] = op[x]
    BY <1>1, <1>3
<1>4. CASE TransferBlocks(ep, o)
  <2>1. /\ op' = [op EXCEPT ![o] = [op[o] EXCEPT !.prov = TRUE]]
        /\ op[o].kind \in {"RECV", "RECVFROM", "SEND", "SENDTO"}
        /\ UNCHANGED <<status, joined, hup>>
      BY <1>4 DEF TransferBlocks
  <2>2. op'[o].prov /\ op'[o].kind = op[o].kind /\ \A x \in Ops \ {o} : op'[x] = op[x]
      BY <1>1, <1>3, <2>1 DEF Records
  <2>3. status[ep] = "CONNECTED" /\ Underway(op[o].kind) = "CONNECTED" /\ op[o].kind # "CONNECT"
      BY <1>2, <2>1 DEF Underway, Expected
  <2> QED
      BY <2>1, <2>2, <2>3
<1>5. CASE AcceptBlocks(ep, o)
  <2>1. /\ op' = [op EXCEPT ![o] = [op[o] EXCEPT !.prov = TRUE]]
        /\ op[o].kind = "ACCEPT" /\ status' = [status EXCEPT ![ep] = "ACCEPTING"]
        /\ UNCHANGED <<joined, hup>>
      BY <1>5 DEF AcceptBlocks
  <2>2. op'[o].prov /\ op'[o].kind = op[o].kind /\ \A x \in Ops \ {o} : op'[x] = op[x]
      BY <1>1, <1>3, <2>1 DEF Records
  <2>3. ~hup[ep] /\ Underway(op[o].kind) = "ACCEPTING" /\ op[o].kind # "CONNECT"
      BY <1>2, <2>1 DEF Underway, Expected
  <2> QED
      BY <1>1, <2>1, <2>2, <2>3
<1>6. CASE ConnectBlocks(ep, o)
  <2>1. /\ op' = [op EXCEPT ![o] = [op[o] EXCEPT !.peer = TRUE, !.prov = TRUE, !.conn = TRUE]]
        /\ op[o].kind = "CONNECT" /\ status' = [status EXCEPT ![ep] = "CONNECTING"]
        /\ hup' = [hup EXCEPT ![ep] = FALSE] /\ UNCHANGED joined
      BY <1>6 DEF ConnectBlocks
  <2>2. /\ op'[o].prov /\ op'[o].kind = op[o].kind /\ op'[o].conn
        /\ \A x \in Ops \ {o} : op'[x] = op[x]
      BY <1>1, <1>3, <2>1 DEF Records
  <2>3. Underway(op[o].kind) = "CONNECTING"
      BY <2>1 DEF Underway
  <2> QED
      BY <1>1, <2>1, <2>2, <2>3
<1> QED
    BY <1>4, <1>5, <1>6 DEF WouldBlock

\* The operation of an endpoint a worker holds completes, or stays in its queue.
PerformStep(w, ep, o) ==
    /\ UNCHANGED <<ready, lock, issued, answer, armed, cur, evts, failed>>
    /\ \A e \in Endpoints \ {ep} : rdq'[e] = rdq[e] /\ wrq'[e] = wrq[e]
    /\ \A v \in Workers \ {w} : pc'[v] = pc[v]
    /\ \/ /\ Completes(ep, o)
          /\ rdq'[ep] = <<>> /\ wrq'[ep] = <<>>
          /\ doneList' = Append(doneList, o)
          /\ pc' = pc
       \/ /\ WouldBlock(ep, o)
          /\ UNCHANGED <<rdq, wrq, doneList>>
          /\ pc'[w] \in {"wr", "rearm"}

LEMMA PerformStepKeeps ==
    ASSUME Orderly, NEW w \in Workers, Holds(w), NEW o \in QueuedAt(cur[w]),
           QueuedAt(cur[w]) = {o}, PerformStep(w, cur[w], o)
    PROVE  Kept'
<1> DEFINE ep == cur[w]
<1>1. /\ ep \in Endpoints /\ Implements /\ Typed /\ Places /\ Work /\ StatusLaws /\ Replies
      /\ o \in Ops /\ doneList \in Seq(Ops)
    BY QueueFacts DEF Holds, Orderly, Implements, Typed, TypeOK, CurIsEndpoint
<1>2. /\ UNCHANGED <<ready, lock, issued, answer, armed, cur, evts, failed>>
      /\ \A e \in Endpoints \ {ep} : rdq'[e] = rdq[e] /\ wrq'[e] = wrq[e]
      /\ \A v \in Workers \ {w} : pc'[v] = pc[v]
    BY DEF PerformStep
<1>3. \/ /\ Completes(ep, o)
         /\ rdq'[ep] = <<>> /\ wrq'[ep] = <<>>
         /\ doneList' = Append(doneList, o)
         /\ pc' = pc
      \/ /\ WouldBlock(ep, o)
         /\ UNCHANGED <<rdq, wrq, doneList>>
         /\ pc'[w] \in {"wr", "rearm"}
    BY DEF PerformStep
<1>4. \A x \in Ops \ {o} : op'[x] = op[x]
    BY <1>1, <1>3, CompletesEffect, BlocksEffect
<1>5. \A e \in Endpoints \ {ep} : QueuedAt(e)' = QueuedAt(e)
    BY <1>2 DEF QueuedAt
<1>6. ASSUME NEW e \in Endpoints \ {ep}, NEW x \in QueuedAt(e)
      PROVE  x \in Ops /\ x # o /\ op'[x] = op[x]
  <2>1. x \in Ops /\ op[x].ep = e /\ op[o].ep = ep
      BY <1>1, QueueFacts
  <2> QED
      BY <1>4, <2>1
<1>7. Held(ep) /\ ~EventInFlight(ep) /\ armed[ep] = {} /\ ~ready[ep]
    BY <1>1 DEF Held, Places, InOnePlace
<1>8. \A v \in Workers : Holds(v)' <=> Holds(v)
    BY <1>2, <1>3 DEF Holds
<1>9. \A v \in Workers \ {w} : Holds(v) => cur[v] # ep /\ cur[v] \in Endpoints
    BY <1>1 DEF Places, LocksHeld, Holds, Typed, CurIsEndpoint
<1>10. Places'
    BY <1>1, <1>2, <1>8 DEF Places, LocksHeld, InOnePlace, OneEvent, Held, EventInFlight
<1>11. WaitsForWork'
  <2>1. ASSUME NEW e \in Endpoints, armed'[e] # {} \/ EventInFlight(e)'
        PROVE  e # ep /\ (armed[e] # {} \/ EventInFlight(e))
      BY <1>2, <1>7, <2>1 DEF EventInFlight
  <2>2. ASSUME NEW e \in Endpoints \ {ep}, armed[e] # {} \/ EventInFlight(e)
        PROVE  QueuedAt(e) # {} /\ \A x \in QueuedAt(e) : op'[x].prov
      BY <1>1, <1>6, <2>2 DEF Work, WaitsForWork
  <2> QED
      BY <1>5, <2>1, <2>2 DEF WaitsForWork
<1>12. PassedOver'
  <2>1. ASSUME NEW v \in Workers \ {w}
        PROVE  /\ pc'[v] = "wr" => \A x \in ToSet(rdq'[cur'[v]]) : op'[x].prov
               /\ pc'[v] = "rearm" => \A x \in QueuedAt(cur[v])' : op'[x].prov
    <3>1. CASE Holds(v)
      <4>1. cur[v] \in Endpoints \ {ep}
          BY <1>9, <3>1
      <4>2. QueuedAt(cur[v])' = QueuedAt(cur[v]) /\ rdq'[cur'[v]] = rdq[cur[v]]
          BY <1>2, <4>1 DEF QueuedAt
      <4>3. \A x \in QueuedAt(cur[v]) : op'[x] = op[x]
          BY <1>6, <4>1
      <4>4. ToSet(rdq[cur[v]]) \subseteq QueuedAt(cur[v])
          BY DEF QueuedAt
      <4> QED
          BY <1>1, <1>2, <4>2, <4>3, <4>4 DEF Work, PassedOver
    <3>2. CASE ~Holds(v)
        BY <1>2, <3>2 DEF Holds
    <3> QED
        BY <3>1, <3>2
  <2>2. /\ pc'[w] = "wr" => \A x \in ToSet(rdq'[cur'[w]]) : op'[x].prov
        /\ pc'[w] = "rearm" => \A x \in QueuedAt(cur[w])' : op'[x].prov
    <3>1. CASE rdq'[ep] = <<>> /\ wrq'[ep] = <<>>
        BY <1>2, <3>1 DEF QueuedAt, ToSet
    <3>2. CASE WouldBlock(ep, o) /\ UNCHANGED <<rdq, wrq>>
      <4>1. op'[o].prov
          BY <1>1, <3>2, BlocksEffect
      <4> QED
          BY <1>2, <3>2, <4>1 DEF QueuedAt
    <3> QED
        BY <1>3, <3>1, <3>2
  <2> QED
      BY <2>1, <2>2 DEF PassedOver
\* The endpoints other than the one performed on are as before, or were just made.
<1>13. ASSUME NEW e \in Endpoints \ {ep}
       PROVE  /\ \/ status'[e] = status[e]
                 \/ status[e] = "NONE" /\ status'[e] \in {"CONNECTED", "INVALID"}
              /\ hup'[e] = hup[e]
    BY <1>1, <1>3, CompletesEffect, BlocksEffect
<1>14. StatusFits'
  <2>1. ASSUME NEW e \in Endpoints \ {ep}, NEW x \in QueuedAt(e)
        PROVE  /\ status'[e] = IF op'[x].prov THEN Underway(op'[x].kind) ELSE Expected(op'[x].kind)
               /\ op'[x].kind = "CONNECT" => op'[x].prov = op'[x].conn
    <3>1. status[e] # "NONE"
      <4>1. rdq[e] # <<>> \/ wrq[e] # <<>>
          BY OneQueued
      <4> QED
          BY <1>1, <4>1 DEF Implements, EmptyUnlessJoined, StatusLaws, JoinedExist
    <3> QED
        BY <1>1, <1>6, <1>13, <3>1 DEF StatusLaws, StatusFits
  <2>2. ASSUME NEW x \in QueuedAt(ep)'
        PROVE  /\ status'[ep] = IF op'[x].prov THEN Underway(op'[x].kind) ELSE Expected(op'[x].kind)
               /\ op'[x].kind = "CONNECT" => op'[x].prov = op'[x].conn
    <3>1. CASE rdq'[ep] = <<>> /\ wrq'[ep] = <<>>
        BY <1>2, <2>2, <3>1 DEF QueuedAt, ToSet
    <3>2. CASE WouldBlock(ep, o) /\ UNCHANGED <<rdq, wrq>>
      <4>1. x = o
          BY <1>2, <2>2, <3>2 DEF QueuedAt
      <4>2. op'[o].prov /\ op'[o].kind = op[o].kind /\ status'[ep] = Underway(op[o].kind)
            /\ (op[o].kind = "CONNECT" => op'[o].conn)
          BY <1>1, <3>2, BlocksEffect
      <4>3. op'[o].conn \in BOOLEAN /\ op'[o].prov \in BOOLEAN
          BY <1>1, <3>2, TypedPerform DEF Records
      <4> QED
          BY <4>1, <4>2, <4>3
    <3> QED
        BY <1>3, <3>1, <3>2
  <2> QED
      BY <1>2, <1>5, <2>1, <2>2 DEF StatusFits
<1>15. JoinedExist'
  <2>1. CASE Completes(ep, o)
      BY <1>1, <2>1, CompletesEffect DEF StatusLaws, JoinedExist
  <2>2. CASE WouldBlock(ep, o)
    <3>1. status'[ep] # "NONE" /\ joined' = joined
        BY <1>1, <2>2, BlocksEffect DEF Underway
    <3> QED
        BY <1>1, <1>13, <3>1 DEF StatusLaws, JoinedExist
  <2> QED
      BY <1>3, <2>1, <2>2
<1>16. StatusHeld'
  <2>1. ASSUME NEW e \in Endpoints \ {ep}
        PROVE  /\ status'[e] = "ACCEPTING" => rdq'[e] # <<>>
               /\ status'[e] = "CONNECTING" => hup'[e] \/ wrq'[e] # <<>>
      BY <1>1, <1>2, <1>13 DEF StatusLaws, StatusHeld
  <2>2. /\ status'[ep] = "ACCEPTING" => rdq'[ep] # <<>>
        /\ status'[ep] = "CONNECTING" => hup'[ep] \/ wrq'[ep] # <<>>
    <3>1. CASE Completes(ep, o)
        BY <1>1, <3>1, CompletesEffect
    <3>2. CASE WouldBlock(ep, o) /\ UNCHANGED <<rdq, wrq>>
      <4>1. status'[ep] = Underway(op[o].kind)
          BY <1>1, <3>2, BlocksEffect
      <4>2. ToSet(<<>>) = {}
          BY DEF ToSet
      <4>3. /\ op[o].kind = "ACCEPT" => rdq[ep] # <<>>
            /\ op[o].kind = "CONNECT" => wrq[ep] # <<>>
          BY <1>1, <4>2, QueueFacts DEF QueuedAt, ReadKinds
      <4> QED
          BY <3>2, <4>1, <4>3 DEF Underway
    <3> QED
        BY <1>3, <3>1, <3>2
  <2> QED
      BY <2>1, <2>2 DEF StatusHeld
<1>17. HupIsStream'
  <2>1. ASSUME NEW e \in Endpoints, hup'[e] PROVE status'[e] \notin {"LISTENING", "ACCEPTING"}
    <3>1. CASE e # ep
        BY <1>1, <1>13, <2>1, <3>1 DEF StatusLaws, HupIsStream
    <3>2. CASE e = ep /\ Completes(ep, o)
        BY <1>1, <2>1, <3>2, CompletesEffect
    <3>3. CASE e = ep /\ WouldBlock(ep, o)
        BY <1>1, <2>1, <3>3, BlocksEffect DEF Underway
    <3> QED
        BY <1>3, <3>1, <3>2, <3>3
  <2>2. ASSUME NEW v \in Workers, NEW e \in evts[v], e.hup PROVE hup'[e.ep]
    <3>1. e.ep # ep /\ e.ep \in Endpoints
        BY <1>1, <1>7 DEF EventInFlight, Typed, TypeOK, Events
    <3> QED
        BY <1>1, <1>13, <2>2, <3>1 DEF StatusLaws, HupIsStream
  <2> QED
      BY <1>2, <2>1, <2>2 DEF HupIsStream
<1>18. OneEach'
  <2>1. \A x \in Ops : op'[x].ep = op[x].ep /\ op'[x].kind = op[x].kind
      BY <1>1, <1>3, PerformKeepsHome
  <2>2. issued \in Nat /\ issued <= MaxOps /\ MaxOps \in Nat
      BY <1>1, ConstantsAssumption DEF Typed, TypeOK
  <2>3. \A e \in Endpoints : Outstanding(e)' = Outstanding(e)
      BY <1>2, <2>1, <2>2 DEF Outstanding, Ops
  <2> QED
      BY <1>1, <2>3 DEF Replies, OneEach
<1>19. DoneValid'
  <2>1. ASSUME NEW x \in ToSet(doneList) PROVE op'[x] = op[x]
    <3>1. x \in Ops
        BY <1>1, ElementOfSeq, LenProperties DEF ToSet
    <3>2. o \notin ToSet(doneList)
        BY <1>1, QueueFacts
    <3> QED
        BY <1>4, <3>1, <3>2
  <2>2. CASE doneList' = Append(doneList, o) /\ Completes(ep, o)
    <3>1. op'[o].prov \/ (op'[o].kind = "CONNECT" /\ op'[o].peer)
        BY <1>1, <2>2, CompletesEffect
    <3>2. ToSet(doneList') = ToSet(doneList) \union {o}
        BY <1>1, <2>2, AppendAsSet
    <3> QED
        BY <1>1, <2>1, <3>1, <3>2 DEF DoneValid, Replies
  <2>3. CASE doneList' = doneList
      BY <1>1, <2>1, <2>3 DEF DoneValid, Replies
  <2> QED
      BY <1>3, <2>2, <2>3
<1> QED
    BY <1>1, <1>2, <1>10, <1>11, <1>12, <1>14, <1>15, <1>16, <1>17, <1>18, <1>19
    DEF Kept, Work, StatusLaws, Replies, ValidOpsNotRejected, OnlyRefusalsAssert, Orderly

LEMMA PerformKeeps ==
    ASSUME Orderly, NEW w \in Workers, PerformRead(w) \/ PerformWrite(w)
    PROVE  Kept'
<1> DEFINE ep == cur[w]
<1>1. Holds(w) /\ ep \in Endpoints /\ Typed
    BY DEF PerformRead, PerformWrite, Holds, Orderly, Implements, Typed, CurIsEndpoint
<1>2. rdq \in [Endpoints -> Seq(Ops)] /\ wrq \in [Endpoints -> Seq(Ops)]
      /\ pc \in [Workers -> Locations]
    BY <1>1 DEF Typed, TypeOK
<1>3. \A o \in QueuedAt(ep) : ~StatusAssertFails(ep, o)
    BY <1>1 DEF StatusAssertFails, Rejected, Orderly, StatusLaws, StatusFits
<1>4. CASE PerformRead(w)
  <2> DEFINE o == Head(rdq[ep])
  <2>1. rdq[ep] # <<>> /\ pc[w] = "rd"
      BY <1>4 DEF PerformRead
  <2>2. o \in QueuedAt(ep) /\ QueuedAt(ep) = {o} /\ Tail(rdq[ep]) = <<>> /\ wrq[ep] = <<>>
      BY <1>1, <2>1, OneQueued
  <2>3. ~StatusAssertFails(ep, o)
      BY <1>3, <2>2
  <2>4. PerformStep(w, ep, o)
      BY <1>1, <1>2, <1>4, <2>2, <2>3 DEF PerformRead, PerformStep
  <2> QED
      BY <1>1, <2>2, <2>4, PerformStepKeeps
<1>5. CASE PerformWrite(w)
  <2> DEFINE o == Head(wrq[ep])
  <2>1. wrq[ep] # <<>> /\ pc[w] = "wr"
      BY <1>5 DEF PerformWrite
  <2>2. o \in QueuedAt(ep) /\ QueuedAt(ep) = {o} /\ Tail(wrq[ep]) = <<>> /\ rdq[ep] = <<>>
      BY <1>1, <2>1, OneQueued
  <2>3. ~StatusAssertFails(ep, o)
      BY <1>3, <2>2
  <2>4. PerformStep(w, ep, o)
      BY <1>1, <1>2, <1>5, <2>2, <2>3 DEF PerformWrite, PerformStep
  <2> QED
      BY <1>1, <2>2, <2>4, PerformStepKeeps
<1> QED
    BY <1>4, <1>5

-----------------------------------------------------------------------------
(* The other steps *)

\* A thread that holds nothing, or goes on holding, changes its place.
LEMMA MoveKeeps ==
    ASSUME Orderly, NEW w \in Workers, NEW l, pc' = [pc EXCEPT ![w] = l],
           UNCHANGED <<status, joined, ready, rdq, wrq, lock, issued, op, answer,
                       doneList, armed, hup, evts, failed>>,
           \A v \in Workers : Holds(v) => cur'[v] = cur[v],
           l \in {"rd", "wr", "rearm"} <=> Holds(w),
           l = "wr" => \A o \in ToSet(rdq[cur[w]]) : op[o].prov,
           l = "rearm" => \A o \in QueuedAt(cur[w]) : op[o].prov
    PROVE  Kept'
<1>1. pc \in [Workers -> Locations] /\ Places /\ Work /\ StatusLaws /\ Replies /\ OnlyRefusalsAssert
    BY DEF Orderly, Implements, Typed, TypeOK
<1>2. pc'[w] = l /\ \A v \in Workers \ {w} : pc'[v] = pc[v]
    BY <1>1
<1>3. \A v \in Workers : Holds(v)' <=> Holds(v)
    BY <1>2 DEF Holds
<1>4. \A ep \in Endpoints : /\ QueuedAt(ep)' = QueuedAt(ep)
                            /\ Held(ep)' <=> Held(ep)
                            /\ Outstanding(ep)' = Outstanding(ep)
                            /\ EventInFlight(ep)' <=> EventInFlight(ep)
    BY <1>3 DEF QueuedAt, Held, Outstanding, EventInFlight
<1>5. Places'
  <2>1. LocksHeld'
      BY <1>1, <1>3 DEF Places, LocksHeld
  <2>2. InOnePlace'
      BY <1>1, <1>4 DEF Places, InOnePlace
  <2>3. OneEvent'
      BY <1>1 DEF Places, OneEvent
  <2> QED
      BY <2>1, <2>2, <2>3 DEF Places
<1>6. PassedOver'
  <2>1. ASSUME NEW v \in Workers, pc'[v] \in {"wr", "rearm"}
        PROVE  /\ pc'[v] = "wr" => \A o \in ToSet(rdq'[cur'[v]]) : op'[o].prov
               /\ pc'[v] = "rearm" => \A o \in QueuedAt(cur[v])' : op'[o].prov
    <3>1. Holds(v) /\ cur'[v] = cur[v]
        BY <1>3, <2>1 DEF Holds
    <3>2. QueuedAt(cur[v])' = QueuedAt(cur[v])
        BY <3>1 DEF QueuedAt
    <3> QED
        BY <1>1, <1>2, <3>1, <3>2 DEF Work, PassedOver
  <2> QED
      BY <2>1 DEF PassedOver
<1>7. WaitsForWork' /\ StatusFits'
  <2>1. WaitsForWork'
      BY <1>1, <1>4 DEF Work, WaitsForWork
  <2>2. StatusFits'
      BY <1>1, <1>4 DEF StatusLaws, StatusFits
  <2> QED
      BY <2>1, <2>2
<1>8. JoinedExist' /\ StatusHeld' /\ HupIsStream'
    BY <1>1 DEF StatusLaws, JoinedExist, StatusHeld, HupIsStream
<1>9. Replies'
    BY <1>1, <1>4 DEF Replies, OneEach, DoneValid, ValidOpsNotRejected
<1> QED
    BY <1>1, <1>5, <1>6, <1>7, <1>8, <1>9 DEF Kept, Work, StatusLaws, OnlyRefusalsAssert

LEMMA EmitKeeps ==
    ASSUME Orderly, NEW w \in Workers, Emit(w)
    PROVE  Kept'
<1>1. /\ pc[w] = "top" /\ pc' = [pc EXCEPT ![w] = "pop"] /\ UNCHANGED cur
      /\ UNCHANGED <<status, joined, ready, rdq, wrq, lock, issued, armed, hup, evts, failed>>
    BY DEF Emit, ctxVars, osVars
<1>2. ~Holds(w) /\ Typed /\ Implements
    BY <1>1 DEF Holds, Orderly, Implements
<1>3. CASE doneList = <<>>
    BY <1>1, <1>2, <1>3, MoveKeeps DEF Emit
<1>4. CASE doneList # <<>>
  <2> DEFINE o == Head(doneList)
             r == [Blank EXCEPT !.ep = op[o].ep, !.kind = op[o].kind]
             a == Report(o)
  <2>1. doneList' = Tail(doneList) /\ answer' = [answer EXCEPT ![o] = a] /\ op' = [op EXCEPT ![o] = r]
      BY <1>4 DEF Emit
  <2>2. /\ doneList \in Seq(Ops) /\ op \in [Ops -> Records] /\ answer \in [Ops -> AllAnswers]
        /\ pc \in [Workers -> Locations] /\ issued \in Nat /\ issued <= MaxOps /\ MaxOps \in Nat
      BY <1>2, ConstantsAssumption DEF Typed, TypeOK
  <2>3. Io!Ordered(doneList, Home)
      BY <1>2 DEF Implements, Io!Inv, Io!Good, Io!Sorted
  <2>4. /\ o \in Ops /\ ToSet(doneList) = {o} \union ToSet(Tail(doneList))
        /\ o \notin ToSet(Tail(doneList))
    <3>1. /\ o \in Ops /\ Io!ToSet(doneList) = {o} \union Io!ToSet(Tail(doneList))
          /\ Io!Before({o}, Io!ToSet(Tail(doneList)), Home)
        BY <1>4, <2>2, <2>3, Io!HeadAndTail
    <3>2. Io!ToSet(doneList) = ToSet(doneList) /\ Io!ToSet(Tail(doneList)) = ToSet(Tail(doneList))
        BY DEF Io!ToSet, ToSet
    <3>3. o \in Int
        BY <3>1 DEF Ops
    <3> HIDE DEF o
    <3>4. o \notin ToSet(Tail(doneList))
        BY <3>1, <3>2, <3>3 DEF Io!Before
    <3> QED
        BY <3>1, <3>2, <3>4
  <2>5. r.ep = op[o].ep /\ r.kind = op[o].kind
      BY DEF Blank
  <2>6. a # "INVALID_OP" /\ a # "none"
      BY <2>4 DEF Report, Orderly, Replies, DoneValid
  <2> HIDE DEF r, a, o
  <2>7. \A x \in Ops \ {o} : op'[x] = op[x] /\ answer'[x] = answer[x]
      BY <2>1, <2>2
  <2>8. op'[o] = r /\ answer'[o] = a
      BY <2>1, <2>2, <2>4
  <2>9. \A ep \in Endpoints : QueuedAt(ep)' = QueuedAt(ep) /\ \A x \in QueuedAt(ep) : op'[x] = op[x]
    <3>1. ASSUME NEW ep \in Endpoints, NEW x \in QueuedAt(ep) PROVE x \in Ops \ {o}
        BY <2>4, QueueFacts
    <3> QED
        BY <1>1, <2>7, <3>1 DEF QueuedAt
  <2>10. /\ pc'[w] = "pop" /\ \A v \in Workers \ {w} : pc'[v] = pc[v]
         /\ \A v \in Workers : Holds(v)' <=> Holds(v)
      BY <1>1, <1>2, <2>2 DEF Holds
  <2>11. Places /\ Work /\ StatusLaws /\ Replies /\ OnlyRefusalsAssert
      BY DEF Orderly
  <2>12. Places'
      BY <1>1, <2>10, <2>11 DEF Places, LocksHeld, InOnePlace, OneEvent, Held, EventInFlight
  <2>13. WaitsForWork' /\ StatusFits'
      BY <1>1, <2>9, <2>11 DEF Work, WaitsForWork, StatusLaws, StatusFits, EventInFlight
  <2>14. PassedOver'
    <3>1. ASSUME NEW v \in Workers, pc'[v] \in {"wr", "rearm"}
          PROVE  pc[v] = pc'[v] /\ cur[v] \in Endpoints /\ QueuedAt(cur[v])' = QueuedAt(cur[v])
                 /\ ToSet(rdq[cur[v]]) \subseteq QueuedAt(cur[v])
        BY <1>1, <1>2, <2>9, <2>10, <3>1 DEF Typed, CurIsEndpoint, QueuedAt
    <3> QED
        BY <1>1, <2>9, <2>11, <3>1 DEF Work, PassedOver
  <2>15. JoinedExist' /\ StatusHeld' /\ HupIsStream'
      BY <1>1, <2>11 DEF StatusLaws, JoinedExist, StatusHeld, HupIsStream
  <2>16. OneEach'
    <3>1. ASSUME NEW ep \in Endpoints PROVE Outstanding(ep)' \subseteq Outstanding(ep)
        BY <1>1, <2>2, <2>5, <2>6, <2>7, <2>8 DEF Outstanding, Ops
    <3> QED
        BY <2>11, <3>1 DEF Replies, OneEach
  <2>17. DoneValid'
    <3>1. \A x \in ToSet(Tail(doneList)) : x \in Ops
      <4>1. Tail(doneList) \in Seq(Ops)
          BY <1>4, <2>2
      <4> QED
          BY <4>1, ElementOfSeq, LenProperties DEF ToSet
    <3>2. \A x \in ToSet(doneList') : x \in ToSet(doneList) /\ op'[x] = op[x]
        BY <2>1, <2>4, <2>7, <3>1
    <3> QED
        BY <2>11, <3>2 DEF Replies, DoneValid
  <2>18. ValidOpsNotRejected'
      BY <2>6, <2>7, <2>8, <2>11 DEF Replies, ValidOpsNotRejected
  <2> QED
      BY <1>1, <2>11, <2>12, <2>13, <2>14, <2>15, <2>16, <2>17, <2>18
      DEF Kept, Work, StatusLaws, Replies, OnlyRefusalsAssert
<1> QED
    BY <1>3, <1>4

\* The worker that enters had the endpoint to itself already.
LEMMA EnterKeeps ==
    ASSUME Orderly, NEW w \in Workers, Enter(w)
    PROVE  Kept'
<1> DEFINE ep == cur[w]
<1>1. /\ pc[w] = "enter" /\ ep \in Endpoints /\ lock[ep] = NoWorker /\ ready[ep] /\ Typed
      /\ Places /\ Work /\ StatusLaws /\ Replies /\ OnlyRefusalsAssert
    BY DEF Enter, Orderly, Inv, Typed, CurIsEndpoint, ReadyMeansListedOnce, Entering
<1>2. /\ lock' = [lock EXCEPT ![ep] = w] /\ ready' = [ready EXCEPT ![ep] = FALSE]
      /\ pc' = [pc EXCEPT ![w] = "rd"]
      /\ UNCHANGED <<status, joined, rdq, wrq, issued, op, answer, doneList, armed, hup, cur,
                     evts, failed>>
    BY <1>1 DEF Enter, opVars, osVars
<1>3. /\ pc \in [Workers -> Locations] /\ ready \in [Endpoints -> BOOLEAN]
      /\ lock \in [Endpoints -> Workers \union {NoWorker}] /\ w # NoWorker
    BY <1>1, ConstantsAssumption DEF Typed, TypeOK
<1>4. pc'[w] = "rd" /\ \A v \in Workers \ {w} : pc'[v] = pc[v]
    BY <1>2, <1>3
<1>5. \A v \in Workers : Holds(v)' <=> Holds(v) \/ v = w
    BY <1>4 DEF Holds
<1>6. \A v \in Workers : Holds(v) => cur[v] # ep
    BY <1>1, <1>3, ConstantsAssumption DEF Places, LocksHeld
<1>7. \A e \in Endpoints : Held(e)' <=> Held(e) \/ e = ep
    BY <1>2, <1>5 DEF Held
<1>8. LocksHeld'
  <2>1. lock'[ep] = w /\ \A e \in Endpoints \ {ep} : lock'[e] = lock[e]
      BY <1>1, <1>2, <1>3
  <2>2. \A v \in Workers : Holds(v) => cur[v] \in Endpoints
      BY <1>1 DEF Holds, Typed, CurIsEndpoint
  <2> QED
      BY <1>1, <1>2, <1>5, <1>6, <2>1, <2>2 DEF Places, LocksHeld
<1>9. InOnePlace'
  <2>1. ~ready'[ep] /\ \A e \in Endpoints \ {ep} : ready'[e] = ready[e]
      BY <1>1, <1>2, <1>3
  <2>2. \A e \in Endpoints : EventInFlight(e)' <=> EventInFlight(e)
      BY <1>2 DEF EventInFlight
  <2> QED
      BY <1>1, <1>2, <1>7, <2>1, <2>2 DEF Places, InOnePlace
<1>10. OneEvent'
    BY <1>1, <1>2 DEF Places, OneEvent
<1>11. \A e \in Endpoints : QueuedAt(e)' = QueuedAt(e) /\ Outstanding(e)' = Outstanding(e)
    BY <1>2 DEF QueuedAt, Outstanding
<1>12. WaitsForWork'
    BY <1>1, <1>2, <1>11 DEF Work, WaitsForWork, EventInFlight
<1>13. PassedOver'
    BY <1>1, <1>2, <1>4, <1>11 DEF Work, PassedOver, QueuedAt
<1>14. StatusFits'
    BY <1>1, <1>2, <1>11 DEF StatusLaws, StatusFits
<1>15. JoinedExist' /\ StatusHeld' /\ HupIsStream'
    BY <1>1, <1>2 DEF StatusLaws, JoinedExist, StatusHeld, HupIsStream
<1>16. Replies'
    BY <1>1, <1>2, <1>11 DEF Replies, OneEach, DoneValid, ValidOpsNotRejected
<1> QED
    BY <1>1, <1>2, <1>8, <1>9, <1>10, <1>12, <1>13, <1>14, <1>15, <1>16
    DEF Kept, Places, Work, StatusLaws, OnlyRefusalsAssert

\* epoll is armed for an operation that was tried.
LEMMA RearmKeeps ==
    ASSUME Orderly, NEW w \in Workers, Rearm(w)
    PROVE  Kept'
<1> DEFINE ep == cur[w]
<1>1. /\ pc[w] = "rearm" /\ Holds(w) /\ ep \in Endpoints /\ Typed
      /\ Places /\ Work /\ StatusLaws /\ Replies /\ OnlyRefusalsAssert
    BY DEF Rearm, Holds, Orderly, Inv, Typed, CurIsEndpoint
<1>2. /\ armed' = IF Interest(ep) # {} THEN [armed EXCEPT ![ep] = Interest(ep)] ELSE armed
      /\ lock' = [lock EXCEPT ![ep] = NoWorker] /\ cur' = [cur EXCEPT ![w] = NoEp]
      /\ pc' = [pc EXCEPT ![w] = AfterReady(w)]
      /\ UNCHANGED <<status, joined, ready, rdq, wrq, issued, op, answer, doneList, hup, evts, failed>>
    BY DEF Rearm, opVars
<1>3. /\ pc \in [Workers -> Locations] /\ armed \in [Endpoints -> SUBSET {"IN", "OUT"}]
      /\ lock \in [Endpoints -> Workers \union {NoWorker}]
      /\ cur \in [Workers -> Endpoints \union {NoEp}]
    BY <1>1 DEF Typed, TypeOK
<1>4. /\ pc'[w] \in {"top", "wait"} /\ \A v \in Workers \ {w} : pc'[v] = pc[v] /\ cur'[v] = cur[v]
    BY <1>2, <1>3 DEF AfterReady
<1>5. \A v \in Workers : Holds(v)' <=> Holds(v) /\ v # w
    BY <1>4 DEF Holds
<1>6. \A v \in Workers \ {w} : Holds(v) => cur[v] # ep /\ cur[v] \in Endpoints
    BY <1>1 DEF Places, LocksHeld, Holds, Typed, CurIsEndpoint
<1>7. \A e \in Endpoints : Held(e)' <=> Held(e) /\ e # ep
    BY <1>4, <1>5, <1>6 DEF Held
<1>8. Held(ep) /\ ~ready[ep] /\ armed[ep] = {} /\ ~EventInFlight(ep)
    BY <1>1 DEF Held, Places, InOnePlace
<1>9. \A e \in Endpoints \ {ep} : armed'[e] = armed[e] /\ lock'[e] = lock[e]
    BY <1>1, <1>2, <1>3
<1>10. \A e \in Endpoints : /\ QueuedAt(e)' = QueuedAt(e)
                            /\ Outstanding(e)' = Outstanding(e)
                            /\ EventInFlight(e)' <=> EventInFlight(e)
    BY <1>2 DEF QueuedAt, Outstanding, EventInFlight
<1>11. LocksHeld'
    BY <1>1, <1>4, <1>5, <1>6, <1>9 DEF Places, LocksHeld
<1>12. InOnePlace'
    BY <1>1, <1>2, <1>7, <1>8, <1>9, <1>10 DEF Places, InOnePlace
<1>13. OneEvent'
    BY <1>1, <1>2 DEF Places, OneEvent
<1>14. WaitsForWork'
  <2>1. ASSUME armed'[ep] # {} PROVE QueuedAt(ep) # {} /\ \A o \in QueuedAt(ep) : op[o].prov
    <3>1. Interest(ep) # {}
        BY <1>2, <1>8, <2>1
    <3>2. rdq[ep] # <<>> \/ wrq[ep] # <<>>
        BY <3>1 DEF Interest
    <3>3. QueuedAt(ep) # {}
        BY <1>1, <3>2, OneQueued
    <3> QED
        BY <1>1, <3>3 DEF Work, PassedOver
  <2>2. ASSUME NEW e \in Endpoints, armed'[e] # {} \/ EventInFlight(e)
        PROVE  QueuedAt(e) # {} /\ \A o \in QueuedAt(e) : op[o].prov
      BY <1>1, <1>8, <1>9, <2>1, <2>2 DEF Work, WaitsForWork
  <2> QED
      BY <1>2, <1>10, <2>2 DEF WaitsForWork
<1>15. PassedOver'
  <2>1. \A v \in Workers : pc'[v] \in {"wr", "rearm"} => pc'[v] = pc[v] /\ cur'[v] = cur[v]
      BY <1>4
  <2>2. \A v \in Workers : cur'[v] = cur[v] => QueuedAt(cur[v])' = QueuedAt(cur[v])
      BY <1>2 DEF QueuedAt
  <2> QED
      BY <1>1, <1>2, <2>1, <2>2 DEF Work, PassedOver
<1>16. StatusFits'
    BY <1>1, <1>2, <1>10 DEF StatusLaws, StatusFits
<1>17. JoinedExist' /\ StatusHeld' /\ HupIsStream'
    BY <1>1, <1>2 DEF StatusLaws, JoinedExist, StatusHeld, HupIsStream
<1>18. Replies'
    BY <1>1, <1>2, <1>10 DEF Replies, OneEach, DoneValid, ValidOpsNotRejected
<1> QED
    BY <1>1, <1>2, <1>11, <1>12, <1>13, <1>14, <1>15, <1>16, <1>17, <1>18
    DEF Kept, Places, Work, StatusLaws, OnlyRefusalsAssert

\* What epoll reports it no longer watches.
LEMMA EpollWaitKeeps ==
    ASSUME Orderly, NEW w \in Workers, EpollWait(w)
    PROVE  Kept'
<1>1. /\ pc[w] = "wait" /\ ~Holds(w) /\ evts[w] = {} /\ Typed
      /\ Places /\ Work /\ StatusLaws /\ Replies /\ OnlyRefusalsAssert
    BY DEF EpollWait, Holds, Orderly, Inv, ContextsExist
<1>2. UNCHANGED <<status, joined, ready, rdq, wrq, lock, issued, op, answer, doneList, hup, cur, failed>>
    BY DEF EpollWait, ctxVars, opVars
<1>3. CASE Deliverable = {}
    BY <1>1, <1>2, <1>3, MoveKeeps DEF EpollWait
<1>4. CASE Deliverable # {}
  <2>1. PICK batch \in SUBSET Deliverable :
          /\ evts' = [evts EXCEPT ![w] = {[ep |-> ep, hup |-> hup[ep]] : ep \in batch}]
          /\ armed' = [ep \in Endpoints |-> IF ep \in batch THEN {} ELSE armed[ep]]
          /\ pc' = [pc EXCEPT ![w] = "dispatch"]
      BY <1>4 DEF EpollWait
  <2>2. pc \in [Workers -> Locations] /\ evts \in [Workers -> SUBSET Events]
      BY <1>1 DEF Typed, TypeOK
  <2>3. pc'[w] = "dispatch" /\ \A v \in Workers \ {w} : pc'[v] = pc[v] /\ evts'[v] = evts[v]
      BY <2>1, <2>2
  <2>4. evts'[w] = {[ep |-> ep, hup |-> hup[ep]] : ep \in batch}
      BY <2>1, <2>2
  <2>5. \A ep \in batch : ep \in Endpoints /\ armed[ep] # {}
      BY DEF Deliverable
  <2>6. \A ep \in Endpoints : armed'[ep] = IF ep \in batch THEN {} ELSE armed[ep]
      BY <2>1
  <2>7. \A e \in evts'[w] : e.ep \in batch /\ e.hup = hup[e.ep]
      BY <2>4
  <2>8. \A ep \in Endpoints : EventInFlight(ep)' <=> EventInFlight(ep) \/ ep \in batch
    <3>1. ASSUME NEW ep \in batch PROVE EventInFlight(ep)'
      <4>1. [ep |-> ep, hup |-> hup[ep]] \in evts'[w]
          BY <2>4
      <4> QED
          BY <4>1 DEF EventInFlight
    <3> QED
        BY <1>1, <2>3, <2>7, <3>1 DEF EventInFlight
  <2>9. \A v \in Workers : Holds(v)' <=> Holds(v)
      BY <1>1, <2>3 DEF Holds
  <2>10. \A ep \in Endpoints : /\ QueuedAt(ep)' = QueuedAt(ep)
                               /\ Outstanding(ep)' = Outstanding(ep)
                               /\ Held(ep)' <=> Held(ep)
      BY <1>2, <2>9 DEF QueuedAt, Outstanding, Held
  <2>11. LocksHeld'
      BY <1>1, <1>2, <2>9 DEF Places, LocksHeld
  <2>12. InOnePlace'
      BY <1>1, <1>2, <2>5, <2>6, <2>8, <2>10 DEF Places, InOnePlace
  <2>13. OneEvent'
    <3>1. ASSUME NEW u \in Workers, NEW v \in Workers, NEW e \in evts'[u], NEW f \in evts'[v],
                 e.ep = f.ep
          PROVE  u = v /\ e = f
      <4>1. CASE u # w /\ v # w
          BY <1>1, <2>3, <3>1, <4>1 DEF Places, OneEvent
      <4>2. CASE u = w /\ v = w
          BY <2>4, <3>1, <4>2
      <4>3. \A x \in Workers \ {w} : \A g \in evts[x] : g.ep \notin batch
          BY <1>1, <2>5 DEF Places, InOnePlace, EventInFlight
      <4> QED
          BY <2>3, <2>7, <3>1, <4>1, <4>2, <4>3
    <3> QED
        BY <3>1 DEF OneEvent
  <2>14. WaitsForWork'
      BY <1>1, <1>2, <2>5, <2>6, <2>8, <2>10 DEF Work, WaitsForWork
  <2>15. PassedOver'
    <3>1. \A v \in Workers : pc'[v] \in {"wr", "rearm"} => pc'[v] = pc[v]
        BY <2>3
    <3>2. \A v \in Workers : QueuedAt(cur[v])' = QueuedAt(cur[v])
        BY <1>2 DEF QueuedAt
    <3> QED
        BY <1>1, <1>2, <3>1, <3>2 DEF Work, PassedOver
  <2>16. StatusFits'
      BY <1>1, <1>2, <2>10 DEF StatusLaws, StatusFits
  <2>17. JoinedExist' /\ StatusHeld'
      BY <1>1, <1>2 DEF StatusLaws, JoinedExist, StatusHeld
  <2>18. HupIsStream'
      BY <1>1, <1>2, <2>3, <2>7 DEF StatusLaws, HupIsStream
  <2>19. Replies'
      BY <1>1, <1>2, <2>10 DEF Replies, OneEach, DoneValid, ValidOpsNotRejected
  <2> QED
      BY <1>1, <1>2, <2>11, <2>12, <2>13, <2>14, <2>15, <2>16, <2>17, <2>18, <2>19
      DEF Kept, Places, Work, StatusLaws, OnlyRefusalsAssert
<1> QED
    BY <1>3, <1>4

\* A thread that only moves on.
LEMMA MovesKeep ==
    ASSUME Orderly, NEW w \in Workers,
           \/ Stop(w) \/ PopReady(w) \/ EnterDeparted(w)
           \/ EndRead(w) \/ EndWrite(w) \/ EndDispatch(w)
    PROVE  Kept'
<1>1. Work /\ Typed
    BY DEF Orderly, Implements
<1>2. ASSUME NEW l, Goto(w, l), ~Holds(w), l \notin {"rd", "wr", "rearm"} PROVE Kept'
  <2>1. /\ pc' = [pc EXCEPT ![w] = l]
        /\ UNCHANGED <<status, joined, ready, rdq, wrq, lock, issued, op, answer,
                       doneList, armed, hup, evts, failed, cur>>
      BY <1>2 DEF Goto, ctxVars, opVars, osVars
  <2> QED
      BY <1>2, <2>1, MoveKeeps
<1>3. ASSUME NEW l, Goto(w, l), Holds(w), l \in {"wr", "rearm"},
             l = "wr" => \A o \in ToSet(rdq[cur[w]]) : op[o].prov,
             l = "rearm" => \A o \in QueuedAt(cur[w]) : op[o].prov
      PROVE  Kept'
  <2>1. /\ pc' = [pc EXCEPT ![w] = l]
        /\ UNCHANGED <<status, joined, ready, rdq, wrq, lock, issued, op, answer,
                       doneList, armed, hup, evts, failed, cur>>
      BY <1>3 DEF Goto, ctxVars, opVars, osVars
  <2> QED
      BY <1>3, <2>1, MoveKeeps
<1>4. CASE Stop(w)
    BY <1>2, <1>4 DEF Stop, Holds
<1>5. CASE EnterDeparted(w)
    BY <1>2, <1>5 DEF EnterDeparted, AfterReady, Holds
<1>6. CASE EndDispatch(w)
    BY <1>2, <1>6 DEF EndDispatch, Holds
<1>7. CASE EndRead(w)
  <2>1. ToSet(rdq[cur[w]]) = {}
      BY <1>7 DEF EndRead, ToSet
  <2> QED
      BY <1>3, <1>7, <2>1 DEF EndRead, Holds
<1>8. CASE EndWrite(w)
  <2>1. ToSet(wrq[cur[w]]) = {}
      BY <1>8 DEF EndWrite, ToSet
  <2>2. \A o \in ToSet(rdq[cur[w]]) : op[o].prov
      BY <1>1, <1>8 DEF EndWrite, Work, PassedOver
  <2> QED
      BY <1>3, <1>8, <2>1, <2>2 DEF EndWrite, Holds, QueuedAt
<1>9. CASE PopReady(w)
  <2>1. /\ ~Holds(w) /\ cur \in [Workers -> Endpoints \union {NoEp}]
        /\ UNCHANGED <<status, joined, ready, rdq, wrq, lock, issued, op, answer,
                       doneList, armed, hup, evts, failed>>
      BY <1>1, <1>9 DEF PopReady, Holds, Typed, TypeOK, ctxVars, opVars, osVars
  <2>2. \A v \in Workers : Holds(v) => cur'[v] = cur[v]
      BY <1>9, <2>1 DEF PopReady
  <2>3. \E l \in {"wait", "enter"} : pc' = [pc EXCEPT ![w] = l]
      BY <1>9 DEF PopReady
  <2> QED
      BY <2>1, <2>2, <2>3, MoveKeeps
<1> QED
    BY <1>4, <1>5, <1>6, <1>7, <1>8, <1>9

\* An endpoint epoll reports is nowhere else, so no assertion fails: a hang-up
\* completes what was tried before, and other events list the endpoint.
LEMMA DispatchKeeps ==
    ASSUME Orderly, NEW w \in Workers, Dispatch(w)
    PROVE  Kept'
<1>1. /\ Typed /\ Implements /\ ContextsExist
      /\ Places /\ Work /\ StatusLaws /\ Replies /\ OnlyRefusalsAssert
    BY DEF Orderly, Inv, Implements
<1>2. /\ evts \in [Workers -> SUBSET Events] /\ ready \in [Endpoints -> BOOLEAN]
      /\ rdq \in [Endpoints -> Seq(Ops)] /\ wrq \in [Endpoints -> Seq(Ops)]
      /\ op \in [Ops -> Records] /\ doneList \in Seq(Ops)
      /\ issued \in Nat /\ issued <= MaxOps /\ MaxOps \in Nat
    BY <1>1, ConstantsAssumption DEF Typed, TypeOK
<1>3. PICK e \in evts[w] :
        IF Asserts /\ ready[e.ep]
          THEN AssertFails("ready on event")
          ELSE /\ IF e.hup THEN AbortAll(e.ep) ELSE List(e.ep)
               /\ evts' = [evts EXCEPT ![w] = @ \ {e}]
               /\ UNCHANGED <<status, joined, lock, issued, answer, enable, osVars,
                              pc, cur, skip, failed>>
    BY DEF Dispatch
<1> DEFINE ep == e.ep
<1>4. ep \in Endpoints
    BY <1>2 DEF Events
<1>5. EventInFlight(ep)
    BY DEF EventInFlight
<1>6. ~ready[ep] /\ ~Held(ep) /\ armed[ep] = {}
    BY <1>1, <1>4, <1>5 DEF Places, InOnePlace
<1>7. \A o \in QueuedAt(ep) : op[o].prov
    BY <1>1, <1>4, <1>5 DEF Work, WaitsForWork
<1>8. /\ IF e.hup THEN AbortAll(e.ep) ELSE List(e.ep)
      /\ evts' = [evts EXCEPT ![w] = @ \ {e}]
      /\ UNCHANGED <<status, joined, lock, issued, answer, armed, hup, pc, cur, failed>>
    BY <1>3, <1>6 DEF osVars
<1>9. /\ \A v \in Workers : evts'[v] \subseteq evts[v]
      /\ evts'[w] = evts[w] \ {e} /\ \A v \in Workers \ {w} : evts'[v] = evts[v]
    BY <1>2, <1>8
<1>10. \A x \in Endpoints : EventInFlight(x)' <=> EventInFlight(x) /\ x # ep
  <2>1. \A v \in Workers : \A f \in evts[v] : f.ep = ep => v = w /\ f = e
      BY <1>1 DEF Places, OneEvent
  <2>2. \A v \in Workers : \A f \in evts'[v] : f \in evts[v] /\ f.ep # ep
      BY <1>9, <2>1
  <2>3. \A v \in Workers : \A f \in evts[v] : f.ep # ep => f \in evts'[v]
      BY <1>9
  <2> QED
      BY <2>2, <2>3 DEF EventInFlight
<1>11. LocksHeld'
    BY <1>1, <1>8 DEF Places, LocksHeld, Holds
<1>12. OneEvent'
    BY <1>1, <1>9 DEF Places, OneEvent
<1>13. \A x \in Endpoints : Held(x)' <=> Held(x)
    BY <1>8 DEF Held, Holds
<1>14. JoinedExist' /\ HupIsStream' /\ ValidOpsNotRejected' /\ OnlyRefusalsAssert'
    BY <1>1, <1>8, <1>9
    DEF StatusLaws, JoinedExist, HupIsStream, Replies, ValidOpsNotRejected, OnlyRefusalsAssert
<1>15. \A v \in Workers : Holds(v) => cur[v] \in Endpoints \ {ep}
    BY <1>1, <1>6 DEF Held, Holds, Typed, CurIsEndpoint
<1>16. CASE e.hup
  <2> DEFINE aborted == QueuedAt(ep)
  <2>1. /\ op' = [o \in Ops |-> IF o \in aborted THEN [op[o] EXCEPT !.err = TRUE] ELSE op[o]]
        /\ doneList' = doneList \o rdq[ep] \o wrq[ep]
        /\ rdq' = [rdq EXCEPT ![ep] = <<>>] /\ wrq' = [wrq EXCEPT ![ep] = <<>>]
        /\ ready' = [ready EXCEPT ![ep] = FALSE]
      BY <1>8, <1>16 DEF AbortAll, QueuedAt
  <2>2. \A o \in Ops : op'[o] = IF o \in aborted THEN [op[o] EXCEPT !.err = TRUE] ELSE op[o]
      BY <2>1
  <2>3. \A o \in Ops : op[o] \in Records
      BY <1>2
  <2>4. \A o \in Ops : /\ op'[o].ep = op[o].ep /\ op'[o].kind = op[o].kind
                        /\ op'[o].prov = op[o].prov /\ op'[o].conn = op[o].conn
                        /\ op'[o].peer = op[o].peer
      BY <2>2, <2>3 DEF Records
  <2>5. /\ rdq'[ep] = <<>> /\ wrq'[ep] = <<>> /\ ~ready'[ep]
        /\ \A x \in Endpoints \ {ep} : rdq'[x] = rdq[x] /\ wrq'[x] = wrq[x] /\ ready'[x] = ready[x]
      BY <1>2, <1>4, <2>1
  <2>6. QueuedAt(ep)' = {}
      BY <2>5 DEF QueuedAt, ToSet
  <2>7. \A x \in Endpoints \ {ep} : QueuedAt(x)' = QueuedAt(x)
      BY <2>5 DEF QueuedAt
  <2>8. \A x \in Endpoints : QueuedAt(x) \subseteq Ops
      BY QueueFacts
  <2>9. hup[ep] /\ status[ep] # "ACCEPTING"
      BY <1>1, <1>4, <1>16 DEF StatusLaws, HupIsStream
  <2>10. InOnePlace'
      BY <1>1, <1>8, <1>10, <1>13, <2>5 DEF Places, InOnePlace
  <2>11. WaitsForWork'
    <3>1. ASSUME NEW x \in Endpoints, armed[x] # {} \/ EventInFlight(x)'
          PROVE  QueuedAt(x)' # {} /\ \A o \in QueuedAt(x)' : op'[o].prov
      <4>1. x # ep /\ (armed[x] # {} \/ EventInFlight(x))
          BY <1>6, <1>10, <3>1
      <4>2. QueuedAt(x) # {} /\ \A o \in QueuedAt(x) : op[o].prov
          BY <1>1, <4>1 DEF Work, WaitsForWork
      <4> QED
          BY <2>4, <2>7, <2>8, <4>1, <4>2
    <3> QED
        BY <1>8, <3>1 DEF WaitsForWork
  <2>12. PassedOver'
    <3>1. ASSUME NEW v \in Workers, pc[v] \in {"wr", "rearm"}
          PROVE  /\ rdq'[cur[v]] = rdq[cur[v]] /\ QueuedAt(cur[v])' = QueuedAt(cur[v])
                 /\ \A o \in QueuedAt(cur[v]) : op'[o].prov = op[o].prov
                 /\ ToSet(rdq[cur[v]]) \subseteq QueuedAt(cur[v])
      <4>1. cur[v] \in Endpoints \ {ep}
          BY <1>15, <3>1 DEF Holds
      <4>2. QueuedAt(cur[v]) \subseteq Ops
          BY <2>8, <4>1
      <4> QED
          BY <1>8, <2>4, <2>5, <4>1, <4>2 DEF QueuedAt
    <3>2. ASSUME NEW v \in Workers, pc[v] \in {"wr", "rearm"}
          PROVE  /\ pc[v] = "wr" => \A o \in ToSet(rdq'[cur[v]]) : op'[o].prov
                 /\ pc[v] = "rearm" => \A o \in QueuedAt(cur[v])' : op'[o].prov
        BY <1>1, <3>1, <3>2 DEF Work, PassedOver
    <3> QED
        BY <1>8, <3>2 DEF PassedOver, QueuedAt
  <2>13. StatusFits'
    <3>1. ASSUME NEW x \in Endpoints, NEW o \in QueuedAt(x)'
          PROVE  /\ status[x] = IF op'[o].prov THEN Underway(op'[o].kind) ELSE Expected(op'[o].kind)
                 /\ op'[o].kind = "CONNECT" => op'[o].prov = op'[o].conn
      <4>1. x # ep /\ o \in QueuedAt(x) /\ o \in Ops
          BY <2>6, <2>7, <2>8, <3>1
      <4> QED
          BY <1>1, <2>4, <4>1 DEF StatusLaws, StatusFits
    <3> QED
        BY <1>8, <3>1 DEF StatusFits
  <2>14. StatusHeld'
      BY <1>1, <1>8, <2>5, <2>9 DEF StatusLaws, StatusHeld
  <2>15. OneEach'
    <3>1. \A x \in Endpoints : Outstanding(x)' = Outstanding(x)
        BY <1>2, <1>8, <2>4 DEF Outstanding, Ops
    <3> QED
        BY <1>1, <3>1 DEF Replies, OneEach
  <2>16. DoneValid'
    <3>1. rdq[ep] \in Seq(Ops) /\ wrq[ep] \in Seq(Ops) /\ doneList \o rdq[ep] \in Seq(Ops)
        BY <1>2, <1>4, ConcatProperties
    <3>2. /\ Io!ToSet(doneList \o rdq[ep]) = Io!ToSet(doneList) \union Io!ToSet(rdq[ep])
          /\ Io!ToSet(doneList \o rdq[ep] \o wrq[ep])
               = Io!ToSet(doneList \o rdq[ep]) \union Io!ToSet(wrq[ep])
      <4>1. PICK both : both = doneList \o rdq[ep]
          OBVIOUS
      <4>2. doneList \in Seq(Ops)
          BY <1>2
      <4>3. Io!ToSet(both) = Io!ToSet(doneList) \union Io!ToSet(rdq[ep])
          BY <3>1, <4>1, <4>2, Io!SetOfConcat
      <4>4. Io!ToSet(both \o wrq[ep]) = Io!ToSet(both) \union Io!ToSet(wrq[ep])
          BY <3>1, <4>1, Io!SetOfConcat
      <4> QED
          BY <4>1, <4>3, <4>4
    <3>3. ToSet(doneList') = ToSet(doneList) \union QueuedAt(ep)
        BY <2>1, <3>2 DEF Io!ToSet, ToSet, QueuedAt
    <3>4. ToSet(doneList) \subseteq Ops
        BY <1>2, ElementOfSeq, LenProperties DEF ToSet
    <3> QED
        BY <1>1, <1>4, <1>7, <2>4, <2>8, <3>3, <3>4 DEF Replies, DoneValid
  <2> QED
      BY <1>11, <1>12, <1>14, <2>10, <2>11, <2>12, <2>13, <2>14, <2>15, <2>16
      DEF Kept, Places, Work, StatusLaws, Replies
<1>17. CASE ~e.hup
  <2>1. ready' = [ready EXCEPT ![ep] = TRUE] /\ UNCHANGED <<rdq, wrq, op, doneList>>
      BY <1>8, <1>17 DEF List
  <2>2. \A x \in Endpoints \ {ep} : ready'[x] = ready[x]
      BY <1>2, <1>4, <2>1
  <2>3. \A x \in Endpoints : QueuedAt(x)' = QueuedAt(x) /\ Outstanding(x)' = Outstanding(x)
      BY <1>8, <2>1 DEF QueuedAt, Outstanding
  <2>4. InOnePlace'
      BY <1>1, <1>6, <1>8, <1>10, <1>13, <2>2 DEF Places, InOnePlace
  <2>5. WaitsForWork'
      BY <1>1, <1>8, <1>10, <2>1, <2>3 DEF Work, WaitsForWork
  <2>6. PassedOver'
      BY <1>1, <1>8, <2>1 DEF Work, PassedOver, QueuedAt
  <2>7. StatusFits'
      BY <1>1, <1>8, <2>1, <2>3 DEF StatusLaws, StatusFits
  <2>8. StatusHeld'
      BY <1>1, <1>8, <2>1 DEF StatusLaws, StatusHeld
  <2>9. OneEach' /\ DoneValid'
      BY <1>1, <2>1, <2>3 DEF Replies, OneEach, DoneValid
  <2> QED
      BY <1>11, <1>12, <1>14, <2>4, <2>5, <2>6, <2>7, <2>8, <2>9
      DEF Kept, Places, Work, StatusLaws, Replies
<1> QED
    BY <1>16, <1>17
\* An application that has no answer to wait for has nothing at the endpoint.
LEMMA NothingQueued ==
    ASSUME Orderly, NEW ep \in Endpoints, MaxOutstanding = 1,
           Cardinality(Outstanding(ep)) < MaxOutstanding
    PROVE  /\ Outstanding(ep) = {} /\ QueuedAt(ep) = {}
           /\ rdq[ep] = <<>> /\ wrq[ep] = <<>>
           /\ armed[ep] = {} /\ ~EventInFlight(ep)
<1>1. issued \in Nat /\ Work
    BY DEF Orderly, Implements, Typed, TypeOK
<1>2. IsFiniteSet(1 .. issued) /\ Outstanding(ep) \in SUBSET (1 .. issued)
    BY <1>1, FS_Interval DEF Outstanding
<1>3. IsFiniteSet(Outstanding(ep))
    BY <1>2, FS_Subset
<1>4. Cardinality(Outstanding(ep)) \in Nat
    BY <1>3, FS_CardinalityType
<1>5. Outstanding(ep) = {}
    BY <1>3, <1>4, FS_EmptySet
<1>6. QueuedAt(ep) = {}
    BY <1>5, QueueFacts
<1> QED
    BY <1>1, <1>5, <1>6, OneQueued DEF Work, WaitsForWork

\* What is submitted is the only operation of an endpoint of the status it expects.
LEMMA SubmitKeeps ==
    ASSUME Orderly, MaxOutstanding = 1, NEW ep \in Endpoints, NEW kind \in Kinds, Submit(ep, kind)
    PROVE  Kept'
<1> DEFINE n == issued + 1
           r == [Blank EXCEPT !.ep = ep, !.kind = kind,
                              !.peer = kind \in {"RECVFROM", "SENDTO", "ACCEPT"}]
<1>1. /\ Typed /\ Implements
      /\ Places /\ Work /\ StatusLaws /\ Replies /\ OnlyRefusalsAssert
    BY DEF Orderly, Implements
<1>2. /\ ready \in [Endpoints -> BOOLEAN] /\ op \in [Ops -> Records]
      /\ rdq \in [Endpoints -> Seq(Ops)] /\ wrq \in [Endpoints -> Seq(Ops)]
      /\ doneList \in Seq(Ops) /\ issued \in Nat /\ MaxOps \in Nat
    BY <1>1, ConstantsAssumption DEF Typed, TypeOK
<1>3. /\ MaySubmit(ep, kind) /\ lock[ep] = NoWorker /\ issued' = n
      /\ op' = [op EXCEPT ![n] = r] /\ AppendAsyncOp(ep, kind, n)
      /\ UNCHANGED <<status, joined, lock, answer, doneList, armed, hup, pc, cur, evts, failed>>
    BY DEF Submit, osVars, workerVars
<1>4. n \in Ops /\ n \notin 1 .. issued
    BY <1>2, <1>3 DEF MaySubmit, Ops
<1>5. r.ep = ep /\ r.kind = kind /\ r.prov = FALSE /\ r.conn = FALSE
    BY DEF Blank
<1>6. /\ Outstanding(ep) = {} /\ QueuedAt(ep) = {} /\ rdq[ep] = <<>> /\ wrq[ep] = <<>>
      /\ armed[ep] = {} /\ ~EventInFlight(ep)
    BY <1>3, NothingQueued DEF MaySubmit
<1>7. status[ep] = Expected(kind)
    BY <1>1, <1>3, <1>6 DEF MaySubmit, StatusLaws, StatusHeld
<1>8. ~Held(ep)
    BY <1>1, <1>3, ConstantsAssumption DEF Held, Places, LocksHeld
<1> HIDE DEF r
<1>9. op'[n] = r /\ \A x \in Ops \ {n} : op'[x] = op[x]
    BY <1>2, <1>3, <1>4
<1> HIDE DEF n
<1>10. \/ rdq' = [rdq EXCEPT ![ep] = Append(@, n)] /\ wrq' = wrq
       \/ wrq' = [wrq EXCEPT ![ep] = Append(@, n)] /\ rdq' = rdq
    BY <1>3 DEF AppendAsyncOp
<1>11. \A x \in Endpoints \ {ep} : rdq'[x] = rdq[x] /\ wrq'[x] = wrq[x] /\ ready'[x] = ready[x]
    BY <1>2, <1>3, <1>10 DEF AppendAsyncOp
<1>12. QueuedAt(ep)' = {n}
  <2>1. ToSet(<<>>) = {} /\ ToSet(<<n>>) = {n} /\ Append(<<>>, n) = <<n>>
      BY DEF ToSet
  <2>2. \/ rdq'[ep] = <<n>> /\ wrq'[ep] = <<>>
        \/ wrq'[ep] = <<n>> /\ rdq'[ep] = <<>>
      BY <1>2, <1>6, <1>10, <2>1
  <2> QED
      BY <2>1, <2>2 DEF QueuedAt
<1>13. \A x \in Endpoints \ {ep} : QueuedAt(x)' = QueuedAt(x)
    BY <1>11 DEF QueuedAt
<1>14. \A x \in Endpoints : \A o \in QueuedAt(x) : o \in Ops \ {n}
  <2>1. \A x \in Endpoints : \A o \in QueuedAt(x) : o \in Ops /\ o \in 1 .. issued
      BY QueueFacts DEF Outstanding
  <2> QED
      BY <1>4, <2>1
<1>15. /\ \A x \in Endpoints : Held(x)' <=> Held(x)
       /\ \A x \in Endpoints : EventInFlight(x)' <=> EventInFlight(x)
    BY <1>3 DEF Held, Holds, EventInFlight
<1>16. LocksHeld' /\ OneEvent'
    BY <1>1, <1>3 DEF Places, LocksHeld, OneEvent, Holds
<1>17. InOnePlace'
    BY <1>1, <1>3, <1>6, <1>8, <1>11, <1>15 DEF Places, InOnePlace
<1>18. WaitsForWork'
  <2>1. ASSUME NEW x \in Endpoints, armed[x] # {} \/ EventInFlight(x)
        PROVE  QueuedAt(x)' # {} /\ \A o \in QueuedAt(x)' : op'[o].prov
    <3>1. x # ep
        BY <1>6, <2>1
    <3>2. QueuedAt(x) # {} /\ \A o \in QueuedAt(x) : op[o].prov
        BY <1>1, <2>1 DEF Work, WaitsForWork
    <3> QED
        BY <1>9, <1>13, <1>14, <3>1, <3>2
  <2> QED
      BY <1>3, <1>15, <2>1 DEF WaitsForWork
<1>19. PassedOver'
  <2>1. ASSUME NEW v \in Workers, pc[v] \in {"wr", "rearm"}
        PROVE  /\ pc[v] = "wr" => \A o \in ToSet(rdq'[cur[v]]) : op'[o].prov
               /\ pc[v] = "rearm" => \A o \in QueuedAt(cur[v])' : op'[o].prov
    <3>1. cur[v] \in Endpoints \ {ep}
        BY <1>1, <1>8, <2>1 DEF Held, Holds, Typed, CurIsEndpoint
    <3>2. /\ rdq'[cur[v]] = rdq[cur[v]] /\ QueuedAt(cur[v])' = QueuedAt(cur[v])
          /\ ToSet(rdq[cur[v]]) \subseteq QueuedAt(cur[v])
          /\ \A o \in QueuedAt(cur[v]) : op'[o] = op[o]
      <4>1. rdq'[cur[v]] = rdq[cur[v]] /\ wrq'[cur[v]] = wrq[cur[v]]
          BY <1>11, <3>1
      <4>2. \A o \in QueuedAt(cur[v]) : op'[o] = op[o]
          BY <1>9, <1>14, <3>1
      <4> QED
          BY <1>3, <4>1, <4>2 DEF QueuedAt
    <3> QED
        BY <1>1, <2>1, <3>2 DEF Work, PassedOver
  <2> QED
      BY <1>3, <2>1 DEF PassedOver, QueuedAt
<1>20. StatusFits'
  <2>1. ASSUME NEW x \in Endpoints, NEW o \in QueuedAt(x)'
        PROVE  /\ status[x] = IF op'[o].prov THEN Underway(op'[o].kind) ELSE Expected(op'[o].kind)
               /\ op'[o].kind = "CONNECT" => op'[o].prov = op'[o].conn
    <3>1. CASE x = ep
      <4>1. QueuedAt(x)' = {n}
          BY <1>12, <3>1 DEF QueuedAt
      <4>2. op'[o] = r
          BY <1>9, <2>1, <4>1
      <4> QED
          BY <1>5, <1>7, <3>1, <4>2
    <3>2. CASE x # ep
      <4>1. o \in QueuedAt(x) /\ op'[o] = op[o]
          BY <1>9, <1>13, <1>14, <2>1, <3>2
      <4> QED
          BY <1>1, <4>1 DEF StatusLaws, StatusFits
    <3> QED
        BY <3>1, <3>2
  <2> QED
      BY <1>3, <2>1 DEF StatusFits
<1>21. JoinedExist' /\ HupIsStream' /\ ValidOpsNotRejected'
    BY <1>1, <1>3 DEF StatusLaws, JoinedExist, HupIsStream, Replies, ValidOpsNotRejected
<1>22. StatusHeld'
    BY <1>1, <1>3, <1>7, <1>11 DEF StatusLaws, StatusHeld, Expected
<1>23. OneEach'
  <2>1. ASSUME NEW x \in Endpoints, NEW o \in Outstanding(x)'
        PROVE  IF x = ep THEN o = n ELSE o \in Outstanding(x)
    <3>1. o \in 1 .. n /\ op'[o].ep = x /\ answer[o] = "none"
        BY <1>3, <2>1 DEF Outstanding
    <3>2. CASE o = n
        BY <1>5, <1>9, <3>1, <3>2
    <3>3. CASE o # n
      <4>1. o \in 1 .. issued /\ op'[o] = op[o]
          BY <1>2, <1>4, <1>9, <3>1, <3>3 DEF n, Ops
      <4>2. o \in Outstanding(x)
          BY <3>1, <4>1 DEF Outstanding
      <4> QED
          BY <1>6, <4>2
    <3> QED
        BY <3>2, <3>3
  <2> QED
      BY <1>1, <2>1 DEF Replies, OneEach
<1>24. DoneValid'
  <2>1. \A o \in ToSet(doneList) : o \in Ops /\ o \in 1 .. issued
      BY <1>1, <1>2, QueuedAreUnanswered, ElementOfSeq, LenProperties DEF ToSet
  <2>2. \A o \in ToSet(doneList) : op'[o] = op[o]
      BY <1>4, <1>9, <2>1
  <2> QED
      BY <1>1, <1>3, <2>2 DEF Replies, DoneValid
<1>25. OnlyRefusalsAssert'
    BY <1>1, <1>3 DEF OnlyRefusalsAssert
<1> QED
    BY <1>16, <1>17, <1>18, <1>19, <1>20, <1>21, <1>22, <1>23, <1>24, <1>25
    DEF Kept, Places, Work, StatusLaws, Replies

\* A step of the network, or an endpoint that joins, touches no queue or list.
LEMMA QuietKeeps ==
    ASSUME Orderly,
           UNCHANGED <<status, issued, op, answer, doneList, armed, pc, cur, evts>>,
           failed' = failed \/ failed' \in Refusals,
           \A ep \in Endpoints : /\ ready'[ep] = ready[ep]
                                 /\ rdq'[ep] = rdq[ep] /\ wrq'[ep] = wrq[ep]
                                 /\ joined'[ep] => joined[ep] \/ status[ep] # "NONE"
                                 /\ hup[ep] => hup'[ep]
                                 /\ hup'[ep] => hup[ep] \/ status[ep] \in {"CONNECTING", "CONNECTED"},
           \A w \in Workers : Holds(w) => lock'[cur[w]] = lock[cur[w]]
    PROVE  Kept'
<1>1. /\ Typed /\ Places /\ Work /\ StatusLaws /\ Replies /\ OnlyRefusalsAssert
    BY DEF Orderly, Implements
<1>2. \A ep \in Endpoints : /\ QueuedAt(ep)' = QueuedAt(ep) /\ Outstanding(ep)' = Outstanding(ep)
                            /\ (Held(ep)' <=> Held(ep))
                            /\ (EventInFlight(ep)' <=> EventInFlight(ep))
    BY DEF QueuedAt, Outstanding, Held, Holds, EventInFlight
<1>3. LocksHeld' /\ OneEvent'
    BY <1>1 DEF Places, LocksHeld, OneEvent, Holds
<1>4. InOnePlace'
    BY <1>1, <1>2 DEF Places, InOnePlace
<1>5. WaitsForWork'
    BY <1>1, <1>2 DEF Work, WaitsForWork
<1>6. PassedOver'
  <2>1. \A w \in Workers : pc[w] \in {"wr", "rearm"} => cur[w] \in Endpoints
      BY <1>1 DEF Typed, CurIsEndpoint
  <2> QED
      BY <1>1, <2>1 DEF Work, PassedOver, QueuedAt
<1>7. StatusFits'
    BY <1>1, <1>2 DEF StatusLaws, StatusFits
<1>8. JoinedExist' /\ StatusHeld'
    BY <1>1 DEF StatusLaws, JoinedExist, StatusHeld
<1>9. HupIsStream'
  <2>1. \A w \in Workers : \A e \in evts[w] : e.ep \in Endpoints
      BY <1>1 DEF Typed, TypeOK, Events
  <2> QED
      BY <1>1, <2>1 DEF StatusLaws, HupIsStream
<1>10. Replies'
    BY <1>1, <1>2 DEF Replies, OneEach, DoneValid, ValidOpsNotRejected
<1> QED
    BY <1>1, <1>3, <1>4, <1>5, <1>6, <1>7, <1>8, <1>9, <1>10
    DEF Kept, Places, Work, StatusLaws, OnlyRefusalsAssert
\* Endpoints join and operations are submitted; nothing closes or departs.
LEMMA ApplicationKeeps ==
    ASSUME Orderly, ~CanStop, MaxOutstanding = 1, Application
    PROVE  Kept'
<1>1. /\ rdq \in [Endpoints -> Seq(Ops)] /\ wrq \in [Endpoints -> Seq(Ops)]
      /\ ready \in [Endpoints -> BOOLEAN] /\ joined \in [Endpoints -> BOOLEAN]
      /\ lock \in [Endpoints -> Workers \union {NoWorker}]
      /\ EmptyUnlessJoined /\ ContextsExist
    BY DEF Orderly, Inv, Implements, Typed, TypeOK
<1>2. ASSUME NEW ep \in Endpoints, Join(ep) PROVE Kept'
  <2>1. /\ ~joined[ep] /\ status[ep] # "NONE"
        /\ joined' = [joined EXCEPT ![ep] = TRUE] /\ ready' = [ready EXCEPT ![ep] = FALSE]
        /\ rdq' = [rdq EXCEPT ![ep] = <<>>] /\ wrq' = [wrq EXCEPT ![ep] = <<>>]
        /\ lock' = [lock EXCEPT ![ep] = NoWorker]
        /\ UNCHANGED <<status, issued, op, answer, doneList, armed, hup, pc, cur, evts, failed>>
      BY <1>2 DEF Join, opVars, osVars, workerVars
  <2>2. ~ready[ep] /\ rdq[ep] = <<>> /\ wrq[ep] = <<>>
      BY <1>1, <2>1 DEF ContextsExist, EmptyUnlessJoined
  <2>3. \A e \in Endpoints : /\ ready'[e] = ready[e] /\ rdq'[e] = rdq[e] /\ wrq'[e] = wrq[e]
                             /\ joined'[e] => joined[e] \/ status[e] # "NONE"
      BY <1>1, <2>1, <2>2
  <2>4. \A w \in Workers : Holds(w) => lock'[cur[w]] = lock[cur[w]]
    <3>1. \A w \in Workers : Holds(w) => cur[w] # ep
        BY <1>1, <2>1 DEF ContextsExist
    <3> QED
        BY <2>1, <3>1
  <2> QED
      BY <2>1, <2>3, <2>4, QuietKeeps
<1>3. ASSUME NEW ep \in Endpoints, NEW kind \in Kinds, Submit(ep, kind) PROVE Kept'
    BY <1>3, SubmitKeeps
<1> QED
    BY <1>2, <1>3 DEF Application, Close, Depart, SetEnable, RunAgain

\* Only a stream hangs up.
LEMMA NetworkKeeps ==
    ASSUME Orderly, Network
    PROVE  Kept'
<1>1. hup \in [Endpoints -> BOOLEAN]
    BY DEF Orderly, Implements, Typed, TypeOK
<1>2. UNCHANGED <<ctxVars, opVars, doneList, armed, workerVars, failed>>
    BY DEF Network, NetReadable, NetWritable, NetHup
<1>3. \A ep \in Endpoints : /\ hup[ep] => hup'[ep]
                            /\ hup'[ep] => hup[ep] \/ status[ep] \in {"CONNECTING", "CONNECTED"}
    BY <1>1 DEF Network, NetReadable, NetWritable, NetHup
<1>4. /\ UNCHANGED <<status, issued, op, answer, doneList, armed, pc, cur, evts, failed>>
      /\ UNCHANGED <<ready, rdq, wrq, joined, lock>>
    BY <1>2 DEF ctxVars, opVars, workerVars
<1> QED
    BY <1>3, <1>4, QuietKeeps

\* The assertions on a system call stop the program where it is.
LEMMA RefusalKeeps ==
    ASSUME Asserts, Orderly, NEW w \in Workers,
           EpollInterrupted(w) \/ RearmFails(w) \/ AcceptAsserts(w)
    PROVE  Kept'
<1>1. PICK label \in Refusals : AssertFails(label)
    BY DEF EpollInterrupted, RearmFails, AcceptAsserts, Refusals
<1>2. /\ UNCHANGED <<status, issued, op, answer, doneList, armed, pc, cur, evts>>
      /\ UNCHANGED <<ready, rdq, wrq, joined, lock, hup>>
      /\ failed' \in Refusals
    BY <1>1 DEF AssertFails, ctxVars, opVars, osVars, workerVars
<1> QED
    BY <1>2, QuietKeeps

LEMMA RunOnceKeeps ==
    ASSUME Asserts, Orderly, NEW w \in Workers, RunOnce(w)
    PROVE  Kept'
BY EmitKeeps, EnterKeeps, PerformKeeps, RearmKeeps, EpollWaitKeeps, MovesKeep, DispatchKeeps,
   RefusalKeeps
DEF RunOnce

-----------------------------------------------------------------------------
(* The invariant and what it gives *)

LEMMA OrderlyInit == Init => Orderly
<1> SUFFICES ASSUME Init PROVE Orderly
    OBVIOUS
<1>1. Inv /\ Implements
    BY InvInit, ImplementsInit
<1>2. \A ep \in Endpoints : QueuedAt(ep) = {} /\ Outstanding(ep) = {} /\ ~EventInFlight(ep)
    BY DEF Init, QueuedAt, Outstanding, EventInFlight, ToSet
<1>3. \A w \in Workers : ~Holds(w) /\ evts[w] = {} /\ pc[w] = "top"
    BY DEF Init, Holds
<1>4. Places
    BY <1>2, <1>3 DEF Init, Places, LocksHeld, InOnePlace, OneEvent, Held
<1>5. Work
    BY <1>2, <1>3 DEF Init, Work, WaitsForWork, PassedOver
<1>6. StatusLaws
    BY <1>2, <1>3 DEF Init, StatusLaws, StatusFits, JoinedExist, StatusHeld, HupIsStream
<1>7. Replies
  <2>1. ToSet(doneList) = {}
      BY DEF Init, ToSet
  <2> QED
      BY <1>2, <2>1 DEF Init, Replies, OneEach, DoneValid, ValidOpsNotRejected
<1> QED
    BY <1>1, <1>4, <1>5, <1>6, <1>7 DEF Init, Orderly, OnlyRefusalsAssert

LEMMA OrderlyNext ==
    ASSUME Asserts, ~CanStop, MaxOutstanding = 1, Orderly, [Next]_vars
    PROVE  Orderly'
<1>1. Inv' /\ Implements'
    BY InvNext, ImplementsNext DEF Orderly
<1>2. CASE Application \/ Network \/ \E w \in Workers : RunOnce(w)
  <2>1. Kept'
      BY <1>2, ApplicationKeeps, NetworkKeeps, RunOnceKeeps
  <2> QED
      BY <1>1, <2>1 DEF Kept, Orderly
<1>3. CASE UNCHANGED vars
  <2>1. /\ UNCHANGED <<status, joined, ready, rdq, wrq, lock, issued, op, answer>>
        /\ UNCHANGED <<doneList, armed, hup, pc, cur, evts, failed>>
      BY <1>3 DEF vars, ctxVars, opVars, osVars, workerVars
  <2>2. Kept'
      BY <2>1, QuietKeeps
  <2> QED
      BY <1>1, <2>2 DEF Kept, Orderly
<1> QED
    BY <1>2, <1>3 DEF Next, Aborted

\* The one operation of an endpoint explains its status.
LEMMA OrderlyStatus == Orderly => StatusHasItsOperation
<1> SUFFICES ASSUME Orderly, NEW ep \in Endpoints
             PROVE  /\ status[ep] = "ACCEPTING" =>
                          /\ rdq[ep] # <<>>
                          /\ op[Head(rdq[ep])].kind = "ACCEPT" /\ op[Head(rdq[ep])].prov
                    /\ status[ep] = "CONNECTING" =>
                          hup[ep] \/ (wrq[ep] # <<>> /\ op[Head(wrq[ep])].conn)
    BY DEF StatusHasItsOperation
<1>1. StatusFits /\ StatusHeld /\ Typed
    BY DEF Orderly, StatusLaws, Implements
<1>2. ASSUME NEW o \in QueuedAt(ep)
      PROVE  /\ status[ep] = "ACCEPTING" => op[o].kind = "ACCEPT" /\ op[o].prov
             /\ status[ep] = "CONNECTING" => op[o].conn
    BY <1>1 DEF StatusFits, Underway, Expected
<1>3. /\ rdq[ep] # <<>> => Head(rdq[ep]) \in QueuedAt(ep)
      /\ wrq[ep] # <<>> => Head(wrq[ep]) \in QueuedAt(ep)
    BY OneQueued
<1> QED
    BY <1>1, <1>2, <1>3 DEF StatusHeld

LEMMA OrderlyAlways ==
    ASSUME Asserts, ~CanStop, MaxOutstanding = 1
    PROVE  Spec => []Orderly
<1>1. Init => Orderly
    BY OrderlyInit
<1>2. Orderly /\ [Next]_vars => Orderly'
    BY OrderlyNext
<1> QED
    BY <1>1, <1>2, PTL DEF Spec

\* With one unanswered operation per endpoint, whatever the system refuses, the
\* assertions on the program's own state hold: the ready flag when a worker enters a
\* context (netiomux_epoll.hpp:220) and its absence when epoll reports (285, 313), and
\* the status each operation asserts when it is first performed (508 to 691).  Only
\* those on the outcome of a system call stop the program: epoll_ctl (260), epoll_wait
\* (271), and the naming of an accepted socket (netendpoint.cpp:127, and 438 when
\* the endpoint has closed itself).
THEOREM AssertionsHold ==
    ASSUME Asserts, ~CanStop, MaxOutstanding = 1
    PROVE  Spec => []OnlyRefusalsAssert
<1>1. Orderly => OnlyRefusalsAssert
    BY DEF Orderly
<1> QED
    BY <1>1, OrderlyAlways, PTL

\* With one unanswered operation per endpoint, the callback of an operation that
\* suited its endpoint when it was submitted is never given EE_INVALID_OP, which
\* performIoLocked leaves for an operation it met in another status.
THEOREM SuitableOpsAreTaken ==
    ASSUME Asserts, ~CanStop, MaxOutstanding = 1
    PROVE  Spec => []ValidOpsNotRejected
<1>1. Orderly => ValidOpsNotRejected
    BY DEF Orderly, Replies
<1> QED
    BY <1>1, OrderlyAlways, PTL

\* With one unanswered operation per endpoint, an endpoint is in the status
\* ESTAT_ACCEPTING or ESTAT_CONNECTING only while the accept or connect that set it
\* waits at the head of its queue, or once the connection broke.
THEOREM StatusIsAccountedFor ==
    ASSUME Asserts, ~CanStop, MaxOutstanding = 1
    PROVE  Spec => []StatusHasItsOperation
<1>1. Orderly => StatusHasItsOperation
    BY OrderlyStatus
<1> QED
    BY <1>1, OrderlyAlways, PTL
=============================================================================
