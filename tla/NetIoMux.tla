------------------------------ MODULE NetIoMux ------------------------------
(***************************************************************************)
(* The epoll implementation of NetIoMux (src/src/platform/                 *)
(* netiomux_epoll.hpp): worker threads loop in runOnce, which              *)
(*   1. pops one completed operation and invokes its callback,             *)
(*   2. pops one endpoint of the ready list and, under the lock of the     *)
(*      endpoint's AsyncContext, performs its queued operations until they *)
(*      would block, then arms epoll for the ones that are left,           *)
(*   3. waits in epoll and puts the endpoints it reports on the ready list.*)
(* Application threads, and the callbacks, submit operations at any time.  *)
(*                                                                         *)
(* Every critical section of a context's lock is split where another       *)
(* thread can see it: the completion list is shared, so each performed     *)
(* operation is a step of its own.  Data is abstracted: a payload is not   *)
(* represented, a socket is readable, writable or broken.                  *)
(***************************************************************************)
EXTENDS Naturals, Sequences, FiniteSets, SequencesExt

CONSTANTS
    Endpoints,      \* NetEndpoint objects that may ever exist
    Workers,        \* threads that call NetIoMux::run()
    NoEp,           \* the null endpoint pointer
    NoWorker,       \* no thread holds the lock
    Kinds,          \* the operations the application uses (EIoType)
    MaxOps,         \* bound: operations ever submitted
    MaxOutstanding, \* discipline of the application: unanswered operations
                    \* it may have on one endpoint
    MaxReadyLen,    \* MAX_READY_LIST_LEN
    MaxEvents,      \* MAX_EVENTS_AT_ONCE
    Asserts,        \* xpfAssert is compiled in (NDEBUG is not defined)
    Signals,        \* epoll_wait may be interrupted (-1, EINTR)
    Faults,         \* the system may refuse epoll_ctl, and the naming of an
                    \* accepted socket
    CanStop         \* the application enables, disables, closes and departs

ReadKinds == {"RECV", "RECVFROM", "ACCEPT"}
WriteKinds == {"SEND", "SENDTO", "CONNECT"}

ASSUME ConstantsAssumption ==
    /\ NoEp \notin Endpoints
    /\ NoWorker \notin Workers
    /\ Kinds \subseteq ReadKinds \union WriteKinds
    /\ MaxOps \in Nat
    /\ MaxOutstanding \in Nat \ {0}
    /\ MaxReadyLen \in Nat \ {0}
    /\ MaxEvents \in Nat \ {0}
    /\ Asserts \in BOOLEAN
    /\ Signals \in BOOLEAN
    /\ Faults \in BOOLEAN
    /\ CanStop \in BOOLEAN

VARIABLES
    \* NetEndpoint and its AsyncContext
    status,     \* EStatus; "NONE": the object does not exist yet
    joined,     \* the endpoint has an AsyncContext
    ready,      \* AsyncContext::ready
    rdq,        \* AsyncContext::rdqueue
    wrq,        \* AsyncContext::wrqueue
    lock,       \* the thread that holds AsyncContext::lock
    \* operations (Overlapped), numbered in the order they are submitted
    issued,     \* how many were submitted
    op,         \* their fields
    answer,     \* what the callback reported: "none" before it is invoked
    \* NetIoMuxImpl
    readyList,  \* mReadyList
    doneList,   \* mCompletionList
    enable,     \* mEnable
    \* the operating system
    armed,      \* the events epoll will report once, per endpoint
    readable, writable, hup,
    refused,    \* history: endpoints whose last rearming was refused
    \* worker threads inside run()
    pc,         \* where each thread is
    cur,        \* runOnce's ep, popped off the ready list
    skip,       \* runOnce will not call epoll_wait: the list is too long
    evts,       \* events epoll_wait returned that are not yet handled
    failed      \* the xpfAssert that stopped the program, or "no"

ctxVars == <<status, joined, ready, rdq, wrq, lock>>
opVars == <<issued, op, answer>>
osVars == <<armed, readable, writable, hup, refused>>
workerVars == <<pc, cur, skip, evts>>
vars == <<ctxVars, opVars, readyList, doneList, enable, osVars, workerVars, failed>>

Ops == 1 .. MaxOps
Statuses == {"NONE", "INIT", "LISTENING", "ACCEPTING", "CONNECTING", "CONNECTED", "INVALID"}
Answers == {"SUCCESS", "INVALID_OP", "RESOLVE", "FAILED"}
AllAnswers == Answers \union {"none", "abandoned"}
Locations == {"top", "pop", "enter", "rd", "wr", "rearm", "wait", "dispatch", "stopped"}

\* The assertions on the outcome of a system call, and those on the program's own
\* state; "join" stands for fcntl on an accepted endpoint that closed itself.
Refusals == {"epoll_wait", "epoll_ctl", "getsockname", "join"}
Failures == {"no", "ready on enter", "ready on event", "status"} \union Refusals

\* A struct Overlapped: `conn' stands for length = 1 of a connect in progress,
\* `peer' for a peer pointer that is not null, `err' for errorcode # 0.
Records == [ep : Endpoints \union {NoEp}, kind : Kinds \union {"none"},
            prov : BOOLEAN, err : BOOLEAN, conn : BOOLEAN, peer : BOOLEAN]
Blank == [ep |-> NoEp, kind |-> "none",
          prov |-> FALSE, err |-> FALSE, conn |-> FALSE, peer |-> FALSE]

\* What EPOLLIN, EPOLLOUT, EPOLLERR and EPOLLHUP say of an endpoint.
Events == [ep : Endpoints, hup : BOOLEAN]

TypeOK ==
    /\ status \in [Endpoints -> Statuses]
    /\ joined \in [Endpoints -> BOOLEAN]
    /\ ready \in [Endpoints -> BOOLEAN]
    /\ rdq \in [Endpoints -> Seq(Ops)]
    /\ wrq \in [Endpoints -> Seq(Ops)]
    /\ lock \in [Endpoints -> Workers \union {NoWorker}]
    /\ issued \in 0 .. MaxOps
    /\ op \in [Ops -> Records]
    /\ answer \in [Ops -> AllAnswers]
    /\ readyList \in Seq(Endpoints)
    /\ doneList \in Seq(Ops)
    /\ enable \in BOOLEAN
    /\ armed \in [Endpoints -> SUBSET {"IN", "OUT"}]
    /\ readable \in [Endpoints -> BOOLEAN]
    /\ writable \in [Endpoints -> BOOLEAN]
    /\ hup \in [Endpoints -> BOOLEAN]
    /\ refused \subseteq Endpoints
    /\ pc \in [Workers -> Locations]
    /\ cur \in [Workers -> Endpoints \union {NoEp}]
    /\ skip \in [Workers -> BOOLEAN]
    /\ evts \in [Workers -> SUBSET Events]
    /\ failed \in Failures

\* The constructors: worker threads have entered run(); no endpoint has joined.
Init ==
    /\ status \in [Endpoints -> {"NONE", "INIT", "LISTENING", "CONNECTED"}]
    /\ joined = [ep \in Endpoints |-> FALSE]
    /\ ready = [ep \in Endpoints |-> FALSE]
    /\ rdq = [ep \in Endpoints |-> <<>>]
    /\ wrq = [ep \in Endpoints |-> <<>>]
    /\ lock = [ep \in Endpoints |-> NoWorker]
    /\ issued = 0
    /\ op = [o \in Ops |-> Blank]
    /\ answer = [o \in Ops |-> "none"]
    /\ readyList = <<>>
    /\ doneList = <<>>
    /\ enable = TRUE
    /\ armed = [ep \in Endpoints |-> {}]
    /\ readable = [ep \in Endpoints |-> FALSE]
    /\ writable = [ep \in Endpoints |-> FALSE]
    /\ hup = [ep \in Endpoints |-> FALSE]
    /\ refused = {}
    /\ pc = [w \in Workers |-> "top"]
    /\ cur = [w \in Workers |-> NoEp]
    /\ skip = [w \in Workers |-> FALSE]
    /\ evts = [w \in Workers |-> {}]
    /\ failed = "no"

\* xpfAssert is false: abort().
AssertFails(label) ==
    /\ failed' = label
    /\ UNCHANGED <<ctxVars, opVars, readyList, doneList, enable, osVars, workerVars>>

\* A thread only moves on.
Goto(w, location) ==
    /\ pc' = [pc EXCEPT ![w] = location]
    /\ UNCHANGED <<ctxVars, opVars, readyList, doneList, enable, osVars, cur, skip, evts, failed>>

-----------------------------------------------------------------------------
(* The application: any thread, callbacks included *)

\* Bundles the endpoint with a new AsyncContext and makes it non-blocking.
Join(ep) ==
    /\ status[ep] \notin {"NONE", "INVALID"}
    /\ ~joined[ep]
    /\ joined' = [joined EXCEPT ![ep] = TRUE]
    /\ ready' = [ready EXCEPT ![ep] = FALSE]
    /\ rdq' = [rdq EXCEPT ![ep] = <<>>]
    /\ wrq' = [wrq EXCEPT ![ep] = <<>>]
    /\ lock' = [lock EXCEPT ![ep] = NoWorker]
    /\ UNCHANGED <<status, opVars, readyList, doneList, enable, osVars, workerVars, failed>>

Outstanding(ep) == {o \in 1 .. issued : op[o].ep = ep /\ answer[o] = "none"}

\* The status an operation expects when it is first performed.
Expected(kind) ==
    CASE kind = "ACCEPT" -> "LISTENING"
      [] kind = "CONNECT" -> "INIT"
      [] OTHER -> "CONNECTED"

\* The application submits what suits the endpoint, and only so many at once.
MaySubmit(ep, kind) ==
    /\ joined[ep]
    /\ issued < MaxOps
    /\ Cardinality(Outstanding(ep)) < MaxOutstanding
    /\ \/ status[ep] = Expected(kind)
       \/ kind = "ACCEPT" /\ status[ep] = "ACCEPTING"

\* Defect: the ready flag is not looked at.
AppendAsyncOp_ListsAlways(ep, kind, o) ==
    /\ IF kind \in ReadKinds
         THEN rdq' = [rdq EXCEPT ![ep] = Append(@, o)] /\ UNCHANGED wrq
         ELSE wrq' = [wrq EXCEPT ![ep] = Append(@, o)] /\ UNCHANGED rdq
    /\ ready' = [ready EXCEPT ![ep] = TRUE]
    /\ readyList' = Append(readyList, ep)

\* Defect: the operation goes in front of those that wait.
AppendAsyncOp_InFront(ep, kind, o) ==
    /\ IF kind \in ReadKinds
         THEN rdq' = [rdq EXCEPT ![ep] = <<o>> \o @] /\ UNCHANGED wrq
         ELSE wrq' = [wrq EXCEPT ![ep] = <<o>> \o @] /\ UNCHANGED rdq
    /\ IF ready[ep]
         THEN UNCHANGED <<ready, readyList>>
         ELSE /\ ready' = [ready EXCEPT ![ep] = TRUE]
              /\ readyList' = Append(readyList, ep)

\* appendAsyncOpLocked: queue the operation; list the endpoint unless it is.
AppendAsyncOp(ep, kind, o) ==
    /\ IF kind \in ReadKinds
         THEN rdq' = [rdq EXCEPT ![ep] = Append(@, o)] /\ UNCHANGED wrq
         ELSE wrq' = [wrq EXCEPT ![ep] = Append(@, o)] /\ UNCHANGED rdq
    /\ IF ready[ep]
         THEN UNCHANGED <<ready, readyList>>
         ELSE /\ ready' = [ready EXCEPT ![ep] = TRUE]
              /\ readyList' = Append(readyList, ep)

\* asyncRecv, asyncRecvFrom, asyncSend, asyncSendTo, asyncAccept, asyncConnect.
Submit(ep, kind) ==
    /\ MaySubmit(ep, kind)
    /\ lock[ep] = NoWorker
    /\ issued' = issued + 1
    /\ op' = [op EXCEPT ![issued + 1] =
                 [Blank EXCEPT !.ep = ep, !.kind = kind,
                               !.peer = kind \in {"RECVFROM", "SENDTO", "ACCEPT"}]]
    /\ AppendAsyncOp(ep, kind, issued + 1)
    /\ UNCHANGED <<status, joined, lock, answer, doneList, enable, osVars, workerVars, failed>>

\* enable() and disable().
SetEnable(val) ==
    /\ CanStop
    /\ enable' = val
    /\ UNCHANGED <<ctxVars, opVars, readyList, doneList, osVars, workerVars, failed>>

\* A thread whose run() returned calls it again.
RunAgain(w) ==
    /\ CanStop
    /\ pc[w] = "stopped"
    /\ enable
    /\ Goto(w, "top")

\* NetEndpoint::close once every operation was answered: the socket leaves epoll.
Close(ep) ==
    /\ CanStop
    /\ status[ep] \notin {"NONE", "INVALID"}
    /\ Outstanding(ep) = {}
    /\ status' = [status EXCEPT ![ep] = "INVALID"]
    /\ armed' = [armed EXCEPT ![ep] = {}]
    /\ readable' = [readable EXCEPT ![ep] = FALSE]
    /\ writable' = [writable EXCEPT ![ep] = FALSE]
    /\ hup' = [hup EXCEPT ![ep] = FALSE]
    /\ UNCHANGED <<joined, ready, rdq, wrq, lock, opVars, readyList, doneList,
                   enable, refused, workerVars, failed>>

\* A departing endpoint that is ready leaves the ready list, where it is first met.
Unlist(ep) ==
    IF ready[ep] /\ ep \in ToSet(readyList)
      THEN \E i \in DOMAIN readyList :
             /\ readyList[i] = ep
             /\ \A j \in 1 .. i - 1 : readyList[j] # ep
             /\ readyList' = RemoveAt(readyList, i)
      ELSE UNCHANGED readyList

\* depart(), called when no thread runs the multiplexer: the operations still
\* queued go with the context and are never reported.
Depart(ep) ==
    /\ CanStop
    /\ \A w \in Workers : pc[w] = "stopped"
    /\ joined[ep]
    /\ status[ep] # "INVALID"
    /\ armed' = [armed EXCEPT ![ep] = {}]
    /\ Unlist(ep)
    /\ answer' = [o \in Ops |-> IF o \in ToSet(rdq[ep]) \union ToSet(wrq[ep])
                                  THEN "abandoned" ELSE answer[o]]
    /\ joined' = [joined EXCEPT ![ep] = FALSE]
    /\ ready' = [ready EXCEPT ![ep] = FALSE]
    /\ rdq' = [rdq EXCEPT ![ep] = <<>>]
    /\ wrq' = [wrq EXCEPT ![ep] = <<>>]
    /\ UNCHANGED <<status, lock, issued, op, doneList, enable, readable, writable, hup,
                   refused, workerVars, failed>>

-----------------------------------------------------------------------------
(* runOnce, first part: the completion list *)

\* What the callback is told of a completed operation.
Report(o) ==
    IF ~op[o].prov
      THEN IF op[o].kind = "CONNECT" /\ op[o].peer THEN "RESOLVE" ELSE "INVALID_OP"
      ELSE IF op[o].err THEN "FAILED" ELSE "SUCCESS"

\* run() returns once it sees the multiplexer disabled.
Stop(w) ==
    /\ pc[w] = "top"
    /\ ~enable
    /\ Goto(w, "stopped")

\* Pops the completion list, invokes the callback and deletes the operation
\* (the endpoint and the kind are kept, for the properties).
Emit(w) ==
    /\ pc[w] = "top"
    /\ enable
    /\ pc' = [pc EXCEPT ![w] = "pop"]
    /\ IF doneList = <<>>
         THEN UNCHANGED <<doneList, answer, op>>
         ELSE LET o == Head(doneList) IN
              /\ doneList' = Tail(doneList)
              /\ answer' = [answer EXCEPT ![o] = Report(o)]
              /\ op' = [op EXCEPT ![o] =
                           [Blank EXCEPT !.ep = op[o].ep, !.kind = op[o].kind]]
    /\ UNCHANGED <<ctxVars, issued, readyList, enable, osVars, cur, skip, evts, failed>>

-----------------------------------------------------------------------------
(* runOnce, second part: the ready list *)

\* Pops the ready list; pendingCnt is its length afterwards.
PopReady(w) ==
    /\ pc[w] = "pop"
    /\ IF readyList = <<>>
         THEN /\ cur' = [cur EXCEPT ![w] = NoEp]
              /\ skip' = [skip EXCEPT ![w] = FALSE]
              /\ pc' = [pc EXCEPT ![w] = "wait"]
              /\ UNCHANGED readyList
         ELSE /\ cur' = [cur EXCEPT ![w] = Head(readyList)]
              /\ skip' = [skip EXCEPT ![w] = Len(readyList) - 1 >= MaxReadyLen]
              /\ pc' = [pc EXCEPT ![w] = "enter"]
              /\ readyList' = Tail(readyList)
    /\ UNCHANGED <<ctxVars, opVars, doneList, enable, osVars, evts, failed>>

\* runOnce goes on to epoll_wait, or returns because the ready list is long.
AfterReady(w) == IF skip[w] THEN "top" ELSE "wait"

\* The endpoint popped has no context any more.
EnterDeparted(w) ==
    /\ pc[w] = "enter"
    /\ ~joined[cur[w]]
    /\ Goto(w, AfterReady(w))

\* Locks the context of the endpoint popped and takes its ready flag down.
Enter(w) ==
    /\ pc[w] = "enter"
    /\ joined[cur[w]]
    /\ lock[cur[w]] = NoWorker
    /\ IF Asserts /\ ~ready[cur[w]]
         THEN AssertFails("ready on enter")
         ELSE /\ lock' = [lock EXCEPT ![cur[w]] = w]
              /\ ready' = [ready EXCEPT ![cur[w]] = FALSE]
              /\ pc' = [pc EXCEPT ![w] = "rd"]
              /\ UNCHANGED <<status, joined, rdq, wrq, opVars, readyList, doneList, enable,
                             osVars, cur, skip, evts, failed>>

-----------------------------------------------------------------------------
(* performIoLocked: one attempt at the operation at the head of a queue.    *)
(* It changes the operation and the endpoint, never a queue or a list.      *)

\* An operation met for the first time while the endpoint cannot take it.
Rejected(ep, o) == ~op[o].prov /\ status[ep] # Expected(op[o].kind)

\* Without the assertion such an operation completes unprovisioned.
Reject(ep, o) ==
    /\ Rejected(ep, o)
    /\ op' = [op EXCEPT ![o] = [@ EXCEPT !.err = FALSE,
                        !.peer = op[o].kind # "CONNECT" /\ op[o].peer]]
    /\ UNCHANGED <<status, joined, readable, writable, hup>>

\* recv, recvfrom, send, sendto: data moves, or the call fails.
Transfer(ep, o) ==
    /\ op[o].kind \in {"RECV", "RECVFROM", "SEND", "SENDTO"}
    /\ ~Rejected(ep, o)
    /\ \E failure, more \in BOOLEAN :
         /\ op' = [op EXCEPT ![o] = [@ EXCEPT !.prov = TRUE, !.err = failure]]
         /\ IF op[o].kind \in ReadKinds
              THEN /\ readable[ep] \/ hup[ep]
                   /\ readable' = [readable EXCEPT ![ep] = more]
                   /\ UNCHANGED writable
              ELSE /\ writable[ep] \/ hup[ep]
                   /\ writable' = [writable EXCEPT ![ep] = more]
                   /\ UNCHANGED readable
    /\ UNCHANGED <<status, joined, hup>>

\* Defect: an operation that blocks is not marked as provisioned.
TransferBlocks_Unprovisioned(ep, o) ==
    /\ op[o].kind \in {"RECV", "RECVFROM", "SEND", "SENDTO"}
    /\ ~Rejected(ep, o)
    /\ ~hup[ep]
    /\ IF op[o].kind \in ReadKinds THEN ~readable[ep] ELSE ~writable[ep]
    /\ UNCHANGED <<op, status, joined, readable, writable, hup>>

\* They would block.
TransferBlocks(ep, o) ==
    /\ op[o].kind \in {"RECV", "RECVFROM", "SEND", "SENDTO"}
    /\ ~Rejected(ep, o)
    /\ ~hup[ep]
    /\ IF op[o].kind \in ReadKinds THEN ~readable[ep] ELSE ~writable[ep]
    /\ op' = [op EXCEPT ![o] = [@ EXCEPT !.prov = TRUE]]
    /\ UNCHANGED <<status, joined, readable, writable, hup>>

\* accept: a new endpoint, already connected, joins the multiplexer; or it fails.
\* The new endpoint closes itself when its socket cannot be named, and joins all
\* the same (without assertions: see AcceptAsserts).
Accept(ep, o) ==
    /\ op[o].kind = "ACCEPT"
    /\ ~Rejected(ep, o)
    /\ readable[ep]
    /\ \E more \in BOOLEAN : readable' = [readable EXCEPT ![ep] = more]
    /\ \/ \E tep \in Endpoints \ {ep} :
            /\ status[tep] = "NONE"
            /\ op' = [op EXCEPT ![o] = [@ EXCEPT !.prov = TRUE, !.err = FALSE]]
            /\ status' = [status EXCEPT ![tep] = "CONNECTED", ![ep] = "LISTENING"]
            /\ joined' = [joined EXCEPT ![tep] = TRUE]
       \/ /\ Faults /\ ~Asserts
          /\ \E tep \in Endpoints \ {ep} :
               /\ status[tep] = "NONE"
               /\ op' = [op EXCEPT ![o] = [@ EXCEPT !.prov = TRUE, !.err = FALSE]]
               /\ status' = [status EXCEPT ![tep] = "INVALID", ![ep] = "LISTENING"]
               /\ joined' = [joined EXCEPT ![tep] = TRUE]
       \/ /\ op' = [op EXCEPT ![o] = [@ EXCEPT !.prov = TRUE, !.err = TRUE]]
          /\ status' = [status EXCEPT ![ep] = "LISTENING"]
          /\ UNCHANGED joined
    /\ UNCHANGED <<writable, hup>>

\* Defect: the same for accept.
AcceptBlocks_Unprovisioned(ep, o) ==
    /\ op[o].kind = "ACCEPT"
    /\ ~Rejected(ep, o)
    /\ ~readable[ep]
    /\ status' = [status EXCEPT ![ep] = "ACCEPTING"]
    /\ UNCHANGED <<op, joined, readable, writable, hup>>

AcceptBlocks(ep, o) ==
    /\ op[o].kind = "ACCEPT"
    /\ ~Rejected(ep, o)
    /\ ~readable[ep]
    /\ op' = [op EXCEPT ![o] = [@ EXCEPT !.prov = TRUE]]
    /\ status' = [status EXCEPT ![ep] = "ACCEPTING"]
    /\ UNCHANGED <<joined, readable, writable, hup>>

\* The first attempt at a connect that ends at once: the name does not resolve,
\* or connect() succeeds or fails.
ConnectEnds(ep, o) ==
    /\ op[o].kind = "CONNECT"
    /\ ~Rejected(ep, o)
    /\ ~op[o].conn
    /\ \/ /\ op' = [op EXCEPT ![o] = [@ EXCEPT !.peer = TRUE, !.err = FALSE]]
          /\ UNCHANGED status
       \/ /\ op' = [op EXCEPT ![o] = [@ EXCEPT !.peer = TRUE, !.prov = TRUE, !.err = FALSE]]
          /\ status' = [status EXCEPT ![ep] = "CONNECTED"]
       \/ /\ op' = [op EXCEPT ![o] = [@ EXCEPT !.peer = TRUE, !.prov = TRUE, !.err = TRUE]]
          /\ status' = [status EXCEPT ![ep] = "INIT"]
    /\ UNCHANGED <<joined, readable, writable, hup>>

\* connect() is in progress: length = 1 marks the operation.
ConnectBlocks(ep, o) ==
    /\ op[o].kind = "CONNECT"
    /\ ~Rejected(ep, o)
    /\ ~op[o].conn
    /\ op' = [op EXCEPT ![o] = [@ EXCEPT !.peer = TRUE, !.prov = TRUE, !.conn = TRUE]]
    /\ status' = [status EXCEPT ![ep] = "CONNECTING"]
    /\ writable' = [writable EXCEPT ![ep] = FALSE]
    /\ hup' = [hup EXCEPT ![ep] = FALSE]
    /\ UNCHANGED <<joined, readable>>

\* A connect in progress is met again: SO_ERROR of the socket decides.  When it
\* is not 0 the operation takes errno, which no call has set: any value.
ConnectFinishes(ep, o) ==
    /\ op[o].kind = "CONNECT"
    /\ op[o].prov /\ op[o].conn
    /\ \/ /\ op' = [op EXCEPT ![o] = [@ EXCEPT !.err = FALSE, !.conn = FALSE]]
          /\ status' = [status EXCEPT ![ep] = "CONNECTED"]
       \/ /\ hup[ep]
          /\ \E errno \in BOOLEAN :
               op' = [op EXCEPT ![o] = [@ EXCEPT !.err = errno, !.peer = FALSE]]
          /\ status' = [status EXCEPT ![ep] = "INIT"]
    /\ UNCHANGED <<joined, readable, writable, hup>>

Completes(ep, o) ==
    \/ Reject(ep, o)
    \/ Transfer(ep, o)
    \/ Accept(ep, o)
    \/ ConnectEnds(ep, o)
    \/ ConnectFinishes(ep, o)

WouldBlock(ep, o) ==
    \/ TransferBlocks(ep, o)
    \/ AcceptBlocks(ep, o)
    \/ ConnectBlocks(ep, o)

\* performIoLocked asserts the status before anything else.
StatusAssertFails(ep, o) == Asserts /\ Rejected(ep, o)

\* One operation of the read queue; the thread stays until one would block.
PerformRead(w) ==
    LET ep == cur[w]
        o == Head(rdq[ep])
    IN  /\ pc[w] = "rd"
        /\ rdq[ep] # <<>>
        /\ IF StatusAssertFails(ep, o)
             THEN AssertFails("status")
             ELSE /\ \/ /\ Completes(ep, o)
                        /\ rdq' = [rdq EXCEPT ![ep] = Tail(@)]
                        /\ doneList' = Append(doneList, o)
                        /\ UNCHANGED pc
                     \/ /\ WouldBlock(ep, o)
                        /\ pc' = [pc EXCEPT ![w] = "wr"]
                        /\ UNCHANGED <<rdq, doneList>>
                  /\ UNCHANGED <<ready, wrq, lock, issued, answer, readyList, enable, armed,
                                 refused, cur, skip, evts, failed>>

\* The constructor of an accepted endpoint asserts that its socket has a name, and
\* join asserts that the endpoint did not close itself.
AcceptAsserts(w) ==
    LET ep == cur[w]
        o == Head(rdq[ep])
    IN  /\ Faults /\ Asserts
        /\ pc[w] = "rd"
        /\ rdq[ep] # <<>>
        /\ op[o].kind = "ACCEPT"
        /\ ~Rejected(ep, o)
        /\ readable[ep]
        /\ \E label \in {"getsockname", "join"} : AssertFails(label)

\* The read queue is empty.
EndRead(w) ==
    /\ pc[w] = "rd"
    /\ rdq[cur[w]] = <<>>
    /\ Goto(w, "wr")

\* The same for the write queue.
PerformWrite(w) ==
    LET ep == cur[w]
        o == Head(wrq[ep])
    IN  /\ pc[w] = "wr"
        /\ wrq[ep] # <<>>
        /\ IF StatusAssertFails(ep, o)
             THEN AssertFails("status")
             ELSE /\ \/ /\ Completes(ep, o)
                        /\ wrq' = [wrq EXCEPT ![ep] = Tail(@)]
                        /\ doneList' = Append(doneList, o)
                        /\ UNCHANGED pc
                     \/ /\ WouldBlock(ep, o)
                        /\ pc' = [pc EXCEPT ![w] = "rearm"]
                        /\ UNCHANGED <<wrq, doneList>>
                  /\ UNCHANGED <<ready, rdq, lock, issued, answer, readyList, enable, armed,
                                 refused, cur, skip, evts, failed>>

EndWrite(w) ==
    /\ pc[w] = "wr"
    /\ wrq[cur[w]] = <<>>
    /\ Goto(w, "rearm")

\* Defect: only one direction is armed.
Interest_OneDirection(ep) ==
    IF rdq[ep] # <<>> THEN {"IN"} ELSE IF wrq[ep] # <<>> THEN {"OUT"} ELSE {}

\* Defect: hang-ups are asked for by themselves.
Interest_WithHup(ep) ==
    (IF rdq[ep] # <<>> THEN {"IN"} ELSE {}) \union (IF wrq[ep] # <<>> THEN {"OUT", "HUP"} ELSE {})

\* The events the queues of an endpoint wait for.
Interest(ep) ==
    (IF rdq[ep] # <<>> THEN {"IN"} ELSE {}) \union (IF wrq[ep] # <<>> THEN {"OUT"} ELSE {})

\* Arms epoll for the operations left, if any, and unlocks the context.
Rearm(w) ==
    LET ep == cur[w]
    IN  /\ pc[w] = "rearm"
        /\ armed' = IF Interest(ep) # {} THEN [armed EXCEPT ![ep] = Interest(ep)] ELSE armed
        /\ refused' = refused \ {ep}
        /\ lock' = [lock EXCEPT ![ep] = NoWorker]
        /\ cur' = [cur EXCEPT ![w] = NoEp]
        /\ pc' = [pc EXCEPT ![w] = AfterReady(w)]
        /\ UNCHANGED <<status, joined, ready, rdq, wrq, opVars, readyList, doneList, enable,
                       readable, writable, hup, skip, evts, failed>>

\* epoll_ctl fails: asserted against; without the assertion nothing is armed, and
\* the operations left wait for the next one that is submitted.
RearmFails(w) ==
    LET ep == cur[w]
    IN  /\ Faults
        /\ pc[w] = "rearm"
        /\ Interest(ep) # {}
        /\ IF Asserts
             THEN AssertFails("epoll_ctl")
             ELSE /\ refused' = refused \union {ep}
                  /\ lock' = [lock EXCEPT ![ep] = NoWorker]
                  /\ cur' = [cur EXCEPT ![w] = NoEp]
                  /\ pc' = [pc EXCEPT ![w] = AfterReady(w)]
                  /\ UNCHANGED <<status, joined, ready, rdq, wrq, opVars, readyList, doneList,
                                 enable, armed, readable, writable, hup, skip, evts, failed>>

-----------------------------------------------------------------------------
(* runOnce, third part: epoll *)

Deliverable == {ep \in Endpoints :
    /\ armed[ep] # {}
    /\ \/ "IN" \in armed[ep] /\ readable[ep]
       \/ "OUT" \in armed[ep] /\ writable[ep]
       \/ hup[ep]}

\* epoll_wait returns what is there, MaxEvents at most, and disarms it
\* (EPOLLONESHOT); with nothing there it times out.
EpollWait(w) ==
    /\ pc[w] = "wait"
    /\ IF Deliverable = {}
         THEN pc' = [pc EXCEPT ![w] = "top"] /\ UNCHANGED <<evts, armed>>
         ELSE \E batch \in SUBSET Deliverable :
                /\ \/ Cardinality(batch) = MaxEvents
                   \/ batch = Deliverable /\ Cardinality(batch) <= MaxEvents
                /\ evts' = [evts EXCEPT ![w] = {[ep |-> ep, hup |-> hup[ep]] : ep \in batch}]
                /\ armed' = [ep \in Endpoints |-> IF ep \in batch THEN {} ELSE armed[ep]]
                /\ pc' = [pc EXCEPT ![w] = "dispatch"]
    /\ UNCHANGED <<ctxVars, opVars, readyList, doneList, enable, readable, writable, hup,
                   refused, cur, skip, failed>>

\* epoll_wait returns -1: asserted against, and run() ends without the assertion.
EpollInterrupted(w) ==
    /\ Signals
    /\ pc[w] = "wait"
    /\ IF Asserts
         THEN AssertFails("epoll_wait")
         ELSE Goto(w, "stopped")

\* Defect: the queues are not cleared.
AbortAll_KeepsQueues(ep) ==
    LET aborted == ToSet(rdq[ep]) \union ToSet(wrq[ep])
    IN  /\ op' = [o \in Ops |-> IF o \in aborted THEN [op[o] EXCEPT !.err = TRUE] ELSE op[o]]
        /\ doneList' = doneList \o rdq[ep] \o wrq[ep]
        /\ ready' = [ready EXCEPT ![ep] = FALSE]
        /\ UNCHANGED <<rdq, wrq, readyList>>

\* EPOLLERR or EPOLLHUP: every queued operation completes with ECONNABORTED.
AbortAll(ep) ==
    LET aborted == ToSet(rdq[ep]) \union ToSet(wrq[ep])
    IN  /\ op' = [o \in Ops |-> IF o \in aborted THEN [op[o] EXCEPT !.err = TRUE] ELSE op[o]]
        /\ doneList' = doneList \o rdq[ep] \o wrq[ep]
        /\ rdq' = [rdq EXCEPT ![ep] = <<>>]
        /\ wrq' = [wrq EXCEPT ![ep] = <<>>]
        /\ ready' = [ready EXCEPT ![ep] = FALSE]
        /\ UNCHANGED readyList

\* Defect: the flag is forgotten.
List_ForgetsFlag(ep) ==
    /\ readyList' = Append(readyList, ep)
    /\ UNCHANGED <<rdq, wrq, op, doneList, ready>>

\* Defect: the list is forgotten.
List_ForgetsList(ep) ==
    /\ ready' = [ready EXCEPT ![ep] = TRUE]
    /\ UNCHANGED <<rdq, wrq, op, doneList, readyList>>

\* EPOLLIN or EPOLLOUT: the endpoint goes on the ready list.
List(ep) ==
    /\ ready' = [ready EXCEPT ![ep] = TRUE]
    /\ readyList' = Append(readyList, ep)
    /\ UNCHANGED <<rdq, wrq, op, doneList>>

\* One event epoll_wait returned, handled under the lock of its context.
Dispatch(w) ==
    /\ pc[w] = "dispatch"
    /\ \E e \in evts[w] :
         /\ lock[e.ep] = NoWorker
         /\ IF Asserts /\ ready[e.ep]
              THEN AssertFails("ready on event")
              ELSE /\ IF e.hup THEN AbortAll(e.ep) ELSE List(e.ep)
                   /\ evts' = [evts EXCEPT ![w] = @ \ {e}]
                   /\ UNCHANGED <<status, joined, lock, issued, answer, enable, osVars,
                                  pc, cur, skip, failed>>

\* All of them are handled.
EndDispatch(w) ==
    /\ pc[w] = "dispatch"
    /\ evts[w] = {}
    /\ Goto(w, "top")

-----------------------------------------------------------------------------
(* The network: what a socket does before it joins makes no difference *)

\* Data or a connection request arrives.
NetReadable(ep) ==
    /\ joined[ep]
    /\ status[ep] \in {"LISTENING", "ACCEPTING", "CONNECTED"}
    /\ readable' = [readable EXCEPT ![ep] = TRUE]
    /\ UNCHANGED <<ctxVars, opVars, readyList, doneList, enable, armed, writable, hup,
                   refused, workerVars, failed>>

\* The send buffer has room, or the connection in progress is established.
NetWritable(ep) ==
    /\ joined[ep]
    /\ status[ep] \in {"CONNECTING", "CONNECTED"}
    /\ writable' = [writable EXCEPT ![ep] = TRUE]
    /\ UNCHANGED <<ctxVars, opVars, readyList, doneList, enable, armed, readable, hup,
                   refused, workerVars, failed>>

\* The connection is refused, reset or closed.
NetHup(ep) ==
    /\ joined[ep]
    /\ status[ep] \in {"CONNECTING", "CONNECTED"}
    /\ hup' = [hup EXCEPT ![ep] = TRUE]
    /\ UNCHANGED <<ctxVars, opVars, readyList, doneList, enable, armed, readable, writable,
                   refused, workerVars, failed>>

-----------------------------------------------------------------------------
\* A thread inside run().
RunOnce(w) ==
    \/ Stop(w) \/ Emit(w) \/ PopReady(w) \/ EnterDeparted(w) \/ Enter(w)
    \/ PerformRead(w) \/ AcceptAsserts(w) \/ EndRead(w) \/ PerformWrite(w) \/ EndWrite(w)
    \/ Rearm(w) \/ RearmFails(w)
    \/ EpollWait(w) \/ EpollInterrupted(w) \/ Dispatch(w) \/ EndDispatch(w)

Application ==
    \/ \E ep \in Endpoints : Join(ep) \/ Close(ep) \/ Depart(ep)
    \/ \E ep \in Endpoints, kind \in Kinds : Submit(ep, kind)
    \/ \E val \in BOOLEAN : SetEnable(val)
    \/ \E w \in Workers : RunAgain(w)

Network == \E ep \in Endpoints : NetReadable(ep) \/ NetWritable(ep) \/ NetHup(ep)

\* abort() stopped the process.
Aborted == failed # "no" /\ UNCHANGED vars

Next ==
    \/ failed = "no" /\ (Application \/ Network \/ \E w \in Workers : RunOnce(w))
    \/ Aborted

Spec == Init /\ [][Next]_vars

\* Every worker thread is scheduled.
FairSpec == Spec /\ \A w \in Workers : WF_vars(failed = "no" /\ RunOnce(w))

-----------------------------------------------------------------------------
(* Safety *)

Listed(ep) == ep \in ToSet(readyList)
Entering(w, ep) == pc[w] = "enter" /\ cur[w] = ep

\* The ready flag of a context says that its endpoint waits for a worker: it is
\* in the ready list, or a worker has popped it and is about to lock the context,
\* once and not both.  Four places keep the flag (append, pop, event, depart),
\* and the pop happens before the lock is taken.
ReadyMeansListedOnce ==
    /\ IsInjective(readyList)
    /\ \A ep \in Endpoints : ready[ep] <=> Listed(ep) \/ \E w \in Workers : Entering(w, ep)
    /\ \A w \in Workers : pc[w] = "enter" => ~Listed(cur[w])
    /\ \A v, w \in Workers :
         pc[v] = "enter" /\ pc[w] = "enter" /\ cur[v] = cur[w] => v = w

Holds(w) == pc[w] \in {"rd", "wr", "rearm"}
EventInFlight(ep) == \E w \in Workers : \E e \in evts[w] : e.ep = ep

\* No operation is forgotten: an endpoint with a queued operation is on its way
\* to a worker, held by one, armed in epoll for the direction of the queue, or
\* reported by epoll to a thread that has not handled the event yet.  The one
\* exception: epoll_ctl was refused when the endpoint was last to be armed.
NoLostWakeup ==
    \A ep \in Endpoints :
      \/ ready[ep] \/ lock[ep] # NoWorker \/ EventInFlight(ep) \/ ep \in refused
      \/ /\ rdq[ep] # <<>> => "IN" \in armed[ep]
         /\ wrq[ep] # <<>> => "OUT" \in armed[ep]

\* An endpoint is connecting or accepting only on behalf of the operation at the
\* head of its queue, unless the connection broke (the ERR/HUP path completes the
\* operation and leaves the status) or a departure dropped the operation.
StatusHasItsOperation ==
    \A ep \in Endpoints :
      \/ \E o \in Ops : op[o].ep = ep /\ answer[o] = "abandoned"
      \/ /\ status[ep] = "ACCEPTING" =>
              rdq[ep] # <<>> /\ op[Head(rdq[ep])].kind = "ACCEPT" /\ op[Head(rdq[ep])].prov
         /\ status[ep] = "CONNECTING" =>
              hup[ep] \/ (wrq[ep] # <<>> /\ op[Head(wrq[ep])].conn)

\* With one unanswered operation per endpoint at a time, an assertion of runOnce or
\* performIoLocked, or of what they call, fails only because the system refused a
\* call; those on the ready flag and on the status of an endpoint never fail.
OnlyRefusalsAssert == failed \in {"no"} \union Refusals

\* The assertions at netiomux_epoll.hpp:285 and 313, "Expecting non-ready ep in
\* epoll_wait.": an endpoint epoll reports is not already on the ready list.
EpollReportsNonReady == failed # "ready on event"

\* With one unanswered operation per endpoint at a time, an operation that suited
\* its endpoint when it was submitted is never answered EE_INVALID_OP.
ValidOpsNotRejected == \A o \in Ops : answer[o] # "INVALID_OP"

-----------------------------------------------------------------------------
(* What the multiplexer promises *)

OpsIn == [p \in [ep : Endpoints, dir : {"read", "write"}] |->
            IF p.dir = "read" THEN rdq[p.ep] ELSE wrq[p.ep]]

Nowhere == [ep |-> "nowhere", dir |-> "nowhere"]

HomeOf(o) == [ep |-> op[o].ep,
              dir |-> IF op[o].kind \in ReadKinds THEN "read" ELSE "write"]

Promise == INSTANCE AsyncIo WITH
    home <- [o \in Ops |-> IF o <= issued THEN HomeOf(o) ELSE Nowhere],
    queue <- OpsIn,
    done <- doneList,
    answered <- {o \in Ops : answer[o] \in Answers},
    dropped <- {o \in Ops : answer[o] = "abandoned"}

\* Operations complete in the order of their queue and are answered once.
ImplementsAsyncIo == Promise!Spec

-----------------------------------------------------------------------------
(* Liveness, under FairSpec *)

\* The system call of operation o of endpoint ep would not block; a connect has
\* to be in progress before there is an answer to wait for.
CanPerform(ep, o) ==
    /\ o \in ToSet(rdq[ep]) \union ToSet(wrq[ep])
    /\ op[o].kind = "CONNECT" => op[o].conn
    /\ \/ hup[ep]
       \/ IF op[o].kind \in ReadKinds THEN readable[ep] ELSE writable[ep]

\* An operation the network lets through is answered, whichever worker notices
\* and however the workers interleave, as long as the multiplexer is enabled.
PerformableIsAnswered ==
    \A o \in Ops : (\E ep \in Endpoints : CanPerform(ep, o)) ~> (answer[o] # "none")
=============================================================================
