-------------------------- MODULE SyncNetwork_proofs --------------------------
(***************************************************************************)
(* Theorems about SyncNetwork, for every number of servers, clients,       *)
(* connections and descriptors: who owns a descriptor, what the status of  *)
(* an endpoint says of its socket, and that no call is refused which the   *)
(* owner of the endpoint has not made impossible.                          *)
(***************************************************************************)
EXTENDS SyncNetwork, SequenceTheorems, WellFoundedInduction, TLAPS

Typed ==
    /\ object \in [Endpoints -> {"none", "alive", "deleting", "deleted"}]
    /\ status \in [Endpoints -> {"INVALID", "INIT", "CONNECTED", "LISTENING", "CLOSING"}]
    /\ socket \in [Endpoints -> Descriptors \union {None}]
    /\ closing \in [Endpoints -> {"no", "shut", "closed", "reset"}]
    /\ file \in [Descriptors -> Endpoints \union {None}]
    /\ DOMAIN call = Endpoints /\ DOMAIN todo = Endpoints /\ DOMAIN sock = Endpoints

TypedCall(e) ==
    /\ DOMAIN call[e] = DOMAIN Idle
    /\ call[e].at \in {"idle", "called", "kernel", "left", "returned"}
    /\ call[e].fd \in Descriptors \union {None}
    /\ call[e].at = "kernel" => call[e].on \in Endpoints
    /\ call[e].at \in {"called", "kernel"} /\ call[e].op = "connect" => call[e].to \in Servers

TypedSock(e) ==
    /\ DOMAIN sock[e] = DOMAIN NoSocket
    /\ sock[e].queue \in Seq(Accepted)
    /\ sock[e].queue # <<>> => e \in Servers

\* What the thread of an endpoint may come to do.
Does(e, op) ==
    \/ op = "end"
    \/ e \in Servers /\ op = "listen"
    \/ e \in Servers /\ e \in Tcp /\ op = "accept"
    \/ e \in Servers /\ e \notin Tcp /\ op \in {"recv", "recvFrom"}
    \/ e \in Clients /\ op = "connect"
    \/ e \in Clients /\ e \in Tcp /\ op \in {"send", "recv", "shutdown"}
    \/ e \in Clients /\ e \notin Tcp /\ op \in {"send", "sendTo"}
    \/ e \in Accepted /\ op \in {"recv", "send"}

First(e) == IF e \in Servers THEN "listen" ELSE IF e \in Clients THEN "connect" ELSE "recv"

\* The status with which an operation is not refused.
Suits(e, op) ==
    /\ op \in {"listen", "connect"} => status[e] = "INIT"
    /\ op = "accept" => status[e] = "LISTENING"
    /\ op \in {"recv", "recvFrom"} => status[e] = IF e \in Servers THEN "LISTENING" ELSE "CONNECTED"
    /\ op \in {"send", "sendTo", "shutdown"} => status[e] = "CONNECTED"

\* Before its constructor.
Unborn(e) ==
    object[e] = "none" =>
      /\ socket[e] = None /\ closing[e] = "no" /\ status[e] = "INVALID"
      /\ call[e] = Idle /\ todo[e] = First(e)

\* Where its thread is.
Working(e) ==
    /\ object[e] # "none" => Does(e, todo[e])
    /\ call[e].at # "idle" => call[e].op = todo[e] /\ todo[e] # "end"
    /\ call[e].at = "left" => call[e].op = "connect"
    /\ call[e].at \in {"called", "kernel"} => call[e].op \notin {"listen", "end"}
    /\ call[e].at # "returned" => call[e].err = "SUCCESS"

\* Where its status is, until somebody closes it.
Following(e) ==
    object[e] = "alive" /\ closing[e] = "no" /\ socket[e] # None =>
      /\ call[e].at # "returned" => Suits(e, todo[e])
      /\ call[e].at = "returned" /\ call[e].err = "SUCCESS" =>
           /\ todo[e] = "listen" => status[e] = "LISTENING"
           /\ todo[e] = "connect" => status[e] = "CONNECTED"
           /\ todo[e] \notin {"listen", "connect"} => Suits(e, todo[e])

\* A socket is there from the constructor until reset.
HavingSocket(e) ==
    /\ object[e] = "deleted" => socket[e] = None
    /\ closing[e] = "shut" => socket[e] # None
    /\ closing[e] = "reset" => socket[e] = None
    /\ status[e] = "INIT" => socket[e] # None
    /\ status[e] \in {"CONNECTED", "LISTENING"} /\ socket[e] = None => e \in Clients /\ closing[e] = "reset"
    /\ call[e].at \in {"called", "kernel", "left"} /\ call[e].op = "connect" /\ socket[e] = None =>
         closing[e] = "reset"

Refused(e) ==
    call[e].err = "INVALID_OP" =>
      closing[e] # "no" \/ object[e] = "deleting" \/ socket[e] = None

Endpoint(e) ==
    TypedCall(e) /\ Unborn(e) /\ Working(e) /\ Following(e) /\ HavingSocket(e) /\ Refused(e)

\* The descriptors.
Owned ==
    /\ \A d \in Descriptors : file[d] # None => socket[file[d]] = d /\ closing[file[d]] # "closed"
    /\ \A e \in Endpoints : socket[e] # None /\ closing[e] # "closed" => file[socket[e]] = e

\* The connections that wait: nobody has one, and each waits in one place.
Waits(a, s, i) == i \in DOMAIN sock[s].queue /\ sock[s].queue[i] = a

Queued ==
    /\ \A e \in Endpoints : TypedSock(e)
    /\ \A s, a \in Endpoints, i \in Nat :
         Waits(a, s, i) => object[a] = "none" /\ sock[a].phase # "none"
    /\ \A s, t, a \in Endpoints, i, j \in Nat :
         Waits(a, s, i) /\ Waits(a, t, j) => s = t /\ i = j
    /\ \A a \in Accepted : object[a] # "none" => sock[a].phase # "none"

Inv == Typed /\ (\A e \in Endpoints : Endpoint(e)) /\ Owned /\ Queued

-----------------------------------------------------------------------------
(* Helpers *)

LEMMA MinIsElement ==
    ASSUME NEW S, S \subseteq Nat, S # {}
    PROVE  Min(S) \in S
<1>1. IsWellFoundedOn(OpToRel(<, Nat), Nat)
    BY NatLessThanWellFounded
<1>2. PICK x \in S : \A y \in S : ~(<<y, x>> \in OpToRel(<, Nat))
    BY <1>1, WFMin
<1>3. \A y \in S : ~(y < x)
    BY <1>2 DEF OpToRel
<1>4. \A y \in S : x <= y
  <2>1. \A y \in S : x \in Nat /\ y \in Nat
      OBVIOUS
  <2> QED
      BY <1>3, <2>1
<1> QED
    BY <1>4 DEF Min

\* The kernel gives a descriptor that nobody has.
LEMMA FreeDescriptor ==
    ASSUME Free # {}
    PROVE  Min(Free) \in Descriptors /\ file[Min(Free)] = None
<1>1. Free \subseteq Nat
    BY EndpointAssumption DEF Free
<1>2. Min(Free) \in Free
    BY <1>1, MinIsElement
<1> QED
    BY <1>2 DEF Free

\* Sockets that change in any other way than by a connection made or accepted.
Gentle ==
    /\ DOMAIN sock' = Endpoints
    /\ \A x \in Endpoints :
         /\ DOMAIN sock'[x] = DOMAIN NoSocket
         /\ sock'[x].queue \in {sock[x].queue, <<>>}
         /\ sock[x].phase # "none" => sock'[x].phase # "none"

LEMMA SocketsShutDown ==
    ASSUME \A e \in Endpoints : TypedSock(e), NEW s, NEW both \in BOOLEAN
    PROVE  /\ DOMAIN ShutDown(s, both) = Endpoints
           /\ \A x \in Endpoints :
                /\ DOMAIN ShutDown(s, both)[x] = DOMAIN NoSocket
                /\ ShutDown(s, both)[x].queue \in {sock[x].queue, <<>>}
                /\ x # s => ShutDown(s, both)[x].queue = sock[x].queue
                /\ sock[x].phase # "none" => ShutDown(s, both)[x].phase # "none"
<1> DEFINE Kept(r, x) == /\ DOMAIN r = DOMAIN NoSocket
                         /\ r.queue \in {sock[x].queue, <<>>}
                         /\ x # s => r.queue = sock[x].queue
                         /\ sock[x].phase # "none" => r.phase # "none"
<1>1. ASSUME NEW x \in Endpoints
      PROVE  /\ x = s => Kept([sock[x] EXCEPT !.queue = IF both THEN <<>> ELSE @, !.rcut = @ \/ both, !.wcut = TRUE], x)
             /\ Kept([sock[x] EXCEPT !.phase = "closed"], x)
             /\ Kept([sock[x] EXCEPT !.rst = TRUE], x)
             /\ Kept([sock[x] EXCEPT !.fin = TRUE], x)
             /\ Kept(sock[x], x)
    BY DEF TypedSock, NoSocket
<1>2. DOMAIN ShutDown(s, both) = Endpoints
    BY DEF ShutDown
<1>3. ASSUME NEW x \in Endpoints
      PROVE  \/ x = s /\ ShutDown(s, both)[x] = [sock[x] EXCEPT !.queue = IF both THEN <<>> ELSE @, !.rcut = @ \/ both, !.wcut = TRUE]
             \/ ShutDown(s, both)[x] = [sock[x] EXCEPT !.phase = "closed"]
             \/ ShutDown(s, both)[x] = [sock[x] EXCEPT !.rst = TRUE]
             \/ ShutDown(s, both)[x] = [sock[x] EXCEPT !.fin = TRUE]
             \/ ShutDown(s, both)[x] = sock[x]
  <2> DEFINE waiting == IF both THEN {sock[s].queue[i] : i \in DOMAIN sock[s].queue} ELSE {}
             reset == {sock[a].peer : a \in waiting}
  <2>1. ShutDown(s, both)[x] = CASE x = s -> [sock[x] EXCEPT !.queue = IF both THEN <<>> ELSE @, !.rcut = @ \/ both, !.wcut = TRUE]
                     [] x # s /\ x \in waiting -> [sock[x] EXCEPT !.phase = "closed"]
                     [] x # s /\ x \in reset -> [sock[x] EXCEPT !.rst = TRUE]
                     [] x # s /\ x \notin reset /\ x = sock[s].peer /\ s \in Tcp -> [sock[x] EXCEPT !.fin = TRUE]
                     [] OTHER -> sock[x]
      BY <1>3 DEF ShutDown
  <2> HIDE DEF waiting, reset
  <2> QED
      BY <2>1
<1>4. ASSUME NEW x \in Endpoints PROVE Kept(ShutDown(s, both)[x], x)
    BY <1>1, <1>3
<1> QED
    BY <1>2, <1>4

LEMMA ShutDownIsGentle ==
    ASSUME \A e \in Endpoints : TypedSock(e), NEW s, NEW both \in BOOLEAN, sock' = ShutDown(s, both)
    PROVE  Gentle
BY SocketsShutDown DEF Gentle

\* Connections go on waiting where they wait, or are reset with the socket.
LEMMA QueuesKept ==
    ASSUME Typed, Queued, Gentle,
           \A a \in Accepted : object[a] = "none" => object'[a] = "none"
    PROVE  Queued'
<1>1. ASSUME NEW s \in Endpoints, NEW a, NEW i \in Nat, Waits(a, s, i)' PROVE Waits(a, s, i)
    BY <1>1 DEF Gentle, Waits
<1>2. ASSUME NEW s \in Endpoints, NEW a, NEW i \in Nat, Waits(a, s, i) PROVE a \in Accepted
    BY <1>2 DEF Queued, TypedSock, Waits
<1>3. ASSUME NEW e \in Endpoints PROVE TypedSock(e)'
    BY <1>3, EmptySeq DEF Gentle, Queued, TypedSock
<1>4. ASSUME NEW s \in Endpoints, NEW a \in Endpoints, NEW i \in Nat, Waits(a, s, i)'
      PROVE  object'[a] = "none" /\ sock'[a].phase # "none"
    BY <1>1, <1>2, <1>4 DEF Queued, Gentle
<1>5. ASSUME NEW s \in Endpoints, NEW t \in Endpoints, NEW a \in Endpoints, NEW i \in Nat, NEW j \in Nat,
             Waits(a, s, i)', Waits(a, t, j)'
      PROVE  s = t /\ i = j
    BY <1>1, <1>5 DEF Queued
<1>6. ASSUME NEW a \in Accepted PROVE (object[a] # "none" => sock[a].phase # "none")'
    BY <1>6, EndpointAssumption DEF Queued, Gentle, Endpoints
<1> QED
    BY <1>3, <1>4, <1>5, <1>6 DEF Queued

\* What happens to one endpoint leaves the others alone.
LEMMA EndpointFrame ==
    ASSUME NEW x, Endpoint(x),
           object'[x] = object[x], status'[x] = status[x], socket'[x] = socket[x],
           closing'[x] = closing[x], call'[x] = call[x], todo'[x] = todo[x]
    PROVE  Endpoint(x)'
<1>1. TypedCall(x)'
    BY DEF Endpoint, TypedCall
<1>2. Unborn(x)'
    BY DEF Endpoint, Unborn
<1>3. Working(x)'
    BY DEF Endpoint, Working
<1>4. Following(x)'
    BY DEF Endpoint, Following, Suits
<1>5. HavingSocket(x)' /\ Refused(x)'
    BY DEF Endpoint, HavingSocket, Refused
<1> QED
    BY <1>1, <1>2, <1>3, <1>4, <1>5 DEF Endpoint

\* A step that leaves the descriptors alone.
LEMMA OwnedFrame ==
    ASSUME Owned, Typed, UNCHANGED <<socket, file>>,
           \A e \in Endpoints : closing'[e] = "closed" <=> closing[e] = "closed"
    PROVE  Owned'
<1>1. file \in [Descriptors -> Endpoints \union {None}]
    BY DEF Typed
<1> QED
    BY <1>1 DEF Owned

LEMMA InvInit == Init => Inv
<1> SUFFICES ASSUME Init PROVE Inv
    OBVIOUS
<1>0. EndpointInit /\ None \notin Endpoints
    BY EndpointAssumption DEF Init, Endpoints
<1>1. Typed
    BY <1>0 DEF EndpointInit, Init, Typed
<1>2. ASSUME NEW e \in Endpoints PROVE Endpoint(e)
  <2>1. /\ object[e] = "none" /\ socket[e] = None /\ closing[e] = "no" /\ status[e] = "INVALID"
        /\ call[e] = Idle /\ todo[e] = First(e)
      BY <1>0, NetworkAssumption DEF EndpointInit, Init, First
  <2>2. TypedCall(e)
      BY <2>1 DEF TypedCall, Idle
  <2>3. call[e].at = "idle" /\ call[e].err = "SUCCESS"
      BY <2>1 DEF Idle
  <2> QED
      BY <2>1, <2>2, <2>3 DEF Endpoint, Unborn, Working, Following, HavingSocket, Refused
<1>3. Owned
    BY <1>0 DEF EndpointInit, Owned
<1>4. Queued
  <2>1. \A e \in Endpoints : sock[e] = NoSocket /\ sock[e].queue = <<>>
      BY <1>0 DEF EndpointInit, NoSocket
  <2>2. \A s, a \in Endpoints, i \in Nat : ~Waits(a, s, i)
      BY <2>1 DEF Waits
  <2> QED
      BY <1>0, <2>1, <2>2, EmptySeq, EndpointAssumption DEF Queued, TypedSock, EndpointInit, Endpoints
<1> QED
    BY <1>1, <1>2, <1>3, <1>4 DEF Inv

-----------------------------------------------------------------------------
(* Calls *)

\* A step of the thread of one endpoint.
LEMMA ThreadKeeps ==
    ASSUME Inv, NEW e \in Endpoints, UNCHANGED <<object, socket, closing, file>>,
           status' \in [Endpoints -> {"INVALID", "INIT", "CONNECTED", "LISTENING", "CLOSING"}],
           DOMAIN call' = Endpoints, DOMAIN todo' = Endpoints,
           \A x \in Endpoints \ {e} :
              status'[x] = status[x] /\ call'[x] = call[x] /\ todo'[x] = todo[x],
           DOMAIN sock' = Endpoints, Queued', Endpoint(e)'
    PROVE  Inv'
<1>1. Typed'
    BY DEF Inv, Typed
<1>2. ASSUME NEW x \in Endpoints PROVE Endpoint(x)'
  <2>1. CASE x # e
      BY <2>1, EndpointFrame DEF Inv
  <2> QED
      BY <2>1
<1>3. Owned'
    BY OwnedFrame DEF Inv
<1> QED
    BY <1>1, <1>2, <1>3 DEF Inv

LEMMA NothingIsGentle ==
    ASSUME Inv, sock' = sock, UNCHANGED object
    PROVE  DOMAIN sock' = Endpoints /\ Queued'
<1>1. Gentle
    BY DEF Inv, Typed, Queued, TypedSock, Gentle
<1> QED
    BY <1>1, QueuesKept DEF Inv, Gentle

\* A call that the status permits, or that is refused because somebody closes.
LEMMA BeginsKeeps ==
    ASSUME Inv, NEW e \in Endpoints, NEW op, NEW to, NEW data, NEW permitted \in BOOLEAN,
           todo[e] = op, op \notin {"listen", "end"}, Begins(e, op, to, data, permitted), UNCHANGED userVars,
           Does(e, op) /\ Suits(e, op) => permitted,
           permitted /\ op = "connect" => status[e] = "INIT" /\ to \in Servers
    PROVE  Inv'
<1>1. /\ object[e] = "alive" /\ call[e].at = "idle"
      /\ UNCHANGED <<object, status, socket, closing, file, sock, todo>>
    BY DEF Begins, userVars
<1>2. call' = [call EXCEPT ![e] =
                  IF permitted THEN [Idle EXCEPT !.at = "called", !.op = op, !.fd = socket[e],
                                                 !.to = to, !.data = data]
                  ELSE Returned(e, op, "INVALID_OP", <<>>)]
    BY DEF Begins
<1>3. Typed /\ Endpoint(e)
    BY DEF Inv
<1>4. DOMAIN call' = Endpoints /\ \A x \in Endpoints \ {e} : call'[x] = call[x]
    BY <1>2, <1>3 DEF Typed
<1>5. /\ DOMAIN call'[e] = DOMAIN Idle /\ call'[e].op = op
      /\ permitted => /\ call'[e].at = "called" /\ call'[e].fd = socket[e] /\ call'[e].err = "SUCCESS"
                      /\ call'[e].to = to
      /\ ~permitted => call'[e].at = "returned" /\ call'[e].fd = None /\ call'[e].err = "INVALID_OP"
    BY <1>2, <1>3 DEF Typed, Idle, Returned
<1>6. TypedCall(e)'
    BY <1>3, <1>5 DEF Typed, TypedCall, Idle
<1>7. Unborn(e)' /\ Working(e)'
    BY <1>1, <1>3, <1>5 DEF Endpoint, Unborn, Working, Does
<1>8. Following(e)'
    BY <1>1, <1>3, <1>5 DEF Endpoint, Following, Suits
<1>9. HavingSocket(e)'
    BY <1>1, <1>3, <1>5 DEF Endpoint, HavingSocket
<1>10. Refused(e)'
    BY <1>1, <1>3, <1>5 DEF Endpoint, Refused, Following, Working
<1>11. Endpoint(e)'
    BY <1>6, <1>7, <1>8, <1>9, <1>10 DEF Endpoint
<1> QED
    BY <1>1, <1>3, <1>4, <1>11, NothingIsGentle, ThreadKeeps DEF Typed

\* A call that comes back with an error of its own.
LEMMA FailureKeeps ==
    ASSUME Inv, NEW e \in Endpoints, NEW err, err \notin {"SUCCESS", "INVALID_OP"}, NEW data,
           object[e] # "none", todo[e] # "end",
           call' = [call EXCEPT ![e] = Returned(e, todo[e], err, data)],
           UNCHANGED <<object, socket, closing, file, todo>>,
           status' \in [Endpoints -> {"INVALID", "INIT", "CONNECTED", "LISTENING", "CLOSING"}],
           status'[e] \in {status[e], "INVALID"},
           \A x \in Endpoints \ {e} : status'[x] = status[x],
           Gentle
    PROVE  Inv'
<1>3. Typed /\ Endpoint(e)
    BY DEF Inv
<1>4. DOMAIN call' = Endpoints /\ \A x \in Endpoints \ {e} : call'[x] = call[x]
    BY <1>3 DEF Typed
<1>5. /\ DOMAIN call'[e] = DOMAIN Idle /\ call'[e].op = todo[e]
      /\ call'[e].at = "returned" /\ call'[e].fd = None /\ call'[e].err = err
    BY <1>3 DEF Typed, Idle, Returned
<1>6. TypedCall(e)'
    BY <1>3, <1>5 DEF Typed, TypedCall, Idle
<1>7. Unborn(e)' /\ Working(e)'
    BY <1>3, <1>5 DEF Endpoint, Unborn, Working, Does
<1>8. Following(e)'
    BY <1>3, <1>5 DEF Endpoint, Following
<1>9. HavingSocket(e)'
    BY <1>3, <1>5 DEF Endpoint, HavingSocket
<1>10. Refused(e)'
    BY <1>5 DEF Refused
<1>11. Endpoint(e)'
    BY <1>6, <1>7, <1>8, <1>9, <1>10 DEF Endpoint
<1>12. DOMAIN sock' = Endpoints /\ Queued'
    BY QueuesKept DEF Inv, Gentle
<1> QED
    BY <1>3, <1>4, <1>11, <1>12, ThreadKeeps DEF Typed

LEMMA ListenKeeps ==
    ASSUME Inv, NEW e \in Endpoints, todo[e] = "listen", listen(e), UNCHANGED userVars
    PROVE  Inv'
<1>1. /\ object[e] = "alive" /\ call[e].at = "idle"
      /\ UNCHANGED <<object, socket, closing, file, todo>>
    BY DEF listen, userVars
<1>2. Typed /\ Endpoint(e) /\ \A x \in Endpoints : TypedSock(x)
    BY DEF Inv, Queued
<1> DEFINE refused == /\ status[e] # "INIT"
                      /\ call' = [call EXCEPT ![e] = Returned(e, "listen", "INVALID_OP", <<>>)]
                      /\ UNCHANGED <<status, sock>>
           fails(err) == call' = [call EXCEPT ![e] = Returned(e, "listen", err, <<>>)]
           marks == /\ status' = [status EXCEPT ![e] = "INVALID"]
                    /\ sock' = [sock EXCEPT ![e].phase = "bound"]
           listens == /\ status[e] = "INIT"
                      /\ call' = [call EXCEPT ![e] = Returned(e, "listen", "SUCCESS", <<>>)]
                      /\ status' = [status EXCEPT ![e] = "LISTENING"]
                      /\ sock' = [sock EXCEPT ![e].phase = IF e \in Tcp THEN "listening" ELSE "bound"]
<1>0. \/ refused \/ listens
      \/ (\E err \in {"RESOLVE", "BIND"} : fails(err)) /\ UNCHANGED <<status, sock>>
      \/ fails("LISTEN") /\ marks
    BY DEF listen
<1>3. CASE refused
  <2>1. call' = [call EXCEPT ![e] = Returned(e, "listen", "INVALID_OP", <<>>)] /\ UNCHANGED <<status, sock>>
      BY <1>3
  <2>2. DOMAIN call' = Endpoints /\ \A x \in Endpoints \ {e} : call'[x] = call[x]
      BY <1>2, <2>1 DEF Typed
  <2>3. /\ DOMAIN call'[e] = DOMAIN Idle /\ call'[e].op = "listen"
        /\ call'[e].at = "returned" /\ call'[e].fd = None /\ call'[e].err = "INVALID_OP"
      BY <1>2, <2>1 DEF Typed, Idle, Returned
  <2>4. TypedCall(e)'
      BY <2>3 DEF TypedCall, Idle
  <2>5. Unborn(e)' /\ Working(e)'
      BY <1>1, <1>2, <2>3 DEF Endpoint, Unborn, Working, Does
  <2>6. Following(e)'
      BY <2>3 DEF Following
  <2>7. HavingSocket(e)'
      BY <1>1, <1>2, <2>1, <2>3 DEF Endpoint, HavingSocket
  <2>8. Refused(e)'
      BY <1>1, <1>2, <1>3, <2>1 DEF Endpoint, Refused, Following, Suits
  <2>9. Endpoint(e)'
      BY <2>4, <2>5, <2>6, <2>7, <2>8 DEF Endpoint
  <2> QED
      BY <1>1, <1>2, <2>1, <2>2, <2>9, NothingIsGentle, ThreadKeeps DEF Typed
<1>4. CASE (\E err \in {"RESOLVE", "BIND"} : fails(err)) /\ UNCHANGED <<status, sock>>
  <2>1. PICK err \in {"RESOLVE", "BIND"} : fails(err)
      BY <1>4
  <2>2. Gentle
      BY <1>2, <1>4 DEF Gentle, Typed, TypedSock
  <2> QED
      BY <1>1, <1>2, <1>4, <2>1, <2>2, FailureKeeps DEF Typed
<1>5. CASE fails("LISTEN") /\ marks
  <2>1. Gentle
      BY <1>2, <1>5 DEF Gentle, Typed, TypedSock, NoSocket
  <2>2. /\ status' \in [Endpoints -> {"INVALID", "INIT", "CONNECTED", "LISTENING", "CLOSING"}]
        /\ status'[e] \in {status[e], "INVALID"} /\ \A x \in Endpoints \ {e} : status'[x] = status[x]
      BY <1>2, <1>5 DEF Typed
  <2> QED
      BY <1>1, <1>5, <2>1, <2>2, FailureKeeps
<1>6. CASE listens
  <2>1. /\ call' = [call EXCEPT ![e] = Returned(e, "listen", "SUCCESS", <<>>)]
        /\ status' = [status EXCEPT ![e] = "LISTENING"]
        /\ sock' = [sock EXCEPT ![e].phase = IF e \in Tcp THEN "listening" ELSE "bound"]
      BY <1>6
  <2>2. Gentle
      BY <1>2, <2>1 DEF Gentle, Typed, TypedSock, NoSocket
  <2>3. DOMAIN call' = Endpoints /\ \A x \in Endpoints \ {e} : call'[x] = call[x] /\ status'[x] = status[x]
      BY <1>2, <2>1 DEF Typed
  <2>4. /\ DOMAIN call'[e] = DOMAIN Idle /\ call'[e].op = "listen" /\ status'[e] = "LISTENING"
        /\ call'[e].at = "returned" /\ call'[e].fd = None /\ call'[e].err = "SUCCESS"
      BY <1>2, <2>1 DEF Typed, Idle, Returned
  <2>5. TypedCall(e)'
      BY <2>4 DEF TypedCall, Idle
  <2>6. Unborn(e)' /\ Working(e)'
      BY <1>1, <1>2, <2>4 DEF Endpoint, Unborn, Working, Does
  <2>7. Following(e)' /\ Refused(e)'
      BY <1>1, <2>4 DEF Following, Refused
  <2>8. HavingSocket(e)'
      BY <1>1, <1>2, <1>6, <2>4 DEF Endpoint, HavingSocket
  <2>9. Endpoint(e)'
      BY <2>5, <2>6, <2>7, <2>8 DEF Endpoint
  <2>10. status' \in [Endpoints -> {"INVALID", "INIT", "CONNECTED", "LISTENING", "CLOSING"}]
      BY <1>2, <2>1 DEF Typed
  <2>11. DOMAIN sock' = Endpoints /\ Queued'
      BY <1>1, <2>2, QueuesKept DEF Inv, Gentle
  <2> QED
      BY <1>1, <1>2, <2>3, <2>9, <2>10, <2>11, ThreadKeeps DEF Typed
<1> QED
    BY <1>0, <1>3, <1>4, <1>5, <1>6

LEMMA CallsKeep ==
    ASSUME Inv, NEW e \in Endpoints, Calls(e)
    PROVE  Inv'
<1> DEFINE op == todo[e]
<1>1. op \in {"listen", "connect", "accept", "recv", "recvFrom", "send", "sendTo", "shutdown"} /\ UNCHANGED userVars
    BY DEF Calls
<1>2. CASE op = "listen"
  <2>1. listen(e)
      BY <1>2 DEF Calls
  <2> QED
      BY <1>1, <1>2, <2>1, ListenKeeps
<1>3. CASE op = "connect" /\ Begins(e, "connect", ServerOf(e), <<>>, status[e] = "INIT")
  <2>1. e \in Clients
      BY <1>3 DEF Begins, Inv, Endpoint, Working, Does
  <2>2. ServerOf(e) \in Servers
      BY <2>1, NetworkAssumption DEF ServerOf
  <2> QED
      BY <1>1, <1>3, <2>2, BeginsKeeps DEF Suits
<1>4. CASE op = "connect" /\ ~Begins(e, "connect", ServerOf(e), <<>>, status[e] = "INIT")
  <2>1. /\ object[e] = "alive" /\ call' = [call EXCEPT ![e] = Returned(e, "connect", "RESOLVE", <<>>)]
        /\ UNCHANGED <<object, status, socket, closing, file, sock>>
      BY <1>4 DEF Calls, connect
  <2>2. Gentle /\ Typed
      BY <2>1 DEF Inv, Typed, Queued, TypedSock, Gentle
  <2> QED
      BY <1>1, <1>4, <2>1, <2>2, FailureKeeps DEF Typed, userVars
<1>5. CASE op = "accept"
  <2>1. Begins(e, "accept", None, <<>>, e \in Tcp /\ status[e] = "LISTENING")
      BY <1>5 DEF Calls, accept
  <2>2. Does(e, "accept") /\ Suits(e, "accept") => e \in Tcp /\ status[e] = "LISTENING"
      BY DEF Suits, Does
  <2> QED
      BY <1>1, <1>5, <2>1, <2>2, BeginsKeeps
<1>6. CASE op = "recv"
  <2>1. Begins(e, "recv", None, <<>>, status[e] = IF e \in Tcp THEN "CONNECTED" ELSE "LISTENING")
      BY <1>6 DEF Calls, recv
  <2>2. Does(e, "recv") /\ Suits(e, "recv") => status[e] = IF e \in Tcp THEN "CONNECTED" ELSE "LISTENING"
      BY NetworkAssumption, EndpointAssumption DEF Suits, Does
  <2> QED
      BY <1>1, <1>6, <2>1, <2>2, BeginsKeeps
<1>7. CASE op = "recvFrom"
  <2>1. Begins(e, "recvFrom", None, <<>>, e \in Udp /\ status[e] \in {"CONNECTED", "LISTENING"})
      BY <1>7 DEF Calls, recvFrom
  <2>2. Does(e, "recvFrom") /\ Suits(e, "recvFrom") => e \in Udp /\ status[e] \in {"CONNECTED", "LISTENING"}
      BY DEF Suits, Does, Endpoints
  <2> QED
      BY <1>1, <1>7, <2>1, <2>2, BeginsKeeps
<1>8. CASE op = "send"
  <2>1. Begins(e, "send", sock[e].peer, Message(e), status[e] = "CONNECTED")
      BY <1>8 DEF Calls, send
  <2> QED
      BY <1>1, <1>8, <2>1, BeginsKeeps DEF Suits
<1>9. CASE op = "sendTo"
  <2>1. Begins(e, "sendTo", ServerOf(e), Message(e), e \in Udp /\ status[e] = "CONNECTED")
      BY <1>9 DEF Calls, sendTo
  <2>2. Does(e, "sendTo") /\ Suits(e, "sendTo") => e \in Udp /\ status[e] = "CONNECTED"
      BY DEF Suits, Does, Endpoints
  <2> QED
      BY <1>1, <1>9, <2>1, <2>2, BeginsKeeps
<1>10. CASE op = "shutdown"
  <2>1. Begins(e, "shutdown", None, <<>>, TRUE)
      BY <1>10 DEF Calls, shutdown
  <2> QED
      BY <1>1, <1>10, <2>1, BeginsKeeps
<1> QED
    BY <1>1, <1>2, <1>3, <1>4, <1>5, <1>6, <1>7, <1>8, <1>9, <1>10

-----------------------------------------------------------------------------
(* The kernel *)

SystemCalls == {"connect", "accept", "recv", "recvFrom", "send", "sendTo", "shutdown"}

\* A thread on its way into the kernel or inside has a call of its own there.
LEMMA InSystemCall ==
    ASSUME Inv, NEW e \in Endpoints, call[e].at \in {"called", "kernel"}
    PROVE  /\ object[e] # "none" /\ todo[e] # "end" /\ call[e].op = todo[e] /\ todo[e] \in SystemCalls
           /\ ErrorOf(call[e].op) \notin {"SUCCESS", "INVALID_OP"}
<1>1. Endpoint(e)
    BY DEF Inv
<1>2. object[e] # "none"
    BY <1>1 DEF Endpoint, Unborn, Idle
<1>3. call[e].op = todo[e] /\ todo[e] \in SystemCalls
    BY <1>1, <1>2 DEF Endpoint, Working, Does, SystemCalls
<1>4. ErrorOf(call[e].op) \notin {"SUCCESS", "INVALID_OP"}
    BY <1>3 DEF ErrorOf, SystemCalls
<1> QED
    BY <1>2, <1>3, <1>4 DEF SystemCalls

LEMMA EnterKeeps ==
    ASSUME Inv, NEW e \in Endpoints, EntersKernel(e)
    PROVE  Inv'
<1>1. /\ call[e].at = "called" /\ UNCHANGED <<object, status, socket, closing, file, sock, todo>>
    BY DEF EntersKernel, EnterKernel, userVars
<1>2. Typed /\ Endpoint(e)
    BY DEF Inv
<1>3. /\ object[e] # "none" /\ todo[e] # "end" /\ call[e].op = todo[e] /\ todo[e] \in SystemCalls
      /\ ErrorOf(call[e].op) \notin {"SUCCESS", "INVALID_OP"}
    BY <1>1, InSystemCall
<1>4. CASE call[e].fd # None /\ file[call[e].fd] # None
  <2>1. call' = [call EXCEPT ![e] = [@ EXCEPT !.at = "kernel", !.on = file[call[e].fd]]]
      BY <1>4 DEF EntersKernel, EnterKernel
  <2>2. DOMAIN call' = Endpoints /\ \A x \in Endpoints \ {e} : call'[x] = call[x]
      BY <1>2, <2>1 DEF Typed
  <2>3. DOMAIN call[e] = DOMAIN Idle
      BY <1>2 DEF Endpoint, TypedCall
  <2>4. /\ DOMAIN call'[e] = DOMAIN Idle /\ call'[e].at = "kernel" /\ call'[e].on = file[call[e].fd]
        /\ call'[e].op = call[e].op /\ call'[e].err = call[e].err /\ call'[e].fd = call[e].fd
        /\ call'[e].to = call[e].to
      BY <1>2, <2>1, <2>3 DEF Typed, Idle
  <2>5. file[call[e].fd] \in Endpoints
      BY <1>2, <1>4 DEF Typed, Endpoint, TypedCall
  <2>6. TypedCall(e)'
      BY <1>1, <1>2, <2>4, <2>5 DEF Endpoint, TypedCall
  <2>7. Unborn(e)' /\ Working(e)'
      BY <1>1, <1>2, <1>3, <2>4 DEF Endpoint, Unborn, Working, Does
  <2>8. Following(e)' /\ Refused(e)'
      BY <1>1, <1>2, <2>4 DEF Endpoint, Following, Refused, Suits
  <2>9. HavingSocket(e)'
      BY <1>1, <1>2, <2>4 DEF Endpoint, HavingSocket
  <2>10. Endpoint(e)'
      BY <2>6, <2>7, <2>8, <2>9 DEF Endpoint
  <2> QED
      BY <1>1, <1>2, <2>2, <2>10, NothingIsGentle, ThreadKeeps DEF Typed
<1>5. CASE ~(call[e].fd # None /\ file[call[e].fd] # None)
  <2>1. call' = [call EXCEPT ![e] = Returned(e, todo[e], ErrorOf(call[e].op), <<>>)]
      BY <1>3, <1>5 DEF EntersKernel, EnterKernel
  <2>2. Gentle
      BY <1>1 DEF Inv, Typed, Queued, TypedSock, Gentle
  <2> QED
      BY <1>1, <1>2, <1>3, <2>1, <2>2, FailureKeeps DEF Typed
<1> QED
    BY <1>4, <1>5

LEMMA FailsKeeps ==
    ASSUME Inv, NEW e \in Endpoints, call[e].at = "kernel", Fails(e), UNCHANGED userVars
    PROVE  Inv'
<1>1. /\ object[e] # "none" /\ todo[e] # "end" /\ call[e].op = todo[e]
      /\ ErrorOf(call[e].op) \notin {"SUCCESS", "INVALID_OP"}
    BY InSystemCall
<1>2. /\ call' = [call EXCEPT ![e] = Returned(e, todo[e], ErrorOf(call[e].op), <<>>)]
      /\ UNCHANGED <<object, status, socket, closing, file, todo, sock>>
    BY <1>1 DEF Fails, Back, userVars
<1>3. Gentle /\ Typed
    BY <1>2 DEF Inv, Typed, Queued, TypedSock, Gentle
<1> QED
    BY <1>1, <1>2, <1>3, FailureKeeps DEF Typed

\* A call that comes back with a result.
LEMMA ResultKeeps ==
    ASSUME Inv, NEW e \in Endpoints, NEW data,
           InKernel(e, SystemCalls \ {"connect"}),
           call' = [call EXCEPT ![e] = Returned(e, @.op, "SUCCESS", data)], UNCHANGED userVars,
           object'[e] = object[e], status'[e] = status[e], socket'[e] = socket[e], closing'[e] = closing[e]
    PROVE  Endpoint(e)' /\ DOMAIN call' = Endpoints /\ \A x \in Endpoints \ {e} : call'[x] = call[x]
<1>1. /\ object[e] # "none" /\ call[e].op = todo[e] /\ todo[e] \in SystemCalls \ {"connect"}
      /\ call[e].at = "kernel"
    BY InSystemCall DEF InKernel
<1>2. call' = [call EXCEPT ![e] = Returned(e, todo[e], "SUCCESS", data)] /\ UNCHANGED todo
    BY <1>1 DEF userVars
<1>3. Typed /\ Endpoint(e)
    BY DEF Inv
<1>4. DOMAIN call' = Endpoints /\ \A x \in Endpoints \ {e} : call'[x] = call[x]
    BY <1>2, <1>3 DEF Typed
<1>5. /\ DOMAIN call'[e] = DOMAIN Idle /\ call'[e].op = todo[e]
      /\ call'[e].at = "returned" /\ call'[e].fd = None /\ call'[e].err = "SUCCESS"
    BY <1>2, <1>3 DEF Typed, Idle, Returned
<1>6. TypedCall(e)'
    BY <1>5 DEF TypedCall, Idle
<1>7. Unborn(e)' /\ Working(e)'
    BY <1>1, <1>2, <1>3, <1>5 DEF Endpoint, Unborn, Working, Does, SystemCalls
<1>8. Following(e)' /\ Refused(e)'
    BY <1>1, <1>2, <1>3, <1>5 DEF Endpoint, Following, Refused, Suits, SystemCalls
<1>9. HavingSocket(e)'
    BY <1>2, <1>3, <1>5 DEF Endpoint, HavingSocket
<1> QED
    BY <1>4, <1>6, <1>7, <1>8, <1>9 DEF Endpoint

\* One that changes nothing else, but for what it found in the socket, or left there.
LEMMA BackKeeps ==
    ASSUME Inv, NEW e \in Endpoints, NEW data, NEW sockets,
           InKernel(e, SystemCalls \ {"connect"}),
           Back(e, "SUCCESS", data, sockets), UNCHANGED userVars, Gentle
    PROVE  Inv'
<1>1. /\ call' = [call EXCEPT ![e] = Returned(e, @.op, "SUCCESS", data)]
      /\ UNCHANGED <<object, status, socket, closing, file, todo>>
    BY DEF Back, userVars
<1>2. Endpoint(e)' /\ DOMAIN call' = Endpoints /\ \A x \in Endpoints \ {e} : call'[x] = call[x]
    BY <1>1, ResultKeeps
<1>3. DOMAIN sock' = Endpoints /\ Queued'
    BY <1>1, QueuesKept DEF Inv, Gentle
<1> QED
    BY <1>1, <1>2, <1>3, ThreadKeeps DEF Inv, Typed

LEMMA RecvKeeps ==
    ASSUME Inv, NEW e \in Endpoints, RecvReturns(e), UNCHANGED userVars
    PROVE  Inv'
<1>1. InKernel(e, SystemCalls \ {"connect"}) /\ call[e].at = "kernel"
    BY DEF RecvReturns, InKernel, SystemCalls
<1>2. Typed /\ \A x \in Endpoints : TypedSock(x)
    BY DEF Inv, Queued
<1> DEFINE s == call[e].on
<1>3. ASSUME NEW cnt, sock' = [sock EXCEPT ![s].inbox = SubSeq(@, cnt + 1, Len(@))] PROVE Gentle
    BY <1>2, <1>3 DEF Gentle, Typed, TypedSock, NoSocket
<1>4. ASSUME sock' = sock PROVE Gentle
    BY <1>2, <1>4 DEF Gentle, Typed, TypedSock
<1>5. CASE Fails(e)
    BY <1>1, <1>5, FailsKeeps
<1>6. CASE Back(e, "SUCCESS", <<>>, sock)
    BY <1>1, <1>4, <1>6, BackKeeps DEF Back
<1>7. ASSUME NEW cnt, Back(e, "SUCCESS", SubSeq(On(e).inbox, 1, cnt),
                           [sock EXCEPT ![s].inbox = SubSeq(@, cnt + 1, Len(@))])
      PROVE  Inv'
  <2>1. Gentle
      BY <1>3, <1>7 DEF Back
  <2> QED
      BY <1>1, <1>7, <2>1, BackKeeps
<1> QED
    BY <1>5, <1>6, <1>7 DEF RecvReturns

LEMMA SendKeeps ==
    ASSUME Inv, NEW e \in Endpoints, SendReturns(e), UNCHANGED userVars
    PROVE  Inv'
<1>1. InKernel(e, SystemCalls \ {"connect"}) /\ call[e].at = "kernel"
    BY DEF SendReturns, InKernel, SystemCalls
<1>2. Typed /\ \A x \in Endpoints : TypedSock(x)
    BY DEF Inv, Queued
<1> DEFINE s == call[e].on
           to == IF call[e].op = "sendTo" THEN call[e].to ELSE On(e).peer
           broken == [sock EXCEPT ![s].rst = s \in Tcp]
           taken == [sock EXCEPT ![to].inbox = @ \o call[e].data]
<1>3. ASSUME sock' = sock PROVE Gentle
    BY <1>2, <1>3 DEF Gentle, Typed, TypedSock
<1>4. ASSUME sock' = broken PROVE Gentle
    BY <1>2, <1>4 DEF Gentle, Typed, TypedSock, NoSocket
<1>5. ASSUME sock' = taken PROVE Gentle
  <2> HIDE DEF to
  <2> QED
      BY <1>2, <1>5 DEF Gentle, Typed, TypedSock, NoSocket
<1>6. \/ Fails(e)
      \/ Back(e, "SUCCESS", call[e].data, sock)
      \/ Back(e, "SUCCESS", call[e].data, broken)
      \/ Back(e, "SUCCESS", call[e].data, taken)
    BY DEF SendReturns
<1> HIDE DEF broken, taken
<1>7. CASE Fails(e)
    BY <1>1, <1>7, FailsKeeps
<1>8. CASE Back(e, "SUCCESS", call[e].data, sock)
    BY <1>1, <1>3, <1>8, BackKeeps DEF Back
<1>9. CASE Back(e, "SUCCESS", call[e].data, broken)
  <2>1. Gentle
      BY <1>4, <1>9 DEF Back
  <2> QED
      BY <1>1, <1>9, <2>1, BackKeeps
<1>10. CASE Back(e, "SUCCESS", call[e].data, taken)
  <2>1. Gentle
      BY <1>5, <1>10 DEF Back
  <2> QED
      BY <1>1, <1>10, <2>1, BackKeeps
<1> QED
    BY <1>6, <1>7, <1>8, <1>9, <1>10

LEMMA ShutdownKeeps ==
    ASSUME Inv, NEW e \in Endpoints, ShutdownReturns(e), UNCHANGED userVars
    PROVE  Inv'
<1>1. InKernel(e, SystemCalls \ {"connect"})
    BY DEF ShutdownReturns, InKernel, SystemCalls
<1>2. Back(e, "SUCCESS", <<>>, ShutDown(call[e].on, FALSE))
    BY DEF ShutdownReturns
<1>3. Gentle
    BY <1>2, ShutDownIsGentle DEF Back, Inv, Queued
<1> QED
    BY <1>1, <1>2, <1>3, BackKeeps

\* A connection that is made waits behind the others, and was nowhere before.
LEMMA QueueGrows ==
    ASSUME Inv, UNCHANGED object, NEW a \in Accepted, NEW to, sock[a].phase = "none",
           to \in Servers,
           \A x \in Endpoints : TypedSock(x)',
           \A x \in Endpoints \ {to} : sock'[x].queue = sock[x].queue,
           to \in Endpoints => sock'[to].queue = Append(sock[to].queue, a),
           \A x \in Endpoints : sock[x].phase # "none" => sock'[x].phase # "none",
           sock'[a].phase # "none"
    PROVE  Queued'
<1>1. a \in Endpoints /\ object[a] = "none"
    BY EndpointAssumption DEF Inv, Queued, Endpoints
<1>2. ASSUME NEW t \in Endpoints, NEW i \in Nat PROVE ~Waits(a, t, i)
    BY <1>1, <1>2 DEF Inv, Queued
<1>3. ASSUME NEW b, NEW t \in Endpoints, NEW i \in Nat, Waits(b, t, i)'
      PROVE  Waits(b, t, i) \/ (b = a /\ t = to /\ i = Len(sock[to].queue) + 1)
  <2>1. CASE t # to
      BY <1>3, <2>1 DEF Waits
  <2>2. CASE t = to
    <3> DEFINE q == sock[to].queue
    <3>1. q \in Seq(Accepted) /\ sock'[t].queue = Append(q, a)
        BY <2>2 DEF Inv, Queued, TypedSock
    <3>2. i \in DOMAIN Append(q, a) /\ Append(q, a)[i] = b
        BY <1>3, <3>1 DEF Waits
    <3> HIDE DEF q
    <3>3. DOMAIN Append(q, a) = 1 .. Len(q) + 1 /\ DOMAIN q = 1 .. Len(q) /\ Len(q) \in Nat
        BY <3>1
    <3>4. i \in 1 .. Len(q) => q[i] = b
        BY <3>1, <3>2, AppendProperties
    <3>5. i = Len(q) + 1 => b = a
        BY <3>1, <3>2, AppendProperties
    <3>6. Waits(b, t, i) \/ (b = a /\ i = Len(q) + 1)
        BY <2>2, <3>2, <3>3, <3>4, <3>5 DEF Waits, q
    <3> QED
        BY <2>2, <3>6 DEF q
  <2> QED
      BY <2>1, <2>2
<1>4. ASSUME NEW t \in Endpoints, NEW b \in Endpoints, NEW i \in Nat, Waits(b, t, i)'
      PROVE  object'[b] = "none" /\ sock'[b].phase # "none"
    BY <1>1, <1>3, <1>4 DEF Inv, Queued
<1>5. ASSUME NEW t \in Endpoints, NEW u \in Endpoints, NEW b \in Endpoints, NEW i \in Nat, NEW j \in Nat,
             Waits(b, t, i)', Waits(b, u, j)'
      PROVE  t = u /\ i = j
  <2>1. CASE b = a
      BY <1>2, <1>3, <1>5, <2>1
  <2>2. CASE b # a
    <3>1. Waits(b, t, i) /\ Waits(b, u, j)
        BY <1>3, <1>5, <2>2
    <3> QED
        BY <3>1 DEF Inv, Queued
  <2> QED
      BY <2>1, <2>2
<1>6. ASSUME NEW b \in Accepted PROVE (object[b] # "none" => sock[b].phase # "none")'
    BY <1>6, EndpointAssumption DEF Inv, Queued, Endpoints
<1> QED
    BY <1>4, <1>5, <1>6 DEF Queued

LEMMA ConnectKeeps ==
    ASSUME Inv, NEW e \in Endpoints, ConnectReturns(e), UNCHANGED userVars
    PROVE  Inv'
<1> DEFINE s == call[e].on
           to == call[e].to
           unused == {a \in Accepted : sock[a].phase = "none"}
           a == CHOOSE a \in unused : TRUE
           stream == [sock EXCEPT ![s].phase = "connected", ![s].peer = a,
                                  ![a].phase = "connected", ![a].peer = s,
                                  ![to].queue = Append(@, a)]
           datagram == [sock EXCEPT ![s].phase = "connected", ![s].peer = to]
<1>1. call[e].at = "kernel" /\ call[e].op = "connect"
    BY DEF ConnectReturns, InKernel
<1>2. Typed /\ Endpoint(e) /\ \A x \in Endpoints : TypedSock(x)
    BY DEF Inv, Queued
<1>3. \/ Fails(e)
      \/ unused # {} /\ sock' = stream /\ call' = [call EXCEPT ![e].at = "left"]
         /\ UNCHANGED <<object, status, socket, closing, file>>
      \/ sock' = datagram /\ call' = [call EXCEPT ![e].at = "left"]
         /\ UNCHANGED <<object, status, socket, closing, file>>
    BY DEF ConnectReturns
<1>4. a \in unused \/ unused = {}
    OBVIOUS
<1>5. ASSUME call' = [call EXCEPT ![e].at = "left"], UNCHANGED <<object, status, socket, closing, file>>,
             DOMAIN sock' = Endpoints, Queued'
      PROVE  Inv'
  <2>1. DOMAIN call' = Endpoints /\ \A x \in Endpoints \ {e} : call'[x] = call[x]
      BY <1>2, <1>5 DEF Typed
  <2>2. DOMAIN call[e] = DOMAIN Idle
      BY <1>2 DEF Endpoint, TypedCall
  <2>3. /\ DOMAIN call'[e] = DOMAIN Idle /\ call'[e].at = "left" /\ call'[e].op = call[e].op
        /\ call'[e].fd = call[e].fd /\ call'[e].err = call[e].err
      BY <1>2, <1>5, <2>2 DEF Typed, Idle
  <2>4. UNCHANGED todo
      BY DEF userVars
  <2>5. TypedCall(e)'
      BY <1>2, <2>3 DEF Endpoint, TypedCall
  <2>6. Unborn(e)' /\ Working(e)'
      BY <1>1, <1>2, <1>5, <2>3, <2>4, InSystemCall DEF Endpoint, Unborn, Working, Does
  <2>7. Following(e)' /\ Refused(e)'
      BY <1>1, <1>2, <1>5, <2>3, <2>4 DEF Endpoint, Following, Refused, Suits
  <2>8. HavingSocket(e)'
      BY <1>1, <1>2, <1>5, <2>3 DEF Endpoint, HavingSocket
  <2>9. Endpoint(e)'
      BY <2>5, <2>6, <2>7, <2>8 DEF Endpoint
  <2> QED
      BY <1>2, <1>5, <2>1, <2>4, <2>9, ThreadKeeps DEF Typed
<1>6. ASSUME a \in unused, sock' = stream, UNCHANGED object PROVE DOMAIN sock' = Endpoints /\ Queued'
  <2>1. a \in Accepted /\ sock[a].phase = "none" /\ a \in Endpoints
      BY <1>6, EndpointAssumption DEF Endpoints
  <2>0. to \in Servers
      BY <1>1, <1>2 DEF Endpoint, TypedCall
  <2> HIDE DEF a, s, to
  <2>2. /\ DOMAIN sock' = Endpoints
        /\ \A x \in Endpoints : DOMAIN sock'[x] = DOMAIN NoSocket
        /\ \A x \in Endpoints \ {to} : sock'[x].queue = sock[x].queue
        /\ to \in Endpoints => sock'[to].queue = Append(sock[to].queue, a)
        /\ \A x \in Endpoints : sock[x].phase # "none" => sock'[x].phase # "none"
        /\ sock'[a].phase # "none"
      BY <1>2, <1>6, <2>1 DEF Typed, TypedSock, NoSocket
  <2>3. ASSUME NEW x \in Endpoints PROVE TypedSock(x)'
    <3>1. sock[x].queue \in Seq(Accepted) /\ (sock[x].queue # <<>> => x \in Servers)
        BY <1>2, <2>3 DEF TypedSock
    <3>2. Append(sock[x].queue, a) \in Seq(Accepted)
        BY <2>1, <3>1, AppendProperties
    <3> QED
        BY <2>0, <2>2, <3>1, <3>2 DEF TypedSock
  <2> QED
      BY <1>6, <2>0, <2>1, <2>2, <2>3, QueueGrows
<1>7. ASSUME sock' = datagram, UNCHANGED object PROVE DOMAIN sock' = Endpoints /\ Queued'
  <2> HIDE DEF s, to
  <2>1. Gentle
      BY <1>2, <1>7 DEF Typed, TypedSock, NoSocket, Gentle
  <2> QED
      BY <1>7, <2>1, QueuesKept DEF Inv, Gentle
<1>8. CASE Fails(e)
    BY <1>1, <1>8, FailsKeeps
<1> HIDE DEF stream, datagram
<1> QED
    BY <1>3, <1>4, <1>5, <1>6, <1>7, <1>8

LEMMA FinishKeeps ==
    ASSUME Inv, NEW e \in Endpoints, ConnectFinishes(e), UNCHANGED userVars
    PROVE  Inv'
<1>1. /\ call[e].at = "left" /\ UNCHANGED <<object, socket, closing, file, sock, todo>>
      /\ status' = [status EXCEPT ![e] = "CONNECTED"]
      /\ call' = [call EXCEPT ![e] = Returned(e, "connect", "SUCCESS", <<>>)]
    BY DEF ConnectFinishes, userVars
<1>2. Typed /\ Endpoint(e)
    BY DEF Inv
<1>3. call[e].op = "connect" /\ todo[e] = "connect" /\ object[e] # "none" /\ Does(e, "connect")
    BY <1>1, <1>2 DEF Endpoint, Working, Unborn, Idle
<1>4. e \in Clients
    BY <1>3 DEF Does
<1>5. /\ DOMAIN call' = Endpoints /\ \A x \in Endpoints \ {e} : call'[x] = call[x] /\ status'[x] = status[x]
      /\ status' \in [Endpoints -> {"INVALID", "INIT", "CONNECTED", "LISTENING", "CLOSING"}]
    BY <1>1, <1>2 DEF Typed
<1>6. /\ DOMAIN call'[e] = DOMAIN Idle /\ call'[e].op = "connect" /\ status'[e] = "CONNECTED"
      /\ call'[e].at = "returned" /\ call'[e].fd = None /\ call'[e].err = "SUCCESS"
    BY <1>1, <1>2 DEF Typed, Idle, Returned
<1>7. TypedCall(e)'
    BY <1>6 DEF TypedCall, Idle
<1>8. Unborn(e)' /\ Working(e)'
    BY <1>1, <1>2, <1>3, <1>6 DEF Endpoint, Unborn, Working, Does
<1>9. Following(e)' /\ Refused(e)'
    BY <1>1, <1>3, <1>6 DEF Following, Refused
<1>10. HavingSocket(e)'
    BY <1>1, <1>2, <1>3, <1>4, <1>6 DEF Endpoint, HavingSocket
<1>11. Endpoint(e)'
    BY <1>7, <1>8, <1>9, <1>10 DEF Endpoint
<1> QED
    BY <1>1, <1>2, <1>5, <1>11, NothingIsGentle, ThreadKeeps DEF Typed

\* The thread takes the result and turns to its next call, which the status suits.
LEMMA GoesOnKeeps ==
    ASSUME Inv, NEW e \in Endpoints, GoesOn(e)
    PROVE  Inv'
<1>1. /\ call[e].at = "returned" /\ call' = [call EXCEPT ![e] = Idle]
      /\ UNCHANGED <<object, status, socket, closing, file, sock>>
    BY DEF GoesOn
<1>2. Typed /\ Endpoint(e)
    BY DEF Inv
<1>3. PICK t \in After(e) : todo' = [todo EXCEPT ![e] = t]
    BY DEF GoesOn
<1>4. /\ DOMAIN call' = Endpoints /\ DOMAIN todo' = Endpoints /\ call'[e] = Idle /\ todo'[e] = t
      /\ \A x \in Endpoints \ {e} : call'[x] = call[x] /\ todo'[x] = todo[x]
    BY <1>1, <1>2, <1>3 DEF Typed
<1>5. call[e].op = todo[e] /\ object[e] # "none" /\ Does(e, todo[e])
    BY <1>1, <1>2 DEF Endpoint, Working, Unborn, Idle
<1>6. (e \in Accepted => e \in Tcp) /\ (e \in Clients => e \notin Servers) /\ (e \in Accepted => e \notin Clients \union Servers)
    BY NetworkAssumption, EndpointAssumption
<1>7. CASE call[e].err # "SUCCESS"
  <2>1. t = "end"
      BY <1>3, <1>7 DEF After
  <2> QED
    <3>1. TypedCall(e)' /\ Unborn(e)' /\ Working(e)'
        BY <1>1, <1>4, <1>5, <2>1 DEF TypedCall, Unborn, Working, Does, Idle
    <3>2. Following(e)' /\ Refused(e)'
        BY <1>4, <2>1 DEF Following, Refused, Suits, Idle
    <3>3. HavingSocket(e)'
        BY <1>1, <1>2, <1>4 DEF Endpoint, HavingSocket, Idle
    <3>4. Endpoint(e)'
        BY <3>1, <3>2, <3>3 DEF Endpoint
    <3> QED
        BY <1>1, <1>2, <1>4, <3>4, NothingIsGentle, ThreadKeeps DEF Typed
<1>8. CASE call[e].err = "SUCCESS"
  <2>1. /\ todo[e] # "end"
        /\ todo[e] = "listen" => t \in IF e \in Tcp THEN {"accept"} ELSE {"recv", "recvFrom"}
        /\ todo[e] = "connect" => t \in IF e \in Tcp THEN {"send"} ELSE {"send", "sendTo"}
        /\ todo[e] = "accept" => t = "accept"
        /\ todo[e] \in {"send", "sendTo"} => t = IF e \in Tcp THEN "recv" ELSE "end"
        /\ todo[e] \in {"recv", "recvFrom"} =>
             \/ t = "end"
             \/ e \in Clients /\ t \in {"send", "shutdown"}
             \/ e \notin Clients /\ t \in IF e \in Tcp THEN {"send"} ELSE {"recv", "recvFrom"}
        /\ todo[e] = "shutdown" => t = "recv"
    <3>1. todo[e] # "end"
        BY <1>1, <1>2, <1>5, <1>8 DEF Endpoint, Working
    <3>2. CASE todo[e] = "listen"
        BY <1>3, <1>5, <1>8, <3>2 DEF After
    <3>3. CASE todo[e] = "connect"
        BY <1>3, <1>5, <1>8, <3>3 DEF After
    <3>4. CASE todo[e] = "accept"
        BY <1>3, <1>5, <1>8, <3>4 DEF After
    <3>5. CASE todo[e] \in {"send", "sendTo"}
        BY <1>3, <1>5, <1>8, <3>5 DEF After
    <3>6. CASE todo[e] \in {"recv", "recvFrom"}
      <4>1. t \in IF call[e].data = <<>> THEN {"end"}
                  ELSE IF e \in Clients THEN IF sent[e] < Rounds THEN {"send"} ELSE {"shutdown", "end"}
                  ELSE IF e \in Tcp THEN {"send"} ELSE {"recv", "recvFrom"}
          BY <1>3, <1>5, <1>8, <3>6 DEF After
      <4> QED
          BY <3>1, <3>6, <4>1
    <3>7. CASE todo[e] = "shutdown"
        BY <1>3, <1>5, <1>8, <3>7 DEF After
    <3> QED
        BY <1>5, <3>1, <3>2, <3>3, <3>4, <3>5, <3>6, <3>7 DEF Does
  <2>2. Does(e, t)
      BY <1>5, <1>6, <2>1 DEF Does
  <2>3. object[e] = "alive" /\ closing[e] = "no" /\ socket[e] # None => Suits(e, t)
    <3>1. SUFFICES ASSUME object[e] = "alive", closing[e] = "no", socket[e] # None PROVE Suits(e, t)
        OBVIOUS
    <3>2. /\ todo[e] = "listen" => status[e] = "LISTENING"
          /\ todo[e] = "connect" => status[e] = "CONNECTED"
          /\ todo[e] \notin {"listen", "connect"} => Suits(e, todo[e])
        BY <1>1, <1>2, <1>8, <3>1 DEF Endpoint, Following
    <3>3. CASE todo[e] \in {"listen", "connect", "shutdown"}
        BY <1>5, <1>6, <2>1, <3>2, <3>3 DEF Does, Suits
    <3>4. CASE todo[e] = "accept"
        BY <1>5, <1>6, <2>1, <3>2, <3>4 DEF Does, Suits
    <3>5. CASE todo[e] \in {"recv", "recvFrom"}
        BY <1>5, <1>6, <2>1, <3>2, <3>5 DEF Does, Suits
    <3>6. CASE todo[e] \in {"send", "sendTo"}
        BY <1>5, <1>6, <2>1, <3>2, <3>6 DEF Does, Suits
    <3> QED
        BY <1>5, <2>1, <3>3, <3>4, <3>5, <3>6 DEF Does
  <2>4. TypedCall(e)' /\ Unborn(e)' /\ Working(e)'
      BY <1>1, <1>4, <1>5, <2>2 DEF TypedCall, Unborn, Working, Does, Idle
  <2>5. Following(e)' /\ Refused(e)'
      BY <1>1, <1>4, <2>3 DEF Following, Refused, Suits, Idle
  <2>6. HavingSocket(e)'
      BY <1>1, <1>2, <1>4 DEF Endpoint, HavingSocket, Idle
  <2>7. Endpoint(e)'
      BY <2>4, <2>5, <2>6 DEF Endpoint
  <2> QED
      BY <1>1, <1>2, <1>4, <2>7, NothingIsGentle, ThreadKeeps DEF Typed
<1> QED
    BY <1>7, <1>8

-----------------------------------------------------------------------------
(* Endpoints that appear *)

\* The descriptor of a new endpoint was nobody's.
LEMMA NewDescriptor ==
    ASSUME Inv, NEW x \in Endpoints, object[x] = "none", Free # {},
           file' = [file EXCEPT ![Min(Free)] = x], socket' = [socket EXCEPT ![x] = Min(Free)],
           UNCHANGED closing
    PROVE  /\ Owned'
           /\ file' \in [Descriptors -> Endpoints \union {None}]
           /\ socket' \in [Endpoints -> Descriptors \union {None}]
           /\ socket'[x] \in Descriptors
<1> DEFINE d == Min(Free)
<1>1. d \in Descriptors /\ file[d] = None
    BY FreeDescriptor
<1>2. /\ file \in [Descriptors -> Endpoints \union {None}]
      /\ socket \in [Endpoints -> Descriptors \union {None}]
      /\ socket[x] = None /\ closing[x] = "no" /\ None \notin Endpoints /\ None \notin Descriptors
    BY EndpointAssumption DEF Inv, Typed, Endpoint, Unborn, Endpoints
<1> HIDE DEF d
<1>3. file' = [file EXCEPT ![d] = x] /\ socket' = [socket EXCEPT ![x] = d]
    BY DEF d
<1>4. ASSUME NEW c \in Descriptors, file'[c] # None
      PROVE  socket'[file'[c]] = c /\ closing'[file'[c]] # "closed"
  <2>1. CASE c = d
      BY <1>1, <1>2, <1>3, <2>1
  <2>2. CASE c # d
    <3>1. file'[c] = file[c] /\ file[c] \in Endpoints /\ socket[file[c]] = c /\ closing[file[c]] # "closed"
        BY <1>2, <1>3, <1>4, <2>2 DEF Inv, Owned
    <3> QED
        BY <1>2, <1>3, <2>2, <3>1
  <2> QED
      BY <2>1, <2>2
<1>5. ASSUME NEW y \in Endpoints, socket'[y] # None, closing'[y] # "closed" PROVE file'[socket'[y]] = y
  <2>1. CASE y = x
      BY <1>1, <1>2, <1>3, <2>1
  <2>2. CASE y # x
    <3>1. socket'[y] = socket[y] /\ socket[y] \in Descriptors /\ file[socket[y]] = y
        BY <1>2, <1>3, <1>5, <2>2 DEF Inv, Owned
    <3>2. socket[y] # d
        BY <1>1, <1>2, <3>1
    <3> QED
        BY <1>2, <1>3, <3>1, <3>2
  <2> QED
      BY <2>1, <2>2
<1> QED
    BY <1>1, <1>2, <1>3, <1>4, <1>5 DEF Owned

LEMMA CreateKeeps ==
    ASSUME Inv, NEW e \in Endpoints, Create(e)
    PROVE  Inv'
<1>1. /\ object[e] = "none" /\ object' = [object EXCEPT ![e] = "alive"]
      /\ UNCHANGED <<call, closing, todo>> /\ e \in Servers \union Clients /\ e \notin Accepted
    BY NetworkAssumption DEF Create, Open, userVars
<1>2. Typed /\ Endpoint(e) /\ \A x \in Endpoints : TypedSock(x)
    BY DEF Inv, Queued
<1>3. /\ socket[e] = None /\ closing[e] = "no" /\ status[e] = "INVALID" /\ call[e] = Idle
      /\ todo[e] = First(e) /\ todo[e] \in {"listen", "connect"} /\ Does(e, todo[e])
    BY <1>1, <1>2 DEF Endpoint, Unborn, First, Does
<1>4. /\ object' \in [Endpoints -> {"none", "alive", "deleting", "deleted"}] /\ object'[e] = "alive"
      /\ \A x \in Endpoints \ {e} : object'[x] = object[x]
    BY <1>1, <1>2 DEF Typed
<1>5. TypedCall(e)' /\ Unborn(e)' /\ Working(e)' /\ Refused(e)'
    BY <1>1, <1>2, <1>3, <1>4 DEF Endpoint, TypedCall, Unborn, Working, Refused, Idle
<1> DEFINE opens == /\ Free # {}
                    /\ file' = [file EXCEPT ![Min(Free)] = e]
                    /\ socket' = [socket EXCEPT ![e] = Min(Free)]
                    /\ status' = [status EXCEPT ![e] = "INIT"]
                    /\ sock' = [sock EXCEPT ![e].phase = "open"]
<1>6. opens \/ UNCHANGED <<file, socket, status, sock>>
    BY DEF Create, Open
<1>7. ASSUME Gentle PROVE DOMAIN sock' = Endpoints /\ Queued'
    BY <1>1, <1>2, <1>7, QueuesKept DEF Inv, Typed, Gentle
<1>8. CASE opens
  <2>1. /\ Owned'
        /\ file' \in [Descriptors -> Endpoints \union {None}]
        /\ socket' \in [Endpoints -> Descriptors \union {None}]
        /\ socket'[e] \in Descriptors
      BY <1>1, <1>8, NewDescriptor
  <2>2. Gentle
      BY <1>2, <1>8 DEF Gentle, Typed, TypedSock, NoSocket
  <2>3. /\ status' \in [Endpoints -> {"INVALID", "INIT", "CONNECTED", "LISTENING", "CLOSING"}]
        /\ status'[e] = "INIT" /\ socket'[e] # None
        /\ \A x \in Endpoints \ {e} : status'[x] = status[x] /\ socket'[x] = socket[x]
      BY <1>2, <1>8, <2>1, EndpointAssumption DEF Typed
  <2>4. Typed'
      BY <1>1, <1>2, <1>4, <1>7, <2>1, <2>2, <2>3 DEF Typed
  <2>5. Following(e)' /\ HavingSocket(e)'
      BY <1>1, <1>3, <1>4, <2>3 DEF Following, HavingSocket, Suits, Idle
  <2>6. ASSUME NEW x \in Endpoints PROVE Endpoint(x)'
    <3>1. CASE x = e
        BY <1>5, <2>5, <3>1 DEF Endpoint
    <3>2. CASE x # e
        BY <1>1, <1>4, <2>3, <3>2, EndpointFrame DEF Inv
    <3> QED
        BY <3>1, <3>2
  <2> QED
      BY <1>7, <2>1, <2>2, <2>4, <2>6 DEF Inv
<1>9. CASE UNCHANGED <<file, socket, status, sock>>
  <2>1. Gentle
      BY <1>2, <1>9 DEF Gentle, Typed, TypedSock
  <2>2. Typed'
      BY <1>1, <1>2, <1>4, <1>9 DEF Typed
  <2>3. Following(e)' /\ HavingSocket(e)'
      BY <1>1, <1>3, <1>4, <1>9 DEF Following, HavingSocket, Idle
  <2>4. ASSUME NEW x \in Endpoints PROVE Endpoint(x)'
    <3>1. CASE x = e
        BY <1>5, <2>3, <3>1 DEF Endpoint
    <3>2. CASE x # e
        BY <1>1, <1>4, <1>9, <3>2, EndpointFrame DEF Inv
    <3> QED
        BY <3>1, <3>2
  <2>5. Owned'
      BY <1>1, <1>9, OwnedFrame DEF Inv
  <2> QED
      BY <1>7, <2>1, <2>2, <2>4, <2>5 DEF Inv
<1> QED
    BY <1>6, <1>8, <1>9

\* The connection that accept takes waits nowhere any more.
LEMMA QueueShrinks ==
    ASSUME Inv, NEW s \in Endpoints, sock[s].queue # <<>>, NEW a, a = Head(sock[s].queue),
           object' = [object EXCEPT ![a] = "alive"],
           \A x \in Endpoints : DOMAIN sock'[x] = DOMAIN NoSocket,
           \A x \in Endpoints \ {s} : sock'[x].queue \in {sock[x].queue, <<>>},
           sock'[s].queue = Tail(sock[s].queue),
           \A x \in Endpoints : sock[x].phase # "none" => sock'[x].phase # "none"
    PROVE  Queued'
<1> DEFINE q == sock[s].queue
<1>1. Typed /\ q \in Seq(Accepted) /\ s \in Servers
    BY DEF Inv, Queued, TypedSock
<1>2. Len(q) \in Nat /\ 1 \in DOMAIN q /\ q[1] = a /\ a \in Accepted /\ a \in Endpoints
    BY <1>1, HeadTailProperties, EndpointAssumption DEF Endpoints
<1>3. Waits(a, s, 1)
    BY <1>2 DEF Waits
<1>4. /\ Tail(q) \in Seq(Accepted)
      /\ \A i \in Nat : i \in DOMAIN Tail(q) => i # 0 /\ i + 1 \in DOMAIN q /\ Tail(q)[i] = q[i + 1]
    BY <1>1, HeadTailProperties
<1>5. ASSUME NEW b, NEW t \in Endpoints, NEW i \in Nat, Waits(b, t, i)'
      PROVE  (t # s /\ Waits(b, t, i)) \/ (t = s /\ i # 0 /\ Waits(b, t, i + 1))
  <2>1. CASE t = s
      BY <1>4, <1>5, <2>1 DEF Waits
  <2>2. CASE t # s
      BY <1>5, <2>2 DEF Waits
  <2> QED
      BY <2>1, <2>2
<1>6. ASSUME NEW t \in Endpoints, NEW b \in Endpoints, NEW i \in Nat, Waits(b, t, i)' PROVE b # a
  <2>1. \A u, c \in Endpoints, k, j \in Nat : Waits(c, u, k) /\ Waits(c, s, j) => u = s /\ k = j
      BY DEF Inv, Queued
  <2>2. i + 1 \in Nat /\ (i # 0 => i + 1 # 1)
      OBVIOUS
  <2> QED
      BY <1>2, <1>3, <1>5, <1>6, <2>1, <2>2
<1>7. ASSUME NEW x \in Endpoints PROVE TypedSock(x)'
  <2>1. CASE x = s
      BY <1>1, <1>4, <2>1 DEF TypedSock
  <2>2. CASE x # s
      BY <2>2, <1>7, EmptySeq DEF Inv, Queued, TypedSock
  <2> QED
      BY <2>1, <2>2
<1>8. ASSUME NEW t \in Endpoints, NEW b \in Endpoints, NEW i \in Nat, Waits(b, t, i)'
      PROVE  object'[b] = "none" /\ sock'[b].phase # "none"
  <2>1. object[b] = "none" /\ sock[b].phase # "none"
      BY <1>5, <1>8 DEF Inv, Queued
  <2> QED
      BY <1>1, <1>6, <1>8, <2>1 DEF Typed
<1>9. ASSUME NEW t \in Endpoints, NEW u \in Endpoints, NEW b \in Endpoints, NEW i \in Nat, NEW j \in Nat,
             Waits(b, t, i)', Waits(b, u, j)'
      PROVE  t = u /\ i = j
  <2>1. i + 1 \in Nat /\ j + 1 \in Nat /\ (i + 1 = j + 1 => i = j)
      OBVIOUS
  <2>2. \A v, w \in Endpoints, k, l \in Nat : Waits(b, v, k) /\ Waits(b, w, l) => v = w /\ k = l
      BY DEF Inv, Queued
  <2>3. (t # s /\ Waits(b, t, i)) \/ (t = s /\ Waits(b, t, i + 1))
      BY <1>5, <1>9
  <2>4. (u # s /\ Waits(b, u, j)) \/ (u = s /\ Waits(b, u, j + 1))
      BY <1>5, <1>9
  <2> QED
      BY <2>1, <2>2, <2>3, <2>4
<1>10. ASSUME NEW b \in Accepted PROVE (object[b] # "none" => sock[b].phase # "none")'
  <2>1. object[b] # "none" => sock[b].phase # "none"
      BY DEF Inv, Queued
  <2>2. sock[a].phase # "none"
      BY <1>2, <1>3 DEF Inv, Queued
  <2> QED
      BY <1>1, <1>2, <2>1, <2>2, EndpointAssumption DEF Typed, Endpoints
<1> QED
    BY <1>7, <1>8, <1>9, <1>10 DEF Queued

LEMMA OneLess ==
    ASSUME NEW r, DOMAIN r = Endpoints, \A x \in Endpoints : DOMAIN r[x] = DOMAIN NoSocket,
           NEW s \in Endpoints, NEW f, f = [r EXCEPT ![s].queue = Tail(@)], NEW x \in Endpoints
    PROVE  /\ DOMAIN f = Endpoints /\ DOMAIN f[x] = DOMAIN NoSocket
           /\ f[x].queue = IF x = s THEN Tail(r[x].queue) ELSE r[x].queue
           /\ f[x].phase = r[x].phase
<1>1. x = s => f[x] = [r[x] EXCEPT !.queue = Tail(@)]
    OBVIOUS
<1>2. x # s => f[x] = r[x]
    OBVIOUS
<1> QED
    BY <1>1, <1>2 DEF NoSocket

Accepts(e, s, a) ==
    /\ InKernel(e, {"accept"}) /\ UNCHANGED userVars
    /\ s = call[e].on /\ a = Head(sock[s].queue) /\ sock[s].queue # <<>> /\ Free # {}
    /\ object' = [object EXCEPT ![a] = "alive"]
    /\ call' = [call EXCEPT ![e] = Returned(e, "accept", "SUCCESS", <<a>>)]
    /\ Named(a, s) \/ Unnamed(a, s)
    /\ UNCHANGED closing

LEMMA AcceptedKeeps ==
    ASSUME Inv, NEW e \in Endpoints, NEW s, NEW a, Accepts(e, s, a)
    PROVE  Inv'
<1>0. InKernel(e, SystemCalls \ {"connect"})
    BY DEF Accepts, InKernel, SystemCalls
<1>1. Typed /\ Endpoint(e) /\ (\A x \in Endpoints : TypedSock(x)) /\ UNCHANGED <<todo, userVars>>
    BY DEF Inv, Queued, userVars, Accepts
<1>2. s \in Endpoints /\ sock[s].queue # <<>> /\ a = Head(sock[s].queue) /\ s \in Servers
    BY <1>1 DEF Accepts, InKernel, Endpoint, TypedCall, TypedSock
<1>3. a \in Accepted /\ a \in Endpoints /\ 1 \in DOMAIN sock[s].queue /\ sock[s].queue[1] = a
    BY <1>1, <1>2, HeadTailProperties, EndpointAssumption DEF TypedSock, Endpoints
<1>4. a # s /\ a \notin Servers /\ a \notin Clients
    BY <1>2, <1>3, NetworkAssumption
<1>5. object[a] = "none"
    BY <1>2, <1>3 DEF Inv, Queued, Waits
<1>6. /\ socket[a] = None /\ closing[a] = "no" /\ status[a] = "INVALID" /\ call[a] = Idle
      /\ todo[a] = "recv" /\ Does(a, "recv") /\ TypedCall(a)
    BY <1>3, <1>4, <1>5 DEF Inv, Endpoint, Unborn, First, Does
<1>7. e # a
    BY <1>6 DEF Idle, InKernel, Accepts
<1>8. /\ object' \in [Endpoints -> {"none", "alive", "deleting", "deleted"}] /\ object'[a] = "alive"
      /\ \A x \in Endpoints \ {a} : object'[x] = object[x]
    BY <1>1, <1>3 DEF Typed, Accepts
<1>9. call' = [call EXCEPT ![e] = Returned(e, @.op, "SUCCESS", <<a>>)] /\ UNCHANGED closing
    BY DEF InKernel, Accepts
<1>10. CASE Named(a, s)
  <2>1. /\ Owned'
        /\ file' \in [Descriptors -> Endpoints \union {None}]
        /\ socket' \in [Endpoints -> Descriptors \union {None}]
        /\ socket'[a] \in Descriptors
      BY <1>3, <1>5, <1>9, <1>10, NewDescriptor DEF Named, Accepts
  <2>2. /\ status' \in [Endpoints -> {"INVALID", "INIT", "CONNECTED", "LISTENING", "CLOSING"}]
        /\ status'[a] = "CONNECTED" /\ socket'[a] # None
        /\ \A x \in Endpoints \ {a} : status'[x] = status[x] /\ socket'[x] = socket[x]
      BY <1>1, <1>3, <1>10, <2>1, EndpointAssumption DEF Named, Typed
  <2>3. Endpoint(e)' /\ DOMAIN call' = Endpoints /\ \A x \in Endpoints \ {e} : call'[x] = call[x]
      BY <1>0, <1>1, <1>7, <1>8, <1>9, <2>2, ResultKeeps
  <2>4. DOMAIN sock' = Endpoints /\ Queued'
    <3>1. sock' = [sock EXCEPT ![s].queue = Tail(@)] /\ DOMAIN sock = Endpoints
        BY <1>1, <1>10 DEF Named, Typed
    <3>2. \A x \in Endpoints : DOMAIN sock[x] = DOMAIN NoSocket
        BY <1>1 DEF TypedSock
    <3>3. ASSUME NEW x \in Endpoints
          PROVE  /\ DOMAIN sock' = Endpoints /\ DOMAIN sock'[x] = DOMAIN NoSocket
                 /\ sock'[x].queue = IF x = s THEN Tail(sock[x].queue) ELSE sock[x].queue
                 /\ sock'[x].phase = sock[x].phase
        BY <1>2, <3>1, <3>2, <3>3, OneLess
    <3> QED
        BY <1>2, <3>3, QueueShrinks DEF Accepts
  <2>5. Typed'
      BY <1>1, <1>8, <1>9, <2>1, <2>2, <2>3, <2>4 DEF Typed
  <2>6. TypedCall(a)' /\ Unborn(a)' /\ Working(a)' /\ Refused(a)'
      BY <1>1, <1>3, <1>6, <1>7, <1>8, <2>3 DEF TypedCall, Unborn, Working, Refused, Idle
  <2>7. Following(a)' /\ HavingSocket(a)'
      BY <1>1, <1>3, <1>4, <1>6, <1>7, <1>8, <1>9, <2>2, <2>3 DEF Following, HavingSocket, Suits, Idle
  <2>8. ASSUME NEW x \in Endpoints PROVE Endpoint(x)'
    <3>1. CASE x = a
        BY <2>6, <2>7, <3>1 DEF Endpoint
    <3>2. CASE x # a /\ x # e
        BY <1>1, <1>8, <1>9, <2>2, <2>3, <3>2, EndpointFrame DEF Inv
    <3> QED
        BY <2>3, <3>1, <3>2
  <2> QED
      BY <2>1, <2>4, <2>5, <2>8 DEF Inv
<1>11. CASE Unnamed(a, s)
  <2>1. UNCHANGED <<status, socket, file>>
      BY <1>11 DEF Unnamed
  <2>2. Endpoint(e)' /\ DOMAIN call' = Endpoints /\ \A x \in Endpoints \ {e} : call'[x] = call[x]
      BY <1>0, <1>1, <1>7, <1>8, <1>9, <2>1, ResultKeeps
  <2>3. DOMAIN sock' = Endpoints /\ Queued'
    <3>1. PICK both \in BOOLEAN : both = TRUE
        OBVIOUS
    <3>0. PICK r : r = ShutDown(a, both)
        OBVIOUS
    <3>2. PICK p, rst : p = sock[a].peer /\ rst = (r[p].rst \/ Unread(a))
        OBVIOUS
    <3>3. sock' = [r EXCEPT ![s].queue = Tail(@), ![a].phase = "closed", ![p].rst = rst]
        BY <1>11, <3>0, <3>1, <3>2 DEF Unnamed
    <3>4. /\ DOMAIN r = Endpoints
          /\ \A x \in Endpoints :
               /\ DOMAIN r[x] = DOMAIN NoSocket
               /\ r[x].queue \in {sock[x].queue, <<>>}
               /\ x # a => r[x].queue = sock[x].queue
               /\ sock[x].phase # "none" => r[x].phase # "none"
        BY <1>1, <3>0, SocketsShutDown
    <3>5. ASSUME NEW x \in Endpoints
          PROVE  /\ DOMAIN sock' = Endpoints /\ DOMAIN sock'[x] = DOMAIN NoSocket
                 /\ sock'[x].queue = IF x = s THEN Tail(r[x].queue) ELSE r[x].queue
                 /\ sock'[x].phase = IF x = a THEN "closed" ELSE r[x].phase
      <4>1. /\ DOMAIN r = Endpoints /\ s \in Endpoints /\ a \in Endpoints /\ s # a
            /\ \A y \in Endpoints : DOMAIN r[y] = DOMAIN NoSocket
          BY <1>2, <1>3, <1>4, <3>4
      <4>2. DOMAIN sock' = Endpoints
          BY <3>3, <4>1
      <4>3. CASE x = s
        <5>1. sock'[x] \in {[r[x] EXCEPT !.queue = Tail(@)], [r[x] EXCEPT !.queue = Tail(@), !.rst = rst]}
            BY <3>3, <4>1, <4>3
        <5> QED
            BY <4>1, <4>2, <4>3, <5>1 DEF NoSocket
      <4>4. CASE x = a
        <5>1. sock'[x] \in {[r[x] EXCEPT !.phase = "closed"], [r[x] EXCEPT !.phase = "closed", !.rst = rst]}
            BY <3>3, <4>1, <4>4
        <5> QED
            BY <4>1, <4>2, <4>4, <5>1 DEF NoSocket
      <4>5. CASE x # s /\ x # a
        <5>1. sock'[x] \in {r[x], [r[x] EXCEPT !.rst = rst]}
            BY <3>3, <3>5, <4>1, <4>5
        <5> QED
            BY <3>5, <4>1, <4>2, <4>5, <5>1 DEF NoSocket
      <4> QED
          BY <4>3, <4>4, <4>5
    <3>6. /\ \A x \in Endpoints : DOMAIN sock'[x] = DOMAIN NoSocket
          /\ \A x \in Endpoints \ {s} : sock'[x].queue \in {sock[x].queue, <<>>}
          /\ sock'[s].queue = Tail(sock[s].queue)
          /\ \A x \in Endpoints : sock[x].phase # "none" => sock'[x].phase # "none"
        BY <1>2, <1>4, <3>4, <3>5
    <3>7. DOMAIN sock' = Endpoints
        BY <1>2, <3>5
    <3> QED
        BY <1>2, <3>6, <3>7, QueueShrinks DEF Accepts
  <2>4. Typed' /\ Owned'
      BY <1>1, <1>8, <1>9, <2>1, <2>2, <2>3, OwnedFrame DEF Typed, Inv
  <2>5. TypedCall(a)' /\ Unborn(a)' /\ Working(a)' /\ Refused(a)'
      BY <1>1, <1>3, <1>6, <1>7, <1>8, <2>2 DEF TypedCall, Unborn, Working, Refused, Idle
  <2>6. Following(a)' /\ HavingSocket(a)'
      BY <1>1, <1>3, <1>6, <1>7, <1>8, <1>9, <2>1, <2>2 DEF Following, HavingSocket, Idle
  <2>7. ASSUME NEW x \in Endpoints PROVE Endpoint(x)'
    <3>1. CASE x = a
        BY <2>5, <2>6, <3>1 DEF Endpoint
    <3>2. CASE x # a /\ x # e
        BY <1>1, <1>8, <1>9, <2>1, <2>2, <3>2, EndpointFrame DEF Inv
    <3> QED
        BY <2>2, <3>1, <3>2
  <2> QED
      BY <2>3, <2>4, <2>7 DEF Inv
<1> QED
    BY <1>10, <1>11 DEF Accepts

LEMMA AcceptKeeps ==
    ASSUME Inv, NEW e \in Endpoints, AcceptReturns(e), UNCHANGED userVars
    PROVE  Inv'
<1>1. InKernel(e, {"accept"}) /\ call[e].at = "kernel"
    BY DEF AcceptReturns, InKernel
<1>2. CASE Fails(e)
    BY <1>1, <1>2, FailsKeeps
<1>3. CASE ~Fails(e)
  <2>1. PICK s, a : s = call[e].on /\ a = Head(sock[s].queue)
      OBVIOUS
  <2>2. Accepts(e, s, a)
      BY <1>3, <2>1 DEF Accepts, AcceptReturns, On
  <2> QED
      BY <2>2, AcceptedKeeps
<1> QED
    BY <1>2, <1>3

-----------------------------------------------------------------------------
(* close() and release *)

\* A step of the owner of an endpoint.
LEMMA OwnerKeeps ==
    ASSUME Inv, NEW e \in Endpoints, UNCHANGED <<call, todo>>,
           object[e] # "none", NEW o \in {"alive", "deleting", "deleted"}, object' = [object EXCEPT ![e] = o],
           \A x \in Endpoints \ {e} :
              status'[x] = status[x] /\ socket'[x] = socket[x] /\ closing'[x] = closing[x],
           status' \in [Endpoints -> {"INVALID", "INIT", "CONNECTED", "LISTENING", "CLOSING"}],
           socket' \in [Endpoints -> Descriptors \union {None}],
           closing' \in [Endpoints -> {"no", "shut", "closed", "reset"}],
           file' \in [Descriptors -> Endpoints \union {None}],
           Gentle, Owned', Following(e)', HavingSocket(e)', Refused(e)'
    PROVE  Inv'
<1>1. Typed /\ Endpoint(e)
    BY DEF Inv
<1>2. /\ object' \in [Endpoints -> {"none", "alive", "deleting", "deleted"}]
      /\ object'[e] = o /\ \A x \in Endpoints \ {e} : object'[x] = object[x]
    BY <1>1 DEF Typed
<1>3. Typed'
    BY <1>1, <1>2 DEF Typed, Gentle
<1>4. TypedCall(e)' /\ Unborn(e)' /\ Working(e)'
    BY <1>1, <1>2 DEF Endpoint, TypedCall, Unborn, Working
<1>5. ASSUME NEW x \in Endpoints PROVE Endpoint(x)'
  <2>1. CASE x = e
      BY <1>4, <2>1 DEF Endpoint
  <2>2. CASE x # e
      BY <1>2, <2>2, EndpointFrame DEF Inv
  <2> QED
      BY <2>1, <2>2
<1>6. Queued'
  <2>1. \A a \in Accepted : object[a] = "none" => object'[a] = "none"
      BY <1>1, <1>2, EndpointAssumption DEF Endpoints
  <2> QED
      BY <2>1, QueuesKept DEF Inv
<1> QED
    BY <1>3, <1>5, <1>6 DEF Inv

LEMMA CloseBeginsKeeps ==
    ASSUME Inv, NEW e \in Endpoints, CloseBegins(e), UNCHANGED userVars
    PROVE  Inv'
<1>1. /\ object[e] \in {"alive", "deleting"} /\ closing[e] = "no"
      /\ status' = [status EXCEPT ![e] = "CLOSING"]
      /\ closing' = [closing EXCEPT ![e] = IF socket[e] = None THEN "closed" ELSE "shut"]
      /\ UNCHANGED <<object, socket, call, file, todo>>
    BY DEF CloseBegins, userVars
<1>2. Typed /\ Endpoint(e) /\ (\A x \in Endpoints : TypedSock(x)) /\ Owned
    BY DEF Inv, Queued
<1>3. /\ status' \in [Endpoints -> {"INVALID", "INIT", "CONNECTED", "LISTENING", "CLOSING"}]
      /\ closing' \in [Endpoints -> {"no", "shut", "closed", "reset"}]
      /\ status'[e] = "CLOSING" /\ closing'[e] = IF socket[e] = None THEN "closed" ELSE "shut"
      /\ \A x \in Endpoints \ {e} : status'[x] = status[x] /\ closing'[x] = closing[x]
    BY <1>1, <1>2 DEF Typed
<1>4. Gentle
  <2>1. CASE sock' = sock
      BY <1>2, <2>1 DEF Gentle, Typed, TypedSock
  <2>2. CASE sock' # sock
    <3>1. PICK both \in BOOLEAN : both = TRUE
        OBVIOUS
    <3>2. sock' = ShutDown(file[socket[e]], both)
        BY <2>2, <3>1 DEF CloseBegins
    <3> QED
        BY <1>2, <3>2, ShutDownIsGentle
  <2> QED
      BY <2>1, <2>2
<1>5. Owned'
  <2>1. ASSUME NEW d \in Descriptors, file[d] # None
        PROVE  socket[file[d]] = d /\ closing'[file[d]] # "closed"
    <3>1. file[d] \in Endpoints /\ socket[file[d]] = d /\ closing[file[d]] # "closed" /\ d # None
        BY <1>2, <2>1, EndpointAssumption DEF Typed, Owned
    <3> QED
        BY <1>3, <3>1
  <2>2. ASSUME NEW x \in Endpoints, socket[x] # None, closing'[x] # "closed" PROVE file[socket[x]] = x
      BY <1>1, <1>2, <1>3, <2>2 DEF Owned
  <2> QED
      BY <1>1, <2>1, <2>2 DEF Owned
<1>6. Following(e)' /\ Refused(e)'
    BY <1>3 DEF Following, Refused
<1>7. HavingSocket(e)'
    BY <1>1, <1>2, <1>3 DEF Endpoint, HavingSocket
<1>8. object' = [object EXCEPT ![e] = object[e]] /\ object[e] \in {"alive", "deleting", "deleted"}
    BY <1>1, <1>2 DEF Typed
<1>9. /\ socket' \in [Endpoints -> Descriptors \union {None}]
      /\ file' \in [Descriptors -> Endpoints \union {None}]
    BY <1>1, <1>2 DEF Typed
<1> QED
    BY <1>1, <1>3, <1>4, <1>5, <1>6, <1>7, <1>8, <1>9, OwnerKeeps

\* The descriptor that is given back is the endpoint's own.
LEMMA CloseGivesBackKeeps ==
    ASSUME Inv, NEW e \in Endpoints, CloseGivesBack(e), UNCHANGED userVars
    PROVE  Inv'
<1>1. /\ closing[e] = "shut"
      /\ closing' = [closing EXCEPT ![e] = "closed"]
      /\ file' = [file EXCEPT ![socket[e]] = None]
      /\ UNCHANGED <<object, status, socket, call, todo>>
    BY DEF CloseGivesBack, userVars
<1>2. Typed /\ Endpoint(e) /\ (\A x \in Endpoints : TypedSock(x)) /\ Owned
    BY DEF Inv, Queued
<1>3. socket[e] # None /\ socket[e] \in Descriptors /\ file[socket[e]] = e
    BY <1>1, <1>2 DEF Endpoint, HavingSocket, Typed, Owned
<1>4. object[e] # "none"
    BY <1>1, <1>2 DEF Endpoint, Unborn
<1>5. /\ closing' \in [Endpoints -> {"no", "shut", "closed", "reset"}]
      /\ closing'[e] = "closed" /\ \A x \in Endpoints \ {e} : closing'[x] = closing[x]
      /\ file' \in [Descriptors -> Endpoints \union {None}]
      /\ file'[socket[e]] = None /\ \A d \in Descriptors \ {socket[e]} : file'[d] = file[d]
    BY <1>1, <1>2, <1>3 DEF Typed
<1>6. Gentle
  <2>1. ASSUME NEW x \in Endpoints
        PROVE  sock'[x] \in {sock[x], [sock[x] EXCEPT !.phase = "closed"], [sock[x] EXCEPT !.rst = TRUE]}
    <3>1. sock'[x] = CASE x = e -> [sock[x] EXCEPT !.phase = "closed"]
                       [] e # None /\ x # e /\ e \in Tcp /\ x = sock[e].peer /\ Unread(e) ->
                            [sock[x] EXCEPT !.rst = TRUE]
                       [] OTHER -> sock[x]
        BY <1>3, <2>1 DEF CloseGivesBack
    <3> QED
        BY <3>1
  <2>2. DOMAIN sock' = Endpoints
      BY DEF CloseGivesBack
  <2>3. ASSUME NEW x \in Endpoints
        PROVE  /\ DOMAIN sock'[x] = DOMAIN NoSocket
               /\ sock'[x].queue \in {sock[x].queue, <<>>}
               /\ sock[x].phase # "none" => sock'[x].phase # "none"
      BY <1>2, <2>1, <2>3 DEF TypedSock, NoSocket
  <2> QED
      BY <2>2, <2>3 DEF Gentle
<1>7. Owned'
  <2>1. ASSUME NEW d \in Descriptors, file'[d] # None
        PROVE  socket[file'[d]] = d /\ closing'[file'[d]] # "closed"
    <3>1. d # socket[e] /\ file'[d] = file[d]
        BY <1>5, <2>1
    <3>2. file[d] \in Endpoints /\ socket[file[d]] = d /\ closing[file[d]] # "closed"
        BY <1>2, <2>1, <3>1 DEF Typed, Owned
    <3>3. file[d] # e
        BY <3>1, <3>2
    <3> QED
        BY <1>5, <3>1, <3>2, <3>3
  <2>2. ASSUME NEW x \in Endpoints, socket[x] # None, closing'[x] # "closed" PROVE file'[socket[x]] = x
    <3>1. x # e /\ closing'[x] = closing[x]
        BY <1>5, <2>2
    <3>2. file[socket[x]] = x /\ socket[x] \in Descriptors
        BY <1>2, <2>2, <3>1 DEF Typed, Owned
    <3>3. socket[x] # socket[e]
        BY <1>3, <3>1, <3>2
    <3> QED
        BY <1>5, <3>2, <3>3
  <2> QED
      BY <1>1, <2>1, <2>2 DEF Owned
<1>8. Following(e)' /\ Refused(e)'
    BY <1>5 DEF Following, Refused
<1>9. HavingSocket(e)'
    BY <1>1, <1>2, <1>3, <1>5 DEF Endpoint, HavingSocket
<1>10. object' = [object EXCEPT ![e] = object[e]] /\ object[e] \in {"alive", "deleting", "deleted"}
    BY <1>1, <1>2, <1>4 DEF Typed
<1>11. /\ socket' \in [Endpoints -> Descriptors \union {None}]
       /\ status' \in [Endpoints -> {"INVALID", "INIT", "CONNECTED", "LISTENING", "CLOSING"}]
    BY <1>1, <1>2 DEF Typed
<1> QED
    BY <1>1, <1>4, <1>5, <1>6, <1>7, <1>8, <1>9, <1>10, <1>11, OwnerKeeps

LEMMA CloseResetsKeeps ==
    ASSUME Inv, NEW e \in Endpoints, CloseResets(e), UNCHANGED userVars
    PROVE  Inv'
<1>1. /\ closing[e] = "closed"
      /\ closing' = [closing EXCEPT ![e] = "reset"]
      /\ status' = [status EXCEPT ![e] = "INVALID"]
      /\ socket' = [socket EXCEPT ![e] = None]
      /\ object' = [object EXCEPT ![e] = IF @ = "deleting" THEN "deleted" ELSE @]
      /\ UNCHANGED <<call, file, sock, todo>>
    BY DEF CloseResets, userVars
<1>2. Typed /\ Endpoint(e) /\ (\A x \in Endpoints : TypedSock(x)) /\ Owned
    BY DEF Inv, Queued
<1>3. object[e] # "none"
    BY <1>1, <1>2 DEF Endpoint, Unborn
<1>4. /\ closing' \in [Endpoints -> {"no", "shut", "closed", "reset"}]
      /\ socket' \in [Endpoints -> Descriptors \union {None}]
      /\ status' \in [Endpoints -> {"INVALID", "INIT", "CONNECTED", "LISTENING", "CLOSING"}]
      /\ file' \in [Descriptors -> Endpoints \union {None}]
      /\ closing'[e] = "reset" /\ socket'[e] = None /\ status'[e] = "INVALID"
      /\ \A x \in Endpoints \ {e} :
           status'[x] = status[x] /\ socket'[x] = socket[x] /\ closing'[x] = closing[x]
    BY <1>1, <1>2 DEF Typed
<1>5. Gentle
    BY <1>1, <1>2 DEF Gentle, Typed, TypedSock
<1>6. Owned'
  <2>1. ASSUME NEW d \in Descriptors, file[d] # None
        PROVE  socket'[file[d]] = d /\ closing'[file[d]] # "closed"
    <3>1. file[d] \in Endpoints /\ socket[file[d]] = d /\ closing[file[d]] # "closed"
        BY <1>2, <2>1 DEF Typed, Owned
    <3>2. file[d] # e
        BY <1>1, <3>1
    <3> QED
        BY <1>4, <3>1, <3>2
  <2>2. ASSUME NEW x \in Endpoints, socket'[x] # None, closing'[x] # "closed" PROVE file[socket'[x]] = x
      BY <1>2, <1>4, <2>2 DEF Owned
  <2> QED
      BY <1>1, <2>1, <2>2 DEF Owned
<1>7. Following(e)' /\ Refused(e)' /\ HavingSocket(e)'
    BY <1>4 DEF Following, Refused, HavingSocket
<1>8. PICK o \in {"alive", "deleting", "deleted"} : object' = [object EXCEPT ![e] = o]
    BY <1>1, <1>2, <1>3 DEF Typed
<1> QED
    BY <1>1, <1>3, <1>4, <1>5, <1>6, <1>7, <1>8, OwnerKeeps

LEMMA DeleteKeeps ==
    ASSUME Inv, NEW e \in Endpoints, OwnerReleases(e)
    PROVE  Inv'
<1>1. /\ object[e] = "alive" /\ closing[e] \in {"no", "reset"}
      /\ object' = [object EXCEPT ![e] = IF socket[e] = None THEN "deleted" ELSE "deleting"]
      /\ closing' = [closing EXCEPT ![e] = IF socket[e] = None THEN "reset" ELSE "no"]
      /\ UNCHANGED <<status, socket, call, file, sock, todo>>
    BY DEF OwnerReleases, Delete, userVars
<1>2. Typed /\ Endpoint(e) /\ (\A x \in Endpoints : TypedSock(x)) /\ Owned
    BY DEF Inv, Queued
<1>3. /\ closing' \in [Endpoints -> {"no", "shut", "closed", "reset"}]
      /\ closing'[e] = (IF socket[e] = None THEN "reset" ELSE "no")
      /\ object'[e] = (IF socket[e] = None THEN "deleted" ELSE "deleting")
      /\ \A x \in Endpoints \ {e} : closing'[x] = closing[x]
      /\ socket' \in [Endpoints -> Descriptors \union {None}]
      /\ status' \in [Endpoints -> {"INVALID", "INIT", "CONNECTED", "LISTENING", "CLOSING"}]
      /\ file' \in [Descriptors -> Endpoints \union {None}]
    BY <1>1, <1>2 DEF Typed
<1>4. Gentle
    BY <1>1, <1>2 DEF Gentle, Typed, TypedSock
<1>5. Owned'
    BY <1>1, <1>2, <1>3, OwnedFrame
<1>6. Following(e)' /\ Refused(e)' /\ HavingSocket(e)'
    BY <1>1, <1>2, <1>3 DEF Endpoint, Following, Refused, HavingSocket
<1>7. PICK o \in {"alive", "deleting", "deleted"} : object' = [object EXCEPT ![e] = o]
    BY <1>1
<1> QED
    BY <1>1, <1>3, <1>4, <1>5, <1>6, <1>7, OwnerKeeps

-----------------------------------------------------------------------------
(* The invariant *)

LEMMA InvNext == Inv /\ [Next]_vars => Inv'
<1> SUFFICES ASSUME Inv, [Next]_vars PROVE Inv'
    OBVIOUS
<1>1. CASE UNCHANGED vars
  <2>1. UNCHANGED <<object, status, socket, call, closing, file, sock, todo>>
      BY <1>1 DEF vars, epVars, userVars
  <2>2. \A e \in Endpoints : Endpoint(e)'
      BY <2>1, EndpointFrame DEF Inv
  <2>3. Typed' /\ Queued'
      BY <2>1, NothingIsGentle DEF Inv, Typed
  <2>4. Owned'
      BY <2>1, OwnedFrame DEF Inv
  <2> QED
      BY <2>2, <2>3, <2>4 DEF Inv
<1>2. ASSUME NEW e \in Present,
             \/ Create(e) \/ ThreadRuns(e) \/ KernelReturns(e)
             \/ OwnerCloses(e) \/ OwnerGoesOn(e) \/ OwnerReleases(e)
      PROVE  Inv'
  <2>0. e \in Endpoints
      BY DEF Present
  <2>1. CASE Create(e)
      BY <2>0, <2>1, CreateKeeps
  <2>2. CASE ThreadRuns(e)
      BY <2>0, <2>2, CallsKeep, EnterKeeps, GoesOnKeeps, FinishKeeps DEF ThreadRuns
  <2>3. CASE KernelReturns(e)
      BY <2>0, <2>3, ConnectKeeps, AcceptKeeps, RecvKeeps, SendKeeps, ShutdownKeeps DEF KernelReturns, Returns
  <2>4. CASE OwnerCloses(e)
      BY <2>0, <2>4, CloseBeginsKeeps DEF OwnerCloses
  <2>5. CASE OwnerGoesOn(e)
      BY <2>0, <2>5, CloseGivesBackKeeps, CloseResetsKeeps DEF OwnerGoesOn, CloseGoesOn
  <2>6. CASE OwnerReleases(e)
      BY <2>0, <2>6, DeleteKeeps
  <2> QED
      BY <1>2, <2>1, <2>2, <2>3, <2>4, <2>5, <2>6
<1> QED
    BY <1>1, <1>2 DEF Next, Quit

LEMMA Correct == Spec => []Inv
<1> QED
    BY InvInit, InvNext, PTL DEF Spec

\* No descriptor leaks and none is given back twice: NetEndpoint's constructors,
\* close(), reset() and accept agree at every moment with the kernel on whose a
\* descriptor is, for every number of endpoints and descriptors.
THEOREM DescriptorsCorrect == Spec => []DescriptorsAreOwned
<1>1. Inv => DescriptorsAreOwned
    BY DEF Inv, Owned, Endpoint, HavingSocket, DescriptorsAreOwned
<1> QED
    BY <1>1, Correct, PTL

\* getStatus() claims a connection or a listener only with a socket, except for an
\* endpoint that was closed between its ::connect and the assignment behind it.
THEOREM StatusCorrect == Spec => []ConnectedHasSocket
<1>1. Inv => ConnectedHasSocket
    BY DEF Inv, Endpoint, HavingSocket, ConnectedHasSocket
<1> QED
    BY <1>1, Correct, PTL

\* A thread that calls in the order of the network test is never refused with
\* INVALID_OP (and meets none of NetEndpoint's assertions on the status) unless
\* its owner closes the endpoint under its hands, or it has no socket.
THEOREM RefusalsCorrect == Spec => []RefusedOnlyWhenClosed
<1>1. Inv => RefusedOnlyWhenClosed
    BY DEF Inv, Endpoint, Refused, RefusedOnlyWhenClosed
<1> QED
    BY <1>1, Correct, PTL
=============================================================================
