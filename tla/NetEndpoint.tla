----------------------------- MODULE NetEndpoint -----------------------------
(***************************************************************************)
(* NetEndpoint (src/src/netendpoint.cpp) with its blocking calls.  One     *)
(* thread works on an endpoint; its owner may close it meanwhile, as the   *)
(* destructors of the network test do to end a thread that waits in recv   *)
(* or accept.  A call reads the status and the descriptor, enters the      *)
(* kernel with that descriptor some time later, and writes the status when *)
(* it is back: these are steps of their own.                               *)
(*                                                                         *)
(* The kernel is external.  A socket goes by the name of the endpoint that *)
(* has it or will have it once it is accepted; a descriptor is a number    *)
(* and, given back, is the lowest one free for the next socket.            *)
(***************************************************************************)
EXTENDS Naturals, Sequences, FiniteSets, FiniteSetsExt

CONSTANTS
    Tcp, Udp,       \* the endpoints of either protocol
    Accepted,       \* those of Tcp that accept makes
    Descriptors,    \* bound: the descriptors of the process
    Backlog,        \* connections that wait for accept
    None

ASSUME EndpointAssumption ==
    /\ Accepted \subseteq Tcp
    /\ Tcp \intersect Udp = {}
    /\ Descriptors \subseteq Nat
    /\ Backlog \in Nat \ {0}
    /\ None \notin Tcp \union Udp \union Descriptors

Endpoints == Tcp \union Udp

VARIABLES
    object,     \* "none", "alive", "deleting", "deleted"
    status,     \* Status
    socket,     \* Socket, None for INVALID_SOCKET
    call,       \* the call its thread is in
    closing,    \* how far close() has come
    file,       \* kernel: the socket behind a descriptor, or None
    sock        \* kernel: the sockets

epVars == <<object, status, socket, call, closing, file, sock>>

Idle == [at |-> "idle", op |-> "none", fd |-> None, on |-> None, to |-> None,
         data |-> <<>>, err |-> "SUCCESS"]

NoSocket == [phase |-> "none", peer |-> None, queue |-> <<>>, inbox |-> <<>>,
             fin |-> FALSE, rst |-> FALSE, rcut |-> FALSE, wcut |-> FALSE]

EndpointInit ==
    /\ object = [e \in Endpoints |-> "none"]
    /\ status = [e \in Endpoints |-> "INVALID"]
    /\ socket = [e \in Endpoints |-> None]
    /\ call = [e \in Endpoints |-> Idle]
    /\ closing = [e \in Endpoints |-> "no"]
    /\ file = [d \in Descriptors |-> None]
    /\ sock = [e \in Endpoints |-> NoSocket]

Free == {d \in Descriptors : file[d] = None}

-----------------------------------------------------------------------------
\* The constructor: without a descriptor the endpoint is invalid.
Open(e) ==
    /\ object[e] = "none"
    /\ object' = [object EXCEPT ![e] = "alive"]
    /\ \/ /\ Free # {}
          /\ file' = [file EXCEPT ![Min(Free)] = e]
          /\ socket' = [socket EXCEPT ![e] = Min(Free)]
          /\ status' = [status EXCEPT ![e] = "INIT"]
          /\ sock' = [sock EXCEPT ![e].phase = "open"]
       \/ /\ Free = {}
          /\ UNCHANGED <<file, socket, status, sock>>
    /\ UNCHANGED <<call, closing>>

Returned(e, op, err, data) ==
    [Idle EXCEPT !.at = "returned", !.op = op, !.err = err, !.data = data]

\* A call whose guard the status passes takes the descriptor along; another one
\* is refused (and asserted against).
Begins(e, op, to, data, permitted) ==
    /\ object[e] = "alive"
    /\ call[e].at = "idle"
    /\ call' = [call EXCEPT ![e] =
                  IF permitted THEN [Idle EXCEPT !.at = "called", !.op = op, !.fd = socket[e],
                                                 !.to = to, !.data = data]
                  ELSE Returned(e, op, "INVALID_OP", <<>>)]
    /\ UNCHANGED <<object, status, socket, closing, file, sock>>

\* listen: nobody else has the endpoint yet, so it is one step.  What fails before
\* bind has succeeded leaves the status.
listen(e) ==
    /\ object[e] = "alive"
    /\ call[e].at = "idle"
    /\ \/ /\ status[e] # "INIT"
          /\ call' = [call EXCEPT ![e] = Returned(e, "listen", "INVALID_OP", <<>>)]
          /\ UNCHANGED <<status, sock>>
       \/ /\ status[e] = "INIT"
          /\ \E err \in {"RESOLVE", "BIND"} :
               call' = [call EXCEPT ![e] = Returned(e, "listen", err, <<>>)]
          /\ UNCHANGED <<status, sock>>
       \/ /\ status[e] = "INIT" /\ e \in Tcp
          /\ call' = [call EXCEPT ![e] = Returned(e, "listen", "LISTEN", <<>>)]
          /\ status' = [status EXCEPT ![e] = "INVALID"]
          /\ sock' = [sock EXCEPT ![e].phase = "bound"]
       \/ /\ status[e] = "INIT"
          /\ call' = [call EXCEPT ![e] = Returned(e, "listen", "SUCCESS", <<>>)]
          /\ status' = [status EXCEPT ![e] = "LISTENING"]
          /\ sock' = [sock EXCEPT ![e].phase = IF e \in Tcp THEN "listening" ELSE "bound"]
    /\ UNCHANGED <<object, socket, closing, file>>

connect(e, to) ==
    \/ Begins(e, "connect", to, <<>>, status[e] = "INIT")
    \/ /\ object[e] = "alive" /\ call[e].at = "idle" /\ status[e] = "INIT"
       /\ call' = [call EXCEPT ![e] = Returned(e, "connect", "RESOLVE", <<>>)]
       /\ UNCHANGED <<object, status, socket, closing, file, sock>>

accept(e) == Begins(e, "accept", None, <<>>, e \in Tcp /\ status[e] = "LISTENING")

recv(e) == Begins(e, "recv", None, <<>>,
                  status[e] = IF e \in Tcp THEN "CONNECTED" ELSE "LISTENING")

recvFrom(e) == Begins(e, "recvFrom", None, <<>>,
                      e \in Udp /\ status[e] \in {"CONNECTED", "LISTENING"})

send(e, data) == Begins(e, "send", sock[e].peer, data, status[e] = "CONNECTED")

sendTo(e, to, data) == Begins(e, "sendTo", to, data, e \in Udp /\ status[e] = "CONNECTED")

shutdown(e) == Begins(e, "shutdown", None, <<>>, TRUE)

-----------------------------------------------------------------------------
(* The kernel *)

ErrorOf(op) ==
    CASE op = "connect" -> "CONNECT"
      [] op = "accept" -> "ACCEPT"
      [] op \in {"recv", "recvFrom"} -> "RECV"
      [] op \in {"send", "sendTo"} -> "SEND"
      [] op = "shutdown" -> "SHUTDOWN"

\* The system call begins: from here on the thread has the socket itself, whatever
\* happens to the descriptor.  A bad descriptor fails.
EnterKernel(e) ==
    /\ call[e].at = "called"
    /\ call' = [call EXCEPT ![e] =
                  IF call[e].fd # None /\ file[call[e].fd] # None
                    THEN [@ EXCEPT !.at = "kernel", !.on = file[call[e].fd]]
                    ELSE Returned(e, @.op, ErrorOf(@.op), <<>>)]
    /\ UNCHANGED <<object, status, socket, closing, file, sock>>

InKernel(e, ops) == call[e].at = "kernel" /\ call[e].op \in ops
On(e) == sock[call[e].on]

\* The call comes back, and changes nothing but sockets.
Back(e, err, data, sockets) ==
    /\ call' = [call EXCEPT ![e] = Returned(e, @.op, err, data)]
    /\ sock' = sockets
    /\ UNCHANGED <<object, status, socket, closing, file>>

Fails(e) == Back(e, ErrorOf(call[e].op), <<>>, sock)

\* The sockets after a shutdown of s in both directions or for writing only: the
\* other side sees the end, connections that wait for accept are reset.
ShutDown(s, both) ==
    LET waiting == IF both THEN {sock[s].queue[i] : i \in DOMAIN sock[s].queue} ELSE {}
        reset == {sock[a].peer : a \in waiting} IN
    [x \in Endpoints |->
        CASE x = s -> [sock[x] EXCEPT !.queue = IF both THEN <<>> ELSE @, !.rcut = @ \/ both, !.wcut = TRUE]
          [] x # s /\ x \in waiting -> [sock[x] EXCEPT !.phase = "closed"]
          [] x # s /\ x \in reset -> [sock[x] EXCEPT !.rst = TRUE]
          [] x # s /\ x \notin reset /\ x = sock[s].peer /\ s \in Tcp -> [sock[x] EXCEPT !.fin = TRUE]
          [] OTHER -> sock[x]]

\* A connection is made before anybody accepts it.
ConnectReturns(e) ==
    LET s == call[e].on
        to == call[e].to
        unused == {a \in Accepted : sock[a].phase = "none"} IN
    /\ InKernel(e, {"connect"})
    /\ \/ /\ s \in Tcp
          /\ On(e).phase = "open" /\ ~On(e).wcut
          /\ sock[to].phase = "listening" /\ ~sock[to].rcut
          /\ Len(sock[to].queue) < Backlog
          /\ unused # {}
          /\ LET a == CHOOSE a \in unused : TRUE IN
             sock' = [sock EXCEPT ![s].phase = "connected", ![s].peer = a,
                                  ![a].phase = "connected", ![a].peer = s,
                                  ![to].queue = Append(@, a)]
          /\ call' = [call EXCEPT ![e].at = "left"]
          /\ UNCHANGED <<object, status, socket, closing, file>>
       \/ /\ s \in Udp
          /\ sock' = [sock EXCEPT ![s].phase = "connected", ![s].peer = to]
          /\ call' = [call EXCEPT ![e].at = "left"]
          /\ UNCHANGED <<object, status, socket, closing, file>>
       \/ Fails(e)

\* Defect: the status is left as it is.
ConnectFinishes_NoStatus(e) ==
    /\ call[e].at = "left"
    /\ call' = [call EXCEPT ![e] = Returned(e, "connect", "SUCCESS", <<>>)]
    /\ UNCHANGED <<object, status, socket, closing, file, sock>>

\* connect goes on behind the system call, whatever close() has done meanwhile.
ConnectFinishes(e) ==
    /\ call[e].at = "left"
    /\ status' = [status EXCEPT ![e] = "CONNECTED"]
    /\ call' = [call EXCEPT ![e] = Returned(e, "connect", "SUCCESS", <<>>)]
    /\ UNCHANGED <<object, socket, closing, file, sock>>

\* The constructor of an accepted endpoint.
Named(a, s) ==
    /\ status' = [status EXCEPT ![a] = "CONNECTED"]
    /\ socket' = [socket EXCEPT ![a] = Min(Free)]
    /\ file' = [file EXCEPT ![Min(Free)] = a]
    /\ sock' = [sock EXCEPT ![s].queue = Tail(@)]

Unread(a) == sock[a].inbox # <<>>

\* Defect: it closes the socket and leaves the status.
Unnamed_StaysConnected(a, s) ==
    /\ status' = [status EXCEPT ![a] = "CONNECTED"]
    /\ sock' = [ShutDown(a, TRUE) EXCEPT ![s].queue = Tail(@), ![a].phase = "closed",
                                         ![sock[a].peer].rst = @ \/ Unread(a)]
    /\ UNCHANGED <<socket, file>>

\* One whose address cannot be told closes itself again.
Unnamed(a, s) ==
    /\ sock' = [ShutDown(a, TRUE) EXCEPT ![s].queue = Tail(@), ![a].phase = "closed",
                                         ![sock[a].peer].rst = @ \/ Unread(a)]
    /\ UNCHANGED <<status, socket, file>>

\* accept makes an endpoint of the first connection that waits and reports EE_SUCCESS
\* in any case.
AcceptReturns(e) ==
    LET s == call[e].on
        a == Head(On(e).queue) IN
    /\ InKernel(e, {"accept"})
    /\ \/ /\ On(e).queue # <<>> /\ Free # {}
          /\ object' = [object EXCEPT ![a] = "alive"]
          /\ call' = [call EXCEPT ![e] = Returned(e, "accept", "SUCCESS", <<a>>)]
          /\ Named(a, s) \/ Unnamed(a, s)
          /\ UNCHANGED closing
       \/ /\ (On(e).queue # <<>> /\ Free = {}) \/ On(e).rcut \/ On(e).phase # "listening"
          /\ Fails(e)

\* What has arrived, or nothing at the end of the stream.
RecvReturns(e) ==
    LET s == call[e].on IN
    /\ InKernel(e, {"recv", "recvFrom"})
    /\ \/ /\ On(e).inbox # <<>>
          /\ LET cnt == IF s \in Udp THEN 1 ELSE Len(On(e).inbox) IN
             Back(e, "SUCCESS", SubSeq(On(e).inbox, 1, cnt),
                  [sock EXCEPT ![s].inbox = SubSeq(@, cnt + 1, Len(@))])
       \/ /\ On(e).inbox = <<>> /\ ~On(e).rst
          /\ On(e).fin \/ On(e).rcut
          /\ Back(e, "SUCCESS", <<>>, sock)
       \/ /\ On(e).rst \/ (s \in Tcp /\ On(e).phase # "connected")
          /\ Fails(e)

\* A stream takes the data or breaks; a datagram arrives or is lost.
SendReturns(e) ==
    LET s == call[e].on
        to == IF call[e].op = "sendTo" THEN call[e].to ELSE On(e).peer IN
    /\ InKernel(e, {"send", "sendTo"})
    /\ \/ /\ to # None /\ ~On(e).wcut
          /\ s \in Tcp => ~On(e).rst /\ On(e).phase = "connected"
          /\ \/ Back(e, "SUCCESS", call[e].data,
                     IF sock[to].phase = "closed" THEN [sock EXCEPT ![s].rst = s \in Tcp]
                     ELSE [sock EXCEPT ![to].inbox = @ \o call[e].data])
             \/ s \in Udp /\ Back(e, "SUCCESS", call[e].data, sock)
       \/ /\ On(e).wcut \/ On(e).rst \/ to = None
          /\ Fails(e)

ShutdownReturns(e) ==
    /\ InKernel(e, {"shutdown"})
    /\ Back(e, "SUCCESS", <<>>, ShutDown(call[e].on, FALSE))

Returns(e) ==
    \/ ConnectReturns(e) \/ AcceptReturns(e) \/ RecvReturns(e)
    \/ SendReturns(e) \/ ShutdownReturns(e)

-----------------------------------------------------------------------------
(* close(), by the owner *)

\* Defect: whoever waits is not woken.
CloseBegins_NoShutdown(e) ==
    /\ object[e] \in {"alive", "deleting"}
    /\ closing[e] = "no"
    /\ status' = [status EXCEPT ![e] = "CLOSING"]
    /\ closing' = [closing EXCEPT ![e] = IF socket[e] = None THEN "closed" ELSE "shut"]
    /\ UNCHANGED <<object, socket, call, file, sock>>

\* The status, then ::shutdown in both directions.
CloseBegins(e) ==
    /\ object[e] \in {"alive", "deleting"}
    /\ closing[e] = "no"
    /\ status' = [status EXCEPT ![e] = "CLOSING"]
    /\ closing' = [closing EXCEPT ![e] = IF socket[e] = None THEN "closed" ELSE "shut"]
    /\ sock' = IF socket[e] = None \/ file[socket[e]] = None THEN sock ELSE ShutDown(file[socket[e]], TRUE)
    /\ UNCHANGED <<object, socket, call, file>>

\* ::close: what was not read makes the kernel reset the connection.
CloseGivesBack(e) ==
    LET s == file[socket[e]] IN
    /\ closing[e] = "shut"
    /\ closing' = [closing EXCEPT ![e] = "closed"]
    /\ file' = [file EXCEPT ![socket[e]] = None]
    /\ sock' = [x \in Endpoints |->
                  CASE x = s -> [sock[x] EXCEPT !.phase = "closed"]
                    [] s # None /\ x # s /\ s \in Tcp /\ x = sock[s].peer /\ Unread(s) ->
                         [sock[x] EXCEPT !.rst = TRUE]
                    [] OTHER -> sock[x]]
    /\ UNCHANGED <<object, status, socket, call>>

\* Defect: reset() forgets the descriptor.
CloseResets_KeepsSocket(e) ==
    /\ closing[e] = "closed"
    /\ closing' = [closing EXCEPT ![e] = "reset"]
    /\ status' = [status EXCEPT ![e] = "INVALID"]
    /\ object' = [object EXCEPT ![e] = IF @ = "deleting" THEN "deleted" ELSE @]
    /\ UNCHANGED <<socket, call, file, sock>>

\* reset().
CloseResets(e) ==
    /\ closing[e] = "closed"
    /\ closing' = [closing EXCEPT ![e] = "reset"]
    /\ status' = [status EXCEPT ![e] = "INVALID"]
    /\ socket' = [socket EXCEPT ![e] = None]
    /\ object' = [object EXCEPT ![e] = IF @ = "deleting" THEN "deleted" ELSE @]
    /\ UNCHANGED <<call, file, sock>>

CloseGoesOn(e) == CloseGivesBack(e) \/ CloseResets(e)

\* release: the destructor closes again, what is not closed yet or not forgotten.
Delete(e) ==
    /\ object[e] = "alive"
    /\ closing[e] \in {"no", "reset"}
    /\ object' = [object EXCEPT ![e] = IF socket[e] = None THEN "deleted" ELSE "deleting"]
    /\ closing' = [closing EXCEPT ![e] = IF socket[e] = None THEN "reset" ELSE "no"]
    /\ UNCHANGED <<status, socket, call, file, sock>>
=============================================================================
