---------------------------- MODULE SyncNetwork ----------------------------
(***************************************************************************)
(* Endpoints at work, as tests/network/sync_server.cpp and sync_client.cpp *)
(* put them: a server thread accepts, one thread per connection answers    *)
(* each message, clients send and wait for the answer; the owner of any of *)
(* them may close it at any moment, waits for its thread and releases it.  *)
(* Beside them one UDP endpoint receives from another.                     *)
(***************************************************************************)
EXTENDS NetEndpoint

CONSTANTS
    Servers,    \* endpoints that listen: one of either protocol at most
    Clients,    \* endpoints that connect
    Scenes,     \* who takes part in a behavior, and who may be closed under its thread's hands
    Rounds      \* bound: messages of a client

\* Who listens and who connects is made by its constructor, and the others by accept;
\* there is a server to connect to.
ASSUME NetworkAssumption ==
    /\ Servers \union Clients \subseteq Endpoints
    /\ Servers \intersect Clients = {}
    /\ Accepted \intersect (Servers \union Clients) = {}
    /\ \A c \in Clients : \E s \in Servers : (s \in Tcp) = (c \in Tcp)

VARIABLES
    scene,
    todo,       \* what the thread of an endpoint does next
    sent        \* messages a thread has handed over

userVars == <<scene, todo, sent>>
vars == <<epVars, userVars>>

Present == Endpoints \intersect scene.present
ServerOf(e) == CHOOSE s \in Servers : (s \in Tcp) = (e \in Tcp)

Init ==
    /\ EndpointInit
    /\ scene \in Scenes
    /\ todo = [e \in Endpoints |-> CASE e \in Servers -> "listen"
                                     [] e \in Clients -> "connect"
                                     [] OTHER -> "recv"]
    /\ sent = [e \in Endpoints |-> 0]

Create(e) ==
    /\ e \in Servers \union Clients
    /\ Open(e)
    /\ UNCHANGED userVars

Message(e) == << <<e, sent[e] + 1>> >>

\* The thread's next call.
Calls(e) ==
    /\ CASE todo[e] = "listen" -> listen(e)
         [] todo[e] = "connect" -> connect(e, ServerOf(e))
         [] todo[e] = "accept" -> accept(e)
         [] todo[e] = "recv" -> recv(e)
         [] todo[e] = "recvFrom" -> recvFrom(e)
         [] todo[e] = "send" -> send(e, Message(e))
         [] todo[e] = "sendTo" -> sendTo(e, ServerOf(e), Message(e))
         [] todo[e] = "shutdown" -> shutdown(e)
         [] OTHER -> FALSE
    /\ UNCHANGED userVars

EntersKernel(e) == EnterKernel(e) /\ UNCHANGED userVars

\* What the thread does next when its call has returned.
After(e) ==
    LET c == call[e]
        gotNothing == c.data = <<>> IN
    CASE c.err # "SUCCESS" -> {"end"}
      [] c.err = "SUCCESS" /\ c.op = "listen" -> IF e \in Tcp THEN {"accept"} ELSE {"recv", "recvFrom"}
      [] c.err = "SUCCESS" /\ c.op = "connect" -> IF e \in Tcp THEN {"send"} ELSE {"send", "sendTo"}
      [] c.err = "SUCCESS" /\ c.op = "accept" -> {"accept"}
      [] c.err = "SUCCESS" /\ c.op \in {"send", "sendTo"} -> IF e \in Tcp THEN {"recv"} ELSE {"end"}
      [] c.err = "SUCCESS" /\ c.op \in {"recv", "recvFrom"} ->
           IF gotNothing THEN {"end"}
           ELSE IF e \in Clients THEN IF sent[e] < Rounds THEN {"send"} ELSE {"shutdown", "end"}
           ELSE IF e \in Tcp THEN {"send"} ELSE {"recv", "recvFrom"}
      [] c.err = "SUCCESS" /\ c.op = "shutdown" -> {"recv"}

GoesOn(e) ==
    /\ call[e].at = "returned"
    /\ call' = [call EXCEPT ![e] = Idle]
    /\ todo' \in {[todo EXCEPT ![e] = t] : t \in After(e)}
    /\ sent' = [sent EXCEPT ![e] = IF call[e].op \in {"send", "sendTo"} /\ call[e].err = "SUCCESS"
                                     THEN @ + 1 ELSE @]
    /\ UNCHANGED <<object, status, socket, closing, file, sock, scene>>

ThreadRuns(e) ==
    \/ Calls(e) \/ EntersKernel(e) \/ GoesOn(e)
    \/ ConnectFinishes(e) /\ UNCHANGED userVars

KernelReturns(e) == Returns(e) /\ UNCHANGED userVars

\* The destructors: close, join, release, the server's at the latest when everybody
\* else is gone; create() releases at once what cannot listen.
OwnerCloses(e) ==
    /\ \/ e \in scene.closed
       \/ object[e] = "deleting"
       \/ e \in Servers /\ \A x \in Present \ {e} : object[x] \in {"none", "deleted"}
    /\ CloseBegins(e)
    /\ UNCHANGED userVars
OwnerGoesOn(e) == CloseGoesOn(e) /\ UNCHANGED userVars
OwnerReleases(e) ==
    /\ todo[e] = "end"
    /\ Delete(e)
    /\ UNCHANGED userVars

Quit == (\A e \in Present : object[e] \in {"none", "deleted"}) /\ UNCHANGED vars

Next ==
    \/ \E e \in Present :
         \/ Create(e) \/ ThreadRuns(e) \/ KernelReturns(e)
         \/ OwnerCloses(e) \/ OwnerGoesOn(e) \/ OwnerReleases(e)
    \/ Quit

\* The scheduler runs every thread that can run and the kernel returns from every
\* call that can return; that anybody closes an endpoint is not promised.
Fairness ==
    \A e \in Endpoints :
        /\ WF_vars(e \in Present /\ ThreadRuns(e))
        /\ WF_vars(e \in Present /\ KernelReturns(e))
        /\ WF_vars(e \in Present /\ OwnerGoesOn(e))

Spec == Init /\ [][Next]_vars /\ Fairness

-----------------------------------------------------------------------------
\* No descriptor leaks and none is given back twice: the socket behind a descriptor
\* is that of the endpoint which remembers it, and what an endpoint remembers is
\* its own, whatever was closed and opened again meanwhile (close, reset, accept
\* and the destructor that closes once more).
DescriptorsAreOwned ==
    /\ \A d \in Descriptors : file[d] # None => socket[file[d]] = d
    /\ \A e \in Endpoints : socket[e] # None /\ closing[e] # "closed" => file[socket[e]] = e
    /\ \A e \in Endpoints : object[e] = "deleted" => socket[e] = None

\* getStatus() of an endpoint without a socket does not pretend a connection, also
\* where accept had to close what it had accepted; except one which its owner has
\* closed between the ::connect of its thread and the assignment of the status
\* behind it: that one stays CONNECTED.
ConnectedHasSocket ==
    \A e \in Endpoints : status[e] \in {"CONNECTED", "LISTENING"} /\ socket[e] = None =>
      e \in Clients /\ closing[e] = "reset"

\* The assertions of NetEndpoint on its status: a thread that connects, listens and
\* accepts before it sends and receives is refused only if its owner has closed the
\* endpoint under its hands, or if the endpoint never had a socket: there was no
\* descriptor left for it, or accept has returned one it had to close.
RefusedOnlyWhenClosed ==
    \A e \in Endpoints : call[e].err = "INVALID_OP" =>
      closing[e] # "no" \/ object[e] = "deleting" \/ socket[e] = None

\* A thread that waits in accept or recv is released by close() from another
\* thread, so that join comes to an end; except one that had read the descriptor
\* and enters the kernel with whatever is behind it by then.
CloseReleasesThread ==
    \A e \in Endpoints :
      (object[e] = "alive" /\ closing[e] = "reset")
        ~> (todo[e] = "end" \/ (call[e].at = "kernel" /\ call[e].on # e))
=============================================================================
