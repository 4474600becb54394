------------------------------ MODULE AsyncIo ------------------------------
(***************************************************************************)
(* What an I/O multiplexer promises to the code that submits asynchronous  *)
(* operations, whatever the operating system facility behind it: an        *)
(* operation is queued on one direction of one endpoint, it completes in   *)
(* the order of its queue, and its callback is invoked once.  An endpoint  *)
(* whose connection breaks completes all it has queued at once; an         *)
(* endpoint that departs drops what it has queued without a callback.      *)
(*                                                                         *)
(* NetIoMux (the epoll implementation) is shown to implement this module.  *)
(***************************************************************************)
EXTENDS Naturals, Sequences, SequencesExt

CONSTANTS
    Endpoints,  \* the endpoints operations are submitted on
    MaxOps      \* bound: the number of operations ever submitted

Ops == 1 .. MaxOps
Directions == {"read", "write"}

VARIABLES
    issued,     \* how many operations were submitted: they are 1 .. issued
    home,       \* the endpoint and direction each operation was submitted on
    queue,      \* the operations waiting on each endpoint and direction
    done,       \* completed operations whose callback was not yet invoked
    answered,   \* operations whose callback was invoked
    dropped     \* operations that will never see their callback

vars == <<issued, home, queue, done, answered, dropped>>

Places == [ep : Endpoints, dir : Directions]
\* Where an operation that was not submitted yet is.
Nowhere == [ep |-> "nowhere", dir |-> "nowhere"]

Init ==
    /\ issued = 0
    /\ home = [o \in Ops |-> Nowhere]
    /\ queue = [p \in Places |-> <<>>]
    /\ done = <<>>
    /\ answered = {}
    /\ dropped = {}

\* An operation joins the end of the queue of its endpoint and direction.
Submit(p) ==
    /\ issued < MaxOps
    /\ issued' = issued + 1
    /\ home' = [home EXCEPT ![issued + 1] = p]
    /\ queue' = [queue EXCEPT ![p] = Append(@, issued + 1)]
    /\ UNCHANGED <<done, answered, dropped>>

\* The oldest operation of a queue completes.
Complete(p) ==
    /\ queue[p] # <<>>
    /\ done' = Append(done, Head(queue[p]))
    /\ queue' = [queue EXCEPT ![p] = Tail(@)]
    /\ UNCHANGED <<issued, home, answered, dropped>>

\* The connection of an endpoint broke: all its operations complete.
Abort(ep) ==
    LET rd == [ep |-> ep, dir |-> "read"]
        wr == [ep |-> ep, dir |-> "write"]
    IN  /\ done' = done \o queue[rd] \o queue[wr]
        /\ queue' = [queue EXCEPT ![rd] = <<>>, ![wr] = <<>>]
        /\ UNCHANGED <<issued, home, answered, dropped>>

\* The callback of the operation that completed first is invoked.
Answer ==
    /\ done # <<>>
    /\ answered' = answered \union {Head(done)}
    /\ done' = Tail(done)
    /\ UNCHANGED <<issued, home, queue, dropped>>

\* The endpoint leaves: its queues are deleted with their operations.
Drop(ep) ==
    LET rd == [ep |-> ep, dir |-> "read"]
        wr == [ep |-> ep, dir |-> "write"]
    IN  /\ dropped' = dropped \union ToSet(queue[rd]) \union ToSet(queue[wr])
        /\ queue' = [queue EXCEPT ![rd] = <<>>, ![wr] = <<>>]
        /\ UNCHANGED <<issued, home, done, answered>>

Next ==
    \/ \E p \in Places : Submit(p) \/ Complete(p)
    \/ \E ep \in Endpoints : Abort(ep) \/ Drop(ep)
    \/ Answer

Spec == Init /\ [][Next]_vars

-----------------------------------------------------------------------------
TypeOK ==
    /\ issued \in 0 .. MaxOps
    /\ home \in [Ops -> Places \union {Nowhere}]
    /\ queue \in [Places -> Seq(Ops)]
    /\ done \in Seq(Ops)
    /\ answered \in SUBSET Ops
    /\ dropped \in SUBSET Ops

Queued(o) == \E p \in Places : o \in ToSet(queue[p])

\* Every operation submitted is in one place and in it once: it waits in the queue
\* of its own endpoint and direction, or it completed and waits for its callback,
\* or its callback was invoked, or it went with its endpoint.  A completion that
\* keeps the queue, a callback invoked twice or an operation that is forgotten
\* breaks it.
AccountedOnce ==
    /\ \A o \in Ops : o <= issued <=>
         Queued(o) \/ o \in ToSet(done) \union answered \union dropped
    /\ \A o \in Ops : Queued(o) => o \notin ToSet(done) \union answered \union dropped
    /\ ToSet(done) \intersect (answered \union dropped) = {}
    /\ answered \intersect dropped = {}
    /\ IsInjective(done)
    /\ \A p \in Places : IsInjective(queue[p]) /\ \A o \in ToSet(queue[p]) : home[o] = p

\* How far an operation got, and where in its sequence it is.
Precedes(first, second) ==
    \/ first \in answered
    \/ first \in ToSet(done) /\ Queued(second)
    \/ \E i, j \in DOMAIN done : i < j /\ done[i] = first /\ done[j] = second
    \/ \E i, j \in DOMAIN queue[home[first]] :
          i < j /\ queue[home[first]][i] = first /\ queue[home[first]][j] = second

\* Two operations submitted on one direction of one endpoint never overtake each
\* other, from the queue to the callback: the second is not answered before the
\* first.  Recv buffers are filled, and acknowledged, in the order they were given.
InOrder ==
    \A first, second \in 1 .. issued :
      /\ first < second /\ home[first] = home[second]
      /\ {first, second} \intersect dropped = {}
      => Precedes(first, second)
=============================================================================
