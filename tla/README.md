# libxpf: a formal model

libxpf is a C++ library of cross-platform building blocks: an asynchronous network
multiplexer, two memory allocators, threads with events and locks, coroutines, network
endpoints and a set of conversions. This directory holds TLA+ modules of its parts, the
configurations that check them with TLC, and theorems checked with TLAPS. Paths below are
relative to the repository; `epoll` stands for `src/platform/netiomux_epoll.hpp`.

## 1. Inventory

| Component | State it keeps | Operations | What is hard about it |
|---|---|---|---|
| NetIoMux (`netiomux.h`, `src/netiomux.cpp`, `src/platform/netiomux_*.hpp`) | ready list, completion list, enable flag; per endpoint an `AsyncContext`: two queues of operations, a ready flag, a lock; the epoll interest | `asyncRecv/Send/RecvFrom/SendTo/Accept/Connect`, `join`, `depart`, `enable`, `disable`, `run`, `runOnce` | several threads in `runOnce` while any thread submits; one-shot events; a broken connection against queued operations; order and uniqueness of answers |
| NetEndpoint (`src/netendpoint.cpp`) | status, socket, last error, user data, the context pointer | `connect`, `listen`, `accept`, `send`, `recv`, `shutdown`, `close` | status after a call that fails half way; the multiplexer writes the same status |
| BuddyAllocator (`src/allocators.cpp`) | a flag per block, a free chain per tier, bytes in use, high-water mark | `alloc`, `calloc`, `dealloc`, `free`, `realloc`, `available` | recursive splitting and merging; an address alone does not name a block |
| LinearAllocator (`src/allocators.cpp`) | top of the stack, newest cell, a record in front of each cell | `alloc`, `calloc`, `free`, `realloc`, `reset` | cells freed below the top; the roll back over them |
| Slots, STL allocator (`allocators.h`) | a table of allocators | `create`, `destory`, `instance` | a pool pointer cached over `destory` |
| Thread (`src/thread.cpp`, `src/platform/thread_*.hpp`) | status, abort flag, a start and a finish event, exit code | constructor, `start`, `join`, `requestAbort`, destructor | the order of status and events in two threads; abort and delete at a bad moment |
| ThreadEvent (`src/platform/threadevent_*.hpp`) | a flag under a mutex, a condition | `set`, `reset`, `wait` | the flag read outside the mutex; a wait that does not look again |
| ThreadLock (`src/platform/threadlock_*.hpp`) | a recursive mutex, an owner field | `lock`, `tryLock`, `unlock`, `isLocked`, `getOwner` | the owner field written outside the mutex |
| Coroutine (`src/platform/coroutine_*.hpp`) | per thread: the slots, the main and the current context | `InitThreadForCoroutines`, `CreateCoroutine`, `SwitchToCoroutine`, `DeleteCoroutine` | who is current when a switch comes back; the shutdown frees the stack it runs on |
| RefCounted (`refcnt.h`), TLS (`tls.h`, `src/platform/tls_*.hpp`) | a counter, a floating flag; a key, a map under a lock | `ref`, `unref`; `TlsGet`, `TlsSet`, `TlsMap` | a counter shared by threads |
| Conversions (`base64.cpp`, `utfconv.cpp`, `getopt.cpp`, `uuidv4.cpp`, `string.h`, `lexicalcast.h`) | none, or a cursor | pure functions | truncated input, boundaries |

Interaction. Every lock in the library is a `ThreadLock`; the multiplexer uses one per context
and one per list (`netiomux_syncfifo.hpp`). The lock of a list is taken inside the lock of a
context and never the other way. A worker thread in `run()` calls the callback of an answered
operation with no lock held, and the callback submits again. The multiplexer writes the status
of the endpoints, and an accept creates an endpoint that joins at once. A `Thread` is built on
two `ThreadEvent`s. Coroutines belong to the thread that initialized itself for them, and may end
it (`pthread_exit`) under its `Thread` object. A `NetEndpoint` used without a multiplexer blocks in
the kernel; `close` from another thread is how it is released. The allocators and the conversions
have no lock and are used by one thread.

What makes each part correct:
* the multiplexer: an operation is answered once, in the order of its queue; a queued operation
  is never forgotten; under the use the tests make of it no assertion fails unless a system call
  was refused; an operation the network lets through is answered;
* the allocators: blocks in use are disjoint, large enough and inside the chunk, whatever was
  allocated and freed before; what is freed can be used again; counters say what is in use;
* threads: nothing touches a deleted object, the status only moves forward, a thread that was
  started can be joined; the lock keeps threads apart and its owner field does not outlive it;
* coroutines: a switch returns to its caller with the caller current; no context is used after
  it was freed, and a shutdown leaves none behind;
* endpoints: a descriptor belongs to one endpoint; status and socket agree; a thread that waits in
  the kernel is released by `close`;
* conversions: the result is what the standard or the header says, in the size announced, for any
  input; a source is never read past its end.

## 2. Modules

| Module | What it is | Composed with |
|---|---|---|
| `NetIoMux` | the epoll multiplexer, its endpoints' status, the network and the application | implements `AsyncIo` |
| `AsyncIo` | what a multiplexer promises: operations wait in order on a direction of an endpoint, complete, are answered once or dropped | |
| `NetEndpoint` | the blocking operations of an endpoint and the kernel's sockets and descriptors | part of `SyncNetwork` |
| `SyncNetwork` | a server, its connections and clients, as `tests/network` has them, and two UDP endpoints | `NetEndpoint` |
| `BuddyAllocator`, `LinearAllocator` | the two allocators | implement `BlockAllocator` |
| `BlockAllocator` | what an allocator promises: the regions handed out do not overlap and have room for what was asked | |
| `Thread` | `Thread` on POSIX with its two events, and its owner's calls | part of `Threading` |
| `ThreadLock` | the recursive lock with its owner field, on POSIX | part of `Threading` |
| `Coroutine` | the coroutines of a thread, on POSIX contexts | part of `Threading` |
| `Threading` | threads that add to a sum under the lock, as `tests/threading` does, or work with coroutines | `Thread`, `ThreadLock`, `Coroutine` |
| `Base64`, `UtfConv`, `Uuid`, `GetOpt`, `XpfString`, `Printf`, `LexicalCast` | the conversions, as operators | used by `Conversions` |
| `Conversions` | one job at a time from bounded inputs, and what its outcome has to be | the seven above |
| `NetIoMux_proofs`, `AsyncIo_proofs` | theorems about the multiplexer | the first instantiates the second for the refinement |
| `Threading_proofs`, `Coroutine_proofs` | theorems about threads, the lock and coroutines; lemmas about coroutines | |
| `SyncNetwork_proofs` | theorems about blocking endpoints | |
| `BuddyAllocator_proofs`, `LinearAllocator_proofs` | theorems about the two allocators, that each implements `BlockAllocator` among them | |
| `Base64_proofs` | theorems about `encode` and `decode` | |
| `MCNetIoMux`, `MCBuddyAllocator`, `MCLinearAllocator`, `MCThreading`, `MCSyncNetwork` | symmetry and constant definitions for TLC | |

Definitions whose name ends in an underscored word and whose comment starts with "Defect:" are
not part of the models: each is a wrong version of the definition that follows it, kept to show
that the properties notice it.

### NetIoMux

One action per step a thread can be interrupted at. `runOnce` is split where another thread can
see it: the pop of the completion list with its callback (`Emit`), the pop of the ready list
(`PopReady`, which happens before the context is locked: `Enter`), each attempt at an operation
(`PerformRead`, `PerformWrite`: `performIoLocked` pushes what it completed on the shared
completion list), the arming of epoll with the unlock (`Rearm`), `epoll_wait` (`EpollWait`), and
each event it returned (`Dispatch`). A submission is one step: it runs under the context's lock
and the list's own lock. `armed` is the one-shot interest of the kernel; an event disarms it.

Data is abstracted. A buffer is not represented; a socket is readable, writable or broken, and
the actions of the network change that at any time. `Transfer` keeps the socket ready or drains
it. The outcome of `errno` after a `getsockopt` that succeeded (`epoll:759`) is either value.
`xpfAssert` stops the program when `Asserts` holds and is nothing otherwise; both builds are
checked. `Signals` lets a signal interrupt `epoll_wait`. `Faults` lets the system refuse what the
code asserts it grants: `epoll_ctl` when an endpoint is armed (`RearmFails`, `epoll:253-260`;
without the assertion its operations are left unarmed, which `refused` records), and the name of the
peer of an accepted socket, whose endpoint closes itself and cannot join (`AcceptAsserts`,
`epoll:594` with `:438` and `netendpoint.cpp:127-139`; without the assertions the accept is
answered with an endpoint that is INVALID). The assertions of `getsockopt` (`epoll:750`) and of
`fcntl` and `epoll_ctl` in the application's own `join` and `depart` (`:438`, `:451`, `:478`) are left
out: they fail only on a descriptor that is not open, and the application joins open endpoints. The
application submits operations that suit the status of the endpoint, at most `MaxOutstanding` of
them unanswered per endpoint, closes an endpoint with nothing unanswered, and departs endpoints when no thread is inside `run()`, which is how the tests use it.

### NetEndpoint, SyncNetwork

A call is two or three steps: the checks and the read of `Socket` (`listen`, `recv`, `send` and so
on), the entry into the kernel with that descriptor (`EnterKernel`), and the return (`Returns`),
when the kernel can give one. Between them another thread may close the endpoint, and the kernel
may give its descriptor to the next socket: descriptors are numbers and the lowest free one is
used, so this happens in the runs. `close` is three steps (status and `shutdown`, `::close`, the
fields). An `accept` whose new endpoint cannot name its peer closes it; a `connect` that fails leaves
the status INIT and the socket open, as does a `listen` that cannot bind, and one refused by
`::listen` itself leaves the status INVALID and the socket open. The kernel is not
part of the repository: its sockets have what the endpoints can tell apart (a state, what was
received, whether either side has ended), and it may refuse any call that can be refused.
`SyncNetwork` puts a thread at each endpoint that goes by the result of its last call, and an owner
that closes it at a moment of its own, waits for the thread and releases the object. `Scenes` says
which endpoints take part in a behaviour and which of them may be closed under their thread's hands.

### BuddyAllocator, LinearAllocator

The allocators have no lock and each call is one step, recursion included. A block of the buddy
allocator is the sequence of bits that leads to it from the whole chunk, so the buddy differs in
the last bit and the parent drops it; sizes are a function of the tier. The free chains are
sequences, in the order the code links them. The cells of the linear allocator are the records
in the chunk by offset, with the freed flag and the offset of the cell before; arithmetic is
modulo `Word`. Calls that return NULL change nothing and are not steps. `discipline` says how
the application uses a linear allocator: "stack" frees the newest pointer first, "arena" frees
nothing before `reset` (but may call `realloc`), "any" is unrestricted.

### Thread, ThreadLock, Coroutine, Threading

`body` is where the pthread is in `exec`, `owner` where the owner is in a call on the object. A
wait with a timeout is three steps, as in the code: a look at the flag without the mutex
(`TimedJoin`), the sleep on the condition with no second look (`WaitFinished`), and the time-out
or the wake-up, which `SetFinished` gives only to an owner already asleep. Deletion is two steps,
because the derived part of the object is destroyed before `~Thread` joins. `sawEnd` is a history
variable for one property. The owner calls `start` once. Threads in `Careless` are also used in
ways the tests avoid: an abort request before `run` is entered, the delete of an object never
started, a wait for the start event that ends unsignalled.

`ThreadLock` splits `lock` and `unlock` between the call on the mutex and the write of the
owner field, which are separate in the code (`threadlock_posix.hpp:58`, `:77`). In `Threading` a
thread takes the lock only inside its `run`, up to `MaxDepth` levels, and reads and writes the
sum in two steps. `Quit` is the end of the test; with it deadlock is checked.

A coroutine of `Coroutine` is a context: a number of a piece of memory, which is used again after
it was freed. `Manager(t)` is what the thread finds under the shared key: the main and the current
context and the slots. `heap` holds the coroutine each context has saved, `running` what a thread
really executes; `swapcontext` exchanges the two (`Swap`), and the property relates them to what
the manager believes. The creation of the key takes three steps because nothing protects its flag
(`coroutine_posix.hpp:48`), the shutdown three because it frees the stack it runs on (`:260`).
A body that returns ends its thread. In `Threading` a thread has one kind of work, and what ends
the thread inside `run` also ends `exec` of its object (`ExitInRun`).

### Conversions

The conversions are functions. A behaviour of `Conversions` chooses a job from the sets at the top
of the module, converts it in one step, and the property of its kind compares the outcome with a
definition that does not follow the code: place values for Base64 and for the digits of numbers,
the ranges of the Unicode encoding forms, the rules of ISO C for a directive of `printf`, maximal
runs for `split`. `int` and `long` are `IntBits` and `LongBits` wide, 20 and 28 in the runs for 32 and
64 in the builds, because the integers of TLC have 32 bits; `short` and `char` have their own width.
The negation of the lowest value of a type overflows (`string.h:112`, `:171`): of the undefined
outcomes the model has those that builds were seen to produce, the value unchanged with its digits
below '0' and the right text, and chooses one of them in each behaviour (`wraps`). A command line is a
sequence of items each of which says what it means;
`xgetopt_long` is called until it returns -1, step by step, and then once more on the permuted line
after `xoptreset`; two of the long options store through their `flag`. A null that `xgetsubopt`
writes over a comma is a character of the text that the next call sees. Buffers are sequences followed
by foreign memory, so that a read past the end shows (`seen`). Texts are sequences of
units, characters are strings of one letter. The argument of
`%f` is a number of ten-millionths or infinite; the six decimals that `sprintf` writes of it
(`FloatText`) are the C library's, and what the code does with them is the model's.

## 3. Runs

| Run | Question | Result |
|---|---|---|
| `mux_single` | two workers, two endpoints, four kinds of operations, one unanswered operation per endpoint, signals and refused system calls: is any assertion or valid operation at risk? | assertions only where a system call was refused (1.9 million states) |
| `mux_pipelined` | the same with two unanswered operations: do flag and list agree, does a connect keep its operation, until an assertion fails? | yes; implements `AsyncIo` (2.1 million states) |
| `mux_ndebug` | no assertions, pipelined operations, interrupted waits, refused calls, stops, restarts, departures: is an operation lost, reordered, answered twice? | no, but for an endpoint whose own `epoll_ctl` was refused; implements `AsyncIo` (0.5 million states) |
| `mux_live` | is an operation the network lets through answered? | yes |
| `mux_duplex` | does epoll report only endpoints that are not ready ("Expecting non-ready ep in epoll_wait.", `epoll:285`)? | **no**: two reads on one endpoint are enough |
| `sync_network` | blocking calls against a close from another thread and descriptors used again: who owns a descriptor, what does the status say, does a waiting thread get out? | as the properties say (0.15 million states) |
| `buddy` | any sequence of calls on four tiers with up to four pointers | flags, chains and counters stay consistent; implements `BlockAllocator` |
| `linear` | the two disciplines on a chunk of six units | cells stay; implements `BlockAllocator` |
| `linear_anyorder` | does the roll back stop at the "next top-most cell which is still alive" (`allocators.cpp:762`)? | **no**: free the newest of three cells, then the oldest |
| `threading` | two threads, one of them careless, with a lock two levels deep, or with coroutines on three contexts | nothing lost, nothing used after delete, current is what runs, started threads are joined (0.5 million states) |
| `threading_abort` | does a timed join return false only when "this thread is still running" (`thread.h:63`)? | **no**: not after an abort request that came before `run` |
| `conversions` | is every conversion what its definition says? | yes, with the exceptions named in the properties (0.5 million states) |

Bounds. Two workers and two endpoints show every race of two threads on one context and every
interference through the shared lists; a third worker would be at the same program points as
one of the two. `MaxOps = 2` is enough for a queue with a second operation behind the first, for
both directions of one endpoint, and for one operation each on two endpoints; `mux_live` uses
three. `MaxReadyLen = 1` makes the skip of `epoll_wait` happen with two listed endpoints.
`mux_ndebug` has one endpoint, listed twice at times; two would be too many for TLC together with stops
and departures. So no run reaches the accept that is answered with a closed endpoint when assertions
are off; `WakeupsKept` and `Refinement` (section 4) cover it. Workers and endpoints are symmetric; no
symmetry is used for liveness.

`sync_network` has three descriptors for three sockets of TCP, so that a closed one is given out
again, a backlog of one connection and one message per client; a scene with TCP and one with UDP,
because the two meet nowhere but in the descriptors. Four tiers give two levels of splitting and
merging between the whole chunk and the smallest block; sizes 0, 2, 3 and 9 fall below, on and
between tier sizes. 48 bytes hold three cells, the smallest number at which the roll back can go
wrong. Three contexts are a main coroutine and one other for one thread while the second thread
has its main one, or two others for one of them: enough to free a context and see the other
thread take it. A thread with coroutines is let alone by its owner until `run` ends
(`LeavesAlone`), which keeps the two halves from multiplying.

The inputs of `conversions` are chosen at the boundaries: 0 to 4 bytes for groups of three, code
points on both sides of each length of UTF-8 and of the surrogates, buffers of 0 to 5 units, every
set of flags of `printf` in two orders, with and without width and precision, in the format or by
arguments, negative ones too, values at the limits of the type a length names (and between them) for
`printf` and at both limits of each integral type for `lexical_cast`, command lines of up to three
items of every kind, "--" included.

Fairness. `mux_live` assumes that each worker thread goes on (weak fairness of its whole
`RunOnce` loop) and nothing of the network; an operation must be answered only once its socket
is ready. `Threading` assumes that a thread able to run does, that a wait with a timeout ends,
and that the owner goes on polling `join`, as `threading_test.cpp:124` does. Taking the lock has
weak fairness only: each thread of the instance takes it a bounded number of times. Nothing is
assumed of coroutines, which are cooperative. `SyncNetwork` assumes that threads run, that the
kernel returns from a call that can return, and that a `close` that began goes on; nobody has to
connect, send or close.

Deadlock is checked in every run but one: the multiplexer can always go on, the allocators can
always be called, threads and endpoints end in `Quit`. In `conversions` a job is done when it is
done.

## 4. Proofs

Everything is proved for every value of the constants the modules' assumptions allow.

`NetIoMux_proofs`, for every set of endpoints and workers, every bound and every discipline of the
application:

* `TypeCorrect`: `Spec => []TypeOK`. Inductive with `CurIsEndpoint`: a thread past the pop holds
  an endpoint.
* `ReadyListCorrect`: `Asserts => (Spec => []ReadyMeansListedOnce)`. The ready flag, the ready
  list and the threads between the pop and the lock agree: a flagged endpoint is in exactly one
  of those places, once. The invariant `Inv` adds to the property that only contexts that exist
  are ready, listed, armed, reported or held (`ContextsExist`): without it a departure or the
  creation of an endpoint by an accept could meet a stale entry of the list. The steps that
  matter are the submission, the pop, the lock, the event and the departure; all the others are
  dismissed by one lemma (`InvFrame`). The assumption is needed: without assertions an event may
  list an endpoint twice, which `mux_ndebug` reaches.

In the same module, for every set of endpoints and workers, every number of operations, with or
without assertions, signals, stops and departures, and under no other hypothesis:

* `Refinement`: `Spec => ImplementsAsyncIo`. A step of the multiplexer is a submission, a
  completion, an abort of all an endpoint has queued, an answer, or a departure of `AsyncIo`, or a
  stutter. The mapping is written twice, with `AsyncIo` and with `AsyncIo_proofs` in its place, so
  that the inductive invariant of `AsyncIo_proofs` is available along the way: an accept creates
  the context of its new endpoint, whose queues must be empty (`EmptyUnlessJoined`).
* `AnsweredInOrder`: what `AsyncIo` promises its callers, carried over to the multiplexer.
* `WakeupsKept`: `Spec => []NoLostWakeup`. One-shot events, the skip of `epoll_wait`, a signal that
  interrupts it, a stop and a call that was refused for another endpoint all leave a queued
  operation where someone will find it. The property excepts an endpoint from the moment its own
  `epoll_ctl` was refused until it is armed again.

Also there, for every number of endpoints and workers, if the application has at most
one unanswered operation per endpoint, assertions are compiled in, and no endpoint is closed or
departs and the multiplexer is not disabled meanwhile (`Asserts`, `~CanStop`,
`MaxOutstanding = 1`), with or without signals and refused calls:

* `AssertionsHold`, `SuitableOpsAreTaken`, `StatusIsAccountedFor`: `OnlyRefusalsAssert`,
  `ValidOpsNotRejected` and `StatusHasItsOperation`. That the assertions fail where `epoll_wait`,
  `epoll_ctl`, `getsockname` or the join of a closed endpoint is refused is in the model and no part
  of what is denied: those on the ready flag and on the status never fail. The hypotheses are those of the run
  `mux_single`; `mux_duplex` shows that two operations are too many for the first. Each of the
  three looks at one flag and one status, but none can be proved from so little. The invariant
  `Orderly` says that an endpoint is in one place (ready, locked, watched, or among the events of
  one thread), that epoll watches it only for an operation that would have blocked, and that its
  status is the one this operation expects or has brought about.

`AsyncIo_proofs`, for every set of endpoints and every number of operations (a natural number, a
hypothesis of each theorem):

* `TypeCorrect`, `OrderKept` and `EachAccountedOnce`: what a multiplexer promises implies that
  operations of one direction never overtake each other on the way to their callbacks, and that
  each is in one place, once. `AsyncIo` speaks of queues, the theorems of the caller's view.
  The invariant (`Inv`, in five parts) says that answers, completions and queues are, place by
  place, one increasing sequence (`Sorted`). That an operation is nowhere twice is not a part of
  it: a second copy would have to be less than itself. The invariant is stated of six values
  rather than of the variables, so that an abort and a departure are proved as two halves, one
  for each queue (`FlushKeeps`, `DiscardKeeps`).

`Threading_proofs`, for every finite set of threads, every depth of the lock and every work:

* `OwnerCorrect`, `QuietCorrect`: the owner field of the lock. The invariant `LockInv` follows a
  thread through the four places of `inLock`; a thread that has given the mutex up and not yet
  cleared the field is the reason why the properties speak of settled threads.
* `SumCorrect`: no addition is lost. `SumInv` adds that a thread with a loaded value holds the
  mutex and that its value is still the sum; the sum as a cardinality follows from the facts
  about finite sets of the library.
* `DeleteCorrect`, `StatusCorrect`: `ThreadInv` ties the status, the two events, the place of the
  pthread and the place of the owner together for the threads outside `Careless`. That every step
  of `Threading` is a step of `Thread` or leaves it alone is the lemma `ThreadMoves`.
* `CurrentCorrect`, `SlotsCorrect`: a thread is told the coroutine that runs, and the slots are its
  memory. The invariant is `CoroutineInv` of `Coroutine_proofs`, with one lemma per operation;
  `CoroutinesMove` says that every step of `Threading` is one of them or leaves them alone. Like
  the properties it promises nothing once two threads have both created the key (`OneKey`). That
  a null pointer is no thread, no context and no manager is an assumption (`CoroutineAssumption`).
* `JoinCorrect`, `FalseCorrect`: what JOINED and a timed join that gives up say of the work. The
  invariant `WorkInv` adds to `ThreadInv` what each thread has done where its pthread is (`Job`),
  and, for threads used with care, how `exec` may end (`End`).

`SyncNetwork_proofs`, for every set of endpoints and descriptors and any backlog:

* `DescriptorsCorrect`, `StatusCorrect`, `RefusalsCorrect`. Descriptors are given out again, and a
  thread may be in the kernel with one that no longer is its endpoint's. So the invariant `Inv` is
  per endpoint: the call it is in (`TypedCall`, `Working`, `Following`), what its status says of its
  socket (`HavingSocket`), why it was refused (`Refused`), and, across endpoints, that a socket in
  the kernel has one owner (`Owned`) and a connection one queue (`Queued`). The assumptions are
  that `None` is no endpoint and no descriptor, that roles do not overlap and that a client has a
  server of its kind (`EndpointAssumption`, `NetworkAssumption`).
* The proof changed a property. `RefusedOnlyWhenClosed` used to leave out the endpoint without a
  socket: when `::socket` fails in `accept` or a constructor, for want of descriptors, calls are
  refused although nobody closed anything. The instance has descriptors enough; the theorem has
  to speak of any number.

`BuddyAllocator_proofs`, for every number of tiers, every set of requests, any number of pointers
and every sequence of calls. Of the block sizes it is assumed that each tier has half the size of
the one above (`ConstantsAssumption`). All but `AvailableCorrect` have the hypothesis `ProductsFit`:
the product that `calloc` computes fits 32 bits. Otherwise `calloc` hands out a block for the low
half of the product (`allocators.cpp:532`), and `dealloc` with the size asked for looks for it in
the wrong tier.

* `FlagsCorrect`, `ChainsCorrect`, `PointersCorrect`, `WholeCorrect`: none of the four properties
  is inductive, and they are proved from one invariant that says more. `Sound(heap, given)`
  computes flags and chains from the set of blocks handed out: a flag is set exactly for the blocks
  above one of them (`Used`), a chain lists exactly the vacant blocks of its tier, once (`Lists`,
  `Vacant`), and no block handed out is part of another (`Apart`). `Inv` adds that the pointers
  held own these blocks (`Owners`, `Fits`). What `obtain` and `recycle` do, recursion included, are
  two lemmas about any sound heap (`ObtainSound`, `RecycleSound`), so `realloc`, which calls both,
  needs no argument of its own. That `recycle` climbs no further than flags allow rests on one fact
  about sequences of bits: blocks of which neither contains the other lie in buddies further up
  (`PartSomewhere`). `realloc` in place is the one that needs the sizes to be halved.
* `UsedCorrect`: `used()` is the sum of the blocks held. The sum is a fold over the set of pointers,
  a recursive function whose value follows from its definition only if there is such a function.
  Both, that there is one and that it does not matter in which order the pointers are taken, are
  shown from a least finite set for which they would fail (`LeastSet`, `AddsExists`, `TotalAddsUp`,
  `TotalRemove`). On top of that `Accounts`, the invariant above with the sum, is kept by each
  operation: what `alloc` adds and what `dealloc` and `free` subtract are the weight of the same
  pointer, and a `realloc` in place leaves the weight alone because it leaves the tier alone.
* `AvailableCorrect`: what `available()` says can be allocated, and no more. It holds in every state,
  of the sizes alone.
* `Implements`, `NoByteTwice`: every step is one of `BlockAllocator`, and no two pointers share a
  byte.

`LinearAllocator_proofs`, for every capacity, every set of requests and every sequence of calls, under
two hypotheses. `Ordered`: the application frees the newest pointer first and does not resize
(stack), or only resizes and resets (arena); the run `linear_anyorder` shows that the properties fail
without it. `SizesFit`: a request with its header and rounding, and the product of `calloc`, fit 32
bits; otherwise `alloc` hands out a cell that is too small (`allocators.cpp:532`, `:692`).

* `AliveCorrect`, `EmptyCorrect`: no cell in use is rolled back over, and nothing held means an empty
  chunk. The loop of `free` is a recursive function on offsets; its equation (`RollsBack`) is shown
  from a least offset up to which no such function exists, and needs that the links of all records,
  also the stale ones above `Current`, lead down (`Falling`, `Below`). The roll back leaves `Previous`
  one cell too low, so that the next pointer freed is only marked and its cell is not reclaimed.
  Why nothing in use is lost all the same is in the invariant `Inv`: in stack discipline the cell at
  the bottom is in use as long as any is, and `Previous` and the links of the cells in use lead to
  cells in use (`Stacked`), so a roll back always stops at the cell freed; in arena discipline
  `realloc` has just put a new cell on top, and none happens.
* `Implements`: every step is one of `BlockAllocator`. Two pointers never look the same to the
  interface, because cells in use do not overlap and none is empty (`SeenRemove`).

`Base64_proofs`, for data and texts of every length (as long as `int` counts their characters) and content:

* `RoundTrip`: a caller that asks for sizes and makes buffers of them has its data back, and the
  text in between is that of RFC 4648 (`TextOf`, a definition character by character). What the
  loop of `encode` has after each byte is the lemmas `TurnFirst`, `TurnSecond` and `TurnThird`
  (`After`), what that of `decode` has after each quartet is `DecodeStepOn` (`Decoded`). The loops
  are recursive functions of the turn; that there is such a function, and that what holds after a
  turn holds after all, is shown from a least turn for which it would fail.
* `EncodeFits`, `DecodeFits`: neither writes more than the buffer was said to hold. `decode`
  computes its size from the last two characters before it has seen the rest, and stops at the
  first padding, so this is about every text: `Bounded` relates what was written to the characters
  of the last quartet read. It also says that only bytes are written.

The proofs use the theorems about sequences, finite sets and well-founded relations of the TLAPS
library; its induction theorems take an operator, which the provers cannot instantiate, and an
argument from a least counterexample takes their place. Only model-checked are:

* the liveness properties (the provers have no rule for fairness);
* the conversions other than Base64: texts, `printf` and the option parsers are written with
  `RECURSIVE` operators, which the provers cannot unfold;
* `StatusHasItsOperation` with two unanswered operations per endpoint (`mux_pipelined`).

## 5. What the runs found

1. `epoll:285` and `:313`: the assertion fails with two operations at a time on one endpoint
   (`mux_duplex`). Without assertions the endpoint is listed twice, which is harmless
   (`mux_ndebug`).
2. `allocators.cpp:778`: the roll back forgets the newest living cell (`linear_anyorder`).
3. `thread_posix.hpp:161`: a thread aborted before `run` cannot be joined with a timeout
   (`threading_abort`).

Behaviours that a sentence of the headers speaks against. They have no run of their own: the
property of their kind in `conversions` excepts exactly the inputs they concern, by name.

* `utfconv.cpp:412`: a code point that does not fit ends the conversion without a null, also when
  there is room for one; `utfconv.h:55` promises it "if possible" (`UtfKeepsText` allows both).
* `string.h:848` and elsewhere: `%.0f` of 1.75 is 1, because the decimals are cut and not rounded; this
  and the other combinations listed below (`KnownLayout`) differ from ISO C, where `string.h:387-388`
  says of flags, width and precision: "Fully supported."
* `string.h:699`, `:709`: the argument of `%ld` is read as an `int`, and `%hd` and `%hhd` mask the sign away
  (-7 under `%hd` is 65529); `string.h:380` lists 'hh', 'h' and 'l' as supported (`KnownValue`).
* `getopt.cpp:107`: the permutation goes on behind a "--", so that operands there that begin with a dash
  end up in front of `xoptind`; `getopt.h:53` says "Follow GNU." (`HiddenOptions`).

Places where the models and the code do what nothing in the repository rules out, or where a
property names an exception. They are behaviours of the modules, and have no run of their own.

* Multiplexer: when the system refuses `epoll_ctl` an assertion fails, and without assertions the
  operations of that endpoint wait for its next one (`epoll:255`); an accepted endpoint that closed
  itself is answered as a success (`:594`); a signal ends `run()` or the program (`:271`); the status
  left behind by a broken connection; `errno` read after a call that
  succeeded; `depart` against a running worker.
* Threads: an owner field cleared too late; a destructor that does not join; a condition wait that
  ends unsignalled begins `run` before `start` (against `thread.h:57`); `DeleteCoroutine` of the
  main coroutine in the `run` of a `Thread` ends it without its finish event.
* Coroutines: two threads that come first both create the key, and one loses its manager.
* Endpoints: `connect` that ends after a `close` leaves CONNECTED behind (`netendpoint.cpp:187`);
  `accept` returns EE_SUCCESS with an endpoint it had to close (`:137`); a UDP endpoint that
  listens is refused `sendTo` and cannot answer (`:436`).
* `printf` differs from ISO C in its layout (`KnownLayout`): a ' ' behind a '+' wins over it; '#' with a
  width or a precision marks a zero, and octal digits that the precision fills with zeros; '0' does
  not fill a `%f` with a precision; a `%f` is cut and not rounded up, has zeros behind its sixth
  decimal, and takes an infinity for digits; a negative width by argument is none; a negative
  precision by argument counts as one: on a text `printf` then throws `std::length_error`, on a `%f`
  it cuts the digits, and elsewhere it keeps '0' from filling a width. And in its values
  (`KnownValue`): the lowest value of an `int` or a `long long` overflows when it is
  negated, which `lexical_cast` inherits.
* A "-" alone ends the options as "--" does (`getopt.cpp:255`); GNU takes it for an operand.
* `split` drops the last character of a string that does not end with a separator (`string.h:366`);
  `operator<` of `Uuid` may say that each of two is less than the other (`uuidv4.cpp:156`);
  `lexical_cast` of a text that is no number to an integer gives what was in memory
  (`lexicalcast.h:65`).

## 6. Not modelled

* `depart` while a worker may hold the endpoint: the code then uses freed memory.
* The wrap of sizes near 2^32 is in the definitions, but no run asks for such sizes.
* The kqueue multiplexer has the structure of the epoll one with a filter for each direction; of
  the completion port one the queueing is done by Windows. The Windows threads, locks, events and
  coroutines are wrappers of system calls.
* `ThreadEvent::reset` and events with several waiters; the library has none of either.
* The allocator slots, `RefCounted`, atomics, delegates, compiler and platform headers: single
  assignments or no behaviour of their own. `TlsMap` holds one lock in every operation.
  `external/` and the assembly contexts are third-party code.
* Of endpoints: `resolvePeer`, and the signal a `send` without `MSG_NOSIGNAL` may raise
  (`netendpoint.cpp:416`).
* Of strings: the growth of the buffer, and what passes through to it (`append`, `find`,
  `subString`, `replace`); the conversion of floating point numbers.
* Of options: `xgetopt_long` with "-" or ":" in front of the letters and `xgetopt_long_only` are in
  `GetOpt`, but no command line of the runs uses them; the messages on stderr.
* Of `printf`: `%n`, a `%f` with `ll` (which reads no argument), and more than one directive in a
  format.

## 7. Plan

1. `ThreadEvent` on its own, with several waiters and `reset`; `TlsMap`.
2. The kqueue variant of `NetIoMux`: each direction armed by itself.
3. Theorems about the other conversions, their loops written as recursive functions like those of
   `Base64`: that `utfConv` never reads past its source and that `Uuid` survives its text.
4. What holds of the status of an endpoint with signals, stops and departures. Not `Orderly` as it
   is: a signal lets an assertion fail, and an endpoint that departs while it connects keeps its
   status without an operation.
