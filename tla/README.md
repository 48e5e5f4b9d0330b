# A specification of strManager

strManager is a C++ library that reflects UDP streams: a *source* is an address
(sender IP, local port) with a list of *destinations*, and every datagram that a
source sends is sent on to each of its destinations. This directory specifies the
library in TLA+, model-checks it with TLC and proves what matters most of it with
TLAPS. `PROJECT.json` maps every definition to the lines it models.

## The system

| Part | Code | State | Operations |
|---|---|---|---|
| `StreamList` | `src/src/streamlists/StreamList.cpp` | list of destinations, source, time stamp | add, get, remove, replace and clear destinations |
| `Worker`, `ForwardWorker` | `Worker.cpp`, `ForwardWorker.cpp` | `portListener`, `portFd`, `fdPort`, `management`, `forwarding`, `working` | add and remove sources and destinations, `conmute*`, `run()`/`process()`, `stop()` |
| `RtcpWorker` | `RtcpWorker.cpp` | that of a worker | the same operations on pairs of ports, lists and destinations |
| `StatsWorker`, `StatsStreamList` | `StatsWorker.cpp`, `StatsStreamList.cpp` | byte counters, time stamp | `process()` counts, `generateStats()` reports |
| `Manager` | `Manager.cpp` | `srcIdWorker`, `workerIdWorker`, `currentWorkerId` | the public calls, `messageHandler()` |
| Message queue | `Message.cpp`, Boost | named queue of 100 messages, one name for all processes of the machine | `sendMessage`, `receive`, `remove` |
| `UdpStream` | `UdpStream.cpp` | identifier, address | conversions and printing |
| Web service | `examples/WS_strManager/src/main_ws.cpp` | the next `flowId`, one `Manager` | `ns__command` and one operation per call of the `Manager` |
| gSOAP runtime | `examples/WS_strManager/src/ws/stdsoap2.cpp`, vendored | a listening socket, a connection, a buffer | accept, receive, answer, close |
| Command line examples | `src/examples/` | the next identifier | lines read from a terminal |

A caller's thread calls the `Manager`, which picks or creates a worker and calls
it. The worker's operations hold `m_mutex`. Each worker has a thread in `run()`
that selects on the descriptors in `portFd` and processes datagrams; **it never
takes `m_mutex`**. A worker whose last source is removed sends a message of type 100
and waits for its thread. The `Manager`'s handler thread receives that message
and erases the worker from `workerIdWorker`. A `StatsWorker` has a third thread.
The queue is found by its name, at each `sendMessage`; the handler unlinks the name
when it starts, and any exception of an open unlinks it again. The web service is one
thread that carries out requests over one `Manager`.

What is hard, and what correctness means for each part:

* **Worker.** Five tables have to agree with each other and with the kernel
  through operations that can be refused half way. The tables are read with
  `operator[]`, which makes a missing key 0 and inserts it. Correct: each source
  reaches its destinations and nobody else's; a socket is open exactly while some
  source needs it.
* **RtcpWorker.** Each call changes two ports and two lists, with a listener count
  kept for both. Correct: pairs stay pairs.
* **Manager.** Tables changed by two threads, an asynchronous message about a
  worker that can be used again before it arrives, identifiers that wrap around.
  Correct: a source accepted is served until it is removed, and every worker is
  known until it stops.
* **Threads of a worker.** Descriptors are closed and reused between `select()`,
  `recvfrom()` and the lookup. Correct: datagrams are looked up for their own
  port, and `stop()` returns.
* **StatsWorker.** Counters read and reset by one thread and added to by another.
  Lists come and go while the reporting thread traverses them. Correct: no byte
  counted twice, none of the worker's lost, every list rated again.
* **Message queue.** The name may be unlinked between any two opens, by the handler,
  by a failed open or by another process; a queue that fills up makes `send` wait.
  Correct: a worker's message reaches its own `Manager`, about itself, once.
* **Web service.** A client may send in pieces, send too much, hang up or say
  nothing, while the process runs out of descriptors. Correct: a result means that this
  client's request was carried out, once; flows are numbered apart; the server goes on.

## The modules

| Module | Models | Rests on |
|---|---|---|
| `StreamList` | destination lists as sequences; each method an operator | |
| `Reflector` | abstract: sources with addresses and sets of destinations, and where a datagram goes | |
| `Worker` | a worker of the forwarding type, one step per operation and per datagram | `StreamList`; implements `Reflector` |
| `PairReflector` | abstract: sources that take a pair of routes, an even port's and the next one's | |
| `RtcpWorker` | what the RTCP type overrides | `Worker`; implements `PairReflector` as long as nothing overlaps |
| `WorkerThreads` | `run()` against `addSource`/`removeSource`, one step per table access | |
| `StatsWorker` | the counters of the statistics type, their two threads, and lists that come and go | |
| `Manager` | the pool, the messages, the handler and the calls | |
| `MessageQueue` | the named queue under one process with all its threads, and what another process does to it | |
| `WebService` | the service's loop, operations and commands, on connections as the gSOAP runtime serves them | |
| `StreamListProofs`, `WorkerProofs`, `RtcpProofs`, `ThreadsProofs`, `StatsProofs`, `ManagerProofs`, `MessageQueueProofs`, `WebServiceProofs` | theorems and their proofs | the module each is about (`RtcpProofs` on `RtcpWorker`, `ThreadsProofs` on `WorkerThreads`) |
| `MCRtcpWorker` | bounds the listener counts, which overlapping ports make grow | `RtcpWorker` |

How state and actions correspond to the code:

* Action and variable names are the code's. Where one call is several steps the
  steps are named for what they do (`setPortFd`, `eraseForwarding`). In `Worker`
  a call that returns early without a change is a stutter.
* `int` tables are total functions with 0 for a missing key, as the code reads
  them; `management` tells a missing key (`Absent`) from a null pointer (`Null`),
  because `isEmpty()` counts keys. An address is a pair; its conversion is left out.
* A descriptor is `Closed`, `Unbound` (a socket whose `bind()` was refused and that
  nothing closes) or bound to a port. `Occupied` are ports bound by others.
* `Worker` knows nothing of time or threads, `WorkerThreads` nothing of
  destinations. `Manager` reads a worker's ports off its lists; that these are the
  open ones is `SocketsExact` of `Worker`. `Manager` has one queue that always works;
  `MessageQueue` has what can happen to the queue, and of a worker only how far its
  thread is. `WebService` has of the `Manager` the sources by identifier and the
  descriptors, with calls that return: when they do is the subject of the others.
* In `StatsWorker` a rate is the bytes it was calculated from, a time stamp its age in
  seconds, and an `int` wraps around at a width that is a constant. A list that is
  removed under the iterator leaves it `astray`: it goes on anywhere in the table, for
  ever, or the process crashes. A table that grows may show a traversal any of its
  entries again or not at all.
* In `WebService` a request is a number of parts; what it asks for is picked when it
  is parsed. The server's buffer holds, for each unread part, the connection it came from.
* What a caller keeps to is recorded in history variables, which no action's guard
  reads: `hasty` and `wrapped` in `Manager` (a source was added or removed while the
  handler had something to do; workers' identifiers have wrapped around), `reopened`
  in `WorkerThreads` (a source was added after one was removed), `overlapped` in
  `RtcpWorker` (an odd port, or an identifier next to one in use), `flooded` and `changed`
  in `StatsWorker` (more bytes than an int holds, a table changed under its traversal),
  `shared` and `broken` in `MessageQueue` (another process, a queue opened too early or
  lost to an exception), `history` in `WebService` (whose `bound` also tells clients that
  there is a server). Every run lets the
  caller do anything; a property that needs such a condition says so in its
  formula. In `Worker`, `FreshSrcIds` is a constant, since theorems are proved from it.
* Data races on `std::hash_map` are undefined behaviour. `WorkerThreads` gives each
  access the effect of an atomic one, so what goes wrong there goes wrong with any
  table; a corrupted table is outside the models.

## The runs

Passing runs:

| Run | Shows | Bounds |
|---|---|---|
| `worker` | the tables stay exact, routing is exact, `Reflector` is implemented, the last source stops the worker unless a stray datagram came first | 2 senders, 3 ports (one occupied), 2 descriptors, so that the process runs out; 2 sources, 2 destinations: enough for shared ports, leaks, transfer and re-adding |
| `rtcp` | for any caller: the socket tables are inverse; without overlaps: pairs of lists stay complete, both ports listened to, `PairReflector` is implemented | base identifiers 1 to 3, base ports 2 to 4 with port 5 occupied, 5 descriptors: sharing, overlap, refusal of the second port, exhaustion; counts between -3 and 3 |
| `threads` | between calls the tables agree, for any caller; until a source is added after one was removed: no misrouting, no blocked `recvfrom()`, `stop()` returns, datagrams are taken | 2 ports, 2 sources, 2 descriptors, 3 additions, the third of which reuses what a removal freed |
| `stats` | bytes of the worker conserved, bytes of a list not counted twice, the reporter ends, lists are rated again | 2 lists, datagrams of 1 and 2 bytes, 2 bytes in all; a period of 1 second, so that a rate is due at 2; ints from -2 to 1, so that the second byte overflows |
| `manager` | for any caller: source table and ports; for one that waits for the handler, until identifiers wrap: known, served, refused for cause, forgotten | 2 sources, 2 types (one never stopped), 2 worker objects, 3 ports (one occupied), 3 cores, a queue of 2 |
| `queue` | without another process no message erases a worker that works; if moreover no open failed or came too early: one queue, sends return, ended workers are forgotten | 1 worker, a queue of 1 message (so that it fills), 5 queue objects, one for each that can be open or named at a time; processes that start and end any number of times |
| `web` | results mean done, flows numbered apart, the server ends only for a cause, clients are answered | 2 connections, requests of 2 parts of which 3 are sent, identifiers 100 to 102, 2 source addresses (one with an occupied port), 4 descriptors, so that accepts, additions and leaks use them up |

The bounds hold two of whatever can interact: two sources on a port, two ports, two
workers and one to replace them. Queue and period are shortened; what matters is that
they can be full and can pass.

Each violation run checks one claim of a comment or doc against the code; the
findings in `PROJECT.json` quote it:

| Run | The code does |
|---|---|
| `worker_stranger` | with a source numbered 0, as the bundled examples number their first, strangers' datagrams are reflected to its destinations |
| `rtcp_ids` | consecutive identifiers: a source loses a list to its neighbour, and a null list is dereferenced |
| `rtcp_odd_port` | a count of -1 passes for an open port |
| `threads_stop` | `recvfrom()` blocks on a reused descriptor and `stop()` never returns |
| `manager_late` | a source is given to a stopped worker |

The models also have, without a run of their own, what follows from one line of the
code: a second source with the address of source 0 passes the duplicate test;
`conmuteStreamList` drops the target's destinations and `conmuteUdpStream` copies
instead of moving; an identifier in use leaks a listener; half a pair of RTCP
sockets stays bound when the other half is refused; a worker's identifier that has
come round again replaces the older worker in the table; a refused source leaves the
thread of the worker created for it running; a message sent while the handler starts
is lost; `removeDestination` returns 0 for a destination that is not there; and a
datagram received while its descriptor is reused is looked up under the new port
(why `ForwardedForSender` needs `~ reopened`). A stray datagram leaves a null list under 0
which keeps the worker from stopping (`LastSourceStopsWorker` states the condition). The
time stamp of a list with statistics is that of its last rate, not of its last datagram.
Two processes on one machine erase each other's workers and take each other's queue
(`KnownWhileWorking` and `OneQueue` need `~ shared`). The web service answers `SOAP_OK`
whatever the call of the `Manager` returned, does not tell a client the identifier of
its flow, carries commands out only while the logger is enabled for `DEBUG`, and gives
the flow after an RTCP source the identifier that source uses for its second list (the
case of `rtcp_ids`); its `ns__addDestination` casts a `char**` to `char*`.

**Fairness.** Only steps the code takes by itself are fair. In `WorkerThreads` a
call in progress and `run()`, which the scheduler runs; not the arrival of
datagrams nor the caller's next call. A `select()` with a readable descriptor returns it;
one without times out. In `StatsWorker` the passing of time and both threads once
they have something to do; not an iterator that is astray, which may stay so. In
`MessageQueue` the process's own threads, and strongly its `send()` calls, since a
`receive()` wakes a sender; not other processes. In `WebService` the server's thread; not
clients, so `Answered` supposes that none that is being served stays silent for ever:
no timeout is set. In `Manager` the caller inside a call, the handler, and the
end of a thread whose `working` was cleared: `select()` returns within fifteen
seconds. That last assumption is what `threads` shows and `threads_stop` refutes for
callers that reuse descriptors.

**Deadlock** checking is off where the system may be done: in the runs of
`WorkerThreads` after `stop()`, in `rtcp` after the crash, in `stats` after the crash, in
`web` when the server has ended.

## The proofs

`StreamListProofs` proves what the list operators return: a search finds the one
position with an identifier, `addDestination` adds exactly one destination or none,
`remDestination` removes exactly one (what is behind it moves up, `removeAtCorrect`), and
both keep identifiers unique.

`WorkerProofs` proves, for any ports, descriptors, senders, sources, destinations:

* `TypeTheorem`, `SocketsTheorem` and `DestinationsTheorem`, for any caller:
  `TypeOK`, `SocketsExact` and `DestinationsUnique`.
* `TablesTheorem`: with fresh source identifiers, `Spec => []ListenersExact`. It needs
  finite sets: `portListener[p]` is the cardinality of `ListsOn(p)`, which an added list
  grows by one (`ListsOnGrow`), a removed one shrinks by one (`ListsOnShrink`) and a list
  that keeps its source leaves alone (`ListsOnKeep`).
* `StopTheorem`: under the assumptions of the next theorem, `Spec => LastSourceStopsWorker`,
  from an invariant on where null lists can be (`NullsAtZero`).
* `RoutingTheorem`: if moreover 0 is not an identifier, `Spec => []RoutingExact`. A
  source's address has no entry (the guard of `addSource`), so no other list has it.
  With 0 this is false, as run `worker_stranger` shows.
* `StrangersTheorem`: under the same assumptions `Spec => []StrangersNotForwarded`, the claim
  that run `worker_stranger` refutes for a source numbered 0.
* `ImplementsTheorem`: under the same assumptions `Spec => Implements`. Each action
  maps to an action of `Reflector` or to `Refuse`, with the list of destinations seen
  as a set; `RoutingExact` says that the looked-up list is the sender's.
* `ReflectorTheorem` and `SourcesDistinctTheorem`: in `Reflector` no two sources have one
  address, and through the refinement none of a worker's has.

`RtcpProofs` proves every property of run `rtcp` for any identifiers, ports, descriptors
and destinations, in two layers:

* `TypeTheorem` and `InverseTheorem`, for any caller: `RtcpTypeOK` and `TablesInverse`. The
  operators that pass the socket tables from call to call have lemmas of their own:
  `addSocketIs` (a listener more, both ports opened, or neither) and `removeSocketIs`; each
  keeps the tables inverse (`addSocketAgrees`, `removeSocketAgrees`). The invariant adds only
  `RoomAbove`: the port of a list has a next one, since `remove_socket` erases it.
* `PairsTheorem`, `PortsTheorem` and `DestinationsTheorem`, while the caller has not
  overlapped pairs: `PairsComplete`, `PortsExact` and `DestinationsPaired`. None is inductive
  alone, and `Regular` says why they hold together: no two sources have neighbouring
  identifiers (`Apart`); each has its lists, at an even port and the next (`Pairs`); the
  address table has no other entry (`Routed`); an even port's count is the number of its
  sources, and the next port's is one more, or 0 or -1 when there is none (`Counted`), which is
  what makes the second `add_socket` of a pair count and not open; and the second list has the
  halves of the first one's destinations, so that an identifier is found at one position in
  both (`Destinations`, `halvesFound`). When the first `add_socket` of a pair is refused, the
  second one cannot open the port either (`Refused`): otherwise it would open the
  next pair's even port with no source on it.
* `ImplementsPairsTheorem` and `PairReflectorTheorem`: `RtcpSpec => ImplementsPairs`, and
  with `[](~ overlapped)` the whole of `PR!Spec`. A list is a route: its address and the set
  of its destinations (`pairRoutes`). What an operation does to the two lists has a lemma of
  its own (`addPairRegisters`, `removePairUnregisters`, `addPairDestAttaches`,
  `removePairDestDetaches`, `processReflects`), which says that it changes both routes of one
  pair or none. That two lists have their destinations in one order makes a removal take the
  same one from both.
* `PairsDistinctTheorem` and `WorkerPairsDistinctTheorem`: in `PairReflector` no address
  belongs to two sources, neither as both RTP addresses nor as one's RTCP and the other's
  RTP address, and through the refinement none does in a worker.
* `StrangersTheorem` and `CountedTheorem`, from the same invariant: a datagram is sent only to
  destinations of a list its sender has, and a port with a count is open. The second is what
  `rtcp_odd_port` refutes for any caller.

`ThreadsProofs` proves the safety properties of run `threads` for any ports, descriptors,
sources and number of additions, with the two threads interleaved at each table access:

* `TypeTheorem` and `SettledTheorem`, for any caller: `TypeOK` and `SettledExact`. Between
  calls the tables agree; in a call they do but for the entries it is about to write.
  `Tables` gives that for each point of `addSource` and `removeSource`: counts (over finite
  sets, `Counts`), sockets (`Sockets`) and lists (`Lists`). `run()` changes nothing there but
  null pointers (`RunKeepsTables`).
* `ForwardedTheorem` and `NeverBlockedTheorem`, until a source is added after a removal:
  `ForwardedForSender` and `NeverBlocked`. `Knowledge` says what `run()` knows at each of its
  points: the descriptors it has read are still those of their ports until a source is
  removed (`Steady`), a readable one keeps its datagram (`Selected`), and what it has looked
  up is about the sender, or there is nothing any more (`Taken`). A call's step keeps it
  because it only opens what was closed or closes what was open (`Harmless`).
* `StopNearerTheorem`, for finitely many ports: what `StopReturns` rests on. While the caller waits in `stop()`, each
  step of `run()` makes smaller a count (`Left`) of the steps to its end: six for each port
  still to visit, and the rest of the datagram it is at.

`MessageQueueProofs` proves the safety properties of run `queue` for any number of workers,
queue objects and messages:

* `TypeTheorem` and `KnownTheorem`: `TypeOK`, and `KnownWhileWorking` unless another process
  has been up. The invariant (`HeardDue`) is about the messages the handler will read: one
  that erases a worker is the only one about it, and the worker has been stopped.
* `OneQueueTheorem`: `OneQueue`, unless something has broken it. `Named` says that before
  the handler opens its queue nobody has one, and after that nobody has another.
* `SendersTheorem`, `JoinsTheorem` and `ToldTheorem`: what `SendsReturn` and `EndedForgotten`
  rest on. Under `Undisturbed` a `send()` without room waits for a handler that has a
  message to read; the thread a caller waits for has been told to end; and a stopped worker
  in the table has its message in the queue the handler reads. What is left to TLC is that
  fair threads then get there.

`ManagerProofs` proves, for any workers, cores, types, sources and addresses, with an
invariant of two layers:

* `ManagerTablesTheorem`, for any caller:
  `Spec => [](TypeOK /\ SourceTableExact /\ PortsDisjoint /\ FiledUnderOwnId)`. The
  layer `Tables` adds that only workers that were created have sources, are filed or
  are picked (a worker gets its identifier when it is created), and that a source
  being added is in no table yet: `addSource` is two steps, and nothing may come in
  between.
* `ManagerOrderlyTheorem` and `RefusedTheorem`, as long as the caller is `Orderly`:
  `Spec => [](WorkersKnown /\ SourcesServed)` and `Spec => RefusedForCause`. The layer
  `Ordered` says what the queue has to do with it: a message is about a worker that has no
  sources left (`MessagesOfEmpty`), a worker in the table runs or its message is on the way
  (`KnownRuns`), identifiers of workers with sources are below the next one
  (`IdsAscend`), and the worker picked for a source runs and has the source's port if any
  worker of its type has it (`PickedWell`). `manager_late` shows that waiting is needed.
* `StoppedTheorem` and `AdvanceTheorem`: what `StoppedForgotten` rests on. For an `Orderly`
  caller a stopped worker in the table has its message in the queue; for any caller a
  message keeps its place or moves up by one in every step while the handler listens, or
  its worker leaves the tables.

`StatsProofs` proves `TypeOK`, `WorkerBytesConserved` and `ListBytesBounded` for any
lists, lengths, period, width of an int and number of bytes. The three are inductive with
`Counting`: without an overflow the worker's counter is what arrived in the interval, no
list has received more than the worker has counted (the order of the two counters in
`process()`), and a rate that has been calculated is of bytes the list has received, so
that the reset may forget bytes but count none again. `ToIntHolds` is what an int keeps of
a sum: it and the sum differ by a multiple of the size. `SteeredTheorem` (only a change of the
table under a traversal leads it astray) and `EndNearerTheorem` (once the worker is stopped,
each step or second brings the thread's end nearer) are what `StatsEnds` rests on.

`WebServiceProofs` proves `TypeOK`, `FlowsDistinct`, `AnswerMeansDone` and `EndsForCause`
for any number of connections, parts, descriptors and flows, with an invariant of three
layers: `Typed` (with `FdsBounded`, the count of open descriptors, over finite sets),
`Distinct` (identifiers, as long as clients leave the numbers to the service) and `Life`
(where a connection is, in the backlog, being served or gone, and whose bytes are in the
buffer: those of the connection that is being served, since `soap_begin_recv` empties it).

There is one lemma per action and per layer where the action can disturb it, so that a
change of one action concerns its lemmas alone. The assumptions are `WorkerAssumption` (ports and
descriptors are positive, the null values are no lists, source identifiers are a
finite set, ports have 16 bits), `ManagerAssumption` (the null value is no worker, address
or type), `RtcpAssumption` (what a base identifier, port or destination leads to is in the
sets of the worker, none is 0), `ThreadsAssumption`, `QueueAssumption`, `StatsAssumption` and
`WebServiceAssumption`, which TLC evaluates in the runs, and those named above. That ports have 16 bits is an assumption about callers: the code
keeps an `int` in its tables and 16 bits in an address, and checks neither.

Every safety property of a passing run is proved. Only model-checked are the liveness
properties, which TLAPS does not handle (nor does it handle `ENABLED`, nor induction over
data structures), though the theorems named above prove the safety that some of them rest
on: `StoppedForgotten`, `StopReturns`, `DatagramsTaken`, `StatsEnds`,
`RatedAgain`, `SendsReturn`, `EndedForgotten` and `Answered`.

## Not modelled

Printing and logging (no property is about text); address conversion, and what a call
does with an `ip` that is no address or a port beyond 16 bits (nothing checks them); the
command line examples, but for the identifiers they choose. Undefined behaviour inside a
table that two threads change, and of a destination list that a caller changes while
`run()` copies it: no state of a model can represent it. `outputBytes`, which nothing
increments.

Of the repository's 27,234 lines of C and C++, 23,600 are vendored: gSOAP's runtime
(`stdsoap2.cpp`, `stdsoap2.h`) and `libltdl`. No part of the library or of its build uses
`libltdl`. Of gSOAP the models have what decides the behaviour of the service: binding,
accepting, receiving, parsing or refusing, answering and closing. Its XML, attachments,
TLS, compression, chunks, cookies and client's side are a general-purpose library's, with
no state of strManager in them, and are left out on purpose: models of them would say
nothing of this program. A server that closes a connection with bytes unread may have the
kernel reset it, and the client may then lose the answer; the model gives it the answer.

## Plan

Done, in this order: `StreamList`, `Reflector`, `Worker` and its proofs, `Manager`,
`RtcpWorker`, `WorkerThreads`, `StatsWorker`, `ManagerProofs`; then `MessageQueue`,
`WebService` and its proofs, `StatsWorker` with lists that come and go and ints that
overflow, `StatsProofs`; then `MessageQueueProofs`, `ThreadsProofs` and `RtcpProofs`; last
`PairReflector` with its refinement, and the safety that the liveness of the queues and of
`stop()` rests on. The data path came first, since everything else refers to the tables of a worker.

What could come next: the same for `DatagramsTaken`, `RatedAgain` and `Answered`; and a module in which a `Manager` has workers with the steps of
`WorkerThreads` and the queue of `MessageQueue`, for callers that go on while a worker
stops.
