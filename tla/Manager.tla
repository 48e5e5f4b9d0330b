------------------------------ MODULE Manager -------------------------------
(***************************************************************************)
(* The Manager object (Manager.cpp): its pool of workers, the two tables   *)
(* that find them, the thread that handles the workers' messages, and the  *)
(* calls of the one thread that uses the library.                          *)
(*                                                                         *)
(* A worker is reduced to what the manager and its workers tell each       *)
(* other: the source addresses it has by list identifier, whether a lookup *)
(* left a null pointer among its lists, and how far its thread is.  Module *)
(* Worker shows that the socket of a port is open exactly while a list has *)
(* the port, which is how ports are read here.                             *)
(***************************************************************************)
EXTENDS Integers, Sequences

CONSTANTS
    Type,           \* worker types (Constants.h)
    Unstopped,      \* types whose removeSource never stops the worker (RTCP)
    SrcId,          \* identifiers of sources; 0, the key of the null list, is not one
    IP, Port,       \* source addresses
    Occupied,       \* ports bound by somebody outside the process
    MaxWorkers,     \* boost::thread::hardware_concurrency()
    Pool,           \* worker objects the process may create: bounds the runs
    QueueSize,      \* messages the queue holds: send() blocks when it is full
    None            \* no worker, no address, no type

Addr == IP \X Port
PortOf(a) == a[2]

ASSUME ManagerAssumption ==
    /\ MaxWorkers \in Nat
    /\ Unstopped \subseteq Type
    /\ QueueSize \in Nat \ {0}
    /\ None \notin Pool \cup Addr \cup Type

\* The identifiers workers get; 0 is the only one when there is no core to count.
WorkerId == {0} \cup 0..(MaxWorkers - 1)

VARIABLES
    srcIdWorker,        \* source identifier -> worker
    workerIdWorker,     \* worker identifier -> worker
    currentWorkerId,
    type,               \* worker -> its type, None before it is created
    workerId,           \* worker -> its identifier
    lists,              \* worker -> source identifier -> source address
    null,               \* worker -> a null pointer sits in its management table
    thread,             \* worker -> how far its run() thread is
    queue,              \* identifiers in the messages of type 100 not yet handled
    handler,            \* the message handler's thread
    call,               \* what the caller's thread is doing
    ret,                \* what the last call returned
    hasty,              \* a source was added or removed before the handler had
                        \* started or while it had a message to handle
    wrapped             \* workers' identifiers have been through all their values

tables == <<srcIdWorker, workerIdWorker, currentWorkerId>>
workers == <<type, workerId, lists, null, thread>>
history == <<hasty, wrapped>>
vars == <<tables, workers, queue, handler, call, ret, history>>

Idle == [op |-> "idle"]
Calls == {Idle} \cup [op : {"add"}, w : Pool, id : SrcId, a : Addr]
                \cup [op : {"join"}, w : Pool]

TypeOK ==
    /\ srcIdWorker \in [SrcId -> Pool \cup {None}]
    /\ workerIdWorker \in [WorkerId -> Pool \cup {None}]
    /\ currentWorkerId \in WorkerId
    /\ type \in [Pool -> Type \cup {None}]
    /\ workerId \in [Pool -> WorkerId]
    /\ lists \in [Pool -> [SrcId -> Addr \cup {None}]]
    /\ null \in [Pool -> BOOLEAN]
    /\ thread \in [Pool -> {"none", "running", "stopping", "ended"}]
    /\ queue \in Seq(WorkerId)
    /\ handler \in {"starting", "listening"}
    /\ call \in Calls
    /\ ret \in {0, -1}
    /\ hasty \in BOOLEAN
    /\ wrapped \in BOOLEAN

Has(w, id) == lists[w][id] # None
Ports(w) == {PortOf(lists[w][id]) : id \in {i \in SrcId : Has(w, i)}}
Known == {w \in Pool : \E k \in WorkerId : workerIdWorker[k] = w}

Init ==
    /\ srcIdWorker = [id \in SrcId |-> None]
    /\ workerIdWorker = [k \in WorkerId |-> None]
    /\ currentWorkerId = 0
    /\ type = [w \in Pool |-> None]
    /\ workerId = [w \in Pool |-> 0]
    /\ lists = [w \in Pool |-> [id \in SrcId |-> None]]
    /\ null = [w \in Pool |-> FALSE]
    /\ thread = [w \in Pool |-> "none"]
    /\ queue = << >>
    /\ handler = "starting"
    /\ call = Idle
    /\ ret = 0
    /\ hasty = FALSE
    /\ wrapped = FALSE

-----------------------------------------------------------------------------
(* The caller's thread.                                                    *)

\* A source is added or removed, whatever the handler has left to do.
callOnSource ==
    /\ call = Idle
    /\ hasty' = (hasty \/ handler = "starting" \/ queue # << >>)

\* Mutant of Candidates: every source gets a worker of its own.
CandidatesNone(t, p) == {}

\* The workers getWorkerByPortType may return: those of the table that have the
\* port and the type, else those of the type.
Candidates(t, p) ==
    LET ofType == {w \in Known : type[w] = t}
        onPort == {w \in ofType : p \in Ports(w)}
    IN  IF onPort # {} THEN onPort ELSE ofType

\* createWorker and launch.
createWorker(t, w) ==
    /\ type[w] = None
    /\ type' = [type EXCEPT ![w] = t]
    /\ workerId' = [workerId EXCEPT ![w] = currentWorkerId]
    /\ thread' = [thread EXCEPT ![w] = "running"]

\* addSource up to the worker it picked.  Callers number their sources afresh.
getWorker(t, id, a) ==
    /\ callOnSource
    /\ srcIdWorker[id] = None
    /\ \E w \in Pool :
        /\ \/ w \in Candidates(t, PortOf(a)) /\ UNCHANGED <<type, workerId, thread>>
           \/ Candidates(t, PortOf(a)) = {} /\ createWorker(t, w)
        /\ call' = [op |-> "add", w |-> w, id |-> id, a |-> a]
    /\ UNCHANGED <<tables, lists, null, queue, handler, ret, wrapped>>

\* add_socket gets the port: the worker has it, or nobody else has.
PortGranted(w, p) ==
    \/ p \in Ports(w)
    \/ p \notin Occupied /\ \A v \in Pool : p \notin Ports(v)

\* Mutant of SourceAccepted: -1 from add_socket is not looked at.
SourceAcceptedUnbound(w, a) == \A i \in SrcId : lists[w][i] # a

\* Worker::addSource returns true.
SourceAccepted(w, a) ==
    /\ \A i \in SrcId : lists[w][i] # a
    /\ PortGranted(w, PortOf(a))

\* Mutant of nextWorkerId: the identifier is never brought back to 0.
nextWorkerIdUnwrapped == currentWorkerId + 1

\* Mutant of nextWorkerId: the identifier wraps one source too early.
nextWorkerIdEarly == IF currentWorkerId + 2 >= MaxWorkers THEN 0 ELSE currentWorkerId + 1

nextWorkerId == IF currentWorkerId + 1 >= MaxWorkers THEN 0 ELSE currentWorkerId + 1

\* workerIdWorker with the worker a source was added to.
filed(w) == [workerIdWorker EXCEPT ![workerId[w]] = w]

\* The rest of addSource: the worker adds it and the manager files the worker,
\* or the call fails and a worker just created is filed nowhere.
addSource ==
    /\ call.op = "add"
    /\ LET w == call.w
       IN  \/ /\ SourceAccepted(w, call.a)
              /\ lists' = [lists EXCEPT ![w][call.id] = call.a]
              /\ srcIdWorker' = [srcIdWorker EXCEPT ![call.id] = w]
              /\ workerIdWorker' = filed(w)
              /\ currentWorkerId' = nextWorkerId
              /\ wrapped' = (wrapped \/ currentWorkerId + 1 >= MaxWorkers)
              /\ ret' = 0
           \/ /\ ~ SourceAccepted(w, call.a)
              /\ ret' = -1
              /\ UNCHANGED <<tables, lists, wrapped>>
    /\ call' = Idle
    /\ UNCHANGED <<type, workerId, null, thread, queue, handler, hasty>>

\* isEmpty() after the list of id is erased.
EmptyWithout(w, id) == ~ null[w] /\ \A i \in SrcId \ {id} : ~ Has(w, i)

\* Mutant of forget: the table keeps the pointer.
forgetNothing(id) == srcIdWorker

\* srcIdWorker without the source.
forget(id) == [srcIdWorker EXCEPT ![id] = None]

\* stop() clears working, unless the thread has ended before.
stopped(w) == [thread EXCEPT ![w] = IF @ = "running" THEN "stopping" ELSE @]

\* removeSource; the worker's last list sends the message, clears working and
\* waits for the thread in stop().
removeSource(id) ==
    /\ callOnSource
    /\ srcIdWorker[id] # None
    /\ srcIdWorker' = forget(id)
    /\ LET w == srcIdWorker[id]
       IN  /\ lists' = [lists EXCEPT ![w][id] = None]
           /\ \/ /\ EmptyWithout(w, id) /\ type[w] \notin Unstopped
                 /\ Len(queue) < QueueSize
                 /\ queue' = Append(queue, workerId[w])
                 /\ thread' = stopped(w)
                 /\ call' = [op |-> "join", w |-> w]
              \/ /\ ~ EmptyWithout(w, id) \/ type[w] \in Unstopped
                 /\ UNCHANGED <<queue, thread, call>>
    /\ ret' = 0
    /\ UNCHANGED <<workerIdWorker, currentWorkerId, type, workerId, null, handler, wrapped>>

\* stop() returns.
join ==
    /\ call.op = "join"
    /\ thread[call.w] = "ended"
    /\ call' = Idle
    /\ UNCHANGED <<tables, workers, queue, handler, ret, history>>

\* addDestination and removeDestination: 0 is returned whatever the worker does
\* with the destination, which is in module Worker.
callOnDestination(id) ==
    /\ call = Idle
    /\ srcIdWorker[id] # None
    /\ ret' = 0
    /\ UNCHANGED <<tables, workers, queue, handler, call, history>>

\* A call on a source identifier the manager does not have.
unknownSource(id) ==
    /\ call = Idle
    /\ srcIdWorker[id] = None
    /\ ret' = -1
    /\ UNCHANGED <<tables, workers, queue, handler, call, history>>

-----------------------------------------------------------------------------
(* The workers' threads.                                                   *)

\* run() sees working cleared and returns.
runEnds(w) ==
    /\ thread[w] = "stopping"
    /\ thread' = [thread EXCEPT ![w] = "ended"]
    /\ UNCHANGED <<tables, type, workerId, lists, null, queue, handler, call, ret, history>>

\* A datagram from an unregistered address leaves a null pointer in management.
stranger(w) ==
    /\ thread[w] = "running"
    /\ Ports(w) # {}
    /\ null' = [null EXCEPT ![w] = TRUE]
    /\ UNCHANGED <<tables, type, workerId, lists, thread, queue, handler, call, ret, history>>

-----------------------------------------------------------------------------
(* The message handler's thread.                                           *)

\* It removes the message queue, with what was sent to it, and creates its own.
handlerStarts ==
    /\ handler = "starting"
    /\ queue' = << >>
    /\ handler' = "listening"
    /\ UNCHANGED <<tables, workers, call, ret, history>>

\* Mutant of erased: the entry is kept.
erasedNothing(k) == workerIdWorker

\* workerIdWorker without the identifier.
erased(k) == [workerIdWorker EXCEPT ![k] = None]

\* A message of type 100 erases the identifier it carries from the table.
messageHandler ==
    /\ handler = "listening"
    /\ queue # << >>
    /\ workerIdWorker' = erased(Head(queue))
    /\ queue' = Tail(queue)
    /\ UNCHANGED <<srcIdWorker, currentWorkerId, workers, handler, call, ret, history>>

-----------------------------------------------------------------------------
Next ==
    \/ \E t \in Type, id \in SrcId, a \in Addr : getWorker(t, id, a)
    \/ addSource
    \/ \E id \in SrcId : removeSource(id) \/ callOnDestination(id) \/ unknownSource(id)
    \/ join
    \/ \E w \in Pool : runEnds(w) \/ stranger(w)
    \/ handlerStarts
    \/ messageHandler

\* Threads that can go on do: the caller's inside a call, the handler's, and a
\* worker's out of its loop, at the latest when its select() times out.
Fairness ==
    /\ WF_vars(addSource \/ join)
    /\ WF_vars(handlerStarts \/ messageHandler)
    /\ \A w \in Pool : WF_vars(runEnds(w))

Spec == Init /\ [][Next]_vars /\ Fairness

-----------------------------------------------------------------------------
(* Properties that hold for any caller.                                    *)

\* The manager finds a source in a worker exactly when that worker has its list
\* (addSource and removeSource change both tables, one under each object).
SourceTableExact ==
    \A id \in SrcId, w \in Pool : srcIdWorker[id] = w <=> Has(w, id)

\* No two workers have lists on one port: each datagram has one worker to go to.
PortsDisjoint == \A v, w \in Pool : v # w => Ports(v) \cap Ports(w) = {}

\* A worker is filed under its own identifier or not at all, so the message it
\* sends when it stops can find it (messageHandler erases by m->from).
FiledUnderOwnId ==
    \A k \in WorkerId : workerIdWorker[k] # None => workerId[workerIdWorker[k]] = k

(* Properties of a caller that waits for the handler before it adds or      *)
(* removes a source, while no identifier of a worker has been used twice.  *)

\* The caller has kept to that.
Orderly == ~ hasty /\ ~ wrapped

\* Every worker that has a list is in the table printManagement reads and
\* getWorker searches, under its identifier.
WorkersKnown ==
    Orderly => \A w \in Pool : Ports(w) # {} => workerIdWorker[workerId[w]] = w

Served == \A w \in Pool : Ports(w) # {} => thread[w] = "running"

\* A source that was added is served by a running thread, until it is removed: no
\* worker is picked between its message and the erasure of its entry.
SourcesServed == Orderly => Served

\* Whatever addSource refuses is refused for its address or its port: a port that
\* is open in a worker of the type asked for is never opened a second time.
RefusedForCause ==
    [][Orderly /\ call.op = "add" /\ call' = Idle /\ ret' = -1
        => \/ \E i \in SrcId : lists[call.w][i] = call.a
           \/ PortOf(call.a) \in Occupied
           \/ \E w \in Pool : /\ PortOf(call.a) \in Ports(w)
                              /\ type[w] # type[call.w]]_vars

\* A worker that has stopped is forgotten, so that no source is given to it.
StoppedForgotten ==
    \A w \in Pool : thread[w] = "ended" ~> w \notin Known \/ ~ Orderly

-----------------------------------------------------------------------------
(* What a doc of the repository says of any caller.                        *)

\* Manager.h:131 "@return 0 if no errors, otherwise error code" of addSource: a
\* source for which 0 was returned is served until it is removed, however soon
\* the caller adds it after removing another.
AddedIsServed == Served
=============================================================================
