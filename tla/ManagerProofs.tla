--------------------------- MODULE ManagerProofs ----------------------------
(***************************************************************************)
(* Proofs about Manager, for any number of workers, cores, sources and     *)
(* addresses.  The inductive invariant has two layers: Tables holds for    *)
(* any caller; Inv adds what holds as long as the caller is Orderly, which *)
(* is where the messages in the queue matter.                              *)
(***************************************************************************)
EXTENDS Manager, SequenceTheorems, TLAPS

\* Only workers that were created have sources, are filed, or are picked.
OnlyCreated ==
    /\ \A w \in Pool, id \in SrcId : Has(w, id) => type[w] # None
    /\ \A k \in WorkerId : workerIdWorker[k] # None => type[workerIdWorker[k]] # None
    /\ call.op = "add" => type[call.w] # None

\* The source that is being added is not in the table yet.
AddedIsNew == call.op = "add" => srcIdWorker[call.id] = None

Tables ==
    /\ TypeOK
    /\ SourceTableExact
    /\ PortsDisjoint
    /\ FiledUnderOwnId
    /\ OnlyCreated
    /\ AddedIsNew

\* Identifiers have been given in ascending order: those of workers with sources
\* are in the past.
IdsAscend ==
    /\ \A w \in Pool : type[w] # None => workerId[w] <= currentWorkerId
    /\ \A w \in Pool : Ports(w) # {} => workerId[w] < currentWorkerId

\* There is no message when a source is added or the handler removes the queue.
QueueEmpty == handler = "starting" \/ call.op = "add" => queue = << >>

\* A message is about a worker that has no sources left.
MessagesOfEmpty ==
    \A i \in 1..Len(queue), w \in Pool : Ports(w) # {} => workerId[w] # queue[i]

\* A worker in the table runs, or the message that will take it out is in the queue.
KnownRuns ==
    \A k \in WorkerId : workerIdWorker[k] # None =>
        \/ thread[workerIdWorker[k]] = "running"
        \/ \E i \in 1..Len(queue) : queue[i] = k

\* The worker picked for a source runs, has the identifier to itself, and has the
\* source's port if a worker of its type has it.
PickedWell ==
    call.op = "add" =>
        /\ thread[call.w] = "running"
        /\ \/ workerIdWorker[workerId[call.w]] = call.w
           \/ workerId[call.w] = currentWorkerId
        /\ \A v \in Pool : type[v] = type[call.w] /\ PortOf(call.a) \in Ports(v)
                            => PortOf(call.a) \in Ports(call.w)

Ordered ==
    /\ IdsAscend
    /\ QueueEmpty
    /\ MessagesOfEmpty
    /\ KnownRuns
    /\ PickedWell
    /\ \A w \in Pool : Ports(w) # {} => workerIdWorker[workerId[w]] = w
    /\ Served

Inv == Tables /\ (Orderly => Ordered)

-----------------------------------------------------------------------------
(* Facts about the types.                                                  *)

\* A call that adds a source names a worker, an identifier and an address.
LEMMA AddCall ==
    ASSUME TypeOK, call.op = "add"
    PROVE  call.w \in Pool /\ call.id \in SrcId /\ call.a \in Addr
BY DEF TypeOK, Calls, Idle

\* A call that waits for a thread names its worker.
LEMMA JoinCall ==
    ASSUME TypeOK, call.op = "join"
    PROVE  call.w \in Pool
BY DEF TypeOK, Calls, Idle

\* No source is being added or waited for when the caller is idle.
LEMMA IdleCall == Idle.op # "add" /\ Idle.op # "join"
BY DEF Idle

\* The identifier that follows is an identifier.
LEMMA nextWorkerIdType ==
    ASSUME currentWorkerId \in WorkerId
    PROVE  /\ nextWorkerId \in WorkerId
           /\ currentWorkerId \in Nat
           /\ currentWorkerId + 1 < MaxWorkers => nextWorkerId = currentWorkerId + 1
BY ManagerAssumption DEF nextWorkerId, WorkerId

\* A port of a worker is that of one of its sources.
LEMMA PortsElement ==
    ASSUME NEW w \in Pool, NEW p
    PROVE  p \in Ports(w) <=> \E id \in SrcId : Has(w, id) /\ PortOf(lists[w][id]) = p
BY DEF Ports

\* Only the sources of a worker determine its ports.
LEMMA SamePorts ==
    ASSUME UNCHANGED lists
    PROVE  /\ \A w \in Pool : Ports(w)' = Ports(w)
           /\ \A w \in Pool, id \in SrcId : Has(w, id)' <=> Has(w, id)
BY DEF Ports, Has

\* A source that is added gives its worker its port, and no worker another one.
LEMMA PortsGrow ==
    ASSUME TypeOK, NEW w \in Pool, NEW id \in SrcId, NEW a \in Addr,
           ~ Has(w, id), lists' = [lists EXCEPT ![w][id] = a]
    PROVE  \A v \in Pool : Ports(v)' = IF v = w THEN Ports(v) \cup {PortOf(a)} ELSE Ports(v)
<1>1. \A v \in Pool, i \in SrcId :
        lists'[v][i] = IF v = w /\ i = id THEN a ELSE lists[v][i]
  BY DEF TypeOK
<1>2. a # None
  BY ManagerAssumption
<1> QED
  BY <1>1, <1>2 DEF Ports, Has

\* A source that is removed gives no worker a port.
LEMMA PortsShrink ==
    ASSUME TypeOK, NEW w \in Pool, NEW id \in SrcId,
           lists' = [lists EXCEPT ![w][id] = None]
    PROVE  \A v \in Pool : Ports(v)' \subseteq Ports(v)
<1>1. \A v \in Pool, i \in SrcId :
        lists'[v][i] = IF v = w /\ i = id THEN None ELSE lists[v][i]
  BY DEF TypeOK
<1> QED
  BY <1>1 DEF Ports, Has

-----------------------------------------------------------------------------
(* The layer for any caller.                                               *)

\* What the tables say together is left alone by a step that changes neither.
LEMMA TablesKept ==
    ASSUME Tables, UNCHANGED <<srcIdWorker, workerIdWorker, lists, workerId, type>>,
           TypeOK', call' = call \/ call'.op # "add"
    PROVE  Tables'
BY DEF Tables, SourceTableExact, PortsDisjoint, FiledUnderOwnId, OnlyCreated, AddedIsNew,
       Has, Ports

\* A manager without workers has consistent tables.
LEMMA TablesInit ==
    ASSUME Init
    PROVE  Tables
<1>1. TypeOK
  <2>1. 0 \in WorkerId /\ Idle \in Calls
    BY DEF WorkerId, Calls
  <2>2. << >> \in Seq(WorkerId)
    BY EmptySeq
  <2> QED
    BY <2>1, <2>2 DEF Init, TypeOK
<1>2. \A w \in Pool, id \in SrcId : ~ Has(w, id)
  BY DEF Init, Has
<1>3. \A w \in Pool : Ports(w) = {}
  BY <1>2 DEF Ports
<1> QED
  BY <1>1, <1>2, <1>3, IdleCall, ManagerAssumption
  DEF Init, Tables, SourceTableExact, PortsDisjoint, FiledUnderOwnId, OnlyCreated, AddedIsNew

\* The worker of a source is picked from the table or created.
LEMMA getWorkerTables ==
    ASSUME Tables, NEW t \in Type, NEW id \in SrcId, NEW a \in Addr, getWorker(t, id, a)
    PROVE  Tables'
<1>1. PICK w \in Pool :
        /\ \/ w \in Candidates(t, PortOf(a)) /\ UNCHANGED <<type, workerId, thread>>
           \/ Candidates(t, PortOf(a)) = {} /\ createWorker(t, w)
        /\ call' = [op |-> "add", w |-> w, id |-> id, a |-> a]
  BY DEF getWorker
<1>2. /\ UNCHANGED <<srcIdWorker, workerIdWorker, currentWorkerId, lists, null, queue,
                     handler, ret, wrapped>>
      /\ srcIdWorker[id] = None
      /\ hasty' \in BOOLEAN
  BY DEF getWorker, callOnSource, tables, Tables, TypeOK
<1>3. call' \in Calls
  BY <1>1 DEF Calls
<1>4. CASE w \in Candidates(t, PortOf(a)) /\ UNCHANGED <<type, workerId, thread>>
  <2>1. w \in Known /\ type[w] = t
    BY <1>4 DEF Candidates
  <2>2. type[w] # None
    BY <2>1, ManagerAssumption
  <2>3. TypeOK'
    BY <1>2, <1>3, <1>4 DEF Tables, TypeOK
  <2> QED
    BY <1>1, <1>2, <1>4, <2>2, <2>3, SamePorts
    DEF Tables, SourceTableExact, PortsDisjoint, FiledUnderOwnId, OnlyCreated, AddedIsNew
<1>5. CASE createWorker(t, w)
  <2>1. TypeOK'
    BY <1>2, <1>3, <1>5 DEF Tables, TypeOK, createWorker
  <2>2. /\ type[w] = None
        /\ \A v \in Pool : v # w => type'[v] = type[v] /\ workerId'[v] = workerId[v]
        /\ type'[w] = t
    BY <1>5 DEF createWorker, Tables, TypeOK
  <2>3. \A k \in WorkerId : workerIdWorker[k] # w
    BY <2>2, ManagerAssumption DEF Tables, OnlyCreated, TypeOK
  <2>4. FiledUnderOwnId'
    BY <1>2, <2>2, <2>3 DEF Tables, FiledUnderOwnId, TypeOK
  <2>5. OnlyCreated'
    BY <1>1, <1>2, <2>2, ManagerAssumption, SamePorts DEF Tables, OnlyCreated, TypeOK
  <2> QED
    BY <1>1, <1>2, <2>1, <2>4, <2>5, SamePorts
    DEF Tables, SourceTableExact, PortsDisjoint, AddedIsNew
<1> QED
  BY <1>1, <1>4, <1>5

\* A source enters its worker and the table together, or neither.
LEMMA addSourceTables ==
    ASSUME Tables, addSource
    PROVE  Tables'
<1>1. /\ call.op = "add"
      /\ call' = Idle
      /\ UNCHANGED <<type, workerId, null, thread, queue, handler, hasty>>
  BY DEF addSource
<1>2. call.w \in Pool /\ call.id \in SrcId /\ call.a \in Addr
  BY <1>1, AddCall DEF Tables
<1>3. CASE /\ ~ SourceAccepted(call.w, call.a)
           /\ ret' = -1
           /\ UNCHANGED <<tables, lists, wrapped>>
  <2>1. TypeOK'
    BY <1>1, <1>3 DEF Tables, TypeOK, tables, Calls
  <2> QED
    BY <1>1, <1>3, <2>1, TablesKept, IdleCall DEF tables
<1>4. CASE /\ SourceAccepted(call.w, call.a)
           /\ lists' = [lists EXCEPT ![call.w][call.id] = call.a]
           /\ srcIdWorker' = [srcIdWorker EXCEPT ![call.id] = call.w]
           /\ workerIdWorker' = filed(call.w)
           /\ currentWorkerId' = nextWorkerId
           /\ wrapped' = (wrapped \/ currentWorkerId + 1 >= MaxWorkers)
           /\ ret' = 0
  <2>1. workerId[call.w] \in WorkerId
    BY <1>2 DEF Tables, TypeOK
  <2>2. TypeOK'
    BY <1>1, <1>2, <1>4, <2>1, nextWorkerIdType DEF Tables, TypeOK, filed, Calls
  <2>3. srcIdWorker[call.id] = None
    BY <1>1 DEF Tables, AddedIsNew
  <2>4. \A v \in Pool : ~ Has(v, call.id)
    BY <1>2, <2>3, ManagerAssumption DEF Tables, SourceTableExact
  <2>5. /\ \A v \in Pool, i \in SrcId :
              lists'[v][i] = IF v = call.w /\ i = call.id THEN call.a ELSE lists[v][i]
        /\ \A i \in SrcId : srcIdWorker'[i] = IF i = call.id THEN call.w ELSE srcIdWorker[i]
        /\ \A k \in WorkerId :
              workerIdWorker'[k] = IF k = workerId[call.w] THEN call.w ELSE workerIdWorker[k]
    BY <1>2, <1>4 DEF Tables, TypeOK, filed
  <2>6. call.a # None
    BY <1>2, ManagerAssumption
  <2>7. \A v \in Pool, i \in SrcId :
          Has(v, i)' <=> Has(v, i) \/ (v = call.w /\ i = call.id)
    BY <2>5, <2>6 DEF Has
  <2>8. SourceTableExact'
    BY <1>2, <2>3, <2>4, <2>5, <2>7 DEF Tables, SourceTableExact
  <2>9. PortsDisjoint'
    <3>1. \A v \in Pool : Ports(v)' = IF v = call.w THEN Ports(v) \cup {PortOf(call.a)} ELSE Ports(v)
      BY <1>2, <1>4, <2>4, PortsGrow DEF Tables
    <3>2. PortGranted(call.w, PortOf(call.a))
      BY <1>4 DEF SourceAccepted
    <3>3. \A v \in Pool : v # call.w => PortOf(call.a) \notin Ports(v)
      BY <1>2, <3>2 DEF PortGranted, Tables, PortsDisjoint
    <3> QED
      BY <3>1, <3>3 DEF Tables, PortsDisjoint
  <2>10. FiledUnderOwnId'
    BY <1>1, <1>2, <2>5 DEF Tables, FiledUnderOwnId
  <2>11. OnlyCreated'
    BY <1>1, <1>2, <2>5, <2>7, IdleCall DEF Tables, OnlyCreated
  <2>12. AddedIsNew'
    BY <1>1, IdleCall DEF AddedIsNew
  <2> QED
    BY <2>2, <2>8, <2>9, <2>10, <2>11, <2>12 DEF Tables
<1> QED
  BY <1>3, <1>4 DEF addSource

\* A source leaves its worker and the table together.
LEMMA removeSourceTables ==
    ASSUME Tables, NEW id \in SrcId, removeSource(id)
    PROVE  Tables'
<1> DEFINE w == srcIdWorker[id]
<1>1. /\ call = Idle
      /\ w # None
      /\ srcIdWorker' = [srcIdWorker EXCEPT ![id] = None]
      /\ lists' = [lists EXCEPT ![w][id] = None]
      /\ ret' = 0
      /\ UNCHANGED <<workerIdWorker, currentWorkerId, type, workerId, null, handler, wrapped>>
      /\ hasty' \in BOOLEAN
  BY DEF removeSource, callOnSource, forget, Tables, TypeOK
<1>2. w \in Pool
  BY <1>1 DEF Tables, TypeOK
<1>3. /\ queue' \in Seq(WorkerId)
      /\ thread' \in [Pool -> {"none", "running", "stopping", "ended"}]
      /\ call' \in Calls
      /\ call'.op # "add"
  <2>1. CASE UNCHANGED <<queue, thread, call>>
    BY <1>1, <2>1, IdleCall DEF Tables, TypeOK
  <2>2. CASE /\ queue' = Append(queue, workerId[w])
             /\ thread' = stopped(w)
             /\ call' = [op |-> "join", w |-> w]
    <3>1. workerId[w] \in WorkerId /\ queue \in Seq(WorkerId)
      BY <1>2 DEF Tables, TypeOK
    <3>2. queue' \in Seq(WorkerId)
      BY <2>2, <3>1, AppendProperties
    <3>3. thread' \in [Pool -> {"none", "running", "stopping", "ended"}]
      BY <1>2, <2>2 DEF stopped, Tables, TypeOK
    <3>4. call' \in Calls /\ call'.op # "add"
      BY <1>2, <2>2 DEF Calls
    <3> QED
      BY <3>2, <3>3, <3>4
  <2> QED
    BY <2>1, <2>2 DEF removeSource
<1>4. TypeOK'
  BY <1>1, <1>2, <1>3 DEF Tables, TypeOK
<1>5. /\ \A v \in Pool, i \in SrcId :
            lists'[v][i] = IF v = w /\ i = id THEN None ELSE lists[v][i]
      /\ \A i \in SrcId : srcIdWorker'[i] = IF i = id THEN None ELSE srcIdWorker[i]
  BY <1>1, <1>2 DEF Tables, TypeOK
<1>6. SourceTableExact'
  BY <1>2, <1>5, ManagerAssumption DEF Tables, SourceTableExact, Has
<1>7. PortsDisjoint'
  BY <1>1, <1>2, PortsShrink DEF Tables, PortsDisjoint
<1>8. OnlyCreated'
  BY <1>1, <1>3, <1>5 DEF Tables, OnlyCreated, Has
<1> QED
  BY <1>1, <1>3, <1>4, <1>6, <1>7, <1>8 DEF Tables, FiledUnderOwnId, AddedIsNew

\* An identifier in a message is erased; the worker under it is not changed.
LEMMA messageHandlerTables ==
    ASSUME Tables, messageHandler
    PROVE  Tables'
<1>1. /\ queue # << >>
      /\ workerIdWorker' = [workerIdWorker EXCEPT ![Head(queue)] = None]
      /\ queue' = Tail(queue)
      /\ UNCHANGED <<srcIdWorker, currentWorkerId, workers, handler, call, ret, history>>
  BY DEF messageHandler, erased
<1>2. Head(queue) \in WorkerId /\ Tail(queue) \in Seq(WorkerId)
  BY <1>1, HeadTailProperties DEF Tables, TypeOK
<1>3. TypeOK'
  BY <1>1, <1>2 DEF Tables, TypeOK, workers, history
<1>4. \A k \in WorkerId : workerIdWorker'[k] # None => workerIdWorker'[k] = workerIdWorker[k]
  BY <1>1, <1>2 DEF Tables, TypeOK
<1> QED
  BY <1>1, <1>3, <1>4, SamePorts
  DEF Tables, SourceTableExact, PortsDisjoint, FiledUnderOwnId, OnlyCreated, AddedIsNew, workers

\* Every step of every thread keeps them so.
LEMMA TablesStep ==
    ASSUME Tables, [Next]_vars
    PROVE  Tables'
<1>1. ASSUME NEW t \in Type, NEW id \in SrcId, NEW a \in Addr, getWorker(t, id, a)
      PROVE  Tables'
  BY <1>1, getWorkerTables
<1>2. CASE addSource
  BY <1>2, addSourceTables
<1>3. ASSUME NEW id \in SrcId, removeSource(id)
      PROVE  Tables'
  BY <1>3, removeSourceTables
<1>4. ASSUME NEW id \in SrcId, callOnDestination(id) \/ unknownSource(id)
      PROVE  Tables'
  <2>1. TypeOK'
    BY <1>4 DEF callOnDestination, unknownSource, Tables, TypeOK, tables, workers, history
  <2> QED
    BY <1>4, <2>1, TablesKept DEF callOnDestination, unknownSource, tables, workers
<1>5. CASE join
  <2>1. TypeOK'
    BY <1>5 DEF join, Tables, TypeOK, tables, workers, history, Calls
  <2> QED
    BY <1>5, <2>1, TablesKept, IdleCall DEF join, tables, workers
<1>6. ASSUME NEW w \in Pool, runEnds(w) \/ stranger(w)
      PROVE  Tables'
  <2>1. TypeOK'
    BY <1>6 DEF runEnds, stranger, Tables, TypeOK, tables, history
  <2> QED
    BY <1>6, <2>1, TablesKept DEF runEnds, stranger, tables
<1>7. CASE handlerStarts
  <2>1. TypeOK'
    BY <1>7 DEF handlerStarts, Tables, TypeOK, tables, workers, history
  <2> QED
    BY <1>7, <2>1, TablesKept DEF handlerStarts, tables, workers
<1>8. CASE messageHandler
  BY <1>8, messageHandlerTables
<1>9. CASE UNCHANGED vars
  <2>1. TypeOK'
    BY <1>9 DEF Tables, TypeOK, vars, tables, workers, history
  <2> QED
    BY <1>9, <2>1, TablesKept DEF vars, tables, workers
<1> QED
  BY <1>1, <1>2, <1>3, <1>4, <1>5, <1>6, <1>7, <1>8, <1>9 DEF Next

\* For any caller: the manager finds a source in a worker exactly when the worker
\* has its list, no port is in two workers, and a worker is filed under its own
\* identifier.
THEOREM ManagerTablesTheorem ==
    Spec => [](TypeOK /\ SourceTableExact /\ PortsDisjoint /\ FiledUnderOwnId)
<1>1. Init => Tables
  BY TablesInit
<1>2. Tables /\ [Next]_vars => Tables'
  BY TablesStep
<1>3. Tables => TypeOK /\ SourceTableExact /\ PortsDisjoint /\ FiledUnderOwnId
  BY DEF Tables
<1> QED
  BY <1>1, <1>2, <1>3, PTL DEF Spec

-----------------------------------------------------------------------------
(* The layer for a caller that is Orderly.                                 *)

\* A worker with a source has a port.
LEMMA SourceHasPort ==
    ASSUME NEW w \in Pool, NEW id \in SrcId, Has(w, id)
    PROVE  Ports(w) # {}
BY DEF Ports

\* A worker with a port has a source, and so was created.
LEMMA PortHasWorker ==
    ASSUME Tables, NEW w \in Pool, Ports(w) # {}
    PROVE  type[w] # None
BY DEF Ports, Tables, OnlyCreated

\* What is Ordered is left alone by a step of a thread that changes no table,
\* sends and takes no message, and stops no worker.
LEMMA OrderedKept ==
    ASSUME Tables, Ordered,
           UNCHANGED <<tables, type, workerId, lists, queue>>,
           \A w \in Pool : thread[w] = "running" => thread'[w] = "running",
           handler' = handler \/ handler' = "listening",
           call' = call \/ call'.op # "add"
    PROVE  Ordered'
<1>1. \A w \in Pool : Ports(w)' = Ports(w)
  BY SamePorts
<1>2. IdsAscend' /\ QueueEmpty' /\ MessagesOfEmpty'
  BY <1>1 DEF Ordered, IdsAscend, QueueEmpty, MessagesOfEmpty, tables
<1>3. KnownRuns'
  BY DEF Ordered, KnownRuns, tables, Tables, TypeOK
<1>4. PickedWell'
  BY <1>1, AddCall DEF Ordered, PickedWell, tables, Tables
<1>5. Served' /\ \A w \in Pool : Ports(w)' # {} => workerIdWorker'[workerId'[w]] = w
  BY <1>1 DEF Ordered, Served, tables
<1> QED
  BY <1>2, <1>3, <1>4, <1>5 DEF Ordered

\* The worker picked for a source is a good one.
LEMMA getWorkerOrdered ==
    ASSUME Tables, Ordered, handler = "listening", queue = << >>,
           NEW t \in Type, NEW id \in SrcId, NEW a \in Addr, getWorker(t, id, a)
    PROVE  Ordered'
<1> DEFINE p == PortOf(a)
<1>1. PICK w \in Pool :
        /\ \/ w \in Candidates(t, p) /\ UNCHANGED <<type, workerId, thread>>
           \/ Candidates(t, p) = {} /\ createWorker(t, w)
        /\ call' = [op |-> "add", w |-> w, id |-> id, a |-> a]
  BY DEF getWorker
<1>2. UNCHANGED <<workerIdWorker, currentWorkerId, lists, queue, handler>>
  BY DEF getWorker, tables
<1>3. \A v \in Pool : Ports(v)' = Ports(v)
  BY <1>2, SamePorts
<1>4. QueueEmpty' /\ MessagesOfEmpty'
  BY <1>2 DEF QueueEmpty, MessagesOfEmpty
<1>5. \A k \in WorkerId : workerIdWorker[k] # None =>
        /\ thread[workerIdWorker[k]] = "running"
        /\ workerId[workerIdWorker[k]] = k
        /\ workerIdWorker[k] \in Pool
        /\ type[workerIdWorker[k]] # None
  BY DEF Ordered, KnownRuns, Tables, FiledUnderOwnId, OnlyCreated, TypeOK
<1>6. \A v \in Pool : Ports(v) # {} => v \in Known
  BY DEF Ordered, Known, Tables, TypeOK
<1>7. \A v \in Pool : type[v] = t /\ p \in Ports(v) =>
        v \in Candidates(t, p) /\ \A u \in Candidates(t, p) : p \in Ports(u)
  BY <1>6 DEF Candidates
<1>8. CASE w \in Candidates(t, p) /\ UNCHANGED <<type, workerId, thread>>
  <2>1. w \in Known /\ type[w] = t
    BY <1>8 DEF Candidates
  <2>2. thread[w] = "running" /\ workerIdWorker[workerId[w]] = w
    BY <1>5, <2>1, ManagerAssumption DEF Known
  <2>3. PickedWell'
    BY <1>1, <1>2, <1>3, <1>7, <1>8, <2>1, <2>2 DEF PickedWell
  <2>4. IdsAscend' /\ KnownRuns' /\ Served'
        /\ \A v \in Pool : Ports(v)' # {} => workerIdWorker'[workerId'[v]] = v
    BY <1>2, <1>3, <1>8 DEF Ordered, IdsAscend, KnownRuns, Served
  <2> QED
    BY <1>4, <2>3, <2>4 DEF Ordered
<1>9. CASE Candidates(t, p) = {} /\ createWorker(t, w)
  <2>1. /\ type[w] = None
        /\ type'[w] = t /\ workerId'[w] = currentWorkerId /\ thread'[w] = "running"
        /\ \A v \in Pool : v # w => /\ type'[v] = type[v]
                                    /\ workerId'[v] = workerId[v]
                                    /\ thread'[v] = thread[v]
    BY <1>9 DEF createWorker, Tables, TypeOK
  <2>2. Ports(w) = {}
    BY <2>1, PortHasWorker
  <2>3. \A k \in WorkerId : workerIdWorker[k] # w
    BY <1>5, <2>1, ManagerAssumption
  <2>4. PickedWell'
    BY <1>1, <1>2, <1>3, <1>7, <1>9, <2>1, <2>2 DEF PickedWell
  <2>5. IdsAscend'
    <3>1. currentWorkerId \in Nat
      BY nextWorkerIdType DEF Tables, TypeOK
    <3> QED
      BY <1>2, <1>3, <2>1, <2>2, <3>1 DEF Ordered, IdsAscend
  <2>6. KnownRuns'
    BY <1>2, <1>5, <2>1, <2>3 DEF KnownRuns
  <2>7. Served' /\ \A v \in Pool : Ports(v)' # {} => workerIdWorker'[workerId'[v]] = v
    BY <1>2, <1>3, <2>1, <2>2 DEF Ordered, Served
  <2> QED
    BY <1>4, <2>4, <2>5, <2>6, <2>7 DEF Ordered
<1> QED
  BY <1>1, <1>8, <1>9

\* The worker is filed over none that has a source.
LEMMA addSourceOrdered ==
    ASSUME Tables, Ordered, addSource, ~ wrapped'
    PROVE  Ordered'
<1>1. /\ call.op = "add"
      /\ call' = Idle
      /\ UNCHANGED <<type, workerId, thread, queue, handler>>
  BY DEF addSource
<1>2. call.w \in Pool /\ call.id \in SrcId /\ call.a \in Addr
  BY <1>1, AddCall DEF Tables
<1>3. CASE ~ SourceAccepted(call.w, call.a) /\ UNCHANGED <<tables, lists>>
  BY <1>1, <1>3, OrderedKept, IdleCall
<1>4. CASE /\ SourceAccepted(call.w, call.a)
           /\ lists' = [lists EXCEPT ![call.w][call.id] = call.a]
           /\ workerIdWorker' = filed(call.w)
           /\ currentWorkerId' = nextWorkerId
           /\ wrapped' = (wrapped \/ currentWorkerId + 1 >= MaxWorkers)
  <2> DEFINE w == call.w
  <2>1. ~ Has(w, call.id)
    BY <1>1, <1>2, ManagerAssumption DEF Tables, AddedIsNew, SourceTableExact
  <2>2. \A v \in Pool : Ports(v)' = IF v = w THEN Ports(v) \cup {PortOf(call.a)} ELSE Ports(v)
    BY <1>2, <1>4, <2>1, PortsGrow DEF Tables
  <2>3. \A k \in WorkerId :
          workerIdWorker'[k] = IF k = workerId[w] THEN w ELSE workerIdWorker[k]
    BY <1>2, <1>4 DEF Tables, TypeOK, filed
  <2>4. currentWorkerId \in Nat /\ currentWorkerId' = currentWorkerId + 1
    <3>1. currentWorkerId \in WorkerId
      BY DEF Tables, TypeOK
    <3>2. currentWorkerId \in Nat
      BY <3>1, nextWorkerIdType
    <3>3. currentWorkerId + 1 < MaxWorkers
      <4>1. ~ (currentWorkerId + 1 >= MaxWorkers)
        BY <1>4
      <4> QED
        BY <3>2, <4>1, ManagerAssumption
    <3> QED
      BY <1>4, <3>1, <3>2, <3>3, nextWorkerIdType
  <2>5. queue = << >> /\ queue' = << >>
    BY <1>1 DEF Ordered, QueueEmpty
  <2>6. /\ type[w] # None
        /\ thread[w] = "running"
        /\ \/ workerIdWorker[workerId[w]] = w
           \/ workerId[w] = currentWorkerId
    BY <1>1, <1>2 DEF Ordered, PickedWell, Tables, OnlyCreated
  <2>7. \A v \in Pool : workerId[v] \in WorkerId /\ workerId[v] \in Int
    BY ManagerAssumption DEF Tables, TypeOK, WorkerId
  <2>8. IdsAscend'
    <3>1. ASSUME NEW v \in Pool, type[v] # None
          PROVE  workerId[v] <= currentWorkerId /\ workerId[v] < currentWorkerId + 1
      <4>1. workerId[v] <= currentWorkerId
        BY <3>1 DEF Ordered, IdsAscend
      <4> QED
        BY <4>1, <2>4, <2>7
    <3>2. ASSUME NEW v \in Pool, Ports(v)' # {}
          PROVE  type[v] # None
      BY <2>2, <2>6, <3>2, PortHasWorker
    <3> QED
      BY <1>1, <2>4, <2>7, <3>1, <3>2 DEF IdsAscend
  <2>9. QueueEmpty' /\ MessagesOfEmpty' /\ PickedWell'
    BY <1>1, <2>5, IdleCall DEF QueueEmpty, MessagesOfEmpty, PickedWell
  <2>10. KnownRuns'
    BY <1>1, <2>3, <2>5, <2>6 DEF Ordered, KnownRuns
  <2>11. \A v \in Pool : Ports(v)' # {} => workerIdWorker'[workerId'[v]] = v
    <3> SUFFICES ASSUME NEW v \in Pool, Ports(v)' # {}
                 PROVE  workerIdWorker'[workerId[v]] = v
      BY <1>1
    <3>1. CASE v = w
      BY <1>2, <2>3, <2>7, <3>1
    <3>2. CASE v # w
      <4>1. /\ Ports(v) # {}
            /\ workerIdWorker[workerId[v]] = v
            /\ workerId[v] < currentWorkerId
        BY <2>2, <3>2 DEF Ordered, IdsAscend
      <4>2. workerId[v] # workerId[w]
        BY <2>4, <2>6, <2>7, <3>2, <4>1
      <4> QED
        BY <2>3, <2>7, <4>1, <4>2
    <3> QED
      BY <3>1, <3>2
  <2>12. Served'
    BY <1>1, <2>2, <2>6 DEF Ordered, Served
  <2> QED
    BY <2>8, <2>9, <2>10, <2>11, <2>12 DEF Ordered
<1> QED
  BY <1>3, <1>4 DEF addSource, tables

\* A worker that is stopped has no source left, and its message finds it.
LEMMA removeSourceOrdered ==
    ASSUME Tables, Ordered, handler = "listening", queue = << >>,
           NEW id \in SrcId, removeSource(id)
    PROVE  Ordered'
<1>1. PICK w \in Pool :
        /\ w = srcIdWorker[id]
        /\ lists' = [lists EXCEPT ![w][id] = None]
        /\ UNCHANGED <<workerIdWorker, currentWorkerId, type, workerId, handler>>
        /\ call = Idle
  BY DEF removeSource, callOnSource, Tables, TypeOK
<1>2. Has(w, id)
  BY <1>1 DEF Tables, SourceTableExact
<1>3. \A v \in Pool : Ports(v)' \subseteq Ports(v)
  BY <1>1, <1>2, PortsShrink DEF Tables
<1>4. IdsAscend'
  BY <1>1, <1>3 DEF Ordered, IdsAscend
<1>5. \A v \in Pool : Ports(v)' # {} =>
        /\ Ports(v) # {}
        /\ workerIdWorker[workerId[v]] = v
        /\ thread[v] = "running"
  BY <1>3 DEF Ordered, Served
<1>6. CASE UNCHANGED <<queue, thread, call>>
  <2>1. QueueEmpty' /\ MessagesOfEmpty' /\ PickedWell'
    BY <1>1, <1>6, IdleCall DEF QueueEmpty, MessagesOfEmpty, PickedWell
  <2>2. KnownRuns'
    BY <1>1, <1>6 DEF Ordered, KnownRuns
  <2>3. Served' /\ \A v \in Pool : Ports(v)' # {} => workerIdWorker'[workerId'[v]] = v
    BY <1>1, <1>5, <1>6 DEF Served
  <2> QED
    BY <1>4, <2>1, <2>2, <2>3 DEF Ordered
<1>7. CASE /\ EmptyWithout(w, id)
           /\ queue' = Append(queue, workerId[w])
           /\ thread' = stopped(w)
           /\ call' = [op |-> "join", w |-> w]
  <2>1. Ports(w)' = {}
    <3>1. \A i \in SrcId : lists'[w][i] = None
      BY <1>1, <1>2, <1>7 DEF EmptyWithout, Has, Tables, TypeOK
    <3> QED
      BY <3>1 DEF Ports, Has
  <2>2. workerIdWorker[workerId[w]] = w
    BY <1>2, SourceHasPort DEF Ordered
  <2>3. Len(queue') = 1 /\ queue'[1] = workerId[w]
    <3>1. workerId[w] \in WorkerId /\ queue \in Seq(WorkerId) /\ Len(queue) = 0
      BY <1>2 DEF Tables, TypeOK
    <3> QED
      BY <1>7, <3>1, AppendProperties
  <2>4. \A v \in Pool : v # w => thread'[v] = thread[v]
    BY <1>7 DEF stopped, Tables, TypeOK
  <2>5. QueueEmpty' /\ PickedWell'
    BY <1>1, <1>7 DEF QueueEmpty, PickedWell
  <2>6. MessagesOfEmpty'
    BY <1>1, <1>5, <2>1, <2>2, <2>3 DEF MessagesOfEmpty
  <2>7. KnownRuns'
    <3> SUFFICES ASSUME NEW k \in WorkerId, workerIdWorker[k] # None
                 PROVE  \/ thread'[workerIdWorker[k]] = "running"
                        \/ \E i \in 1..Len(queue') : queue'[i] = k
      BY <1>1 DEF KnownRuns
    <3>1. /\ thread[workerIdWorker[k]] = "running"
          /\ workerId[workerIdWorker[k]] = k
          /\ workerIdWorker[k] \in Pool
      BY DEF Ordered, KnownRuns, Tables, FiledUnderOwnId, TypeOK
    <3> QED
      BY <2>3, <2>4, <3>1
  <2>8. Served' /\ \A v \in Pool : Ports(v)' # {} => workerIdWorker'[workerId'[v]] = v
    BY <1>1, <1>5, <2>1, <2>4 DEF Served
  <2> QED
    BY <1>4, <2>5, <2>6, <2>7, <2>8 DEF Ordered
<1> QED
  BY <1>1, <1>6, <1>7 DEF removeSource

\* The worker that is taken out of the table has no source.
LEMMA messageHandlerOrdered ==
    ASSUME Tables, Ordered, messageHandler
    PROVE  Ordered'
<1>1. /\ handler = "listening"
      /\ queue # << >>
      /\ workerIdWorker' = [workerIdWorker EXCEPT ![Head(queue)] = None]
      /\ queue' = Tail(queue)
      /\ UNCHANGED <<currentWorkerId, type, workerId, lists, thread, handler, call>>
  BY DEF messageHandler, erased, workers
<1>2. /\ queue \in Seq(WorkerId)
      /\ Head(queue) = queue[1]
      /\ Head(queue) \in WorkerId
      /\ Len(queue) \in Nat /\ Len(queue) >= 1
      /\ Len(queue') = Len(queue) - 1
      /\ \A i \in 1..Len(queue') : queue'[i] = queue[i + 1]
  <2>1. queue \in Seq(WorkerId)
    BY DEF Tables, TypeOK
  <2> QED
    BY <1>1, <2>1, HeadTailProperties
<1>3. \A v \in Pool : Ports(v)' = Ports(v)
  BY <1>1, SamePorts
<1>4. \A k \in WorkerId : workerIdWorker'[k] = IF k = Head(queue) THEN None ELSE workerIdWorker[k]
  BY <1>1, <1>2 DEF Tables, TypeOK
<1>5. call.op # "add"
  BY <1>1 DEF Ordered, QueueEmpty
<1>6. IdsAscend' /\ QueueEmpty' /\ PickedWell' /\ Served'
  BY <1>1, <1>3, <1>5 DEF Ordered, IdsAscend, QueueEmpty, PickedWell, Served
<1>7. MessagesOfEmpty'
  <2> SUFFICES ASSUME NEW i \in 1..Len(queue'), NEW v \in Pool, Ports(v) # {}
               PROVE  workerId[v] # queue'[i]
    BY <1>1, <1>3 DEF MessagesOfEmpty
  <2>1. i + 1 \in 1..Len(queue) /\ queue'[i] = queue[i + 1]
    BY <1>2
  <2> QED
    BY <2>1 DEF Ordered, MessagesOfEmpty
<1>8. KnownRuns'
  <2> SUFFICES ASSUME NEW k \in WorkerId, workerIdWorker'[k] # None,
                      thread[workerIdWorker[k]] # "running"
               PROVE  \E i \in 1..Len(queue') : queue'[i] = k
    BY <1>1, <1>4 DEF KnownRuns
  <2>1. k # Head(queue) /\ workerIdWorker[k] # None
    BY <1>4
  <2>2. PICK i \in 1..Len(queue) : queue[i] = k
    BY <2>1 DEF Ordered, KnownRuns
  <2>3. i - 1 \in 1..Len(queue') /\ queue'[i - 1] = k
    BY <1>2, <2>1, <2>2
  <2> QED
    BY <2>3
<1>9. \A v \in Pool : Ports(v)' # {} => workerIdWorker'[workerId'[v]] = v
  <2> SUFFICES ASSUME NEW v \in Pool, Ports(v) # {}
               PROVE  workerIdWorker'[workerId[v]] = v
    BY <1>1, <1>3
  <2>1. workerId[v] # queue[1] /\ workerId[v] \in WorkerId
    BY <1>2 DEF Ordered, MessagesOfEmpty, Tables, TypeOK
  <2> QED
    BY <1>2, <1>4, <2>1 DEF Ordered
<1> QED
  BY <1>6, <1>7, <1>8, <1>9 DEF Ordered

\* There is nothing to order when nothing was created.
LEMMA OrderedInit ==
    ASSUME Init
    PROVE  Ordered
<1>1. \A w \in Pool : Ports(w) = {}
  BY DEF Init, Ports, Has
<1>2. IdsAscend /\ QueueEmpty /\ MessagesOfEmpty /\ KnownRuns /\ PickedWell
  BY <1>1, IdleCall, ManagerAssumption
  DEF Init, IdsAscend, QueueEmpty, MessagesOfEmpty, KnownRuns, PickedWell
<1> QED
  BY <1>1, <1>2 DEF Ordered, Served

\* Every step after which the caller is still Orderly keeps the order.
LEMMA OrderedStep ==
    ASSUME Tables, Orderly => Ordered, [Next]_vars, Orderly'
    PROVE  Ordered'
<1>1. ASSUME NEW t \in Type, NEW id \in SrcId, NEW a \in Addr, getWorker(t, id, a)
      PROVE  Ordered'
  <2>1. Orderly /\ handler = "listening" /\ queue = << >>
    BY <1>1 DEF getWorker, callOnSource, Orderly, Tables, TypeOK
  <2> QED
    BY <1>1, <2>1, getWorkerOrdered
<1>2. CASE addSource
  <2>1. UNCHANGED hasty
    BY <1>2 DEF addSource
  <2>2. \/ wrapped' = (wrapped \/ currentWorkerId + 1 >= MaxWorkers)
        \/ wrapped' = wrapped
    BY <1>2 DEF addSource, tables
  <2>3. ~ wrapped' /\ ~ hasty
    BY <2>1 DEF Orderly
  <2>4. ~ wrapped
    <3>1. CASE wrapped' = (wrapped \/ currentWorkerId + 1 >= MaxWorkers)
      BY <2>3, <3>1
    <3>2. CASE wrapped' = wrapped
      BY <2>3, <3>2
    <3> QED
      BY <2>2, <3>1, <3>2
  <2> QED
    BY <1>2, <2>3, <2>4, addSourceOrdered DEF Orderly
<1>3. ASSUME NEW id \in SrcId, removeSource(id)
      PROVE  Ordered'
  <2>1. Orderly /\ handler = "listening" /\ queue = << >>
    BY <1>3 DEF removeSource, callOnSource, Orderly, Tables, TypeOK
  <2> QED
    BY <1>3, <2>1, removeSourceOrdered
<1>4. ASSUME NEW id \in SrcId, callOnDestination(id) \/ unknownSource(id)
      PROVE  Ordered'
  BY <1>4, OrderedKept DEF callOnDestination, unknownSource, workers, history, Orderly
<1>5. CASE join
  BY <1>5, OrderedKept, IdleCall DEF join, workers, history, Orderly
<1>6. ASSUME NEW w \in Pool, runEnds(w) \/ stranger(w)
      PROVE  Ordered'
  <2>1. /\ Orderly
        /\ UNCHANGED <<tables, type, workerId, lists, queue, handler, call>>
    BY <1>6 DEF runEnds, stranger, history, Orderly
  <2>2. \A v \in Pool : thread[v] = "running" => thread'[v] = "running"
    BY <1>6 DEF runEnds, stranger, Tables, TypeOK
  <2> QED
    BY <2>1, <2>2, OrderedKept
<1>7. CASE handlerStarts
  <2>1. Orderly /\ handler = "starting"
    BY <1>7 DEF handlerStarts, history, Orderly
  <2>2. queue' = queue
    BY <1>7, <2>1 DEF handlerStarts, Ordered, QueueEmpty
  <2> QED
    BY <1>7, <2>1, <2>2, OrderedKept DEF handlerStarts, workers
<1>8. CASE messageHandler
  BY <1>8, messageHandlerOrdered DEF messageHandler, history, Orderly
<1>9. CASE UNCHANGED vars
  BY <1>9, OrderedKept DEF vars, workers, history, Orderly
<1> QED
  BY <1>1, <1>2, <1>3, <1>4, <1>5, <1>6, <1>7, <1>8, <1>9 DEF Next

\* Both layers are kept.
LEMMA InvStep ==
    ASSUME Inv, [Next]_vars
    PROVE  Inv'
BY TablesStep, OrderedStep DEF Inv

\* A caller that has waited for the handler before it adds or removes a source
\* finds each of its sources in a worker that runs and is in the table, until
\* workers' identifiers wrap around.
THEOREM ManagerOrderlyTheorem ==
    Spec => [](WorkersKnown /\ SourcesServed)
<1>1. Init => Inv
  BY TablesInit, OrderedInit DEF Inv
<1>2. Inv /\ [Next]_vars => Inv'
  BY InvStep
<1>3. Inv => WorkersKnown /\ SourcesServed
  BY DEF Inv, Ordered, WorkersKnown, SourcesServed
<1> QED
  BY <1>1, <1>2, <1>3, PTL DEF Spec

\* What addSource refuses: an address that is registered, a port that somebody else
\* has bound, or a port of a worker of another type.
Refused ==
    Orderly /\ call.op = "add" /\ call' = Idle /\ ret' = -1
        => \/ \E i \in SrcId : lists[call.w][i] = call.a
           \/ PortOf(call.a) \in Occupied
           \/ \E w \in Pool : /\ PortOf(call.a) \in Ports(w)
                              /\ type[w] # type[call.w]

\* A step that refuses a source has one of the three causes.
LEMMA RefusedStep ==
    ASSUME Inv, [Next]_vars
    PROVE  Refused
<1> SUFFICES ASSUME Orderly, call.op = "add", call' = Idle, ret' = -1
             PROVE  \/ \E i \in SrcId : lists[call.w][i] = call.a
                    \/ PortOf(call.a) \in Occupied
                    \/ \E w \in Pool : /\ PortOf(call.a) \in Ports(w)
                                       /\ type[w] # type[call.w]
  BY DEF Refused
<1>1. addSource
  <2>1. call # Idle /\ call' # call
    BY IdleCall
  <2> QED
    BY <2>1 DEF Next, vars, workers, getWorker, removeSource, callOnSource, callOnDestination,
                unknownSource, join, runEnds, stranger, handlerStarts, messageHandler
<1>2. ~ SourceAccepted(call.w, call.a)
  BY <1>1 DEF addSource
<1>3. ASSUME NEW v \in Pool, PortOf(call.a) \in Ports(v), type[v] = type[call.w]
      PROVE  PortOf(call.a) \in Ports(call.w)
  BY <1>3 DEF Inv, Ordered, PickedWell
<1> QED
  BY <1>2, <1>3 DEF SourceAccepted, PortGranted

\* For a caller that has waited, a source is refused for its address or its port
\* only: a worker of the type that has the port would have been picked.
THEOREM RefusedTheorem ==
    Spec => RefusedForCause
<1>1. Init => Inv
  BY TablesInit, OrderedInit DEF Inv
<1>2. Inv /\ [Next]_vars => Inv' /\ Refused
  BY InvStep, RefusedStep
<1> QED
  BY <1>1, <1>2, PTL DEF Spec, RefusedForCause, Refused

-----------------------------------------------------------------------------
(* What StoppedForgotten rests on: a stopped worker's message is on the    *)
(* way, and nothing but the handler's reading moves it.                    *)

\* A worker in the table that does not run any more.
Lingers(w) == w \in Known /\ thread[w] # "running"

StoppedHasMessage ==
    Orderly => \A w \in Pool : Lingers(w) => \E i \in 1..Len(queue) : queue[i] = workerId[w]

\* The i-th message is about the worker.
MessageAt(w, i) == i \in 1..Len(queue) /\ queue[i] = workerId[w]

\* Once the handler listens a message keeps its place or moves up by one, and is the first
\* when it is read; then the worker is in the table no more.
MessagesAdvance ==
    handler = "listening" =>
        \A w \in Pool, i \in Nat : w \in Known /\ MessageAt(w, i) =>
            w \notin Known' \/ MessageAt(w, i)' \/ MessageAt(w, i - 1)'

LEMMA AdvanceStep ==
    ASSUME Tables, [Next]_vars
    PROVE  MessagesAdvance
<1> SUFFICES ASSUME handler = "listening",
                    NEW w \in Pool, NEW i \in Nat, w \in Known, MessageAt(w, i)
             PROVE  w \notin Known' \/ MessageAt(w, i)' \/ MessageAt(w, i - 1)'
  BY DEF MessagesAdvance
<1>1. /\ i \in 1..Len(queue) /\ queue[i] = workerId[w]
      /\ queue \in Seq(WorkerId) /\ Len(queue) \in Nat /\ queue # << >>
  BY LenProperties DEF MessageAt, Tables, TypeOK
<1>2. /\ type[w] # None
      /\ \E k \in WorkerId : workerIdWorker[k] = w
      /\ \A k \in WorkerId : workerIdWorker[k] = w => k = workerId[w]
  BY ManagerAssumption DEF Known, Tables, OnlyCreated, FiledUnderOwnId
<1>3. CASE UNCHANGED <<queue, workerId>>
  BY <1>1, <1>3 DEF MessageAt
<1>4. ASSUME NEW t \in Type, NEW id \in SrcId, NEW a \in Addr, getWorker(t, id, a)
      PROVE  MessageAt(w, i)'
  <2>1. queue' = queue /\ workerId'[w] = workerId[w]
    <3>1. PICK v \in Pool : UNCHANGED workerId \/ createWorker(t, v)
      BY <1>4 DEF getWorker
    <3>2. CASE UNCHANGED workerId
      BY <1>4, <3>2 DEF getWorker
    <3>3. CASE createWorker(t, v)
      <4>1. v # w /\ workerId' = [workerId EXCEPT ![v] = currentWorkerId]
        BY <1>2, <3>3 DEF createWorker
      <4>2. queue' = queue
        BY <1>4 DEF getWorker
      <4> QED BY <4>1, <4>2 DEF Tables, TypeOK
    <3> QED BY <3>1, <3>2, <3>3
  <2> QED BY <1>1, <2>1 DEF MessageAt
<1>5. ASSUME NEW id \in SrcId, removeSource(id)
      PROVE  MessageAt(w, i)'
  <2>1. /\ workerId' = workerId
        /\ queue' = queue \/ \E k : queue' = Append(queue, k)
    BY <1>5 DEF removeSource
  <2>2. ASSUME NEW k, queue' = Append(queue, k)
        PROVE  i \in 1..Len(queue') /\ queue'[i] = queue[i]
    BY <1>1, <2>2
  <2> QED BY <1>1, <2>1, <2>2 DEF MessageAt
<1>6. CASE handlerStarts
  BY <1>6 DEF handlerStarts
<1>7. CASE messageHandler
  <2>1. /\ workerIdWorker' = [workerIdWorker EXCEPT ![Head(queue)] = None]
        /\ queue' = Tail(queue)
        /\ workerId' = workerId
    BY <1>7 DEF messageHandler, erased, workers
  <2>2. CASE i = 1
    <3>1. Head(queue) = workerId[w] /\ workerId[w] \in WorkerId
      BY <1>1, <2>2 DEF Tables, TypeOK
    <3>2. workerIdWorker \in [WorkerId -> Pool \cup {None}] /\ w # None
      BY ManagerAssumption DEF Tables, TypeOK
    <3>3. \A k \in WorkerId : workerIdWorker'[k] # w
      BY <1>2, <2>1, <3>1, <3>2
    <3> QED BY <3>3 DEF Known
  <2>3. CASE i # 1
    <3>1. /\ Len(queue') = Len(queue) - 1
          /\ \A j \in 1..Len(queue') : queue'[j] = queue[j + 1]
      BY <1>1, <2>1, HeadTailProperties
    <3>2. i - 1 \in 1..Len(queue') /\ (i - 1) + 1 = i
      BY <1>1, <2>3, <3>1
    <3>3. queue'[i - 1] = queue[i]
      BY <3>1, <3>2
    <3> QED BY <1>1, <2>1, <3>2, <3>3 DEF MessageAt
  <2> QED BY <2>2, <2>3
<1>8. CASE addSource \/ join \/ UNCHANGED vars
  BY <1>3, <1>8 DEF addSource, join, vars, workers
<1>9. ASSUME NEW id \in SrcId, callOnDestination(id) \/ unknownSource(id)
      PROVE  MessageAt(w, i)'
  <2>1. UNCHANGED <<queue, workerId>>
    BY <1>9 DEF callOnDestination, unknownSource, workers
  <2> QED BY <1>1, <2>1 DEF MessageAt
<1>10. ASSUME NEW v \in Pool, runEnds(v) \/ stranger(v)
       PROVE  MessageAt(w, i)'
  <2>1. UNCHANGED <<queue, workerId>>
    BY <1>10 DEF runEnds, stranger
  <2> QED BY <1>1, <2>1 DEF MessageAt
<1> QED BY <1>4, <1>5, <1>6, <1>7, <1>8, <1>9, <1>10 DEF Next

\* A worker that is stopped and still in the table has its message in the queue, for a
\* caller that waits for the handler: Worker::removeSource sends it before stop(), and
\* neither the handler's start nor a message about another worker loses it.
THEOREM StoppedTheorem ==
    Spec => []StoppedHasMessage
<1>1. Init => Inv
  BY TablesInit, OrderedInit DEF Inv
<1>2. Inv /\ [Next]_vars => Inv'
  BY InvStep
<1>3. Inv => StoppedHasMessage
  <2> SUFFICES ASSUME Inv, Ordered, NEW w \in Pool, Lingers(w)
               PROVE  \E i \in 1..Len(queue) : queue[i] = workerId[w]
    BY DEF Inv, StoppedHasMessage
  <2>1. PICK k \in WorkerId : workerIdWorker[k] = w
    BY DEF Lingers, Known
  <2>2. w # None
    BY ManagerAssumption
  <2>3. workerId[w] = k
    BY <2>1, <2>2 DEF Inv, Tables, FiledUnderOwnId
  <2> QED BY <2>1, <2>2, <2>3 DEF Lingers, Ordered, KnownRuns
<1> QED BY <1>1, <1>2, <1>3, PTL DEF Spec

\* The handler comes to it after as many readings as there are messages before it: for
\* any caller, no step of anybody but the handler's start loses a message or puts it back,
\* and the reading of it takes the worker out.
THEOREM AdvanceTheorem ==
    Spec => [][MessagesAdvance]_vars
<1>1. Tables /\ [Next]_vars => Tables' /\ MessagesAdvance
  BY TablesStep, AdvanceStep
<1> QED BY <1>1, TablesInit, PTL DEF Spec
=============================================================================
