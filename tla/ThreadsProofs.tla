--------------------------- MODULE ThreadsProofs ----------------------------
(***************************************************************************)
(* Proofs about WorkerThreads, for any number of addresses, descriptors,   *)
(* identifiers and additions.  The inductive invariant says what the       *)
(* tables and the sockets are between any two steps of a call, whatever    *)
(* run() does in the meantime, and, as long as no source is added after    *)
(* one has been removed, what run() knows of the sockets and the tables it *)
(* has read.                                                               *)
(***************************************************************************)
EXTENDS WorkerThreads, FiniteSets, FiniteSetTheorems, TLAPS

\* Where addSource is, and removeSource; and those places that have a socket open
\* which no listener is counted for.
Adding == {"portFd", "fdPort", "manage", "forward"}
Removing == {"erase fdPort", "close", "unforward", "unmanage"}
Uncounted == {"portFd", "fdPort", "erase fdPort", "close"}
In(S) == caller.at \in S

\* The sources that portListener counts for a port.
Counted(p) ==
    {id \in SrcId : \/ /\ IsList(id) /\ management[id][2] = p
                       /\ ~ (In(Removing) /\ id = caller.id)
                    \/ At("manage") /\ id = caller.id /\ PortOfCall = p}

Counts == \A p \in Port : IsFiniteSet(Counted(p)) /\ portListener[p] = Cardinality(Counted(p))

\* A port has one socket; portFd, fdPort and portListener tell of the same sockets but
\* for the entry that the call in progress is about to write.
Sockets ==
    /\ \A f \in Fd, g \in Fd : sock[f] \in Port /\ sock[g] = sock[f] => f = g
    /\ \A p \in Port : portFd[p] # NoFd => sock[portFd[p]] = p
    /\ \A f \in Fd : fdPort[f] # 0 => sock[f] = fdPort[f]
    /\ \A p \in Port : portFd[p] # NoFd =>
            fdPort[portFd[p]] = p \/ (At("fdPort") /\ p = PortOfCall)
    /\ \A f \in Fd : fdPort[f] # 0 =>
            portFd[fdPort[f]] = f \/ (At("erase fdPort") /\ f = caller.fd)
    /\ \A p \in Port : portFd[p] # NoFd <=>
            portListener[p] # 0 \/ (At("fdPort") /\ p = PortOfCall)
    /\ In(Uncounted) => /\ caller.fd \in Fd /\ sock[caller.fd] = PortOfCall
                        /\ portListener[PortOfCall] = 0
    /\ At("fdPort") => portFd[PortOfCall] = caller.fd
    /\ At("close") => fdPort[caller.fd] = 0

\* forwarding and management tell of the same sources but for that of the call.
Lists ==
    /\ ~ IsList(0)
    /\ \A a \in Addr : forwarding[a] # 0 => management[forwarding[a]] = a
    /\ \A id \in ListId : IsList(id) =>
            forwarding[management[id]] = id \/ (In({"forward", "unmanage"}) /\ id = caller.id)
    /\ In({"portFd", "fdPort", "manage"}) => ~ IsList(caller.id)
    /\ In(Removing \cup {"forward"}) => management[caller.id] = caller.a
    /\ In(Adding \cup {"unmanage"}) => forwarding[caller.a] = 0

\* How far the caller has gone.
Phases ==
    /\ reopened => removed
    /\ In(Adding) /\ removed => reopened
    /\ In(Removing) => removed

Tables == Counts /\ Sockets /\ Lists /\ Phases

\* run() goes through the ports that select() has told of, or processes a datagram.
InSweep == thread.at \notin {"top", "select", "ended"}

\* The descriptors it has read from portFd.
Used ==
    IF Run("select") THEN thread.fds
    ELSE IF Run("check") THEN thread.ready
    ELSE IF InSweep THEN thread.ready \cup {thread.fd} ELSE {}

\* A descriptor that run() uses is still that of its port until a source is removed.
Steady == ~ removed => \A f \in Used : sock[f] \in Port /\ portFd[sock[f]] = f

\* The port it goes to next has a datagram if it was readable.
Selected ==
    /\ InSweep => \A p \in thread.todo : portFd[p] \in thread.ready => data[p] # {}
    /\ Run("recv") /\ sock[thread.fd] \in Port =>
            sock[thread.fd] \notin thread.todo /\ data[sock[thread.fd]] # {}
    /\ ~ Run("blocked")

\* What process() has looked up is about the source of the datagram, or there is
\* nothing.
Taken ==
    /\ Run("port") /\ thread.from # None => sock[thread.fd] \in {thread.from, Closed}
    /\ Run("lookup") /\ thread.from # None => thread.port \in {thread.from, 0}
    /\ Run("list") /\ thread.from # None /\ thread.id # 0 =>
           \/ management[thread.id] = <<thread.ip, thread.from>>
           \/ removed /\ ~ IsList(thread.id)
    /\ Run("send") /\ thread.from # None => thread.list = <<thread.ip, thread.from>>
    /\ out # None => out.to = out.from

Knowledge == ~ reopened => Steady /\ Selected /\ Taken

\* A recvfrom() that waits does so on a socket.
Waiting == Run("blocked") => held \in Port

Inv == TypeOK /\ Tables /\ Waiting /\ Knowledge

-----------------------------------------------------------------------------
(* Places of the two threads.                                              *)

Calls == [at : CallerAt, id : SrcId, a : Addr, fd : Fd \cup {NoFd}]

\* The place of a call has a source, and a descriptor or none.
LEMMA CallHas ==
    ASSUME TypeOK, caller.at \in CallerAt
    PROVE  /\ caller \in Calls
           /\ caller.id \in SrcId /\ caller.a \in Addr /\ PortOfCall \in Port
           /\ caller.fd \in Fd \cup {NoFd}
<1>1. caller \in Calls
  <2>1. caller.at \notin {"idle", "join", "stopped"}
    BY DEF CallerAt
  <2>2. caller \in {Idle, [at |-> "join"], [at |-> "stopped"]} \cup Calls
    BY DEF TypeOK, Steps, Calls
  <2> QED
    BY <2>1, <2>2 DEF Idle
<1>2. caller.id \in SrcId /\ caller.a \in Addr /\ caller.fd \in Fd \cup {NoFd}
  BY <1>1 DEF Calls
<1>3. PortOfCall \in Port
  BY <1>2 DEF Addr, PortOfCall
<1> QED
  BY <1>1, <1>2, <1>3

\* Between two calls.
LEMMA IdleIs ==
    ASSUME TypeOK, At("idle")
    PROVE  caller = Idle
<1>1. caller \in {Idle, [at |-> "join"], [at |-> "stopped"]} \cup Calls
  BY DEF TypeOK, Steps, Calls
<1>2. caller \notin Calls
  BY DEF Calls, CallerAt, At
<1> QED
  BY <1>1, <1>2 DEF At

\* A call goes on to its next place.
LEMMA GotoIs ==
    ASSUME TypeOK, caller.at \in CallerAt, NEW s \in CallerAt, Goto(s)
    PROVE  /\ caller' \in Calls /\ caller'.at = s
           /\ caller'.id = caller.id /\ caller'.a = caller.a /\ caller'.fd = caller.fd
BY CallHas DEF Goto, Calls

\* The numbers that stand for nothing are no ports, nor descriptors.
LEMMA NothingIs ==
    /\ Closed \notin Port /\ Unbound \notin Port /\ 0 \notin Port
    /\ NoFd \notin Fd /\ 0 \notin Fd /\ 0 \notin SrcId /\ None \notin Port
    /\ None \notin Addr /\ Null \notin Addr /\ None # Null
BY ThreadsAssumption DEF Closed, Unbound, NoFd

\* What run() may do to the tables: null pointers in management.
TablesKept ==
    /\ UNCHANGED <<portListener, portFd, fdPort, forwarding, sock, caller, removed, reopened>>
    /\ management' \in [ListId -> Addr \cup {None, Null}]
    /\ \A id \in ListId : management'[id] = management[id] \/ (~ IsList(id) /\ management'[id] = Null)

LEMMA RunKeepsTables ==
    ASSUME TypeOK, runStep
    PROVE  TablesKept
<1> USE DEF tables, kernel, history, TablesKept
<1>0. management \in [ListId -> Addr \cup {None, Null}]
  BY DEF TypeOK
<1>1. CASE top
  BY <1>0, <1>1 DEF top
<1>2. CASE select
  BY <1>0, <1>2 DEF select
<1>3. CASE checked
  BY <1>0, <1>3 DEF checked
<1>4. CASE \E p \in Port : visit(p)
  BY <1>0, <1>4 DEF visit
<1>5. CASE recvfrom
  BY <1>0, <1>5 DEF recvfrom
<1>6. CASE wake
  BY <1>0, <1>6 DEF wake
<1>7. CASE readPort
  BY <1>0, <1>7 DEF readPort
<1>8. CASE readForwarding
  BY <1>0, <1>8 DEF readForwarding
<1>9. CASE readManagement
  BY <1>0, <1>9 DEF readManagement
<1>10. CASE sendto
  BY <1>0, <1>10 DEF sendto
<1> QED
  BY <1>1, <1>2, <1>3, <1>4, <1>5, <1>6, <1>7, <1>8, <1>9, <1>10 DEF runStep

-----------------------------------------------------------------------------
(* The tables.                                                             *)

\* A null pointer that run() inserts is no list.
LEMMA ListsKept ==
    ASSUME TablesKept, NEW id \in ListId
    PROVE  /\ IsList(id)' <=> IsList(id)
           /\ IsList(id) => management'[id] = management[id]
BY DEF TablesKept, IsList

LEMMA SourcesKept ==
    ASSUME TypeOK, TablesKept
    PROVE  \A p \in Port : Counted(p)' = Counted(p)
<1> SUFFICES ASSUME NEW p \in Port
             PROVE  Counted(p)' = Counted(p)
  OBVIOUS
<1>1. SrcId \subseteq ListId /\ caller' = caller
  BY DEF TablesKept, ListId
<1>2. \A id \in SrcId : IsList(id)' <=> IsList(id)
  BY <1>1, ListsKept
<1>3. \A id \in SrcId : IsList(id) => management'[id] = management[id]
  BY <1>1, ListsKept
<1> QED
  BY <1>1, <1>2, <1>3 DEF Counted, In, At, PortOfCall

LEMMA TablesFrame ==
    ASSUME TypeOK, Tables, TablesKept
    PROVE  Tables'
<1>1. Counts'
  BY SourcesKept DEF Tables, Counts, TablesKept
<1>2. Sockets'
  BY DEF Tables, Sockets, TablesKept, In, At, PortOfCall
<1>3. Lists'
  <2>1. /\ forwarding' = forwarding /\ caller' = caller
        /\ forwarding \in [Addr -> ListId]
        /\ 0 \in ListId
    BY DEF TablesKept, TypeOK, ListId
  <2>2. Lists
    BY DEF Tables
  <2>3. ~ IsList(0)'
    BY <2>1, <2>2, ListsKept DEF Lists
  <2>4. ASSUME NEW a \in Addr, forwarding[a] # 0
        PROVE  management'[forwarding[a]] = a
    <3>1. management[forwarding[a]] = a /\ IsList(forwarding[a])
      BY <2>2, <2>4, NothingIs DEF Lists, IsList
    <3> QED
      BY <2>1, <3>1, ListsKept
  <2>5. ASSUME NEW id \in ListId, IsList(id)'
        PROVE  \/ forwarding[management'[id]] = id
               \/ In({"forward", "unmanage"}) /\ id = caller.id
    BY <2>2, <2>5, ListsKept DEF Lists
  <2>6. In({"portFd", "fdPort", "manage"}) => ~ IsList(caller.id)'
    <3>1. SUFFICES ASSUME In({"portFd", "fdPort", "manage"})
                   PROVE  ~ IsList(caller.id)'
      OBVIOUS
    <3>2. caller.id \in ListId
      BY <3>1, CallHas DEF In, CallerAt, ListId
    <3> QED
      BY <2>1, <2>2, <3>1, <3>2, ListsKept DEF Lists
  <2>7. In(Removing \cup {"forward"}) => management'[caller.id] = caller.a
    <3>1. SUFFICES ASSUME In(Removing \cup {"forward"})
                   PROVE  management'[caller.id] = caller.a
      OBVIOUS
    <3>2. caller.id \in ListId /\ caller.a \in Addr
      BY <3>1, CallHas DEF In, CallerAt, ListId, Removing
    <3>3. management[caller.id] = caller.a /\ IsList(caller.id)
      BY <2>2, <3>1, <3>2, NothingIs DEF Lists, IsList
    <3> QED
      BY <3>2, <3>3, ListsKept
  <2>8. In(Adding \cup {"unmanage"}) => forwarding[caller.a] = 0
    BY <2>2 DEF Lists
  <2> QED
    BY <2>1, <2>3, <2>4, <2>5, <2>6, <2>7, <2>8 DEF Lists, In
<1>4. Phases'
  BY DEF Tables, Phases, TablesKept, In
<1> QED
  BY <1>1, <1>2, <1>3, <1>4 DEF Tables

\* A port that no source is counted for has none.
LEMMA NoneCounted ==
    ASSUME Counts, NEW p \in Port, portListener[p] = 0
    PROVE  Counted(p) = {}
BY FS_EmptySet DEF Counts

\* A source is counted for its port, or no longer is.
LEMMA CountsAre ==
    ASSUME TypeOK, Counts, NEW p \in Port, NEW id \in SrcId,
           \A q \in Port : q # p => Counted(q)' = Counted(q) /\ portListener'[q] = portListener[q],
           \/ /\ id \notin Counted(p) /\ Counted(p)' = Counted(p) \cup {id}
              /\ portListener'[p] = portListener[p] + 1
           \/ /\ id \in Counted(p) /\ Counted(p)' = Counted(p) \ {id}
              /\ portListener'[p] = portListener[p] - 1
    PROVE  Counts'
<1>1. IsFiniteSet(Counted(p)) /\ portListener[p] = Cardinality(Counted(p))
  BY DEF Counts
<1>2. IsFiniteSet(Counted(p)') /\ portListener'[p] = Cardinality(Counted(p)')
  BY <1>1, FS_AddElement, FS_RemoveElement
<1> QED
  BY <1>2 DEF Counts

LEMMA SameCounts ==
    ASSUME Counts, portListener' = portListener, \A p \in Port : Counted(p)' = Counted(p)
    PROVE  Counts'
BY DEF Counts

LEMMA CountsStep ==
    ASSUME TypeOK, Tables,
           \/ \E id \in SrcId, a \in Addr : addSource(id, a)
           \/ \E id \in SrcId : removeSource(id)
           \/ callerStep
    PROVE  Counts'
<1> USE DEF tables, kernel, history
<1>0. /\ Counts /\ SrcId \subseteq ListId
      /\ management \in [ListId -> Addr \cup {None, Null}]
      /\ portListener \in [Port -> Nat]
  BY DEF Tables, TypeOK, ListId
<1> USE DEF In, At, Removing, IsList, PortOfCall
<1>1. ASSUME NEW id \in SrcId, NEW a \in Addr, addSource(id, a)
      PROVE  Counts'
  <2>1. management' = management /\ caller = Idle /\ management[id] \in {None, Null}
    BY <1>1, <1>0, IdleIs DEF addSource
  <2>2. CASE caller'.at # "manage" /\ portListener' = portListener
             /\ (caller' = caller \/ caller'.at = "portFd")
    <3>1. \A p \in Port : Counted(p)' = Counted(p)
      BY <2>1, <2>2 DEF Counted, Idle
    <3> QED
      BY <1>0, <2>2, <3>1, SameCounts
  <2>3. CASE /\ caller' = [at |-> "manage", id |-> id, a |-> a, fd |-> NoFd]
             /\ portListener' = [portListener EXCEPT ![a[2]] = @ + 1]
    <3>1. a[2] \in Port
      BY DEF Addr
    <3>2. /\ \A p \in Port : p # a[2] => Counted(p)' = Counted(p)
          /\ Counted(a[2])' = Counted(a[2]) \cup {id}
          /\ id \notin Counted(a[2])
      BY <2>1, <2>3 DEF Counted, Idle
    <3>3. /\ \A p \in Port : p # a[2] => portListener'[p] = portListener[p]
          /\ portListener'[a[2]] = portListener[a[2]] + 1
      BY <1>0, <2>3, <3>1
    <3> QED
      BY <1>0, <3>1, <3>2, <3>3, CountsAre
  <2> QED
    BY <1>1, <2>2, <2>3 DEF addSource, Idle
<1>2. ASSUME NEW id \in SrcId, removeSource(id)
      PROVE  Counts'
  <2> DEFINE a == management[id]
  <2>1. /\ management' = management /\ caller = Idle /\ a \in Addr /\ a[2] \in Port
    BY <1>2, <1>0, IdleIs DEF removeSource, Addr
  <2>2. /\ caller'.at \in Removing /\ caller'.id = id
        /\ portListener' = [portListener EXCEPT ![a[2]] = @ - 1]
    <3>1. PICK place \in Removing :
              caller' = [at |-> place, id |-> id, a |-> a, fd |-> portFd[a[2]]]
      BY <1>2 DEF removeSource
    <3>2. caller'.at = place /\ caller'.id = id
      BY <3>1
    <3> QED
      BY <1>2, <3>2 DEF removeSource
  <2>3. /\ \A p \in Port : p # a[2] => Counted(p)' = Counted(p)
        /\ Counted(a[2])' = Counted(a[2]) \ {id}
        /\ id \in Counted(a[2])
    BY <1>2, <2>1, <2>2 DEF Counted, Idle, removeSource
  <2>4. /\ \A p \in Port : p # a[2] => portListener'[p] = portListener[p]
        /\ portListener'[a[2]] = portListener[a[2]] - 1
    BY <1>0, <2>1, <2>2
  <2> QED
    BY <1>0, <2>1, <2>3, <2>4, CountsAre
<1>3. CASE setPortFd \/ eraseFdPort \/ closeFd \/ eraseForwarding
  <2>1. /\ caller.at \in {"portFd", "erase fdPort", "close", "unforward"}
        /\ UNCHANGED <<management, portListener>>
        /\ caller'.id = caller.id /\ caller'.at # "manage" /\ (In(Removing)' <=> In(Removing))
    BY <1>3, GotoIs DEF setPortFd, eraseFdPort, closeFd, eraseForwarding, CallerAt
  <2>2. \A p \in Port : Counted(p)' = Counted(p)
    BY <2>1 DEF Counted
  <2> QED
    BY <1>0, <2>1, <2>2, SameCounts
<1>4. CASE setFdPort
  <2>1. /\ caller.at = "fdPort" /\ management' = management
        /\ caller'.id = caller.id /\ caller'.at = "manage" /\ caller'.a = caller.a
        /\ portListener' = [portListener EXCEPT ![caller.a[2]] = 1]
        /\ caller.id \in SrcId /\ caller.a[2] \in Port
    BY <1>4, GotoIs, CallHas DEF setFdPort, CallerAt
  <2>2. portListener[caller.a[2]] = 0 /\ management[caller.id] \in {None, Null}
    BY <2>1 DEF Tables, Sockets, Uncounted, Lists
  <2>3. /\ \A p \in Port : p # caller.a[2] => Counted(p)' = Counted(p)
        /\ Counted(caller.a[2])' = Counted(caller.a[2]) \cup {caller.id}
        /\ caller.id \notin Counted(caller.a[2])
    BY <2>1, <2>2 DEF Counted
  <2>4. /\ \A p \in Port : p # caller.a[2] => portListener'[p] = portListener[p]
        /\ portListener'[caller.a[2]] = portListener[caller.a[2]] + 1
    BY <1>0, <2>1, <2>2
  <2> QED
    BY <1>0, <2>1, <2>3, <2>4, CountsAre
<1>5. CASE setManagement
  <2>1. /\ caller.at = "manage" /\ portListener' = portListener
        /\ management' = [management EXCEPT ![caller.id] = caller.a]
        /\ caller'.id = caller.id /\ caller'.at = "forward"
        /\ caller.id \in SrcId /\ caller.a \in Addr
    BY <1>5, GotoIs, CallHas DEF setManagement, CallerAt
  <2>2. management[caller.id] \in {None, Null}
    BY <2>1 DEF Tables, Lists
  <2>3. \A id \in SrcId : management'[id] = IF id = caller.id THEN caller.a ELSE management[id]
    BY <1>0, <2>1
  <2>4. \A p \in Port : Counted(p)' = Counted(p)
    BY <2>1, <2>2, <2>3, NothingIs DEF Counted
  <2> QED
    BY <1>0, <2>1, <2>4, SameCounts
<1>6. CASE setForwarding \/ stopIfEmpty \/ join
  <2>1. /\ caller.at \in {"forward", "empty", "join"}
        /\ UNCHANGED <<management, portListener>>
        /\ caller'.at \in {"idle", "join", "stopped"}
    BY <1>6 DEF setForwarding, stopIfEmpty, join, Idle
  <2>2. \A p \in Port : Counted(p)' = Counted(p)
    BY <2>1 DEF Counted
  <2> QED
    BY <1>0, <2>1, <2>2, SameCounts
<1>7. CASE eraseManagement
  <2>1. /\ caller.at = "unmanage" /\ portListener' = portListener
        /\ management' = [management EXCEPT ![caller.id] = None]
        /\ caller'.at = "empty"
        /\ caller.id \in SrcId
    BY <1>7, GotoIs, CallHas DEF eraseManagement, CallerAt
  <2>2. \A id \in SrcId : management'[id] = IF id = caller.id THEN None ELSE management[id]
    BY <1>0, <2>1
  <2>3. \A p \in Port : Counted(p)' = Counted(p)
    BY <2>1, <2>2 DEF Counted
  <2> QED
    BY <1>0, <2>1, <2>3, SameCounts
<1> QED
  BY <1>1, <1>2, <1>3, <1>4, <1>5, <1>6, <1>7 DEF callerStep

\* A descriptor is opened on a port that has none, or on no port at all.
LEMMA OpenSockets ==
    ASSUME TypeOK, Sockets, At("idle"), NEW f \in Fd, Lowest(f), NEW v \in Port \cup {Unbound},
           v \in Port => ~ Bound(v),
           sock' = [sock EXCEPT ![f] = v], UNCHANGED <<portListener, portFd, fdPort>>,
           \/ caller' = caller
           \/ /\ caller'.at = "portFd" /\ caller'.fd = f /\ PortOfCall' = v
              /\ v \in Port /\ portListener[v] = 0
    PROVE  Sockets'
<1>1. /\ sock \in [Fd -> Port \cup {Closed, Unbound}]
      /\ portFd \in [Port -> Fd \cup {NoFd}] /\ fdPort \in [Fd -> Port \cup {0}]
      /\ sock[f] = Closed
      /\ \A g \in Fd : v \in Port => sock[g] # v
  BY DEF TypeOK, Lowest, Bound
<1>2. \A g \in Fd : sock'[g] = IF g = f THEN v ELSE sock[g]
  BY <1>1
<1>3. /\ \A g, h \in Fd : sock[g] \in Port /\ sock[h] = sock[g] => g = h
      /\ \A p \in Port : portFd[p] # NoFd => sock[portFd[p]] = p
      /\ \A g \in Fd : fdPort[g] # 0 => sock[g] = fdPort[g]
      /\ \A p \in Port : portFd[p] # NoFd => fdPort[portFd[p]] = p
      /\ \A g \in Fd : fdPort[g] # 0 => portFd[fdPort[g]] = g
      /\ \A p \in Port : portFd[p] # NoFd <=> portListener[p] # 0
  BY DEF Sockets, At
<1>4. \A p \in Port : portFd[p] # f
  BY <1>1, <1>3, NothingIs
<1>5. fdPort[f] = 0
  BY <1>1, <1>3, NothingIs
<1>6. \A g, h \in Fd : sock'[g] \in Port /\ sock'[h] = sock'[g] => g = h
  <2>1. ASSUME NEW g \in Fd, NEW h \in Fd, sock'[g] \in Port, sock'[h] = sock'[g], g # h
        PROVE  FALSE
    <3>1. CASE g # f /\ h # f
      BY <1>2, <1>3, <2>1, <3>1
    <3>2. CASE g = f \/ h = f
      BY <1>1, <1>2, <2>1, <3>2
    <3> QED BY <3>1, <3>2
  <2> QED BY <2>1
<1>7. \A p \in Port : portFd[p] # NoFd => portFd[p] \in Fd /\ sock'[portFd[p]] = p
  BY <1>1, <1>2, <1>3, <1>4
<1>8. \A g \in Fd : fdPort[g] # 0 => sock'[g] = fdPort[g]
  BY <1>2, <1>3, <1>5
<1>9. At("idle")' \/ At("portFd")'
  BY DEF At
<1>10. In(Uncounted)' => /\ caller'.fd \in Fd /\ sock'[caller'.fd] = PortOfCall'
                         /\ portListener'[PortOfCall'] = 0
  <2>1. CASE caller' = caller
    BY <2>1 DEF At, In, Uncounted
  <2>2. CASE /\ caller'.fd = f /\ PortOfCall' = v
             /\ v \in Port /\ portListener[v] = 0
    BY <1>2, <2>2
  <2> QED BY <2>1, <2>2
<1>11. ~ At("fdPort")' /\ ~ At("close")' /\ ~ At("erase fdPort")'
  BY <1>9 DEF At
<1>12. portListener' = portListener /\ portFd' = portFd /\ fdPort' = fdPort
  OBVIOUS
<1>13. /\ \A p \in Port : portFd'[p] # NoFd => sock'[portFd'[p]] = p
       /\ \A g \in Fd : fdPort'[g] # 0 => sock'[g] = fdPort'[g]
       /\ \A p \in Port : portFd'[p] # NoFd => fdPort'[portFd'[p]] = p
       /\ \A g \in Fd : fdPort'[g] # 0 => portFd'[fdPort'[g]] = g
       /\ \A p \in Port : portFd'[p] # NoFd <=> portListener'[p] # 0
  BY <1>3, <1>7, <1>8, <1>12
<1> QED
  BY <1>6, <1>10, <1>11, <1>13, Zenon DEF Sockets

LEMMA SocketsStep ==
    ASSUME TypeOK, Tables,
           \/ \E id \in SrcId, a \in Addr : addSource(id, a)
           \/ \E id \in SrcId : removeSource(id)
           \/ callerStep
    PROVE  Sockets'
<1> USE DEF tables, kernel, history
<1>0. /\ Sockets
      /\ portListener \in [Port -> Nat]
      /\ management \in [ListId -> Addr \cup {None, Null}]
      /\ portFd \in [Port -> Fd \cup {NoFd}]
      /\ fdPort \in [Fd -> Port \cup {0}]
      /\ sock \in [Fd -> Port \cup {Closed, Unbound}]
      /\ SrcId \subseteq ListId
  BY DEF Tables, TypeOK, ListId
<1>1. ASSUME NEW id \in SrcId, NEW a \in Addr, addSource(id, a)
      PROVE  Sockets'
  <2>1. /\ At("idle") /\ UNCHANGED <<portFd, fdPort>> /\ a[2] \in Port
    BY <1>1 DEF addSource, Addr
  <2>2. CASE /\ portListener[a[2]] # 0
             /\ portListener' = [portListener EXCEPT ![a[2]] = @ + 1]
             /\ caller'.at = "manage" /\ sock' = sock
    <3>1. \A p \in Port : portListener'[p] # 0 <=> portListener[p] # 0
      BY <1>0, <2>1, <2>2
    <3> QED
      BY <1>0, <2>1, <2>2, <3>1 DEF Sockets, At, In, Uncounted
  <2>3. CASE /\ portListener[a[2]] = 0 /\ portListener' = portListener
             /\ ~ Bound(a[2])
             /\ \E f \in Fd : /\ Lowest(f) /\ sock' = [sock EXCEPT ![f] = a[2]]
                              /\ caller' = [at |-> "portFd", id |-> id, a |-> a, fd |-> f]
    <3>1. PICK f \in Fd : /\ Lowest(f) /\ sock' = [sock EXCEPT ![f] = a[2]]
                          /\ caller' = [at |-> "portFd", id |-> id, a |-> a, fd |-> f]
      BY <2>3
    <3>2. caller'.at = "portFd" /\ caller'.fd = f /\ PortOfCall' = a[2]
      BY <3>1 DEF PortOfCall
    <3> QED
      BY <1>0, <2>1, <2>3, <3>1, <3>2, OpenSockets
  <2>4. CASE /\ UNCHANGED <<portListener, caller>>
             /\ \E f \in Fd : Lowest(f) /\ sock' = [sock EXCEPT ![f] = Unbound]
    BY <1>0, <2>1, <2>4, NothingIs, OpenSockets
  <2> QED
    BY <1>1, <2>2, <2>3, <2>4 DEF addSource
<1>2. ASSUME NEW id \in SrcId, removeSource(id)
      PROVE  Sockets'
  <2>1. /\ management[id] \in Addr /\ At("idle")
        /\ UNCHANGED <<fdPort, sock>>
    BY <1>0, <1>2 DEF removeSource, IsList
  <2>2. PICK p \in Port : p = management[id][2]
    BY <2>1 DEF Addr
  <2>3. /\ portListener' = [portListener EXCEPT ![p] = @ - 1]
        /\ \/ /\ portListener[p] = 1 /\ portFd' = [portFd EXCEPT ![p] = NoFd]
              /\ caller' = [at |-> "erase fdPort", id |-> id, a |-> management[id], fd |-> portFd[p]]
           \/ /\ portListener[p] # 1 /\ portFd' = portFd
              /\ caller' = [at |-> "unforward", id |-> id, a |-> management[id], fd |-> portFd[p]]
    BY <1>2, <2>2 DEF removeSource
  <2>4. portListener[p] # 0
    <3>1. id \in Counted(p)
      BY <1>0, <1>2, <2>1, <2>2 DEF Counted, In, At, Removing, removeSource
    <3> QED
      BY <3>1, NoneCounted DEF Tables
  <2>5. \A q \in Port : portListener'[q] = IF q = p THEN portListener[p] - 1 ELSE portListener[q]
    BY <1>0, <2>3
  <2>6. CASE portListener[p] = 1
    <3>1. /\ portFd' = [portFd EXCEPT ![p] = NoFd]
          /\ caller'.at = "erase fdPort" /\ caller'.fd = portFd[p] /\ PortOfCall' = p
      <4>1. /\ portFd' = [portFd EXCEPT ![p] = NoFd]
            /\ caller' = [at |-> "erase fdPort", id |-> id, a |-> management[id], fd |-> portFd[p]]
        BY <2>3, <2>6
      <4>2. caller'.a = management[id]
        BY <4>1
      <4> QED
        BY <2>2, <4>1, <4>2 DEF PortOfCall
    <3>2. \A q \in Port : portFd'[q] = IF q = p THEN NoFd ELSE portFd[q]
      BY <1>0, <3>1
    <3>3. portFd[p] \in Fd /\ sock[portFd[p]] = p
      BY <1>0, <2>4 DEF Sockets
    <3>4. \A q \in Port : portListener'[q] # 0 <=> q # p /\ portListener[q] # 0
      BY <2>5, <2>6
    <3>5. portListener'[p] = 0
      BY <2>5, <2>6
    <3> QED
      BY <1>0, <2>1, <3>1, <3>2, <3>3, <3>4, <3>5, ZenonT(60) DEF Sockets, At, In, Uncounted
  <2>7. CASE portListener[p] # 1
    <3>1. portFd' = portFd /\ caller'.at = "unforward"
      <4>1. /\ portFd' = portFd
            /\ caller' = [at |-> "unforward", id |-> id, a |-> management[id], fd |-> portFd[p]]
        BY <2>3, <2>7
      <4> QED
        BY <4>1
    <3>2. portListener[p] \in Nat
      BY <1>0
    <3>3. portListener[p] - 1 # 0
      BY <2>7, <3>2
    <3>4. \A q \in Port : portListener'[q] # 0 <=> portListener[q] # 0
      BY <2>4, <2>5, <3>3
    <3> QED
      BY <1>0, <2>1, <3>1, <3>4 DEF Sockets, At, In, Uncounted
  <2> QED
    BY <2>6, <2>7
<1>3. CASE setPortFd
  <2>1. /\ caller.at = "portFd" /\ caller'.at = "fdPort" /\ caller'.fd = caller.fd
        /\ PortOfCall' = PortOfCall /\ PortOfCall \in Port
        /\ UNCHANGED <<portListener, fdPort, sock>>
        /\ portFd' = [portFd EXCEPT ![PortOfCall] = caller.fd]
    BY <1>3, GotoIs, CallHas DEF setPortFd, CallerAt, At, PortOfCall
  <2>2. \A p \in Port : portFd'[p] = IF p = PortOfCall THEN caller.fd ELSE portFd[p]
    BY <1>0, <2>1
  <2>3. /\ caller.fd \in Fd /\ sock[caller.fd] = PortOfCall /\ portListener[PortOfCall] = 0
        /\ portFd[PortOfCall] = NoFd /\ caller.fd # NoFd
    BY <1>0, <2>1, NothingIs DEF Sockets, In, At, Uncounted
  <2> QED
    BY <1>0, <2>1, <2>2, <2>3 DEF Sockets, At, In, Uncounted
<1>4. CASE setFdPort
  <2>1. /\ caller.at = "fdPort" /\ caller'.at = "manage"
        /\ PortOfCall \in Port
        /\ UNCHANGED <<portFd, sock>>
        /\ fdPort' = [fdPort EXCEPT ![caller.fd] = PortOfCall]
        /\ portListener' = [portListener EXCEPT ![PortOfCall] = 1]
    BY <1>4, GotoIs, CallHas DEF setFdPort, CallerAt, At, PortOfCall
  <2>2. /\ caller.fd \in Fd /\ sock[caller.fd] = PortOfCall
        /\ portFd[PortOfCall] = caller.fd /\ caller.fd # NoFd
    BY <1>0, <2>1, NothingIs DEF Sockets, In, At, Uncounted
  <2>3. \A f \in Fd : fdPort'[f] = IF f = caller.fd THEN PortOfCall ELSE fdPort[f]
    BY <1>0, <2>1, <2>2
  <2>4. \A p \in Port : portListener'[p] = IF p = PortOfCall THEN 1 ELSE portListener[p]
    BY <1>0, <2>1
  <2> QED
    BY <1>0, <2>1, <2>2, <2>3, <2>4 DEF Sockets, At, In, Uncounted
<1>5. CASE setManagement \/ setForwarding \/ eraseForwarding \/ eraseManagement \/ stopIfEmpty \/ join
  <2>1. /\ caller.at \in {"manage", "forward", "unforward", "unmanage", "empty", "join"}
        /\ caller'.at \in {"idle", "forward", "unmanage", "empty", "join", "stopped"}
        /\ UNCHANGED <<portListener, portFd, fdPort, sock>>
    <3>1. CASE setManagement \/ eraseForwarding \/ eraseManagement
      BY <3>1, GotoIs DEF setManagement, eraseForwarding, eraseManagement, At, CallerAt
    <3>2. CASE setForwarding \/ stopIfEmpty \/ join
      BY <3>2 DEF setForwarding, stopIfEmpty, join, At, Idle
    <3> QED
      BY <1>5, <3>1, <3>2
  <2> QED
    BY <1>0, <2>1 DEF Sockets, At, In, Uncounted
<1>6. CASE eraseFdPort
  <2>1. /\ caller.at = "erase fdPort" /\ caller'.at = "close" /\ caller'.fd = caller.fd
        /\ PortOfCall' = PortOfCall
        /\ UNCHANGED <<portListener, portFd, sock>>
        /\ fdPort' = [fdPort EXCEPT ![caller.fd] = 0]
    BY <1>6, GotoIs DEF eraseFdPort, CallerAt, At, PortOfCall
  <2>2. /\ PortOfCall \in Port /\ caller.fd \in Fd
        /\ sock[caller.fd] = PortOfCall /\ portListener[PortOfCall] = 0
    BY <1>0, <2>1, CallHas DEF Sockets, In, Uncounted, CallerAt
  <2>3. \A f \in Fd : fdPort'[f] = IF f = caller.fd THEN 0 ELSE fdPort[f]
    BY <1>0, <2>1, <2>2
  <2>4. \A p \in Port : portFd[p] # NoFd => portFd[p] # caller.fd
    <3>1. portFd[PortOfCall] = NoFd
      BY <1>0, <2>1, <2>2 DEF Sockets, At
    <3>2. \A p \in Port : portFd[p] # NoFd => sock[portFd[p]] = p
      BY <1>0 DEF Sockets
    <3> QED BY <2>2, <3>1, <3>2
  <2> QED
    BY <1>0, <2>1, <2>2, <2>3, <2>4, ZenonT(60) DEF Sockets, At, In, Uncounted
<1>7. CASE closeFd
  <2>1. /\ caller.at = "close" /\ caller'.at = "unforward"
        /\ UNCHANGED <<portListener, portFd, fdPort>>
        /\ sock' = [sock EXCEPT ![caller.fd] = Closed]
    BY <1>7, GotoIs DEF closeFd, CallerAt, At
  <2>2. /\ PortOfCall \in Port /\ caller.fd \in Fd /\ fdPort[caller.fd] = 0
    BY <1>0, <2>1, CallHas DEF Sockets, In, At, Uncounted, CallerAt
  <2>3. \A f \in Fd : sock'[f] = IF f = caller.fd THEN Closed ELSE sock[f]
    BY <1>0, <2>1, <2>2
  <2>4. \A p \in Port : portFd[p] # NoFd => portFd[p] # caller.fd
    BY <1>0, <2>1, <2>2 DEF Sockets, In, At, Uncounted
  <2> QED
    BY <1>0, <2>1, <2>2, <2>3, <2>4, NothingIs DEF Sockets, At, In, Uncounted
<1> QED
  BY <1>1, <1>2, <1>3, <1>4, <1>5, <1>6, <1>7 DEF callerStep

LEMMA ListsStep ==
    ASSUME TypeOK, Tables,
           \/ \E id \in SrcId, a \in Addr : addSource(id, a)
           \/ \E id \in SrcId : removeSource(id)
           \/ callerStep
    PROVE  Lists'
<1> USE DEF tables, kernel, history
<1>0. /\ Lists
      /\ management \in [ListId -> Addr \cup {None, Null}]
      /\ forwarding \in [Addr -> ListId]
      /\ SrcId \subseteq ListId /\ 0 \notin SrcId /\ 0 \in ListId
  BY NothingIs DEF Tables, TypeOK, ListId
<1>1. ASSUME NEW id \in SrcId, NEW a \in Addr, addSource(id, a)
      PROVE  Lists'
  <2>1. /\ caller.at = "idle" /\ UNCHANGED <<management, forwarding>>
        /\ ~ IsList(id) /\ forwarding[a] = 0
    BY <1>1 DEF addSource, At
  <2>2. \/ caller' = caller
        \/ \E place \in {"manage", "portFd"}, f \in Fd \cup {NoFd} :
               caller' = [at |-> place, id |-> id, a |-> a, fd |-> f]
    BY <1>1 DEF addSource
  <2>3. \/ caller' = caller
        \/ caller'.at \in {"manage", "portFd"} /\ caller'.id = id /\ caller'.a = a
    BY <2>2
  <2> QED
    BY <1>0, <2>1, <2>3 DEF Lists, In, IsList, Adding, Removing
<1>2. ASSUME NEW id \in SrcId, removeSource(id)
      PROVE  Lists'
  <2>1. caller.at = "idle" /\ UNCHANGED <<management, forwarding>>
    BY <1>2 DEF removeSource, At
  <2>2. PICK place \in {"erase fdPort", "unforward"} :
            caller' = [at |-> place, id |-> id, a |-> management[id], fd |-> portFd[management[id][2]]]
    BY <1>2 DEF removeSource
  <2>3. /\ caller'.at \in {"erase fdPort", "unforward"}
        /\ caller'.id = id /\ caller'.a = management[id]
    BY <2>2
  <2> QED
    BY <1>0, <2>1, <2>3 DEF Lists, In, IsList, Adding, Removing
<1>3. CASE setPortFd \/ setFdPort \/ eraseFdPort \/ closeFd
  <2>1. /\ UNCHANGED <<management, forwarding>>
        /\ caller'.id = caller.id /\ caller'.a = caller.a
        /\ \/ caller.at = "portFd" /\ caller'.at = "fdPort"
           \/ caller.at = "fdPort" /\ caller'.at = "manage"
           \/ caller.at = "erase fdPort" /\ caller'.at = "close"
           \/ caller.at = "close" /\ caller'.at = "unforward"
    BY <1>3, GotoIs DEF setPortFd, setFdPort, eraseFdPort, closeFd, At, CallerAt
  <2> QED
    BY <1>0, <2>1 DEF Lists, In, IsList, Adding, Removing
<1>4. CASE setManagement
  <2>1. /\ forwarding' = forwarding
        /\ caller'.id = caller.id /\ caller'.a = caller.a
        /\ caller.at = "manage" /\ caller'.at = "forward"
        /\ management' = [management EXCEPT ![caller.id] = caller.a]
        /\ caller.id \in SrcId /\ caller.a \in Addr
    BY <1>4, GotoIs, CallHas DEF setManagement, At, CallerAt
  <2>2. \A id \in ListId : management'[id] = IF id = caller.id THEN caller.a ELSE management[id]
    BY <1>0, <2>1
  <2>3. ~ IsList(caller.id) /\ forwarding[caller.a] = 0
    BY <1>0, <2>1 DEF Lists, In, Adding
  <2>4. \A a \in Addr : forwarding[a] # 0 => forwarding[a] # caller.id
    BY <1>0, <2>3, NothingIs DEF Lists, IsList
  <2> QED
    BY <1>0, <2>1, <2>2, <2>3, <2>4 DEF Lists, In, IsList, Adding, Removing
<1>5. CASE setForwarding
  <2>1. /\ management' = management
        /\ caller.at = "forward" /\ caller'.at = "idle"
        /\ forwarding' = [forwarding EXCEPT ![caller.a] = caller.id]
        /\ caller.id \in SrcId /\ caller.a \in Addr
    BY <1>5, CallHas DEF setForwarding, At, CallerAt, Idle
  <2>2. \A a \in Addr : forwarding'[a] = IF a = caller.a THEN caller.id ELSE forwarding[a]
    BY <1>0, <2>1
  <2>3. management[caller.id] = caller.a /\ forwarding[caller.a] = 0
    BY <1>0, <2>1 DEF Lists, In, Adding
  <2>4. ~ IsList(0)' /\ \A a \in Addr : forwarding'[a] # 0 => management[forwarding'[a]] = a
    BY <1>0, <2>1, <2>2, <2>3 DEF Lists, IsList
  <2>5. ASSUME NEW id \in ListId, IsList(id)
        PROVE  forwarding'[management[id]] = id
    <3>1. management[id] \in Addr
      BY <1>0, <2>5 DEF IsList
    <3>2. CASE id = caller.id
      BY <2>2, <2>3, <3>1, <3>2
    <3>3. CASE id # caller.id
      <4>1. forwarding[management[id]] = id /\ id # 0
        BY <1>0, <2>5, <3>3 DEF Lists
      <4>2. management[id] # caller.a
        BY <2>3, <4>1
      <4> QED
        BY <2>2, <3>1, <4>1, <4>2
    <3> QED
      BY <3>2, <3>3
  <2> QED
    BY <2>1, <2>4, <2>5 DEF Lists, In, IsList, Adding, Removing
<1>6. CASE eraseForwarding
  <2>1. /\ management' = management
        /\ caller'.id = caller.id /\ caller'.a = caller.a
        /\ caller.at = "unforward" /\ caller'.at = "unmanage"
        /\ forwarding' = [forwarding EXCEPT ![caller.a] = 0]
        /\ caller.id \in SrcId /\ caller.a \in Addr
    BY <1>6, GotoIs, CallHas DEF eraseForwarding, At, CallerAt
  <2>2. \A a \in Addr : forwarding'[a] = IF a = caller.a THEN 0 ELSE forwarding[a]
    BY <1>0, <2>1
  <2>3. management[caller.id] = caller.a
    BY <1>0, <2>1 DEF Lists, In, Removing
  <2>4. IsList(caller.id) /\ forwarding[caller.a] = caller.id
    BY <1>0, <2>1, <2>3, NothingIs DEF Lists, IsList, In
  <2>5. ASSUME NEW id \in ListId, IsList(id), id # caller.id
        PROVE  forwarding'[management[id]] = id
    <3>1. management[id] \in Addr
      BY <1>0, <2>5 DEF IsList
    <3>2. forwarding[management[id]] = id
      BY <1>0, <2>1, <2>5 DEF Lists, In
    <3>3. management[id] # caller.a
      BY <2>4, <2>5, <3>2
    <3> QED
      BY <2>2, <3>1, <3>2, <3>3
  <2>6. ~ IsList(0)' /\ \A a \in Addr : forwarding'[a] # 0 => management[forwarding'[a]] = a
    BY <1>0, <2>1, <2>2 DEF Lists, IsList
  <2> QED
    BY <1>0, <2>1, <2>2, <2>3, <2>5, <2>6 DEF Lists, In, IsList, Adding, Removing
<1>7. CASE eraseManagement
  <2>1. /\ forwarding' = forwarding
        /\ caller.at = "unmanage" /\ caller'.at = "empty"
        /\ management' = [management EXCEPT ![caller.id] = None]
        /\ caller.id \in SrcId /\ caller.a \in Addr
    BY <1>7, GotoIs, CallHas DEF eraseManagement, At, CallerAt
  <2>2. \A id \in ListId : management'[id] = IF id = caller.id THEN None ELSE management[id]
    BY <1>0, <2>1
  <2>3. management[caller.id] = caller.a /\ forwarding[caller.a] = 0
    BY <1>0, <2>1 DEF Lists, In, Removing
  <2>4. \A a \in Addr : forwarding[a] # 0 => forwarding[a] # caller.id
    BY <1>0, <2>3 DEF Lists
  <2> QED
    BY <1>0, <2>1, <2>2, <2>4 DEF Lists, In, IsList, Adding, Removing
<1>8. CASE stopIfEmpty \/ join
  <2>1. /\ UNCHANGED <<management, forwarding>>
        /\ caller.at \in {"empty", "join"} /\ caller'.at \in {"idle", "join", "stopped"}
    BY <1>8 DEF stopIfEmpty, join, At, Idle
  <2> QED
    BY <1>0, <2>1 DEF Lists, In, IsList, Adding, Removing
<1> QED
  BY <1>1, <1>2, <1>3, <1>4, <1>5, <1>6, <1>7, <1>8 DEF callerStep

LEMMA PhasesStep ==
    ASSUME TypeOK, Phases,
           \/ \E id \in SrcId, a \in Addr : addSource(id, a)
           \/ \E id \in SrcId : removeSource(id)
           \/ callerStep
    PROVE  Phases'
<1> USE DEF tables, kernel, history
<1>1. ASSUME NEW id \in SrcId, NEW a \in Addr, addSource(id, a)
      PROVE  Phases'
  <2>1. /\ caller.at = "idle" /\ removed' = removed /\ reopened' = removed
    BY <1>1 DEF addSource, At
  <2>2. \/ caller' = caller
        \/ \E place \in {"manage", "portFd"}, f \in Fd \cup {NoFd} :
               caller' = [at |-> place, id |-> id, a |-> a, fd |-> f]
    BY <1>1 DEF addSource
  <2>3. caller'.at \in {"idle", "manage", "portFd"}
    BY <2>1, <2>2
  <2> QED
    BY <2>1, <2>3 DEF Phases, In, Adding, Removing
<1>2. ASSUME NEW id \in SrcId, removeSource(id)
      PROVE  Phases'
  <2>1. PICK place \in {"erase fdPort", "unforward"} :
            caller' = [at |-> place, id |-> id, a |-> management[id], fd |-> portFd[management[id][2]]]
    BY <1>2 DEF removeSource
  <2>2. caller'.at \in {"erase fdPort", "unforward"}
    BY <2>1
  <2> QED
    BY <1>2, <2>2 DEF Phases, In, Adding, Removing, removeSource
<1>3. CASE setPortFd \/ setFdPort \/ setManagement
  <2>1. caller.at \in Adding /\ caller'.at \in Adding /\ UNCHANGED <<removed, reopened>>
    BY <1>3, GotoIs DEF setPortFd, setFdPort, setManagement, At, CallerAt, Adding
  <2> QED
    BY <2>1 DEF Phases, In, Adding, Removing
<1>4. CASE eraseFdPort \/ closeFd \/ eraseForwarding
  <2>1. caller.at \in Removing /\ caller'.at \in Removing /\ UNCHANGED <<removed, reopened>>
    BY <1>4, GotoIs DEF eraseFdPort, closeFd, eraseForwarding, At, CallerAt, Removing
  <2> QED
    BY <2>1 DEF Phases, In, Adding, Removing
<1>5. CASE eraseManagement
  <2>1. caller'.at = "empty" /\ UNCHANGED <<removed, reopened>>
    BY <1>5, GotoIs DEF eraseManagement, At, CallerAt
  <2> QED
    BY <2>1 DEF Phases, In, Adding, Removing
<1>6. CASE setForwarding \/ stopIfEmpty \/ join
  <2>1. caller'.at \in {"idle", "join", "stopped"} /\ UNCHANGED <<removed, reopened>>
    BY <1>6 DEF setForwarding, stopIfEmpty, join, Idle
  <2> QED
    BY <2>1 DEF Phases, In, Adding, Removing
<1> QED
  BY <1>1, <1>2, <1>3, <1>4, <1>5, <1>6 DEF callerStep

-----------------------------------------------------------------------------
(* Types.                                                                  *)

Places ==
    [at : {"top", "ended"}] \cup [at : {"select"}, fds : SUBSET Fd]
        \cup Sweep({"check"}, {NoFd}) \cup Sweep({"recv", "blocked"}, Fd)
        \cup Datagram({"port", "lookup", "list"}, {None}) \cup Datagram({"send"}, Addr)

\* What run() has at each place.
LEMMA PlaceHas ==
    ASSUME thread \in Places
    PROVE  /\ Run("select") => thread.fds \subseteq Fd
           /\ Run("check") => thread \in Sweep({"check"}, {NoFd})
           /\ thread.at \in {"recv", "blocked"} => thread \in Sweep({"recv", "blocked"}, Fd)
           /\ thread.at \in {"port", "lookup", "list"} =>
                  thread \in Datagram({"port", "lookup", "list"}, {None})
           /\ Run("send") => thread \in Datagram({"send"}, Addr)
           /\ InSweep => thread.todo \subseteq Port /\ thread.ready \subseteq Fd
           /\ thread.at \in {"recv", "blocked", "port", "lookup", "list", "send"} => thread.fd \in Fd
           /\ thread.at \in {"port", "lookup", "list", "send"} =>
                  /\ thread.ip \in IP /\ thread.from \in Port \cup {None}
                  /\ thread.port \in Port \cup {0} /\ thread.id \in ListId
           /\ Run("send") => thread.list \in Addr
BY DEF Places, Sweep, Datagram, Run, InSweep

\* A datagram is received, and process() goes on with it.
LEMMA TakenPlaces ==
    ASSUME TypeOK, thread.at \in {"recv", "blocked"}, NEW ip \in IP, NEW p \in Port \cup {None},
           Got("port", ip, p)
    PROVE  thread' \in Places
<1>1. thread.ready \subseteq Fd /\ thread.todo \subseteq Port /\ thread.fd \in Fd
  BY PlaceHas DEF TypeOK, Places, InSweep
<1> QED
  BY <1>1 DEF Got, Places, Datagram, ListId

LEMMA PlacesStep ==
    ASSUME TypeOK, Waiting, runStep
    PROVE  thread' \in Places
<1>0. /\ thread \in Places
      /\ portFd \in [Port -> Fd \cup {NoFd}]
      /\ fdPort \in [Fd -> Port \cup {0}]
      /\ management \in [ListId -> Addr \cup {None, Null}]
      /\ forwarding \in [Addr -> ListId]
      /\ data \in [Port -> SUBSET IP]
      /\ held \in Port \cup {None}
  BY DEF TypeOK, Places
<1>1. CASE top \/ checked
  <2>1. \/ thread' \in [at : {"top", "ended"}]
        \/ thread' \in [at : {"select"}, fds : SUBSET Fd]
    BY <1>0, <1>1 DEF top, checked, Top
  <2> QED
    BY <2>1 DEF Places
<1>2. CASE select
  <2>1. Run("select") /\ Readable(thread.fds) \subseteq Fd
    BY <1>0, <1>2, PlaceHas DEF select, Readable
  <2>2. thread' = Top \/ thread' \in Sweep({"check"}, {NoFd})
    BY <1>2, <2>1 DEF select, Sweep
  <2> QED
    BY <2>2 DEF Places, Top
<1>3. ASSUME NEW p \in Port, visit(p)
      PROVE  thread' \in Places
  <2>1. thread.ready \subseteq Fd /\ thread.todo \subseteq Port
    BY <1>0, <1>3, PlaceHas DEF visit, Run, InSweep
  <2>2. \/ portFd[p] \in Fd /\ thread' = [at |-> "recv", ready |-> thread.ready,
                                          todo |-> thread.todo \ {p}, fd |-> portFd[p]]
        \/ thread' = [at |-> "check", ready |-> thread.ready,
                      todo |-> thread.todo \ {p}, fd |-> NoFd]
    BY <1>3, <2>1 DEF visit
  <2>3. thread' \in Sweep({"recv", "blocked"}, Fd) \/ thread' \in Sweep({"check"}, {NoFd})
    BY <2>1, <2>2 DEF Sweep
  <2> QED
    BY <2>3 DEF Places
<1>4. CASE recvfrom
  <2>1. Run("recv") /\ thread \in Sweep({"recv", "blocked"}, Fd)
    BY <1>0, <1>4, PlaceHas DEF recvfrom, Run
  <2>2. \/ thread' = [thread EXCEPT !.at = "blocked"]
        \/ \E ip \in IP, p \in Port \cup {None} : Got("port", ip, p)
    BY <1>0, <1>4 DEF recvfrom, take
  <2>3. thread' = [thread EXCEPT !.at = "blocked"] => thread' \in Sweep({"recv", "blocked"}, Fd)
    BY <2>1 DEF Sweep
  <2> QED
    BY <2>1, <2>2, <2>3, TakenPlaces DEF Places, Run
<1>5. CASE wake
  <2>1. thread.at = "blocked"
    BY <1>5 DEF wake, Run
  <2>2. \E ip \in IP : Got("port", ip, held)
    <3>1. PICK ip \in data[held] : Got("port", ip, held)
      BY <1>5 DEF wake, take
    <3>2. held \in Port
      BY <1>5 DEF wake, Waiting
    <3> QED
      BY <1>0, <3>1, <3>2
  <2> QED
    BY <1>0, <2>1, <2>2, TakenPlaces
<1>6. CASE readPort
  <2>1. /\ thread \in Datagram({"port", "lookup", "list"}, {None})
        /\ fdPort[thread.fd] \in Port \cup {0}
    BY <1>0, <1>6, PlaceHas DEF readPort, Run
  <2>2. thread' \in Datagram({"port", "lookup", "list"}, {None})
    BY <1>6, <2>1 DEF readPort, Datagram
  <2> QED
    BY <2>2 DEF Places
<1>7. CASE readForwarding
  <2>1. /\ thread \in Datagram({"port", "lookup", "list"}, {None})
        /\ thread.ip \in IP /\ thread.port \in Port \cup {0}
    BY <1>0, <1>7, PlaceHas DEF readForwarding, Run
  <2>2. (IF thread.port = 0 THEN 0 ELSE forwarding[<<thread.ip, thread.port>>]) \in ListId
    BY <1>0, <2>1 DEF Addr, ListId
  <2>3. thread' \in Datagram({"port", "lookup", "list"}, {None})
    BY <1>7, <2>1, <2>2 DEF readForwarding, Datagram
  <2> QED
    BY <2>3 DEF Places
<1>8. CASE readManagement
  <2>1. /\ thread \in Datagram({"port", "lookup", "list"}, {None}) /\ thread.id \in ListId
        /\ thread.ready \subseteq Fd /\ thread.todo \subseteq Port
    BY <1>0, <1>8, PlaceHas DEF readManagement, Run, InSweep
  <2>2. CASE /\ IsList(thread.id)
             /\ thread' = [thread EXCEPT !.at = "send", !.list = management[thread.id]]
    <3>1. management[thread.id] \in Addr
      BY <1>0, <2>1, <2>2 DEF IsList
    <3>2. thread' \in Datagram({"send"}, Addr)
      BY <2>1, <2>2, <3>1 DEF Datagram
    <3> QED
      BY <3>2 DEF Places
  <2>3. CASE thread' = BackToCheck
    BY <2>1, <2>3 DEF BackToCheck, Places, Sweep
  <2> QED
    BY <1>8, <2>2, <2>3 DEF readManagement
<1>9. CASE sendto
  <2>1. thread.ready \subseteq Fd /\ thread.todo \subseteq Port
    BY <1>0, <1>9, PlaceHas DEF sendto, Run, InSweep
  <2> QED
    BY <1>9, <2>1 DEF sendto, BackToCheck, Places, Sweep
<1> QED
  BY <1>1, <1>2, <1>3, <1>4, <1>5, <1>6, <1>7, <1>8, <1>9 DEF runStep

\* setPortFd may show run() the new entry.
LEMMA ShownPlaces ==
    ASSUME TypeOK, NEW p \in Port, InSweep, thread' = [thread EXCEPT !.todo = @ \cup {p}]
    PROVE  /\ thread' \in Places
           /\ thread'.at = thread.at /\ thread'.todo = thread.todo \cup {p}
           /\ thread'.ready = thread.ready
           /\ thread.at # "check" => thread'.fd = thread.fd
           /\ thread.at \in {"port", "lookup", "list", "send"} =>
                  /\ thread'.ip = thread.ip /\ thread'.from = thread.from
                  /\ thread'.port = thread.port /\ thread'.id = thread.id
                  /\ thread'.list = thread.list
<1>0. thread \in Places /\ thread.todo \cup {p} \subseteq Port
  BY PlaceHas DEF TypeOK, Places
<1>1. CASE Run("check")
  <2>1. thread \in Sweep({"check"}, {NoFd})
    BY <1>0, <1>1, PlaceHas
  <2> QED
    BY <1>0, <1>1, <2>1 DEF Sweep, Places, Run
<1>2. CASE thread.at \in {"recv", "blocked"}
  <2>1. thread \in Sweep({"recv", "blocked"}, Fd)
    BY <1>0, <1>2, PlaceHas
  <2> QED
    BY <1>0, <1>2, <2>1 DEF Sweep, Places
<1>3. CASE thread.at \in {"port", "lookup", "list"}
  <2>1. thread \in Datagram({"port", "lookup", "list"}, {None})
    BY <1>0, <1>3, PlaceHas
  <2> QED
    BY <1>0, <1>3, <2>1 DEF Datagram, Places
<1>4. CASE Run("send")
  <2>1. thread \in Datagram({"send"}, Addr)
    BY <1>0, <1>4, PlaceHas
  <2> QED
    BY <1>0, <1>4, <2>1 DEF Datagram, Places, Run
<1>5. thread.at \in {"top", "ended", "select", "check", "recv", "blocked", "port", "lookup", "list", "send"}
  BY <1>0 DEF Places, Sweep, Datagram
<1> QED
  BY <1>1, <1>2, <1>3, <1>4, <1>5 DEF InSweep, Run

LEMMA TypesStep ==
    ASSUME TypeOK, Tables, Waiting, [Next]_vars
    PROVE  TypeOK'
<1> USE DEF tables, kernel, history
<1>0. /\ thread \in Places /\ caller \in {Idle, [at |-> "join"], [at |-> "stopped"]} \cup Calls
      /\ SrcId \subseteq ListId
      /\ management \in [ListId -> Addr \cup {None, Null}]
      /\ portFd \in [Port -> Fd \cup {NoFd}]
  BY DEF TypeOK, Places, Steps, Calls, ListId
<1>1. CASE UNCHANGED vars
  BY <1>1 DEF TypeOK, vars
<1>2. ASSUME NEW id \in SrcId, NEW a \in Addr, addSource(id, a)
      PROVE  TypeOK'
  <2>1. a[2] \in Port
    BY DEF Addr
  <2>2. portListener' \in [Port -> Nat] /\ sock' \in [Fd -> Port \cup {Closed, Unbound}]
    BY <1>2, <2>1 DEF addSource, TypeOK
  <2>3. adds' \in 0..MaxAdds /\ reopened' \in BOOLEAN
    BY <1>2, ThreadsAssumption DEF addSource, TypeOK
  <2>4. caller' \in Steps
    <3>1. \/ caller' = caller
          \/ \E place \in {"manage", "portFd"}, f \in Fd \cup {NoFd} :
                 caller' = [at |-> place, id |-> id, a |-> a, fd |-> f]
      BY <1>2 DEF addSource
    <3>2. ASSUME NEW place \in {"manage", "portFd"}, NEW f \in Fd \cup {NoFd}
          PROVE  [at |-> place, id |-> id, a |-> a, fd |-> f] \in Calls
      BY DEF Calls, CallerAt
    <3> QED
      BY <3>1, <3>2 DEF TypeOK, Steps, Calls
  <2> QED
    BY <1>2, <2>2, <2>3, <2>4 DEF addSource, TypeOK
<1>3. ASSUME NEW id \in SrcId, removeSource(id)
      PROVE  TypeOK'
  <2>1. management[id] \in Addr
    BY <1>0, <1>3 DEF removeSource, IsList
  <2>2. PICK p \in Port : p = management[id][2]
    BY <2>1 DEF Addr
  <2>3. portListener' = [portListener EXCEPT ![p] = @ - 1]
    BY <1>3, <2>2 DEF removeSource
  <2>4. portListener[p] \in Nat /\ portListener[p] # 0
    <3>1. id \in Counted(p)
      BY <1>3, <2>1, <2>2 DEF Counted, In, At, Removing, removeSource
    <3> QED
      BY <3>1, NoneCounted DEF Tables, TypeOK
  <2>5. portListener' \in [Port -> Nat]
    <3>1. portListener[p] - 1 \in Nat
      BY <2>4
    <3> QED
      BY <2>3, <3>1 DEF TypeOK
  <2>6. portFd' \in [Port -> Fd \cup {NoFd}]
    BY <1>0, <1>3, <2>2 DEF removeSource
  <2>7. caller' \in Steps
    <3>1. PICK place \in {"erase fdPort", "unforward"} :
            caller' = [at |-> place, id |-> id, a |-> management[id], fd |-> portFd[p]]
      BY <1>3, <2>2 DEF removeSource
    <3>2. caller' \in Calls
      BY <1>0, <2>1, <3>1 DEF Calls, CallerAt
    <3> QED
      BY <3>2 DEF Steps, Calls
  <2> QED
    BY <1>3, <2>5, <2>6, <2>7 DEF removeSource, TypeOK
<1>4. ASSUME NEW s \in CallerAt, caller.at \in CallerAt, Goto(s)
      PROVE  caller' \in Steps
  BY <1>4, GotoIs DEF Steps, Calls
<1>5. CASE setPortFd
  <2>1. /\ caller.at = "portFd" /\ caller.at \in CallerAt /\ PortOfCall \in Port
        /\ caller.fd \in Fd \cup {NoFd}
    BY <1>5, CallHas DEF setPortFd, At, CallerAt
  <2>2. caller' \in Steps
    BY <1>4, <1>5, <2>1 DEF setPortFd, CallerAt
  <2>3. portFd' \in [Port -> Fd \cup {NoFd}]
    BY <1>0, <1>5, <2>1 DEF setPortFd
  <2>4. thread' \in Places
    BY <1>0, <1>5, <2>1, ShownPlaces DEF setPortFd, InSweep
  <2> QED
    BY <1>5, <2>2, <2>3, <2>4 DEF setPortFd, TypeOK, Places
<1>6. CASE setFdPort
  <2>1. /\ caller.at = "fdPort" /\ caller.at \in CallerAt /\ PortOfCall \in Port
    BY <1>6, CallHas DEF setFdPort, At, CallerAt
  <2>2. caller' \in Steps
    BY <1>4, <1>6, <2>1 DEF setFdPort, CallerAt
  <2> QED
    BY <1>6, <2>1, <2>2 DEF setFdPort, TypeOK
<1>7. CASE setManagement
  <2>1. caller.at = "manage" /\ caller.at \in CallerAt /\ caller.a \in Addr
    BY <1>7, CallHas DEF setManagement, At, CallerAt
  <2>2. caller' \in Steps
    BY <1>4, <1>7, <2>1 DEF setManagement, CallerAt
  <2> QED
    BY <1>7, <2>1, <2>2 DEF setManagement, TypeOK
<1>8. CASE setForwarding
  <2>1. caller.id \in SrcId
    BY <1>8, CallHas DEF setForwarding, At, CallerAt
  <2>2. forwarding' \in [Addr -> ListId]
    BY <1>0, <1>8, <2>1 DEF setForwarding, TypeOK
  <2> QED
    BY <1>8, <2>2 DEF setForwarding, TypeOK, Steps
<1>9. CASE eraseFdPort \/ closeFd
  <2>1. caller.at \in CallerAt /\ caller' \in Steps
    BY <1>4, <1>9 DEF eraseFdPort, closeFd, CallerAt, At
  <2>2. CASE eraseFdPort
    BY <2>1, <2>2 DEF eraseFdPort, TypeOK
  <2>3. CASE closeFd
    <3>1. data' \in [Port -> SUBSET IP]
      BY <2>3 DEF closeFd, TypeOK
    <3> QED
      BY <2>1, <2>3, <3>1 DEF closeFd, TypeOK
  <2> QED
    BY <1>9, <2>2, <2>3
<1>10. CASE eraseForwarding \/ eraseManagement
  <2>1. caller.at \in CallerAt /\ caller' \in Steps
    BY <1>4, <1>10 DEF eraseForwarding, eraseManagement, CallerAt, At
  <2>2. CASE eraseForwarding
    <3>1. forwarding' \in [Addr -> ListId]
      BY <2>2 DEF eraseForwarding, TypeOK, ListId
    <3> QED
      BY <2>1, <2>2, <3>1 DEF eraseForwarding, TypeOK
  <2>3. CASE eraseManagement
    BY <2>1, <2>3 DEF eraseManagement, TypeOK
  <2> QED
    BY <1>10, <2>2, <2>3
<1>11. CASE stopIfEmpty \/ join
  <2>1. caller' \in Steps /\ working' \in BOOLEAN
    BY <1>11 DEF stopIfEmpty, join, Steps, TypeOK
  <2> QED
    BY <1>11, <2>1 DEF stopIfEmpty, join, TypeOK
<1>12. CASE runStep
  <2>1. thread' \in Places
    BY <1>12, PlacesStep
  <2>2. management' \in [ListId -> Addr \cup {None, Null}]
        /\ UNCHANGED <<portListener, portFd, fdPort, forwarding, sock, caller, removed, reopened>>
    BY <1>12, RunKeepsTables DEF TablesKept
  <2>3. UNCHANGED <<working, adds>>
    BY <1>12 DEF runStep, top, select, checked, visit, recvfrom, wake, readPort, readForwarding,
                 readManagement, sendto
  <2>4. data' \in [Port -> SUBSET IP] /\ held' \in Port \cup {None}
    <3>1. CASE recvfrom
      BY <3>1 DEF recvfrom, take, TypeOK
    <3>2. CASE wake
      BY <3>2 DEF wake, take, Waiting, TypeOK
    <3>3. CASE UNCHANGED <<data, held>>
      BY <3>3 DEF TypeOK
    <3> QED
      BY <1>12, <3>1, <3>2, <3>3 DEF runStep, top, select, checked, visit, readPort,
                                     readForwarding, readManagement, sendto
  <2>5. out' \in [from : Addr, to : Addr] \cup {None}
    <3>1. CASE sendto
      <4>1. thread.list \in Addr /\ thread.ip \in IP /\ thread.from \in Port \cup {None}
        BY <1>0, <3>1, PlaceHas DEF sendto, Run
      <4> QED
        BY <3>1, <4>1 DEF sendto, TypeOK, Addr
    <3>2. CASE out' = out
      BY <3>2 DEF TypeOK
    <3> QED
      BY <1>12, <3>1, <3>2 DEF runStep, top, select, checked, visit, recvfrom, wake, readPort,
                               readForwarding, readManagement
  <2> QED
    BY <2>1, <2>2, <2>3, <2>4, <2>5 DEF TypeOK, Places
<1>13. ASSUME NEW ip \in IP, NEW p \in Port, arrive(ip, p)
       PROVE  TypeOK'
  <2>1. data' \in [Port -> SUBSET IP]
    BY <1>13 DEF arrive, TypeOK
  <2> QED
    BY <1>13, <2>1 DEF arrive, TypeOK
<1> QED
  BY <1>1, <1>2, <1>3, <1>5, <1>6, <1>7, <1>8, <1>9, <1>10, <1>11, <1>12, <1>13 DEF Next, callerStep

-----------------------------------------------------------------------------
(* What run() knows.                                                       *)

\* Steps that leave run() where it is and what it knows true: sockets are opened as long
\* as no source has been removed, and closed and lists erased after that.
Harmless ==
    /\ UNCHANGED <<thread, out>>
    /\ removed => removed'
    /\ ~ removed' => /\ portFd' = portFd
                     /\ \A f \in Fd : sock[f] # Closed => sock'[f] = sock[f]
    /\ \A f \in Fd : sock'[f] \in {sock[f], Closed} \/ (sock[f] = Closed /\ ~ removed)
    /\ \A p \in Port : portFd'[p] \in {portFd[p], NoFd}
    /\ \A p \in Port : \/ data[p] \subseteq data'[p]
                       \/ portFd[p] = NoFd /\ \A f \in Fd : sock'[f] # p
    /\ \A id \in ListId : \/ management'[id] = management[id]
                          \/ ~ IsList(id) /\ ~ removed
                          \/ removed' /\ ~ IsList(id)'

LEMMA UsedIs ==
    ASSUME TypeOK
    PROVE  Used \subseteq Fd
<1>1. thread \in Places
  BY DEF TypeOK, Places
<1> QED
  BY <1>1, PlaceHas DEF Used, Places, Sweep, Datagram, Run, InSweep

LEMMA HarmlessKnows ==
    ASSUME TypeOK, Steady, Selected, Taken, Harmless
    PROVE  Steady' /\ Selected' /\ Taken'
<1>0. /\ thread \in Places /\ thread' = thread /\ out' = out
      /\ portFd \in [Port -> Fd \cup {NoFd}] /\ data \in [Port -> SUBSET IP]
      /\ sock \in [Fd -> Port \cup {Closed, Unbound}]
      /\ NoFd \notin Fd /\ Closed \notin Port
  BY NothingIs DEF TypeOK, Places, Harmless
<1>1. Used \subseteq Fd
  BY UsedIs
<1>2. Steady'
  <2>1. SUFFICES ASSUME ~ removed', NEW f \in Used
                 PROVE  sock'[f] \in Port /\ portFd'[sock'[f]] = f
    BY <1>0 DEF Steady, Used, Run, InSweep
  <2>2. sock[f] \in Port /\ portFd[sock[f]] = f /\ f \in Fd
    BY <1>1, <2>1 DEF Steady, Harmless
  <2>3. sock'[f] = sock[f] /\ portFd' = portFd
    BY <1>0, <2>1, <2>2 DEF Harmless
  <2> QED
    BY <2>2, <2>3
<1>3. Selected'
  <2>1. ~ Run("blocked")'
    BY <1>0 DEF Selected, Run
  <2>2. ASSUME InSweep, NEW p \in thread.todo, portFd'[p] \in thread.ready
        PROVE  data'[p] # {}
    <3>1. p \in Port /\ portFd'[p] \in Fd
      BY <1>0, <2>2, PlaceHas
    <3>2. portFd'[p] = portFd[p] /\ portFd[p] # NoFd
      BY <1>0, <3>1 DEF Harmless
    <3>3. data[p] # {}
      BY <2>2, <3>2 DEF Selected
    <3> QED
      BY <3>1, <3>2, <3>3 DEF Harmless
  <2>3. ASSUME Run("recv"), sock'[thread.fd] \in Port
        PROVE  sock'[thread.fd] \notin thread.todo /\ data'[sock'[thread.fd]] # {}
    <3>1. thread.fd \in Fd /\ thread.fd \in Used
      BY <1>0, <2>3, PlaceHas DEF Run, Used, InSweep
    <3>2. sock'[thread.fd] = sock[thread.fd]
      BY <1>0, <2>3, <3>1 DEF Harmless, Steady
    <3>3. sock[thread.fd] \notin thread.todo /\ data[sock[thread.fd]] # {}
      BY <2>3, <3>2 DEF Selected
    <3> QED
      BY <2>3, <3>1, <3>2, <3>3 DEF Harmless
  <2> QED
    BY <1>0, <2>1, <2>2, <2>3 DEF Selected, Run, InSweep
<1>4. Taken'
  <2>1. Run("port") /\ thread.from # None => sock'[thread.fd] \in {thread.from, Closed}
    <3>1. SUFFICES ASSUME Run("port"), thread.from # None
                   PROVE  sock'[thread.fd] \in {thread.from, Closed}
      OBVIOUS
    <3>2. thread.fd \in Fd /\ thread.fd \in Used /\ sock[thread.fd] \in {thread.from, Closed}
      BY <1>0, <3>1, PlaceHas DEF Run, Used, InSweep, Taken
    <3> QED
      BY <1>0, <3>2 DEF Harmless, Steady
  <2>2. Run("list") /\ thread.from # None /\ thread.id # 0 =>
           \/ management'[thread.id] = <<thread.ip, thread.from>>
           \/ removed' /\ ~ IsList(thread.id)'
    <3>1. SUFFICES ASSUME Run("list"), thread.from # None, thread.id # 0
                   PROVE  \/ management'[thread.id] = <<thread.ip, thread.from>>
                          \/ removed' /\ management'[thread.id] \in {None, Null}
      BY <1>0 DEF IsList
    <3>2. thread.id \in ListId /\ <<thread.ip, thread.from>> \in Addr
      BY <1>0, <3>1, PlaceHas DEF Run, Addr
    <3>3. \/ management[thread.id] = <<thread.ip, thread.from>> /\ IsList(thread.id)
          \/ removed /\ ~ IsList(thread.id)
      BY <3>1, <3>2, NothingIs DEF Taken, IsList
    <3>4. \/ management'[thread.id] = management[thread.id]
          \/ ~ IsList(thread.id) /\ ~ removed
          \/ removed' /\ management'[thread.id] \in {None, Null}
      BY <1>0, <3>2 DEF Harmless, IsList
    <3>5. removed => removed'
      BY DEF Harmless
    <3> QED
      BY <3>3, <3>4, <3>5 DEF IsList
  <2> QED
    BY <1>0, <2>1, <2>2 DEF Taken, Run, IsList
<1> QED
  BY <1>2, <1>3, <1>4

\* The caller's steps but setPortFd, and the datagrams that arrive.
LEMMA HarmlessSteps ==
    ASSUME TypeOK, Tables, ~ reopened',
           \/ \E id \in SrcId, a \in Addr : addSource(id, a)
           \/ \E id \in SrcId : removeSource(id)
           \/ callerStep /\ ~ setPortFd
           \/ \E ip \in IP, p \in Port : arrive(ip, p)
           \/ UNCHANGED vars
    PROVE  ~ reopened /\ Harmless
<1> USE DEF tables, kernel, history
<1>0. /\ portFd \in [Port -> Fd \cup {NoFd}] /\ data \in [Port -> SUBSET IP]
      /\ sock \in [Fd -> Port \cup {Closed, Unbound}]
      /\ management \in [ListId -> Addr \cup {None, Null}]
      /\ SrcId \subseteq ListId
      /\ Phases /\ Sockets /\ Lists
  BY DEF TypeOK, Tables, ListId
<1>1. ASSUME NEW id \in SrcId, NEW a \in Addr, addSource(id, a)
      PROVE  ~ reopened /\ Harmless
  <2>1. /\ UNCHANGED <<thread, out, portFd, data, management, removed>>
        /\ ~ removed /\ ~ reopened
    BY <1>0, <1>1 DEF addSource, Phases
  <2>2. \A f \in Fd : sock[f] = Closed \/ sock'[f] = sock[f]
    <3>1. \/ sock' = sock
          \/ \E f \in Fd, v \in Port \cup {Unbound} : Lowest(f) /\ sock' = [sock EXCEPT ![f] = v]
      BY <1>1 DEF addSource, Addr
    <3> QED
      BY <1>0, <3>1 DEF Lowest
  <2> QED
    BY <2>1, <2>2 DEF Harmless
<1>2. ASSUME NEW id \in SrcId, removeSource(id)
      PROVE  ~ reopened /\ Harmless
  <2>1. UNCHANGED <<thread, out, data, management, sock, reopened>> /\ removed'
    BY <1>2 DEF removeSource
  <2>2. \A p \in Port : portFd'[p] \in {portFd[p], NoFd}
    BY <1>0, <1>2 DEF removeSource
  <2> QED
    BY <2>1, <2>2 DEF Harmless
<1>3. CASE setFdPort \/ setForwarding \/ stopIfEmpty \/ join \/ UNCHANGED vars
  <2>1. UNCHANGED <<thread, out, portFd, data, management, sock, removed, reopened>>
    BY <1>3 DEF setFdPort, setForwarding, stopIfEmpty, join, vars
  <2> QED
    BY <2>1 DEF Harmless
<1>4. CASE setManagement
  <2>1. /\ UNCHANGED <<thread, out, portFd, data, sock, removed, reopened>>
        /\ caller.at = "manage" /\ caller.id \in SrcId
        /\ management' = [management EXCEPT ![caller.id] = caller.a]
    BY <1>4, CallHas DEF setManagement, At, CallerAt
  <2>2. ~ removed /\ ~ IsList(caller.id)
    BY <1>0, <2>1 DEF Phases, Lists, In, Adding
  <2>3. \A id \in ListId : management'[id] = management[id] \/ id = caller.id
    BY <1>0, <2>1
  <2> QED
    BY <2>1, <2>2, <2>3 DEF Harmless
<1>5. CASE eraseFdPort \/ eraseForwarding
  <2>1. UNCHANGED <<thread, out, portFd, data, management, sock, removed, reopened>>
    BY <1>5 DEF eraseFdPort, eraseForwarding
  <2> QED
    BY <2>1 DEF Harmless
<1>6. CASE closeFd
  <2>1. /\ UNCHANGED <<thread, out, portFd, management, removed, reopened>>
        /\ caller.at = "close" /\ PortOfCall \in Port
        /\ sock' = [sock EXCEPT ![caller.fd] = Closed]
        /\ data' = data \/ data' = [data EXCEPT ![PortOfCall] = {}]
    BY <1>6, CallHas DEF closeFd, At, CallerAt
  <2>2. /\ removed /\ caller.fd \in Fd /\ sock[caller.fd] = PortOfCall
        /\ portFd[PortOfCall] = NoFd
    BY <1>0, <2>1 DEF Phases, Sockets, In, At, Removing, Uncounted
  <2>3. \A f \in Fd : sock'[f] = IF f = caller.fd THEN Closed ELSE sock[f]
    BY <1>0, <2>1
  <2>4. \A f \in Fd : sock'[f] # PortOfCall
    BY <1>0, <2>1, <2>2, <2>3, NothingIs DEF Sockets
  <2>5. \A p \in Port : p # PortOfCall => data'[p] = data[p]
    BY <1>0, <2>1
  <2> QED
    BY <2>1, <2>2, <2>3, <2>4, <2>5 DEF Harmless
<1>7. CASE eraseManagement
  <2>1. /\ UNCHANGED <<thread, out, portFd, data, sock, removed, reopened>>
        /\ caller.at = "unmanage" /\ caller.id \in SrcId
        /\ management' = [management EXCEPT ![caller.id] = None]
    BY <1>7, CallHas DEF eraseManagement, At, CallerAt
  <2>2. removed
    BY <1>0, <2>1 DEF Phases, In, Removing
  <2>3. \A id \in ListId : management'[id] = management[id] \/ ~ IsList(id)'
    BY <1>0, <2>1 DEF IsList
  <2> QED
    BY <2>1, <2>2, <2>3 DEF Harmless
<1>8. ASSUME NEW ip \in IP, NEW p \in Port, arrive(ip, p)
      PROVE  ~ reopened /\ Harmless
  <2>1. /\ UNCHANGED <<thread, out, portFd, management, sock, removed, reopened>>
        /\ data' = [data EXCEPT ![p] = @ \cup {ip}]
    BY <1>8 DEF arrive
  <2>2. \A q \in Port : data[q] \subseteq data'[q]
    BY <1>0, <2>1
  <2> QED
    BY <2>1, <2>2 DEF Harmless
<1> QED
  BY <1>1, <1>2, <1>3, <1>4, <1>5, <1>6, <1>7, <1>8 DEF callerStep

\* run() may meet the new entry of portFd, of a socket it has not been told of.
LEMMA setPortFdKnows ==
    ASSUME TypeOK, Tables, ~ reopened, Steady, Selected, Taken, setPortFd
    PROVE  Steady' /\ Selected' /\ Taken'
<1> USE DEF tables, kernel, history
<1>0. /\ thread \in Places
      /\ portFd \in [Port -> Fd \cup {NoFd}]
      /\ Phases /\ Sockets
      /\ NoFd \notin Fd
  BY NothingIs DEF TypeOK, Places, Tables
<1>1. /\ UNCHANGED <<out, data, management, sock, removed>>
      /\ caller.at = "portFd" /\ PortOfCall \in Port
      /\ portFd' = [portFd EXCEPT ![PortOfCall] = caller.fd]
      /\ \/ thread' = thread
         \/ InSweep /\ thread' = [thread EXCEPT !.todo = @ \cup {PortOfCall}]
  BY <1>0, CallHas DEF setPortFd, At, CallerAt, InSweep
<1>2. /\ ~ removed /\ caller.fd \in Fd /\ sock[caller.fd] = PortOfCall
      /\ portFd[PortOfCall] = NoFd
  BY <1>0, <1>1 DEF Phases, Sockets, In, At, Adding, Uncounted
<1>3. \A p \in Port : portFd'[p] = IF p = PortOfCall THEN caller.fd ELSE portFd[p]
  BY <1>0, <1>1
<1>4. caller.fd \notin Used
  BY <1>0, <1>2 DEF Steady
<1>5. \A f \in Used : sock[f] \in Port /\ sock[f] # PortOfCall /\ portFd'[sock[f]] = f
  BY <1>0, <1>2, <1>3, UsedIs DEF Steady
<1>6. /\ thread'.at = thread.at
      /\ InSweep => thread'.ready = thread.ready /\ thread'.todo \subseteq thread.todo \cup {PortOfCall}
      /\ thread.at \in {"recv", "blocked", "port", "lookup", "list", "send"} => thread'.fd = thread.fd
      /\ Run("select") => thread'.fds = thread.fds
      /\ thread.at \in {"port", "lookup", "list", "send"} =>
            /\ thread'.ip = thread.ip /\ thread'.from = thread.from
            /\ thread'.port = thread.port /\ thread'.id = thread.id
            /\ thread'.list = thread.list
  BY <1>1, ShownPlaces DEF InSweep, Run
<1>7. Used' = Used
  BY <1>0, <1>6 DEF Used, Run, InSweep, Places, Sweep, Datagram
<1>8. Steady'
  BY <1>1, <1>5, <1>7 DEF Steady
<1>9. Selected'
  <2>1. ASSUME InSweep, NEW p \in thread'.todo, portFd'[p] \in thread.ready
        PROVE  data[p] # {}
    <3>1. p \in thread.todo \cup {PortOfCall} /\ thread.todo \subseteq Port
      BY <1>0, <1>6, <2>1, PlaceHas
    <3>2. thread.ready \subseteq Used
      BY <2>1 DEF Used, InSweep, Run
    <3>3. p # PortOfCall
      BY <1>1, <1>3, <1>4, <2>1, <3>2
    <3>4. portFd'[p] = portFd[p] /\ p \in thread.todo
      BY <1>3, <3>1, <3>3
    <3> QED
      BY <2>1, <3>4 DEF Selected
  <2>2. ASSUME Run("recv"), sock[thread.fd] \in Port
        PROVE  sock[thread.fd] \notin thread'.todo /\ data[sock[thread.fd]] # {}
    <3>1. thread.fd \in Used /\ InSweep
      BY <2>2 DEF Used, Run, InSweep
    <3>2. sock[thread.fd] # PortOfCall
      BY <1>5, <3>1
    <3>3. sock[thread.fd] \notin thread.todo /\ data[sock[thread.fd]] # {}
      BY <2>2 DEF Selected
    <3> QED
      BY <1>6, <3>1, <3>2, <3>3
  <2> QED
    BY <1>1, <1>6, <2>1, <2>2 DEF Selected, Run, InSweep
<1>10. Taken'
  BY <1>1, <1>6 DEF Taken, Run, IsList
<1> QED
  BY <1>8, <1>9, <1>10

\* run() at the top of its loop, and back from select().
LEMMA sweepKnows ==
    ASSUME TypeOK, Tables, ~ reopened, Steady, Selected, Taken,
           \/ top \/ select \/ checked \/ \E p \in Port : visit(p)
    PROVE  Steady' /\ Selected' /\ Taken'
<1> USE DEF tables, kernel, history
<1>0. /\ thread \in Places
      /\ portFd \in [Port -> Fd \cup {NoFd}]
      /\ Sockets
      /\ NoFd \notin Fd
  BY NothingIs DEF TypeOK, Places, Tables
<1>1. UNCHANGED <<portFd, sock, data, management, removed, out>>
  BY DEF top, select, checked, visit
<1>2. CASE thread'.at \in {"top", "ended"}
  BY <1>1, <1>2 DEF Steady, Selected, Taken, Used, Run, InSweep
<1>3. CASE top /\ thread' = [at |-> "select", fds |-> {portFd[p] : p \in Port} \ {NoFd}]
  <2>1. thread'.at = "select" /\ thread'.fds = {portFd[p] : p \in Port} \ {NoFd}
    BY <1>3
  <2>2. \A f \in thread'.fds : sock[f] \in Port /\ portFd[sock[f]] = f
    <3>1. SUFFICES ASSUME NEW p \in Port, portFd[p] # NoFd
                   PROVE  sock[portFd[p]] \in Port /\ portFd[sock[portFd[p]]] = portFd[p]
      BY <2>1
    <3> QED
      BY <1>0, <3>1 DEF Sockets
  <2> QED
    BY <1>1, <2>1, <2>2 DEF Steady, Selected, Taken, Used, Run, InSweep
<1>4. CASE select /\ thread' # Top
  <2>1. /\ Run("select")
        /\ thread' = [at |-> "check", ready |-> Readable(thread.fds),
                      todo |-> {p \in Port : portFd[p] # NoFd}, fd |-> NoFd]
    BY <1>4 DEF select
  <2>2. /\ thread'.at = "check" /\ thread'.ready = Readable(thread.fds)
        /\ thread'.todo = {p \in Port : portFd[p] # NoFd}
    BY <2>1
  <2>3. Readable(thread.fds) \subseteq Used
    BY <2>1 DEF Readable, Used
  <2>4. \A p \in thread'.todo : portFd[p] \in thread'.ready => data[p] # {}
    BY <1>0, <2>2 DEF Sockets, Readable
  <2> QED
    BY <1>1, <2>2, <2>3, <2>4 DEF Steady, Selected, Taken, Used, Run, InSweep
<1>5. ASSUME NEW p \in Port, visit(p)
      PROVE  Steady' /\ Selected' /\ Taken'
  <2>1. p \in thread.todo /\ Run("check") /\ InSweep /\ Used = thread.ready
    BY <1>5 DEF visit, Run, InSweep, Used
  <2>2. CASE /\ portFd[p] \in thread.ready
             /\ thread' = [at |-> "recv", ready |-> thread.ready,
                           todo |-> thread.todo \ {p}, fd |-> portFd[p]]
    <3>1. /\ thread'.at = "recv" /\ thread'.ready = thread.ready
          /\ thread'.todo = thread.todo \ {p} /\ thread'.fd = portFd[p]
      BY <2>2
    <3>2. Used' = Used
      BY <2>1, <2>2, <3>1 DEF Used, Run, InSweep
    <3>3. data[p] # {} /\ sock[portFd[p]] = p
      BY <1>0, <2>1, <2>2, UsedIs DEF Selected, Sockets
    <3> QED
      BY <1>1, <2>1, <3>1, <3>2, <3>3 DEF Steady, Selected, Taken, Run, InSweep
  <2>3. CASE thread' = [at |-> "check", ready |-> thread.ready,
                        todo |-> thread.todo \ {p}, fd |-> NoFd]
    <3>1. /\ thread'.at = "check" /\ thread'.ready = thread.ready
          /\ thread'.todo = thread.todo \ {p}
      BY <2>3
    <3> QED
      BY <1>1, <2>1, <3>1 DEF Steady, Selected, Taken, Run, InSweep, Used
  <2> QED
    BY <1>5, <2>2, <2>3 DEF visit
<1>6. top => \/ thread'.at \in {"top", "ended"}
             \/ thread' = [at |-> "select", fds |-> {portFd[p] : p \in Port} \ {NoFd}]
  BY DEF top
<1>7. thread' = Top => thread'.at = "top"
  BY DEF Top
<1> QED
  BY <1>2, <1>3, <1>4, <1>5, <1>6, <1>7 DEF checked

\* process() takes a datagram, and looks up its source step by step.
LEMMA processKnows ==
    ASSUME TypeOK, Tables, ~ reopened, Steady, Selected, Taken,
           \/ recvfrom \/ wake \/ readPort \/ readForwarding \/ readManagement \/ sendto
    PROVE  Steady' /\ Selected' /\ Taken'
<1> USE DEF tables, kernel, history
<1>0. /\ thread \in Places
      /\ portFd \in [Port -> Fd \cup {NoFd}]
      /\ data \in [Port -> SUBSET IP]
      /\ fdPort \in [Fd -> Port \cup {0}]
      /\ sock \in [Fd -> Port \cup {Closed, Unbound}]
      /\ management \in [ListId -> Addr \cup {None, Null}]
      /\ forwarding \in [Addr -> ListId]
      /\ Sockets /\ Lists
      /\ ~ Run("blocked")
  BY DEF TypeOK, Places, Tables, Selected
<1>1. UNCHANGED <<portFd, sock, removed>> /\ (out' = out \/ sendto)
  BY DEF recvfrom, wake, readPort, readForwarding, readManagement, sendto
<1>2. CASE recvfrom
  <2>1. /\ Run("recv") /\ InSweep /\ thread.fd \in Fd /\ thread.todo \subseteq Port
        /\ management' = management /\ out' = out
    BY <1>0, <1>2, PlaceHas DEF recvfrom, Run, InSweep
  <2>2. \/ /\ sock[thread.fd] \in Port
           /\ \E ip \in data[sock[thread.fd]] :
                 /\ data' = [data EXCEPT ![sock[thread.fd]] = @ \ {ip}]
                 /\ Got("port", ip, sock[thread.fd])
        \/ data' = data /\ \E ip \in IP : Got("port", ip, None)
    BY <1>2, <2>1 DEF recvfrom, take, Selected
  <2>3. /\ thread'.at = "port" /\ thread'.fd = thread.fd
        /\ thread'.ready = thread.ready /\ thread'.todo = thread.todo
        /\ thread'.from \in {None, sock[thread.fd]}
    BY <2>2 DEF Got
  <2>4. Used' = Used
    BY <2>1, <2>3 DEF Used, Run, InSweep
  <2>5. \A p \in thread.todo : data'[p] = data[p]
    BY <1>0, <2>1, <2>2 DEF Selected
  <2> QED
    BY <1>1, <2>1, <2>3, <2>4, <2>5 DEF Steady, Selected, Taken, Run, InSweep
<1>3. ASSUME thread' \in Places, thread'.ready = thread.ready, thread'.todo = thread.todo,
             thread'.fd = thread.fd, thread.at \in {"port", "lookup", "list"},
             thread'.at \in {"lookup", "list", "send"}, data' = data
      PROVE  Steady' /\ Selected'
  <2>1. Used' = Used
    BY <1>3 DEF Used, Run, InSweep
  <2> QED
    BY <1>1, <1>3, <2>1 DEF Steady, Selected, Run, InSweep
<1>4. CASE readPort
  <2>1. /\ thread \in Datagram({"port", "lookup", "list"}, {None})
        /\ thread.at = "port" /\ thread.fd \in Fd
        /\ thread' = [thread EXCEPT !.at = "lookup", !.port = fdPort[thread.fd]]
        /\ UNCHANGED <<data, management, out>>
    BY <1>0, <1>4, PlaceHas DEF readPort, Run
  <2>2. /\ thread'.at = "lookup" /\ thread'.port = fdPort[thread.fd]
        /\ thread'.from = thread.from /\ thread'.fd = thread.fd
        /\ thread'.ready = thread.ready /\ thread'.todo = thread.todo
    BY <2>1 DEF Datagram
  <2>3. Steady' /\ Selected'
    BY <1>3, <1>0, <1>4, <2>1, <2>2, PlacesStep DEF runStep, Waiting
  <2>4. thread.from # None => fdPort[thread.fd] \in {thread.from, 0}
    <3>1. SUFFICES ASSUME thread.from # None, fdPort[thread.fd] # 0
                   PROVE  fdPort[thread.fd] = thread.from
      OBVIOUS
    <3>2. fdPort[thread.fd] \in Port /\ sock[thread.fd] = fdPort[thread.fd]
      BY <1>0, <2>1, <3>1 DEF Sockets
    <3>3. sock[thread.fd] \in {thread.from, Closed}
      BY <2>1, <3>1 DEF Taken, Run
    <3> QED
      BY <3>2, <3>3, NothingIs
  <2>5. Taken'
    BY <2>1, <2>2, <2>4 DEF Taken, Run
  <2> QED
    BY <2>3, <2>5
<1>5. CASE readForwarding
  <2> DEFINE id == IF thread.port = 0 THEN 0 ELSE forwarding[<<thread.ip, thread.port>>]
  <2>1. /\ thread \in Datagram({"port", "lookup", "list"}, {None})
        /\ thread.at = "lookup" /\ thread.ip \in IP /\ thread.port \in Port \cup {0}
        /\ UNCHANGED <<data, management, out>>
    BY <1>0, <1>5, PlaceHas DEF readForwarding, Run
  <2>2. thread' = [thread EXCEPT !.at = "list", !.id = id]
    BY <1>5 DEF readForwarding
  <2>3. /\ thread'.at = "list" /\ thread'.id = id
        /\ thread'.from = thread.from /\ thread'.ip = thread.ip /\ thread'.fd = thread.fd
        /\ thread'.ready = thread.ready /\ thread'.todo = thread.todo
    BY <2>1, <2>2 DEF Datagram
  <2>4. Steady' /\ Selected'
    BY <1>3, <1>0, <1>5, <2>1, <2>3, PlacesStep DEF runStep, Waiting
  <2>5. thread.from # None /\ id # 0 => management[id] = <<thread.ip, thread.from>>
    <3>1. SUFFICES ASSUME thread.from # None, thread.port # 0, forwarding[<<thread.ip, thread.port>>] # 0
                   PROVE  management[forwarding[<<thread.ip, thread.port>>]] = <<thread.ip, thread.from>>
      OBVIOUS
    <3>2. thread.port = thread.from
      BY <2>1, <3>1 DEF Taken, Run
    <3> QED
      BY <1>0, <2>1, <3>1, <3>2 DEF Lists, Addr
  <2> HIDE DEF id
  <2>6. Taken'
    BY <2>1, <2>3, <2>5 DEF Taken, Run
  <2> QED
    BY <2>4, <2>6
<1>6. ASSUME UNCHANGED <<data>>, thread' = BackToCheck, InSweep,
             out' = out \/ (out' # None => out'.to = out'.from)
      PROVE  Steady' /\ Selected' /\ Taken'
  <2>1. /\ thread'.at = "check" /\ thread'.ready = thread.ready /\ thread'.todo = thread.todo
    BY <1>6 DEF BackToCheck
  <2>2. thread.ready \subseteq Used
    BY <1>6 DEF Used, Run, InSweep
  <2> QED
    BY <1>1, <1>6, <2>1, <2>2 DEF Steady, Selected, Taken, Used, Run, InSweep
<1>7. CASE readManagement
  <2>1. /\ thread \in Datagram({"port", "lookup", "list"}, {None})
        /\ thread.at = "list" /\ thread.id \in ListId
        /\ UNCHANGED <<data, out>>
    BY <1>0, <1>7, PlaceHas DEF readManagement, Run
  <2>2. CASE /\ IsList(thread.id) /\ management' = management
             /\ thread' = [thread EXCEPT !.at = "send", !.list = management[thread.id]]
    <3>1. /\ thread'.at = "send" /\ thread'.list = management[thread.id]
          /\ thread'.from = thread.from /\ thread'.ip = thread.ip /\ thread'.fd = thread.fd
          /\ thread'.ready = thread.ready /\ thread'.todo = thread.todo
      BY <2>1, <2>2 DEF Datagram
    <3>2. Steady' /\ Selected'
      BY <1>3, <1>0, <1>7, <2>1, <3>1, PlacesStep DEF runStep, Waiting
    <3>3. thread.id # 0
      BY <1>0, <2>2 DEF Lists
    <3>4. thread.from # None => management[thread.id] = <<thread.ip, thread.from>>
      BY <2>1, <2>2, <3>3 DEF Taken, Run
    <3>5. Taken'
      BY <2>1, <3>1, <3>4 DEF Taken, Run
    <3> QED
      BY <3>2, <3>5
  <2>3. CASE thread' = BackToCheck
    BY <1>6, <2>1, <2>3 DEF InSweep
  <2> QED
    BY <1>7, <2>2, <2>3 DEF readManagement
<1>8. CASE sendto
  <2>1. Run("send") /\ InSweep /\ data' = data /\ thread' = BackToCheck
    BY <1>8 DEF sendto, Run, InSweep
  <2>2. out' = out \/ (out' # None => out'.to = out'.from)
    BY <1>8, <2>1 DEF sendto, Taken
  <2> QED
    BY <1>6, <2>1, <2>2
<1>9. ~ wake
  BY <1>0 DEF wake
<1> QED
  BY <1>2, <1>4, <1>5, <1>7, <1>8, <1>9

-----------------------------------------------------------------------------
(* The theorems.                                                           *)

LEMMA InvInit == Init => Inv
<1> SUFFICES ASSUME Init
             PROVE  Inv
  OBVIOUS
<1> USE DEF Init
<1>1. TypeOK
  <2>1. thread \in [at : {"top", "ended"}]
    BY DEF Top
  <2>2. adds \in 0..MaxAdds
    BY ThreadsAssumption
  <2>3. /\ portListener \in [Port -> Nat] /\ portFd \in [Port -> Fd \cup {NoFd}]
        /\ fdPort \in [Fd -> Port \cup {0}] /\ data \in [Port -> SUBSET IP]
        /\ sock \in [Fd -> Port \cup {Closed, Unbound}]
    OBVIOUS
  <2>4. /\ management \in [ListId -> Addr \cup {None, Null}]
        /\ forwarding \in [Addr -> ListId]
    BY DEF ListId
  <2> QED
    BY <2>1, <2>2, <2>3, <2>4 DEF TypeOK, Steps
<1>2. Counts
  <2>1. \A p \in Port : Counted(p) = {}
    BY DEF Counted, IsList, At, Idle, ListId
  <2> QED
    BY <2>1, FS_EmptySet DEF Counts
<1>3. Sockets /\ Lists /\ Phases
  BY NothingIs DEF Sockets, Lists, Phases, In, At, Idle, IsList, ListId, Uncounted, Adding, Removing
<1>4. Waiting /\ Knowledge
  BY DEF Waiting, Knowledge, Steady, Selected, Taken, Used, Run, InSweep, Top
<1> QED
  BY <1>1, <1>2, <1>3, <1>4 DEF Inv, Tables

LEMMA TablesStep ==
    ASSUME TypeOK, Tables, [Next]_vars
    PROVE  Tables'
<1>1. CASE \/ \E id \in SrcId, a \in Addr : addSource(id, a)
           \/ \E id \in SrcId : removeSource(id)
           \/ callerStep
  BY <1>1, CountsStep, SocketsStep, ListsStep, PhasesStep DEF Tables
<1>2. CASE runStep
  BY <1>2, RunKeepsTables, TablesFrame
<1>3. CASE (\E ip \in IP, p \in Port : arrive(ip, p)) \/ UNCHANGED vars
  <2>1. TablesKept
    BY <1>3 DEF arrive, vars, TablesKept, tables, kernel, history, TypeOK
  <2> QED
    BY <2>1, TablesFrame
<1> QED
  BY <1>1, <1>2, <1>3 DEF Next

LEMMA WaitingStep ==
    ASSUME TypeOK, Waiting, [Next]_vars
    PROVE  Waiting'
<1> USE DEF tables, kernel, history, Waiting, Run
<1>1. CASE recvfrom
  BY <1>1 DEF recvfrom, take, Got
<1>2. CASE runStep /\ ~ recvfrom
  <2>1. thread'.at # "blocked"
    <3>1. CASE readPort \/ readForwarding \/ readManagement
      <4>1. thread \in Datagram({"port", "lookup", "list"}, {None})
        BY <3>1, PlaceHas DEF readPort, readForwarding, readManagement, Places, TypeOK
      <4> QED
        <5>1. CASE readPort
          BY <4>1, <5>1 DEF readPort, Datagram
        <5>2. CASE readForwarding
          <6>1. PICK id : thread' = [thread EXCEPT !.at = "list", !.id = id]
            BY <5>2 DEF readForwarding
          <6> QED
            BY <4>1, <6>1 DEF Datagram
        <5>3. CASE readManagement
          <6>1. CASE thread' = [thread EXCEPT !.at = "send", !.list = management[thread.id]]
            BY <4>1, <6>1 DEF Datagram
          <6>2. CASE thread' = BackToCheck
            BY <6>2 DEF BackToCheck
          <6> QED
            BY <5>3, <6>1, <6>2 DEF readManagement
        <5> QED
          BY <3>1, <5>1, <5>2, <5>3
    <3>2. CASE top \/ select \/ checked \/ wake \/ sendto \/ \E p \in Port : visit(p)
      BY <3>2 DEF top, select, checked, wake, take, Got, sendto, visit, Top, BackToCheck
    <3> QED
      BY <1>2, <3>1, <3>2 DEF runStep
  <2> QED
    BY <2>1
<1>3. CASE setPortFd
  <2>1. /\ held' = held /\ PortOfCall \in Port
        /\ \/ thread' = thread
           \/ InSweep /\ thread' = [thread EXCEPT !.todo = @ \cup {PortOfCall}]
    BY <1>3, CallHas DEF setPortFd, At, CallerAt, InSweep
  <2> QED
    BY <2>1, ShownPlaces
<1>4. CASE \/ \E id \in SrcId, a \in Addr : addSource(id, a)
           \/ \E id \in SrcId : removeSource(id)
           \/ callerStep /\ ~ setPortFd
           \/ \E ip \in IP, p \in Port : arrive(ip, p)
           \/ UNCHANGED vars
  BY <1>4 DEF addSource, removeSource, callerStep, setFdPort, setManagement, setForwarding,
              eraseFdPort, closeFd, eraseForwarding, eraseManagement, stopIfEmpty, join, arrive, vars
<1> QED
  BY <1>1, <1>2, <1>3, <1>4 DEF Next

LEMMA KnowledgeStep ==
    ASSUME TypeOK, Tables, Knowledge, [Next]_vars
    PROVE  Knowledge'
<1> SUFFICES ASSUME ~ reopened'
             PROVE  Steady' /\ Selected' /\ Taken'
  BY DEF Knowledge
<1>1. CASE runStep
  <2>1. ~ reopened
    BY <1>1, RunKeepsTables DEF TablesKept
  <2> QED
    BY <1>1, <2>1, sweepKnows, processKnows DEF Knowledge, runStep
<1>2. CASE setPortFd
  BY <1>2, setPortFdKnows DEF Knowledge, setPortFd, history
<1>3. CASE \/ \E id \in SrcId, a \in Addr : addSource(id, a)
           \/ \E id \in SrcId : removeSource(id)
           \/ callerStep /\ ~ setPortFd
           \/ \E ip \in IP, p \in Port : arrive(ip, p)
           \/ UNCHANGED vars
  BY <1>3, HarmlessSteps, HarmlessKnows DEF Knowledge
<1> QED
  BY <1>1, <1>2, <1>3 DEF Next

LEMMA InvStep == Inv /\ [Next]_vars => Inv'
BY TypesStep, TablesStep, WaitingStep, KnowledgeStep DEF Inv

\* Every variable keeps its type, whatever both threads do between two accesses: no
\* listener count of Worker's portListener falls below zero, and run() holds what its
\* place in check_select_list and process() needs.
THEOREM TypeTheorem == Spec => []TypeOK
<1>1. Inv => TypeOK
  BY DEF Inv
<1> QED
  BY <1>1, InvInit, InvStep, PTL DEF Spec

\* Between two calls of the caller, Worker's tables agree with each other and with the
\* sockets that are open, although run() takes no lock (addSource, removeSource).
THEOREM SettledTheorem == Spec => []SettledExact
<1>1. Inv => SettledExact
  <2> SUFFICES ASSUME Inv, At("idle")
               PROVE  /\ \A p \in Port : portFd[p] # NoFd => /\ fdPort[portFd[p]] = p
                                                             /\ sock[portFd[p]] = p
                      /\ \A f \in Fd : fdPort[f] # 0 => portFd[fdPort[f]] = f
                      /\ \A a \in Addr : forwarding[a] # 0 => management[forwarding[a]] = a
                      /\ \A id \in ListId : IsList(id) =>
                              /\ forwarding[management[id]] = id
                              /\ portFd[management[id][2]] # NoFd
    BY DEF SettledExact
  <2>1. TypeOK /\ Counts /\ Sockets /\ Lists
    BY DEF Inv, Tables
  <2>2. ASSUME NEW id \in ListId, IsList(id)
        PROVE  forwarding[management[id]] = id /\ portFd[management[id][2]] # NoFd
    <3>1. management[id] \in Addr
      BY <2>1, <2>2 DEF TypeOK, IsList
    <3>2. PICK p \in Port : p = management[id][2]
      BY <3>1 DEF Addr
    <3>3. id \in SrcId
      BY <2>1, <2>2 DEF Lists, ListId
    <3>4. id \in Counted(p)
      BY <2>2, <3>2, <3>3 DEF Counted, In, At, Removing
    <3>5. portListener[p] # 0
      BY <2>1, <3>4, NoneCounted
    <3> QED
      BY <2>1, <2>2, <3>2, <3>5 DEF Sockets, Lists, In, At
  <2> QED
    BY <2>1, <2>2 DEF Sockets, Lists, In, At
<1> QED
  BY <1>1, InvInit, InvStep, PTL DEF Spec

\* A caller that adds no source after removing one gets every datagram forwarded for the
\* source it came from: what process() reads from fdPort, forwarding and management one
\* after the other belongs together.
THEOREM ForwardedTheorem == Spec => []ForwardedForSender
<1>1. Inv => ForwardedForSender
  BY DEF Inv, Knowledge, Taken, ForwardedForSender
<1> QED
  BY <1>1, InvInit, InvStep, PTL DEF Spec

\* ... and run() never waits in recvfrom(): check_select_list calls process() for
\* sockets that still have the datagram select() has seen.
THEOREM NeverBlockedTheorem == Spec => []NeverBlocked
<1>1. Inv => NeverBlocked
  BY DEF Inv, Knowledge, Selected, NeverBlocked
<1> QED
  BY <1>1, InvInit, InvStep, PTL DEF Spec

-----------------------------------------------------------------------------
(* What StopReturns rests on: while the caller waits in stop(), each step  *)
(* of run() brings its end nearer.                                         *)

\* Steps of run() from a place to the end of the sweep, or of the thread.
ToCome(s) ==
    CASE s = "ended"  -> 0
      [] s = "top"    -> 1
      [] s = "check"  -> 2
      [] s = "send"   -> 3
      [] s = "list"   -> 4
      [] s = "lookup" -> 5
      [] s = "port"   -> 6
      [] s = "recv"   -> 7

\* ... at most, when working has been cleared: each port to come takes six.
Left(t) ==
    CASE t.at = "select" -> 3 + 6 * Cardinality(Port)
      [] t.at \in {"ended", "top"} -> ToCome(t.at)
      [] OTHER -> ToCome(t.at) + 6 * Cardinality(t.todo)

StopNearer == At("join") /\ ~ reopened /\ thread' # thread => Left(thread') < Left(thread)

\* The caller waits in stop(), or has done so.
Stopping == In({"join", "stopped"}) => ~ working

LEMMA LeftIs ==
    ASSUME NEW t, NEW c, c = Cardinality(t.todo)
    PROVE  /\ t.at = "ended" => Left(t) = 0
           /\ t.at = "top" => Left(t) = 1
           /\ t.at = "check" => Left(t) = 2 + 6 * c
           /\ t.at = "send" => Left(t) = 3 + 6 * c
           /\ t.at = "list" => Left(t) = 4 + 6 * c
           /\ t.at = "lookup" => Left(t) = 5 + 6 * c
           /\ t.at = "port" => Left(t) = 6 + 6 * c
           /\ t.at = "recv" => Left(t) = 7 + 6 * c
           /\ t.at = "select" => Left(t) = 3 + 6 * Cardinality(Port)
BY DEF Left, ToCome

\* The ports to come in a sweep.
LEMMA TodoIs ==
    ASSUME IsFiniteSet(Port), NEW S \in SUBSET Port
    PROVE  /\ Cardinality(S) \in Nat
           /\ Cardinality(Port) \in Nat
           /\ Cardinality(S) <= Cardinality(Port)
           /\ \A p \in S : /\ Cardinality(S \ {p}) \in Nat
                           /\ Cardinality(S) = Cardinality(S \ {p}) + 1
<1>1. IsFiniteSet(S) /\ Cardinality(S) <= Cardinality(Port)
  BY FS_Subset
<1>2. Cardinality(S) \in Nat /\ Cardinality(Port) \in Nat
  BY <1>1, FS_CardinalityType
<1>3. ASSUME NEW p \in S
      PROVE  /\ Cardinality(S \ {p}) \in Nat
             /\ Cardinality(S) = Cardinality(S \ {p}) + 1
  <2>1. IsFiniteSet(S \ {p}) /\ Cardinality(S \ {p}) = Cardinality(S) - 1
    BY <1>1, <1>3, FS_RemoveElement
  <2>2. Cardinality(S \ {p}) \in Nat
    BY <2>1, FS_CardinalityType
  <2> QED
    BY <1>2, <2>1, <2>2
<1> QED
  BY <1>1, <1>2, <1>3

\* A step within a sweep, with the same ports to come.
LEMMA SameTodo ==
    ASSUME NEW t, NEW u, u.todo = t.todo, Cardinality(t.todo) \in Nat,
           \/ t.at = "recv" /\ u.at = "port"
           \/ t.at = "port" /\ u.at = "lookup"
           \/ t.at = "lookup" /\ u.at = "list"
           \/ t.at = "list" /\ u.at \in {"send", "check"}
           \/ t.at = "send" /\ u.at = "check"
    PROVE  Left(u) < Left(t)
<1>1. PICK c \in Nat : c = Cardinality(t.todo)
  OBVIOUS
<1>2. c = Cardinality(u.todo)
  BY <1>1
<1> QED
  BY <1>1, <1>2, LeftIs

LEMMA StopNearerStep ==
    ASSUME TypeOK, IsFiniteSet(Port), runStep, ~ working, ~ Run("blocked"),
           thread'.at # "blocked"
    PROVE  Left(thread') < Left(thread)
<1>0. thread \in Places /\ Cardinality(Port) \in Nat
  BY TodoIs DEF TypeOK, Places
<1>1. CASE top
  <2>1. thread.at = "top" /\ thread'.at = "ended"
    BY <1>1 DEF top, Run
  <2> QED
    BY <2>1, LeftIs
<1>2. CASE select
  <2>1. CASE thread' = Top
    <3>1. thread.at = "select" /\ thread'.at = "top"
      BY <1>2, <2>1 DEF select, Run, Top
    <3> QED
      BY <1>0, <3>1, LeftIs
  <2>2. CASE thread' # Top
    <3>1. /\ thread.at = "select" /\ thread'.at = "check"
          /\ thread'.todo = {p \in Port : portFd[p] # NoFd}
      BY <1>2, <2>2 DEF select, Run
    <3>2. PICK c : c = Cardinality(thread'.todo)
      OBVIOUS
    <3>3. c \in Nat /\ c <= Cardinality(Port)
      BY <3>1, <3>2, TodoIs
    <3>4. Left(thread) = 3 + 6 * Cardinality(Port)
      BY <3>1, LeftIs
    <3>5. Left(thread') = 2 + 6 * c
      BY <3>1, <3>2, LeftIs
    <3> QED
      BY <1>0, <3>3, <3>4, <3>5
  <2> QED
    BY <2>1, <2>2
<1>3. ASSUME NEW p \in Port, visit(p)
      PROVE  Left(thread') < Left(thread)
  <2>1. /\ thread.at = "check" /\ p \in thread.todo
        /\ thread'.at \in {"check", "recv"} /\ thread'.todo = thread.todo \ {p}
    BY <1>3 DEF visit, Run
  <2>2. thread.todo \in SUBSET Port
    BY <1>0, <2>1, PlaceHas DEF InSweep
  <2>3. PICK c : c = Cardinality(thread'.todo)
    OBVIOUS
  <2>4. c \in Nat /\ Cardinality(thread.todo) = c + 1
    BY <2>1, <2>2, <2>3, TodoIs
  <2>5. Left(thread) = 2 + 6 * (c + 1)
    BY <2>1, <2>4, LeftIs
  <2>6. Left(thread') = 2 + 6 * c \/ Left(thread') = 7 + 6 * c
    BY <2>1, <2>3, LeftIs
  <2> QED
    BY <2>4, <2>5, <2>6
<1>4. CASE checked
  <2>1. thread.at = "check" /\ thread.todo = {} /\ thread'.at = "top"
    BY <1>4 DEF checked, Run, Top
  <2>2. Cardinality(thread.todo) = 0
    BY <2>1, FS_EmptySet
  <2> QED
    BY <2>1, <2>2, LeftIs
<1>5. CASE wake
  BY <1>5 DEF wake
<1>6. CASE recvfrom \/ readPort \/ readForwarding \/ readManagement \/ sendto
  <2>1. thread.at \in {"recv", "port", "lookup", "list", "send"}
    BY <1>6 DEF recvfrom, readPort, readForwarding, readManagement, sendto, Run
  <2>2. thread.todo \in SUBSET Port
    BY <1>0, <2>1, PlaceHas DEF InSweep
  <2>3. Cardinality(thread.todo) \in Nat
    BY <2>2, TodoIs
  <2>4. CASE recvfrom
    <3>1. \E ip \in IP, p \in Port \cup {None} : Got("port", ip, p)
      <4>1. thread' # [thread EXCEPT !.at = "blocked"]
        <5>1. [thread EXCEPT !.at = "blocked"].at = "blocked"
          BY <1>0, <2>4, PlaceHas DEF recvfrom, Run, Sweep
        <5> QED
          BY <5>1
      <4>2. data \in [Port -> SUBSET IP]
        BY DEF TypeOK
      <4> QED
        BY <2>4, <4>1, <4>2 DEF recvfrom, take
    <3>2. thread.at = "recv" /\ thread'.at = "port" /\ thread'.todo = thread.todo
      BY <2>4, <3>1 DEF recvfrom, Run, Got
    <3> QED
      BY <2>3, <3>2, SameTodo
  <2>5. CASE readPort \/ readForwarding
    <3>1. thread \in Datagram({"port", "lookup", "list"}, {None})
      BY <1>0, <2>5, PlaceHas DEF readPort, readForwarding, Run
    <3>2. /\ \/ thread.at = "port" /\ thread'.at = "lookup"
             \/ thread.at = "lookup" /\ thread'.at = "list"
          /\ thread'.todo = thread.todo
      BY <2>5, <3>1 DEF readPort, readForwarding, Run, Datagram
    <3> QED
      BY <2>3, <3>2, SameTodo
  <2>6. CASE readManagement
    <3>1. thread \in Datagram({"port", "lookup", "list"}, {None}) /\ thread.at = "list"
      BY <1>0, <2>6, PlaceHas DEF readManagement, Run
    <3>2. CASE thread' = BackToCheck
      <4>1. thread'.at = "check" /\ thread'.todo = thread.todo
        BY <3>2 DEF BackToCheck
      <4> QED
        BY <2>3, <3>1, <4>1, SameTodo
    <3>3. CASE thread' = [thread EXCEPT !.at = "send", !.list = management[thread.id]]
      <4>1. thread'.at = "send" /\ thread'.todo = thread.todo
        BY <3>1, <3>3 DEF Datagram
      <4> QED
        BY <2>3, <3>1, <4>1, SameTodo
    <3> QED
      BY <2>6, <3>2, <3>3 DEF readManagement
  <2>7. CASE sendto
    <3>1. thread.at = "send" /\ thread'.at = "check" /\ thread'.todo = thread.todo
      BY <2>7 DEF sendto, Run, BackToCheck
    <3> QED
      BY <2>3, <3>1, SameTodo
  <2> QED
    BY <1>6, <2>4, <2>5, <2>6, <2>7
<1> QED
  BY <1>1, <1>2, <1>3, <1>4, <1>5, <1>6 DEF runStep

\* A caller that waits has cleared working, and no call sets it again.
LEMMA StoppingStep ==
    ASSUME TypeOK, Stopping, [Next]_vars
    PROVE  Stopping'
<1> USE DEF tables, kernel, history
<1>1. CASE UNCHANGED <<working, caller>>
  BY <1>1 DEF Stopping, In
<1>2. CASE caller'.at \notin {"join", "stopped"}
  BY <1>2 DEF Stopping, In
<1>3. ASSUME NEW id \in SrcId, NEW a \in Addr, addSource(id, a)
      PROVE  Stopping'
  <2>1. \/ UNCHANGED <<working, caller>>
        \/ \E place \in {"manage", "portFd"}, f \in Fd \cup {NoFd} :
               caller' = [at |-> place, id |-> id, a |-> a, fd |-> f]
    BY <1>3 DEF addSource
  <2>2. UNCHANGED <<working, caller>> \/ caller'.at \in {"manage", "portFd"}
    BY <2>1
  <2> QED
    BY <1>1, <1>2, <2>2
<1>4. ASSUME NEW id \in SrcId, removeSource(id)
      PROVE  Stopping'
  <2>1. PICK place \in {"erase fdPort", "unforward"} :
            caller' = [at |-> place, id |-> id, a |-> management[id], fd |-> portFd[management[id][2]]]
    BY <1>4 DEF removeSource
  <2>2. caller'.at \in {"erase fdPort", "unforward"}
    BY <2>1
  <2> QED
    BY <1>2, <2>2
<1>5. CASE setPortFd \/ setFdPort \/ setManagement \/ eraseFdPort \/ closeFd \/ eraseForwarding
            \/ eraseManagement
  <2>1. caller'.at \in CallerAt
    BY <1>5, GotoIs DEF setPortFd, setFdPort, setManagement, eraseFdPort, closeFd,
                        eraseForwarding, eraseManagement, At, CallerAt
  <2> QED
    BY <1>2, <2>1 DEF CallerAt
<1>6. CASE setForwarding
  BY <1>2, <1>6 DEF setForwarding, Idle
<1>7. CASE stopIfEmpty
  <2>1. caller' = IF isEmpty THEN [at |-> "join"] ELSE Idle
    BY <1>7 DEF stopIfEmpty
  <2>2. isEmpty => ~ working'
    BY <1>7 DEF stopIfEmpty
  <2>3. ~ isEmpty => caller'.at = "idle"
    BY <2>1 DEF Idle
  <2> QED
    BY <2>2, <2>3 DEF Stopping, In
<1>8. CASE join
  BY <1>8 DEF join, Stopping, In, At
<1>9. CASE runStep \/ \E ip \in IP, p \in Port : arrive(ip, p)
  BY <1>1, <1>9 DEF runStep, top, select, checked, visit, recvfrom, wake, readPort, readForwarding,
                    readManagement, sendto, arrive
<1>10. CASE UNCHANGED vars
  BY <1>1, <1>10 DEF vars
<1> QED
  BY <1>3, <1>4, <1>5, <1>6, <1>7, <1>8, <1>9, <1>10 DEF Next, callerStep

\* While a caller that has not reused descriptors waits in Worker::stop(), each step of
\* run() brings the end of its thread nearer: it finishes the sweep it is in, at most, and
\* sees that working has been cleared.
THEOREM StopNearerTheorem ==
    ASSUME IsFiniteSet(Port)
    PROVE  Spec => [][StopNearer]_vars
<1>1. Init => Stopping
  BY DEF Init, Stopping, In, Idle
<1>2. Inv /\ Stopping /\ [Next]_vars => Stopping' /\ [StopNearer]_vars
  <2> SUFFICES ASSUME Inv, Stopping, [Next]_vars
               PROVE  Stopping' /\ [StopNearer]_vars
    OBVIOUS
  <2>1. TypeOK /\ Knowledge /\ Stopping'
    BY StoppingStep DEF Inv
  <2>2. Knowledge'
    BY InvStep DEF Inv
  <2>3. SUFFICES ASSUME At("join"), ~ reopened, thread' # thread
                 PROVE  Left(thread') < Left(thread)
    BY <2>1 DEF StopNearer
  <2>4. ~ At("idle") /\ ~ At("portFd")
    BY <2>3 DEF At
  <2>5. runStep /\ ~ reopened'
    <3>1. runStep => UNCHANGED reopened
      BY DEF runStep, top, select, checked, visit, recvfrom, wake, readPort, readForwarding,
             readManagement, sendto, history
    <3>2. callerStep => setPortFd \/ UNCHANGED thread
      BY DEF callerStep, setFdPort, setManagement, setForwarding, eraseFdPort, closeFd,
             eraseForwarding, eraseManagement, stopIfEmpty, join
    <3>3. ~ callerStep
      BY <2>3, <2>4, <3>2 DEF setPortFd
    <3>4. /\ \A id \in SrcId, a \in Addr : ~ addSource(id, a)
          /\ \A id \in SrcId : ~ removeSource(id)
      BY <2>4 DEF addSource, removeSource
    <3>5. \A ip \in IP, p \in Port : ~ arrive(ip, p)
      BY <2>3 DEF arrive
    <3>6. ~ UNCHANGED vars
      BY <2>3 DEF vars
    <3>7. runStep
      BY <3>3, <3>4, <3>5, <3>6 DEF Next
    <3> QED
      BY <2>3, <3>1, <3>7
  <2>6. ~ Run("blocked") /\ thread'.at # "blocked"
    BY <2>1, <2>2, <2>3, <2>5 DEF Knowledge, Selected, Run
  <2>7. ~ working
    BY <2>3 DEF Stopping, In, At
  <2> QED
    BY <2>1, <2>5, <2>6, <2>7, StopNearerStep
<1> QED
  BY <1>1, <1>2, InvInit, InvStep, PTL DEF Spec
=============================================================================
