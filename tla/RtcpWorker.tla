----------------------------- MODULE RtcpWorker -----------------------------
(***************************************************************************)
(* A worker of type RTCP (RtcpWorker.cpp): a ForwardWorker whose sources   *)
(* and destinations come in pairs, RTP on a port and under an identifier,  *)
(* RTCP on the next port and under the next identifier.  Its state is that *)
(* of Worker, and so is what it does with a datagram (process); what it    *)
(* overrides is here.                                                      *)
(*                                                                         *)
(* Each operation opens or closes several sockets, so the socket tables    *)
(* are passed from call to call as one record.                             *)
(***************************************************************************)
EXTENDS Worker

CONSTANTS
    BaseId,         \* identifiers callers give to sources
    BasePort,       \* ports callers give to sources
    BaseDestId,     \* identifiers and addresses callers give to destinations:
    BaseDestAddr    \* those of their RTP half

VARIABLES
    srcIdWorker,    \* sources the Manager has with this worker
    crashed,        \* a null stream list was dereferenced
    overlapped      \* a source was added at an odd port, or under an identifier
                    \* next to one in use

rtcpVars == <<vars, srcIdWorker, crashed, overlapped>>

BaseDest == [id : BaseDestId, addr : BaseDestAddr]
Rtcp(d) == [id |-> d.id + 1, addr |-> d.addr + 1]

ASSUME RtcpAssumption ==
    /\ \A id \in BaseId : {id, id + 1} \subseteq SrcId \ {0}
    /\ \A p \in BasePort : {p, p + 1, p + 2} \subseteq Port
    /\ \A d \in BaseDest : {d, Rtcp(d)} \subseteq UdpStream
    /\ BaseDestId \subseteq Int

Sockets ==
    [listener : [Port -> Int], portFd : [Port -> Fd \cup {NoFd}],
     fdPort : [Fd -> Port \cup {0}], sock : [Fd -> Port \cup {Closed, Unbound}]]

sockets == [listener |-> portListener, portFd |-> portFd, fdPort |-> fdPort, sock |-> sock]

RtcpTypeOK ==
    /\ sockets \in Sockets
    /\ management \in [ListId -> List \cup {Absent, Null}]
    /\ forwarding \in [Addr -> ListId]
    /\ working
    /\ out \in [from : Addr, to : Seq(UdpStream)] \cup {NoPacket}
    /\ srcIdWorker \subseteq BaseId
    /\ crashed \in BOOLEAN
    /\ overlapped \in BOOLEAN

RtcpInit == Init /\ srcIdWorker = {} /\ crashed = FALSE /\ overlapped = FALSE

-----------------------------------------------------------------------------
(* Sockets.                                                                *)

SetSockets(k) ==
    /\ portListener' = k.listener
    /\ portFd' = k.portFd
    /\ fdPort' = k.fdPort
    /\ sock' = k.sock

\* The descriptor socket() returns: the lowest that is free, NoFd when none is.
freeFd(k) ==
    LET free == {f \in Fd : k.sock[f] = Closed}
    IN  IF free = {} THEN NoFd ELSE CHOOSE f \in free : \A g \in free : f <= g

\* init_socket: the tables and the descriptor returned.  When bind() is refused
\* the descriptor stays open.
initSocket(k, p) ==
    LET f == freeFd(k)
        granted == p \notin Occupied /\ \A g \in Fd : k.sock[g] # p
    IN  IF f = NoFd THEN [k |-> k, fd |-> NoFd]
        ELSE [k |-> [k EXCEPT !.sock[f] = IF granted THEN p ELSE Unbound],
              fd |-> IF granted THEN f ELSE NoFd]

\* Both ports are entered in the tables, on descriptors f and g.
enterSockets(k, p, f, g) ==
    [k EXCEPT !.portFd[p] = f, !.portFd[p + 1] = g, !.fdPort[f] = p, !.fdPort[g] = p + 1,
              !.listener[p] = 1, !.listener[p + 1] = 1]

\* add_socket: both ports are opened unless this one has a listener count; a
\* failure of either leaves the other's socket open.
addSocket(k, p) ==
    LET rtp == initSocket(k, p)
        rtcp == initSocket(rtp.k, p + 1)
    IN  IF k.listener[p] # 0 THEN [k |-> [k EXCEPT !.listener[p] = @ + 1], ret |-> 0]
        ELSE IF NoFd \in {rtp.fd, rtcp.fd} THEN [k |-> rtcp.k, ret |-> -1]
        ELSE [k |-> enterSockets(rtcp.k, p, rtp.fd, rtcp.fd), ret |-> 1]

\* Mutant of removeSocket: the listeners are not looked at.
removeSocketAlways(k, p) ==
    LET closed == {k.portFd[p], k.portFd[p + 1]}
    IN  [k EXCEPT !.portFd[p] = NoFd, !.portFd[p + 1] = NoFd,
                  !.listener[p] = 0, !.listener[p + 1] = 0,
                  !.fdPort = [f \in Fd |-> IF f \in closed THEN 0 ELSE @[f]],
                  !.sock = [f \in Fd |-> IF f \in closed THEN Closed ELSE @[f]]]

\* Mutant of removeSocket: fdPort keeps the descriptor of the next port.
removeSocketUnerased(k, p) ==
    LET one == [k EXCEPT !.listener[p] = @ - 1]
        closed == {k.portFd[p], k.portFd[p + 1]}
    IN  IF one.listener[p] # 0 THEN one
        ELSE [one EXCEPT !.portFd[p] = NoFd, !.portFd[p + 1] = NoFd,
                         !.listener[p + 1] = 0,
                         !.fdPort = [f \in Fd |-> IF f = k.portFd[p] THEN 0 ELSE @[f]],
                         !.sock = [f \in Fd |-> IF f \in closed THEN Closed ELSE @[f]]]

\* Mutant of removeSocket: the descriptors are set to 0 and not erased.
removeSocketZeroed(k, p) ==
    LET one == [k EXCEPT !.listener[p] = @ - 1]
        closed == {k.portFd[p], k.portFd[p + 1]}
    IN  IF one.listener[p] # 0 THEN one
        ELSE [one EXCEPT !.portFd[p] = 0, !.portFd[p + 1] = 0,
                         !.listener[p + 1] = 0,
                         !.fdPort = [f \in Fd |-> IF f \in closed THEN 0 ELSE @[f]],
                         !.sock = [f \in Fd |-> IF f \in closed THEN Closed ELSE @[f]]]

\* remove_socket: the last listener of the port closes the next port as well,
\* whoever listens there.
removeSocket(k, p) ==
    LET one == [k EXCEPT !.listener[p] = @ - 1]
        closed == {k.portFd[p], k.portFd[p + 1]}
    IN  IF one.listener[p] # 0 THEN one
        ELSE [one EXCEPT !.portFd[p] = NoFd, !.portFd[p + 1] = NoFd,
                         !.listener[p + 1] = 0,
                         !.fdPort = [f \in Fd |-> IF f \in closed THEN 0 ELSE @[f]],
                         !.sock = [f \in Fd |-> IF f \in closed THEN Closed ELSE @[f]]]

-----------------------------------------------------------------------------
(* Operations.  One that is refused before it changes anything stutters.   *)

\* Both sockets are asked for even when the first was refused.
addPair(id, a) ==
    LET b == <<a[1], PortOf(a) + 1>>
        rtp == addSocket(sockets, PortOf(a))
        rtcp == addSocket(rtp.k, PortOf(b))
    IN  /\ id \notin srcIdWorker
        /\ forwarding[a] = 0 /\ forwarding[b] = 0
        /\ overlapped' = (\/ overlapped
                          \/ PortOf(a) % 2 = 1
                          \/ {id - 1, id + 1} \cap srcIdWorker # {})
        /\ SetSockets(rtcp.k)
        /\ \/ /\ rtp.ret # -1 /\ rtcp.ret # -1
              /\ management' = [management EXCEPT ![id] = [src |-> a, dests |-> << >>],
                                                  ![id + 1] = [src |-> b, dests |-> << >>]]
              /\ forwarding' = [forwarding EXCEPT ![a] = id, ![b] = id + 1]
              /\ srcIdWorker' = srcIdWorker \cup {id}
           \/ /\ rtp.ret = -1 \/ rtcp.ret = -1
              /\ UNCHANGED <<management, forwarding, srcIdWorker>>
        /\ out' = NoPacket
        /\ UNCHANGED <<working, crashed>>

HasPair(id) == IsList(id) /\ IsList(id + 1)

\* Mutant of removePair: the RTCP list is left behind.
removePairOneList(id) ==
    LET a == management[id].src
        b == management[id + 1].src
    IN  /\ id \in srcIdWorker
        /\ HasPair(id)
        /\ SetSockets(removeSocket(removeSocket(sockets, PortOf(a)), PortOf(b)))
        /\ forwarding' = [forwarding EXCEPT ![a] = 0, ![b] = 0]
        /\ management' = [management EXCEPT ![id] = Absent]
        /\ srcIdWorker' = srcIdWorker \ {id}
        /\ out' = NoPacket
        /\ UNCHANGED <<working, crashed, overlapped>>

\* The worker is not stopped when its last source goes.
removePair(id) ==
    LET a == management[id].src
        b == management[id + 1].src
    IN  /\ id \in srcIdWorker
        /\ HasPair(id)
        /\ SetSockets(removeSocket(removeSocket(sockets, PortOf(a)), PortOf(b)))
        /\ forwarding' = [forwarding EXCEPT ![a] = 0, ![b] = 0]
        /\ management' = [management EXCEPT ![id] = Absent, ![id + 1] = Absent]
        /\ srcIdWorker' = srcIdWorker \ {id}
        /\ out' = NoPacket
        /\ UNCHANGED <<working, crashed, overlapped>>

\* The second destination is tried only when the first was added, and the first
\* stays when the second is refused: the list object is changed in place.
addPairDest(id, d) ==
    LET l == management[id].dests
        m == management[id + 1].dests
    IN  /\ id \in srcIdWorker
        /\ HasPair(id)
        /\ ~ existDestination(l, d.id)
        /\ management' = [management EXCEPT ![id].dests = addDestination(l, d),
                                            ![id + 1].dests = addDestination(m, Rtcp(d))]
        /\ forwarding' = IF existDestination(m, d.id + 1) THEN forwarding
                         ELSE [forwarding EXCEPT ![management[id].src] = id,
                                                 ![management[id + 1].src] = id + 1]
        /\ out' = NoPacket
        /\ UNCHANGED <<portListener, portFd, fdPort, working, sock, srcIdWorker, crashed, overlapped>>

\* Mutant of removePairDest: the RTCP half is looked for under the RTP identifier.
removePairDestSameId(id, did) ==
    LET l == management[id].dests
        m == management[id + 1].dests
    IN  /\ id \in srcIdWorker
        /\ HasPair(id)
        /\ existDestination(l, did)
        /\ management' = [management EXCEPT
                ![id].dests = remDestination(l, did),
                ![id + 1].dests = IF existDestination(m, did) THEN remDestination(m, did) ELSE @]
        /\ out' = NoPacket
        /\ UNCHANGED <<portListener, portFd, fdPort, forwarding, working, sock, srcIdWorker, crashed, overlapped>>

removePairDest(id, did) ==
    LET l == management[id].dests
        m == management[id + 1].dests
    IN  /\ id \in srcIdWorker
        /\ HasPair(id)
        /\ existDestination(l, did) /\ existDestination(m, did + 1)
        /\ management' = [management EXCEPT ![id].dests = remDestination(l, did),
                                            ![id + 1].dests = remDestination(m, did + 1)]
        /\ forwarding' = [forwarding EXCEPT ![management[id].src] = id,
                                            ![management[id + 1].src] = id + 1]
        /\ out' = NoPacket
        /\ UNCHANGED <<portListener, portFd, fdPort, working, sock, srcIdWorker, crashed, overlapped>>

\* The Manager sends the worker a call on a source one of whose lists is gone:
\* getStreamList returns a null pointer, which every operation dereferences.
nullList(id) ==
    /\ id \in srcIdWorker
    /\ ~ HasPair(id)
    /\ crashed' = TRUE
    /\ UNCHANGED <<vars, srcIdWorker, overlapped>>

-----------------------------------------------------------------------------
RtcpNext ==
    /\ ~ crashed
    /\ \/ \E id \in BaseId, ip \in IP, p \in BasePort : addPair(id, <<ip, p>>)
       \/ \E id \in BaseId : removePair(id) \/ nullList(id)
       \/ \E id \in BaseId, d \in BaseDest : addPairDest(id, d) \/ removePairDest(id, d.id)
       \/ \E ip \in IP, p \in Port : process(ip, p) /\ UNCHANGED <<srcIdWorker, crashed, overlapped>>

RtcpSpec == RtcpInit /\ [][RtcpNext]_rtcpVars

-----------------------------------------------------------------------------
(* A property for any caller.                                              *)

\* portFd and fdPort are inverse and name bound sockets, so that a datagram is
\* looked up under the port it came to: with ports opened by one base and closed
\* by another, after any failure, and for lists that were overwritten.
TablesInverse ==
    /\ \A p \in Port : portFd[p] # NoFd => /\ fdPort[portFd[p]] = p
                                          /\ sock[portFd[p]] = p
    /\ \A f \in Fd : fdPort[f] # 0 => portFd[fdPort[f]] = f

-----------------------------------------------------------------------------
(* Properties of a caller that has added sources at even ports only, under   *)
(* identifiers that were not next to one in use.                           *)

\* A source of the Manager has both its lists, for one address and two adjacent
\* ports, registered in the address table, and there are no other lists or addresses
\* (addSource and removeSource change four table entries each): no operation on a
\* source the Manager has dereferences a null list.
PairsComplete ==
    ~ overlapped =>
        /\ ~ crashed
        /\ \A id \in srcIdWorker :
            /\ HasPair(id)
            /\ LET a == management[id].src
               IN  /\ management[id + 1].src = <<a[1], PortOf(a) + 1>>
                   /\ forwarding[a] = id
                   /\ forwarding[management[id + 1].src] = id + 1
        /\ Lists \subseteq srcIdWorker \cup {id + 1 : id \in srcIdWorker}
        /\ \A a \in Addr : forwarding[a] # 0 => /\ IsList(forwarding[a])
                                                /\ management[forwarding[a]].src = a

\* A port is open exactly while a list has it: sources sharing a port keep each other's
\* sockets open, and none is polled once its last source is gone, although the count of
\* the odd port is off by one while it is open and -1 after it is closed, and the odd
\* port is closed with the even one, one listener early (remove_socket).
PortsExact ==
    ~ overlapped => \A p \in Port : portFd[p] # NoFd <=> ListsOn(p) # {}

\* The RTCP list has the RTCP halves of the destinations of the RTP list, in the
\* same order: no call adds or removes one half (the && of addDestination).
DestinationsPaired ==
    ~ overlapped =>
        \A id \in srcIdWorker :
            /\ Len(management[id + 1].dests) = Len(management[id].dests)
            /\ \A i \in 1..Len(management[id].dests) :
                    management[id + 1].dests[i] = Rtcp(management[id].dests[i])

\* The sources the Manager has here, each with the address and destinations of its
\* RTP list: the RTCP list is not in it.
pairRoutes == [id \in BaseId |->
                IF id \in srcIdWorker /\ HasPair(id)
                THEN [src |-> management[id].src, dests |-> ToSet(management[id].dests)]
                ELSE Absent]

PR == INSTANCE PairReflector WITH
        SrcId <- BaseId, Dest <- BaseDest, NoRoute <- Absent, Silent <- NoPacket,
        route <- pairRoutes, out <- sent

\* The worker implements PairReflector: a source is one thing, whose two lists change
\* together, and whose RTCP datagrams go to the RTCP halves of the destinations it has.
ImplementsPairs == PR!Init /\ [][overlapped' \/ PR!Next]_(PR!vars)

-----------------------------------------------------------------------------
(* What docs of the repository say of any caller.                          *)

\* RtcpWorker.h:58 "erases the source and the streamList associated with the
\* source": a source that was added has its lists until it is removed, whatever
\* its identifier is.
SourceHasLists == \A id \in srcIdWorker : HasPair(id)

\* RtcpWorker.h:91 "0 if already open": the port whose listener count lets
\* add_socket return 0 is open.
CountedIsOpen ==
    [][\A id \in BaseId, ip \in IP, p \in BasePort :
        addPair(id, <<ip, p>>) /\ portListener[p] # 0 => portFd[p] # NoFd]_rtcpVars
=============================================================================
