------------------------------- MODULE Worker -------------------------------
(***************************************************************************)
(* One Worker object (Worker.cpp) running as a ForwardWorker               *)
(* (ForwardWorker.cpp): its socket tables, its stream lists, the address   *)
(* table it forwards by, and the operations a caller applies to them while *)
(* holding m_mutex.  Each operation and each received datagram is one      *)
(* step here; module WorkerThreads splits them where the run() thread,     *)
(* which never takes m_mutex, can come in between.                         *)
(*                                                                         *)
(* The int tables are total functions because the code reads them with     *)
(* operator[], which turns a missing key into 0: a missing key and a 0     *)
(* cannot be told apart.  management keeps the difference between a        *)
(* missing key (Absent) and a null pointer inserted by a lookup (Null),    *)
(* since isEmpty() counts keys.                                            *)
(***************************************************************************)
EXTENDS StreamList, FiniteSets

CONSTANTS
    IP,         \* source IP addresses
    Port,       \* local UDP ports, as callers give them
    Fd,         \* socket descriptors the process may have open
    SrcId,      \* identifiers callers give to sources
    DestId,     \* identifiers callers give to destinations
    DestAddr,   \* addresses of destinations
    Occupied,   \* ports bound by somebody else: bind() fails on them
    FreshSrcIds,    \* TRUE: addSource is never given an identifier in use
    Absent,     \* management has no such key
    Null,       \* management holds a null pointer under the key
    NoPacket    \* the last step sent no datagram

Addr == IP \X Port
PortOf(a) == a[2]
UdpStream == [id : DestId, addr : DestAddr]
List == [src : Addr, dests : Seq(UdpStream)]
ListId == SrcId \cup {0}

ASSUME WorkerAssumption ==
    /\ Port \subseteq Nat \ {0}
    /\ \A p \in Port : p < 2^16     \* an address has no room for more
    /\ Fd \subseteq Nat \ {0}
    /\ SrcId \subseteq Nat
    /\ IsFiniteSet(SrcId)
    /\ FreshSrcIds \in BOOLEAN
    /\ Absent # Null
    /\ Absent \notin List
    /\ Null \notin List
    /\ Absent \notin [src : Addr, dests : SUBSET UdpStream]
    /\ NoPacket \notin [from : Addr, to : Seq(UdpStream)]

NoFd == -1      \* portFd has no such key
Closed == -1    \* the descriptor is not open
Unbound == 0    \* the descriptor is a socket bound to no port

VARIABLES
    portListener,   \* port -> number of listeners, 0 when missing
    portFd,         \* port -> descriptor, NoFd when missing
    fdPort,         \* descriptor -> port, 0 when missing
    management,     \* list id -> stream list
    forwarding,     \* source address -> list id, 0 when missing
    working,        \* cleared by stop()
    sock,           \* the kernel's view: descriptor -> bound port
    out             \* what the last step sent, and for which datagram

tables == <<portListener, portFd, fdPort, management, forwarding>>
vars == <<tables, working, sock, out>>

IsList(id) == management[id] \notin {Absent, Null}
Lists == {id \in ListId : IsList(id)}
ListsOn(p) == {id \in Lists : PortOf(management[id].src) = p}

TypeOK ==
    /\ portListener \in [Port -> Nat]
    /\ portFd \in [Port -> Fd \cup {NoFd}]
    /\ fdPort \in [Fd -> Port \cup {0}]
    /\ management \in [ListId -> List \cup {Absent, Null}]
    /\ forwarding \in [Addr -> ListId]
    /\ working \in BOOLEAN
    /\ sock \in [Fd -> Port \cup {Closed, Unbound}]
    /\ out \in [from : Addr, to : Seq(UdpStream)] \cup {NoPacket}

Init ==
    /\ portListener = [p \in Port |-> 0]
    /\ portFd = [p \in Port |-> NoFd]
    /\ fdPort = [f \in Fd |-> 0]
    /\ management = [id \in ListId |-> Absent]
    /\ forwarding = [a \in Addr |-> 0]
    /\ working = TRUE
    /\ sock = [f \in Fd |-> Closed]
    /\ out = NoPacket

-----------------------------------------------------------------------------
(* Sockets.                                                                *)

\* The kernel grants a port to one socket at a time.
CanBind(p) == p \notin Occupied /\ \A f \in Fd : sock[f] # p

\* init_socket opened descriptor f and bound it to p.
init_socket(p, f) ==
    /\ sock[f] = Closed
    /\ CanBind(p)
    /\ sock' = [sock EXCEPT ![f] = p]

\* init_socket returns -1: socket() found no free descriptor, or bind() was
\* refused and the descriptor socket() returned is never closed.
init_socket_fails(p) ==
    \/ /\ \A f \in Fd : sock[f] # Closed
       /\ UNCHANGED sock
    \/ /\ ~ CanBind(p)
       /\ \E f \in Fd : /\ sock[f] = Closed
                        /\ sock' = [sock EXCEPT ![f] = Unbound]

\* Mutant of reuse_socket: the open port is shared without being counted.
reuse_socket_uncounted(p) ==
    /\ portListener[p] # 0
    /\ UNCHANGED <<portListener, portFd, fdPort, sock>>

\* add_socket on a port this worker already listens on (returns 0).
reuse_socket(p) ==
    /\ portListener[p] # 0
    /\ portListener' = [portListener EXCEPT ![p] = @ + 1]
    /\ UNCHANGED <<portFd, fdPort, sock>>

\* add_socket on a new port (returns 1).
open_socket(p) ==
    /\ portListener[p] = 0
    /\ \E f \in Fd : /\ init_socket(p, f)
                     /\ portFd' = [portFd EXCEPT ![p] = f]
                     /\ fdPort' = [fdPort EXCEPT ![f] = p]
    /\ portListener' = [portListener EXCEPT ![p] = 1]

\* Mutant of remove_socket: the tables forget the port but the descriptor
\* is not closed.
remove_socket_unclosed(p) ==
    /\ portListener' = [portListener EXCEPT ![p] = @ - 1]
    /\ portFd' = [portFd EXCEPT ![p] = IF portListener[p] = 1 THEN NoFd ELSE @]
    /\ fdPort' = [f \in Fd |-> IF portListener[p] = 1 /\ f = portFd[p] THEN 0 ELSE fdPort[f]]
    /\ UNCHANGED sock

\* The last listener closes the descriptor and erases the port.
remove_socket(p) ==
    /\ portListener' = [portListener EXCEPT ![p] = @ - 1]
    /\ \/ /\ portListener[p] = 1
          /\ portFd' = [portFd EXCEPT ![p] = NoFd]
          /\ fdPort' = [fdPort EXCEPT ![portFd[p]] = 0]
          /\ sock' = [sock EXCEPT ![portFd[p]] = Closed]
       \/ /\ portListener[p] # 1
          /\ UNCHANGED <<portFd, fdPort, sock>>

-----------------------------------------------------------------------------
(* Stream lists.                                                           *)

isEmpty == \A id \in ListId : management[id] = Absent

addStreamList(id, l) ==
    /\ management' = [management EXCEPT ![id] = l]
    /\ forwarding' = [forwarding EXCEPT ![l.src] = id]

\* Mutant of removeStreamList: the address keeps pointing at the list.
removeStreamListOnly(id) ==
    /\ management' = [management EXCEPT ![id] = Absent]
    /\ UNCHANGED forwarding

removeStreamList(id) ==
    /\ forwarding' = [forwarding EXCEPT ![management[id].src] = 0]
    /\ management' = [management EXCEPT ![id] = Absent]

-----------------------------------------------------------------------------
(* Operations applied by a caller.  An operation that is refused before it *)
(* changes anything (a source address already registered, a destination id *)
(* already in the list, a destination that is not there) is a stutter.     *)

addSource(id, a) ==
    /\ FreshSrcIds => ~ IsList(id)
    /\ forwarding[a] = 0
    /\ reuse_socket(PortOf(a)) \/ open_socket(PortOf(a))
    /\ addStreamList(id, [src |-> a, dests |-> << >>])
    /\ out' = NoPacket
    /\ UNCHANGED working

\* addSource returns false after add_socket returned -1.
addSource_fails(a) ==
    /\ forwarding[a] = 0
    /\ portListener[PortOf(a)] = 0
    /\ init_socket_fails(PortOf(a))
    /\ out' = NoPacket
    /\ UNCHANGED <<tables, working>>

\* The last list takes the worker with it: stop() clears working and joins.
removeSource(id) ==
    /\ IsList(id)
    /\ remove_socket(PortOf(management[id].src))
    /\ removeStreamList(id)
    /\ working' = (working /\ ~ isEmpty')
    /\ out' = NoPacket

addDest(id, d) ==
    /\ IsList(id)
    /\ ~ existDestination(management[id].dests, d.id)
    /\ addStreamList(id, [management[id] EXCEPT !.dests = addDestination(@, d)])
    /\ out' = NoPacket
    /\ UNCHANGED <<portListener, portFd, fdPort, working, sock>>

removeDest(id, did) ==
    /\ IsList(id)
    /\ existDestination(management[id].dests, did)
    /\ addStreamList(id, [management[id] EXCEPT !.dests = remDestination(@, did)])
    /\ out' = NoPacket
    /\ UNCHANGED <<portListener, portFd, fdPort, working, sock>>

\* The destinations of from replace those of to; when both are the same list
\* it ends up empty.
conmuteStreamList(from, to) ==
    /\ IsList(from)
    /\ IsList(to)
    /\ management' = [management EXCEPT ![to].dests = management[from].dests,
                                        ![from].dests = << >>]
    /\ out' = NoPacket
    /\ UNCHANGED <<portListener, portFd, fdPort, forwarding, working, sock>>

\* The destination is added to the list to; from keeps it.
conmuteUdpStream(did, from, to) ==
    /\ IsList(from)
    /\ IsList(to)
    /\ existDestination(management[from].dests, did)
    /\ management' = [management EXCEPT ![to].dests =
                        addDestination(@, getDestination(management[from].dests, did))]
    /\ out' = NoPacket
    /\ UNCHANGED <<portListener, portFd, fdPort, forwarding, working, sock>>

-----------------------------------------------------------------------------
(* The run() thread.                                                       *)

\* A datagram from ip is readable on port p: run() finds the descriptor in
\* portFd and ForwardWorker::process looks the sender up under the local port.
\* The lookup of an unknown sender yields list 0, and inserts a null pointer
\* under 0 when there is no such list.
process(ip, p) ==
    /\ working
    /\ portFd[p] # NoFd
    /\ LET a == <<ip, fdPort[portFd[p]]>>
           id == forwarding[a]
       IN  \/ /\ IsList(id)
              /\ out' = [from |-> a, to |-> management[id].dests]
              /\ UNCHANGED management
           \/ /\ ~ IsList(id)
              /\ out' = [from |-> a, to |-> << >>]
              /\ management' = [management EXCEPT ![id] = Null]
    /\ UNCHANGED <<portListener, portFd, fdPort, forwarding, working, sock>>

-----------------------------------------------------------------------------
Next ==
    \/ \E id \in SrcId, a \in Addr : addSource(id, a)
    \/ \E a \in Addr : addSource_fails(a)
    \/ \E id \in SrcId : removeSource(id)
    \/ \E id \in SrcId, d \in UdpStream : addDest(id, d)
    \/ \E id \in SrcId, did \in DestId : removeDest(id, did)
    \/ \E from, to \in SrcId : conmuteStreamList(from, to)
    \/ \E from, to \in SrcId, did \in DestId : conmuteUdpStream(did, from, to)
    \/ \E ip \in IP, p \in Port : process(ip, p)

Spec == Init /\ [][Next]_vars

-----------------------------------------------------------------------------
(* Properties of callers that give each source an identifier of its own    *)
(* (FreshSrcIds); RoutingExact and Implements need one that is not 0, too. *)

\* The address table and the lists are inverse: every address entry names the
\* list whose source has that address, and every list is reached by its
\* address, so none sits under 0 (addStreamList and removeStreamList keep both
\* tables in step).
RoutingExact ==
    /\ \A a \in Addr : forwarding[a] # 0 => /\ IsList(forwarding[a])
                                           /\ management[forwarding[a]].src = a
    /\ \A id \in Lists : id # 0 /\ forwarding[management[id].src] = id

\* A port's listener count is the number of lists whose source uses the port,
\* so the socket is closed with its last list and not before.
ListenersExact == \A p \in Port : portListener[p] = Cardinality(ListsOn(p))

\* portFd, fdPort and the kernel agree: a port has a descriptor exactly while
\* it has listeners, and no bound descriptor is missing from the tables.
SocketsExact ==
    /\ \A p \in Port : portListener[p] > 0 <=> portFd[p] # NoFd
    /\ \A p \in Port : portFd[p] # NoFd => /\ fdPort[portFd[p]] = p
                                          /\ sock[portFd[p]] = p
    /\ \A f \in Fd : sock[f] \in Port => portFd[sock[f]] = f
    /\ \A f \in Fd : fdPort[f] # 0 => portFd[fdPort[f]] = f

\* No list holds two destinations with one id, so removing an id removes the
\* destination for good (StreamList::addDestination's test, through every way
\* a destination gets into a list).
DestinationsUnique == \A id \in Lists : UniqueIdsIn(management[id].dests)

\* The step that removes the last list stops the worker, unless a lookup of an
\* address that no source has left a null pointer under 0, which isEmpty() counts:
\* no lookup leaves one under an identifier that a source had.
LastSourceStopsWorker ==
    [][Lists # {} /\ Lists' = {} /\ management[0] # Null => ~ working']_vars

\* What the tables say without their representation: the route of each source.
routes == [id \in SrcId |->
            IF IsList(id)
            THEN [src |-> management[id].src, dests |-> ToSet(management[id].dests)]
            ELSE Absent]

\* What was sent, in no particular order.
sent == IF out = NoPacket THEN NoPacket
        ELSE [from |-> out.from, to |-> ToSet(out.to)]

R == INSTANCE Reflector WITH
        Dest <- UdpStream, NoRoute <- Absent, Silent <- NoPacket,
        route <- routes, out <- sent

\* The worker implements Reflector: a list is a route, and a datagram is sent to
\* the destinations of the list registered for its sender, and to nobody else.
Implements == R!Spec

-----------------------------------------------------------------------------
(* What comments and docs of the repository say, and the code does not do. *)

\* ForwardWorker.cpp:64: a datagram from an address no source has finds no
\* list, so it reaches no destination.
StrangersNotForwarded ==
    out # NoPacket /\ (\A id \in Lists : management[id].src # out.from)
        => out.to = << >>
=============================================================================
