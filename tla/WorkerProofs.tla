---------------------------- MODULE WorkerProofs ----------------------------
(***************************************************************************)
(* Proofs about Worker, for any ports, descriptors, addresses and          *)
(* identifiers.  The inductive invariant is built in two layers: Tables    *)
(* relates lists, listener counts and descriptors, and holds for any       *)
(* caller, with exact counts when no identifier of a source is reused; Inv *)
(* adds the address table, which needs identifiers other than 0 as well.   *)
(***************************************************************************)
EXTENDS Worker, StreamListProofs, FiniteSetTheorems

\* A port has at least as many listeners as lists: an identifier that is reused
\* takes its list to the new port and leaves a listener on the old one.
ListenersCover == \A p \in Port : portListener[p] >= Cardinality(ListsOn(p))

Counts == ListenersCover /\ (FreshSrcIds => ListenersExact)

Tables == TypeOK /\ Counts /\ SocketsExact /\ DestinationsUnique

Inv == Tables /\ RoutingExact

-----------------------------------------------------------------------------
(* Facts about the types.                                                  *)

\* A registered list is a record with a source address and destinations.
LEMMA ListIsRecord ==
    ASSUME TypeOK, NEW id \in ListId, IsList(id)
    PROVE  /\ management[id] \in List
           /\ management[id].src \in Addr
           /\ management[id].dests \in Seq(UdpStream)
BY DEF TypeOK, IsList, List

\* Replacing the destinations of a list gives a list with the same source.
LEMMA DestsReplaced ==
    ASSUME NEW l \in List, NEW ds \in Seq(UdpStream)
    PROVE  /\ [l EXCEPT !.dests = ds] \in List
           /\ [l EXCEPT !.dests = ds].src = l.src
           /\ [l EXCEPT !.dests = ds].dests = ds
BY DEF List

\* What process sends is a value of out.
LEMMA SentIsOut ==
    ASSUME NEW a \in Addr, NEW ds \in Seq(UdpStream)
    PROVE  /\ [from |-> a, to |-> ds] \in [from : Addr, to : Seq(UdpStream)] \cup {NoPacket}
           /\ [from |-> a, to |-> ds] # NoPacket
BY WorkerAssumption

\* The port of a source address is a port.
LEMMA PortOfAddr ==
    ASSUME NEW a \in Addr
    PROVE  PortOf(a) \in Port
BY DEF Addr, PortOf

\* A worker has finitely many lists on a port.
LEMMA ListsOnFinite ==
    ASSUME NEW p \in Port
    PROVE  IsFiniteSet(ListsOn(p))
<1>1. IsFiniteSet(ListId)
  BY WorkerAssumption, FS_AddElement DEF ListId
<1>2. ListsOn(p) \in SUBSET ListId
  BY DEF ListsOn, Lists
<1> QED
  BY <1>1, <1>2, FS_Subset

-----------------------------------------------------------------------------
(* How an operation on management moves the lists of a port.               *)

\* A list stored under an identifier that had none is counted on its own port
\* and on no other.
LEMMA ListsOnGrow ==
    ASSUME TypeOK, NEW id \in ListId, NEW l \in List, ~ IsList(id),
           management' = [management EXCEPT ![id] = l]
    PROVE  \A p \in Port :
              Cardinality(ListsOn(p)') =
                Cardinality(ListsOn(p)) + (IF p = PortOf(l.src) THEN 1 ELSE 0)
<1> SUFFICES ASSUME NEW p \in Port
             PROVE  Cardinality(ListsOn(p)') =
                      Cardinality(ListsOn(p)) + (IF p = PortOf(l.src) THEN 1 ELSE 0)
  OBVIOUS
<1>1. l \notin {Absent, Null}
  BY WorkerAssumption
<1>2. \A j \in ListId : management'[j] = IF j = id THEN l ELSE management[j]
  BY DEF TypeOK
<1>3. id \notin ListsOn(p)
  BY DEF ListsOn, Lists
<1>4. ListsOn(p)' = IF p = PortOf(l.src) THEN ListsOn(p) \cup {id} ELSE ListsOn(p)
  BY <1>1, <1>2, <1>3 DEF ListsOn, Lists, IsList
<1>5. IsFiniteSet(ListsOn(p)) /\ Cardinality(ListsOn(p)) \in Nat
  BY ListsOnFinite, FS_CardinalityType
<1>6. Cardinality(ListsOn(p) \cup {id}) = Cardinality(ListsOn(p)) + 1
  BY <1>3, <1>5, FS_AddElement
<1>7. CASE p = PortOf(l.src)
  BY <1>4, <1>6, <1>7
<1>8. CASE p # PortOf(l.src)
  BY <1>4, <1>5, <1>8
<1> QED
  BY <1>7, <1>8

\* A list stored under any identifier adds at most itself to its own port, and
\* nothing to another.
LEMMA ListsOnPut ==
    ASSUME TypeOK, NEW id \in ListId, NEW l \in List,
           management' = [management EXCEPT ![id] = l]
    PROVE  \A p \in Port :
              Cardinality(ListsOn(p)') <=
                Cardinality(ListsOn(p)) + (IF p = PortOf(l.src) THEN 1 ELSE 0)
<1> SUFFICES ASSUME NEW p \in Port
             PROVE  Cardinality(ListsOn(p)') <=
                      Cardinality(ListsOn(p)) + (IF p = PortOf(l.src) THEN 1 ELSE 0)
  OBVIOUS
<1>1. \A j \in ListId : management'[j] = IF j = id THEN l ELSE management[j]
  BY DEF TypeOK
<1>2. ListsOn(p)' \subseteq IF p = PortOf(l.src) THEN ListsOn(p) \cup {id} ELSE ListsOn(p)
  BY <1>1 DEF ListsOn, Lists, IsList
<1>3. /\ IsFiniteSet(ListsOn(p)) /\ Cardinality(ListsOn(p)) \in Nat
      /\ IsFiniteSet(ListsOn(p) \cup {id})
      /\ Cardinality(ListsOn(p) \cup {id}) \in Nat
      /\ Cardinality(ListsOn(p) \cup {id}) <= Cardinality(ListsOn(p)) + 1
  <2>1. IsFiniteSet(ListsOn(p)) /\ Cardinality(ListsOn(p)) \in Nat
    BY ListsOnFinite, FS_CardinalityType
  <2>2. /\ IsFiniteSet(ListsOn(p) \cup {id})
        /\ Cardinality(ListsOn(p) \cup {id}) =
             IF id \in ListsOn(p) THEN Cardinality(ListsOn(p)) ELSE Cardinality(ListsOn(p)) + 1
    BY <2>1, FS_AddElement
  <2> QED
    BY <2>1, <2>2
<1>4. CASE p = PortOf(l.src)
  <2>1. /\ Cardinality(ListsOn(p)') <= Cardinality(ListsOn(p) \cup {id})
        /\ Cardinality(ListsOn(p)') \in Nat
    BY <1>2, <1>3, <1>4, FS_Subset, FS_CardinalityType
  <2> QED
    BY <1>3, <1>4, <2>1
<1>5. CASE p # PortOf(l.src)
  <2>1. Cardinality(ListsOn(p)') <= Cardinality(ListsOn(p))
    BY <1>2, <1>3, <1>5, FS_Subset
  <2> QED
    BY <1>3, <1>5, <2>1
<1> QED
  BY <1>4, <1>5

\* A list erased is no longer counted on its port.
LEMMA ListsOnShrink ==
    ASSUME TypeOK, NEW id \in ListId, IsList(id),
           management' = [management EXCEPT ![id] = Absent]
    PROVE  \A p \in Port :
              Cardinality(ListsOn(p)') =
                Cardinality(ListsOn(p)) - (IF p = PortOf(management[id].src) THEN 1 ELSE 0)
<1> SUFFICES ASSUME NEW p \in Port
             PROVE  Cardinality(ListsOn(p)') =
                Cardinality(ListsOn(p)) - (IF p = PortOf(management[id].src) THEN 1 ELSE 0)
  OBVIOUS
<1>1. \A j \in ListId : management'[j] = IF j = id THEN Absent ELSE management[j]
  BY DEF TypeOK
<1>2. id \in ListsOn(p) <=> p = PortOf(management[id].src)
  BY DEF ListsOn, Lists
<1>3. ListsOn(p)' = ListsOn(p) \ {id}
  BY <1>1 DEF ListsOn, Lists, IsList
<1>4. IsFiniteSet(ListsOn(p)) /\ Cardinality(ListsOn(p)) \in Nat
  BY ListsOnFinite, FS_CardinalityType
<1>5. Cardinality(ListsOn(p) \ {id}) =
        IF id \in ListsOn(p) THEN Cardinality(ListsOn(p)) - 1 ELSE Cardinality(ListsOn(p))
  BY <1>4, FS_RemoveElement
<1>6. CASE p = PortOf(management[id].src)
  BY <1>2, <1>3, <1>5, <1>6
<1>7. CASE p # PortOf(management[id].src)
  BY <1>2, <1>3, <1>4, <1>5, <1>7
<1> QED
  BY <1>6, <1>7

\* An operation that keeps every list under its identifier and with its source
\* keeps the lists of every port.
LEMMA ListsOnKeep ==
    ASSUME \A j \in ListId : /\ IsList(j)' <=> IsList(j)
                             /\ IsList(j) => management'[j].src = management[j].src
    PROVE  \A p \in Port : ListsOn(p)' = ListsOn(p)
BY DEF ListsOn, Lists

-----------------------------------------------------------------------------
(* The socket operations keep the three socket tables and the kernel in    *)
(* agreement.                                                              *)

SocketTypes ==
    /\ portListener \in [Port -> Nat]
    /\ portFd \in [Port -> Fd \cup {NoFd}]
    /\ fdPort \in [Fd -> Port \cup {0}]
    /\ sock \in [Fd -> Port \cup {Closed, Unbound}]

\* add_socket on a port that is open only raises its listener count.
LEMMA ReuseSocketStep ==
    ASSUME SocketTypes, SocketsExact, NEW p \in Port, reuse_socket(p)
    PROVE  /\ SocketTypes' /\ SocketsExact'
           /\ portListener' = [portListener EXCEPT ![p] = @ + 1]
BY DEF SocketTypes, SocketsExact, reuse_socket

\* add_socket on a new port enters the new descriptor in both tables.
LEMMA OpenSocketStep ==
    ASSUME SocketTypes, SocketsExact, NEW p \in Port, open_socket(p)
    PROVE  /\ SocketTypes' /\ SocketsExact'
           /\ portListener' = [portListener EXCEPT ![p] = @ + 1]
<1>1. PICK f \in Fd : /\ init_socket(p, f)
                      /\ portFd' = [portFd EXCEPT ![p] = f]
                      /\ fdPort' = [fdPort EXCEPT ![f] = p]
  BY DEF open_socket
<1>2. /\ portListener[p] = 0
      /\ portListener' = [portListener EXCEPT ![p] = 1]
      /\ sock[f] = Closed
      /\ sock' = [sock EXCEPT ![f] = p]
      /\ \A g \in Fd : sock[g] # p
  BY <1>1 DEF open_socket, init_socket, CanBind
<1>3. SocketTypes'
  BY <1>1, <1>2 DEF SocketTypes
<1>4. p \in Nat /\ p > 0 /\ f # NoFd /\ Closed \notin Port /\ portFd[p] = NoFd
  BY <1>2, WorkerAssumption DEF NoFd, Closed, SocketTypes, SocketsExact
<1>5. (\A q \in Port : portListener[q] > 0 <=> portFd[q] # NoFd)'
  BY <1>1, <1>2, <1>4 DEF SocketTypes, SocketsExact
<1>6. (\A q \in Port : portFd[q] # NoFd => fdPort[portFd[q]] = q /\ sock[portFd[q]] = q)'
  <2> SUFFICES ASSUME NEW q \in Port, portFd'[q] # NoFd
               PROVE  fdPort'[portFd'[q]] = q /\ sock'[portFd'[q]] = q
    OBVIOUS
  <2>1. CASE q = p
    BY <1>1, <1>2, <2>1 DEF SocketTypes
  <2>2. CASE q # p
    <3>1. portFd'[q] = portFd[q] /\ portFd[q] \in Fd
      BY <1>1, <2>2 DEF SocketTypes
    <3>2. sock[portFd[q]] = q /\ fdPort[portFd[q]] = q
      BY <3>1 DEF SocketsExact
    <3>3. portFd[q] # f
      BY <1>2, <1>4, <3>2
    <3> QED
      BY <1>1, <1>2, <3>1, <3>2, <3>3 DEF SocketTypes
  <2> QED
    BY <2>1, <2>2
<1>7. (\A g \in Fd : sock[g] \in Port => portFd[sock[g]] = g)'
  BY <1>1, <1>2, <1>4 DEF SocketTypes, SocketsExact
<1>8. (\A g \in Fd : fdPort[g] # 0 => portFd[fdPort[g]] = g)'
  <2> SUFFICES ASSUME NEW g \in Fd, fdPort'[g] # 0
               PROVE  portFd'[fdPort'[g]] = g
    OBVIOUS
  <2>1. CASE g = f
    BY <1>1, <2>1 DEF SocketTypes
  <2>2. CASE g # f
    <3>1. fdPort'[g] = fdPort[g] /\ fdPort[g] \in Port
      BY <1>1, <2>2 DEF SocketTypes
    <3>2. portFd[fdPort[g]] = g
      BY <3>1, WorkerAssumption DEF SocketsExact
    <3>3. fdPort[g] # p
      BY <1>4, <3>2, WorkerAssumption DEF NoFd
    <3> QED
      BY <1>1, <3>1, <3>2, <3>3 DEF SocketTypes
  <2> QED
    BY <2>1, <2>2
<1> QED
  BY <1>2, <1>3, <1>5, <1>6, <1>7, <1>8 DEF SocketsExact

\* remove_socket lowers the listener count, and closes and forgets the descriptor
\* of the port when it was the last.
LEMMA RemoveSocketStep ==
    ASSUME SocketTypes, SocketsExact, NEW p \in Port, remove_socket(p),
           portListener[p] > 0
    PROVE  /\ SocketTypes' /\ SocketsExact'
           /\ portListener' = [portListener EXCEPT ![p] = @ - 1]
<1>1. portListener' = [portListener EXCEPT ![p] = @ - 1]
  BY DEF remove_socket
<1>2. CASE portListener[p] # 1
  <2>1. UNCHANGED <<portFd, fdPort, sock>>
    BY <1>2 DEF remove_socket
  <2> QED
    BY <1>1, <1>2, <2>1 DEF SocketTypes, SocketsExact
<1>3. CASE portListener[p] = 1
  <2> DEFINE f == portFd[p]
  <2>1. /\ portFd' = [portFd EXCEPT ![p] = NoFd]
        /\ fdPort' = [fdPort EXCEPT ![f] = 0]
        /\ sock' = [sock EXCEPT ![f] = Closed]
    BY <1>3 DEF remove_socket
  <2>2. f \in Fd /\ fdPort[f] = p /\ sock[f] = p /\ f # NoFd
    BY <1>3 DEF SocketTypes, SocketsExact
  <2>3. SocketTypes'
    BY <1>1, <1>3, <2>1, <2>2 DEF SocketTypes
  <2>4. \A q \in Port : portFd'[q] # NoFd => q # p /\ portFd'[q] = portFd[q]
    BY <2>1 DEF SocketTypes
  <2>5. (\A q \in Port : portListener[q] > 0 <=> portFd[q] # NoFd)'
    BY <1>1, <1>3, <2>1 DEF SocketTypes, SocketsExact
  <2>6. (\A q \in Port : portFd[q] # NoFd => fdPort[portFd[q]] = q /\ sock[portFd[q]] = q)'
    <3> SUFFICES ASSUME NEW q \in Port, portFd'[q] # NoFd
                 PROVE  fdPort'[portFd'[q]] = q /\ sock'[portFd'[q]] = q
      OBVIOUS
    <3>1. q # p /\ portFd'[q] = portFd[q] /\ portFd[q] \in Fd
      BY <2>4 DEF SocketTypes
    <3>2. sock[portFd[q]] = q /\ fdPort[portFd[q]] = q
      BY <3>1 DEF SocketsExact
    <3>3. portFd[q] # f
      BY <2>2, <3>1, <3>2
    <3> QED
      BY <2>1, <3>1, <3>2, <3>3 DEF SocketTypes
  <2>7. (\A g \in Fd : sock[g] \in Port => portFd[sock[g]] = g)'
    <3> SUFFICES ASSUME NEW g \in Fd, sock'[g] \in Port
                 PROVE  portFd'[sock'[g]] = g
      OBVIOUS
    <3>1. g # f /\ sock'[g] = sock[g]
      BY <2>1, <2>2, WorkerAssumption DEF SocketTypes, Closed
    <3>2. portFd[sock[g]] = g
      BY <3>1 DEF SocketsExact
    <3> QED
      BY <2>1, <3>1, <3>2 DEF SocketTypes
  <2>8. (\A g \in Fd : fdPort[g] # 0 => portFd[fdPort[g]] = g)'
    <3> SUFFICES ASSUME NEW g \in Fd, fdPort'[g] # 0
                 PROVE  portFd'[fdPort'[g]] = g
      OBVIOUS
    <3>1. g # f /\ fdPort'[g] = fdPort[g] /\ fdPort[g] \in Port
      BY <2>1, <2>2 DEF SocketTypes
    <3>2. portFd[fdPort[g]] = g
      BY <3>1, WorkerAssumption DEF SocketsExact
    <3> QED
      BY <2>1, <3>1, <3>2 DEF SocketTypes
  <2> QED
    BY <1>1, <2>3, <2>5, <2>6, <2>7, <2>8 DEF SocketsExact
<1> QED
  BY <1>2, <1>3

\* A failed init_socket, even one that leaks its descriptor, touches no port.
LEMMA InitSocketFailsStep ==
    ASSUME SocketTypes, SocketsExact, NEW p \in Port, init_socket_fails(p),
           UNCHANGED <<portListener, portFd, fdPort>>
    PROVE  SocketTypes' /\ SocketsExact'
<1>1. CASE UNCHANGED sock
  BY <1>1 DEF SocketTypes, SocketsExact
<1>2. CASE \E f \in Fd : sock[f] = Closed /\ sock' = [sock EXCEPT ![f] = Unbound]
  <2>1. PICK f \in Fd : sock[f] = Closed /\ sock' = [sock EXCEPT ![f] = Unbound]
    BY <1>2
  <2>2. Unbound \notin Port /\ Closed \notin Port
    BY WorkerAssumption DEF Unbound, Closed
  <2>3. \A g \in Fd : sock'[g] = IF g = f THEN Unbound ELSE sock[g]
    BY <2>1 DEF SocketTypes
  <2>4. SocketTypes'
    BY <2>1 DEF SocketTypes
  <2>5. \A q \in Port : portFd[q] # NoFd => portFd[q] \in Fd /\ portFd[q] # f
    BY <2>1, <2>2 DEF SocketTypes, SocketsExact
  <2> QED
    BY <2>2, <2>3, <2>4, <2>5 DEF SocketTypes, SocketsExact
<1> QED
  BY <1>1, <1>2 DEF init_socket_fails

-----------------------------------------------------------------------------
(* Every step keeps Tables.                                                *)

\* A step after which the lists are under the same identifiers, with the same
\* sources.
KeepsSources ==
    \A j \in ListId : /\ IsList(j)' <=> IsList(j)
                      /\ IsList(j) => management'[j].src = management[j].src

\* An operation that keeps every list under its identifier, with its source and
\* with unique destinations, and leaves the sockets alone, keeps Tables.
LEMMA SameSourcesStep ==
    ASSUME Tables,
           management' \in [ListId -> List \cup {Absent, Null}],
           \A j \in ListId :
              /\ IsList(j)' <=> IsList(j)
              /\ IsList(j) => /\ management'[j].src = management[j].src
                              /\ UniqueIdsIn(management'[j].dests),
           forwarding' \in [Addr -> ListId], working' \in BOOLEAN,
           out' \in [from : Addr, to : Seq(UdpStream)] \cup {NoPacket},
           UNCHANGED <<portListener, portFd, fdPort, sock>>
    PROVE  Tables'
<1>1. TypeOK'
  BY DEF Tables, TypeOK
<1>2. Counts'
  BY ListsOnKeep DEF Tables, Counts, ListenersCover, ListenersExact
<1>3. SocketsExact'
  BY DEF Tables, SocketsExact
<1>4. DestinationsUnique'
  BY DEF DestinationsUnique, Lists
<1> QED
  BY <1>1, <1>2, <1>3, <1>4 DEF Tables

\* Replacing the destinations of one list by others with unique ids is such an
\* operation.
LEMMA OneListStep ==
    ASSUME Tables, NEW id \in ListId, IsList(id), NEW ds \in Seq(UdpStream),
           UniqueIdsIn(ds),
           management' = [management EXCEPT ![id] = [management[id] EXCEPT !.dests = ds]],
           forwarding' \in [Addr -> ListId], working' = working, out' = NoPacket,
           UNCHANGED <<portListener, portFd, fdPort, sock>>
    PROVE  Tables' /\ KeepsSources
<1>1. /\ management[id] \in List
      /\ \A j \in ListId : management'[j] = IF j = id THEN [management[id] EXCEPT !.dests = ds]
                                            ELSE management[j]
  BY ListIsRecord DEF Tables, TypeOK
<1>2. /\ management'[id] \in List
      /\ management'[id].src = management[id].src
      /\ management'[id].dests = ds
  BY <1>1 DEF List
<1>3. management' \in [ListId -> List \cup {Absent, Null}]
  BY <1>1, <1>2 DEF Tables, TypeOK
<1>4. ASSUME NEW j \in ListId
      PROVE  /\ IsList(j)' <=> IsList(j)
             /\ IsList(j) => /\ management'[j].src = management[j].src
                             /\ UniqueIdsIn(management'[j].dests)
  <2>1. CASE j = id
    BY <1>2, <2>1, WorkerAssumption DEF IsList
  <2>2. CASE j # id
    BY <1>1, <2>2 DEF IsList, Tables, DestinationsUnique, Lists
  <2> QED
    BY <2>1, <2>2
<1>5. working' \in BOOLEAN /\ out' \in [from : Addr, to : Seq(UdpStream)] \cup {NoPacket}
  BY DEF Tables, TypeOK
<1> QED
  BY <1>3, <1>4, <1>5, SameSourcesStep DEF KeepsSources

\* addSource counts one listener more on the port of the source, and at most one
\* list more on it; exactly one if the identifier is free.
LEMMA addSourceStep ==
    ASSUME Tables, NEW id \in SrcId, NEW a \in Addr, addSource(id, a)
    PROVE  Tables'
<1> DEFINE l == [src |-> a, dests |-> << >>]
<1>1. /\ FreshSrcIds => ~ IsList(id)
      /\ id \in ListId
      /\ PortOf(a) \in Port
      /\ management' = [management EXCEPT ![id] = l]
      /\ forwarding' = [forwarding EXCEPT ![a] = id]
      /\ out' = NoPacket
      /\ working' = working
  BY PortOfAddr DEF addSource, addStreamList, ListId
<1>2. l \in List /\ l.src = a /\ l.dests = << >>
  BY EmptySeq DEF List
<1> HIDE DEF l
<1>3. /\ SocketTypes' /\ SocketsExact'
      /\ portListener' = [portListener EXCEPT ![PortOf(a)] = @ + 1]
  <2>1. SocketTypes /\ SocketsExact
    BY DEF Tables, TypeOK, SocketTypes
  <2>2. CASE reuse_socket(PortOf(a))
    BY <1>1, <2>1, <2>2, ReuseSocketStep
  <2>3. CASE open_socket(PortOf(a))
    BY <1>1, <2>1, <2>3, OpenSocketStep
  <2> QED
    BY <2>2, <2>3 DEF addSource
<1>4. TypeOK'
  BY <1>1, <1>2, <1>3 DEF Tables, TypeOK, SocketTypes
<1>5. \A p \in Port :
        /\ Cardinality(ListsOn(p)') <= Cardinality(ListsOn(p)) + (IF p = PortOf(a) THEN 1 ELSE 0)
        /\ FreshSrcIds => Cardinality(ListsOn(p)') =
                            Cardinality(ListsOn(p)) + (IF p = PortOf(a) THEN 1 ELSE 0)
  BY <1>1, <1>2, ListsOnPut, ListsOnGrow DEF Tables
<1>6. Counts'
  <2>1. \A p \in Port : portListener'[p] = portListener[p] + (IF p = PortOf(a) THEN 1 ELSE 0)
    BY <1>3 DEF Tables, TypeOK
  <2>2. \A p \in Port : /\ portListener[p] \in Nat
                        /\ Cardinality(ListsOn(p)) \in Nat
                        /\ Cardinality(ListsOn(p)) <= portListener[p]
    BY ListsOnFinite, FS_CardinalityType DEF Tables, TypeOK, Counts, ListenersCover
  <2>3. \A p \in Port : Cardinality(ListsOn(p)') \in Nat
    <3>1. TypeOK' => \A p \in Port : IsFiniteSet(ListsOn(p)')
      <4>1. IsFiniteSet(ListId)
        BY WorkerAssumption, FS_AddElement DEF ListId
      <4> QED
        BY <4>1, FS_Subset DEF ListsOn, Lists
    <3> QED
      BY <1>4, <3>1, FS_CardinalityType
  <2>4. ListenersCover'
    BY <1>5, <2>1, <2>2, <2>3 DEF ListenersCover
  <2>5. FreshSrcIds => ListenersExact'
    BY <1>5, <2>1, <2>2 DEF Tables, Counts, ListenersExact
  <2> QED
    BY <2>4, <2>5 DEF Counts
<1>7. DestinationsUnique'
  <2> SUFFICES ASSUME NEW j \in ListId, IsList(j)'
               PROVE  UniqueIdsIn(management'[j].dests)
    BY DEF DestinationsUnique, Lists
  <2>1. CASE j = id
    BY <1>1, <1>2, <2>1 DEF Tables, TypeOK, UniqueIdsIn
  <2>2. CASE j # id
    BY <1>1, <2>2 DEF Tables, TypeOK, DestinationsUnique, Lists, IsList
  <2> QED
    BY <2>1, <2>2
<1> QED
  BY <1>3, <1>4, <1>6, <1>7 DEF Tables

\* addSource refused by the kernel may leak a descriptor and changes no table.
LEMMA addSource_failsStep ==
    ASSUME Tables, NEW a \in Addr, addSource_fails(a)
    PROVE  Tables'
<1>1. /\ PortOf(a) \in Port
      /\ init_socket_fails(PortOf(a))
      /\ out' = NoPacket
      /\ UNCHANGED <<portListener, portFd, fdPort, management, forwarding, working>>
  BY PortOfAddr DEF addSource_fails, tables
<1>2. SocketTypes /\ SocketsExact
  BY DEF Tables, TypeOK, SocketTypes
<1>3. SocketTypes' /\ SocketsExact'
  BY <1>1, <1>2, InitSocketFailsStep
<1>4. TypeOK'
  BY <1>1, <1>3 DEF Tables, TypeOK, SocketTypes
<1>5. Counts'
  BY <1>1, ListsOnKeep DEF Tables, Counts, ListenersCover, ListenersExact, IsList
<1>6. DestinationsUnique'
  BY <1>1 DEF Tables, DestinationsUnique, Lists, IsList
<1> QED
  BY <1>3, <1>4, <1>5, <1>6 DEF Tables

\* removeSource takes one listener and one list off the port of its source.
LEMMA removeSourceStep ==
    ASSUME Tables, NEW id \in SrcId, removeSource(id)
    PROVE  Tables'
<1> DEFINE p == PortOf(management[id].src)
<1>1. /\ IsList(id)
      /\ id \in ListId
      /\ remove_socket(p)
      /\ management' = [management EXCEPT ![id] = Absent]
      /\ forwarding' = [forwarding EXCEPT ![management[id].src] = 0]
      /\ working' \in BOOLEAN
      /\ out' = NoPacket
  BY DEF removeSource, removeStreamList, ListId
<1>2. management[id].src \in Addr /\ p \in Port
  BY <1>1, ListIsRecord, PortOfAddr DEF Tables
<1>3. portListener[p] > 0
  <2>1. id \in ListsOn(p)
    BY <1>1 DEF ListsOn, Lists
  <2>2. Cardinality(ListsOn(p)) # 0 /\ Cardinality(ListsOn(p)) \in Nat
    BY <1>2, <2>1, ListsOnFinite, FS_EmptySet, FS_CardinalityType
  <2> QED
    BY <1>2, <2>2 DEF Tables, TypeOK, Counts, ListenersCover
<1> HIDE DEF p
<1>4. /\ SocketTypes' /\ SocketsExact'
      /\ portListener' = [portListener EXCEPT ![p] = @ - 1]
  <2>1. SocketTypes /\ SocketsExact
    BY DEF Tables, TypeOK, SocketTypes
  <2> QED
    BY <1>1, <1>2, <1>3, <2>1, RemoveSocketStep
<1>5. TypeOK'
  BY <1>1, <1>2, <1>4 DEF Tables, TypeOK, SocketTypes, ListId
<1>6. \A q \in Port : Cardinality(ListsOn(q)') =
                        Cardinality(ListsOn(q)) - (IF q = p THEN 1 ELSE 0)
  BY <1>1, ListsOnShrink DEF Tables, p
<1>7. Counts'
  <2>1. \A q \in Port : portListener'[q] = portListener[q] - (IF q = p THEN 1 ELSE 0)
    BY <1>4 DEF Tables, TypeOK
  <2>2. \A q \in Port : /\ portListener[q] \in Nat
                        /\ Cardinality(ListsOn(q)) \in Nat
                        /\ Cardinality(ListsOn(q)) <= portListener[q]
    BY ListsOnFinite, FS_CardinalityType DEF Tables, TypeOK, Counts, ListenersCover
  <2>3. ListenersCover'
    BY <1>6, <2>1, <2>2 DEF ListenersCover
  <2>4. FreshSrcIds => ListenersExact'
    BY <1>6, <2>1, <2>2 DEF Tables, Counts, ListenersExact
  <2> QED
    BY <2>3, <2>4 DEF Counts
<1>8. DestinationsUnique'
  BY <1>1 DEF Tables, TypeOK, DestinationsUnique, Lists, IsList
<1> QED
  BY <1>4, <1>5, <1>7, <1>8 DEF Tables

\* addDestination keeps the ids of a list unique by its test, and rewrites the
\* address entry the list already had.
LEMMA addDestStep ==
    ASSUME Tables, NEW id \in SrcId, NEW d \in UdpStream, addDest(id, d)
    PROVE  Tables' /\ KeepsSources
<1> DEFINE ds == addDestination(management[id].dests, d)
<1>1. /\ IsList(id)
      /\ id \in ListId
      /\ management' = [management EXCEPT ![id] = [management[id] EXCEPT !.dests = ds]]
      /\ forwarding' = [forwarding EXCEPT
                          ![[management[id] EXCEPT !.dests = ds].src] = id]
      /\ working' = working
      /\ out' = NoPacket
      /\ UNCHANGED <<portListener, portFd, fdPort, sock>>
  BY DEF addDest, addStreamList, ListId
<1>2. management[id].dests \in Seq(UdpStream) /\ UniqueIdsIn(management[id].dests)
  BY <1>1, ListIsRecord DEF Tables, DestinationsUnique, Lists
<1>3. ds \in Seq(UdpStream) /\ UniqueIdsIn(ds)
  BY <1>2, addDestinationCorrect
<1>4. forwarding' \in [Addr -> ListId]
  BY <1>1 DEF Tables, TypeOK
<1> HIDE DEF ds
<1> QED
  BY <1>1, <1>3, <1>4, OneListStep

\* removeDestination keeps the ids of a list unique.
LEMMA removeDestStep ==
    ASSUME Tables, NEW id \in SrcId, NEW did \in DestId, removeDest(id, did)
    PROVE  Tables' /\ KeepsSources
<1> DEFINE ds == remDestination(management[id].dests, did)
<1>1. /\ IsList(id)
      /\ id \in ListId
      /\ existDestination(management[id].dests, did)
      /\ management' = [management EXCEPT ![id] = [management[id] EXCEPT !.dests = ds]]
      /\ forwarding' = [forwarding EXCEPT
                          ![[management[id] EXCEPT !.dests = ds].src] = id]
      /\ working' = working
      /\ out' = NoPacket
      /\ UNCHANGED <<portListener, portFd, fdPort, sock>>
  BY DEF removeDest, addStreamList, ListId
<1>2. management[id].dests \in Seq(UdpStream) /\ UniqueIdsIn(management[id].dests)
  BY <1>1, ListIsRecord DEF Tables, DestinationsUnique, Lists
<1>3. ds \in Seq(UdpStream) /\ UniqueIdsIn(ds)
  BY <1>1, <1>2, remDestinationCorrect
<1>4. forwarding' \in [Addr -> ListId]
  BY <1>1 DEF Tables, TypeOK
<1> HIDE DEF ds
<1> QED
  BY <1>1, <1>3, <1>4, OneListStep

\* conmuteStreamList gives one list the destinations of another, whose ids are
\* unique, and empties that one.
LEMMA conmuteStreamListStep ==
    ASSUME Tables, NEW from \in SrcId, NEW to \in SrcId, conmuteStreamList(from, to)
    PROVE  Tables' /\ KeepsSources
<1>1. /\ IsList(from) /\ IsList(to)
      /\ from \in ListId /\ to \in ListId
      /\ management' = [management EXCEPT ![to].dests = management[from].dests,
                                          ![from].dests = << >>]
      /\ UNCHANGED <<forwarding, working, portListener, portFd, fdPort, sock>>
      /\ out' = NoPacket
  BY DEF conmuteStreamList, ListId
<1>2. /\ management[from] \in List /\ management[to] \in List
      /\ management[from].dests \in Seq(UdpStream)
      /\ UniqueIdsIn(management[from].dests)
  BY <1>1, ListIsRecord DEF Tables, DestinationsUnique, Lists
<1>3. << >> \in Seq(UdpStream) /\ UniqueIdsIn(<< >>)
  BY EmptySeq DEF UniqueIdsIn
<1>4. \A j \in ListId :
        management'[j] = IF j = from THEN [management[from] EXCEPT !.dests = << >>]
                         ELSE IF j = to THEN [management[to] EXCEPT !.dests = management[from].dests]
                         ELSE management[j]
  <2>1. CASE from = to
    BY <1>1, <1>2, <2>1 DEF Tables, TypeOK, List
  <2>2. CASE from # to
    BY <1>1, <2>2 DEF Tables, TypeOK
  <2> QED
    BY <2>1, <2>2
<1>5. /\ management'[from] \in List
      /\ management'[from].src = management[from].src
      /\ management'[from].dests = << >>
      /\ from # to => /\ management'[to] \in List
                      /\ management'[to].src = management[to].src
                      /\ management'[to].dests = management[from].dests
  <2>1. management'[from] = [management[from] EXCEPT !.dests = << >>]
    BY <1>1, <1>4
  <2>2. /\ [management[from] EXCEPT !.dests = << >>] \in List
        /\ [management[from] EXCEPT !.dests = << >>].src = management[from].src
        /\ [management[from] EXCEPT !.dests = << >>].dests = << >>
    BY <1>2, <1>3, DestsReplaced, Zenon
  <2>3. from # to => management'[to] = [management[to] EXCEPT !.dests = management[from].dests]
    BY <1>1, <1>4
  <2>4. /\ [management[to] EXCEPT !.dests = management[from].dests] \in List
        /\ [management[to] EXCEPT !.dests = management[from].dests].src = management[to].src
        /\ [management[to] EXCEPT !.dests = management[from].dests].dests
              = management[from].dests
    BY <1>2, DestsReplaced, Zenon
  <2> QED
    BY <2>1, <2>2, <2>3, <2>4
<1>6. management' \in [ListId -> List \cup {Absent, Null}]
  BY <1>1, <1>4, <1>5 DEF Tables, TypeOK
<1>7. ASSUME NEW j \in ListId
      PROVE  /\ IsList(j)' <=> IsList(j)
             /\ IsList(j) => /\ management'[j].src = management[j].src
                             /\ UniqueIdsIn(management'[j].dests)
  <2>1. CASE j = from \/ j = to
    BY <1>1, <1>2, <1>3, <1>5, <2>1, WorkerAssumption DEF IsList
  <2>2. CASE j # from /\ j # to
    BY <1>4, <2>2 DEF IsList, Tables, DestinationsUnique, Lists
  <2> QED
    BY <2>1, <2>2
<1>8. /\ forwarding' \in [Addr -> ListId] /\ working' \in BOOLEAN
      /\ out' \in [from : Addr, to : Seq(UdpStream)] \cup {NoPacket}
  BY <1>1 DEF Tables, TypeOK
<1> QED
  BY <1>1, <1>6, <1>7, <1>8, SameSourcesStep DEF KeepsSources

\* conmuteUdpStream adds a destination of one list to another under its test.
LEMMA conmuteUdpStreamStep ==
    ASSUME Tables, NEW from \in SrcId, NEW to \in SrcId, NEW did \in DestId,
           conmuteUdpStream(did, from, to)
    PROVE  Tables' /\ KeepsSources
<1> DEFINE ds == addDestination(management[to].dests,
                                getDestination(management[from].dests, did))
<1>1. /\ IsList(from) /\ IsList(to)
      /\ from \in ListId /\ to \in ListId
      /\ existDestination(management[from].dests, did)
      /\ management' = [management EXCEPT ![to] = [management[to] EXCEPT !.dests = ds]]
      /\ UNCHANGED <<forwarding, working, portListener, portFd, fdPort, sock>>
      /\ out' = NoPacket
  BY DEF conmuteUdpStream, ListId
<1>2. /\ management[from].dests \in Seq(UdpStream)
      /\ management[to].dests \in Seq(UdpStream)
      /\ UniqueIdsIn(management[to].dests)
  BY <1>1, ListIsRecord DEF Tables, DestinationsUnique, Lists
<1>3. getDestination(management[from].dests, did) \in UdpStream
  BY <1>1, <1>2, getDestinationCorrect
<1>4. ds \in Seq(UdpStream) /\ UniqueIdsIn(ds)
  BY <1>2, <1>3, addDestinationCorrect
<1>5. forwarding' \in [Addr -> ListId]
  BY <1>1 DEF Tables, TypeOK
<1> HIDE DEF ds
<1> QED
  BY <1>1, <1>4, <1>5, OneListStep

\* A datagram changes no list: at most it leaves a null pointer where there was
\* none.
LEMMA processStep ==
    ASSUME Tables, NEW ip \in IP, NEW p \in Port, process(ip, p)
    PROVE  Tables' /\ KeepsSources
<1> DEFINE a == <<ip, fdPort[portFd[p]]>>
           id == forwarding[a]
<1>1. portFd[p] # NoFd /\ UNCHANGED <<portListener, portFd, fdPort, forwarding, working, sock>>
  BY DEF process
<1>2. a \in Addr /\ id \in ListId
  BY <1>1 DEF Tables, TypeOK, SocketsExact, Addr
<1>3. \/ IsList(id) /\ out' = [from |-> a, to |-> management[id].dests] /\ UNCHANGED management
      \/ ~ IsList(id) /\ out' = [from |-> a, to |-> << >>]
                      /\ management' = [management EXCEPT ![id] = Null]
  BY DEF process
<1> HIDE DEF a, id
<1>4. out' \in [from : Addr, to : Seq(UdpStream)] \cup {NoPacket}
  <2>1. << >> \in Seq(UdpStream)
    BY EmptySeq
  <2>2. IsList(id) => management[id].dests \in Seq(UdpStream)
    BY <1>2, ListIsRecord DEF Tables
  <2> QED
    BY <1>2, <1>3, <2>1, <2>2, SentIsOut
<1>5. management' \in [ListId -> List \cup {Absent, Null}]
  BY <1>2, <1>3 DEF Tables, TypeOK
<1>6. \A j \in ListId : /\ IsList(j)' <=> IsList(j)
                        /\ IsList(j) => management'[j] = management[j]
  BY <1>2, <1>3 DEF Tables, TypeOK, IsList
<1>7. \A j \in ListId : IsList(j) => UniqueIdsIn(management[j].dests)
  BY DEF Tables, DestinationsUnique, Lists
<1>8. forwarding' \in [Addr -> ListId] /\ working' \in BOOLEAN
  BY <1>1 DEF Tables, TypeOK
<1> QED
  BY <1>1, <1>4, <1>5, <1>6, <1>7, <1>8, SameSourcesStep DEF KeepsSources

\* The initial tables agree: no list, no listener, no descriptor.
LEMMA TablesInit ==
    ASSUME Init
    PROVE  Tables
<1>1. \A id \in ListId : ~ IsList(id)
  BY DEF Init, IsList
<1>2. TypeOK
  BY DEF Init, TypeOK, ListId
<1>3. Counts
  <2>1. \A p \in Port : ListsOn(p) = {}
    BY <1>1 DEF ListsOn, Lists
  <2>2. \A p \in Port : Cardinality(ListsOn(p)) = 0
    BY <2>1, FS_EmptySet
  <2> QED
    BY <2>2 DEF Counts, ListenersCover, ListenersExact, Init
<1>4. SocketsExact
  BY WorkerAssumption DEF Init, SocketsExact, Closed
<1>5. DestinationsUnique
  BY <1>1 DEF DestinationsUnique, Lists
<1> QED
  BY <1>2, <1>3, <1>4, <1>5 DEF Tables

\* Whatever the step, Tables is kept.
LEMMA TablesStep ==
    ASSUME Tables, [Next]_vars
    PROVE  Tables'
<1>1. CASE \E id \in SrcId, a \in Addr : addSource(id, a)
  BY <1>1, addSourceStep
<1>2. CASE \E a \in Addr : addSource_fails(a)
  BY <1>2, addSource_failsStep
<1>3. CASE \E id \in SrcId : removeSource(id)
  BY <1>3, removeSourceStep
<1>4. CASE \E id \in SrcId, d \in UdpStream : addDest(id, d)
  BY <1>4, addDestStep
<1>5. CASE \E id \in SrcId, did \in DestId : removeDest(id, did)
  BY <1>5, removeDestStep
<1>6. CASE \E from, to \in SrcId : conmuteStreamList(from, to)
  BY <1>6, conmuteStreamListStep
<1>7. CASE \E from, to \in SrcId, did \in DestId : conmuteUdpStream(did, from, to)
  BY <1>7, conmuteUdpStreamStep
<1>8. CASE \E ip \in IP, p \in Port : process(ip, p)
  BY <1>8, processStep
<1>9. CASE UNCHANGED vars
  BY <1>9 DEF vars, tables, Tables, TypeOK, Counts, ListenersCover,
              ListenersExact, SocketsExact, DestinationsUnique, ListsOn, Lists, IsList
<1> QED
  BY <1>1, <1>2, <1>3, <1>4, <1>5, <1>6, <1>7, <1>8, <1>9 DEF Next

\* Whatever identifiers a caller uses, every table has its type (Worker::addSource
\* and removeSource over add_socket and remove_socket).
THEOREM TypeTheorem == Spec => []TypeOK
<1>1. Tables => TypeOK
  BY DEF Tables
<1> QED
  BY <1>1, TablesInit, TablesStep, PTL DEF Spec

\* Whatever identifiers a caller uses, the three socket tables and the kernel agree:
\* a list added over another under the same identifier may keep a socket open for
\* good, but closes none that is in use (Worker::add_socket, remove_socket).
THEOREM SocketsTheorem == Spec => [](SocketsExact /\ ListenersCover)
<1>1. Tables => SocketsExact /\ ListenersCover
  BY DEF Tables, Counts
<1> QED
  BY <1>1, TablesInit, TablesStep, PTL DEF Spec

\* Whatever identifiers a caller uses, no list repeats the identifier of a destination
\* (StreamList::addDestination, through addDestination and both conmute operations).
THEOREM DestinationsTheorem == Spec => []DestinationsUnique
<1>1. Tables => DestinationsUnique
  BY DEF Tables
<1> QED
  BY <1>1, TablesInit, TablesStep, PTL DEF Spec

\* When no identifier of a source is used twice, 0 included, a port's listener count is
\* the number of its lists (Worker::add_socket and remove_socket under addSource and
\* removeSource).
THEOREM TablesTheorem ==
    ASSUME FreshSrcIds
    PROVE  Spec => []ListenersExact
<1>1. Tables => ListenersExact
  BY DEF Tables, Counts
<1> QED
  BY <1>1, TablesInit, TablesStep, PTL DEF Spec

-----------------------------------------------------------------------------
(* The address table, when identifiers are not 0.                          *)

\* An operation that keeps the sources and the address table keeps them inverse.
LEMMA RoutingKept ==
    ASSUME TypeOK, RoutingExact, KeepsSources, forwarding' = forwarding
    PROVE  RoutingExact'
BY DEF TypeOK, RoutingExact, KeepsSources, Lists

\* Rewriting the entry of a list, as addDestination and removeDestination do,
\* changes nothing: the entry was there.
LEMMA EntryRewritten ==
    ASSUME TypeOK, RoutingExact, NEW id \in ListId, IsList(id), NEW ds
    PROVE  [forwarding EXCEPT ![[management[id] EXCEPT !.dests = ds].src] = id] = forwarding
<1>1. [management[id] EXCEPT !.dests = ds].src = management[id].src
  BY ListIsRecord DEF List
<1>2. forwarding[management[id].src] = id
  BY DEF RoutingExact, Lists
<1> QED
  BY <1>1, <1>2 DEF TypeOK

\* Every step keeps the address table and the lists inverse.
LEMMA RoutingStep ==
    ASSUME FreshSrcIds, 0 \notin SrcId, Inv, [Next]_vars
    PROVE  RoutingExact'
<1>0. Tables /\ TypeOK /\ RoutingExact
  BY DEF Inv, Tables
<1>1. ASSUME NEW id \in SrcId, NEW a \in Addr, addSource(id, a)
      PROVE  RoutingExact'
  <2> DEFINE l == [src |-> a, dests |-> << >>]
  <2>1. /\ ~ IsList(id)
        /\ id \in ListId /\ id # 0
        /\ forwarding[a] = 0
        /\ management' = [management EXCEPT ![id] = l]
        /\ forwarding' = [forwarding EXCEPT ![a] = id]
    BY <1>1 DEF addSource, addStreamList, ListId
  <2>2. l \in List /\ l.src = a
    BY EmptySeq DEF List
  <2> HIDE DEF l
  <2>3. \A j \in ListId : management'[j] = IF j = id THEN l ELSE management[j]
    BY <1>0, <2>1 DEF TypeOK
  <2>4. \A b \in Addr : forwarding'[b] = IF b = a THEN id ELSE forwarding[b]
    BY <1>0, <2>1 DEF TypeOK
  <2>5. IsList(id)'
    BY <2>1, <2>2, <2>3, WorkerAssumption DEF IsList
  <2>6. \A j \in ListId : j # id => (IsList(j)' <=> IsList(j))
    BY <2>3 DEF IsList
  <2>7. ASSUME NEW b \in Addr, forwarding'[b] # 0
        PROVE  IsList(forwarding[b])' /\ management'[forwarding'[b]].src = b
    <3>1. CASE b = a
      BY <2>1, <2>2, <2>3, <2>4, <2>5, <3>1
    <3>2. CASE b # a
      <4>1. forwarding'[b] = forwarding[b] /\ forwarding[b] \in ListId
        BY <1>0, <2>4, <3>2 DEF TypeOK
      <4>2. IsList(forwarding[b]) /\ management[forwarding[b]].src = b
        BY <1>0, <2>7, <4>1 DEF RoutingExact
      <4>3. forwarding[b] # id
        BY <2>1, <4>2
      <4>4. management'[forwarding[b]] = management[forwarding[b]]
        BY <2>3, <4>1, <4>3
      <4> QED
        BY <4>1, <4>2, <4>4 DEF IsList
    <3> QED
      BY <3>1, <3>2
  <2>8. ASSUME NEW j \in ListId, IsList(j)'
        PROVE  j # 0 /\ forwarding'[management'[j].src] = j
    <3>1. CASE j = id
      BY <2>1, <2>2, <2>3, <2>4, <3>1
    <3>2. CASE j # id
      <4>1. IsList(j) /\ management'[j] = management[j]
        BY <2>3, <2>6, <2>8, <3>2
      <4>2. j # 0 /\ forwarding[management[j].src] = j /\ management[j].src \in Addr
        BY <1>0, <4>1, ListIsRecord DEF RoutingExact, Lists
      <4> QED
        BY <2>1, <2>4, <4>1, <4>2
    <3> QED
      BY <3>1, <3>2
  <2> QED
    BY <2>7, <2>8 DEF RoutingExact, Lists
<1>2. ASSUME NEW a \in Addr, addSource_fails(a)
      PROVE  RoutingExact'
  BY <1>0, <1>2 DEF addSource_fails, tables, RoutingExact, Lists, IsList
<1>3. ASSUME NEW id \in SrcId, removeSource(id)
      PROVE  RoutingExact'
  <2> DEFINE a == management[id].src
  <2>1. /\ IsList(id)
        /\ id \in ListId
        /\ management' = [management EXCEPT ![id] = Absent]
        /\ forwarding' = [forwarding EXCEPT ![a] = 0]
    BY <1>3 DEF removeSource, removeStreamList, ListId
  <2>2. a \in Addr /\ forwarding[a] = id
    BY <1>0, <2>1, ListIsRecord DEF RoutingExact, Lists
  <2> HIDE DEF a
  <2>3. \A j \in ListId : management'[j] = IF j = id THEN Absent ELSE management[j]
    BY <1>0, <2>1 DEF TypeOK
  <2>4. \A b \in Addr : forwarding'[b] = IF b = a THEN 0 ELSE forwarding[b]
    BY <1>0, <2>1 DEF TypeOK
  <2>5. ASSUME NEW b \in Addr, forwarding'[b] # 0
        PROVE  IsList(forwarding[b])' /\ management'[forwarding'[b]].src = b
    <3>1. b # a /\ forwarding'[b] = forwarding[b] /\ forwarding[b] \in ListId
      BY <1>0, <2>4, <2>5 DEF TypeOK
    <3>2. IsList(forwarding[b]) /\ management[forwarding[b]].src = b
      BY <1>0, <2>5, <3>1 DEF RoutingExact
    <3>3. forwarding[b] # id
      BY <3>1, <3>2 DEF a
    <3>4. management'[forwarding[b]] = management[forwarding[b]]
      BY <2>3, <3>1, <3>3
    <3> QED
      BY <3>1, <3>2, <3>4 DEF IsList
  <2>6. ASSUME NEW j \in ListId, IsList(j)'
        PROVE  j # 0 /\ forwarding'[management'[j].src] = j
    <3>1. j # id /\ IsList(j) /\ management'[j] = management[j]
      BY <2>3, <2>6 DEF IsList
    <3>2. j # 0 /\ forwarding[management[j].src] = j /\ management[j].src \in Addr
      BY <1>0, <3>1, ListIsRecord DEF RoutingExact, Lists
    <3> QED
      BY <2>2, <2>4, <3>1, <3>2
  <2> QED
    BY <2>5, <2>6 DEF RoutingExact, Lists
<1>4. ASSUME NEW id \in SrcId, NEW d \in UdpStream, addDest(id, d)
      PROVE  RoutingExact'
  <2>1. KeepsSources
    BY <1>0, <1>4, addDestStep
  <2>2. forwarding' = forwarding
    BY <1>0, <1>4, EntryRewritten DEF addDest, addStreamList, ListId
  <2> QED
    BY <1>0, <2>1, <2>2, RoutingKept
<1>5. ASSUME NEW id \in SrcId, NEW did \in DestId, removeDest(id, did)
      PROVE  RoutingExact'
  <2>1. KeepsSources
    BY <1>0, <1>5, removeDestStep
  <2>2. forwarding' = forwarding
    BY <1>0, <1>5, EntryRewritten DEF removeDest, addStreamList, ListId
  <2> QED
    BY <1>0, <2>1, <2>2, RoutingKept
<1>6. ASSUME NEW from \in SrcId, NEW to \in SrcId, conmuteStreamList(from, to)
      PROVE  RoutingExact'
  BY <1>0, <1>6, conmuteStreamListStep, RoutingKept DEF conmuteStreamList
<1>7. ASSUME NEW from \in SrcId, NEW to \in SrcId, NEW did \in DestId,
             conmuteUdpStream(did, from, to)
      PROVE  RoutingExact'
  BY <1>0, <1>7, conmuteUdpStreamStep, RoutingKept DEF conmuteUdpStream
<1>8. ASSUME NEW ip \in IP, NEW p \in Port, process(ip, p)
      PROVE  RoutingExact'
  BY <1>0, <1>8, processStep, RoutingKept DEF process
<1>9. CASE UNCHANGED vars
  BY <1>0, <1>9 DEF vars, tables, RoutingExact, Lists, IsList
<1> QED
  BY <1>1, <1>2, <1>3, <1>4, <1>5, <1>6, <1>7, <1>8, <1>9 DEF Next

\* When, besides, no identifier is 0, the address table and the lists are always
\* inverse of one another: a datagram finds the list registered for its sender
\* if there is one, and no list otherwise (Worker::addStreamList,
\* removeStreamList and getStreamListBySocket).
THEOREM RoutingTheorem ==
    ASSUME FreshSrcIds, 0 \notin SrcId
    PROVE  Spec => []RoutingExact
<1>1. Init => Inv
  <2>1. Init => RoutingExact
    BY DEF Init, RoutingExact, Lists, IsList
  <2> QED
    BY <2>1, TablesInit DEF Inv
<1>2. Inv /\ [Next]_vars => Inv'
  BY TablesStep, RoutingStep DEF Inv
<1>3. Inv => RoutingExact
  BY DEF Inv
<1> QED
  BY <1>1, <1>2, <1>3, PTL DEF Spec

\* A step sends a datagram only to the destinations of a list its sender has.
LEMMA StrangersStep ==
    ASSUME Inv, StrangersNotForwarded, [Next]_vars, FreshSrcIds, 0 \notin SrcId
    PROVE  StrangersNotForwarded'
<1>1. ASSUME NEW ip \in IP, NEW p \in Port, process(ip, p)
      PROVE  StrangersNotForwarded'
  <2>1. PICK a, i : a = <<ip, fdPort[portFd[p]]>> /\ i = forwarding[a]
    OBVIOUS
  <2>2. /\ portFd[p] # NoFd
        /\ \/ /\ IsList(i)
              /\ out' = [from |-> a, to |-> management[i].dests]
              /\ UNCHANGED management
           \/ /\ ~ IsList(i)
              /\ out' = [from |-> a, to |-> << >>]
    BY <1>1, <2>1 DEF process
  <2>3. CASE ~ IsList(i)
    BY <2>2, <2>3 DEF StrangersNotForwarded
  <2>4. CASE IsList(i)
    <3>1. fdPort[portFd[p]] = p
      BY <2>2 DEF Inv, Tables, SocketsExact
    <3>2. a \in Addr /\ i \in ListId
      BY <2>1, <3>1, PortOfAddr DEF Inv, Tables, TypeOK, Addr
    <3>3. i \in Lists
      BY <2>4, <3>2 DEF Lists
    <3>4. management[i].src = a
      BY <2>1, <3>2, <3>3 DEF Inv, RoutingExact
    <3>5. out'.from = a /\ management' = management
      BY <2>2, <2>4
    <3>6. i \in Lists' /\ management'[i].src = out'.from
      BY <3>3, <3>4, <3>5 DEF Lists, IsList
    <3> QED BY <3>6 DEF StrangersNotForwarded
  <2> QED BY <2>3, <2>4
<1>2. ASSUME out' = NoPacket
      PROVE  StrangersNotForwarded'
  BY <1>2 DEF StrangersNotForwarded
<1>3. CASE UNCHANGED vars
  BY <1>3 DEF vars, tables, StrangersNotForwarded, Lists, IsList
<1>4. ASSUME NEW id \in SrcId, NEW a \in Addr, addSource(id, a)
      PROVE  StrangersNotForwarded'
  BY <1>2, <1>4 DEF addSource
<1>5. ASSUME NEW a \in Addr, addSource_fails(a)
      PROVE  StrangersNotForwarded'
  BY <1>2, <1>5 DEF addSource_fails
<1>6. ASSUME NEW id \in SrcId, removeSource(id)
      PROVE  StrangersNotForwarded'
  BY <1>2, <1>6 DEF removeSource
<1>7. ASSUME NEW id \in SrcId, NEW d \in UdpStream, addDest(id, d)
      PROVE  StrangersNotForwarded'
  BY <1>2, <1>7 DEF addDest
<1>8. ASSUME NEW id \in SrcId, NEW did \in DestId, removeDest(id, did)
      PROVE  StrangersNotForwarded'
  BY <1>2, <1>8 DEF removeDest
<1>9. ASSUME NEW from \in SrcId, NEW to \in SrcId, conmuteStreamList(from, to)
      PROVE  StrangersNotForwarded'
  BY <1>2, <1>9 DEF conmuteStreamList
<1>10. ASSUME NEW from \in SrcId, NEW to \in SrcId, NEW did \in DestId,
              conmuteUdpStream(did, from, to)
       PROVE  StrangersNotForwarded'
  BY <1>2, <1>10 DEF conmuteUdpStream
<1> QED
  BY <1>1, <1>3, <1>4, <1>5, <1>6, <1>7, <1>8, <1>9, <1>10 DEF Next

\* When no identifier is used twice or is 0, a datagram from an address no source has
\* reaches no destination: what ForwardWorker::process supposes of its lookup.
THEOREM StrangersTheorem ==
    ASSUME FreshSrcIds, 0 \notin SrcId
    PROVE  Spec => []StrangersNotForwarded
<1>1. Init => Inv /\ StrangersNotForwarded
  <2>1. Init => RoutingExact
    BY DEF Init, RoutingExact, Lists, IsList
  <2>2. Init => StrangersNotForwarded
    BY DEF Init, StrangersNotForwarded
  <2> QED
    BY <2>1, <2>2, TablesInit DEF Inv
<1>2. Inv /\ StrangersNotForwarded /\ [Next]_vars => Inv' /\ StrangersNotForwarded'
  BY TablesStep, RoutingStep, StrangersStep DEF Inv
<1> QED
  BY <1>1, <1>2, PTL DEF Spec

-----------------------------------------------------------------------------
(* The last source stops the worker.                                       *)

\* A lookup leaves a null pointer nowhere but under 0.
NullsAtZero == \A id \in ListId : management[id] = Null => id = 0

\* An operation that changes entries of lists alone, and leaves lists there.
LEMMA NullsKept ==
    ASSUME NullsAtZero, KeepsSources,
           \A j \in ListId : ~ IsList(j) => management'[j] = management[j]
    PROVE  NullsAtZero'
BY DEF NullsAtZero, KeepsSources, IsList

LEMMA NullsStep ==
    ASSUME FreshSrcIds, 0 \notin SrcId, Inv, NullsAtZero, [Next]_vars
    PROVE  NullsAtZero'
<1>0. Tables /\ TypeOK /\ RoutingExact /\ SrcId \subseteq ListId
  BY DEF Inv, Tables, ListId
<1>1. CASE \E id \in SrcId, a \in Addr : addSource(id, a)
  <2>1. PICK id \in SrcId, a \in Addr : addSource(id, a)
    BY <1>1
  <2>2. management' = [management EXCEPT ![id] = [src |-> a, dests |-> << >>]]
    BY <2>1 DEF addSource, addStreamList
  <2>3. [src |-> a, dests |-> << >>] \in List
    BY EmptySeq DEF List
  <2>4. [src |-> a, dests |-> << >>] # Null
    BY <2>3, WorkerAssumption
  <2> QED
    BY <1>0, <2>2, <2>4 DEF NullsAtZero, TypeOK
<1>2. CASE \E a \in Addr : addSource_fails(a)
  BY <1>2 DEF addSource_fails, tables, NullsAtZero
<1>3. CASE \E id \in SrcId : removeSource(id)
  <2>1. PICK id \in SrcId : management' = [management EXCEPT ![id] = Absent]
    BY <1>3 DEF removeSource, removeStreamList
  <2>2. Absent # Null
    BY WorkerAssumption
  <2> QED
    BY <1>0, <2>1, <2>2 DEF NullsAtZero, TypeOK
<1>4. CASE \E id \in SrcId, d \in UdpStream : addDest(id, d)
  BY <1>0, <1>4, addDestStep, NullsKept DEF addDest, addStreamList, TypeOK
<1>5. CASE \E id \in SrcId, did \in DestId : removeDest(id, did)
  BY <1>0, <1>5, removeDestStep, NullsKept DEF removeDest, addStreamList, TypeOK
<1>6. CASE \E from, to \in SrcId : conmuteStreamList(from, to)
  BY <1>0, <1>6, conmuteStreamListStep, NullsKept DEF conmuteStreamList, TypeOK
<1>7. CASE \E from, to \in SrcId, did \in DestId : conmuteUdpStream(did, from, to)
  BY <1>0, <1>7, conmuteUdpStreamStep, NullsKept DEF conmuteUdpStream, TypeOK
<1>8. CASE \E ip \in IP, p \in Port : process(ip, p)
  <2>1. PICK ip \in IP, p \in Port : process(ip, p)
    BY <1>8
  <2> DEFINE a == <<ip, fdPort[portFd[p]]>>
             id == forwarding[a]
  <2>2. portFd[p] # NoFd
    BY <2>1 DEF process
  <2>3. a \in Addr /\ id \in ListId
    BY <1>0, <2>2 DEF Tables, TypeOK, SocketsExact, Addr
  <2>4. UNCHANGED management
        \/ (~ IsList(id) /\ management' = [management EXCEPT ![id] = Null])
    BY <2>1 DEF process
  <2> HIDE DEF a, id
  <2>5. ~ IsList(id) => id = 0
    BY <1>0, <2>3 DEF RoutingExact, id
  <2> QED
    BY <1>0, <2>3, <2>4, <2>5 DEF NullsAtZero, TypeOK
<1>9. CASE UNCHANGED vars
  BY <1>9 DEF vars, tables, NullsAtZero
<1> QED
  BY <1>1, <1>2, <1>3, <1>4, <1>5, <1>6, <1>7, <1>8, <1>9 DEF Next

\* Only removeSource takes the last list.
LEMMA StopStep ==
    ASSUME Inv, NullsAtZero, [Next]_vars
    PROVE  Lists # {} /\ Lists' = {} /\ management[0] # Null => ~ working'
<1>0. Tables /\ TypeOK /\ SrcId \subseteq ListId
  BY DEF Inv, Tables, ListId
<1> SUFFICES ASSUME Lists # {}, Lists' = {}, management[0] # Null
             PROVE  ~ working'
  OBVIOUS
<1>1. PICK l \in ListId : IsList(l) /\ ~ IsList(l)'
  BY DEF Lists
<1>2. CASE \E id \in SrcId : removeSource(id)
  <2>1. PICK id \in SrcId : removeSource(id)
    BY <1>2
  <2>2. management' = [management EXCEPT ![id] = Absent]
    BY <2>1 DEF removeSource, removeStreamList
  <2>3. ASSUME NEW j \in ListId PROVE management'[j] = Absent
    <3>1. ~ IsList(j)'
      BY DEF Lists
    <3>2. management[j] # Null
      BY DEF NullsAtZero
    <3> QED
      BY <1>0, <2>2, <3>1, <3>2 DEF IsList, TypeOK
  <2>4. isEmpty'
    BY <2>3 DEF isEmpty
  <2> QED
    BY <2>1, <2>4 DEF removeSource
<1>3. CASE ~ \E id \in SrcId : removeSource(id)
  <2>1. ASSUME KeepsSources PROVE FALSE
    BY <1>1, <2>1 DEF KeepsSources
  <2>2. ASSUME UNCHANGED management PROVE FALSE
    BY <1>1, <2>2 DEF IsList
  <2>3. ASSUME NEW id \in SrcId, NEW a \in Addr, addSource(id, a) PROVE FALSE
    <3>1. management' = [management EXCEPT ![id] = [src |-> a, dests |-> << >>]]
      BY <2>3 DEF addSource, addStreamList
    <3>2. [src |-> a, dests |-> << >>] \in List
      BY EmptySeq DEF List
    <3>3. [src |-> a, dests |-> << >>] \notin {Absent, Null}
      BY <3>2, WorkerAssumption
    <3> QED
      BY <1>0, <1>1, <3>1, <3>3 DEF IsList, TypeOK
  <2>4. ~ \E a \in Addr : addSource_fails(a)
    BY <2>2 DEF addSource_fails, tables
  <2>5. ~ UNCHANGED vars
    BY <2>2 DEF vars, tables
  <2>6. CASE \E id \in SrcId, d \in UdpStream : addDest(id, d)
    BY <1>0, <2>1, <2>6, addDestStep
  <2>7. CASE \E id \in SrcId, did \in DestId : removeDest(id, did)
    BY <1>0, <2>1, <2>7, removeDestStep
  <2>8. CASE \E from, to \in SrcId : conmuteStreamList(from, to)
    BY <1>0, <2>1, <2>8, conmuteStreamListStep
  <2>9. CASE \E from, to \in SrcId, did \in DestId : conmuteUdpStream(did, from, to)
    BY <1>0, <2>1, <2>9, conmuteUdpStreamStep
  <2>10. CASE \E ip \in IP, p \in Port : process(ip, p)
    BY <1>0, <2>1, <2>10, processStep
  <2> QED
    BY <1>3, <2>3, <2>4, <2>5, <2>6, <2>7, <2>8, <2>9, <2>10 DEF Next
<1> QED
  BY <1>2, <1>3

\* When no identifier is used twice or is 0, removing the last source stops the worker
\* unless a stranger's datagram has left a null pointer under 0: no other lookup
\* leaves a key behind that isEmpty() counts (Worker::removeSource, getStreamList).
THEOREM StopTheorem ==
    ASSUME FreshSrcIds, 0 \notin SrcId
    PROVE  Spec => LastSourceStopsWorker
<1>1. Init => Inv /\ NullsAtZero
  <2>1. Init => RoutingExact
    BY DEF Init, RoutingExact, Lists, IsList
  <2>2. Init => NullsAtZero
    BY WorkerAssumption DEF Init, NullsAtZero
  <2> QED
    BY <2>1, <2>2, TablesInit DEF Inv
<1>2. Inv /\ NullsAtZero /\ [Next]_vars => Inv' /\ NullsAtZero'
  BY TablesStep, RoutingStep, NullsStep DEF Inv
<1>3. Inv /\ NullsAtZero /\ [Next]_vars
        => [Lists # {} /\ Lists' = {} /\ management[0] # Null => ~ working']_vars
  BY StopStep
<1> QED
  BY <1>1, <1>2, <1>3, PTL DEF Spec, LastSourceStopsWorker

-----------------------------------------------------------------------------
(* Worker implements Reflector.                                            *)

\* The route of an identifier is its list, read as a set.
LEMMA RouteOfList ==
    ASSUME TypeOK, NEW id \in SrcId
    PROVE  /\ R!Registered(id) <=> IsList(id)
           /\ IsList(id) =>
                /\ routes[id] = [src |-> management[id].src,
                                 dests |-> ToSet(management[id].dests)]
                /\ routes[id] \in R!Route
                /\ routes[id].src = management[id].src
                /\ routes[id].dests = ToSet(management[id].dests)
           /\ ~ IsList(id) => routes[id] = Absent
<1>1. id \in ListId
  BY DEF ListId
<1>2. routes[id] = IF IsList(id)
                   THEN [src |-> management[id].src, dests |-> ToSet(management[id].dests)]
                   ELSE Absent
  BY DEF routes
<1>3. IsList(id) => [src |-> management[id].src, dests |-> ToSet(management[id].dests)]
                        \in [src : Addr, dests : SUBSET UdpStream]
  <2> SUFFICES ASSUME IsList(id)
               PROVE  ToSet(management[id].dests) \in SUBSET UdpStream
    BY <1>1, ListIsRecord
  <2> QED
    BY <1>1, ListIsRecord, LenProperties, ElementOfSeq DEF ToSet
<1> QED
  BY <1>2, <1>3, WorkerAssumption DEF R!Registered, R!Route

\* When the list of one identifier only is replaced, so is its route only.
LEMMA OneRoute ==
    ASSUME TypeOK, NEW id \in ListId, NEW l,
           management' = [management EXCEPT ![id] = l]
    PROVE  /\ l = Absent =>
                routes' = [j \in SrcId |-> IF j = id THEN Absent ELSE routes[j]]
           /\ l \notin {Absent, Null} =>
                routes' = [j \in SrcId |->
                            IF j = id THEN [src |-> l.src, dests |-> ToSet(l.dests)]
                            ELSE routes[j]]
<1>1. \A j \in ListId : management'[j] = IF j = id THEN l ELSE management[j]
  BY DEF TypeOK
<1>2. SrcId \subseteq ListId
  BY DEF ListId
<1> QED
  BY <1>1, <1>2 DEF routes, IsList

\* addSource is Register.
LEMMA addSourceRegisters ==
    ASSUME FreshSrcIds, Inv, NEW id \in SrcId, NEW a \in Addr, addSource(id, a)
    PROVE  R!Register(id, a)
<1>0. TypeOK /\ RoutingExact /\ 0 \notin Lists
  BY DEF Inv, Tables, RoutingExact
<1> DEFINE l == [src |-> a, dests |-> << >>]
<1>1. /\ ~ IsList(id)
      /\ id \in ListId
      /\ forwarding[a] = 0
      /\ management' = [management EXCEPT ![id] = l]
      /\ out' = NoPacket
  BY DEF addSource, addStreamList, ListId
<1>2. l \in List /\ l.src = a /\ ToSet(l.dests) = {}
  BY EmptySeq DEF List, ToSet
<1>3. l \notin {Absent, Null}
  BY <1>2, WorkerAssumption
<1> HIDE DEF l
<1>4. routes' = [j \in SrcId |-> IF j = id THEN [src |-> a, dests |-> {}] ELSE routes[j]]
  BY <1>0, <1>1, <1>2, <1>3, OneRoute, ZenonT(60)
<1>5. routes' = [routes EXCEPT ![id] = [src |-> a, dests |-> {}]]
  BY <1>4 DEF routes
<1>6. ASSUME NEW i \in SrcId, R!Registered(i)
      PROVE  routes[i].src # a
  <2>1. IsList(i) /\ routes[i].src = management[i].src
    BY <1>0, <1>6, RouteOfList
  <2>2. i # 0 /\ forwarding[management[i].src] = i
    BY <1>0, <2>1 DEF RoutingExact, Lists, ListId
  <2> QED
    BY <1>1, <2>1, <2>2
<1>7. ~ R!Registered(id)
  BY <1>0, <1>1, RouteOfList
<1>8. sent' = NoPacket
  BY <1>1 DEF sent
<1> QED
  BY <1>5, <1>6, <1>7, <1>8 DEF R!Register

\* removeSource is Unregister.
LEMMA removeSourceUnregisters ==
    ASSUME Inv, NEW id \in SrcId, removeSource(id)
    PROVE  R!Unregister(id)
<1>0. TypeOK
  BY DEF Inv, Tables
<1>1. /\ IsList(id)
      /\ id \in ListId
      /\ management' = [management EXCEPT ![id] = Absent]
      /\ out' = NoPacket
  BY DEF removeSource, removeStreamList, ListId
<1>2. routes' = [j \in SrcId |-> IF j = id THEN Absent ELSE routes[j]]
  BY <1>0, <1>1, OneRoute
<1>3. routes' = [routes EXCEPT ![id] = Absent]
  BY <1>2 DEF routes
<1> QED
  BY <1>0, <1>1, <1>3, RouteOfList DEF R!Unregister, sent

\* Replacing the destinations of one list replaces those of one route.
LEMMA OneListRoute ==
    ASSUME TypeOK, NEW id \in SrcId, IsList(id), NEW ds \in Seq(UdpStream),
           management' = [management EXCEPT ![id] = [management[id] EXCEPT !.dests = ds]]
    PROVE  routes' = [routes EXCEPT ![id].dests = ToSet(ds)]
<1> DEFINE l == [management[id] EXCEPT !.dests = ds]
<1>1. id \in ListId
  BY DEF ListId
<1>2. l \in List /\ l.src = management[id].src /\ l.dests = ds
  BY <1>1, ListIsRecord, DestsReplaced
<1>3. l \notin {Absent, Null}
  BY <1>2, WorkerAssumption
<1> HIDE DEF l
<1>4. routes' = [j \in SrcId |-> IF j = id
                                 THEN [src |-> management[id].src, dests |-> ToSet(ds)]
                                 ELSE routes[j]]
  <2>1. management' = [management EXCEPT ![id] = l]
    BY DEF l
  <2>2. routes' = [j \in SrcId |->
                    IF j = id THEN [src |-> l.src, dests |-> ToSet(l.dests)] ELSE routes[j]]
    BY <1>1, <1>3, <2>1, OneRoute, Zenon
  <2>3. [src |-> l.src, dests |-> ToSet(l.dests)]
          = [src |-> management[id].src, dests |-> ToSet(ds)]
    BY <1>2
  <2> QED
    BY <2>2, <2>3, Zenon
<1>5. routes[id] = [src |-> management[id].src, dests |-> ToSet(management[id].dests)]
  BY RouteOfList
<1>6. [routes[id] EXCEPT !.dests = ToSet(ds)]
        = [src |-> management[id].src, dests |-> ToSet(ds)]
  BY <1>5
<1> QED
  BY <1>4, <1>6 DEF routes

\* addDestination is Attach.
LEMMA addDestAttaches ==
    ASSUME Inv, NEW id \in SrcId, NEW d \in UdpStream, addDest(id, d)
    PROVE  R!Attach(id, d)
<1>0. TypeOK
  BY DEF Inv, Tables
<1> DEFINE old == management[id].dests
           ds == addDestination(old, d)
<1>1. /\ IsList(id)
      /\ id \in ListId
      /\ ~ existDestination(old, d.id)
      /\ management' = [management EXCEPT ![id] = [management[id] EXCEPT !.dests = ds]]
      /\ out' = NoPacket
  BY DEF addDest, addStreamList, ListId
<1>2. old \in Seq(UdpStream)
  BY <1>0, <1>1, ListIsRecord
<1> HIDE DEF old
<1>3. ds \in Seq(UdpStream) /\ ToSet(ds) = ToSet(old) \cup {d}
  BY <1>1, <1>2, addDestinationCorrect
<1>4. R!Registered(id) /\ routes[id].dests = ToSet(old)
  BY <1>0, <1>1, RouteOfList DEF old
<1>5. \A e \in ToSet(old) : e.id # d.id
  BY <1>1, <1>2, LenProperties DEF existDestination, ToSet
<1> HIDE DEF ds
<1>6. routes' = [routes EXCEPT ![id].dests = ToSet(ds)]
  BY <1>0, <1>1, <1>3, OneListRoute
<1>7. sent' = NoPacket
  BY <1>1 DEF sent
<1> QED
  BY <1>3, <1>4, <1>5, <1>6, <1>7 DEF R!Attach

\* removeDestination is Detach, because a list never repeats an id.
LEMMA removeDestDetaches ==
    ASSUME Inv, NEW id \in SrcId, NEW did \in DestId, removeDest(id, did)
    PROVE  R!Detach(id, did)
<1>0. TypeOK /\ DestinationsUnique
  BY DEF Inv, Tables
<1> DEFINE old == management[id].dests
           ds == remDestination(old, did)
<1>1. /\ IsList(id)
      /\ id \in ListId
      /\ existDestination(old, did)
      /\ management' = [management EXCEPT ![id] = [management[id] EXCEPT !.dests = ds]]
      /\ out' = NoPacket
  BY DEF removeDest, addStreamList, ListId
<1>2. old \in Seq(UdpStream) /\ UniqueIdsIn(old)
  BY <1>0, <1>1, ListIsRecord DEF DestinationsUnique, Lists
<1> HIDE DEF old
<1>3. ds \in Seq(UdpStream) /\ ToSet(ds) = {d \in ToSet(old) : d.id # did}
  BY <1>1, <1>2, remDestinationCorrect
<1>4. R!Registered(id) /\ routes[id].dests = ToSet(old)
  BY <1>0, <1>1, RouteOfList DEF old
<1> HIDE DEF ds
<1>5. routes' = [routes EXCEPT ![id].dests = ToSet(ds)]
  BY <1>0, <1>1, <1>3, OneListRoute
<1>6. sent' = NoPacket
  BY <1>1 DEF sent
<1> QED
  BY <1>3, <1>4, <1>5, <1>6 DEF R!Detach

\* Replacing the destinations of a route.
LEMMA RouteReplaced ==
    ASSUME NEW r \in R!Route, NEW new
    PROVE  [r EXCEPT !.dests = new] = [src |-> r.src, dests |-> new]
BY DEF R!Route

\* conmuteStreamList is Transfer, from a list to itself included.
LEMMA conmuteStreamListTransfers ==
    ASSUME Inv, NEW from \in SrcId, NEW to \in SrcId, conmuteStreamList(from, to)
    PROVE  R!Transfer(from, to)
<1>0. TypeOK
  BY DEF Inv, Tables
<1>1. /\ IsList(from) /\ IsList(to)
      /\ from \in ListId /\ to \in ListId
      /\ out' = NoPacket
  BY DEF conmuteStreamList, ListId
<1>2. /\ management[from] \in List /\ management[to] \in List
      /\ management[from].dests \in Seq(UdpStream) /\ << >> \in Seq(UdpStream)
  BY <1>0, <1>1, ListIsRecord, EmptySeq
<1>3. \A j \in ListId :
        management'[j] = IF j = from THEN [management[from] EXCEPT !.dests = << >>]
                         ELSE IF j = to THEN [management[to] EXCEPT !.dests = management[from].dests]
                         ELSE management[j]
  <2>1. management' = [management EXCEPT ![to].dests = management[from].dests,
                                         ![from].dests = << >>]
    BY DEF conmuteStreamList
  <2>2. CASE from = to
    BY <1>0, <1>1, <1>2, <2>1, <2>2 DEF TypeOK, List
  <2>3. CASE from # to
    BY <1>0, <1>1, <2>1, <2>3 DEF TypeOK
  <2> QED
    BY <2>2, <2>3
<1>4. \A j \in SrcId : routes'[j] =
        IF j = from THEN [src |-> management[from].src, dests |-> {}]
        ELSE IF j = to
             THEN [src |-> management[to].src, dests |-> ToSet(management[from].dests)]
        ELSE routes[j]
  <2> SUFFICES ASSUME NEW j \in SrcId
               PROVE  routes'[j] =
        IF j = from THEN [src |-> management[from].src, dests |-> {}]
        ELSE IF j = to
             THEN [src |-> management[to].src, dests |-> ToSet(management[from].dests)]
        ELSE routes[j]
    OBVIOUS
  <2>1. /\ j \in ListId
        /\ routes'[j] = IF IsList(j)'
                        THEN [src |-> management'[j].src, dests |-> ToSet(management'[j].dests)]
                        ELSE Absent
    BY DEF routes, ListId
  <2>2. CASE j = from
    <3>1. management'[j] = [management[from] EXCEPT !.dests = << >>]
      BY <1>1, <1>3, <2>2
    <3>2. /\ management'[j] \in List
          /\ management'[j].src = management[from].src
          /\ management'[j].dests = << >>
      <4>1. /\ [management[from] EXCEPT !.dests = << >>] \in List
            /\ [management[from] EXCEPT !.dests = << >>].src = management[from].src
            /\ [management[from] EXCEPT !.dests = << >>].dests = << >>
        BY <1>2, DestsReplaced, Zenon
      <4> QED
        BY <3>1, <4>1
    <3>3. ToSet(management'[j].dests) = {}
      BY <3>2 DEF ToSet
    <3> QED
      BY <2>1, <2>2, <3>2, <3>3, WorkerAssumption DEF IsList
  <2>3. CASE j # from /\ j = to
    <3>1. management'[j] = [management[to] EXCEPT !.dests = management[from].dests]
      BY <1>1, <1>3, <2>3
    <3>2. /\ management'[j] \in List
          /\ management'[j].src = management[to].src
          /\ management'[j].dests = management[from].dests
      <4>1. /\ [management[to] EXCEPT !.dests = management[from].dests] \in List
            /\ [management[to] EXCEPT !.dests = management[from].dests].src
                 = management[to].src
            /\ [management[to] EXCEPT !.dests = management[from].dests].dests
                 = management[from].dests
        BY <1>2, DestsReplaced, Zenon
      <4> QED
        BY <3>1, <4>1
    <3> QED
      BY <2>1, <2>3, <3>2, WorkerAssumption DEF IsList
  <2>4. CASE j # from /\ j # to
    BY <1>3, <2>1, <2>4 DEF routes, IsList
  <2> QED
    BY <2>2, <2>3, <2>4
<1>5. /\ routes[from] = [src |-> management[from].src, dests |-> ToSet(management[from].dests)]
      /\ routes[to] = [src |-> management[to].src, dests |-> ToSet(management[to].dests)]
      /\ routes[from].dests = ToSet(management[from].dests)
      /\ routes[from] \in R!Route /\ routes[to] \in R!Route
      /\ R!Registered(from) /\ R!Registered(to)
  BY <1>0, <1>1, RouteOfList
<1>6. routes' = [routes EXCEPT ![to].dests = routes[from].dests, ![from].dests = {}]
  <2> DEFINE new == [routes EXCEPT ![to].dests = routes[from].dests, ![from].dests = {}]
  <2>1. /\ routes' = [j \in SrcId |-> routes'[j]]
        /\ new = [j \in SrcId |-> new[j]]
    BY DEF routes
  <2>2. \A j \in SrcId : new[j] = routes'[j]
    <3>1. \A j \in SrcId :
            new[j] = IF j = from THEN [src |-> routes[from].src, dests |-> {}]
                     ELSE IF j = to THEN [src |-> routes[to].src, dests |-> routes[from].dests]
                     ELSE routes[j]
      <4>1. /\ [routes[from] EXCEPT !.dests = {}] = [src |-> routes[from].src, dests |-> {}]
            /\ [routes[to] EXCEPT !.dests = routes[from].dests]
                 = [src |-> routes[to].src, dests |-> routes[from].dests]
            /\ [[routes[from] EXCEPT !.dests = routes[from].dests] EXCEPT !.dests = {}]
                 = [src |-> routes[from].src, dests |-> {}]
        <5>1. [routes[from] EXCEPT !.dests = {}] = [src |-> routes[from].src, dests |-> {}]
          BY <1>5, RouteReplaced
        <5>2. [routes[to] EXCEPT !.dests = routes[from].dests]
                = [src |-> routes[to].src, dests |-> routes[from].dests]
          BY <1>5, RouteReplaced
        <5>3. [routes[from] EXCEPT !.dests = routes[from].dests] = routes[from]
          BY <1>5
        <5> QED
          BY <5>1, <5>2, <5>3, Zenon
      <4>2. DOMAIN routes = SrcId
        BY DEF routes
      <4>3. CASE from = to
        BY <4>1, <4>2, <4>3
      <4>4. CASE from # to
        BY <4>1, <4>2, <4>4
      <4> QED
        BY <4>3, <4>4
    <3>2. /\ routes[from].src = management[from].src
          /\ routes[to].src = management[to].src
      BY <1>5
    <3> QED
      BY <1>4, <1>5, <3>1, <3>2
  <2> HIDE DEF new
  <2>3. routes' = new
    BY <2>1, <2>2, Zenon
  <2> QED
    BY <2>3 DEF new
<1>7. sent' = NoPacket
  BY <1>1 DEF sent
<1> QED
  BY <1>5, <1>6, <1>7 DEF R!Transfer

\* conmuteUdpStream is Attach on the target, or nothing when it has the id.
LEMMA conmuteUdpStreamAttaches ==
    ASSUME Inv, NEW from \in SrcId, NEW to \in SrcId, NEW did \in DestId,
           conmuteUdpStream(did, from, to)
    PROVE  R!Refuse \/ \E d \in UdpStream : R!Attach(to, d)
<1>0. TypeOK
  BY DEF Inv, Tables
<1> DEFINE old == management[to].dests
           d == getDestination(management[from].dests, did)
           ds == addDestination(old, d)
<1>1. /\ IsList(from) /\ IsList(to)
      /\ from \in ListId /\ to \in ListId
      /\ existDestination(management[from].dests, did)
      /\ management' = [management EXCEPT ![to] = [management[to] EXCEPT !.dests = ds]]
      /\ out' = NoPacket
  BY DEF conmuteUdpStream, ListId
<1>2. old \in Seq(UdpStream) /\ d \in UdpStream
  BY <1>0, <1>1, ListIsRecord, getDestinationCorrect
<1>3. R!Registered(to) /\ routes[to].dests = ToSet(old)
  BY <1>0, <1>1, RouteOfList
<1> HIDE DEF old, d
<1>4. /\ ds \in Seq(UdpStream)
      /\ existDestination(old, d.id) => ds = old
      /\ ~ existDestination(old, d.id) => ToSet(ds) = ToSet(old) \cup {d}
  BY <1>2, addDestinationCorrect
<1> HIDE DEF ds
<1>5. routes' = [routes EXCEPT ![to].dests = ToSet(ds)]
  BY <1>0, <1>1, <1>4, OneListRoute
<1>6. sent' = NoPacket
  BY <1>1 DEF sent
<1>7. CASE existDestination(old, d.id)
  <2>1. routes' = routes
    <3>1. routes[to] = [src |-> management[to].src, dests |-> ToSet(old)]
      BY <1>0, <1>1, RouteOfList DEF old
    <3>2. [routes[to] EXCEPT !.dests = ToSet(old)] = routes[to]
      BY <3>1
    <3> QED
      BY <1>4, <1>5, <1>7, <3>2 DEF routes
  <2> QED
    BY <1>6, <2>1 DEF R!Refuse
<1>8. CASE ~ existDestination(old, d.id)
  <2>1. \A e \in ToSet(old) : e.id # d.id
    BY <1>2, <1>8, LenProperties DEF existDestination, ToSet
  <2>2. R!Attach(to, d)
    BY <1>3, <1>4, <1>5, <1>6, <1>8, <2>1 DEF R!Attach
  <2> QED
    BY <1>2, <2>2
<1> QED
  BY <1>7, <1>8

\* A datagram is reflected to the destinations of the route its sender has.
LEMMA processReflects ==
    ASSUME 0 \notin SrcId, Inv, NEW ip \in IP, NEW p \in Port, process(ip, p)
    PROVE  \E a \in Addr : R!Reflect(a)
<1>0. Tables /\ TypeOK /\ RoutingExact /\ SocketsExact
  BY DEF Inv, Tables
<1> DEFINE a == <<ip, fdPort[portFd[p]]>>
           id == forwarding[a]
           Senders == {j \in SrcId : R!Registered(j) /\ routes[j].src = a}
           to == UNION {routes[j].dests : j \in Senders}
<1>1. a \in Addr /\ id \in ListId
  BY <1>0 DEF process, TypeOK, SocketsExact, Addr
<1>2. \/ IsList(id) /\ out' = [from |-> a, to |-> management[id].dests] /\ UNCHANGED management
      \/ ~ IsList(id) /\ out' = [from |-> a, to |-> << >>]
                      /\ management' = [management EXCEPT ![id] = Null]
  BY DEF process
<1> HIDE DEF a
<1>3. \A j \in Senders : IsList(j) /\ j = id
  <2> SUFFICES ASSUME NEW j \in SrcId, R!Registered(j), routes[j].src = a
               PROVE  IsList(j) /\ j = id
    OBVIOUS
  <2>1. IsList(j) /\ management[j].src = a
    BY <1>0, RouteOfList
  <2> QED
    BY <1>0, <2>1 DEF RoutingExact, Lists, ListId
<1>4. UNCHANGED routes
  <2>1. \A j \in ListId : /\ IsList(j)' <=> IsList(j)
                          /\ IsList(j) => management'[j] = management[j]
    BY <1>0, <1>1, <1>2 DEF TypeOK, IsList
  <2> QED
    BY <2>1 DEF routes, ListId
<1>5. sent' = [from |-> a, to |-> to]
  <2>1. CASE IsList(id)
    <3>1. id \in SrcId /\ management[id].src = a /\ management[id].dests \in Seq(UdpStream)
      BY <1>0, <1>1, <2>1, ListIsRecord DEF RoutingExact, Lists, ListId
    <3>2. R!Registered(id) /\ routes[id].src = a /\ routes[id].dests = ToSet(management[id].dests)
      BY <1>0, <2>1, <3>1, RouteOfList
    <3>3. Senders = {id}
      BY <1>3, <3>1, <3>2
    <3>4. to = ToSet(management[id].dests)
      BY <3>2, <3>3
    <3>5. out' = [from |-> a, to |-> management[id].dests]
      BY <1>2, <2>1
    <3>6. out' # NoPacket
      BY <1>1, <3>1, <3>5, SentIsOut
    <3>7. sent' = [from |-> out'.from, to |-> ToSet(out'.to)]
      BY <3>6 DEF sent
    <3> HIDE DEF to
    <3> QED
      BY <3>4, <3>5, <3>7
  <2>2. CASE ~ IsList(id)
    <3>1. Senders = {}
      BY <1>3, <2>2
    <3>2. to = {}
      BY <3>1
    <3>3. out' = [from |-> a, to |-> << >>] /\ << >> \in Seq(UdpStream)
      BY <1>2, <2>2, EmptySeq
    <3>4. out' # NoPacket
      BY <1>1, <3>3, SentIsOut
    <3>5. sent' = [from |-> out'.from, to |-> ToSet(out'.to)]
      BY <3>4 DEF sent
    <3>6. out'.from = a /\ out'.to = << >>
      BY <3>3
    <3>7. ToSet(<< >>) = {}
      BY DEF ToSet
    <3> HIDE DEF to
    <3> QED
      BY <3>2, <3>5, <3>6, <3>7
  <2> QED
    BY <2>1, <2>2
<1>6. R!Reflect(a)
  BY <1>4, <1>5 DEF R!Reflect
<1> QED
  BY <1>1, <1>6

\* Every step of a worker is a step of the reflector or changes nothing of it.
LEMMA ReflectorStep ==
    ASSUME FreshSrcIds, 0 \notin SrcId, Inv, [Next]_vars
    PROVE  [R!Next]_(R!vars)
<1>1. ASSUME NEW id \in SrcId, NEW a \in Addr, addSource(id, a)
      PROVE  R!Next
  BY <1>1, addSourceRegisters DEF R!Next
<1>2. ASSUME NEW a \in Addr, addSource_fails(a)
      PROVE  R!Next
  <2>1. UNCHANGED routes /\ sent' = NoPacket
    BY <1>2 DEF addSource_fails, tables, routes, IsList, sent
  <2> QED
    BY <2>1 DEF R!Next, R!Refuse
<1>3. ASSUME NEW id \in SrcId, removeSource(id)
      PROVE  R!Next
  BY <1>3, removeSourceUnregisters DEF R!Next
<1>4. ASSUME NEW id \in SrcId, NEW d \in UdpStream, addDest(id, d)
      PROVE  R!Next
  BY <1>4, addDestAttaches DEF R!Next
<1>5. ASSUME NEW id \in SrcId, NEW did \in DestId, removeDest(id, did)
      PROVE  R!Next
  <2>1. R!Detach(id, did)
    BY <1>5, removeDestDetaches
  <2>2. existDestination(management[id].dests, did) /\ IsList(id) /\ id \in ListId
    BY <1>5 DEF removeDest, ListId
  <2>3. PICK d \in UdpStream : d.id = did
    <3>1. management[id].dests \in Seq(UdpStream)
      BY <2>2, ListIsRecord DEF Inv, Tables
    <3> QED
      BY <2>2, <3>1, getDestinationCorrect
  <2> QED
    BY <2>1, <2>3 DEF R!Next
<1>6. ASSUME NEW from \in SrcId, NEW to \in SrcId, conmuteStreamList(from, to)
      PROVE  R!Next
  BY <1>6, conmuteStreamListTransfers DEF R!Next
<1>7. ASSUME NEW from \in SrcId, NEW to \in SrcId, NEW did \in DestId,
             conmuteUdpStream(did, from, to)
      PROVE  R!Next
  BY <1>7, conmuteUdpStreamAttaches DEF R!Next
<1>8. ASSUME NEW ip \in IP, NEW p \in Port, process(ip, p)
      PROVE  R!Next
  BY <1>8, processReflects DEF R!Next
<1>9. CASE UNCHANGED vars
  BY <1>9 DEF vars, tables, routes, sent, IsList, R!vars
<1> QED
  BY <1>1, <1>2, <1>3, <1>4, <1>5, <1>6, <1>7, <1>8, <1>9 DEF Next

\* With identifiers that are unique and not 0, a worker and all its tables behave
\* as the reflector does: each source its own address, its own destinations, and
\* every datagram to the destinations of its sender only.
THEOREM ImplementsTheorem ==
    ASSUME FreshSrcIds, 0 \notin SrcId
    PROVE  Spec => Implements
<1>1. Init => Inv
  <2>1. Init => RoutingExact
    BY DEF Init, RoutingExact, Lists, IsList
  <2> QED
    BY <2>1, TablesInit DEF Inv
<1>2. Inv /\ [Next]_vars => Inv'
  BY TablesStep, RoutingStep DEF Inv
<1>3. Init => R!Init
  BY DEF Init, R!Init, routes, sent, IsList, ListId
<1>4. Inv /\ [Next]_vars => [R!Next]_(R!vars)
  BY ReflectorStep
<1> QED
  BY <1>1, <1>2, <1>3, <1>4, PTL DEF Spec, Implements, R!Spec

-----------------------------------------------------------------------------
(* What the reflector promises, and through it every worker.               *)

LEMMA NoSuchRoute == Absent \notin R!Route
  BY WorkerAssumption DEF R!Route

\* A route with other destinations is a route of the same source.
LEMMA RouteKeepsSource ==
    ASSUME NEW r \in R!Route, NEW new \in SUBSET UdpStream
    PROVE  [r EXCEPT !.dests = new] \in R!Route /\ [r EXCEPT !.dests = new].src = r.src
BY DEF R!Route

\* A step that gives one source other destinations.
LEMMA DestsChanged ==
    ASSUME R!TypeOK, NEW id \in SrcId, R!Registered(id), NEW new \in SUBSET UdpStream,
           routes' = [routes EXCEPT ![id].dests = new]
    PROVE  /\ routes' \in [SrcId -> R!Route \cup {Absent}]
           /\ \A i \in SrcId : R!Registered(i)' <=> R!Registered(i)
           /\ \A i \in SrcId : R!Registered(i) => routes'[i].src = routes[i].src
<1>1. routes \in [SrcId -> R!Route \cup {Absent}]
  BY DEF R!TypeOK
<1>2. PICK r : r = [routes[id] EXCEPT !.dests = new]
  OBVIOUS
<1>3. routes[id] \in R!Route
  BY <1>1 DEF R!Registered
<1>4. r \in R!Route /\ r.src = routes[id].src
  BY <1>2, <1>3, RouteKeepsSource
<1>5. routes' = [routes EXCEPT ![id] = r]
  BY <1>2
<1>6. \A i \in SrcId : routes'[i] = IF i = id THEN r ELSE routes[i]
  BY <1>1, <1>5
<1>7. r # Absent
  BY <1>4, NoSuchRoute
<1> QED BY <1>1, <1>4, <1>5, <1>6, <1>7 DEF R!Registered

\* Sources that keep their addresses, or are removed, stay distinct.
LEMMA SourcesKept ==
    ASSUME R!SourcesDistinct,
           \A i \in SrcId : R!Registered(i)' => /\ R!Registered(i)
                                                /\ routes'[i].src = routes[i].src
    PROVE  R!SourcesDistinct'
BY DEF R!SourcesDistinct

LEMMA ReflectorInvStep ==
    ASSUME R!TypeOK, R!SourcesDistinct, [R!Next]_(R!vars)
    PROVE  R!TypeOK' /\ R!SourcesDistinct'
<1>1. routes \in [SrcId -> R!Route \cup {Absent}]
  BY DEF R!TypeOK
<1>2. ASSUME sent' = NoPacket,
             routes' \in [SrcId -> R!Route \cup {Absent}],
             \A i \in SrcId : R!Registered(i)' => /\ R!Registered(i)
                                                  /\ routes'[i].src = routes[i].src
      PROVE  R!TypeOK' /\ R!SourcesDistinct'
  BY <1>2, SourcesKept DEF R!TypeOK
<1>3. ASSUME NEW id \in SrcId, NEW a \in Addr, R!Register(id, a)
      PROVE  R!TypeOK' /\ R!SourcesDistinct'
  <2>1. PICK r : r = [src |-> a, dests |-> {}]
    OBVIOUS
  <2>2. r \in R!Route /\ r.src = a
    BY <2>1 DEF R!Route
  <2>3. /\ \A i \in SrcId : R!Registered(i) => routes[i].src # a
        /\ routes' = [routes EXCEPT ![id] = r]
        /\ sent' = NoPacket
    BY <1>3, <2>1 DEF R!Register
  <2>4. \A i \in SrcId : routes'[i] = IF i = id THEN r ELSE routes[i]
    BY <1>1, <2>3
  <2>5. R!TypeOK'
    BY <1>1, <2>2, <2>3 DEF R!TypeOK
  <2>6. R!SourcesDistinct'
    BY <2>2, <2>3, <2>4 DEF R!SourcesDistinct, R!Registered
  <2> QED BY <2>5, <2>6
<1>4. ASSUME NEW id \in SrcId, R!Unregister(id)
      PROVE  R!TypeOK' /\ R!SourcesDistinct'
  <2>1. routes' = [routes EXCEPT ![id] = Absent] /\ sent' = NoPacket
    BY <1>4 DEF R!Unregister
  <2>2. \A i \in SrcId : routes'[i] = IF i = id THEN Absent ELSE routes[i]
    BY <1>1, <2>1
  <2> QED BY <1>1, <1>2, <2>1, <2>2 DEF R!Registered
<1>5. ASSUME NEW id \in SrcId, R!Registered(id), NEW new \in SUBSET UdpStream,
             routes' = [routes EXCEPT ![id].dests = new], sent' = NoPacket
      PROVE  R!TypeOK' /\ R!SourcesDistinct'
  BY <1>2, <1>5, DestsChanged
<1>6. \A id \in SrcId : R!Registered(id) => routes[id].dests \in SUBSET UdpStream
  BY <1>1 DEF R!Registered, R!Route
<1>7. ASSUME NEW id \in SrcId, NEW d \in UdpStream, R!Attach(id, d)
      PROVE  R!TypeOK' /\ R!SourcesDistinct'
  <2>1. R!Registered(id) /\ routes[id].dests \cup {d} \in SUBSET UdpStream
    BY <1>6, <1>7 DEF R!Attach
  <2> QED BY <1>5, <1>7, <2>1 DEF R!Attach
<1>8. ASSUME NEW id \in SrcId, NEW did, R!Detach(id, did)
      PROVE  R!TypeOK' /\ R!SourcesDistinct'
  <2>1. R!Registered(id) /\ {d \in routes[id].dests : d.id # did} \in SUBSET UdpStream
    BY <1>6, <1>8 DEF R!Detach
  <2> QED BY <1>5, <1>8, <2>1 DEF R!Detach
<1>9. ASSUME NEW from \in SrcId, NEW to \in SrcId, R!Transfer(from, to)
      PROVE  R!TypeOK' /\ R!SourcesDistinct'
  <2>1. PICK mid : mid = [routes EXCEPT ![to].dests = routes[from].dests]
    OBVIOUS
  <2>2. /\ R!Registered(from) /\ R!Registered(to)
        /\ sent' = NoPacket
        /\ routes' = [mid EXCEPT ![from].dests = {}]
    BY <1>9, <2>1 DEF R!Transfer
  <2>3. PICK r : r = [routes[to] EXCEPT !.dests = routes[from].dests]
    OBVIOUS
  <2>4. r \in R!Route /\ r.src = routes[to].src
    BY <1>1, <1>6, <2>2, <2>3, RouteKeepsSource DEF R!Registered
  <2>5. /\ mid \in [SrcId -> R!Route \cup {Absent}]
        /\ \A i \in SrcId : mid[i] = IF i = to THEN r ELSE routes[i]
    BY <1>1, <2>1, <2>3, <2>4
  <2>6. mid[from] \in R!Route /\ mid[from].src = routes[from].src
    BY <1>1, <2>2, <2>4, <2>5 DEF R!Registered
  <2>7. PICK s : s = [mid[from] EXCEPT !.dests = {}]
    OBVIOUS
  <2>8. s \in R!Route /\ s.src = routes[from].src
    BY <2>6, <2>7, RouteKeepsSource
  <2>9. /\ routes' \in [SrcId -> R!Route \cup {Absent}]
        /\ \A i \in SrcId : routes'[i] = IF i = from THEN s ELSE mid[i]
    BY <2>2, <2>5, <2>7, <2>8
  <2>10. \A i \in SrcId : R!Registered(i)' => R!Registered(i) /\ routes'[i].src = routes[i].src
    BY <2>2, <2>4, <2>5, <2>8, <2>9 DEF R!Registered
  <2> QED BY <1>2, <2>2, <2>9, <2>10
<1>10. ASSUME NEW a \in Addr, R!Reflect(a)
       PROVE  R!TypeOK' /\ R!SourcesDistinct'
  <2>1. PICK to : to = UNION {routes[i].dests :
                              i \in {j \in SrcId : R!Registered(j) /\ routes[j].src = a}}
    OBVIOUS
  <2>2. to \subseteq UdpStream
    BY <1>6, <2>1
  <2>3. sent' = [from |-> a, to |-> to] /\ routes' = routes
    BY <1>10, <2>1 DEF R!Reflect
  <2>4. R!TypeOK'
    BY <1>1, <2>2, <2>3 DEF R!TypeOK
  <2> QED BY <2>3, <2>4 DEF R!SourcesDistinct, R!Registered
<1>11. CASE R!Refuse
  BY <1>11 DEF R!Refuse, R!TypeOK, R!SourcesDistinct, R!Registered
<1>12. CASE UNCHANGED R!vars
  BY <1>12 DEF R!vars, R!TypeOK, R!SourcesDistinct, R!Registered
<1> QED BY <1>3, <1>4, <1>7, <1>8, <1>9, <1>10, <1>11, <1>12 DEF R!Next

\* The reflector never has two sources of one address, so a datagram has one route.
THEOREM ReflectorTheorem == R!Spec => [](R!TypeOK /\ R!SourcesDistinct)
<1>1. R!Init => R!TypeOK /\ R!SourcesDistinct
  BY DEF R!Init, R!TypeOK, R!SourcesDistinct, R!Registered
<1>2. (R!TypeOK /\ R!SourcesDistinct) /\ [R!Next]_(R!vars) => (R!TypeOK /\ R!SourcesDistinct)'
  BY ReflectorInvStep
<1> QED BY <1>1, <1>2, PTL DEF R!Spec

\* The worker inherits it: no two of its lists are registered for one address.
THEOREM SourcesDistinctTheorem ==
    ASSUME FreshSrcIds, 0 \notin SrcId
    PROVE  Spec => []R!SourcesDistinct
<1>1. Spec => R!Spec
  BY ImplementsTheorem DEF Implements
<1> QED BY <1>1, ReflectorTheorem, PTL
=============================================================================
