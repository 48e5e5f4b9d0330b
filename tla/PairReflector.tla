--------------------------- MODULE PairReflector ----------------------------
(***************************************************************************)
(* What an RTCP worker promises, with none of its tables and with neither  *)
(* of the two lists of a source: a source is one address, its RTP port,    *)
(* and one set of destinations.  What comes from that port goes to the     *)
(* destinations, what comes from the next port goes to the next identifier *)
(* and port of each, and what anybody else sends goes to nobody.           *)
(* RtcpWorker implements this specification as long as its callers keep to *)
(* even ports and leave the next identifier free.                          *)
(***************************************************************************)
EXTENDS Integers

CONSTANTS
    Addr,       \* addresses, pairs of a host and a port
    SrcId,      \* identifiers of sources
    Dest,       \* destinations: records with an id and an addr, both numbers
    NoRoute,    \* value of an identifier no source is registered under
    Silent      \* nothing was reflected by the last step

VARIABLES
    route,      \* what is registered under each identifier
    out         \* the datagram reflected by the last step, and to whom

vars == <<route, out>>

\* The RTCP half of an address and of a destination.
Above(a) == <<a[1], a[2] + 1>>
Half(d) == [id |-> d.id + 1, addr |-> d.addr + 1]

Route == [src : Addr, dests : SUBSET Dest]

Registered(id) == route[id] # NoRoute

TypeOK == route \in [SrcId -> Route \cup {NoRoute}]

\* The two addresses of a source.
Ends(id) == {route[id].src, Above(route[id].src)}

\* No address belongs to two sources, neither both as an RTP address nor one as
\* the RTCP address of the other.
PairsDistinct ==
    \A i, j \in SrcId :
        Registered(i) /\ Registered(j) /\ Ends(i) \cap Ends(j) # {} => i = j

-----------------------------------------------------------------------------
Init ==
    /\ route = [id \in SrcId |-> NoRoute]
    /\ out = Silent

Register(id, a) ==
    /\ ~ Registered(id)
    /\ \A i \in SrcId : Registered(i) => {a, Above(a)} \cap Ends(i) = {}
    /\ route' = [route EXCEPT ![id] = [src |-> a, dests |-> {}]]
    /\ out' = Silent

Unregister(id) ==
    /\ Registered(id)
    /\ route' = [route EXCEPT ![id] = NoRoute]
    /\ out' = Silent

Attach(id, d) ==
    /\ Registered(id)
    /\ \A e \in route[id].dests : e.id # d.id
    /\ route' = [route EXCEPT ![id].dests = @ \cup {d}]
    /\ out' = Silent

Detach(id, d) ==
    /\ Registered(id)
    /\ route' = [route EXCEPT ![id].dests = {e \in @ : e.id # d.id}]
    /\ out' = Silent

ReflectRtp(id) ==
    /\ Registered(id)
    /\ out' = [from |-> route[id].src, to |-> route[id].dests]
    /\ UNCHANGED route

ReflectRtcp(id) ==
    /\ Registered(id)
    /\ out' = [from |-> Above(route[id].src), to |-> {Half(d) : d \in route[id].dests}]
    /\ UNCHANGED route

\* A datagram of nobody's.
Drop(a) ==
    /\ \A id \in SrcId : Registered(id) => a \notin Ends(id)
    /\ out' = [from |-> a, to |-> {}]
    /\ UNCHANGED route

\* An operation that is refused.
Refuse ==
    /\ out' = Silent
    /\ UNCHANGED route

Next ==
    \/ \E id \in SrcId : \/ \E a \in Addr : Register(id, a)
                         \/ Unregister(id)
                         \/ \E d \in Dest : Attach(id, d) \/ Detach(id, d)
                         \/ ReflectRtp(id) \/ ReflectRtcp(id)
    \/ \E a \in Addr : Drop(a)
    \/ Refuse

Spec == Init /\ [][Next]_vars
=============================================================================
