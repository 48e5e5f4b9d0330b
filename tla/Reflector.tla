----------------------------- MODULE Reflector ------------------------------
(***************************************************************************)
(* What a worker promises, with none of its tables: each registered source *)
(* has an address of its own and a set of destinations, and a datagram is  *)
(* reflected to the destinations of the one source it came from and to     *)
(* nobody else.  Worker implements this specification.                     *)
(***************************************************************************)
EXTENDS Integers

CONSTANTS
    Addr,       \* addresses a source may have
    SrcId,      \* identifiers of sources
    Dest,       \* destinations: records with an id field
    NoRoute,    \* value of an identifier no source is registered under
    Silent      \* nothing was reflected by the last step

VARIABLES
    route,      \* what is registered under each identifier
    out         \* the datagram reflected by the last step, and to whom

vars == <<route, out>>

Route == [src : Addr, dests : SUBSET Dest]

Registered(id) == route[id] # NoRoute

TypeOK ==
    /\ route \in [SrcId -> Route \cup {NoRoute}]
    /\ out \in [from : Addr, to : SUBSET Dest] \cup {Silent}

\* No two registered sources share an address.
SourcesDistinct ==
    \A i, j \in SrcId : /\ Registered(i)
                        /\ Registered(j)
                        /\ route[i].src = route[j].src
                        => i = j

-----------------------------------------------------------------------------
Init ==
    /\ route = [id \in SrcId |-> NoRoute]
    /\ out = Silent

Register(id, a) ==
    /\ ~ Registered(id)
    /\ \A i \in SrcId : Registered(i) => route[i].src # a
    /\ route' = [route EXCEPT ![id] = [src |-> a, dests |-> {}]]
    /\ out' = Silent

Unregister(id) ==
    /\ Registered(id)
    /\ route' = [route EXCEPT ![id] = NoRoute]
    /\ out' = Silent

Attach(id, d) ==
    /\ Registered(id)
    /\ \A e \in route[id].dests : e.id # d.id
    /\ route' = [route EXCEPT ![id].dests = @ \cup {d}]
    /\ out' = Silent

Detach(id, did) ==
    /\ Registered(id)
    /\ route' = [route EXCEPT ![id].dests = {d \in @ : d.id # did}]
    /\ out' = Silent

\* The destinations of one source replace those of another, then are cleared.
Transfer(from, to) ==
    /\ Registered(from)
    /\ Registered(to)
    /\ route' = [route EXCEPT ![to].dests = route[from].dests, ![from].dests = {}]
    /\ out' = Silent

Reflect(a) ==
    /\ out' = [from |-> a,
               to |-> UNION {route[i].dests : i \in {j \in SrcId : Registered(j) /\ route[j].src = a}}]
    /\ UNCHANGED route

\* An operation that is refused, or that changes no route.
Refuse ==
    /\ out' = Silent
    /\ UNCHANGED route

Next ==
    \/ \E id \in SrcId : \/ \E a \in Addr : Register(id, a)
                         \/ Unregister(id)
                         \/ \E d \in Dest : Attach(id, d) \/ Detach(id, d.id)
                         \/ \E to \in SrcId : Transfer(id, to)
    \/ \E a \in Addr : Reflect(a)
    \/ Refuse

Spec == Init /\ [][Next]_vars
=============================================================================
