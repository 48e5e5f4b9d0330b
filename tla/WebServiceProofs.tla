-------------------------- MODULE WebServiceProofs --------------------------
(***************************************************************************)
(* Proofs about WebService, for any number of connections, of parts of a   *)
(* request, of descriptors and of flows.  The inductive invariant has three*)
(* layers: the types with the count of descriptors, the identifiers of     *)
(* flows, and the life of a connection.                                    *)
(***************************************************************************)
EXTENDS WebService, FiniteSetTheorems, SequenceTheorems, TLAPS

-----------------------------------------------------------------------------
(* Types.                                                                  *)

USE DEF Events

\* What the requests change, and the descriptors it leaves.
FlowTypes ==
    /\ flowId \in First..(Last + 1)
    /\ sources \in [Id -> Source \cup {None}]
    /\ taken \in SUBSET SrcAddr
    /\ leaked \in Nat

FdsBounded == 1 + Cardinality(held) + Cardinality(taken) + leaked <= MaxFd

\* Sets of connections and of addresses are finite.
LEMMA FiniteFds ==
    ASSUME TypeOK
    PROVE  /\ IsFiniteSet(held) /\ Cardinality(held) \in Nat
           /\ IsFiniteSet(taken) /\ Cardinality(taken) \in Nat
           /\ leaked \in Nat /\ MaxFd \in Nat
<1>1. held \in SUBSET Conn /\ taken \in SUBSET SrcAddr /\ leaked \in Nat
  BY DEF TypeOK
<1>2. IsFiniteSet(held) /\ IsFiniteSet(taken)
  BY <1>1, FS_Subset, WebServiceAssumption
<1> QED
  BY <1>1, <1>2, FS_CardinalityType, WebServiceAssumption

\* A source that is added takes at most the descriptor that was free.
LEMMA managerAddSourceTypes ==
    ASSUME TypeOK, NEW id \in Id, NEW a \in SrcAddr, managerAddSource(id, a), held' = held
    PROVE  /\ sources' \in [Id -> Source \cup {None}]
           /\ taken' \in SUBSET SrcAddr
           /\ leaked' \in Nat
           /\ FdsBounded'
<1>0. sources \in [Id -> Source \cup {None}] /\ taken \in SUBSET SrcAddr /\ FdsBounded
  BY DEF TypeOK, FdsBounded
<1>1. CASE a \notin taken \cup Occupied /\ FreeFd
           /\ sources' = [sources EXCEPT ![id] = [addr |-> a, dests |-> {}]]
           /\ taken' = taken \cup {a} /\ UNCHANGED leaked
  <2>1. [addr |-> a, dests |-> {}] \in Source
    BY DEF Source
  <2>2. Cardinality(taken \cup {a}) = Cardinality(taken) + 1
    BY <1>1, FiniteFds, FS_AddElement
  <2>3. FdsBounded'
    BY <1>1, <2>2, FiniteFds DEF FdsBounded, FreeFd
  <2> QED
    BY <1>0, <1>1, <2>1, <2>3, FiniteFds
<1>2. CASE FreeFd /\ leaked' = leaked + 1 /\ UNCHANGED <<sources, taken>>
  BY <1>0, <1>2, FiniteFds DEF FdsBounded, FreeFd
<1>3. CASE UNCHANGED <<sources, taken, leaked>>
  BY <1>0, <1>3, FiniteFds DEF FdsBounded
<1> QED
  BY <1>1, <1>2, <1>3 DEF managerAddSource

\* Every operation of a request keeps the types.
LEMMA addSourceTypes ==
    ASSUME TypeOK, flowId <= Last, NEW id \in Id, NEW a \in SrcAddr, addSource(id, a), held' = held
    PROVE  FlowTypes' /\ FdsBounded'
<1>1. flowId' \in First..(Last + 1)
  BY WebServiceAssumption DEF TypeOK, addSource
<1> QED
  BY <1>1, managerAddSourceTypes DEF addSource, FlowTypes

\* A removed source gives its descriptor back.
LEMMA removeSourceTypes ==
    ASSUME TypeOK, NEW id \in Id, removeSource(id), held' = held
    PROVE  FlowTypes' /\ FdsBounded'
<1>1. FlowTypes'
  BY DEF TypeOK, removeSource, FlowTypes
<1>2. taken' \subseteq taken
  BY DEF removeSource
<1>3. Cardinality(taken') \in Nat /\ Cardinality(taken') <= Cardinality(taken)
  BY <1>2, FiniteFds, FS_Subset, FS_CardinalityType
<1>4. leaked' = leaked /\ FdsBounded
  BY DEF removeSource, TypeOK, FdsBounded
<1> QED
  BY <1>1, <1>3, <1>4, FiniteFds DEF FdsBounded

\* Destinations take no descriptor.
LEMMA addDestinationTypes ==
    ASSUME TypeOK, flowId <= Last, NEW id \in Id, NEW did \in Id, NEW d \in DestAddr,
           addDestination(id, did, d), held' = held
    PROVE  FlowTypes' /\ FdsBounded'
<1>1. flowId' \in First..(Last + 1)
  BY WebServiceAssumption, SMTT(30) DEF TypeOK, addDestination
<1>2. sources' \in [Id -> Source \cup {None}]
  <2>1. [id |-> did, addr |-> d] \in Dest
    BY DEF Dest
  <2>2. CASE sources[id] = None \/ HasDest(id, did)
    BY <2>2 DEF addDestination, TypeOK
  <2>3. CASE ~ (sources[id] = None \/ HasDest(id, did))
    <3>1. sources[id] \in Source
      BY <2>3 DEF TypeOK
    <3>2. [sources[id] EXCEPT !.dests = @ \cup {[id |-> did, addr |-> d]}] \in Source
      BY <2>1, <3>1 DEF Source
    <3>3. sources' = [sources EXCEPT ![id] =
                        [sources[id] EXCEPT !.dests = @ \cup {[id |-> did, addr |-> d]}]]
      BY <2>3 DEF addDestination
    <3> QED
      BY <3>2, <3>3 DEF TypeOK
  <2> QED
    BY <2>2, <2>3
<1>3. UNCHANGED <<taken, leaked>>
  BY DEF addDestination
<1> QED
  BY <1>1, <1>2, <1>3 DEF TypeOK, FlowTypes, FdsBounded

\* ... nor give one back.
LEMMA removeDestinationTypes ==
    ASSUME TypeOK, NEW id \in Id, NEW did \in Id, removeDestination(id, did), held' = held
    PROVE  FlowTypes' /\ FdsBounded'
<1>1. sources' \in [Id -> Source \cup {None}]
  <2>1. CASE sources[id] = None
    BY <2>1 DEF removeDestination, TypeOK
  <2>2. CASE sources[id] # None
    <3>1. sources[id] \in Source
      BY <2>2 DEF TypeOK
    <3>2. [sources[id] EXCEPT !.dests = {e \in @ : e.id # did}] \in Source
      BY <3>1 DEF Source
    <3>3. sources' = [sources EXCEPT ![id] =
                        [sources[id] EXCEPT !.dests = {e \in @ : e.id # did}]]
      BY <2>2 DEF removeDestination
    <3> QED
      BY <3>2, <3>3 DEF TypeOK
  <2> QED
    BY <2>1, <2>2
<1>2. UNCHANGED <<flowId, taken, leaked>>
  BY DEF removeDestination
<1> QED
  BY <1>1, <1>2 DEF TypeOK, FlowTypes, FdsBounded

\* What becomes of a connection.
ConnState == [at : {"none", "waiting", "result", "fault"}, sent : 0..MaxSent,
              unread : 0..MaxSent, done : Nat, up : BOOLEAN]
ServerState == {Starting, Accepting, Ended} \cup [at : {"recv", "result", "fault"}, k : Conn]

\* The variables that requests leave alone; no more is unread than was sent.
ConnTypes ==
    /\ debug \in BOOLEAN
    /\ backlog \in Seq(Conn)
    /\ conn \in [Conn -> ConnState]
    /\ \A k \in Conn : conn[k].unread <= conn[k].sent
    /\ held \in SUBSET Conn
    /\ buf \in Seq(Conn)
    /\ server \in ServerState
    /\ history \in [Events -> BOOLEAN]

Typed == FlowTypes /\ ConnTypes /\ FdsBounded

\* The type invariant is the three together.
LEMMA TypedTypeOK == Typed => TypeOK
BY DEF Typed, TypeOK, FlowTypes, ConnTypes, FdsBounded, ConnState, ServerState

\* An idle connection.
LEMMA NoConnState == NoConn \in ConnState
BY WebServiceAssumption DEF NoConn, ConnState

\* One connection changes.
LEMMA ConnChange ==
    ASSUME conn \in [Conn -> ConnState], \A k \in Conn : conn[k].unread <= conn[k].sent,
           NEW k \in Conn, NEW c \in ConnState, c.unread <= c.sent,
           conn' = [conn EXCEPT ![k] = c]
    PROVE  conn' \in [Conn -> ConnState] /\ \A j \in Conn : conn'[j].unread <= conn'[j].sent
OBVIOUS

\* Steps that leave the flows and the descriptors alone.
LEMMA FlowsKept ==
    ASSUME Typed, UNCHANGED flows, held' = held
    PROVE  FlowTypes' /\ FdsBounded'
BY DEF Typed, flows, FlowTypes, FdsBounded

\* Closing a connection takes no descriptor.
LEMMA HeldShrinks ==
    ASSUME Typed, UNCHANGED flows, held' \subseteq held
    PROVE  FlowTypes' /\ FdsBounded' /\ held' \in SUBSET Conn
<1>1. FlowTypes' /\ held' \in SUBSET Conn
  BY DEF Typed, flows, FlowTypes, ConnTypes
<1>2. Cardinality(held') \in Nat /\ Cardinality(held') <= Cardinality(held)
  BY TypedTypeOK, FiniteFds, FS_Subset, FS_CardinalityType
<1> QED
  BY <1>1, <1>2, TypedTypeOK, FiniteFds DEF Typed, flows, FdsBounded

-----------------------------------------------------------------------------
(* The types are kept: one lemma for the clients, two for the server.      *)

\* What clients do.
LEMMA ClientTypes ==
    ASSUME Typed, NEW k \in Conn, connect(k) \/ send(k) \/ hangUp(k) \/ leave(k)
    PROVE  Typed'
<1> USE WebServiceAssumption
<1>0. FlowTypes' /\ FdsBounded'
  BY FlowsKept DEF connect, send, hangUp, leave
<1>1. ConnTypes /\ conn[k] \in ConnState
  BY DEF Typed, ConnTypes
<1>2. CASE connect(k)
  <2>1. [NoConn EXCEPT !.at = "waiting", !.up = TRUE] \in ConnState
    BY NoConnState DEF NoConn, ConnState
  <2>2. Append(backlog, k) \in Seq(Conn)
    BY <1>1, AppendProperties DEF ConnTypes
  <2>3. [NoConn EXCEPT !.at = "waiting", !.up = TRUE].unread
            <= [NoConn EXCEPT !.at = "waiting", !.up = TRUE].sent
    BY DEF NoConn
  <2> QED
    BY <1>0, <1>1, <1>2, <2>1, <2>2, <2>3, ConnChange DEF connect, Typed, ConnTypes
<1>3. CASE send(k)
  <2> DEFINE d == [conn[k] EXCEPT !.sent = @ + 1]
             c == [d EXCEPT !.unread = conn[k].unread + 1]
  <2>0. conn[k].sent + 1 \in 0..MaxSent /\ conn[k].unread + 1 \in 0..MaxSent
    BY <1>1, <1>3 DEF ConnState, send, ConnTypes
  <2>1. d \in ConnState /\ d.sent = conn[k].sent + 1
    BY <1>1, <2>0 DEF ConnState
  <2>2. conn' = [conn EXCEPT ![k] = c]
    BY <1>1, <1>3 DEF send, ConnTypes
  <2> HIDE DEF d
  <2>3. c \in ConnState /\ c.unread = conn[k].unread + 1 /\ c.sent = d.sent
    BY <2>0, <2>1 DEF ConnState
  <2>4. c.unread <= c.sent
    <3>1. conn[k].unread \in Int /\ conn[k].sent \in Int
      BY <1>1 DEF ConnState
    <3>2. conn[k].unread <= conn[k].sent
      BY <1>1 DEF ConnTypes
    <3>3. c.unread = conn[k].unread + 1 /\ c.sent = conn[k].sent + 1
      BY <2>1, <2>3
    <3> QED
      BY <3>1, <3>2, <3>3
  <2> HIDE DEF c
  <2>5. conn' \in [Conn -> ConnState] /\ \A j \in Conn : conn'[j].unread <= conn'[j].sent
    BY <1>1, <2>2, <2>3, <2>4, ConnChange DEF ConnTypes
  <2>6. UNCHANGED <<debug, backlog, held, buf, server, history>>
    BY <1>3 DEF send
  <2> QED
    BY <1>0, <1>1, <2>5, <2>6 DEF Typed, ConnTypes
<1>4. CASE hangUp(k)
  <2> DEFINE c == [conn[k] EXCEPT !.up = FALSE]
  <2>1. c \in ConnState /\ c.unread <= c.sent
    BY <1>1, <1>4 DEF ConnState, ConnTypes
  <2>2. conn' = [conn EXCEPT ![k] = c]
    BY <1>4 DEF hangUp
  <2>3. history' \in [{"bound", "numbered", "hungUp", "exited", "lacking"} -> BOOLEAN]
    BY <1>1, <1>4 DEF hangUp, ConnTypes
  <2> HIDE DEF c
  <2> QED
    BY <1>0, <1>1, <1>4, <2>1, <2>2, <2>3, ConnChange DEF hangUp, Typed, ConnTypes
<1>5. CASE leave(k)
  <2>1. NoConn.unread <= NoConn.sent
    BY DEF NoConn
  <2> QED
    BY <1>0, <1>1, <1>5, <2>1, NoConnState, ConnChange DEF leave, Typed, ConnTypes
<1> QED
  BY <1>2, <1>3, <1>4, <1>5

\* What parsing leaves of the buffer.
LEMMA ParseTypes ==
    ASSUME Typed, parse
    PROVE  /\ buf' \in Seq(Conn)
           /\ Head(buf) \in Conn
           /\ server.at = "recv" /\ server.k \in Conn
<1>1. buf \in Seq(Conn) /\ server \in ServerState /\ Parts \in Nat \ {0}
  BY WebServiceAssumption DEF Typed, ConnTypes
<1>2. Len(buf) \in Nat /\ Len(buf) >= Parts /\ server.at = "recv"
        /\ buf' = SubSeq(buf, Parts + 1, Len(buf))
  BY <1>1, LenProperties DEF parse
<1>3. server.k \in Conn
  BY <1>1, <1>2 DEF ServerState, Starting, Accepting, Ended
<1>4. buf # << >>
  BY <1>1, <1>2
<1>5. Head(buf) \in Conn
  BY <1>1, <1>4, HeadTailProperties
<1>6. \A i \in (Parts + 1)..Len(buf) : buf[i] \in Conn
  BY <1>1, <1>2, LenProperties
<1>7. SubSeq(buf, Parts + 1, Len(buf)) \in Seq(Conn)
  BY <1>1, <1>2, <1>6, SubSeqProperties
<1> QED
  BY <1>2, <1>3, <1>5, <1>7

\* One more request of a connection is carried out.
LEMMA OneMoreDone ==
    ASSUME NEW r \in ConnState
    PROVE  /\ [r EXCEPT !.done = @ + 1] \in ConnState
           /\ [r EXCEPT !.done = @ + 1].sent = r.sent
           /\ [r EXCEPT !.done = @ + 1].unread = r.unread
           /\ [r EXCEPT !.done = @ + 1].at = r.at
           /\ [r EXCEPT !.done = @ + 1].up = r.up
           /\ [r EXCEPT !.done = @ + 1].done = r.done + 1
<1>1. r.done \in Nat /\ r.done + 1 \in Nat
  BY DEF ConnState
<1> QED
  BY <1>1 DEF ConnState

\* A request that is answered.
LEMMA AnswerTypes ==
    ASSUME Typed, parse, Answer, FlowTypes', FdsBounded',
           history' \in [{"bound", "numbered", "hungUp", "exited", "lacking"} -> BOOLEAN]
    PROVE  Typed'
<1> DEFINE c == [conn[Head(buf)] EXCEPT !.done = @ + 1]
<1>1. Head(buf) \in Conn /\ conn[Head(buf)] \in ConnState
  BY ParseTypes DEF Typed, ConnTypes
<1>2. c \in ConnState /\ c.unread <= c.sent
  BY <1>1, OneMoreDone DEF Typed, ConnTypes
<1>3. conn' = [conn EXCEPT ![Head(buf)] = c]
  BY DEF Answer
<1> HIDE DEF c
<1>4. conn' \in [Conn -> ConnState] /\ \A j \in Conn : conn'[j].unread <= conn'[j].sent
  BY <1>1, <1>2, <1>3, ConnChange DEF Typed, ConnTypes
<1>a. server \in [at : {"recv", "result", "fault"}, k : Conn]
  BY ParseTypes DEF Typed, ConnTypes, ServerState, Starting, Accepting, Ended
<1>5. server' = [at |-> "result", k |-> server.k]
  BY <1>a DEF Answer
<1>6. server' \in ServerState
  BY <1>5, ParseTypes DEF ServerState
<1> QED
  BY <1>4, <1>6, ParseTypes DEF Answer, Typed, ConnTypes

\* What an operation does with the identifiers, the sources and the addresses.
Requested ==
    \/ UNCHANGED flows
    \/ \E id \in Id : removeSource(id)
    \/ \E id, did \in Id : removeDestination(id, did)
    \/ flowId <= Last /\ \E id \in Id, d \in DestAddr : addDestination(id, flowId, d)
    \/ flowId <= Last /\ \E a \in SrcAddr : addSource(flowId, a)
    \/ /\ history'.numbered /\ flowId <= Last
       /\ \/ \E id \in Id, a \in SrcAddr : addSource(id, a)
          \/ \E id, did \in Id, d \in DestAddr : addDestination(id, did, d)

\* Requests keep the types.
LEMMA RequestedTypes ==
    ASSUME Typed, Requested, held' = held
    PROVE  FlowTypes' /\ FdsBounded'
<1>0. TypeOK
  BY TypedTypeOK
<1>1. flowId <= Last => flowId \in Id
  BY <1>0, WebServiceAssumption DEF TypeOK, Id
<1>2. CASE UNCHANGED flows
  BY <1>2, FlowsKept
<1>3. CASE \E id \in Id : removeSource(id)
  BY <1>0, <1>3, removeSourceTypes
<1>4. CASE \E id, did \in Id : removeDestination(id, did)
  BY <1>0, <1>4, removeDestinationTypes
<1>5. CASE flowId <= Last /\ \E id \in Id, d \in DestAddr : addDestination(id, flowId, d)
  BY <1>0, <1>1, <1>5, addDestinationTypes
<1>6. CASE flowId <= Last /\ \E a \in SrcAddr : addSource(flowId, a)
  BY <1>0, <1>1, <1>6, addSourceTypes
<1>7. CASE flowId <= Last /\ \/ \E id \in Id, a \in SrcAddr : addSource(id, a)
                             \/ \E id, did \in Id, d \in DestAddr : addDestination(id, did, d)
  BY <1>0, <1>7, addSourceTypes, addDestinationTypes
<1> QED
  BY <1>2, <1>3, <1>4, <1>5, <1>6, <1>7 DEF Requested

\* An operation of the service.
Operation == \/ ns__command \/ ns__addSource \/ ns__removeSource
             \/ ns__addDestination \/ ns__removeDestination \/ ns__print

\* What all operations have in common.
LEMMA OperationIs ==
    ASSUME Typed, Operation
    PROVE  /\ parse /\ Answer /\ Requested
           /\ history' = history \/ history' = [history EXCEPT !.numbered = TRUE]
<1>1. history.numbered \in BOOLEAN /\ [history EXCEPT !.numbered = TRUE].numbered
  BY DEF Typed, ConnTypes
<1>2. CASE ns__command
  BY <1>2 DEF ns__command, execute, Requested
<1>3. CASE ns__addSource
  BY <1>1, <1>3 DEF ns__addSource, Numbering, Requested
<1>4. CASE ns__removeSource
  BY <1>4 DEF ns__removeSource, Requested
<1>5. CASE ns__addDestination
  BY <1>1, <1>5 DEF ns__addDestination, Numbering, Requested
<1>6. CASE ns__removeDestination
  BY <1>6 DEF ns__removeDestination, Requested
<1>7. CASE ns__print
  BY <1>7 DEF ns__print, Requested
<1> QED
  BY <1>2, <1>3, <1>4, <1>5, <1>6, <1>7 DEF Operation

Hist == [Events -> BOOLEAN]

\* Operations keep the types.
LEMMA OperationTypes ==
    ASSUME Typed, Operation
    PROVE  Typed'
<1>1. history' \in Hist
  BY OperationIs DEF Typed, ConnTypes, Hist
<1>2. held' = held
  BY OperationIs DEF Answer
<1> QED
  BY <1>1, <1>2, OperationIs, RequestedTypes, AnswerTypes DEF Hist

\* The steps of the server that carry nothing out.
LEMMA ServingTypes ==
    ASSUME Typed,
           \/ soap_bind \/ soap_bind_fails \/ soap_accept \/ soap_accept_fails
           \/ soap_recv_raw \/ soap_recv_eof
    PROVE  Typed'
<1> USE WebServiceAssumption
<1>0. ConnTypes /\ Starting \in ServerState /\ Accepting \in ServerState /\ Ended \in ServerState
  BY DEF Typed, ServerState
<1>1. CASE soap_bind
  <2>1. FlowTypes' /\ FdsBounded'
    BY <1>1, FlowsKept DEF soap_bind
  <2>2. history' \in Hist
    BY <1>0, <1>1 DEF soap_bind, ConnTypes, Hist
  <2> QED
    BY <1>0, <1>1, <2>1, <2>2 DEF soap_bind, Typed, ConnTypes, Hist
<1>2. CASE soap_bind_fails \/ soap_accept_fails
  <2>1. FlowTypes' /\ FdsBounded'
    BY <1>2, FlowsKept DEF soap_bind_fails, soap_accept_fails
  <2> QED
    BY <1>0, <1>2, <2>1 DEF soap_bind_fails, soap_accept_fails, Typed, ConnTypes
<1>3. CASE soap_accept
  <2>1. Head(backlog) \in Conn /\ Tail(backlog) \in Seq(Conn)
    BY <1>0, <1>3, HeadTailProperties DEF soap_accept, ConnTypes
  <2>2. held' \in SUBSET Conn /\ server' \in ServerState
    BY <1>0, <1>3, <2>1 DEF soap_accept, ConnTypes, ServerState
  <2>3. FlowTypes'
    BY <1>3 DEF soap_accept, flows, Typed, FlowTypes
  <2>4. Cardinality(held') = Cardinality(held) \/ Cardinality(held') = Cardinality(held) + 1
    BY <1>3, TypedTypeOK, FiniteFds, FS_AddElement DEF soap_accept
  <2>5. FdsBounded'
    BY <1>3, <2>4, TypedTypeOK, FiniteFds, SMTT(30) DEF soap_accept, flows, FreeFd, FdsBounded
  <2>6. buf' \in Seq(Conn)
    BY <1>3, EmptySeq DEF soap_accept, soap_begin_recv
  <2> QED
    BY <1>0, <1>3, <2>1, <2>2, <2>3, <2>5, <2>6 DEF soap_accept, Typed, ConnTypes
<1>4. CASE soap_recv_raw
  <2> DEFINE c == [conn[server.k] EXCEPT !.unread = 0]
             read == [i \in 1..conn[server.k].unread |-> server.k]
  <2>1. server.k \in Conn
    <3>1. server \in ServerState /\ server.at = "recv"
      BY <1>0, <1>4 DEF soap_recv_raw, ConnTypes
    <3> QED
      BY <3>1 DEF ServerState, Starting, Accepting, Ended
  <2>2. conn[server.k] \in ConnState
    BY <1>0, <2>1 DEF ConnTypes
  <2>3. c \in ConnState /\ c.unread <= c.sent
    BY <2>2 DEF ConnState
  <2>4. conn' = [conn EXCEPT ![server.k] = c]
    BY <1>4 DEF soap_recv_raw
  <2>5. read \in Seq(Conn)
    <3>1. conn[server.k].unread \in Nat
      BY <2>2 DEF ConnState
    <3> QED
      BY <2>1, <3>1
  <2>6. buf' \in Seq(Conn)
    BY <1>0, <1>4, <2>5, ConcatProperties DEF soap_recv_raw, ConnTypes
  <2>7. FlowTypes' /\ FdsBounded'
    BY <1>4, FlowsKept DEF soap_recv_raw
  <2> HIDE DEF c
  <2>8. conn' \in [Conn -> ConnState] /\ \A j \in Conn : conn'[j].unread <= conn'[j].sent
    BY <1>0, <2>1, <2>3, <2>4, ConnChange DEF ConnTypes
  <2> QED
    BY <1>0, <1>4, <2>6, <2>7, <2>8 DEF soap_recv_raw, Typed, ConnTypes
<1>5. CASE soap_recv_eof
  <2>1. server \in [at : {"recv", "result", "fault"}, k : Conn]
    BY <1>0, <1>5 DEF soap_recv_eof, ConnTypes, ServerState, Starting, Accepting, Ended
  <2>2. server' \in ServerState
    BY <1>5, <2>1 DEF soap_recv_eof, ServerState
  <2>3. FlowTypes' /\ FdsBounded'
    BY <1>5, FlowsKept DEF soap_recv_eof
  <2> QED
    BY <1>0, <1>5, <2>2, <2>3 DEF soap_recv_eof, Typed, ConnTypes
<1> QED
  BY <1>1, <1>2, <1>3, <1>4, <1>5

\* The steps that end a request otherwise than with an operation, or a connection.
LEMMA EndingTypes ==
    ASSUME Typed,
           \/ exit \/ lacking \/ malformed
           \/ soap_response \/ soap_response_lost \/ sigpipe
    PROVE  Typed'
<1>0. ConnTypes /\ Accepting \in ServerState /\ Ended \in ServerState
  BY DEF Typed, ServerState
<1>1. CASE exit \/ lacking
  <2>1. FlowTypes' /\ FdsBounded'
    BY <1>1, FlowsKept DEF exit, lacking
  <2>2. history' \in Hist
    BY <1>0, <1>1 DEF exit, lacking, ConnTypes, Hist
  <2> QED
    BY <1>0, <1>1, <2>1, <2>2, ParseTypes DEF exit, lacking, Typed, ConnTypes, Hist
<1>2. CASE malformed
  <2>1. server \in [at : {"recv", "result", "fault"}, k : Conn]
    BY <1>0, <1>2 DEF malformed, parse, ConnTypes, ServerState, Starting, Accepting, Ended
  <2>2. server' \in ServerState
    BY <1>2, <2>1 DEF malformed, ServerState
  <2>3. FlowTypes' /\ FdsBounded'
    BY <1>2, FlowsKept DEF malformed
  <2> QED
    BY <1>0, <1>2, <2>2, <2>3, ParseTypes DEF malformed, Typed, ConnTypes
<1>3. CASE soap_response \/ soap_response_lost
  <2>1. server.at \in {"result", "fault"} /\ server.k \in Conn
    BY <1>0, <1>3 DEF soap_response, soap_response_lost, ConnTypes, ServerState, Starting,
                      Accepting, Ended
  <2>2. held' \subseteq held /\ UNCHANGED flows
    BY <1>3 DEF soap_response, soap_response_lost, soap_end
  <2>3. conn[server.k] \in ConnState
    BY <1>0, <2>1 DEF ConnTypes
  <2>4. conn' \in [Conn -> ConnState] /\ \A j \in Conn : conn'[j].unread <= conn'[j].sent
    <3>1. CASE soap_response
      <4> DEFINE c == [conn[server.k] EXCEPT !.at = server.at]
      <4>1. c \in ConnState /\ c.unread <= c.sent
        BY <1>0, <2>1, <2>3 DEF ConnState, ConnTypes
      <4>2. conn' = [conn EXCEPT ![server.k] = c]
        BY <3>1 DEF soap_response
      <4> HIDE DEF c
      <4> QED
        BY <1>0, <2>1, <4>1, <4>2, ConnChange DEF ConnTypes
    <3>2. CASE soap_response_lost
      <4>1. NoConn.unread <= NoConn.sent
        BY DEF NoConn
      <4> QED
        BY <1>0, <2>1, <3>2, <4>1, NoConnState, ConnChange DEF ConnTypes, soap_response_lost
    <3> QED
      BY <1>3, <3>1, <3>2
  <2> QED
    BY <1>0, <1>3, <2>2, <2>4, HeldShrinks DEF soap_response, soap_response_lost, Typed, ConnTypes
<1>4. CASE sigpipe
  <2>1. FlowTypes' /\ FdsBounded'
    BY <1>4, FlowsKept DEF sigpipe
  <2> QED
    BY <1>0, <1>4, <2>1 DEF sigpipe, Typed, ConnTypes
<1> QED
  BY <1>1, <1>2, <1>3, <1>4

\* The types hold initially, and every step keeps them.
LEMMA TypedInit == Init => Typed
<1> SUFFICES ASSUME Init PROVE Typed
  OBVIOUS
<1> USE WebServiceAssumption
<1>1. FlowTypes
  BY DEF Init, FlowTypes
<1>2. Cardinality(held) = 0 /\ Cardinality(taken) = 0
  BY FS_EmptySet DEF Init
<1>3. FdsBounded
  BY <1>2 DEF Init, FdsBounded
<1>4. ConnTypes
  <2>1. conn \in [Conn -> ConnState] /\ \A k \in Conn : conn[k].unread <= conn[k].sent
    <3>1. conn \in [Conn -> ConnState]
      BY NoConnState DEF Init
    <3>2. NoConn.unread <= NoConn.sent
      BY DEF NoConn
    <3> QED
      BY <3>1, <3>2 DEF Init
  <2>2. backlog \in Seq(Conn) /\ buf \in Seq(Conn)
    BY EmptySeq DEF Init
  <2>3. history \in Hist
    BY DEF Init, Hist
  <2>4. held \in SUBSET Conn /\ server \in ServerState /\ debug \in BOOLEAN
    BY DEF Init, ServerState
  <2> QED
    BY <2>1, <2>2, <2>3, <2>4 DEF ConnTypes, Hist
<1> QED
  BY <1>1, <1>3, <1>4 DEF Typed

LEMMA TypedStep ==
    ASSUME Typed, [Next]_vars
    PROVE  Typed'
<1>1. CASE UNCHANGED vars
  BY <1>1, FlowsKept DEF vars, flows, Typed, ConnTypes
<1>2. CASE \E k \in Conn : connect(k) \/ send(k) \/ hangUp(k) \/ leave(k)
  BY <1>2, ClientTypes
<1>3. CASE main
  BY <1>3, OperationTypes, ServingTypes, EndingTypes DEF main, Operation
<1> QED
  BY <1>1, <1>2, <1>3 DEF Next

\* The server never has more descriptors open than it may, and no operation of it or
\* of its clients leaves the types (soap_accept, Manager::addSource, soap_end).
THEOREM TypeTheorem == Spec => []TypeOK
BY TypedInit, TypedStep, TypedTypeOK, PTL DEF Spec

-----------------------------------------------------------------------------
(* Identifiers of flows.                                                   *)

\* FlowsDistinct for a service whose clients leave the numbers to it.
Distinct ==
    /\ \A id \in Flows : id < flowId
    /\ \A i, j \in Flows : \A e \in sources[i].dests :
        /\ e.id < flowId
        /\ e.id \notin Flows
        /\ \A f \in sources[j].dests : e.id = f.id => i = j /\ e = f

\* Identifiers are integers.
LEMMA FlowIdsTyped ==
    ASSUME Typed
    PROVE  /\ flowId \in Int /\ Id \subseteq Int /\ Flows \subseteq Id
           /\ \A i \in Flows : sources[i] \in Source
           /\ \A i \in Flows : \A e \in sources[i].dests : e.id \in Int
<1>1. flowId \in Int /\ Id \subseteq Int /\ Flows \subseteq Id
  BY WebServiceAssumption DEF Typed, FlowTypes, Id, Flows
<1>2. \A i \in Flows : sources[i] \in Source
  BY DEF Typed, FlowTypes, Flows
<1> QED
  BY <1>1, <1>2 DEF Source, Dest

\* Identifiers that were distinct are so when some are given up.
LEMMA FewerDistinct ==
    ASSUME Typed, Distinct, flowId' \in Int, flowId <= flowId',
           Flows' \subseteq Flows,
           \A i \in Flows' : sources'[i].dests \subseteq sources[i].dests
    PROVE  Distinct'
<1>1. \A id \in Flows' : id < flowId'
  BY FlowIdsTyped DEF Distinct
<1>2. ASSUME NEW i \in Flows', NEW j \in Flows', NEW e \in sources'[i].dests
      PROVE  /\ e.id < flowId'
             /\ e.id \notin Flows'
             /\ \A f \in sources'[j].dests : e.id = f.id => i = j /\ e = f
  <2>1. i \in Flows /\ j \in Flows /\ e \in sources[i].dests
    BY <1>2
  <2>2. e.id < flowId /\ e.id \notin Flows /\ e.id \in Int
    BY <2>1, FlowIdsTyped DEF Distinct
  <2>3. \A f \in sources'[j].dests : e.id = f.id => i = j /\ e = f
    BY <2>1 DEF Distinct
  <2> QED
    BY <2>2, <2>3, FlowIdsTyped
<1> QED
  BY <1>1, <1>2 DEF Distinct

\* A source with a new number has an identifier no source or destination has.
LEMMA addSourceDistinct ==
    ASSUME Typed, Distinct, flowId \in Id, NEW a \in SrcAddr, addSource(flowId, a)
    PROVE  Distinct'
<1>0. flowId' = flowId + 1 /\ flowId \in Int /\ sources \in [Id -> Source \cup {None}]
  BY FlowIdsTyped DEF addSource, Typed, FlowTypes
<1>1. CASE UNCHANGED sources
  BY <1>0, <1>1, FewerDistinct DEF Flows
<1>2. CASE sources' = [sources EXCEPT ![flowId] = [addr |-> a, dests |-> {}]]
  <2>0. [addr |-> a, dests |-> {}] # None
    BY WebServiceAssumption DEF Source
  <2>1. Flows' = Flows \cup {flowId}
    BY <1>0, <1>2, <2>0 DEF Flows
  <2>2. \A i \in Flows : sources'[i] = sources[i]
    <3>1. flowId \notin Flows
      BY <1>0 DEF Distinct
    <3> QED
      BY <1>0, <1>2, <3>1, FlowIdsTyped
  <2>3. sources'[flowId].dests = {}
    BY <1>0, <1>2
  <2>4. \A id \in Flows' : id < flowId'
    <3>1. \A id \in Flows : id < flowId /\ id \in Int
      BY FlowIdsTyped DEF Distinct
    <3> QED
      BY <1>0, <2>1, <3>1
  <2>5. ASSUME NEW i \in Flows', NEW j \in Flows', NEW e \in sources'[i].dests
        PROVE  /\ e.id < flowId'
               /\ e.id \notin Flows'
               /\ \A f \in sources'[j].dests : e.id = f.id => i = j /\ e = f
    <3>1. i \in Flows /\ e \in sources[i].dests
      BY <2>1, <2>2, <2>3, <2>5
    <3>2. e.id < flowId /\ e.id \notin Flows /\ e.id \in Int
      BY <3>1, FlowIdsTyped DEF Distinct
    <3>3. e.id < flowId' /\ e.id \notin Flows'
      BY <1>0, <2>1, <3>2
    <3>4. ASSUME NEW f \in sources'[j].dests, e.id = f.id
          PROVE  i = j /\ e = f
      <4>1. j \in Flows /\ f \in sources[j].dests
        BY <2>1, <2>2, <2>3
      <4> QED
        BY <3>1, <3>4, <4>1 DEF Distinct
    <3> QED
      BY <3>3, <3>4
  <2> QED
    BY <2>4, <2>5 DEF Distinct
<1> QED
  BY <1>1, <1>2 DEF addSource, managerAddSource

\* ... and so has a destination.
LEMMA addDestinationDistinct ==
    ASSUME Typed, Distinct, flowId \in Id, NEW id \in Id, NEW d \in DestAddr,
           addDestination(id, flowId, d)
    PROVE  Distinct'
<1>0. flowId' = flowId + 1 /\ flowId \in Int /\ sources \in [Id -> Source \cup {None}]
  BY FlowIdsTyped DEF addDestination, Typed, FlowTypes
<1>1. CASE UNCHANGED sources
  BY <1>0, <1>1, FewerDistinct DEF Flows
<1>2. CASE id \in Flows /\ sources' = [sources EXCEPT ![id].dests =
                                          @ \cup {[id |-> flowId, addr |-> d]}]
  <2> DEFINE n == [id |-> flowId, addr |-> d]
             s == [sources[id] EXCEPT !.dests = @ \cup {n}]
  <2>0. s \in Source /\ s.dests = sources[id].dests \cup {n} /\ s # None
    <3>1. sources[id] \in Source /\ n \in Dest
      BY <1>2, FlowIdsTyped DEF Dest
    <3> QED
      BY <3>1, WebServiceAssumption DEF Source
  <2>1. n.id = flowId
    OBVIOUS
  <2>2. sources' = [sources EXCEPT ![id] = s]
    BY <1>2
  <2> HIDE DEF n, s
  <2>3. Flows' = Flows
    BY <1>0, <1>2, <2>0, <2>2 DEF Flows
  <2>4. \A i \in Flows : \A e \in sources'[i].dests :
            e \in sources[i].dests \/ (i = id /\ e = n)
    BY <1>0, <2>0, <2>2, FlowIdsTyped
  <2>5. \A i \in Flows' : i < flowId'
    <3>1. \A i \in Flows : i < flowId /\ i \in Int
      BY FlowIdsTyped DEF Distinct
    <3> QED
      BY <1>0, <2>3, <3>1
  <2>6. flowId \notin Flows /\ \A i \in Flows : \A e \in sources[i].dests : e.id # flowId
    BY <1>0, FlowIdsTyped DEF Distinct
  <2>7. ASSUME NEW i \in Flows', NEW j \in Flows', NEW e \in sources'[i].dests
        PROVE  /\ e.id < flowId'
               /\ e.id \notin Flows'
               /\ \A f \in sources'[j].dests : e.id = f.id => i = j /\ e = f
    <3>1. i \in Flows /\ j \in Flows
      BY <2>3
    <3>2. CASE e \in sources[i].dests
      <4>1. e.id < flowId /\ e.id \notin Flows /\ e.id \in Int
        BY <3>1, <3>2, FlowIdsTyped DEF Distinct
      <4>2. ASSUME NEW f \in sources'[j].dests, e.id = f.id PROVE i = j /\ e = f
        <5>1. e.id # flowId
          BY <2>6, <3>1, <3>2
        <5>2. f \in sources[j].dests
          BY <2>1, <2>4, <3>1, <4>2, <5>1
        <5> QED
          BY <3>1, <3>2, <4>2, <5>2 DEF Distinct
      <4> QED
        BY <1>0, <2>3, <4>1, <4>2
    <3>3. CASE i = id /\ e = n
      <4>1. e.id < flowId' /\ e.id \notin Flows'
        BY <1>0, <2>1, <2>3, <2>6, <3>3
      <4>2. ASSUME NEW f \in sources'[j].dests, e.id = f.id PROVE i = j /\ e = f
        BY <2>1, <2>4, <2>6, <3>1, <3>3, <4>2
      <4> QED
        BY <4>1, <4>2
    <3> QED
      BY <2>4, <3>1, <3>2, <3>3
  <2> QED
    BY <2>5, <2>7 DEF Distinct
<1>3. UNCHANGED sources \/
      (id \in Flows /\ sources' = [sources EXCEPT ![id].dests =
                                      @ \cup {[id |-> flowId, addr |-> d]}])
  BY DEF addDestination, Flows
<1> QED
  BY <1>1, <1>2, <1>3

\* No operation by which the service numbers a flow gives a number twice.
LEMMA RequestedDistinct ==
    ASSUME Typed, Distinct, Requested, ~ history'.numbered
    PROVE  Distinct'
<1>0. /\ sources \in [Id -> Source \cup {None}] /\ flowId \in Int
      /\ flowId <= Last => flowId \in Id
  BY FlowIdsTyped, WebServiceAssumption DEF Typed, FlowTypes, Id
<1>1. CASE UNCHANGED flows
  BY <1>0, <1>1, FewerDistinct DEF flows, Flows
<1>2. CASE \E id \in Id : removeSource(id)
  <2>1. PICK id \in Id : removeSource(id)
    BY <1>2
  <2>2. flowId' = flowId /\ Flows' \subseteq Flows
    BY <1>0, <2>1 DEF removeSource, Flows
  <2>3. \A i \in Flows' : sources'[i] = sources[i]
    BY <1>0, <2>1 DEF removeSource, Flows
  <2> QED
    BY <1>0, <2>2, <2>3, FewerDistinct
<1>3. CASE \E id, did \in Id : removeDestination(id, did)
  <2>1. PICK id \in Id, did \in Id : removeDestination(id, did)
    BY <1>3
  <2>2. CASE sources[id] = None
    BY <1>0, <2>1, <2>2, FewerDistinct DEF removeDestination, Flows
  <2>3. CASE sources[id] # None
    <3> DEFINE s == [sources[id] EXCEPT !.dests = {e \in @ : e.id # did}]
    <3>1. s \in Source /\ s.dests \subseteq sources[id].dests /\ s # None
      BY <1>0, <2>3, WebServiceAssumption DEF Source
    <3>2. sources' = [sources EXCEPT ![id] = s] /\ flowId' = flowId
      BY <2>1, <2>3 DEF removeDestination
    <3> HIDE DEF s
    <3>3. Flows' = Flows
      BY <1>0, <2>3, <3>1, <3>2 DEF Flows
    <3>4. \A i \in Flows' : sources'[i].dests \subseteq sources[i].dests
      BY <1>0, <3>1, <3>2, <3>3, FlowIdsTyped
    <3> QED
      BY <1>0, <3>2, <3>3, <3>4, FewerDistinct
  <2> QED
    BY <2>2, <2>3
<1>4. CASE flowId <= Last /\ \E id \in Id, d \in DestAddr : addDestination(id, flowId, d)
  BY <1>0, <1>4, addDestinationDistinct
<1>5. CASE flowId <= Last /\ \E a \in SrcAddr : addSource(flowId, a)
  BY <1>0, <1>5, addSourceDistinct
<1> QED
  BY <1>1, <1>2, <1>3, <1>4, <1>5 DEF Requested

\* FlowsDistinct is kept by every step.
LEMMA FlowsStep ==
    ASSUME Typed, FlowsDistinct, [Next]_vars
    PROVE  FlowsDistinct'
<1>1. FlowsDistinct <=> (~ history.numbered => Distinct)
  BY DEF FlowsDistinct, Distinct
<1>2. FlowsDistinct' <=> (~ history'.numbered => Distinct')
  BY DEF FlowsDistinct, Distinct
<1>3. CASE Operation
  <2>1. Requested /\ (history' = history \/ history' = [history EXCEPT !.numbered = TRUE])
    BY <1>3, OperationIs
  <2>2. ~ history'.numbered => ~ history.numbered
    BY <2>1 DEF Typed, ConnTypes
  <2> QED
    BY <1>1, <1>2, <2>1, <2>2, RequestedDistinct
<1>4. CASE ~ Operation
  <2>1. UNCHANGED flows
    BY <1>4 DEF Next, main, Operation, vars, connect, send, hangUp, leave, soap_bind,
                soap_bind_fails, soap_accept, soap_accept_fails, soap_recv_raw, soap_recv_eof,
                exit, lacking, malformed, soap_response, soap_response_lost, sigpipe
  <2>2. history'.numbered = history.numbered
    BY <1>4 DEF Typed, ConnTypes, Next, main, Operation, vars, connect, send, hangUp, leave,
                soap_bind, soap_bind_fails, soap_accept, soap_accept_fails, soap_recv_raw,
                soap_recv_eof, exit, lacking, malformed, soap_response, soap_response_lost,
                sigpipe
  <2>3. ~ history.numbered => (Distinct => Distinct')
    BY <2>1 DEF flows, Distinct, Flows
  <2> QED
    BY <1>1, <1>2, <2>2, <2>3
<1> QED
  BY <1>3, <1>4

\* While no client numbers flows itself, no two flows have one identifier, however
\* often the Manager has refused an addition or removed a flow (flowId, caseCommand).
THEOREM FlowsTheorem == Spec => []FlowsDistinct
<1>1. Init => FlowsDistinct
  BY DEF Init, FlowsDistinct, Flows
<1> QED
  BY <1>1, TypedInit, TypedStep, FlowsStep, PTL DEF Spec

-----------------------------------------------------------------------------
(* The life of a connection.                                               *)

Serving == server.at \in {"recv", "result", "fault"}

\* Connections wait once, and nothing has been done for them.
BacklogLife ==
    /\ \A i, j \in 1..Len(backlog) : backlog[i] = backlog[j] => i = j
    /\ \A i \in 1..Len(backlog) : conn[backlog[i]].at = "waiting" /\ conn[backlog[i]].done = 0

\* The connection being served waits no more; the buffer holds nobody else's parts,
\* and nothing else is open.
ServerLife ==
    /\ Serving =>
         /\ \A i \in 1..Len(backlog) : backlog[i] # server.k
         /\ conn[server.k].at = "waiting"
         /\ conn[server.k].done = IF server.at = "result" THEN 1 ELSE 0
         /\ held = {server.k}
    /\ server.at = "recv" => \A i \in 1..Len(buf) : buf[i] = server.k
    /\ server.at \in {"start", "accept"} => held = {}
    /\ server.at = "start" => ~ history.bound

ConnLife ==
    \A k \in Conn :
        /\ conn[k].done \in {0, 1}
        /\ conn[k].at = "result" => conn[k].done = 1
        /\ conn[k].at = "waiting" /\ ~ conn[k].up => history.hungUp

Life == BacklogLife /\ ServerLife /\ ConnLife

\* The places of a state of the server.
LEMMA ServerPlaces ==
    ASSUME Typed
    PROVE  /\ server = Starting <=> server.at = "start"
           /\ server = Accepting <=> server.at = "accept"
           /\ server = Ended <=> server.at = "ended"
           /\ Serving <=> server \in [at : {"recv", "result", "fault"}, k : Conn]
           /\ server.at \in {"start", "accept", "ended"} \/ Serving
<1>1. server \in ServerState
  BY DEF Typed, ConnTypes
<1> QED
  BY <1>1 DEF ServerState, Starting, Accepting, Ended, Serving

\* The types the steps below rely on.
LEMMA LifeTypes ==
    ASSUME Typed
    PROVE  /\ conn \in [Conn -> ConnState]
           /\ backlog \in Seq(Conn) /\ Len(backlog) \in Nat
           /\ \A i \in 1..Len(backlog) : backlog[i] \in Conn
           /\ buf \in Seq(Conn) /\ Len(buf) \in Nat
           /\ history \in [Events -> BOOLEAN]
BY LenProperties DEF Typed, ConnTypes

\* What clients do.
LEMMA ClientLife ==
    ASSUME Typed, Life, NEW k \in Conn, connect(k) \/ send(k) \/ hangUp(k) \/ leave(k)
    PROVE  Life'
<1>0. UNCHANGED <<server, held, buf>>
  BY DEF connect, send, hangUp, leave
<1>1. /\ conn \in [Conn -> ConnState] /\ history \in [Events -> BOOLEAN]
      /\ backlog \in Seq(Conn) /\ Len(backlog) \in Nat
      /\ \A i \in 1..Len(backlog) : backlog[i] \in Conn
  BY LifeTypes
<1>2. Serving => server.k \in Conn
  BY ServerPlaces
<1>3. ASSUME UNCHANGED backlog,
             \A j \in Conn : conn'[j].at = conn[j].at /\ conn'[j].done = conn[j].done,
             history'.bound = history.bound,
             \A j \in Conn : conn'[j].at = "waiting" /\ ~ conn'[j].up => history'.hungUp
      PROVE  Life'
  <2>1. BacklogLife'
    BY <1>1, <1>3 DEF Life, BacklogLife
  <2>2. ServerLife'
    BY <1>0, <1>1, <1>2, <1>3 DEF Life, ServerLife, Serving
  <2>3. ConnLife'
    BY <1>1, <1>3 DEF Life, ConnLife
  <2> QED
    BY <2>1, <2>2, <2>3 DEF Life
<1>4. CASE connect(k)
  <2> DEFINE c == [NoConn EXCEPT !.at = "waiting", !.up = TRUE]
  <2>1. c.at = "waiting" /\ c.done = 0 /\ c.up
    BY DEF NoConn
  <2>2. conn[k].at = "none"
    BY <1>4 DEF connect, NoConn
  <2>3. conn' = [conn EXCEPT ![k] = c] /\ backlog' = Append(backlog, k) /\ history' = history
    BY <1>4 DEF connect
  <2> HIDE DEF c
  <2>4. conn'[k] = c /\ \A j \in Conn \ {k} : conn'[j] = conn[j]
    BY <1>1, <2>3
  <2>5. \A i \in 1..Len(backlog) : backlog[i] \in Conn \ {k}
    BY <1>1, <2>2 DEF Life, BacklogLife
  <2>6. Serving => server.k # k
    BY <2>2 DEF Life, ServerLife
  <2>7. /\ Len(backlog') = Len(backlog) + 1
        /\ \A i \in 1..Len(backlog) : backlog'[i] = backlog[i]
        /\ backlog'[Len(backlog) + 1] = k
    BY <1>1, <2>3, AppendProperties
  <2>8. BacklogLife'
    <3>1. \A i \in 1..Len(backlog') : i \in 1..Len(backlog) \/ i = Len(backlog) + 1
      BY <1>1, <2>7
    <3>2. \A i, j \in 1..Len(backlog') : backlog'[i] = backlog'[j] => i = j
      BY <2>5, <2>7, <3>1 DEF Life, BacklogLife
    <3>3. \A i \in 1..Len(backlog') : conn'[backlog'[i]].at = "waiting"
                                        /\ conn'[backlog'[i]].done = 0
      BY <2>1, <2>4, <2>5, <2>7, <3>1 DEF Life, BacklogLife
    <3> QED
      BY <3>2, <3>3 DEF BacklogLife
  <2>9. ServerLife'
    <3>1. \A i \in 1..Len(backlog') : i \in 1..Len(backlog) \/ i = Len(backlog) + 1
      BY <1>1, <2>7
    <3>2. Serving => \A i \in 1..Len(backlog') : backlog'[i] # server.k
      BY <2>6, <2>7, <3>1 DEF Life, ServerLife
    <3>3. Serving => conn'[server.k] = conn[server.k]
      BY <1>2, <2>4, <2>6
    <3> QED
      BY <1>0, <2>3, <3>2, <3>3 DEF Life, ServerLife, Serving
  <2>10. ConnLife'
    BY <2>1, <2>3, <2>4 DEF Life, ConnLife
  <2> QED
    BY <2>8, <2>9, <2>10 DEF Life
<1>5. CASE send(k)
  <2>1. \A j \in Conn : /\ conn'[j].at = conn[j].at /\ conn'[j].done = conn[j].done
                        /\ conn'[j].up = conn[j].up
    BY <1>1, <1>5 DEF send, ConnState
  <2>2. UNCHANGED <<backlog, history>>
    BY <1>5 DEF send
  <2>3. \A j \in Conn : conn'[j].at = "waiting" /\ ~ conn'[j].up => history'.hungUp
    BY <2>1, <2>2 DEF Life, ConnLife
  <2> QED
    BY <1>3, <2>1, <2>2, <2>3
<1>6. CASE hangUp(k)
  <2>1. \A j \in Conn : conn'[j].at = conn[j].at /\ conn'[j].done = conn[j].done
    BY <1>1, <1>6 DEF hangUp, ConnState
  <2>2. history'.hungUp /\ history'.bound = history.bound
    BY <1>1, <1>6 DEF hangUp
  <2> QED
    BY <1>3, <1>6, <2>1, <2>2 DEF hangUp
<1>7. CASE leave(k)
  <2>1. conn'[k] = NoConn /\ \A j \in Conn \ {k} : conn'[j] = conn[j]
    BY <1>1, <1>7 DEF leave
  <2>2. UNCHANGED <<backlog, history>> /\ conn[k].at \in {"result", "fault"}
    BY <1>7 DEF leave
  <2>3. \A i \in 1..Len(backlog) : backlog[i] \in Conn \ {k}
    BY <1>1, <2>2 DEF Life, BacklogLife
  <2>4. Serving => server.k # k
    BY <2>2 DEF Life, ServerLife
  <2>5. BacklogLife'
    BY <2>1, <2>2, <2>3 DEF Life, BacklogLife
  <2>6. ServerLife'
    <3>1. Serving => conn'[server.k] = conn[server.k]
      BY <1>2, <2>1, <2>4
    <3> QED
      BY <1>0, <2>2, <3>1 DEF Life, ServerLife, Serving
  <2>7. ConnLife'
    BY <2>1, <2>2 DEF Life, ConnLife, NoConn
  <2> QED
    BY <2>5, <2>6, <2>7 DEF Life
<1> QED
  BY <1>4, <1>5, <1>6, <1>7

\* The server begins to listen, or to serve the connection that has waited longest.
LEMMA ServingLife ==
    ASSUME Typed, Life,
           \/ soap_bind \/ soap_bind_fails \/ soap_accept \/ soap_accept_fails
           \/ soap_recv_raw \/ soap_recv_eof
    PROVE  Life'
<1>1. /\ conn \in [Conn -> ConnState] /\ history \in [Events -> BOOLEAN]
      /\ backlog \in Seq(Conn) /\ Len(backlog) \in Nat
      /\ \A i \in 1..Len(backlog) : backlog[i] \in Conn
      /\ buf \in Seq(Conn) /\ Len(buf) \in Nat
  BY LifeTypes
<1>2. CASE soap_bind \/ soap_bind_fails
  <2>1. server'.at \in {"accept", "ended"} /\ UNCHANGED <<conn, backlog, held, buf>>
    BY <1>2 DEF soap_bind, soap_bind_fails, Accepting, Ended
  <2>2. history'.hungUp = history.hungUp /\ server.at = "start"
    BY <1>1, <1>2 DEF soap_bind, soap_bind_fails, Starting
  <2> QED
    BY <2>1, <2>2 DEF Life, BacklogLife, ServerLife, ConnLife, Serving
<1>3. CASE soap_accept_fails
  <2>1. server'.at = "ended" /\ UNCHANGED <<conn, backlog, held, buf, history>>
    BY <1>3 DEF soap_accept_fails, Ended
  <2> QED
    BY <2>1 DEF Life, BacklogLife, ServerLife, ConnLife, Serving
<1>4. CASE soap_accept
  <2>1. backlog # << >> /\ held = {}
    BY <1>4 DEF soap_accept, Accepting, Life, ServerLife
  <2>2. Head(backlog) = backlog[1] /\ 1 \in 1..Len(backlog)
    BY <1>1, <2>1
  <2>3. /\ Len(Tail(backlog)) = Len(backlog) - 1
        /\ \A i \in 1..Len(Tail(backlog)) : Tail(backlog)[i] = backlog[i + 1]
    BY <1>1, <2>1, HeadTailProperties
  <2>4. \A i \in 1..Len(Tail(backlog)) : i + 1 \in 1..Len(backlog) /\ i + 1 # 1
    BY <1>1, <2>3
  <2>5. /\ backlog' = Tail(backlog) /\ server' = [at |-> "recv", k |-> backlog[1]]
        /\ held' = {backlog[1]} /\ buf' = << >> /\ UNCHANGED <<conn, history>>
    BY <1>4, <2>1, <2>2 DEF soap_accept, soap_begin_recv
  <2>6. BacklogLife'
    <3>1. \A i, j \in 1..Len(backlog') : backlog'[i] = backlog'[j] => i = j
      <4>1. \A i, j \in 1..Len(backlog') : backlog'[i] = backlog'[j] => i + 1 = j + 1
        BY <2>3, <2>4, <2>5 DEF Life, BacklogLife
      <4> QED
        BY <4>1
    <3>2. \A i \in 1..Len(backlog') : conn'[backlog'[i]].at = "waiting"
                                        /\ conn'[backlog'[i]].done = 0
      BY <2>3, <2>4, <2>5 DEF Life, BacklogLife
    <3> QED
      BY <3>1, <3>2 DEF BacklogLife
  <2>7. \A i \in 1..Len(backlog') : backlog'[i] # backlog[1]
    BY <2>2, <2>3, <2>4, <2>5 DEF Life, BacklogLife
  <2>8. conn[backlog[1]].at = "waiting" /\ conn[backlog[1]].done = 0
    BY <2>2 DEF Life, BacklogLife
  <2>9. ServerLife'
    BY <2>5, <2>7, <2>8 DEF ServerLife, Serving
  <2>10. ConnLife'
    BY <2>5 DEF Life, ConnLife
  <2> QED
    BY <2>6, <2>9, <2>10 DEF Life
<1>5. CASE soap_recv_raw
  <2> DEFINE n == conn[server.k].unread
             c == [conn[server.k] EXCEPT !.unread = 0]
  <2>1. Serving /\ server.k \in Conn /\ n \in Nat
    BY <1>1, <1>5, ServerPlaces DEF soap_recv_raw, Serving, ConnState
  <2>2. c.at = conn[server.k].at /\ c.done = conn[server.k].done /\ c.up = conn[server.k].up
    BY <1>1, <2>1 DEF ConnState
  <2>3. conn' = [conn EXCEPT ![server.k] = c] /\ UNCHANGED <<backlog, held, server, history>>
    BY <1>5 DEF soap_recv_raw
  <2>4. buf' = buf \o [i \in 1..n |-> server.k] /\ \A i \in 1..Len(buf) : buf[i] = server.k
    BY <1>5 DEF soap_recv_raw, Life, ServerLife
  <2> HIDE DEF c, n
  <2>5. \A j \in Conn : conn'[j].at = conn[j].at /\ conn'[j].done = conn[j].done
                          /\ conn'[j].up = conn[j].up
    BY <1>1, <2>1, <2>2, <2>3
  <2>6. \A i \in 1..Len(buf') : buf'[i] = server.k
    <3> DEFINE r == [i \in 1..n |-> server.k]
    <3>1. r \in Seq(Conn) /\ Len(r) = n /\ \A i \in 1..n : r[i] = server.k
      BY <2>1
    <3> HIDE DEF r
    <3>2. /\ Len(buf \o r) = Len(buf) + n
          /\ \A i \in 1..(Len(buf) + n) :
               (buf \o r)[i] = IF i <= Len(buf) THEN buf[i] ELSE r[i - Len(buf)]
      BY <1>1, <3>1, ConcatProperties, ZenonT(60)
    <3>3. buf' = buf \o r
      BY <2>4 DEF r
    <3> QED
      BY <1>1, <2>1, <2>4, <3>1, <3>2, <3>3
  <2>7. BacklogLife'
    BY <1>1, <2>3, <2>5 DEF Life, BacklogLife
  <2>8. ServerLife'
    BY <2>1, <2>3, <2>5, <2>6 DEF Life, ServerLife, Serving
  <2>9. ConnLife'
    BY <2>3, <2>5 DEF Life, ConnLife
  <2> QED
    BY <2>7, <2>8, <2>9 DEF Life
<1>6. CASE soap_recv_eof
  <2>1. Serving /\ server.at = "recv" /\ server \in [at : {"recv", "result", "fault"}, k : Conn]
    BY <1>6, ServerPlaces DEF soap_recv_eof, Serving
  <2>2. server' = [at |-> "fault", k |-> server.k]
    BY <1>6, <2>1 DEF soap_recv_eof
  <2>3. UNCHANGED <<conn, backlog, held, buf, history>>
    BY <1>6 DEF soap_recv_eof
  <2> QED
    BY <2>1, <2>2, <2>3 DEF Life, BacklogLife, ServerLife, ConnLife, Serving
<1> QED
  BY <1>2, <1>3, <1>4, <1>5, <1>6

\* A request that is carried out is that of the connection being served.
LEMMA OperationLife ==
    ASSUME Typed, Life, Operation
    PROVE  Life'
<1>1. /\ conn \in [Conn -> ConnState] /\ history \in [Events -> BOOLEAN]
      /\ \A i \in 1..Len(backlog) : backlog[i] \in Conn
      /\ buf \in Seq(Conn) /\ Len(buf) \in Nat
  BY LifeTypes
<1>2. /\ parse /\ Answer
      /\ history'.bound = history.bound /\ history'.hungUp = history.hungUp
  BY <1>1, OperationIs
<1>3. server \in [at : {"recv", "result", "fault"}, k : Conn] /\ server.at = "recv"
  BY <1>2, ServerPlaces DEF parse, Serving
<1>4. Head(buf) = server.k
  <2>1. Len(buf) >= 1
    BY <1>1, <1>2, WebServiceAssumption DEF parse
  <2> QED
    BY <1>1, <1>3, <2>1 DEF Life, ServerLife
<1>5. server' = [at |-> "result", k |-> server.k] /\ UNCHANGED <<backlog, held>>
  BY <1>2, <1>3 DEF Answer
<1> DEFINE c == [conn[server.k] EXCEPT !.done = @ + 1]
<1>6. conn[server.k] \in ConnState /\ conn[server.k].done = 0 /\ conn[server.k].at = "waiting"
  BY <1>1, <1>3 DEF Life, ServerLife, Serving
<1>7. c.at = "waiting" /\ c.done = 1 /\ c.up = conn[server.k].up
  BY <1>6, OneMoreDone
<1>8. conn' = [conn EXCEPT ![server.k] = c]
  BY <1>2, <1>4 DEF Answer
<1> HIDE DEF c
<1>9. conn'[server.k] = c /\ \A j \in Conn \ {server.k} : conn'[j] = conn[j]
  BY <1>1, <1>3, <1>8
<1>10. BacklogLife'
  BY <1>1, <1>3, <1>5, <1>9 DEF Life, BacklogLife, ServerLife, Serving
<1>11. ServerLife'
  BY <1>3, <1>5, <1>7, <1>9 DEF Life, ServerLife, Serving
<1>12. ConnLife'
  BY <1>2, <1>6, <1>7, <1>9 DEF Life, ConnLife
<1> QED
  BY <1>10, <1>11, <1>12 DEF Life

\* The server ends a request otherwise than with an operation, a connection, or itself.
LEMMA EndingLife ==
    ASSUME Typed, Life,
           \/ exit \/ lacking \/ malformed
           \/ soap_response \/ soap_response_lost \/ sigpipe
    PROVE  Life'
<1>1. /\ conn \in [Conn -> ConnState] /\ history \in [Events -> BOOLEAN]
      /\ \A i \in 1..Len(backlog) : backlog[i] \in Conn
  BY LifeTypes
<1>2. CASE exit \/ lacking \/ sigpipe
  <2>1. server'.at = "ended" /\ UNCHANGED <<conn, backlog>>
        /\ history'.hungUp = history.hungUp
    BY <1>1, <1>2 DEF exit, lacking, sigpipe, Ended
  <2> QED
    BY <2>1 DEF Life, BacklogLife, ServerLife, ConnLife, Serving
<1>3. CASE malformed
  <2>1. server \in [at : {"recv", "result", "fault"}, k : Conn] /\ server.at = "recv"
    BY <1>3, ServerPlaces DEF malformed, parse, Serving
  <2>2. server' = [at |-> "fault", k |-> server.k]
    BY <1>3, <2>1 DEF malformed
  <2>3. UNCHANGED <<conn, backlog, held, history>>
    BY <1>3 DEF malformed
  <2> QED
    BY <2>1, <2>2, <2>3 DEF Life, BacklogLife, ServerLife, ConnLife, Serving
<1>4. CASE soap_response \/ soap_response_lost
  <2>1. /\ server.at \in {"result", "fault"} /\ server.k \in Conn /\ held = {server.k}
        /\ \A i \in 1..Len(backlog) : backlog[i] # server.k
        /\ conn[server.k].done = IF server.at = "result" THEN 1 ELSE 0
    BY <1>4, ServerPlaces DEF soap_response, soap_response_lost, Life, ServerLife, Serving
  <2>2. server'.at = "accept" /\ held' = {} /\ UNCHANGED <<backlog, history>>
    BY <1>4, <2>1 DEF soap_response, soap_response_lost, soap_end, Accepting
  <2>3. /\ conn'[server.k].done \in {0, 1}
        /\ conn'[server.k].at = "result" => conn'[server.k].done = 1
        /\ conn'[server.k].at # "waiting"
        /\ \A j \in Conn \ {server.k} : conn'[j] = conn[j]
    BY <1>1, <1>4, <2>1 DEF soap_response, soap_response_lost, NoConn, ConnState
  <2>4. BacklogLife'
    BY <1>1, <2>1, <2>2, <2>3 DEF Life, BacklogLife
  <2>5. ServerLife'
    BY <2>2 DEF ServerLife, Serving
  <2>6. ConnLife'
    BY <2>2, <2>3 DEF Life, ConnLife
  <2> QED
    BY <2>4, <2>5, <2>6 DEF Life
<1> QED
  BY <1>2, <1>3, <1>4

\* Every step keeps the life of connections.
LEMMA LifeStep ==
    ASSUME Typed, Life, [Next]_vars
    PROVE  Life'
<1>1. CASE UNCHANGED vars
  BY <1>1 DEF vars, Life, BacklogLife, ServerLife, ConnLife, Serving
<1>2. CASE \E k \in Conn : connect(k) \/ send(k) \/ hangUp(k) \/ leave(k)
  BY <1>2, ClientLife
<1>3. CASE main
  BY <1>3, OperationLife, ServingLife, EndingLife DEF main, Operation
<1> QED
  BY <1>1, <1>2, <1>3 DEF Next

LEMMA LifeInit == Init => Life
<1> SUFFICES ASSUME Init PROVE Life
  OBVIOUS
<1>1. backlog = << >> /\ server.at = "start" /\ held = {} /\ ~ history.bound
  BY DEF Init, Starting
<1>2. \A k \in Conn : conn[k].done = 0 /\ conn[k].at = "none"
  BY DEF Init, NoConn
<1> QED
  BY <1>1, <1>2 DEF Life, BacklogLife, ServerLife, ConnLife, Serving

\* A request is carried out at most once, and a client that is given a result has had
\* its own carried out: whatever an earlier connection left in the buffer is dropped
\* before the next is served (soap_begin_recv).
THEOREM AnswerTheorem == Spec => []AnswerMeansDone
<1>1. Life => AnswerMeansDone
  BY DEF Life, ConnLife, AnswerMeansDone
<1> QED
  BY <1>1, TypedInit, TypedStep, LifeInit, LifeStep, PTL DEF Spec

\* The server ends for one of the causes, ...
LEMMA EndsStep ==
    ASSUME Typed, Life, EndsForCause, [Next]_vars
    PROVE  EndsForCause'
<1>1. /\ conn \in [Conn -> ConnState] /\ history \in [Events -> BOOLEAN]
      /\ \A i \in 1..Len(backlog) : backlog[i] \in Conn
      /\ backlog \in Seq(Conn)
  BY LifeTypes
<1>2. CASE server = Ended
  <2>1. server.at = "ended"
    BY <1>2, ServerPlaces
  <2>2. ~ main
    BY <1>2, <2>1 DEF main, soap_bind, soap_bind_fails, soap_accept, soap_accept_fails,
          soap_recv_raw, soap_recv_eof, ns__command, ns__addSource, ns__removeSource,
          ns__addDestination, ns__removeDestination, ns__print, exit, lacking, malformed, parse,
          soap_response, soap_response_lost, sigpipe, Starting, Accepting, Ended
  <2>3. /\ UNCHANGED <<flows, server>>
        /\ history' = history \/ history' = [history EXCEPT !.hungUp = TRUE]
    BY <2>2 DEF Next, connect, send, hangUp, leave, vars
  <2>4. \/ history' = history
        \/ /\ history'.hungUp
           /\ \A e \in {"bound", "exited", "lacking"} : history'[e] = history[e]
    BY <1>1, <2>3
  <2> QED
    BY <1>2, <2>3, <2>4 DEF EndsForCause, flows
<1>3. CASE server # Ended /\ server' = Ended
  <2>1. server'.at = "ended"
    BY <1>3 DEF Ended
  <2>2. server.at # "ended"
    BY <1>3, ServerPlaces
  <2>3. ~ Operation
    <3> SUFFICES ASSUME Operation PROVE FALSE
      OBVIOUS
    <3>1. server \in [at : {"recv", "result", "fault"}, k : Conn]
            /\ server' = [server EXCEPT !.at = "result"]
      BY OperationIs, ServerPlaces DEF Answer, parse, Serving
    <3> QED
      BY <2>1, <3>1
  <2>4. CASE soap_bind_fails
    BY <2>4 DEF soap_bind_fails, Starting, Life, ServerLife, EndsForCause
  <2>5. CASE soap_accept_fails
    <3>1. /\ server.at = "accept" /\ backlog # << >>
          /\ UNCHANGED <<flows, history>>
          /\ ~ FreeFd \/ ~ conn[Head(backlog)].up
      BY <2>5 DEF soap_accept_fails, Accepting
    <3>2. CASE ~ FreeFd
      <4>1. TypeOK
        BY TypedTypeOK
      <4>2. Cardinality(held) = 0
        BY <3>1, FS_EmptySet DEF Life, ServerLife
      <4>3. ~ (1 + 0 + Cardinality(taken) + leaked < MaxFd)
        BY <3>2, <4>2 DEF FreeFd
      <4>4. Cardinality(taken) \in Nat /\ leaked \in Nat /\ MaxFd \in Nat
        BY <4>1, FiniteFds
      <4>5. leaked > 0 \/ 1 + Cardinality(taken) >= MaxFd
        BY <4>3, <4>4
      <4> QED
        BY <3>1, <4>5 DEF EndsForCause, flows
    <3>3. CASE ~ conn[Head(backlog)].up
      <4>1. Head(backlog) = backlog[1] /\ 1 \in 1..Len(backlog)
        BY <1>1, <3>1, LenProperties
      <4>2. history.hungUp
        BY <1>1, <3>3, <4>1 DEF Life, BacklogLife, ConnLife
      <4> QED
        BY <3>1, <4>2 DEF EndsForCause
    <3> QED
      BY <3>1, <3>2, <3>3
  <2>6. CASE exit \/ lacking
    <3>1. history'.exited \/ history'.lacking
      BY <1>1, <2>6 DEF exit, lacking
    <3> QED
      BY <3>1 DEF EndsForCause
  <2>7. CASE sigpipe
    <3>1. Serving /\ server.k \in Conn /\ ~ conn[server.k].up /\ history' = history
      BY <2>7, ServerPlaces DEF sigpipe, Serving
    <3>2. history.hungUp
      BY <3>1 DEF Life, ServerLife, ConnLife
    <3> QED
      BY <3>1, <3>2 DEF EndsForCause
  <2>8. ~ (soap_bind \/ soap_accept \/ soap_response \/ soap_response_lost)
    BY <2>1 DEF soap_bind, soap_accept, soap_response, soap_response_lost, Accepting
  <2>9. ~ (soap_recv_raw \/ soap_recv_eof \/ malformed)
    <3>1. server.at = "recv" => server \in [at : {"recv", "result", "fault"}, k : Conn]
      BY ServerPlaces DEF Serving
    <3> QED
      BY <2>1, <3>1 DEF soap_recv_raw, soap_recv_eof, malformed, parse
  <2>10. ~ (UNCHANGED vars \/ \E k \in Conn : connect(k) \/ send(k) \/ hangUp(k) \/ leave(k))
    BY <1>3 DEF vars, connect, send, hangUp, leave
  <2> QED
    BY <2>3, <2>4, <2>5, <2>6, <2>7, <2>8, <2>9, <2>10 DEF Next, main, Operation
<1>4. CASE server' # Ended
  BY <1>4 DEF EndsForCause
<1> QED
  BY <1>2, <1>3, <1>4

\* ... and no other: it serves the next client after a request it can make no sense
\* of, and after a client that has hung up without a signal (main, soap_serve).
THEOREM EndsTheorem == Spec => []EndsForCause
<1>1. Init => EndsForCause
  BY DEF Init, EndsForCause, Starting, Ended
<1> QED
  BY <1>1, TypedInit, TypedStep, LifeInit, LifeStep, EndsStep, PTL DEF Spec

=============================================================================
