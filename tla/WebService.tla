----------------------------- MODULE WebService -----------------------------
(***************************************************************************)
(* The web service over a Manager (examples/WS_strManager, main_ws.cpp):   *)
(* one thread that accepts a connection, receives a request, carries it    *)
(* out and answers, with the part of the gSOAP runtime it runs on          *)
(* (stdsoap2.cpp) between accept() and close().  No timeout is set and no  *)
(* connection is kept alive.                                               *)
(*                                                                         *)
(* A request is a number of parts that arrive one after the other; what it *)
(* asks for is picked when the server parses it.  Of the Manager there is  *)
(* what the service's identifiers and descriptors have to do with: sources *)
(* by identifier with their destinations, and the addresses that are       *)
(* registered, each on a port of its own.  Its calls return: modules       *)
(* Manager, WorkerThreads and RtcpWorker say when they do.                 *)
(***************************************************************************)
EXTENDS Integers, Sequences, FiniteSets

CONSTANTS
    Conn,           \* connections there can be at a time
    Parts,          \* parts of a request
    MaxSent,        \* parts a client may send on a connection: bounds the runs
    Backlog,        \* connections the kernel keeps waiting (100)
    First, Last,    \* the first flowId (100); Last bounds the runs
    SrcAddr,        \* addresses of sources
    Occupied,       \* those whose port is bound by somebody else
    DestAddr,       \* addresses of destinations
    MaxFd,          \* descriptors the process may have open
    None

Id == First..Last
Dest == [id : Id, addr : DestAddr]
Source == [addr : SrcAddr, dests : SUBSET Dest]

ASSUME WebServiceAssumption ==
    /\ IsFiniteSet(Conn) /\ IsFiniteSet(SrcAddr)
    /\ {Parts, MaxFd} \subseteq Nat \ {0}
    /\ {MaxSent, First, Last} \subseteq Nat
    /\ First <= Last + 1
    /\ None \notin Source

VARIABLES
    flowId,
    sources,    \* identifier -> the source the Manager finds under it
    taken,      \* addresses registered in some worker, which listens on their ports
    leaked,     \* descriptors that refused binds have left open
    debug,      \* the logger is enabled for DEBUG
    backlog,    \* connections to be accepted
    conn,       \* connection -> how far it is, what was sent, and the client
    held,       \* connections whose descriptor the server has open
    buf,        \* soap->buf: for each part read and not parsed, its connection
    server,     \* where main() is
    history     \* what has happened so far

Events == {"bound", "numbered", "hungUp", "exited", "lacking"}

flows == <<flowId, sources, taken, leaked>>
vars == <<flows, debug, backlog, conn, held, buf, server, history>>

Starting == [at |-> "start"]
Accepting == [at |-> "accept"]
Ended == [at |-> "ended"]
NoConn == [at |-> "none", sent |-> 0, unread |-> 0, done |-> 0, up |-> FALSE]

TypeOK ==
    /\ flowId \in First..(Last + 1)
    /\ sources \in [Id -> Source \cup {None}]
    /\ taken \in SUBSET SrcAddr
    /\ leaked \in Nat
    /\ debug \in BOOLEAN
    /\ backlog \in Seq(Conn)
    /\ conn \in [Conn -> [at : {"none", "waiting", "result", "fault"}, sent : 0..MaxSent,
                          unread : 0..MaxSent, done : Nat, up : BOOLEAN]]
    /\ held \in SUBSET Conn
    /\ buf \in Seq(Conn)
    /\ server \in {Starting, Accepting, Ended} \cup [at : {"recv", "result", "fault"}, k : Conn]
    /\ history \in [Events -> BOOLEAN]
    /\ 1 + Cardinality(held) + Cardinality(taken) + leaked <= MaxFd

\* The listening socket, the connections, the workers' sockets.
FreeFd == 1 + Cardinality(held) + Cardinality(taken) + leaked < MaxFd

Init ==
    /\ flowId = First
    /\ sources = [id \in Id |-> None]
    /\ taken = {}
    /\ leaked = 0
    /\ debug \in BOOLEAN
    /\ backlog = << >>
    /\ conn = [k \in Conn |-> NoConn]
    /\ held = {}
    /\ buf = << >>
    /\ server = Starting
    /\ history = [h \in Events |-> FALSE]

-----------------------------------------------------------------------------
(* Clients.                                                                *)

connect(k) ==
    /\ history.bound /\ server # Ended
    /\ conn[k] = NoConn
    /\ Len(backlog) < Backlog
    /\ conn' = [conn EXCEPT ![k] = [NoConn EXCEPT !.at = "waiting", !.up = TRUE]]
    /\ backlog' = Append(backlog, k)
    /\ UNCHANGED <<flows, debug, held, buf, server, history>>

\* A part arrives, whether the connection has been accepted or not.  What is sent
\* after Parts parts is trailing bytes or the start of another request.
send(k) ==
    /\ conn[k].at = "waiting" /\ conn[k].up
    /\ conn[k].sent < MaxSent
    /\ conn' = [conn EXCEPT ![k].sent = @ + 1, ![k].unread = @ + 1]
    /\ UNCHANGED <<flows, debug, backlog, held, buf, server, history>>

\* The client closes the connection before it has an answer.
hangUp(k) ==
    /\ conn[k].at = "waiting" /\ conn[k].up
    /\ conn' = [conn EXCEPT ![k].up = FALSE]
    /\ history' = [history EXCEPT !.hungUp = TRUE]
    /\ UNCHANGED <<flows, debug, backlog, held, buf, server>>

\* ... after it.
leave(k) ==
    /\ conn[k].at \in {"result", "fault"}
    /\ conn' = [conn EXCEPT ![k] = NoConn]
    /\ UNCHANGED <<flows, debug, backlog, held, buf, server, history>>

-----------------------------------------------------------------------------
(* What a request does.                                                    *)

\* The Manager registers the address, or refuses it: because it is registered or
\* its port is taken, where bind() may leave a descriptor open, or because the
\* type of worker is unknown.  An identifier in use gets a new list.
managerAddSource(id, a) ==
    \/ /\ a \notin taken \cup Occupied
       /\ FreeFd
       /\ sources' = [sources EXCEPT ![id] = [addr |-> a, dests |-> {}]]
       /\ taken' = taken \cup {a}
       /\ UNCHANGED leaked
    \/ /\ a \in taken \cup Occupied
       /\ FreeFd
       /\ leaked' = leaked + 1
       /\ UNCHANGED <<sources, taken>>
    \/ UNCHANGED <<sources, taken, leaked>>

\* Mutant of addSource: the identifier goes up twice, in caller and callee.
addSourceTwice(id, a) ==
    /\ flowId' = flowId + 2
    /\ managerAddSource(id, a)

addSource(id, a) ==
    /\ flowId' = flowId + 1
    /\ managerAddSource(id, a)

removeSource(id) ==
    /\ sources' = [sources EXCEPT ![id] = None]
    /\ taken' = IF sources[id] = None THEN taken ELSE taken \ {sources[id].addr}
    /\ UNCHANGED <<flowId, leaked>>

HasDest(id, did) == sources[id] # None /\ \E e \in sources[id].dests : e.id = did

\* Mutant of addDestination: a destination takes no identifier.
addDestinationUnnumbered(id, did, d) ==
    /\ sources' = IF sources[id] = None \/ HasDest(id, did) THEN sources
                  ELSE [sources EXCEPT ![id].dests = @ \cup {[id |-> did, addr |-> d]}]
    /\ UNCHANGED <<flowId, taken, leaked>>

addDestination(id, did, d) ==
    /\ flowId' = flowId + 1
    /\ sources' = IF sources[id] = None \/ HasDest(id, did) THEN sources
                  ELSE [sources EXCEPT ![id].dests = @ \cup {[id |-> did, addr |-> d]}]
    /\ UNCHANGED <<taken, leaked>>

removeDestination(id, did) ==
    /\ sources' = IF sources[id] = None THEN sources
                  ELSE [sources EXCEPT ![id].dests = {e \in @ : e.id # did}]
    /\ UNCHANGED <<flowId, taken, leaked>>

\* The line of a command.  The calls are arguments of LOG4CXX_DEBUG, which
\* evaluates them when the logger is enabled for DEBUG.
execute ==
    \/ /\ debug
       /\ \E id \in Id :
            \/ removeSource(id)
            \/ \E did \in Id : removeDestination(id, did)
            \/ /\ flowId <= Last
               /\ \E d \in DestAddr : addDestination(id, flowId, d)
    \/ /\ debug
       /\ flowId <= Last
       /\ \E a \in SrcAddr : addSource(flowId, a)
    \/ UNCHANGED flows

-----------------------------------------------------------------------------
(* The server: the loop of main(), soap_serve and what it calls.           *)

soap_bind ==
    /\ server = Starting
    /\ server' = Accepting
    /\ history' = [history EXCEPT !.bound = TRUE]
    /\ UNCHANGED <<flows, debug, backlog, conn, held, buf>>

\* The port is no port, or is taken.
soap_bind_fails ==
    /\ server = Starting
    /\ server' = Ended
    /\ UNCHANGED <<flows, debug, backlog, conn, held, buf, history>>

\* Mutant of soap_begin_recv: what is left of an earlier request is used.
soap_begin_recv_kept == UNCHANGED buf

\* soap_begin_recv drops what is left in the buffer.
soap_begin_recv == buf' = << >>

soap_accept ==
    /\ server = Accepting
    /\ backlog # << >>
    /\ FreeFd
    /\ backlog' = Tail(backlog)
    /\ held' = held \cup {Head(backlog)}
    /\ server' = [at |-> "recv", k |-> Head(backlog)]
    /\ soap_begin_recv
    /\ UNCHANGED <<flows, debug, conn, history>>

\* accept() fails for want of a descriptor or with an error of the connection:
\* main() leaves its loop.
soap_accept_fails ==
    /\ server = Accepting
    /\ backlog # << >>
    /\ ~ FreeFd \/ ~ conn[Head(backlog)].up
    /\ server' = Ended
    /\ UNCHANGED <<flows, debug, backlog, conn, held, buf, history>>

\* frecv waits for bytes and takes all there are.
soap_recv_raw ==
    /\ server.at = "recv"
    /\ Len(buf) < Parts
    /\ conn[server.k].unread > 0
    /\ buf' = buf \o [i \in 1..conn[server.k].unread |-> server.k]
    /\ conn' = [conn EXCEPT ![server.k].unread = 0]
    /\ UNCHANGED <<flows, debug, backlog, held, server, history>>

\* Mutant of soap_recv_eof: no bytes is taken for no bytes yet.
soap_recv_eof_retried ==
    /\ server.at = "recv"
    /\ Len(buf) < Parts
    /\ conn[server.k].unread = 0 /\ ~ conn[server.k].up
    /\ UNCHANGED vars

\* The end of the connection, where there should be more of the request.
soap_recv_eof ==
    /\ server.at = "recv"
    /\ Len(buf) < Parts
    /\ conn[server.k].unread = 0 /\ ~ conn[server.k].up
    /\ server' = [server EXCEPT !.at = "fault"]
    /\ UNCHANGED <<flows, debug, backlog, conn, held, buf, history>>

\* A request is complete in the buffer, which keeps what follows it.
parse ==
    /\ server.at = "recv"
    /\ Len(buf) >= Parts
    /\ buf' = SubSeq(buf, Parts + 1, Len(buf))

\* The call a request asks for is made; a command is answered true whatever it does.
Answer ==
    /\ conn' = [conn EXCEPT ![Head(buf)].done = @ + 1]
    /\ server' = [server EXCEPT !.at = "result"]
    /\ UNCHANGED <<debug, backlog, held>>

ns__command == parse /\ execute /\ Answer /\ UNCHANGED history

\* A client that adds a source or a destination itself numbers it itself.
Numbering == history' = [history EXCEPT !.numbered = TRUE]

ns__addSource ==
    /\ parse /\ Answer /\ Numbering
    /\ flowId <= Last
    /\ \E id \in Id, a \in SrcAddr : addSource(id, a)

\* The address is read from the pointer to it, and can be any.
ns__addDestination ==
    /\ parse /\ Answer /\ Numbering
    /\ flowId <= Last
    /\ \E id, did \in Id, d \in DestAddr : addDestination(id, did, d)

ns__removeSource ==
    /\ parse /\ Answer /\ UNCHANGED history
    /\ \E id \in Id : removeSource(id)

ns__removeDestination ==
    /\ parse /\ Answer /\ UNCHANGED history
    /\ \E id, did \in Id : removeDestination(id, did)

ns__print == parse /\ Answer /\ UNCHANGED <<flows, history>>

\* The command exit ends the process.
exit ==
    /\ parse
    /\ server' = Ended
    /\ history' = [history EXCEPT !.exited = TRUE]
    /\ UNCHANGED <<flows, debug, backlog, conn, held>>

\* The request lacks an argument: its operation follows a null pointer.
lacking ==
    /\ parse
    /\ server' = Ended
    /\ history' = [history EXCEPT !.lacking = TRUE]
    /\ UNCHANGED <<flows, debug, backlog, conn, held>>

\* It is no request of this service.
malformed ==
    /\ parse
    /\ server' = [server EXCEPT !.at = "fault"]
    /\ UNCHANGED <<flows, debug, backlog, conn, held, history>>

\* Mutant of soap_end: the connection is left open after a fault.
soap_end_open(k) == held' = IF server.at = "fault" THEN held ELSE held \ {k}

\* main() goes on with soap_end, whatever soap_serve returned: it closes the connection.
soap_end(k) == held' = held \ {k}

\* The answer is one send(): the client has it.
soap_response ==
    /\ server.at \in {"result", "fault"}
    /\ conn[server.k].up
    /\ conn' = [conn EXCEPT ![server.k].at = server.at]
    /\ soap_end(server.k)
    /\ server' = Accepting
    /\ UNCHANGED <<flows, debug, backlog, buf, history>>

\* The client is gone: send() succeeds all the same, or fails, ...
soap_response_lost ==
    /\ server.at \in {"result", "fault"}
    /\ ~ conn[server.k].up
    /\ conn' = [conn EXCEPT ![server.k] = NoConn]
    /\ soap_end(server.k)
    /\ server' = Accepting
    /\ UNCHANGED <<flows, debug, backlog, buf, history>>

\* ... or raises SIGPIPE, which nothing ignores.
sigpipe ==
    /\ server.at \in {"result", "fault"}
    /\ ~ conn[server.k].up
    /\ server' = Ended
    /\ UNCHANGED <<flows, debug, backlog, conn, held, buf, history>>

-----------------------------------------------------------------------------
main ==
    \/ soap_bind \/ soap_bind_fails \/ soap_accept \/ soap_accept_fails
    \/ soap_recv_raw \/ soap_recv_eof
    \/ ns__command \/ ns__addSource \/ ns__removeSource
    \/ ns__addDestination \/ ns__removeDestination \/ ns__print \/ exit \/ lacking \/ malformed
    \/ soap_response \/ soap_response_lost \/ sigpipe

Next == main \/ \E k \in Conn : connect(k) \/ send(k) \/ hangUp(k) \/ leave(k)

\* The server goes on when it can; clients do as they please.
Spec == Init /\ [][Next]_vars /\ WF_vars(main)

-----------------------------------------------------------------------------
Flows == {id \in Id : sources[id] # None}

\* While no client numbers flows itself, flows have identifiers of their own, so that
\* a command removes the source or the destination meant and no other: no identifier
\* is given twice, however many additions the Manager has refused.
FlowsDistinct ==
    ~ history.numbered =>
        /\ \A id \in Flows : id < flowId
        /\ \A i, j \in Flows : \A e \in sources[i].dests :
            /\ e.id < flowId
            /\ e.id \notin Flows
            /\ \A f \in sources[j].dests : e.id = f.id => i = j /\ e = f

\* A request is carried out at most once, and a client that is given a result has had
\* its own carried out: the answer is not to bytes that an earlier connection left.
AnswerMeansDone ==
    \A k \in Conn : conn[k].done <= 1 /\ (conn[k].at = "result" => conn[k].done = 1)

\* The server goes on with other clients after every request that it cannot make
\* sense of: it ends because it was asked to, because a request lacked an argument,
\* because a client hung up before its answer, because a refused port cost a
\* descriptor, or because its sources need all.
EndsForCause ==
    server = Ended =>
        \/ ~ history.bound
        \/ history.exited \/ history.lacking
        \/ history.hungUp
        \/ leaked > 0
        \/ 1 + Cardinality(taken) >= MaxFd

\* A client that connects is answered, as long as no client that is being served
\* stays silent for ever in the middle of its request: the thread waits for it.
Answered ==
    (\A k \in Conn : []<>(server.at # "recv" \/ server.k # k \/ conn[k].sent >= Parts
                          \/ ~ conn[k].up))
    => \A k \in Conn : conn[k].at = "waiting" ~> conn[k].at # "waiting" \/ ~ conn[k].up
                                                 \/ server = Ended
=============================================================================
