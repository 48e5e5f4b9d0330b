--------------------------- MODULE WorkerThreads ----------------------------
(***************************************************************************)
(* One Worker and its two threads: the caller's, which holds m_mutex       *)
(* through addSource or removeSource, and run(), which never takes it.     *)
(* Each access to a shared table or to a socket is a step, in the order of *)
(* the code; module Worker has the same operations as one step each.       *)
(*                                                                         *)
(* Concurrent access to a std::hash_map is a data race.  The steps here    *)
(* are the accesses of a table whose operations are atomic, so what goes   *)
(* wrong in this module goes wrong with any table.                         *)
(***************************************************************************)
EXTENDS Integers

CONSTANTS
    IP, Port,       \* source addresses
    Fd,             \* descriptors
    SrcId,          \* identifiers of sources
    MaxAdds,        \* sources the caller adds: bounds the runs
    None,           \* no socket, no packet, no list
    Null            \* a null pointer in management

Addr == IP \X Port
NoFd == -1
Closed == -1
Unbound == 0

ASSUME ThreadsAssumption ==
    /\ Port \subseteq Nat \ {0}
    /\ Fd \subseteq Nat \ {0}
    /\ SrcId \subseteq Nat \ {0}
    /\ MaxAdds \in Nat
    /\ None # Null
    /\ {None, Null} \cap (Addr \cup Port) = {}

VARIABLES
    portListener, portFd, fdPort, management, forwarding, working,
    sock,       \* descriptor -> port of its socket
    data,       \* port -> senders of the datagrams its socket holds
    caller,     \* where the caller's thread is
    adds,       \* how many sources it has added
    removed,    \* it has removed a source
    reopened,   \* and has added one after that
    thread,     \* where run() is
    held,       \* port of the socket a blocked recvfrom() keeps open
    out         \* the last datagram forwarded, and the source it was taken for

tables == <<portListener, portFd, fdPort, management, forwarding>>
kernel == <<sock, data, held>>
history == <<adds, removed, reopened>>
vars == <<tables, working, kernel, caller, history, thread, out>>

ListId == SrcId \cup {0}
IsList(id) == management[id] \notin {None, Null}
isEmpty == \A id \in ListId : management[id] = None

Idle == [at |-> "idle"]
CallerAt == {"portFd", "fdPort", "manage", "forward",
             "erase fdPort", "close", "unforward", "unmanage", "empty"}
Steps == {Idle, [at |-> "join"], [at |-> "stopped"]}
            \cup [at : CallerAt, id : SrcId, a : Addr, fd : Fd \cup {NoFd}]
Top == [at |-> "top"]
Sweep(s, fd) == [at : s, ready : SUBSET Fd, todo : SUBSET Port, fd : fd]
Datagram(s, list) == [at : s, ready : SUBSET Fd, todo : SUBSET Port, fd : Fd, ip : IP,
                      from : Port \cup {None}, port : Port \cup {0}, id : ListId, list : list]

TypeOK ==
    /\ portListener \in [Port -> Nat]
    /\ portFd \in [Port -> Fd \cup {NoFd}]
    /\ fdPort \in [Fd -> Port \cup {0}]
    /\ management \in [ListId -> Addr \cup {None, Null}]
    /\ forwarding \in [Addr -> ListId]
    /\ working \in BOOLEAN
    /\ sock \in [Fd -> Port \cup {Closed, Unbound}]
    /\ data \in [Port -> SUBSET IP]
    /\ caller \in Steps
    /\ adds \in 0..MaxAdds
    /\ removed \in BOOLEAN
    /\ reopened \in BOOLEAN
    /\ thread \in [at : {"top", "ended"}] \cup [at : {"select"}, fds : SUBSET Fd]
                   \cup Sweep({"check"}, {NoFd}) \cup Sweep({"recv", "blocked"}, Fd)
                   \cup Datagram({"port", "lookup", "list"}, {None}) \cup Datagram({"send"}, Addr)
    /\ held \in Port \cup {None}
    /\ out \in [from : Addr, to : Addr] \cup {None}

Init ==
    /\ portListener = [p \in Port |-> 0]
    /\ portFd = [p \in Port |-> NoFd]
    /\ fdPort = [f \in Fd |-> 0]
    /\ management = [id \in ListId |-> None]
    /\ forwarding = [a \in Addr |-> 0]
    /\ working = TRUE
    /\ sock = [f \in Fd |-> Closed]
    /\ data = [p \in Port |-> {}]
    /\ caller = Idle
    /\ adds = 0
    /\ removed = FALSE
    /\ reopened = FALSE
    /\ thread = Top
    /\ held = None
    /\ out = None

-----------------------------------------------------------------------------
(* The kernel.                                                             *)

\* The socket of p is open: a descriptor or a call in progress refers to it.
Bound(p) == held = p \/ \E f \in Fd : sock[f] = p

\* socket() returns the lowest descriptor that is free.
Lowest(f) == sock[f] = Closed /\ \A g \in Fd : g < f => sock[g] # Closed

\* A datagram is put in the socket's buffer.
arrive(ip, p) ==
    /\ Bound(p)
    /\ data' = [data EXCEPT ![p] = @ \cup {ip}]
    /\ UNCHANGED <<tables, working, sock, held, caller, history, thread, out>>

-----------------------------------------------------------------------------
(* addSource.                                                              *)

At(s) == caller.at = s
Goto(s) == caller' = [caller EXCEPT !.at = s]
PortOfCall == caller.a[2]

\* Up to bind(), or to the listener count of a port that is open.
addSource(id, a) ==
    /\ At("idle")
    /\ adds < MaxAdds
    /\ adds' = adds + 1
    /\ reopened' = removed
    /\ ~ IsList(id)
    /\ forwarding[a] = 0
    /\ LET call(s, f) == caller' = [at |-> s, id |-> id, a |-> a, fd |-> f]
           p == a[2]
       IN  \/ /\ portListener[p] # 0
              /\ portListener' = [portListener EXCEPT ![p] = @ + 1]
              /\ call("manage", NoFd)
              /\ UNCHANGED sock
           \/ /\ portListener[p] = 0
              /\ ~ Bound(p)
              /\ \E f \in Fd : /\ Lowest(f)
                               /\ sock' = [sock EXCEPT ![f] = p]
                               /\ call("portFd", f)
              /\ UNCHANGED portListener
           \/ /\ portListener[p] = 0
              /\ Bound(p)
              /\ \E f \in Fd : Lowest(f) /\ sock' = [sock EXCEPT ![f] = Unbound]
              /\ UNCHANGED <<portListener, caller>>
    /\ UNCHANGED <<portFd, fdPort, management, forwarding, working, data, held,
                   removed, thread, out>>

\* An iteration of portFd in progress may or may not meet the new entry.
setPortFd ==
    /\ At("portFd")
    /\ portFd' = [portFd EXCEPT ![PortOfCall] = caller.fd]
    /\ Goto("fdPort")
    /\ \/ UNCHANGED thread
       \/ thread.at \notin {"top", "select", "ended"}
          /\ thread' = [thread EXCEPT !.todo = @ \cup {PortOfCall}]
    /\ UNCHANGED <<portListener, fdPort, management, forwarding, working, kernel, history, out>>

\* Mutant of setFdPort: the first listener is not counted.
setFdPortUncounted ==
    /\ At("fdPort")
    /\ fdPort' = [fdPort EXCEPT ![caller.fd] = PortOfCall]
    /\ Goto("manage")
    /\ UNCHANGED <<portListener, portFd, management, forwarding, working, kernel, history, thread, out>>

setFdPort ==
    /\ At("fdPort")
    /\ fdPort' = [fdPort EXCEPT ![caller.fd] = PortOfCall]
    /\ portListener' = [portListener EXCEPT ![PortOfCall] = 1]
    /\ Goto("manage")
    /\ UNCHANGED <<portFd, management, forwarding, working, kernel, history, thread, out>>

setManagement ==
    /\ At("manage")
    /\ management' = [management EXCEPT ![caller.id] = caller.a]
    /\ Goto("forward")
    /\ UNCHANGED <<portListener, portFd, fdPort, forwarding, working, kernel, history, thread, out>>

setForwarding ==
    /\ At("forward")
    /\ forwarding' = [forwarding EXCEPT ![caller.a] = caller.id]
    /\ caller' = Idle
    /\ UNCHANGED <<portListener, portFd, fdPort, management, working, kernel, history, thread, out>>

-----------------------------------------------------------------------------
(* removeSource.                                                           *)

\* remove_socket up to portFd.erase.
removeSource(id) ==
    /\ At("idle")
    /\ IsList(id)
    /\ removed' = TRUE
    /\ LET a == management[id]
           p == a[2]
           call(s) == caller' = [at |-> s, id |-> id, a |-> a, fd |-> portFd[p]]
       IN  /\ portListener' = [portListener EXCEPT ![p] = @ - 1]
           /\ \/ portListener[p] = 1
                 /\ portFd' = [portFd EXCEPT ![p] = NoFd]
                 /\ call("erase fdPort")
              \/ portListener[p] # 1 /\ call("unforward") /\ UNCHANGED portFd
    /\ UNCHANGED <<fdPort, management, forwarding, working, kernel, adds, reopened, thread, out>>

eraseFdPort ==
    /\ At("erase fdPort")
    /\ fdPort' = [fdPort EXCEPT ![caller.fd] = 0]
    /\ Goto("close")
    /\ UNCHANGED <<portListener, portFd, management, forwarding, working, kernel, history, thread, out>>

\* What the socket holds goes with it, unless a recvfrom() is waiting on it.
closeFd ==
    /\ At("close")
    /\ sock' = [sock EXCEPT ![caller.fd] = Closed]
    /\ data' = IF held = PortOfCall THEN data ELSE [data EXCEPT ![PortOfCall] = {}]
    /\ Goto("unforward")
    /\ UNCHANGED <<tables, working, held, history, thread, out>>

\* Mutant of eraseForwarding: the address stays in the table.
eraseForwardingNot ==
    /\ At("unforward")
    /\ Goto("unmanage")
    /\ UNCHANGED <<tables, working, kernel, history, thread, out>>

eraseForwarding ==
    /\ At("unforward")
    /\ forwarding' = [forwarding EXCEPT ![caller.a] = 0]
    /\ Goto("unmanage")
    /\ UNCHANGED <<portListener, portFd, fdPort, management, working, kernel, history, thread, out>>

eraseManagement ==
    /\ At("unmanage")
    /\ management' = [management EXCEPT ![caller.id] = None]
    /\ Goto("empty")
    /\ UNCHANGED <<portListener, portFd, fdPort, forwarding, working, kernel, history, thread, out>>

\* Mutant of stopIfEmpty: working is not cleared.
stopIfEmptyWaiting ==
    /\ At("empty")
    /\ caller' = IF isEmpty THEN [at |-> "join"] ELSE Idle
    /\ UNCHANGED <<tables, working, kernel, history, thread, out>>

\* stop() clears working and waits for the thread; m_mutex is still held.
stopIfEmpty ==
    /\ At("empty")
    /\ working' = (working /\ ~ isEmpty)
    /\ caller' = IF isEmpty THEN [at |-> "join"] ELSE Idle
    /\ UNCHANGED <<tables, kernel, history, thread, out>>

join ==
    /\ At("join")
    /\ thread.at = "ended"
    /\ caller' = [at |-> "stopped"]
    /\ UNCHANGED <<tables, working, kernel, history, thread, out>>

-----------------------------------------------------------------------------
(* run().                                                                  *)

Run(s) == thread.at = s

\* The loop's test and build_select_list.  With no port open it spins.
top ==
    /\ Run("top")
    /\ LET fds == {portFd[p] : p \in Port} \ {NoFd}
       IN  \/ ~ working /\ thread' = [at |-> "ended"]
           \/ working /\ fds # {} /\ thread' = [at |-> "select", fds |-> fds]
    /\ UNCHANGED <<tables, working, kernel, caller, history, out>>

\* Mutant of Readable: select() is not told of the highest descriptor.
ReadableBelow(fds) ==
    {f \in fds : sock[f] \in Port /\ data[sock[f]] # {} /\ \E g \in fds : f < g}

Readable(fds) == {f \in fds : sock[f] \in Port /\ data[sock[f]] # {}}

\* select() returns the descriptors with a datagram.  It fails when it is given
\* a closed descriptor, and times out when none becomes readable.
select ==
    /\ Run("select")
    /\ \/ /\ Readable(thread.fds) # {}
          /\ thread' = [at |-> "check", ready |-> Readable(thread.fds),
                        todo |-> {p \in Port : portFd[p] # NoFd}, fd |-> NoFd]
       \/ /\ Readable(thread.fds) = {} \/ \E f \in thread.fds : sock[f] = Closed
          /\ thread' = Top
    /\ UNCHANGED <<tables, working, kernel, caller, history, out>>

\* Mutant of visit: every descriptor is processed, readable or not.
visitAll(p) ==
    /\ Run("check")
    /\ p \in thread.todo
    /\ portFd[p] # NoFd
    /\ thread' = [at |-> "recv", ready |-> thread.ready,
                  todo |-> thread.todo \ {p}, fd |-> portFd[p]]
    /\ UNCHANGED <<tables, working, kernel, caller, history, out>>

\* check_select_list, over portFd as it is now.
visit(p) ==
    /\ Run("check")
    /\ p \in thread.todo
    /\ LET next(s, f) == thread' = [at |-> s, ready |-> thread.ready,
                                    todo |-> thread.todo \ {p}, fd |-> f]
       IN  \/ portFd[p] \in thread.ready /\ next("recv", portFd[p])
           \/ portFd[p] \notin thread.ready /\ next("check", NoFd)
    /\ UNCHANGED <<tables, working, kernel, caller, history, out>>

checked ==
    /\ Run("check")
    /\ thread.todo = {}
    /\ thread' = Top
    /\ UNCHANGED <<tables, working, kernel, caller, history, out>>

\* What process() goes on with: the sender, the port of the socket the datagram
\* came from (None after an error) and what it has looked up so far.
Got(s, ip, p) ==
    thread' = [at |-> s, ready |-> thread.ready, todo |-> thread.todo, fd |-> thread.fd,
               ip |-> ip, from |-> p, port |-> 0, id |-> 0, list |-> None]

\* The sender of a received datagram.
take(p) == \E ip \in data[p] : /\ data' = [data EXCEPT ![p] = @ \ {ip}]
                               /\ Got("port", ip, p)

\* recvfrom().  On a closed descriptor it fails, -1 passes for a length, and the
\* sender's address is whatever the stack held.
recvfrom ==
    /\ Run("recv")
    /\ LET p == sock[thread.fd]
       IN  \/ /\ p \in Port /\ data[p] # {}
              /\ take(p)
              /\ UNCHANGED held
           \/ /\ p \in Port /\ data[p] = {}
              /\ held' = p
              /\ thread' = [thread EXCEPT !.at = "blocked"]
              /\ UNCHANGED data
           \/ /\ p \notin Port
              /\ \E ip \in IP : Got("port", ip, None)
              /\ UNCHANGED <<data, held>>
    /\ UNCHANGED <<tables, working, sock, caller, history, out>>

\* A datagram comes for the recvfrom() that waits.
wake ==
    /\ Run("blocked")
    /\ take(held)
    /\ held' = None
    /\ UNCHANGED <<tables, working, sock, caller, history, out>>

\* Mutant of readPort: the port is taken to be that of the first descriptor.
readPortFirst ==
    /\ Run("port")
    /\ thread' = [thread EXCEPT !.at = "lookup",
                                !.port = fdPort[CHOOSE f \in Fd : \A g \in Fd : f <= g]]
    /\ UNCHANGED <<tables, working, kernel, caller, history, out>>

readPort ==
    /\ Run("port")
    /\ thread' = [thread EXCEPT !.at = "lookup", !.port = fdPort[thread.fd]]
    /\ UNCHANGED <<tables, working, kernel, caller, history, out>>

readForwarding ==
    /\ Run("lookup")
    /\ thread' = [thread EXCEPT !.at = "list",
                    !.id = IF thread.port = 0 THEN 0 ELSE forwarding[<<thread.ip, thread.port>>]]
    /\ UNCHANGED <<tables, working, kernel, caller, history, out>>

BackToCheck == [at |-> "check", ready |-> thread.ready, todo |-> thread.todo, fd |-> NoFd]

\* The lookup of a missing list inserts a null pointer and drops the datagram.
readManagement ==
    /\ Run("list")
    /\ \/ /\ IsList(thread.id)
          /\ thread' = [thread EXCEPT !.at = "send", !.list = management[thread.id]]
          /\ UNCHANGED management
       \/ /\ ~ IsList(thread.id)
          /\ management' = [management EXCEPT ![thread.id] = Null]
          /\ thread' = BackToCheck
    /\ UNCHANGED <<portListener, portFd, fdPort, forwarding, working, kernel, caller, history, out>>

\* Nothing is sent from a closed descriptor, nor 2^32 - 1 bytes.
sendto ==
    /\ Run("send")
    /\ out' = IF thread.from = None \/ sock[thread.fd] = Closed THEN out
              ELSE [from |-> <<thread.ip, thread.from>>, to |-> thread.list]
    /\ thread' = BackToCheck
    /\ UNCHANGED <<tables, working, kernel, caller, history>>

-----------------------------------------------------------------------------
callerStep ==
    \/ setPortFd \/ setFdPort \/ setManagement \/ setForwarding
    \/ eraseFdPort \/ closeFd \/ eraseForwarding \/ eraseManagement
    \/ stopIfEmpty \/ join

runStep ==
    \/ top \/ select \/ checked \/ \E p \in Port : visit(p)
    \/ recvfrom \/ wake
    \/ readPort \/ readForwarding \/ readManagement \/ sendto

Next ==
    \/ \E id \in SrcId, a \in Addr : addSource(id, a)
    \/ \E id \in SrcId : removeSource(id)
    \/ callerStep
    \/ runStep
    \/ \E ip \in IP, p \in Port : arrive(ip, p)

\* Both threads are scheduled: a call in progress goes on, and so does run().
\* Nothing makes a datagram arrive or the caller call.
Fairness == WF_vars(callerStep) /\ WF_vars(runStep)

Spec == Init /\ [][Next]_vars /\ Fairness

-----------------------------------------------------------------------------
(* A property for any caller.                                              *)

\* Between two calls the tables agree with each other and with the kernel,
\* whatever run() inserted into them through operator[] in the meantime.
SettledExact ==
    At("idle") =>
        /\ \A p \in Port : portFd[p] # NoFd => /\ fdPort[portFd[p]] = p
                                              /\ sock[portFd[p]] = p
        /\ \A f \in Fd : fdPort[f] # 0 => portFd[fdPort[f]] = f
        /\ \A a \in Addr : forwarding[a] # 0 => management[forwarding[a]] = a
        /\ \A id \in ListId : IsList(id) =>
                /\ forwarding[management[id]] = id
                /\ portFd[management[id][2]] # NoFd

(* Properties of a caller that has added no source after removing one.     *)

\* A datagram is forwarded for the source it came from: the port read from
\* fdPort is still that of the socket recvfrom() read.
ForwardedForSender == ~ reopened /\ out # None => out.to = out.from

\* recvfrom() is called on sockets that have a datagram only.
NeverBlocked == ~ reopened => ~ Run("blocked")

\* stop() returns.
StopReturns == At("join") ~> At("stopped") \/ reopened

\* A datagram in a socket's buffer does not stay there.
DatagramsTaken == \A p \in Port : data[p] # {} ~> data[p] = {} \/ reopened

-----------------------------------------------------------------------------
(* What a doc of the repository says of any caller.                        *)

\* Worker.h:122 "stop method that stops the current worker": stop() comes back
\* with the thread ended, whatever the caller did before.
StopStops == At("join") ~> At("stopped")
=============================================================================
