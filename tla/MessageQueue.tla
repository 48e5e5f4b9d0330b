---------------------------- MODULE MessageQueue ----------------------------
(***************************************************************************)
(* The message queue between workers and their Manager, which every        *)
(* process that uses the library opens by one name, "message_queue".  A    *)
(* handler unlinks the name when it starts and opens a queue of its own; a *)
(* thread that has a queue open keeps it; an exception of an open unlinks  *)
(* the name again (Worker::sendMessage, Manager::messageHandler).          *)
(*                                                                         *)
(* One process is modelled with all its threads: its handler's, its        *)
(* caller's and the run() threads of its workers.  It may exit and start   *)
(* again.  Of another process that uses the library there is what it does  *)
(* to the queue.  A worker is filed, works, is stopped when its last       *)
(* source is removed, and ends; module Manager has the rest of its life.   *)
(***************************************************************************)
EXTENDS Integers, Sequences

CONSTANTS
    WorkerId,   \* identifiers of workers
    Queue,      \* queue objects in shared memory
    Capacity,   \* messages a queue holds (100 in the code)
    None        \* no queue

ASSUME QueueAssumption ==
    /\ Capacity \in Nat \ {0}
    /\ None \notin Queue

Message == [type : {0, 100}, from : WorkerId]

VARIABLES
    name,       \* the queue that "message_queue" names
    content,    \* queue -> messages in it
    handler,    \* where the handler's thread is
    listens,    \* the queue it has open
    table,      \* keys of workerIdWorker
    worker,     \* worker -> how far its run() thread is
    run,        \* worker -> the queue its run() thread is sending to
    caller,     \* where the caller's thread is
    other,      \* the same for another process: its handler's thread and queue
    shared,     \* another process has been up since this one started
    broken      \* a queue was opened before the handler had one, or opening one
                \* has thrown an exception

process == <<handler, listens, table, worker, run, caller>>
history == <<shared, broken>>
vars == <<name, content, process, other, history>>

Up == handler # "down"
Idle == [at |-> "idle"]
Absent == [at |-> "down", q |-> None]
OtherUp == other.at # "down"

TypeOK ==
    /\ name \in Queue \cup {None}
    /\ content \in [Queue -> Seq(Message)]
    /\ \A q \in Queue : Len(content[q]) <= Capacity
    /\ handler \in {"down", "starting", "removed", "listening", "ended"}
    /\ listens \in Queue \cup {None}
    /\ table \in SUBSET WorkerId
    /\ worker \in [WorkerId -> {"none", "working", "stopping", "ended"}]
    /\ run \in [WorkerId -> Queue \cup {None}]
    /\ caller \in {Idle} \cup [at : {"send"}, k : WorkerId, q : Queue]
                         \cup [at : {"join"}, k : WorkerId]
    /\ other \in [at : {"down", "removed"}, q : {None}] \cup [at : {"listening"}, q : Queue]
    /\ shared \in BOOLEAN
    /\ broken \in BOOLEAN

Init ==
    /\ name = None
    /\ content = [q \in Queue |-> << >>]
    /\ handler = "down"
    /\ listens = None
    /\ table = {}
    /\ worker = [k \in WorkerId |-> "none"]
    /\ run = [k \in WorkerId |-> None]
    /\ caller = Idle
    /\ other = Absent
    /\ shared = FALSE
    /\ broken = FALSE

-----------------------------------------------------------------------------
(* Queue objects.                                                          *)

\* Somebody can still reach the object: by its name, or having it open.
Referenced(q) ==
    \/ q \in {name, listens, other.q}
    \/ caller.at = "send" /\ caller.q = q
    \/ \E k \in WorkerId : run[k] = q

\* An unlinked object goes with the last thread that has it open.
Keep(f) == content' = [q \in Queue |-> IF Referenced(q)' THEN f[q] ELSE << >>]

\* open_or_create: the queue of that name, or a new one if there is room for it.
open_or_create(q) ==
    /\ q = IF name # None THEN name ELSE CHOOSE r \in Queue : ~ Referenced(r)
    /\ name = None => ~ Referenced(q)
    /\ name' = q

\* message_queue::remove.
remove == name' = None

\* Mutant of HasRoom: a queue takes one more.
HasRoomForOneMore(q) == Len(content[q]) <= Capacity

HasRoom(q) == Len(content[q]) < Capacity

With(q, type, k) == [content EXCEPT ![q] = Append(@, [type |-> type, from |-> k])]

-----------------------------------------------------------------------------
(* The process.                                                            *)

\* A process creates its Manager, whose constructor starts the handler.
start ==
    /\ ~ Up
    /\ handler' = "starting"
    /\ shared' = OtherUp
    /\ UNCHANGED <<name, content, listens, table, worker, run, caller, other, broken>>

\* It ends, at any point.  Queues stay in shared memory, and so does the name.
exit ==
    /\ Up
    /\ handler' = "down"
    /\ listens' = None
    /\ table' = {}
    /\ worker' = [k \in WorkerId |-> "none"]
    /\ run' = [k \in WorkerId |-> None]
    /\ caller' = Idle
    /\ shared' = FALSE
    /\ broken' = FALSE
    /\ UNCHANGED <<name, other>>
    /\ Keep(content)

-----------------------------------------------------------------------------
(* The handler's thread.                                                   *)

\* Mutant of handlerRemoves: the queue that an earlier process left is used.
handlerRemovesNothing ==
    /\ handler = "starting"
    /\ handler' = "removed"
    /\ UNCHANGED <<name, content, listens, table, worker, run, caller, other, history>>

handlerRemoves ==
    /\ handler = "starting"
    /\ handler' = "removed"
    /\ remove
    /\ UNCHANGED <<listens, table, worker, run, caller, other, history>>
    /\ Keep(content)

\* Mutant of handlerOpens: the name is unlinked after the open.
handlerOpensFirst ==
    /\ handler = "removed"
    /\ handler' = "listening"
    /\ name' = None
    /\ \E q \in Queue : ~ Referenced(q) /\ listens' = q
    /\ UNCHANGED <<content, table, worker, run, caller, other, history>>

handlerOpens ==
    /\ handler = "removed"
    /\ handler' = "listening"
    /\ \E q \in Queue : open_or_create(q) /\ listens' = q
    /\ UNCHANGED <<content, table, worker, run, caller, other, history>>

\* The open throws: the handler unlinks the name and returns.
handlerFails ==
    /\ handler = "removed"
    /\ handler' = "ended"
    /\ remove
    /\ broken' = TRUE
    /\ UNCHANGED <<listens, table, worker, run, caller, other, shared>>
    /\ Keep(content)

\* A message of type 100 erases the worker with its identifier; others are dropped.
receive ==
    /\ handler = "listening"
    /\ content[listens] # << >>
    /\ LET m == Head(content[listens])
       IN  table' = IF m.type = 100 THEN table \ {m.from} ELSE table
    /\ content' = [content EXCEPT ![listens] = Tail(@)]
    /\ UNCHANGED <<name, handler, listens, worker, run, caller, other, history>>

-----------------------------------------------------------------------------
(* sendMessage, by run() and by the caller: the queue is opened for each   *)
(* message, send() waits while it is full, and the queue is closed.        *)

Opening == broken' = (broken \/ handler # "listening")

\* The open throws: the name is unlinked and the message is lost.
Failing == remove /\ broken' = TRUE

\* Nothing was readable in run()'s select(): it has a message of type 0 to send.
idleMessage(k) ==
    /\ worker[k] \in {"working", "stopping"}
    /\ run[k] = None
    /\ \/ Opening /\ \E q \in Queue : open_or_create(q) /\ run' = [run EXCEPT ![k] = q]
       \/ Failing /\ UNCHANGED run
    /\ UNCHANGED <<handler, listens, table, worker, caller, other, shared>>
    /\ Keep(content)

\* run() goes back to the test of working.
idleMessageSent(k) ==
    /\ run[k] # None
    /\ HasRoom(run[k])
    /\ run' = [run EXCEPT ![k] = None]
    /\ worker' = [worker EXCEPT ![k] = IF @ = "stopping" THEN "ended" ELSE @]
    /\ UNCHANGED <<name, handler, listens, table, caller, other, history>>
    /\ Keep(With(run[k], 0, k))

\* run() sees working cleared.
runEnds(k) ==
    /\ worker[k] = "stopping"
    /\ run[k] = None
    /\ worker' = [worker EXCEPT ![k] = "ended"]
    /\ UNCHANGED <<name, content, handler, listens, table, run, caller, other, history>>

-----------------------------------------------------------------------------
(* The caller's thread.                                                    *)

\* Manager::addSource files a worker, under an identifier that is not in use.
addWorker(k) ==
    /\ Up
    /\ caller = Idle
    /\ k \notin table
    /\ worker[k] \in {"none", "ended"}
    /\ table' = table \cup {k}
    /\ worker' = [worker EXCEPT ![k] = "working"]
    /\ UNCHANGED <<name, content, handler, listens, run, caller, other, history>>

\* stop() clears working and waits for the thread.
Stop(k) ==
    /\ caller' = [at |-> "join", k |-> k]
    /\ worker' = [worker EXCEPT ![k] = "stopping"]

\* removeSource of the worker's last source has a message of type 100 to send.
removeSource(k) ==
    /\ caller = Idle
    /\ worker[k] = "working"
    /\ \/ /\ Opening
          /\ \E q \in Queue : open_or_create(q) /\ caller' = [at |-> "send", k |-> k, q |-> q]
          /\ UNCHANGED worker
       \/ Failing /\ Stop(k)
    /\ UNCHANGED <<handler, listens, table, run, other, shared>>
    /\ Keep(content)

\* Mutant of messageSent: a message of type 0.
messageSentAsIdle ==
    /\ caller.at = "send"
    /\ HasRoom(caller.q)
    /\ Stop(caller.k)
    /\ UNCHANGED <<name, handler, listens, table, run, other, history>>
    /\ Keep(With(caller.q, 0, caller.k))

messageSent ==
    /\ caller.at = "send"
    /\ HasRoom(caller.q)
    /\ Stop(caller.k)
    /\ UNCHANGED <<name, handler, listens, table, run, other, history>>
    /\ Keep(With(caller.q, 100, caller.k))

join ==
    /\ caller.at = "join"
    /\ worker[caller.k] = "ended"
    /\ caller' = Idle
    /\ UNCHANGED <<name, content, handler, listens, table, worker, run, other, history>>

-----------------------------------------------------------------------------
(* Another process.                                                        *)

\* Its handler unlinks the name.
otherStarts ==
    /\ ~ OtherUp
    /\ other' = [at |-> "removed", q |-> None]
    /\ remove
    /\ shared' = Up
    /\ UNCHANGED <<process, broken>>
    /\ Keep(content)

otherOpens ==
    /\ other.at = "removed"
    /\ \E q \in Queue : open_or_create(q) /\ other' = [at |-> "listening", q |-> q]
    /\ UNCHANGED <<content, process, history>>

otherReceives ==
    /\ other.at = "listening"
    /\ content[other.q] # << >>
    /\ content' = [content EXCEPT ![other.q] = Tail(@)]
    /\ UNCHANGED <<name, process, other, history>>

\* A worker there, under an identifier that may be in use here, sends a message.
otherSends(type, k) ==
    /\ OtherUp
    /\ \E q \in Queue : /\ open_or_create(q)
                        /\ HasRoom(q)
                        /\ content' = With(q, type, k)
    /\ UNCHANGED <<process, other, history>>

otherExits ==
    /\ OtherUp
    /\ other' = Absent
    /\ UNCHANGED <<name, process, history>>
    /\ Keep(content)

-----------------------------------------------------------------------------
Next ==
    \/ start \/ exit
    \/ handlerRemoves \/ handlerOpens \/ handlerFails \/ receive
    \/ messageSent \/ join
    \/ \E k \in WorkerId : \/ idleMessage(k) \/ idleMessageSent(k) \/ runEnds(k)
                           \/ addWorker(k) \/ removeSource(k)
                           \/ \E type \in {0, 100} : otherSends(type, k)
    \/ otherStarts \/ otherOpens \/ otherReceives \/ otherExits

\* The threads of the process go on when they can; a send() that waits for room has
\* its turn, since a receive() wakes a sender.  Nothing is fair about other processes,
\* nor about the caller's next call.
Fairness ==
    /\ WF_vars(handlerRemoves) /\ WF_vars(handlerOpens) /\ WF_vars(receive)
    /\ SF_vars(messageSent) /\ WF_vars(join)
    /\ \A k \in WorkerId : SF_vars(idleMessageSent(k)) /\ WF_vars(runEnds(k))

Spec == Init /\ [][Next]_vars /\ Fairness

-----------------------------------------------------------------------------
(* A process that no other process has been up with.                       *)

\* A worker is in the table until it is stopped: no message erases another worker
\* than the one that sent it, and none of an earlier process is read, since the
\* handler unlinks the queue that process left.
KnownWhileWorking ==
    \A k \in WorkerId : ~ shared /\ worker[k] = "working" => k \in table

(* ... whose handler had its queue before the first message, and which no  *)
(* exception cost its queue.                                               *)

Undisturbed == Up /\ ~ shared /\ ~ broken

\* Every message is sent to the queue the handler listens on (each open goes by the
\* name, which the handler or a failed open may have unlinked since).
OneQueue ==
    Undisturbed /\ handler = "listening" =>
        /\ name = listens
        /\ \A k \in WorkerId : run[k] \in {None, name}
        /\ caller.at = "send" => caller.q = name

\* A send() that waits for room goes on: run() returns to its sockets and
\* removeSource to its caller, however many messages there are.
SendsReturn ==
    /\ \A k \in WorkerId : run[k] # None ~> run[k] = None \/ ~ Undisturbed
    /\ caller # Idle ~> caller = Idle \/ ~ Undisturbed

\* A worker that has ended is forgotten.
EndedForgotten ==
    \A k \in WorkerId : worker[k] = "ended" ~> k \notin table \/ ~ Undisturbed
=============================================================================
