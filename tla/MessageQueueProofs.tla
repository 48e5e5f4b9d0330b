------------------------- MODULE MessageQueueProofs -------------------------
(***************************************************************************)
(* Proofs about MessageQueue, for any number of workers, queue objects and *)
(* messages a queue holds.  The inductive invariant has three layers: what *)
(* the threads and the queue objects are in, whoever uses the name; the    *)
(* messages the handler will read, as long as no other process is up; and  *)
(* the queue the name stands for, as long as nothing has broken it.        *)
(***************************************************************************)
EXTENDS MessageQueue, SequenceTheorems, TLAPS

\* A handler that listens has a queue open, and no other has.
ListensSomewhere == IF handler = "listening" THEN listens \in Queue ELSE listens = None

\* A process that is not up has no threads.
DownIdle ==
    ~ Up => /\ listens = None /\ caller = Idle
            /\ \A k \in WorkerId : worker[k] = "none" /\ run[k] = None

\* Two processes that are up have been up together.
Alone == Up /\ OtherUp => shared

\* The last message of a worker is sent before it is stopped.
SenderWorks == caller.at = "send" => worker[caller.k] = "working"

\* A queue object is empty when it is created.
UnreferencedEmpty == \A q \in Queue : ~ Referenced(q) => content[q] = << >>

Places == TypeOK /\ ListensSomewhere /\ DownIdle /\ Alone /\ SenderWorks /\ UnreferencedEmpty

\* The queue the handler reads, or would read if it opened one now.
Heard(q) ==
    \/ handler = "listening" /\ q = listens
    \/ handler = "removed" /\ q = name

\* A message that erases a worker is the only one about it, and the worker has been
\* stopped and is in the table.
Due(q, i) ==
    LET m == content[q][i]
    IN  m.type = 100 =>
            /\ m.from \in table
            /\ worker[m.from] \in {"stopping", "ended"}
            /\ \A j \in 1..Len(content[q]) : content[q][j] = m => j = i

HeardDue == ~ shared => \A q \in Queue : Heard(q) => \A i \in 1..Len(content[q]) : Due(q, i)

Messages == HeardDue /\ KnownWhileWorking

\* No queue is opened before the handler's, and none but the handler's after.
Named ==
    Undisturbed =>
        \/ /\ handler = "listening"
           /\ name = listens
           /\ \A k \in WorkerId : run[k] \in {None, name}
           /\ caller.at = "send" => caller.q = name
        \/ /\ handler # "listening"
           /\ \A k \in WorkerId : run[k] = None
           /\ caller.at # "send"

Inv == Places /\ Messages /\ Named

-----------------------------------------------------------------------------
(* Queue objects.                                                          *)

\* An object that an open finds is the one of that name, or nobody has it open.
LEMMA OpenIs ==
    ASSUME NEW q \in Queue, open_or_create(q)
    PROVE  /\ name' = q
           /\ name # None => q = name
           /\ name = None => ~ Referenced(q)
BY DEF open_or_create

\* Keep leaves each object its messages or takes it away.
LEMMA KeepIs ==
    ASSUME NEW f \in [Queue -> Seq(Message)], \A q \in Queue : Len(f[q]) <= Capacity, Keep(f)
    PROVE  /\ content' \in [Queue -> Seq(Message)]
           /\ \A q \in Queue : Len(content'[q]) <= Capacity
           /\ \A q \in Queue : content'[q] = f[q] \/ content'[q] = << >>
           /\ UnreferencedEmpty'
<1>1. /\ content' \in [Queue -> Seq(Message)]
      /\ \A q \in Queue : content'[q] = IF Referenced(q)' THEN f[q] ELSE << >>
  BY DEF Keep
<1>2. Len(<< >>) <= Capacity
  BY QueueAssumption
<1>3. UnreferencedEmpty'
  BY <1>1 DEF UnreferencedEmpty
<1> QED
  BY <1>1, <1>2, <1>3

\* A message is added at the end of a queue that has room.
LEMMA WithIs ==
    ASSUME TypeOK, NEW q \in Queue, HasRoom(q), NEW type \in {0, 100}, NEW k \in WorkerId,
           NEW f, f = With(q, type, k)
    PROVE  /\ f \in [Queue -> Seq(Message)]
           /\ \A r \in Queue : Len(f[r]) <= Capacity
           /\ f[q] = Append(content[q], [type |-> type, from |-> k])
           /\ \A r \in Queue : r # q => f[r] = content[r]
<1> DEFINE m == [type |-> type, from |-> k]
<1>1. m \in Message
  BY DEF Message
<1>2. content \in [Queue -> Seq(Message)] /\ \A r \in Queue : Len(content[r]) <= Capacity
  BY DEF TypeOK
<1>3. content[q] \in Seq(Message) /\ Len(content[q]) < Capacity /\ Capacity \in Nat
  BY <1>2, QueueAssumption DEF HasRoom
<1> HIDE DEF m
<1>4. Append(content[q], m) \in Seq(Message) /\ Len(Append(content[q], m)) <= Capacity
  BY <1>1, <1>3
<1>5. f = [content EXCEPT ![q] = Append(content[q], m)]
  BY DEF With, m
<1>6. f[q] = Append(content[q], m) /\ \A r \in Queue : r # q => f[r] = content[r]
  BY <1>2, <1>5
<1>7. f \in [Queue -> Seq(Message)] /\ \A r \in Queue : Len(f[r]) <= Capacity
  BY <1>2, <1>4, <1>5, <1>6
<1> QED
  BY <1>6, <1>7 DEF m

\* What Keep leaves of the queues that a message was added to.
LEMMA WithKept ==
    ASSUME TypeOK, NEW q \in Queue, HasRoom(q), NEW type \in {0, 100}, NEW k \in WorkerId,
           Keep(With(q, type, k))
    PROVE  /\ content' \in [Queue -> Seq(Message)]
           /\ \A r \in Queue : Len(content'[r]) <= Capacity
           /\ \A r \in Queue : content'[r] = With(q, type, k)[r] \/ content'[r] = << >>
           /\ UnreferencedEmpty'
<1>1. PICK f : f = With(q, type, k)
  OBVIOUS
<1>2. f \in [Queue -> Seq(Message)] /\ \A r \in Queue : Len(f[r]) <= Capacity
  BY <1>1, WithIs, ZenonT(60)
<1>3. Keep(f)
  BY <1>1, Zenon
<1>4. /\ content' \in [Queue -> Seq(Message)]
      /\ \A r \in Queue : Len(content'[r]) <= Capacity
      /\ \A r \in Queue : content'[r] = f[r] \/ content'[r] = << >>
      /\ UnreferencedEmpty'
  BY <1>2, <1>3, KeepIs
<1> QED
  BY <1>1, <1>4, Zenon

\* The first message of a queue is taken.
LEMMA TailIs ==
    ASSUME TypeOK, NEW q \in Queue, content[q] # << >>,
           content' = [content EXCEPT ![q] = Tail(content[q])]
    PROVE  /\ content' \in [Queue -> Seq(Message)]
           /\ \A r \in Queue : Len(content'[r]) <= Capacity
           /\ \A r \in Queue : content'[r] = IF r = q THEN Tail(content[q]) ELSE content[r]
           /\ Head(content[q]) \in Message
<1>1. content \in [Queue -> Seq(Message)] /\ \A r \in Queue : Len(content[r]) <= Capacity
  BY DEF TypeOK
<1>2. content[q] \in Seq(Message) /\ Len(content[q]) <= Capacity /\ Capacity \in Nat
  BY <1>1, QueueAssumption
<1>3. /\ Tail(content[q]) \in Seq(Message) /\ Len(Tail(content[q])) <= Capacity
      /\ Head(content[q]) \in Message
  BY <1>2
<1> QED
  BY <1>1, <1>3

\* The places of the callers and of the other process.
LEMMA CallerPlaces ==
    ASSUME TypeOK
    PROVE  /\ caller.at = "idle" <=> caller = Idle
           /\ caller.at = "send" => caller \in [at : {"send"}, k : WorkerId, q : Queue]
           /\ caller.at = "join" => caller \in [at : {"join"}, k : WorkerId]
           /\ other.at = "listening" => other.q \in Queue
           /\ \A k \in WorkerId : run[k] # None => run[k] \in Queue
           /\ None \notin Queue
BY QueueAssumption DEF TypeOK, Idle

-----------------------------------------------------------------------------
(* Types.                                                                  *)

\* What an open, or a failed one, does to the name.
LEMMA OpeningTypes ==
    ASSUME TypeOK, \/ Opening /\ \E q \in Queue : open_or_create(q)
                   \/ Failing
    PROVE  name' \in Queue \cup {None} /\ broken' \in BOOLEAN
BY DEF TypeOK, Opening, Failing, remove, open_or_create

LEMMA TypedStep ==
    ASSUME TypeOK, ListensSomewhere, [Next]_vars
    PROVE  TypeOK'
<1> USE DEF process, history
<1>0. /\ content \in [Queue -> Seq(Message)]
      /\ \A q \in Queue : Len(content[q]) <= Capacity
  BY DEF TypeOK
<1>1. CASE UNCHANGED vars
  BY <1>1 DEF TypeOK, vars
<1>2. CASE start
  BY <1>2 DEF TypeOK, start, OtherUp
<1>3. CASE exit
  <2>1. /\ content' \in [Queue -> Seq(Message)]
        /\ \A q \in Queue : Len(content'[q]) <= Capacity
    BY <1>0, <1>3, KeepIs DEF exit
  <2> QED
    BY <1>3, <2>1 DEF TypeOK, exit, Idle
<1>4. CASE handlerRemoves
  <2>1. /\ content' \in [Queue -> Seq(Message)]
        /\ \A q \in Queue : Len(content'[q]) <= Capacity
    BY <1>0, <1>4, KeepIs DEF handlerRemoves
  <2> QED
    BY <1>4, <2>1 DEF TypeOK, handlerRemoves, remove
<1>5. CASE handlerOpens
  BY <1>5 DEF TypeOK, handlerOpens, open_or_create
<1>6. CASE handlerFails
  <2>1. /\ content' \in [Queue -> Seq(Message)]
        /\ \A q \in Queue : Len(content'[q]) <= Capacity
    BY <1>0, <1>6, KeepIs DEF handlerFails
  <2> QED
    BY <1>6, <2>1 DEF TypeOK, handlerFails, remove
<1>7. CASE receive
  <2>1. /\ content' \in [Queue -> Seq(Message)]
        /\ \A q \in Queue : Len(content'[q]) <= Capacity
    BY <1>7, TailIs DEF receive, ListensSomewhere
  <2>2. table' \in SUBSET WorkerId
    BY <1>7 DEF TypeOK, receive
  <2> QED
    BY <1>7, <2>1, <2>2 DEF TypeOK, receive
<1>8. ASSUME NEW k \in WorkerId, idleMessage(k)
      PROVE  TypeOK'
  <2>1. /\ content' \in [Queue -> Seq(Message)]
        /\ \A q \in Queue : Len(content'[q]) <= Capacity
    BY <1>0, <1>8, KeepIs DEF idleMessage
  <2>2. name' \in Queue \cup {None} /\ broken' \in BOOLEAN
    BY <1>8, OpeningTypes DEF idleMessage
  <2>3. run' \in [WorkerId -> Queue \cup {None}]
    BY <1>8 DEF TypeOK, idleMessage
  <2> QED
    BY <1>8, <2>1, <2>2, <2>3 DEF TypeOK, idleMessage
<1>9. ASSUME NEW k \in WorkerId, idleMessageSent(k)
      PROVE  TypeOK'
  <2>1. run[k] \in Queue
    BY <1>9, CallerPlaces DEF idleMessageSent
  <2>2. /\ content' \in [Queue -> Seq(Message)]
        /\ \A q \in Queue : Len(content'[q]) <= Capacity
    <3>1. HasRoom(run[k]) /\ Keep(With(run[k], 0, k))
      BY <1>9 DEF idleMessageSent
    <3> QED BY <2>1, <3>1, WithKept
  <2> QED
    BY <1>9, <2>2 DEF TypeOK, idleMessageSent
<1>10. ASSUME NEW k \in WorkerId, runEnds(k)
       PROVE  TypeOK'
  BY <1>10 DEF TypeOK, runEnds
<1>11. ASSUME NEW k \in WorkerId, addWorker(k)
       PROVE  TypeOK'
  BY <1>11 DEF TypeOK, addWorker
<1>12. ASSUME NEW k \in WorkerId, removeSource(k)
       PROVE  TypeOK'
  <2>1. /\ content' \in [Queue -> Seq(Message)]
        /\ \A q \in Queue : Len(content'[q]) <= Capacity
    BY <1>0, <1>12, KeepIs DEF removeSource
  <2>2. name' \in Queue \cup {None} /\ broken' \in BOOLEAN
    BY <1>12, OpeningTypes DEF removeSource
  <2>3. /\ caller' \in [at : {"send"}, k : WorkerId, q : Queue] \cup [at : {"join"}, k : WorkerId]
        /\ worker' \in [WorkerId -> {"none", "working", "stopping", "ended"}]
    BY <1>12 DEF TypeOK, removeSource, Stop
  <2> QED
    BY <1>12, <2>1, <2>2, <2>3 DEF TypeOK, removeSource
<1>13. CASE messageSent
  <2>1. caller.k \in WorkerId /\ caller.q \in Queue
    BY <1>13, CallerPlaces DEF messageSent
  <2>2. /\ content' \in [Queue -> Seq(Message)]
        /\ \A q \in Queue : Len(content'[q]) <= Capacity
    <3>1. HasRoom(caller.q) /\ Keep(With(caller.q, 100, caller.k))
      BY <1>13 DEF messageSent
    <3> QED BY <2>1, <3>1, WithKept
  <2>3. /\ caller' \in [at : {"join"}, k : WorkerId]
        /\ worker' \in [WorkerId -> {"none", "working", "stopping", "ended"}]
    BY <1>13, <2>1 DEF TypeOK, messageSent, Stop
  <2> QED
    BY <1>13, <2>2, <2>3 DEF TypeOK, messageSent
<1>14. CASE join
  BY <1>14 DEF TypeOK, join
<1>15. CASE otherStarts
  <2>1. /\ content' \in [Queue -> Seq(Message)]
        /\ \A q \in Queue : Len(content'[q]) <= Capacity
    BY <1>0, <1>15, KeepIs DEF otherStarts
  <2>2. other' \in [at : {"down", "removed"}, q : {None}] /\ shared' \in BOOLEAN
    BY <1>15 DEF otherStarts, Up
  <2> QED
    BY <1>15, <2>1, <2>2 DEF TypeOK, otherStarts, remove
<1>16. CASE otherOpens
  <2>1. other' \in [at : {"listening"}, q : Queue] /\ name' \in Queue
    BY <1>16 DEF otherOpens, open_or_create
  <2> QED
    BY <1>16, <2>1 DEF TypeOK, otherOpens
<1>17. CASE otherReceives
  <2>1. /\ content' \in [Queue -> Seq(Message)]
        /\ \A q \in Queue : Len(content'[q]) <= Capacity
    BY <1>17, CallerPlaces, TailIs DEF otherReceives
  <2> QED
    BY <1>17, <2>1 DEF TypeOK, otherReceives
<1>18. ASSUME NEW k \in WorkerId, NEW type \in {0, 100}, otherSends(type, k)
       PROVE  TypeOK'
  <2>1. PICK q \in Queue : open_or_create(q) /\ HasRoom(q) /\ content' = With(q, type, k)
    BY <1>18 DEF otherSends
  <2>2. /\ content' \in [Queue -> Seq(Message)]
        /\ \A r \in Queue : Len(content'[r]) <= Capacity
    BY <1>18, <2>1, WithIs, ZenonT(60)
  <2>3. name' = q
    BY <2>1 DEF open_or_create
  <2>4. UNCHANGED <<process, other, history>>
    BY <1>18 DEF otherSends
  <2> QED
    BY <2>2, <2>3, <2>4 DEF TypeOK, process, history
<1>19. CASE otherExits
  <2>1. /\ content' \in [Queue -> Seq(Message)]
        /\ \A q \in Queue : Len(content'[q]) <= Capacity
    BY <1>0, <1>19, KeepIs DEF otherExits
  <2>2. other' \in [at : {"down", "removed"}, q : {None}]
    BY <1>19 DEF otherExits, Absent
  <2> QED
    BY <1>19, <2>1, <2>2 DEF TypeOK, otherExits
<1> QED
  BY <1>1, <1>2, <1>3, <1>4, <1>5, <1>6, <1>7, <1>8, <1>9, <1>10, <1>11, <1>12, <1>13, <1>14,
     <1>15, <1>16, <1>17, <1>18, <1>19 DEF Next

-----------------------------------------------------------------------------
(* Threads and processes.                                                  *)

Threads == ListensSomewhere /\ DownIdle /\ Alone /\ SenderWorks

LEMMA ThreadsStep ==
    ASSUME TypeOK, Threads, [Next]_vars
    PROVE  Threads'
<1> USE DEF process, history, Threads
<1> USE DEF ListensSomewhere, DownIdle, Alone, SenderWorks, Up, OtherUp
<1>0. /\ caller.at = "send" => caller.k \in WorkerId
      /\ caller = Idle => caller.at # "send"
      /\ worker \in [WorkerId -> {"none", "working", "stopping", "ended"}]
      /\ run \in [WorkerId -> Queue \cup {None}]
      /\ handler \in {"down", "starting", "removed", "listening", "ended"}
  BY CallerPlaces DEF TypeOK, Idle
<1>1. CASE UNCHANGED vars
  BY <1>1 DEF vars
<1>2. CASE start
  BY <1>0, <1>2 DEF start
<1>3. CASE exit
  BY <1>0, <1>3 DEF exit, Idle
<1>4. CASE handlerRemoves
  BY <1>0, <1>4 DEF handlerRemoves
<1>5. CASE handlerOpens
  BY <1>0, <1>5 DEF handlerOpens
<1>6. CASE handlerFails
  BY <1>0, <1>6 DEF handlerFails
<1>7. CASE receive
  BY <1>0, <1>7 DEF receive
<1>8. CASE messageSent
  BY <1>0, <1>8 DEF messageSent, Stop
<1>9. CASE join
  BY <1>0, <1>9 DEF join, Idle
<1>10. CASE otherStarts
  BY <1>0, <1>10 DEF otherStarts
<1>11. CASE otherOpens
  BY <1>0, <1>11 DEF otherOpens
<1>12. CASE otherReceives
  BY <1>0, <1>12 DEF otherReceives
<1>13. CASE otherExits
  BY <1>0, <1>13 DEF otherExits, Absent
<1>14. ASSUME NEW k \in WorkerId, idleMessage(k)
       PROVE  Threads'
  BY <1>0, <1>14 DEF idleMessage
<1>15. ASSUME NEW k \in WorkerId, idleMessageSent(k)
       PROVE  Threads'
  BY <1>0, <1>15 DEF idleMessageSent
<1>16. ASSUME NEW k \in WorkerId, runEnds(k)
       PROVE  Threads'
  BY <1>0, <1>16 DEF runEnds
<1>17. ASSUME NEW k \in WorkerId, addWorker(k)
       PROVE  Threads'
  BY <1>0, <1>17 DEF addWorker
<1>18. ASSUME NEW k \in WorkerId, removeSource(k)
       PROVE  Threads'
  BY <1>0, <1>18 DEF removeSource, Stop
<1>19. ASSUME NEW k \in WorkerId, NEW type \in {0, 100}, otherSends(type, k)
       PROVE  Threads'
  BY <1>19 DEF otherSends
<1> QED
  BY <1>1, <1>2, <1>3, <1>4, <1>5, <1>6, <1>7, <1>8, <1>9, <1>10, <1>11, <1>12, <1>13, <1>14, <1>15, <1>16, <1>17, <1>18, <1>19
     DEF Next

\* Steps after which whatever could be reached still can be, and the rest is empty.
LEMMA ReachableStays ==
    ASSUME UnreferencedEmpty,
           \A q \in Queue : Referenced(q) => Referenced(q)',
           \A q \in Queue : content'[q] = content[q] \/ Referenced(q)
    PROVE  UnreferencedEmpty'
BY DEF UnreferencedEmpty

LEMMA UnreferencedStep ==
    ASSUME TypeOK, Threads, UnreferencedEmpty, [Next]_vars
    PROVE  UnreferencedEmpty'
<1> USE DEF process, history
<1>0. /\ content \in [Queue -> Seq(Message)]
      /\ \A q \in Queue : Len(content[q]) <= Capacity
  BY DEF TypeOK
<1>1. CASE UNCHANGED vars
  BY <1>1 DEF vars, UnreferencedEmpty, Referenced
<1>2. CASE exit \/ handlerRemoves \/ handlerFails \/ otherStarts \/ otherExits
  BY <1>0, <1>2, KeepIs DEF exit, handlerRemoves, handlerFails, otherStarts, otherExits
<1>3. ASSUME NEW k \in WorkerId, idleMessage(k) \/ removeSource(k)
      PROVE  UnreferencedEmpty'
  BY <1>0, <1>3, KeepIs DEF idleMessage, removeSource
<1>4. ASSUME NEW k \in WorkerId, idleMessageSent(k)
      PROVE  UnreferencedEmpty'
  <2>1. run[k] \in Queue
    BY <1>4, CallerPlaces DEF idleMessageSent
  <2> QED
    <3>1. HasRoom(run[k]) /\ Keep(With(run[k], 0, k))
      BY <1>4 DEF idleMessageSent
    <3> QED BY <2>1, <3>1, WithKept
<1>5. CASE messageSent
  <2>1. caller.k \in WorkerId /\ caller.q \in Queue
    BY <1>5, CallerPlaces DEF messageSent
  <2> QED
    <3>1. HasRoom(caller.q) /\ Keep(With(caller.q, 100, caller.k))
      BY <1>5 DEF messageSent
    <3> QED BY <2>1, <3>1, WithKept
<1>6. CASE start
  BY <1>6, ReachableStays DEF start, Referenced
<1>7. CASE handlerOpens
  <2>1. PICK q \in Queue : open_or_create(q) /\ listens' = q
    BY <1>7 DEF handlerOpens
  <2>2. name' = q /\ (name # None => name = q)
    BY <2>1, OpenIs
  <2>3. listens = None
    BY <1>7 DEF handlerOpens, Threads, ListensSomewhere
  <2> QED
    BY <1>7, <2>1, <2>2, <2>3, ReachableStays, CallerPlaces DEF handlerOpens, Referenced
<1>8. CASE receive
  <2>1. listens \in Queue /\ content' = [content EXCEPT ![listens] = Tail(@)]
    BY <1>8 DEF receive, Threads, ListensSomewhere
  <2>2. \A q \in Queue : content'[q] = content[q] \/ Referenced(q)
    BY <1>0, <2>1 DEF Referenced
  <2> QED
    BY <1>8, <2>2, ReachableStays DEF receive, Referenced
<1>9. ASSUME NEW k \in WorkerId, runEnds(k)
      PROVE  UnreferencedEmpty'
  BY <1>9, ReachableStays DEF runEnds, Referenced
<1>10. ASSUME NEW k \in WorkerId, addWorker(k)
       PROVE  UnreferencedEmpty'
  BY <1>10, ReachableStays DEF addWorker, Referenced
<1>11. CASE join
  BY <1>11, ReachableStays DEF join, Referenced
<1>12. CASE otherOpens
  <2>1. PICK q \in Queue : open_or_create(q) /\ other' = [at |-> "listening", q |-> q]
    BY <1>12 DEF otherOpens
  <2>2. name' = q /\ (name # None => name = q)
    BY <2>1, OpenIs
  <2>3. other.q = None
    BY <1>12 DEF otherOpens, TypeOK
  <2> QED
    BY <1>12, <2>1, <2>2, <2>3, ReachableStays, CallerPlaces DEF otherOpens, Referenced
<1>13. CASE otherReceives
  <2>1. other.q \in Queue /\ content' = [content EXCEPT ![other.q] = Tail(@)]
    BY <1>13, CallerPlaces DEF otherReceives
  <2>2. \A q \in Queue : content'[q] = content[q] \/ Referenced(q)
    BY <1>0, <2>1 DEF Referenced
  <2> QED
    BY <1>13, <2>2, ReachableStays DEF otherReceives, Referenced
<1>14. ASSUME NEW k \in WorkerId, NEW type \in {0, 100}, otherSends(type, k)
       PROVE  UnreferencedEmpty'
  <2>1. PICK q \in Queue : open_or_create(q) /\ HasRoom(q) /\ content' = With(q, type, k)
    BY <1>14 DEF otherSends
  <2>2. name' = q /\ (name # None => name = q)
    BY <2>1, OpenIs
  <2>3. \A r \in Queue : r # q => content'[r] = content[r]
    BY <1>0, <2>1 DEF With
  <2>4. \A r \in Queue : Referenced(r) => Referenced(r)'
    <3>1. UNCHANGED <<listens, caller, run, other>>
      BY <1>14 DEF otherSends
    <3> QED
      BY <2>2, <3>1, CallerPlaces DEF Referenced
  <2>5. Referenced(q)'
    BY <2>2 DEF Referenced
  <2> QED
    BY <2>3, <2>4, <2>5 DEF UnreferencedEmpty
<1> QED
  BY <1>1, <1>2, <1>3, <1>4, <1>5, <1>6, <1>7, <1>8, <1>9, <1>10, <1>11, <1>12, <1>13, <1>14
     DEF Next

LEMMA PlacesStep ==
    ASSUME Places, [Next]_vars
    PROVE  Places'
BY TypedStep, ThreadsStep, UnreferencedStep DEF Places, Threads

-----------------------------------------------------------------------------
(* The messages the handler will read.                                     *)

\* Nothing is heard by a handler that has not removed the queue yet or has ended.
LEMMA NothingHeard ==
    ASSUME handler' \notin {"listening", "removed"}
    PROVE  HeardDue'
BY DEF HeardDue, Heard

\* What is heard stays, or a queue is opened that is empty.
LEMMA HeardKept ==
    ASSUME HeardDue, ~ shared' => ~ shared,
           \A q \in Queue : Heard(q)' => \/ content'[q] = << >>
                                         \/ Heard(q) /\ content'[q] = content[q],
           \A k \in table : worker[k] \in {"stopping", "ended"} =>
                                k \in table' /\ worker'[k] \in {"stopping", "ended"}
    PROVE  HeardDue'
<1> SUFFICES ASSUME ~ shared', NEW q \in Queue, Heard(q)', NEW i \in 1..Len(content'[q])
             PROVE  Due(q, i)'
  BY DEF HeardDue
<1>1. CASE content'[q] = << >>
  BY <1>1
<1>2. CASE Heard(q) /\ content'[q] = content[q]
  <2>1. Due(q, i)
    BY <1>2 DEF HeardDue
  <2> QED
    BY <1>2, <2>1 DEF Due
<1> QED
  BY <1>1, <1>2

\* A message is sent to a queue that is heard, or not.
LEMMA HeardSent ==
    ASSUME TypeOK, HeardDue, KnownWhileWorking, NEW r \in Queue, HasRoom(r),
           NEW t \in {0, 100}, NEW k \in WorkerId, Keep(With(r, t, k)),
           UNCHANGED <<name, handler, listens, table, shared>>,
           \A j \in WorkerId : worker[j] \in {"stopping", "ended"} =>
                                    worker'[j] \in {"stopping", "ended"},
           t = 100 => worker[k] = "working" /\ worker'[k] = "stopping"
    PROVE  HeardDue'
<1> DEFINE m == [type |-> t, from |-> k]
<1>1. /\ m \in Message /\ m.type = t /\ m.from = k
      /\ content \in [Queue -> Seq(Message)] /\ content[r] \in Seq(Message)
  BY DEF Message, TypeOK
<1> HIDE DEF m
<1> SUFFICES ASSUME ~ shared, NEW q \in Queue, Heard(q), NEW i \in 1..Len(content'[q])
             PROVE  Due(q, i)'
  BY DEF HeardDue, Heard
<1>2. \A n \in 1..Len(content[q]) : Due(q, n)
  BY DEF HeardDue
<1>3. content'[q] = With(r, t, k)[q]
  <2>1. content'[q] = With(r, t, k)[q] \/ content'[q] = << >>
    BY WithKept
  <2>2. content'[q] # << >>
    OBVIOUS
  <2> QED
    BY <2>1, <2>2
<1>4. CASE q # r
  <2>1. content'[q] = content[q]
    BY <1>1, <1>3, <1>4 DEF With
  <2>2. Due(q, i)
    BY <1>2, <2>1
  <2>3. content[q][i] \in Message
    BY <1>1, <2>1
  <2> QED
    BY <2>1, <2>2, <2>3 DEF Due, Message
<1>5. CASE q = r
  <2>1. content'[q] = Append(content[q], m)
    BY <1>1, <1>3, <1>5 DEF With, m
  <2>2. content[q] \in Seq(Message) /\ Len(content[q]) \in Nat
    BY <1>1
  <2>3. /\ Len(content'[q]) = Len(content[q]) + 1
        /\ content'[q][Len(content[q]) + 1] = m
        /\ \A n \in 1..Len(content[q]) : content'[q][n] = content[q][n]
    BY <1>1, <2>1, <2>2
  <2>4. \A n \in 1..Len(content[q]) : content[q][n] \in Message
    BY <2>2
  <2>5. \A n \in 1..Len(content[q]) : content[q][n].type = 100 => content[q][n] # m
    BY <1>1, <1>2 DEF Due
  <2>6. CASE i = Len(content[q]) + 1
    <3>1. content'[q][i] = m
      BY <2>3, <2>6
    <3>2. t = 100 => k \in table /\ worker'[k] \in {"stopping", "ended"}
      BY DEF KnownWhileWorking
    <3>3. t = 100 => \A j \in 1..Len(content'[q]) : content'[q][j] = m => j = i
      <4>1. SUFFICES ASSUME t = 100, NEW j \in 1..Len(content'[q]), content'[q][j] = m, j # i
                     PROVE  FALSE
        OBVIOUS
      <4>2. j \in 1..Len(content[q])
        BY <2>2, <2>3, <2>6, <4>1
      <4> QED
        BY <1>1, <2>3, <2>5, <4>1, <4>2
    <3> QED
      BY <1>1, <3>1, <3>2, <3>3 DEF Due
  <2>7. CASE i \in 1..Len(content[q])
    <3>1. content'[q][i] = content[q][i] /\ Due(q, i) /\ content[q][i] \in Message
      BY <1>2, <2>3, <2>4, <2>7
    <3>2. SUFFICES ASSUME content[q][i].type = 100
                   PROVE  /\ content[q][i].from \in table
                          /\ worker'[content[q][i].from] \in {"stopping", "ended"}
                          /\ \A j \in 1..Len(content'[q]) : content'[q][j] = content[q][i] => j = i
      BY <3>1 DEF Due
    <3>3. /\ content[q][i].from \in table /\ content[q][i].from \in WorkerId
          /\ worker[content[q][i].from] \in {"stopping", "ended"}
          /\ \A j \in 1..Len(content[q]) : content[q][j] = content[q][i] => j = i
      BY <3>1, <3>2 DEF Due, Message
    <3>4. ASSUME NEW j \in 1..Len(content'[q]), content'[q][j] = content[q][i]
          PROVE  j = i
      <4>1. j # Len(content[q]) + 1
        BY <2>3, <2>5, <2>7, <3>2, <3>4
      <4>2. j \in 1..Len(content[q])
        BY <2>2, <2>3, <4>1
      <4> QED
        BY <2>3, <3>3, <3>4, <4>2
    <3> QED
      BY <3>3, <3>4
  <2> QED
    BY <2>2, <2>3, <2>6, <2>7
<1> QED
  BY <1>4, <1>5

\* The first message is read; no other is about its worker.
LEMMA receiveStep ==
    ASSUME Places, Messages, receive
    PROVE  Messages'
<1>1. /\ handler = "listening" /\ listens \in Queue
      /\ content[listens] # << >>
      /\ content' = [content EXCEPT ![listens] = Tail(content[listens])]
      /\ UNCHANGED <<name, handler, listens, worker, shared>>
  BY DEF receive, history, Places, ListensSomewhere
<1> DEFINE s == content[listens]
           m == Head(s)
<1>2. TypeOK /\ HeardDue /\ KnownWhileWorking
  BY DEF Places, Messages
<1>3. s \in Seq(Message) /\ m \in Message /\ content'[listens] = Tail(s)
  BY <1>1, <1>2, TailIs DEF TypeOK
<1>4. /\ m = s[1] /\ 1 \in 1..Len(s) /\ Len(s) \in Nat
      /\ Len(Tail(s)) = Len(s) - 1
      /\ \A i \in 1..Len(Tail(s)) : Tail(s)[i] = s[i + 1] /\ i + 1 \in 1..Len(s) /\ i + 1 # 1
  BY <1>1, <1>3
<1>5. table' = IF m.type = 100 THEN table \ {m.from} ELSE table
  BY DEF receive
<1>6. ~ shared => \A i \in 1..Len(s) : Due(listens, i)
  BY <1>1, <1>2 DEF HeardDue, Heard
<1>7. KnownWhileWorking'
  <2>1. ~ shared /\ m.type = 100 => worker[m.from] \in {"stopping", "ended"}
    BY <1>4, <1>6 DEF Due
  <2> QED
    BY <1>1, <1>2, <1>5, <2>1 DEF KnownWhileWorking
<1>8. HeardDue'
  <2>1. SUFFICES ASSUME ~ shared, NEW i \in 1..Len(Tail(s))
                 PROVE  Due(listens, i)'
    BY <1>1, <1>3 DEF HeardDue, Heard
  <2>2. /\ Tail(s)[i] = s[i + 1] /\ i + 1 \in 1..Len(s) /\ i + 1 # 1
        /\ s[i + 1] \in Message
    BY <1>3, <1>4
  <2>3. Due(listens, i + 1)
    BY <1>6, <2>1, <2>2
  <2>4. SUFFICES ASSUME s[i + 1].type = 100
                 PROVE  /\ s[i + 1].from \in table'
                        /\ worker[s[i + 1].from] \in {"stopping", "ended"}
                        /\ \A j \in 1..Len(Tail(s)) : Tail(s)[j] = s[i + 1] => j = i
    <3>1. /\ content'[listens] = Tail(s) /\ Tail(s)[i] = s[i + 1]
          /\ UNCHANGED <<listens, worker>>
      BY <1>1, <1>3, <2>2
    <3> HIDE DEF s
    <3> QED
      BY <3>1 DEF Due
  <2>5. /\ s[i + 1].from \in table
        /\ worker[s[i + 1].from] \in {"stopping", "ended"}
        /\ \A j \in 1..Len(s) : s[j] = s[i + 1] => j = i + 1
    BY <2>3, <2>4 DEF Due
  <2>6. m # s[i + 1]
    BY <1>4, <2>2, <2>5
  <2>7. ~ (m.type = 100 /\ m.from = s[i + 1].from)
    BY <1>3, <2>2, <2>4, <2>6 DEF Message
  <2>8. \A j \in 1..Len(Tail(s)) : Tail(s)[j] = s[i + 1] => j = i
    <3>1. SUFFICES ASSUME NEW j \in 1..Len(Tail(s)), Tail(s)[j] = s[i + 1]
                   PROVE  j = i
      OBVIOUS
    <3>2. s[j + 1] = s[i + 1] /\ j + 1 \in 1..Len(s)
      BY <1>4, <3>1
    <3>3. j + 1 = i + 1
      BY <2>5, <3>2
    <3> QED
      BY <3>3
  <2> QED
    BY <1>5, <2>5, <2>7, <2>8
<1> QED
  BY <1>7, <1>8 DEF Messages

\* Another process that is up while this one is may read and send what it likes; while
\* this one is not up, nothing is heard.
LEMMA OthersMessages ==
    ASSUME Places, Messages, OtherUp, UNCHANGED <<process, shared>>
    PROVE  Messages'
<1>1. UNCHANGED <<handler, table, worker, shared>>
  BY DEF process
<1>2. KnownWhileWorking'
  BY <1>1 DEF Messages, KnownWhileWorking
<1>3. CASE Up
  <2>1. shared
    BY <1>3 DEF Places, Alone
  <2> QED
    BY <1>1, <1>2, <2>1 DEF Messages, HeardDue
<1>4. CASE ~ Up
  BY <1>1, <1>2, <1>4, NothingHeard DEF Messages, Up
<1> QED
  BY <1>3, <1>4

LEMMA MessagesStep ==
    ASSUME Places, Messages, [Next]_vars
    PROVE  Messages'
<1> USE DEF process, history
<1>0. /\ TypeOK /\ HeardDue /\ KnownWhileWorking
      /\ content \in [Queue -> Seq(Message)] /\ \A q \in Queue : Len(content[q]) <= Capacity
      /\ worker \in [WorkerId -> {"none", "working", "stopping", "ended"}]
      /\ table \in SUBSET WorkerId
      /\ None \notin Queue
      /\ \A q \in Queue : ~ Referenced(q) => content[q] = << >>
  BY QueueAssumption DEF Places, Messages, TypeOK, UnreferencedEmpty
<1>1. CASE UNCHANGED vars
  BY <1>1 DEF vars, Messages, HeardDue, Heard, Due, KnownWhileWorking
<1>2. CASE start
  <2>1. handler' = "starting" /\ worker' = worker /\ \A k \in WorkerId : worker[k] = "none"
    BY <1>2 DEF start, Places, DownIdle
  <2> QED
    BY <2>1, NothingHeard DEF Messages, KnownWhileWorking
<1>3. CASE exit
  <2>1. handler' = "down" /\ \A k \in WorkerId : worker'[k] = "none"
    BY <1>3 DEF exit
  <2> QED
    BY <2>1, NothingHeard DEF Messages, KnownWhileWorking
<1>4. CASE handlerRemoves
  <2>1. handler' = "removed" /\ name' = None /\ UNCHANGED <<table, worker, shared>>
    BY <1>4 DEF handlerRemoves, remove
  <2>2. \A q \in Queue : ~ Heard(q)'
    BY <1>0, <2>1 DEF Heard
  <2> QED
    BY <1>0, <2>1, <2>2 DEF Messages, HeardDue, KnownWhileWorking
<1>5. CASE handlerOpens
  <2>1. PICK q \in Queue : open_or_create(q) /\ listens' = q
    BY <1>5 DEF handlerOpens
  <2>2. /\ handler = "removed" /\ handler' = "listening"
        /\ UNCHANGED <<content, table, worker, shared>>
    BY <1>5 DEF handlerOpens
  <2>3. content[q] = << >> \/ Heard(q)
    BY <1>0, <2>1, <2>2, OpenIs DEF Heard
  <2>4. \A r \in Queue : Heard(r)' => r = q
    BY <2>1, <2>2 DEF Heard
  <2>5. HeardDue'
    BY <1>0, <2>2, <2>3, <2>4, HeardKept
  <2> QED
    BY <1>0, <2>2, <2>5 DEF Messages, KnownWhileWorking
<1>6. CASE handlerFails
  <2>1. handler' = "ended" /\ UNCHANGED <<table, worker, shared>>
    BY <1>6 DEF handlerFails
  <2> QED
    BY <1>0, <2>1, NothingHeard DEF Messages, KnownWhileWorking
<1>7. CASE receive
  BY <1>7, receiveStep
<1>8. ASSUME NEW k \in WorkerId, idleMessage(k) \/ removeSource(k)
      PROVE  Messages'
  <2>1. /\ UNCHANGED <<handler, listens, table, shared>>
        /\ \A j \in WorkerId : \/ worker'[j] = worker[j]
                               \/ worker[j] = "working" /\ worker'[j] = "stopping"
    BY <1>0, <1>8 DEF idleMessage, removeSource, Stop
  <2>2. \A q \in Queue : content'[q] = content[q] \/ content'[q] = << >>
    BY <1>0, <1>8, KeepIs DEF idleMessage, removeSource
  <2>3. name' = None \/ \E q \in Queue : open_or_create(q)
    BY <1>8 DEF idleMessage, removeSource, Failing, remove
  <2>4. \A q \in Queue : q = name' => q = name \/ content[q] = << >>
    BY <1>0, <2>3, OpenIs
  <2>5. \A q \in Queue : Heard(q)' =>
            \/ content'[q] = << >>
            \/ Heard(q) /\ content'[q] = content[q]
    <3>1. SUFFICES ASSUME NEW q \in Queue, Heard(q)', content'[q] # << >>
                   PROVE  Heard(q) /\ content'[q] = content[q]
      OBVIOUS
    <3>2. content'[q] = content[q] /\ content[q] # << >>
      BY <2>2, <3>1
    <3>3. q = name' => q = name
      BY <2>4, <3>2
    <3> QED
      BY <2>1, <3>1, <3>2, <3>3 DEF Heard
  <2>6. \A j \in table : worker[j] \in {"stopping", "ended"} =>
                             j \in table' /\ worker'[j] \in {"stopping", "ended"}
    BY <1>0, <2>1
  <2>7. HeardDue'
    BY <1>0, <2>1, <2>5, <2>6, HeardKept
  <2> QED
    BY <1>0, <2>1, <2>7 DEF Messages, KnownWhileWorking
<1>9. ASSUME NEW k \in WorkerId, idleMessageSent(k)
      PROVE  Messages'
  <2>1. /\ run[k] \in Queue /\ HasRoom(run[k]) /\ Keep(With(run[k], 0, k))
        /\ UNCHANGED <<name, handler, listens, table, shared>>
        /\ worker' = [worker EXCEPT ![k] = IF @ = "stopping" THEN "ended" ELSE @]
    BY <1>0, <1>9, CallerPlaces DEF idleMessageSent
  <2>2. \A j \in WorkerId : worker[j] \in {"stopping", "ended"} =>
                                worker'[j] \in {"stopping", "ended"}
    BY <1>0, <2>1
  <2>3. \A j \in WorkerId : worker'[j] = "working" => worker[j] = "working"
    BY <1>0, <2>1
  <2>4. HeardDue'
    BY <1>0, <2>1, <2>2, HeardSent
  <2> QED
    BY <1>0, <2>1, <2>3, <2>4 DEF Messages, KnownWhileWorking
<1>10. ASSUME NEW k \in WorkerId, runEnds(k)
       PROVE  Messages'
  <2>1. /\ UNCHANGED <<name, content, handler, listens, table, shared>>
        /\ \A j \in WorkerId : \/ worker'[j] = worker[j]
                               \/ worker[j] = "stopping" /\ worker'[j] = "ended"
    BY <1>0, <1>10 DEF runEnds
  <2>2. HeardDue'
    BY <1>0, <2>1, HeardKept DEF Heard
  <2> QED
    BY <1>0, <2>1, <2>2 DEF Messages, KnownWhileWorking
<1>11. ASSUME NEW k \in WorkerId, addWorker(k)
       PROVE  Messages'
  <2>1. /\ UNCHANGED <<name, content, handler, listens, shared>>
        /\ k \notin table /\ table' = table \cup {k}
        /\ \A j \in WorkerId : j # k => worker'[j] = worker[j]
    BY <1>0, <1>11 DEF addWorker
  <2>2. \A j \in table : worker[j] \in {"stopping", "ended"} =>
                             j \in table' /\ worker'[j] \in {"stopping", "ended"}
    BY <1>0, <2>1
  <2>3. HeardDue'
    BY <1>0, <2>1, <2>2, HeardKept DEF Heard
  <2> QED
    BY <1>0, <2>1, <2>3 DEF Messages, KnownWhileWorking
<1>12. CASE messageSent
  <2>1. /\ caller.q \in Queue /\ caller.k \in WorkerId
        /\ HasRoom(caller.q) /\ Keep(With(caller.q, 100, caller.k))
        /\ UNCHANGED <<name, handler, listens, table, shared>>
        /\ worker[caller.k] = "working"
        /\ worker' = [worker EXCEPT ![caller.k] = "stopping"]
    BY <1>0, <1>12, CallerPlaces DEF messageSent, Stop, Places, SenderWorks
  <2>2. \A j \in WorkerId : worker[j] \in {"stopping", "ended"} =>
                                worker'[j] \in {"stopping", "ended"}
    BY <1>0, <2>1
  <2>3. \A j \in WorkerId : worker'[j] = "working" => worker[j] = "working"
    BY <1>0, <2>1
  <2>4. worker'[caller.k] = "stopping"
    BY <1>0, <2>1
  <2>5. HeardDue'
    BY <1>0, <2>1, <2>2, <2>4, HeardSent
  <2> QED
    BY <1>0, <2>1, <2>3, <2>5 DEF Messages, KnownWhileWorking
<1>13. CASE join
  BY <1>13 DEF join, Messages, HeardDue, Heard, Due, KnownWhileWorking
<1>14. CASE otherStarts
  <2>1. UNCHANGED <<handler, table, worker>> /\ shared' = Up
    BY <1>14 DEF otherStarts
  <2>2. CASE Up
    BY <2>1, <2>2 DEF Messages, HeardDue, KnownWhileWorking
  <2>3. CASE ~ Up
    <3>1. \A k \in WorkerId : worker'[k] = "none"
      BY <2>1, <2>3 DEF Places, DownIdle
    <3>2. HeardDue'
      BY <2>1, <2>3, NothingHeard DEF Up
    <3> QED
      BY <3>1, <3>2 DEF Messages, KnownWhileWorking
  <2> QED
    BY <2>2, <2>3
<1>15. CASE otherOpens
  BY <1>15, OthersMessages DEF otherOpens, OtherUp
<1>16. CASE otherReceives
  BY <1>16, OthersMessages DEF otherReceives, OtherUp
<1>17. ASSUME NEW k \in WorkerId, NEW type \in {0, 100}, otherSends(type, k)
       PROVE  Messages'
  BY <1>17, OthersMessages DEF otherSends
<1>18. CASE otherExits
  <2>1. UNCHANGED <<name, handler, listens, table, worker, shared>>
    BY <1>18 DEF otherExits
  <2>2. \A q \in Queue : content'[q] = content[q] \/ content'[q] = << >>
    BY <1>0, <1>18, KeepIs DEF otherExits
  <2>3. HeardDue'
    BY <1>0, <2>1, <2>2, HeardKept DEF Heard
  <2> QED
    BY <1>0, <2>1, <2>3 DEF Messages, KnownWhileWorking
<1> QED
  BY <1>1, <1>2, <1>3, <1>4, <1>5, <1>6, <1>7, <1>8, <1>9, <1>10, <1>11, <1>12, <1>13, <1>14,
     <1>15, <1>16, <1>17, <1>18 DEF Next

-----------------------------------------------------------------------------
(* The queue that the name stands for.                                     *)

\* What is open of this process stays, and so does the name.
LEMMA NamedKept ==
    ASSUME Named, UNCHANGED <<name, handler, listens, run>>, caller'.at = "send" => caller' = caller,
           ~ shared' => ~ shared, ~ broken' => ~ broken
    PROVE  Named'
BY DEF Named, Undisturbed, Up

LEMMA NamedStep ==
    ASSUME Places, Named, [Next]_vars
    PROVE  Named'
<1> USE DEF process, history
<1>0. /\ run \in [WorkerId -> Queue \cup {None}]
      /\ handler \in {"down", "starting", "removed", "listening", "ended"}
      /\ handler = "listening" => listens \in Queue
      /\ None \notin Queue
      /\ caller.at = "send" => Up /\ caller.q \in Queue
      /\ \A k \in WorkerId : run[k] # None => Up
  BY CallerPlaces, QueueAssumption DEF Places, TypeOK, ListensSomewhere, DownIdle, Idle
<1>1. CASE UNCHANGED vars
  BY <1>1, NamedKept DEF vars
<1>2. CASE start
  <2>1. /\ handler' = "starting" /\ UNCHANGED <<run, caller>>
        /\ caller = Idle /\ \A k \in WorkerId : run[k] = None
    BY <1>2 DEF start, Places, DownIdle
  <2> QED
    BY <2>1 DEF Named, Idle
<1>3. CASE exit
  BY <1>3 DEF exit, Named, Undisturbed, Up
<1>4. CASE handlerRemoves
  BY <1>4 DEF handlerRemoves, Named, Undisturbed, Up
<1>5. CASE handlerOpens
  <2>1. /\ name' = listens' /\ handler' = "listening" /\ handler = "removed"
        /\ UNCHANGED <<run, caller, shared, broken>>
    BY <1>5 DEF handlerOpens, open_or_create
  <2> QED
    BY <2>1 DEF Named, Undisturbed, Up
<1>6. CASE handlerFails
  BY <1>6 DEF handlerFails, Named, Undisturbed
<1>7. CASE receive
  BY <1>7, NamedKept DEF receive
<1>8. ASSUME NEW k \in WorkerId, idleMessage(k)
      PROVE  Named'
  <2>1. CASE ~ broken'
    <3>1. PICK q \in Queue : open_or_create(q) /\ run' = [run EXCEPT ![k] = q]
      BY <1>8, <2>1 DEF idleMessage, Failing
    <3>2. /\ handler = "listening" /\ ~ broken
          /\ UNCHANGED <<handler, listens, caller, shared>>
      BY <1>8, <2>1 DEF idleMessage, Opening, Failing
    <3>3. name' = q /\ (name # None => q = name)
      BY <3>1, OpenIs
    <3> QED
      BY <1>0, <3>1, <3>2, <3>3 DEF Named, Undisturbed, Up
  <2> QED
    BY <2>1 DEF Named, Undisturbed
<1>9. ASSUME NEW k \in WorkerId, idleMessageSent(k)
      PROVE  Named'
  <2>1. /\ UNCHANGED <<name, handler, listens, caller, shared, broken>>
        /\ run' = [run EXCEPT ![k] = None] /\ run[k] # None
    BY <1>9 DEF idleMessageSent
  <2> QED
    BY <1>0, <2>1 DEF Named, Undisturbed, Up
<1>10. ASSUME NEW k \in WorkerId, runEnds(k) \/ addWorker(k)
       PROVE  Named'
  BY <1>10, NamedKept DEF runEnds, addWorker
<1>11. ASSUME NEW k \in WorkerId, removeSource(k)
       PROVE  Named'
  <2>1. CASE ~ broken'
    <3>1. PICK q \in Queue : open_or_create(q) /\ caller' = [at |-> "send", k |-> k, q |-> q]
      BY <1>11, <2>1 DEF removeSource, Failing
    <3>2. /\ handler = "listening" /\ ~ broken
          /\ UNCHANGED <<handler, listens, run, shared>>
      BY <1>11, <2>1 DEF removeSource, Opening, Failing
    <3>3. name' = q /\ (name # None => q = name)
      BY <3>1, OpenIs
    <3> QED
      BY <1>0, <3>1, <3>2, <3>3 DEF Named, Undisturbed, Up
  <2> QED
    BY <2>1 DEF Named, Undisturbed
<1>12. CASE messageSent
  BY <1>12, NamedKept DEF messageSent, Stop
<1>13. CASE join
  BY <1>13, NamedKept DEF join, Idle
<1>14. CASE otherStarts
  <2>1. shared' \/ ~ Up'
    BY <1>14 DEF otherStarts, Up
  <2> QED
    BY <2>1 DEF Named, Undisturbed
<1>15. ASSUME OtherUp, UNCHANGED <<process, shared>>
       PROVE  Named'
  <2>1. shared' \/ ~ Up'
    BY <1>15 DEF Places, Alone, Up
  <2> QED
    BY <2>1 DEF Named, Undisturbed
<1>16. CASE otherOpens \/ otherReceives
  BY <1>15, <1>16 DEF otherOpens, otherReceives, OtherUp
<1>17. ASSUME NEW k \in WorkerId, NEW type \in {0, 100}, otherSends(type, k)
       PROVE  Named'
  BY <1>15, <1>17 DEF otherSends
<1>18. CASE otherExits
  BY <1>18, NamedKept DEF otherExits
<1> QED
  BY <1>1, <1>2, <1>3, <1>4, <1>5, <1>6, <1>7, <1>8, <1>9, <1>10, <1>11, <1>12, <1>13, <1>14,
     <1>16, <1>17, <1>18 DEF Next

-----------------------------------------------------------------------------
(* The theorems.                                                           *)

LEMMA InvInit == Init => Inv
<1> SUFFICES ASSUME Init
             PROVE  Inv
  OBVIOUS
<1> USE DEF Init
<1>1. TypeOK
  <2>1. content \in [Queue -> Seq(Message)] /\ \A q \in Queue : Len(content[q]) <= Capacity
    BY QueueAssumption
  <2> QED
    BY <2>1 DEF TypeOK, Absent
<1>2. Places
  BY <1>1 DEF Places, ListensSomewhere, DownIdle, Alone, SenderWorks, UnreferencedEmpty, Idle,
              OtherUp, Absent, Up
<1>3. Messages /\ Named
  BY DEF Messages, HeardDue, Heard, KnownWhileWorking, Named, Idle
<1> QED
  BY <1>2, <1>3 DEF Inv

LEMMA InvStep == Inv /\ [Next]_vars => Inv'
BY PlacesStep, MessagesStep, NamedStep DEF Inv

\* Every variable keeps its type, a queue holds no more messages than its capacity, and
\* run() and the caller send to queues they have open (Worker::sendMessage).
THEOREM TypeTheorem == Spec => []TypeOK
<1>1. Inv => TypeOK
  BY DEF Inv, Places
<1> QED
  BY <1>1, InvInit, InvStep, PTL DEF Spec

\* As long as no other process is up, a worker is in workerIdWorker from the call that
\* files it until its own last message has stopped it: Manager::messageHandler erases
\* none that works (the message of type 100, Worker::removeSource).
THEOREM KnownTheorem == Spec => []KnownWhileWorking
<1>1. Inv => KnownWhileWorking
  BY DEF Inv, Messages
<1> QED
  BY <1>1, InvInit, InvStep, PTL DEF Spec

\* ... and if no queue was opened before the handler's and no open has thrown, all
\* messages go to the queue that Manager::messageHandler listens on.
THEOREM OneQueueTheorem == Spec => []OneQueue
<1>1. Inv => OneQueue
  BY DEF Inv, Named, OneQueue
<1> QED
  BY <1>1, InvInit, InvStep, PTL DEF Spec

-----------------------------------------------------------------------------
(* What the liveness of SendsReturn and EndedForgotten rests on: under the *)
(* fairness of Spec a send() waits for ever, or a worker stays in the      *)
(* table, only if nobody reads the queue or the message has been lost.     *)

\* The handler has q open and a message to read there.
Readable(q) == handler = "listening" /\ q = listens /\ content[q] # << >>

\* A send() that has no room waits for a handler that has a message to read.
SendersProceed ==
    Undisturbed =>
        /\ caller.at = "send" => HasRoom(caller.q) \/ Readable(caller.q)
        /\ \A k \in WorkerId : run[k] # None => HasRoom(run[k]) \/ Readable(run[k])

\* A caller waits for a thread that has been told to end.
JoinsStopped == caller.at = "join" => worker[caller.k] \in {"stopping", "ended"}

\* The last message of a worker is on its way to the handler.
Told(k) ==
    \E i \in 1..Len(content[listens]) : content[listens][i] = [type |-> 100, from |-> k]

\* A worker that has been stopped is in the table until the handler reads its message.
StoppedTold ==
    Undisturbed =>
        \A k \in table : worker[k] \in {"stopping", "ended"} =>
            handler = "listening" /\ Told(k)

\* As long as nothing disturbs the process, no send() is stuck: a full queue is one the
\* handler reads, and it has messages (Worker::sendMessage, Manager::messageHandler).
THEOREM SendersTheorem == Spec => []SendersProceed
<1>1. Inv => SendersProceed
  <2> SUFFICES ASSUME Inv, Undisturbed
               PROVE  /\ caller.at = "send" => HasRoom(caller.q) \/ Readable(caller.q)
                      /\ \A k \in WorkerId :
                             run[k] # None => HasRoom(run[k]) \/ Readable(run[k])
    BY DEF SendersProceed
  <2>1. TypeOK /\ Named /\ ListensSomewhere
    BY DEF Inv, Places
  <2>2. handler = "listening" => listens \in Queue
    BY <2>1 DEF ListensSomewhere
  <2>3. ASSUME NEW q \in Queue, ~ HasRoom(q)
        PROVE  content[q] # << >>
    <3>1. Len(content[q]) >= 1
      <4>1. content[q] \in Seq(Message) /\ Capacity >= 1
        BY <2>1, QueueAssumption DEF TypeOK
      <4> QED
        BY <2>3, <4>1, QueueAssumption DEF HasRoom
    <3> QED
      BY <3>1
  <2>4. caller.at = "send" => /\ handler = "listening" /\ caller.q = listens
    BY <2>1 DEF Named
  <2>5. \A k \in WorkerId : run[k] # None => /\ handler = "listening" /\ run[k] = listens
    BY <2>1 DEF Named
  <2> QED
    BY <2>2, <2>3, <2>4, <2>5 DEF Readable
<1> QED
  BY <1>1, InvInit, InvStep, PTL DEF Spec

\* The thread a caller waits for in stop() has been told to end: stop() clears working
\* before it waits, and no thread of the same identifier starts meanwhile.
THEOREM JoinsTheorem == Spec => []JoinsStopped
<1>1. Init => JoinsStopped
  BY DEF Init, JoinsStopped, Idle
<1>2. Inv /\ JoinsStopped /\ [Next]_vars => JoinsStopped'
  <2> SUFFICES ASSUME TypeOK, JoinsStopped, [Next]_vars
               PROVE  JoinsStopped'
    BY DEF Inv, Places
  <2> USE DEF JoinsStopped, process, history
  <2>1. /\ caller = Idle => caller.at # "join"
        /\ caller.at \in {"send", "join"} => caller.k \in WorkerId
        /\ worker \in [WorkerId -> {"none", "working", "stopping", "ended"}]
    BY CallerPlaces DEF TypeOK, Idle
  <2>2. CASE UNCHANGED <<worker, caller>>
    BY <2>2
  <2>3. CASE exit
    BY <2>3 DEF exit, Idle
  <2>4. CASE messageSent
    BY <2>1, <2>4 DEF messageSent, Stop
  <2>5. CASE join
    BY <2>5 DEF join, Idle
  <2>6. ASSUME NEW k \in WorkerId, idleMessageSent(k) \/ runEnds(k)
        PROVE  JoinsStopped'
    BY <2>1, <2>6 DEF idleMessageSent, runEnds
  <2>7. ASSUME NEW k \in WorkerId, addWorker(k)
        PROVE  JoinsStopped'
    BY <2>1, <2>7 DEF addWorker
  <2>8. ASSUME NEW k \in WorkerId, removeSource(k)
        PROVE  JoinsStopped'
    BY <2>1, <2>8 DEF removeSource, Stop
  <2>9. CASE start \/ handlerRemoves \/ handlerOpens \/ handlerFails \/ receive
    BY <2>2, <2>9 DEF start, handlerRemoves, handlerOpens, handlerFails, receive
  <2>10. CASE otherStarts \/ otherOpens \/ otherReceives \/ otherExits
    BY <2>2, <2>10 DEF otherStarts, otherOpens, otherReceives, otherExits
  <2>11. ASSUME NEW k \in WorkerId, \/ idleMessage(k)
                                    \/ \E type \in {0, 100} : otherSends(type, k)
         PROVE  JoinsStopped'
    BY <2>2, <2>11 DEF idleMessage, otherSends
  <2>12. CASE UNCHANGED vars
    BY <2>2, <2>12 DEF vars
  <2> QED
    BY <2>3, <2>4, <2>5, <2>6, <2>7, <2>8, <2>9, <2>10, <2>11, <2>12 DEF Next
<1> QED
  BY <1>1, <1>2, InvInit, InvStep, PTL DEF Spec

\* The queue the handler has open keeps what a step leaves of it.
LEMMA ListensKept ==
    ASSUME NEW f, Keep(f), listens' = listens, listens \in Queue
    PROVE  content'[listens] = f[listens]
BY DEF Keep, Referenced

\* A step that loses no message and stops no worker leaves those that were stopped told.
LEMMA ToldKept ==
    ASSUME TypeOK, ListensSomewhere, StoppedTold,
           Undisturbed' => Undisturbed,
           handler = "listening" =>
               /\ handler' = "listening" /\ listens' = listens
               /\ \/ content'[listens] = content[listens]
                  \/ \E m \in Message : content'[listens] = Append(content[listens], m),
           \A k \in table' : worker'[k] \in {"stopping", "ended"} =>
                                 k \in table /\ worker[k] \in {"stopping", "ended"}
    PROVE  StoppedTold'
<1> SUFFICES ASSUME Undisturbed', NEW k \in table', worker'[k] \in {"stopping", "ended"}
             PROVE  handler' = "listening" /\ Told(k)'
  BY DEF StoppedTold
<1>1. handler = "listening" /\ Told(k)
  BY DEF StoppedTold
<1>2. /\ handler' = "listening" /\ listens' = listens
      /\ \/ content'[listens] = content[listens]
         \/ \E m \in Message : content'[listens] = Append(content[listens], m)
  BY <1>1
<1>3. content[listens] \in Seq(Message)
  BY <1>1 DEF TypeOK, ListensSomewhere
<1>4. PICK i \in 1..Len(content[listens]) : content[listens][i] = [type |-> 100, from |-> k]
  BY <1>1 DEF Told
<1>5. i \in 1..Len(content'[listens]) /\ content'[listens][i] = content[listens][i]
  <2>1. CASE content'[listens] = content[listens]
    BY <2>1
  <2>2. ASSUME NEW m \in Message, content'[listens] = Append(content[listens], m)
        PROVE  i \in 1..Len(content'[listens]) /\ content'[listens][i] = content[listens][i]
    BY <1>3, <2>2
  <2> QED
    BY <1>2, <2>1, <2>2
<1>6. content'[listens'][i] = [type |-> 100, from |-> k] /\ i \in 1..Len(content'[listens'])
  BY <1>2, <1>4, <1>5
<1> QED
  BY <1>2, <1>6, Zenon DEF Told

\* The first message is read: its worker leaves the table, the others are still told.
LEMMA receiveTold ==
    ASSUME TypeOK, ListensSomewhere, StoppedTold, receive
    PROVE  StoppedTold'
<1>1. /\ handler = "listening" /\ listens \in Queue
      /\ content[listens] # << >>
      /\ content' = [content EXCEPT ![listens] = Tail(content[listens])]
      /\ UNCHANGED <<handler, listens, worker, shared, broken>>
  BY DEF receive, history, ListensSomewhere
<1> DEFINE s == content[listens]
<1>2. s \in Seq(Message) /\ content'[listens] = Tail(s)
  BY <1>1 DEF TypeOK
<1>3. table' = IF Head(s).type = 100 THEN table \ {Head(s).from} ELSE table
  BY DEF receive
<1>4. SUFFICES ASSUME Undisturbed, NEW k \in table', worker[k] \in {"stopping", "ended"}
               PROVE  Told(k)'
  BY <1>1 DEF StoppedTold, Undisturbed, Up
<1>5. k \in table
  BY <1>3
<1>6. PICK i \in 1..Len(s) : s[i] = [type |-> 100, from |-> k]
  BY <1>4, <1>5 DEF StoppedTold, Told
<1>7. i # 1
  <2>1. SUFFICES ASSUME i = 1
                 PROVE  FALSE
    OBVIOUS
  <2>2. Head(s) = s[1]
    BY <1>1, <1>2
  <2>3. Head(s).type = 100 /\ Head(s).from = k
    BY <1>6, <2>1, <2>2
  <2> QED
    BY <1>3, <2>3
<1>8. i - 1 \in 1..Len(Tail(s)) /\ Tail(s)[i - 1] = s[i]
  BY <1>1, <1>2, <1>6, <1>7
<1> QED
  BY <1>1, <1>2, <1>6, <1>8 DEF Told

LEMMA StoppedToldStep ==
    ASSUME Places, Named, StoppedTold, [Next]_vars
    PROVE  StoppedTold'
<1> USE DEF process, history
<1>0. /\ TypeOK /\ ListensSomewhere
      /\ content \in [Queue -> Seq(Message)]
      /\ handler = "listening" => listens \in Queue
      /\ worker \in [WorkerId -> {"none", "working", "stopping", "ended"}]
      /\ table \in SUBSET WorkerId
  BY DEF Places, TypeOK, ListensSomewhere
\* Steps of which the queue and the workers see nothing.
<1>1. ASSUME UNCHANGED <<content, handler, listens, table, worker>>, Undisturbed' => Undisturbed
      PROVE  StoppedTold'
  BY <1>0, <1>1, ToldKept
<1>2. CASE UNCHANGED vars
  BY <1>1, <1>2 DEF vars, Undisturbed, Up
<1>3. CASE start
  <2>1. \A k \in WorkerId : worker'[k] = "none"
    BY <1>3 DEF start, Places, DownIdle
  <2>2. table' = table
    BY <1>3 DEF start
  <2> QED
    BY <1>0, <2>1, <2>2 DEF StoppedTold
<1>4. CASE exit \/ handlerFails
  BY <1>4 DEF exit, handlerFails, StoppedTold, Undisturbed, Up
<1>5. CASE handlerRemoves \/ handlerOpens
  <2>1. /\ handler \in {"starting", "removed"}
        /\ UNCHANGED <<table, worker, shared, broken>>
    BY <1>5 DEF handlerRemoves, handlerOpens
  <2>2. Undisturbed' => Undisturbed
    BY <2>1 DEF Undisturbed, Up
  <2>3. Undisturbed => \A k \in table : worker[k] \notin {"stopping", "ended"}
    BY <2>1 DEF StoppedTold
  <2> QED
    BY <2>1, <2>2, <2>3 DEF StoppedTold
<1>6. CASE receive
  BY <1>0, <1>6, receiveTold
<1>7. ASSUME NEW k \in WorkerId, idleMessage(k) \/ removeSource(k)
      PROVE  StoppedTold'
  <2>1. SUFFICES ASSUME Undisturbed'
                 PROVE  StoppedTold'
    BY DEF StoppedTold
  <2>2. ~ broken' /\ UNCHANGED <<handler, listens, table, shared>> /\ Keep(content)
    BY <1>7, <2>1 DEF idleMessage, removeSource, Undisturbed
  <2>3. UNCHANGED worker /\ ~ broken
    BY <1>7, <2>2 DEF idleMessage, removeSource, Opening, Failing
  <2>4. Undisturbed
    BY <2>1, <2>2, <2>3 DEF Undisturbed, Up
  <2>5. handler = "listening" => content'[listens] = content[listens]
    BY <1>0, <2>2, ListensKept
  <2> QED
    BY <1>0, <2>2, <2>3, <2>4, <2>5, ToldKept
<1>8. ASSUME NEW k \in WorkerId, idleMessageSent(k)
      PROVE  StoppedTold'
  <2>1. /\ UNCHANGED <<handler, listens, table, shared, broken>> /\ run[k] \in Queue
        /\ Keep(With(run[k], 0, k))
        /\ worker' = [worker EXCEPT ![k] = IF @ = "stopping" THEN "ended" ELSE @]
    BY <1>0, <1>8, CallerPlaces DEF idleMessageSent
  <2>2. handler = "listening" => content'[listens] = With(run[k], 0, k)[listens]
    BY <1>0, <2>1, ListensKept
  <2>3. [type |-> 0, from |-> k] \in Message
    BY DEF Message
  <2>4. handler = "listening" =>
            \/ content'[listens] = content[listens]
            \/ \E m \in Message : content'[listens] = Append(content[listens], m)
    BY <1>0, <2>1, <2>2, <2>3 DEF With
  <2>5. \A j \in table' : worker'[j] \in {"stopping", "ended"} =>
                              j \in table /\ worker[j] \in {"stopping", "ended"}
    BY <1>0, <2>1
  <2>6. Undisturbed' => Undisturbed
    BY <2>1 DEF Undisturbed, Up
  <2> QED
    BY <1>0, <2>1, <2>4, <2>5, <2>6, ToldKept
<1>9. ASSUME NEW k \in WorkerId, runEnds(k) \/ addWorker(k)
      PROVE  StoppedTold'
  <2>1. UNCHANGED <<content, handler, listens, shared, broken>>
    BY <1>9 DEF runEnds, addWorker
  <2>2. \A j \in table' : worker'[j] \in {"stopping", "ended"} =>
                              j \in table /\ worker[j] \in {"stopping", "ended"}
    BY <1>0, <1>9 DEF runEnds, addWorker
  <2>3. Undisturbed' => Undisturbed
    BY <2>1 DEF Undisturbed, Up
  <2> QED
    BY <1>0, <2>1, <2>2, <2>3, ToldKept
<1>10. CASE messageSent
  <2>1. /\ UNCHANGED <<handler, listens, table, shared, broken>>
        /\ caller.k \in WorkerId /\ caller.q \in Queue
        /\ Keep(With(caller.q, 100, caller.k)) /\ caller.at = "send"
        /\ worker' = [worker EXCEPT ![caller.k] = "stopping"]
    BY <1>0, <1>10, CallerPlaces DEF messageSent, Stop
  <2>2. SUFFICES ASSUME Undisturbed, NEW k \in table, worker'[k] \in {"stopping", "ended"}
                 PROVE  handler = "listening" /\ Told(k)'
    BY <2>1 DEF StoppedTold, Undisturbed, Up
  <2>3. handler = "listening" /\ caller.q = listens
    BY <2>1, <2>2 DEF Named
  <2> DEFINE m == [type |-> 100, from |-> caller.k]
             s == content[listens]
  <2>4. content'[listens] = With(caller.q, 100, caller.k)[listens]
    BY <1>0, <2>1, <2>3, ListensKept
  <2>5. content'[listens] = Append(s, m)
    BY <1>0, <2>3, <2>4 DEF With
  <2>6. s \in Seq(Message) /\ m \in Message /\ m.from = caller.k
    BY <1>0, <2>1, <2>3 DEF Message
  <2> HIDE DEF s
  <2>7. CASE k = caller.k
    <3> HIDE DEF m
    <3>1. /\ Len(s) + 1 \in 1..Len(content'[listens])
          /\ content'[listens][Len(s) + 1] = m
      BY <2>5, <2>6
    <3> QED
      BY <2>1, <2>3, <2>7, <3>1 DEF Told, m
  <2>8. CASE k # caller.k
    <3>1. worker[k] \in {"stopping", "ended"}
      BY <1>0, <2>1, <2>2, <2>8
    <3>2. PICK i \in 1..Len(s) : s[i] = [type |-> 100, from |-> k]
      BY <2>2, <3>1 DEF StoppedTold, Told, s
    <3> HIDE DEF m
    <3>3. i \in 1..Len(content'[listens]) /\ content'[listens][i] = s[i]
      BY <2>5, <2>6, <3>2
    <3> QED
      BY <2>1, <2>3, <3>2, <3>3 DEF Told
  <2> QED
    BY <2>7, <2>8
<1>11. CASE join
  BY <1>1, <1>11 DEF join, Undisturbed, Up
<1>12. CASE otherStarts \/ otherOpens \/ otherReceives \/ otherExits
           \/ \E k \in WorkerId : \E type \in {0, 100} : otherSends(type, k)
  <2>1. shared' \/ ~ Up'
    <3>1. CASE otherStarts
      BY <3>1 DEF otherStarts, Up
    <3>2. CASE otherOpens \/ otherReceives \/ otherExits
               \/ \E k \in WorkerId : \E type \in {0, 100} : otherSends(type, k)
      <4>1. OtherUp /\ UNCHANGED <<handler, shared>>
        BY <3>2 DEF otherOpens, otherReceives, otherExits, otherSends, OtherUp
      <4> QED
        BY <4>1 DEF Places, Alone, Up
    <3> QED
      BY <1>12, <3>1, <3>2
  <2> QED
    BY <2>1 DEF StoppedTold, Undisturbed
<1> QED
  BY <1>2, <1>3, <1>4, <1>5, <1>6, <1>7, <1>8, <1>9, <1>10, <1>11, <1>12 DEF Next

\* A worker that has been stopped but not erased has its message in the queue that
\* Manager::messageHandler reads, so that EndedForgotten needs no more than a handler
\* that goes on reading (Worker::removeSource, the message of type 100).
THEOREM ToldTheorem == Spec => []StoppedTold
<1>1. Init => StoppedTold
  BY DEF Init, StoppedTold
<1>2. Inv /\ StoppedTold /\ [Next]_vars => StoppedTold'
  BY StoppedToldStep DEF Inv
<1> QED
  BY <1>1, <1>2, InvInit, InvStep, PTL DEF Spec
=============================================================================
