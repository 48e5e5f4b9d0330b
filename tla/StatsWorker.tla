---------------------------- MODULE StatsWorker -----------------------------
(***************************************************************************)
(* The counters of a StatsWorker (StatsWorker.cpp) and of its stream lists *)
(* (StatsStreamList.cpp), shared by run(), which counts datagrams, and     *)
(* generateStats(), which turns counts into rates every ten seconds, while *)
(* a caller adds and removes lists.  stats_mutex protects the counter of   *)
(* the worker; list_mutex protects the counter of a list, but not where a  *)
(* rate is calculated from it; nothing protects the traversal of           *)
(* management.  Addresses and sockets are those of module Worker.          *)
(*                                                                         *)
(* A rate is represented by the bytes it was calculated from, and a time   *)
(* stamp by its age: seconds up to the one that makes a rate due.          *)
(***************************************************************************)
EXTENDS Integers, FiniteSets

CONSTANTS
    List,       \* list objects
    Length,     \* lengths of datagrams
    Period,     \* seconds generateStats() sleeps, and an update must exceed
    MaxInt,     \* the greatest int
    MaxBytes    \* bound on the bytes the worker receives

ASSUME StatsAssumption ==
    /\ IsFiniteSet(List)
    /\ Length \subseteq Nat \ {0}
    /\ Period \in Nat \ {0}
    /\ MaxInt \in Nat
    /\ MaxBytes \in Nat

VARIABLES
    working,
    lists,          \* the lists in management
    null,           \* management has a null pointer, under an unknown identifier
    inputBytes,     \* the worker's counter
    listBytes,      \* the counter of each list
    stampAge,       \* list -> age of its timeStamp
    process,        \* run(): idle, or with a datagram it has yet to count
    stats,          \* generateStats(): asleep, among the lists, or ended
    counted,        \* bytes the worker has counted
    interval,       \* those of them since its last rate
    reported,       \* bytes in its rates
    flooded,        \* more than an int holds were counted for one rate
    received,       \* list -> bytes counted for it
    rated,          \* list -> bytes in its rates
    changed         \* management has changed while generateStats() traversed it

table == <<working, lists, null>>
counters == <<inputBytes, listBytes, stampAge>>
history == <<counted, interval, reported, flooded, received, rated, changed>>
vars == <<table, counters, process, stats, history>>

IntSize == 2 * (MaxInt + 1)
Int32 == -(MaxInt + 1) .. MaxInt

\* What is left of a number in an int.
ToInt(n) == ((n + MaxInt + 1) % IntSize) - (MaxInt + 1)

\* Mutant of Asleep: a second too long.
AsleepLonger == [at |-> "asleep", left |-> Period + 1]

Asleep == [at |-> "asleep", left |-> Period]

Ended == [at |-> "ended"]
Among(todo) == [at |-> "lists", todo |-> todo]
Traversing == stats.at \in {"lists", "calculated"}
Age == 0..(Period + 1)
Idle == [at |-> "idle"]

\* A list object that run() or generateStats() still has a pointer to.
Pointed(l) == \/ process # Idle /\ process.list = l
              \/ stats.at = "calculated" /\ stats.list = l

TypeOK ==
    /\ working \in BOOLEAN
    /\ lists \in SUBSET List
    /\ null \in BOOLEAN
    /\ inputBytes \in Int32
    /\ listBytes \in [List -> Int32]
    /\ stampAge \in [List -> Age]
    /\ process \in {Idle} \cup [at : {"received", "counted"}, list : List, length : Length]
    /\ stats \in [at : {"asleep"}, left : 0..Period]
            \cup [at : {"lists"}, todo : SUBSET List]
            \cup [at : {"calculated"}, todo : SUBSET List, list : List, read : Int32]
            \cup {Ended, [at |-> "astray"], [at |-> "crashed"]}
    /\ counted \in 0..MaxBytes
    /\ interval \in 0..MaxBytes
    /\ reported \in Int
    /\ flooded \in BOOLEAN
    /\ received \in [List -> 0..MaxBytes]
    /\ rated \in [List -> Int]
    /\ changed \in BOOLEAN

\* The constructor starts generateStats(), which sleeps first.
Init ==
    /\ working = TRUE
    /\ lists = {}
    /\ null = FALSE
    /\ inputBytes = 0
    /\ listBytes = [l \in List |-> 0]
    /\ stampAge = [l \in List |-> 0]
    /\ process = Idle
    /\ stats = Asleep
    /\ counted = 0
    /\ interval = 0
    /\ reported = 0
    /\ flooded = FALSE
    /\ received = [l \in List |-> 0]
    /\ rated = [l \in List |-> 0]
    /\ changed = FALSE

\* Mutant of Due: the period itself, which may have passed by then.
DueExactly(l) == stampAge[l] = Period

\* A list's rate is due.
Due(l) == stampAge[l] > Period

\* A second passes.  How old the stamp of a freed list is does not matter.
tick ==
    /\ stampAge' = [l \in List |-> IF l \in lists /\ stampAge[l] <= Period
                                   THEN stampAge[l] + 1 ELSE stampAge[l]]
    /\ stats' = IF stats.at = "asleep" /\ stats.left > 0
                THEN [stats EXCEPT !.left = @ - 1] ELSE stats
    /\ UNCHANGED <<table, inputBytes, listBytes, process, history>>

-----------------------------------------------------------------------------
(* The table of lists, by a caller and by run().                           *)

\* management has a new entry.  A traversal meets it or not; when the table grows,
\* which moves its entries, it may miss others or meet them again.
Inserted ==
    /\ changed' = (changed \/ Traversing)
    /\ IF Traversing THEN \E todo \in SUBSET lists' : stats' = [stats EXCEPT !.todo = todo]
       ELSE UNCHANGED stats

\* addSource with a list of its own: an object nobody points to.
addSource(l) ==
    /\ working
    /\ l \notin lists /\ ~ Pointed(l)
    /\ lists' = lists \cup {l}
    /\ Inserted
    /\ listBytes' = [listBytes EXCEPT ![l] = 0]
    /\ stampAge' = [stampAge EXCEPT ![l] = 0]
    /\ received' = [received EXCEPT ![l] = 0]
    /\ rated' = [rated EXCEPT ![l] = 0]
    /\ UNCHANGED <<working, null, inputBytes, process, counted, interval, reported, flooded>>

\* removeSource stops a worker whose table is empty.
Stops == working' = (working /\ (lists' # {} \/ null))

\* The entry of a list is freed.  What an iterator that stands at it does next is
\* undefined.
removeSource(l) ==
    /\ working
    /\ l \in lists
    /\ lists' = lists \ {l}
    /\ Stops
    /\ changed' = (changed \/ Traversing)
    /\ \/ stats.at = "lists" /\ l \in stats.todo /\ stats' = [at |-> "astray"]
       \/ Traversing /\ stats' = [stats EXCEPT !.todo = @ \ {l}]
       \/ ~ Traversing /\ UNCHANGED stats
    /\ UNCHANGED <<null, counters, process, counted, interval, reported, flooded, received, rated>>

-----------------------------------------------------------------------------
(* run(), which may have a datagram left when the worker is stopped.       *)

\* recvfrom(), and the lookup of the sender's list.
receive(l, n) ==
    /\ working
    /\ process = Idle
    /\ l \in lists
    /\ counted + n <= MaxBytes
    /\ process' = [at |-> "received", list |-> l, length |-> n]
    /\ UNCHANGED <<table, counters, stats, history>>

\* The lookup of a sender in no list inserts a null pointer.
receiveFromStranger ==
    /\ working
    /\ process = Idle
    /\ ~ null
    /\ null' = TRUE
    /\ UNCHANGED lists
    /\ Inserted
    /\ UNCHANGED <<working, counters, process, counted, interval, reported, flooded, received, rated>>

\* The datagram is counted for the worker, under stats_mutex.
countInput ==
    /\ process.at = "received"
    /\ inputBytes' = ToInt(inputBytes + process.length)
    /\ counted' = counted + process.length
    /\ interval' = interval + process.length
    /\ flooded' = (flooded \/ interval' > MaxInt)
    /\ process' = [process EXCEPT !.at = "counted"]
    /\ UNCHANGED <<table, listBytes, stampAge, stats, reported, received, rated, changed>>

\* The datagram is counted for its list, under list_mutex.
updateInputBytes ==
    /\ process.at = "counted"
    /\ listBytes' = [listBytes EXCEPT ![process.list] = ToInt(@ + process.length)]
    /\ received' = [received EXCEPT ![process.list] = @ + process.length]
    /\ process' = Idle
    /\ UNCHANGED <<table, inputBytes, stampAge, stats, counted, interval, reported, flooded, rated, changed>>

-----------------------------------------------------------------------------
(* generateStats().                                                        *)

\* Mutant of collect: the counter is not reset.
collectOnly ==
    /\ stats.at = "asleep"
    /\ stats.left = 0
    /\ reported' = reported + inputBytes
    /\ interval' = 0
    /\ stats' = Among(lists)
    /\ UNCHANGED <<table, counters, process, counted, flooded, received, rated, changed>>

\* The worker's counter is read and reset under stats_mutex.
collect ==
    /\ stats.at = "asleep"
    /\ stats.left = 0
    /\ reported' = reported + inputBytes
    /\ interval' = 0
    /\ inputBytes' = 0
    /\ stats' = Among(lists)
    /\ UNCHANGED <<table, listBytes, stampAge, process, counted, flooded, received, rated, changed>>

\* update() of a list whose last rate is recent enough.
skip(l) ==
    /\ stats.at = "lists"
    /\ l \in stats.todo
    /\ ~ Due(l)
    /\ stats' = Among(stats.todo \ {l})
    /\ UNCHANGED <<table, counters, process, history>>

\* calculateRate reads the counter without list_mutex ...
calculateRate(l) ==
    /\ stats.at = "lists"
    /\ l \in stats.todo
    /\ Due(l)
    /\ rated' = [rated EXCEPT ![l] = @ + listBytes[l]]
    /\ stats' = [at |-> "calculated", todo |-> stats.todo \ {l}, list |-> l,
                 read |-> listBytes[l]]
    /\ UNCHANGED <<table, counters, process, counted, interval, reported, flooded, received, changed>>

\* The iterator goes on from the entry of the list, unless it has been freed.
Advance == stats' = IF stats.list \in lists THEN Among(stats.todo) ELSE [at |-> "astray"]

\* Mutant of resetInputBytes: the counter goes on.
resetNothing ==
    /\ stats.at = "calculated"
    /\ stampAge' = [stampAge EXCEPT ![stats.list] = 0]
    /\ Advance
    /\ UNCHANGED <<table, inputBytes, listBytes, process, history>>

\* ... and then resets it under it, with whatever was counted in between.
resetInputBytes ==
    /\ stats.at = "calculated"
    /\ listBytes' = [listBytes EXCEPT ![stats.list] = 0]
    /\ stampAge' = [stampAge EXCEPT ![stats.list] = 0]
    /\ Advance
    /\ UNCHANGED <<table, inputBytes, process, history>>

\* Mutant of sleep: the loop does not look at working.
sleepAlways ==
    /\ stats = Among({})
    /\ stats' = Asleep
    /\ UNCHANGED <<table, counters, process, history>>

\* The loop's test and sleep().
sleep ==
    /\ stats = Among({})
    /\ stats' = IF working THEN Asleep ELSE Ended
    /\ UNCHANGED <<table, counters, process, history>>

\* The iterator stood at an entry that is freed: it finds lists all the same, or the
\* process ends.
goAstray ==
    /\ stats.at = "astray"
    /\ \/ \E todo \in SUBSET lists : stats' = Among(todo)
       \/ stats' = [at |-> "crashed"]
    /\ UNCHANGED <<table, counters, process, history>>

-----------------------------------------------------------------------------
generateStats ==
    \/ collect
    \/ \E l \in List : skip(l) \/ calculateRate(l)
    \/ resetInputBytes
    \/ sleep

Next ==
    \/ goAstray
    \/ /\ stats.at # "crashed"
       /\ \/ tick
          \/ \E l \in List : addSource(l) \/ removeSource(l)
          \/ \E l \in List, n \in Length : receive(l, n)
          \/ receiveFromStranger
          \/ countInput
          \/ updateInputBytes
          \/ generateStats

\* Time passes and the threads that can go on do; datagrams need not arrive, nor a
\* caller call, and an iterator that is astray may stay so.
Fairness == WF_vars(tick) /\ WF_vars(countInput \/ updateInputBytes) /\ WF_vars(generateStats)

Spec == Init /\ [][Next]_vars /\ Fairness

-----------------------------------------------------------------------------
(* Properties.                                                             *)

\* Every byte the worker has counted is in its counter or in one of its rates, and in
\* one only, as long as an int holds what arrives between two rates; beyond that, what
\* is lost is a number of times its size.  (generateStats reads and resets the counter
\* under the mutex process adds under.)
WorkerBytesConserved ==
    /\ ~ flooded => inputBytes + reported = counted
    /\ (counted - inputBytes - reported) % IntSize = 0

\* No byte is in two rates of a list, nor in a rate and still counted, nor in one of a
\* list that came later: what is counted while a rate is calculated is lost and not
\* counted twice, and a datagram of a removed list is counted for that list.
ListBytesBounded ==
    \A l \in List :
        rated[l] + listBytes[l]
            <= received[l] + (IF stats.at = "calculated" /\ stats.list = l THEN stats.read ELSE 0)

\* The thread that reports ends once the worker is stopped, although nothing wakes
\* it: it looks at working after each report.  Only a change of the table while it
\* traverses it can lead it astray.
StatsEnds == ~ working ~> stats.at = "ended" \/ changed

\* A list that stays is rated again: no report after its rate is due leaves it out,
\* unless the table changes under the traversal.
RatedAgain ==
    \A l \in List : l \in lists /\ stampAge[l] > Period
                        ~> stampAge[l] = 0 \/ l \notin lists \/ ~ working \/ changed
=============================================================================
