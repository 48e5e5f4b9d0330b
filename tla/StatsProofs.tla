---------------------------- MODULE StatsProofs -----------------------------
(***************************************************************************)
(* Proofs about StatsWorker, for any lists, lengths of datagrams, period,  *)
(* size of an int and number of bytes: types, the conservation of the      *)
(* worker's bytes and the bound on those of a list.  The three invariants  *)
(* are inductive with what Counting adds to them.                          *)
(***************************************************************************)
EXTENDS StatsWorker, FiniteSetTheorems, TLAPS

-----------------------------------------------------------------------------
(* Numbers in an int.                                                      *)

\* A remainder is less than the divisor, and a number that is less is its own.
LEMMA ModRange ==
    ASSUME NEW a \in Int, NEW b \in Nat \ {0}
    PROVE  /\ a % b \in 0..(b - 1)
           /\ 0 <= a /\ a < b => a % b = a
           /\ 0 <= a => a % b <= a
OBVIOUS

\* Without its remainder a number is a multiple.
LEMMA ModRest ==
    ASSUME NEW a \in Int, NEW b \in Nat \ {0}
    PROVE  (a - (a % b)) % b = 0
OBVIOUS

\* Sums of multiples are multiples.
LEMMA ModSum ==
    ASSUME NEW a \in Int, NEW c \in Int, NEW b \in Nat \ {0}, a % b = 0, c % b = 0
    PROVE  (a + c) % b = 0
<1>1. PICK p \in Int : a = b * p
  OBVIOUS
<1>2. PICK q \in Int : c = b * q
  OBVIOUS
<1>3. b * p + b * q = b * (p + q) /\ p + q \in Int
  OBVIOUS
<1>4. \A r \in Int : (b * r) % b = 0
  OBVIOUS
<1> QED
  BY <1>1, <1>2, <1>3, <1>4

\* What an int holds of a number: itself if it fits; never more than the number, if
\* that is no less than the least int; and it differs by a multiple of the size.
LEMMA ToIntHolds ==
    ASSUME NEW n \in Int
    PROVE  /\ ToInt(n) \in Int32
           /\ n \in Int32 => ToInt(n) = n
           /\ n >= -(MaxInt + 1) => ToInt(n) <= n
           /\ (n - ToInt(n)) % IntSize = 0
           /\ IntSize \in Nat \ {0}
<1> DEFINE a == n + MaxInt + 1
           r == a % IntSize
<1>1. MaxInt \in Nat /\ IntSize \in Nat \ {0} /\ IntSize = MaxInt + 1 + MaxInt + 1 /\ a \in Int
  BY StatsAssumption DEF IntSize
<1>2. ToInt(n) = r - (MaxInt + 1) /\ a = n + MaxInt + 1
  BY DEF ToInt
<1> HIDE DEF a
<1>3. /\ r \in 0..(IntSize - 1)
      /\ 0 <= a /\ a < IntSize => r = a
      /\ 0 <= a => r <= a
  BY <1>1, ModRange
<1>4. (a - r) % IntSize = 0
  BY <1>1, ModRest
<1> HIDE DEF r
<1>5. /\ r \in 0..(IntSize - 1)
      /\ 0 <= a /\ a < IntSize => r = a
      /\ 0 <= a => r <= a
      /\ (a - r) % IntSize = 0
  BY <1>3, <1>4
<1>6. r \in Int /\ n - ToInt(n) = a - r
  BY <1>1, <1>2, <1>5
<1>7. ToInt(n) \in Int32
  BY <1>1, <1>2, <1>5 DEF Int32
<1>8. n \in Int32 => ToInt(n) = n
  BY <1>1, <1>2, <1>5 DEF Int32
<1>9. n >= -(MaxInt + 1) => ToInt(n) <= n
  BY <1>1, <1>2, <1>5, <1>6
<1> QED
  BY <1>1, <1>5, <1>6, <1>7, <1>8, <1>9

-----------------------------------------------------------------------------
(* The invariant.                                                          *)

\* What is counted fits the bound and the int; a rate that has been calculated is of
\* bytes the list has received.
Counting ==
    /\ process.at = "received" => counted + process.length <= MaxBytes
    /\ interval <= counted
    /\ ~ flooded => inputBytes = interval /\ interval <= MaxInt
    /\ \A l \in List : received[l] <= counted
    /\ process.at = "counted" => received[process.list] + process.length <= counted
    /\ stats.at = "calculated" => rated[stats.list] <= received[stats.list]

Inv == TypeOK /\ Counting /\ WorkerBytesConserved /\ ListBytesBounded

\* The places of the two threads.
LEMMA Places ==
    ASSUME TypeOK
    PROVE  /\ process.at \in {"received", "counted"} =>
                process \in [at : {"received", "counted"}, list : List, length : Length]
           /\ process.at = "idle" <=> process = Idle
           /\ stats.at = "asleep" => stats \in [at : {"asleep"}, left : 0..Period]
           /\ stats.at = "lists" => stats \in [at : {"lists"}, todo : SUBSET List]
           /\ stats.at = "calculated" =>
                stats \in [at : {"calculated"}, todo : SUBSET List, list : List, read : Int32]
BY DEF TypeOK, Idle, Ended

\* Numbers of the counters.
LEMMA Numbers ==
    /\ Int32 \subseteq Int /\ 0 \in Int32
    /\ Length \subseteq Nat \ {0} /\ Period \in Nat \ {0} /\ MaxInt \in Nat
    /\ MaxBytes \in Nat
BY StatsAssumption DEF Int32

-----------------------------------------------------------------------------
(* Steps that leave the counters alone.                                    *)

\* What generateStats() has calculated stays so.
SameCalculated ==
    /\ stats'.at = "calculated" <=> stats.at = "calculated"
    /\ stats.at = "calculated" => stats'.list = stats.list /\ stats'.read = stats.read

LEMMA CountersKept ==
    ASSUME Inv, SameCalculated, stats'.at = "calculated" => stats.list \in List,
           UNCHANGED <<inputBytes, listBytes, process, counted, interval, reported, flooded,
                       received, rated>>
    PROVE  Counting' /\ WorkerBytesConserved' /\ ListBytesBounded'
<1>1. Counting'
  BY DEF Inv, Counting, SameCalculated
<1>2. WorkerBytesConserved'
  BY DEF Inv, WorkerBytesConserved
<1>3. ListBytesBounded'
  BY DEF Inv, ListBytesBounded, SameCalculated
<1> QED
  BY <1>1, <1>2, <1>3

\* A second passes.
LEMMA tickStep ==
    ASSUME Inv, tick
    PROVE  Inv'
<1>0. TypeOK
  BY DEF Inv
<1>1. stampAge' \in [List -> Age]
  BY <1>0, Numbers DEF tick, TypeOK, Age
<1>2. CASE stats.at = "asleep" /\ stats.left > 0
  <2>1. stats \in [at : {"asleep"}, left : 0..Period] /\ stats.left - 1 \in 0..Period
    BY <1>0, <1>2, Places, Numbers
  <2>2. stats' \in [at : {"asleep"}, left : 0..Period] /\ stats'.at = "asleep"
    BY <1>2, <2>1 DEF tick
  <2>3. SameCalculated
    BY <1>2, <2>2 DEF SameCalculated
  <2> QED
    BY <1>0, <1>1, <2>2, <2>3, CountersKept DEF tick, table, history, Inv, TypeOK
<1>3. CASE stats' = stats
  <2>1. SameCalculated /\ (stats'.at = "calculated" => stats.list \in List)
    BY <1>0, <1>3, Places DEF SameCalculated
  <2> QED
    BY <1>0, <1>1, <1>3, <2>1, CountersKept DEF tick, table, history, Inv, TypeOK
<1> QED
  BY <1>2, <1>3 DEF tick

\* The traversal while the table changes.
LEMMA TraversalTypes ==
    ASSUME TypeOK, Traversing, NEW todo \in SUBSET List,
           stats' = [stats EXCEPT !.todo = todo]
    PROVE  /\ stats' \in [at : {"lists"}, todo : SUBSET List]
                  \cup [at : {"calculated"}, todo : SUBSET List, list : List, read : Int32]
           /\ SameCalculated
           /\ stats'.at = "calculated" => stats.list \in List
<1>1. CASE stats.at = "lists"
  <2>1. stats \in [at : {"lists"}, todo : SUBSET List]
    BY <1>1, Places
  <2> QED
    BY <1>1, <2>1 DEF SameCalculated
<1>2. CASE stats.at = "calculated"
  <2>1. stats \in [at : {"calculated"}, todo : SUBSET List, list : List, read : Int32]
    BY <1>2, Places
  <2> QED
    BY <1>2, <2>1 DEF SameCalculated
<1> QED
  BY <1>1, <1>2 DEF Traversing

\* A new entry in the table.
LEMMA InsertedTypes ==
    ASSUME TypeOK, Inserted, lists' \subseteq List
    PROVE  /\ changed' \in BOOLEAN
           /\ stats' = stats
              \/ stats' \in [at : {"lists"}, todo : SUBSET List]
                     \cup [at : {"calculated"}, todo : SUBSET List, list : List, read : Int32]
           /\ SameCalculated
           /\ stats'.at = "calculated" => stats.list \in List
<1>1. changed' \in BOOLEAN
  BY DEF Inserted, Traversing, TypeOK
<1>2. CASE Traversing
  <2>1. PICK todo \in SUBSET lists' : stats' = [stats EXCEPT !.todo = todo]
    BY <1>2 DEF Inserted
  <2>2. todo \in SUBSET List
    OBVIOUS
  <2> QED
    BY <1>1, <1>2, <2>1, <2>2, TraversalTypes
<1>3. CASE ~ Traversing
  <2>1. stats' = stats
    BY <1>3 DEF Inserted
  <2> QED
    BY <1>1, <1>3, <2>1 DEF SameCalculated, Traversing
<1> QED
  BY <1>2, <1>3

\* A list is added: an object nobody points to.
LEMMA addSourceStep ==
    ASSUME Inv, NEW l \in List, addSource(l)
    PROVE  Inv'
<1>0. TypeOK
  BY DEF Inv
<1>1. lists' \subseteq List /\ Inserted
  BY <1>0 DEF addSource, TypeOK
<1>2. /\ changed' \in BOOLEAN /\ SameCalculated
      /\ stats' = stats
         \/ stats' \in [at : {"lists"}, todo : SUBSET List]
                \cup [at : {"calculated"}, todo : SUBSET List, list : List, read : Int32]
  BY <1>0, <1>1, InsertedTypes
<1>3. /\ listBytes' = [listBytes EXCEPT ![l] = 0] /\ received' = [received EXCEPT ![l] = 0]
      /\ rated' = [rated EXCEPT ![l] = 0] /\ stampAge' = [stampAge EXCEPT ![l] = 0]
      /\ UNCHANGED <<working, null, inputBytes, process, counted, interval, reported, flooded>>
  BY DEF addSource
<1>4. /\ process.at = "counted" => process.list \in List /\ process.list # l
      /\ stats.at = "calculated" => stats.list \in List /\ stats.list # l
  BY <1>0, Places DEF addSource, Pointed, Idle
<1>5. TypeOK'
  <2>1. 0 \in Age /\ 0 \in Int32 /\ 0 \in 0..MaxBytes
    BY Numbers DEF Age
  <2> QED
    BY <1>0, <1>1, <1>2, <1>3, <2>1 DEF TypeOK
<1>6. Counting'
  <2>1. counted \in Nat
    BY <1>0, Numbers DEF TypeOK
  <2> QED
    BY <1>0, <1>2, <1>3, <1>4, <2>1 DEF Inv, Counting, SameCalculated, TypeOK
<1>7. WorkerBytesConserved'
  BY <1>3 DEF Inv, WorkerBytesConserved
<1>8. ListBytesBounded'
  <2>1. ASSUME NEW j \in List
        PROVE  rated'[j] + listBytes'[j]
                 <= received'[j]
                    + (IF stats'.at = "calculated" /\ stats'.list = j THEN stats'.read ELSE 0)
    <3>1. CASE j = l
      BY <1>0, <1>2, <1>3, <1>4, <3>1 DEF TypeOK, SameCalculated
    <3>2. CASE j # l
      <4>1. rated'[j] = rated[j] /\ listBytes'[j] = listBytes[j] /\ received'[j] = received[j]
        BY <1>0, <1>3, <3>2 DEF TypeOK
      <4> QED
        BY <1>2, <4>1 DEF Inv, ListBytesBounded, SameCalculated
    <3> QED
      BY <3>1, <3>2
  <2> QED
    BY <2>1 DEF ListBytesBounded
<1> QED
  BY <1>5, <1>6, <1>7, <1>8 DEF Inv

\* A list is removed, perhaps from under the iterator.
LEMMA removeSourceStep ==
    ASSUME Inv, NEW l \in List, removeSource(l)
    PROVE  Inv'
<1>0. TypeOK
  BY DEF Inv
<1>1. working' \in BOOLEAN /\ changed' \in BOOLEAN /\ lists' \subseteq List
  BY <1>0 DEF removeSource, Stops, Traversing, TypeOK
<1>2. UNCHANGED <<null, inputBytes, listBytes, stampAge, process, counted, interval, reported,
                  flooded, received, rated>>
  BY DEF removeSource, counters
<1>3. CASE stats.at = "lists" /\ stats' = [at |-> "astray"]
  <2>1. SameCalculated /\ stats'.at # "calculated"
    BY <1>3 DEF SameCalculated
  <2> QED
    BY <1>0, <1>1, <1>2, <1>3, <2>1, CountersKept DEF Inv, TypeOK
<1>4. CASE Traversing /\ stats' = [stats EXCEPT !.todo = @ \ {l}]
  <2>1. stats.todo \ {l} \in SUBSET List
    BY <1>0, <1>4, Places DEF Traversing
  <2>2. stats' = [stats EXCEPT !.todo = stats.todo \ {l}]
    BY <1>4
  <2>3. /\ stats' \in [at : {"lists"}, todo : SUBSET List]
               \cup [at : {"calculated"}, todo : SUBSET List, list : List, read : Int32]
        /\ SameCalculated
        /\ stats'.at = "calculated" => stats.list \in List
    BY <1>0, <1>4, <2>1, <2>2, TraversalTypes
  <2> QED
    BY <1>0, <1>1, <1>2, <2>3, CountersKept DEF Inv, TypeOK
<1>5. CASE UNCHANGED stats
  <2>1. SameCalculated /\ (stats'.at = "calculated" => stats.list \in List)
    BY <1>0, <1>5, Places DEF SameCalculated
  <2> QED
    BY <1>0, <1>1, <1>2, <1>5, <2>1, CountersKept DEF Inv, TypeOK
<1> QED
  BY <1>3, <1>4, <1>5 DEF removeSource

\* The steps of generateStats() that calculate nothing, and an iterator that is astray.
LEMMA reportingStep ==
    ASSUME Inv, \/ \E l \in List : skip(l)
                \/ sleep \/ goAstray
    PROVE  Inv'
<1>0. TypeOK
  BY DEF Inv
<1>1. /\ UNCHANGED <<table, counters, process, history>>
      /\ stats.at # "calculated" /\ stats'.at # "calculated"
      /\ stats' \in [at : {"asleep"}, left : 0..Period] \cup [at : {"lists"}, todo : SUBSET List]
                      \cup {Ended, [at |-> "astray"], [at |-> "crashed"]}
  <2>1. CASE \E l \in List : skip(l)
    <3>1. PICK l \in List : skip(l)
      BY <2>1
    <3>2. stats.todo \in SUBSET List
      BY <1>0, <3>1, Places DEF skip
    <3> QED
      BY <3>1, <3>2 DEF skip, Among
  <2>2. CASE sleep
    BY <2>2, Numbers DEF sleep, Among, Asleep, Ended
  <2>3. CASE goAstray
    BY <1>0, <2>3 DEF goAstray, Among, TypeOK
  <2> QED
    BY <2>1, <2>2, <2>3
<1>2. SameCalculated
  BY <1>1 DEF SameCalculated
<1> QED
  BY <1>0, <1>1, <1>2, CountersKept DEF Inv, TypeOK, table, counters, history

\* A datagram arrives, of a list or of a stranger.
LEMMA receiveStep ==
    ASSUME Inv, NEW l \in List, NEW n \in Length, receive(l, n)
    PROVE  Inv'
<1>0. TypeOK
  BY DEF Inv
<1>1. /\ process' = [at |-> "received", list |-> l, length |-> n]
      /\ counted + n <= MaxBytes
      /\ UNCHANGED <<table, counters, stats, history>>
  BY DEF receive
<1>2. TypeOK'
  BY <1>0, <1>1 DEF TypeOK, table, counters, history
<1>3. Counting'
  BY <1>1 DEF Inv, Counting, table, counters, history
<1>4. WorkerBytesConserved' /\ ListBytesBounded'
  BY <1>1 DEF Inv, WorkerBytesConserved, ListBytesBounded, counters, history
<1> QED
  BY <1>2, <1>3, <1>4 DEF Inv

LEMMA receiveFromStrangerStep ==
    ASSUME Inv, receiveFromStranger
    PROVE  Inv'
<1>0. TypeOK
  BY DEF Inv
<1>1. lists' \subseteq List /\ Inserted /\ null' = TRUE
      /\ UNCHANGED <<lists, working, counters, process, counted, interval, reported, flooded,
                     received, rated>>
  BY <1>0 DEF receiveFromStranger, TypeOK
<1> QED
  BY <1>0, <1>1, InsertedTypes, CountersKept DEF Inv, TypeOK, counters

\* The datagram is counted for the worker.
LEMMA countInputStep ==
    ASSUME Inv, countInput
    PROVE  Inv'
<1> DEFINE n == process.length
<1>0. TypeOK /\ Counting
  BY DEF Inv
<1>1. /\ process \in [at : {"received", "counted"}, list : List, length : Length]
      /\ process.at = "received" /\ n \in Nat \ {0} /\ process.list \in List
  BY <1>0, Places, Numbers DEF countInput
<1>2. /\ process' = [at |-> "counted", list |-> process.list, length |-> n]
      /\ process' \in [at : {"received", "counted"}, list : List, length : Length]
  BY <1>1 DEF countInput
<1>3. /\ inputBytes' = ToInt(inputBytes + n) /\ counted' = counted + n
      /\ interval' = interval + n /\ flooded' = (flooded \/ interval' > MaxInt)
      /\ UNCHANGED <<table, listBytes, stampAge, stats, reported, received, rated, changed>>
  BY DEF countInput
<1> HIDE DEF n
<1>4. /\ inputBytes \in Int32 /\ inputBytes \in Int /\ counted \in Nat /\ interval \in Nat
      /\ reported \in Int /\ MaxInt \in Nat /\ MaxBytes \in Nat
      /\ counted + n <= MaxBytes /\ interval <= counted
  <2>1. counted + n <= MaxBytes /\ interval <= counted
    BY <1>0, <1>1 DEF Counting, n
  <2>2. /\ inputBytes \in Int32 /\ counted \in 0..MaxBytes /\ interval \in 0..MaxBytes
        /\ reported \in Int
    BY <1>0 DEF TypeOK
  <2> QED
    BY <2>1, <2>2, Numbers
<1>5. /\ inputBytes' \in Int32 /\ inputBytes' \in Int
      /\ inputBytes + n \in Int32 => inputBytes' = inputBytes + n
      /\ ((inputBytes + n) - inputBytes') % IntSize = 0
      /\ IntSize \in Nat \ {0}
  <2> DEFINE sum == inputBytes + n
  <2>1. sum \in Int /\ inputBytes' = ToInt(sum)
    BY <1>1, <1>3, <1>4
  <2> HIDE DEF sum
  <2>2. /\ ToInt(sum) \in Int32
        /\ sum \in Int32 => ToInt(sum) = sum
        /\ (sum - ToInt(sum)) % IntSize = 0
        /\ IntSize \in Nat \ {0}
    BY <2>1, ToIntHolds
  <2>3. /\ inputBytes' \in Int32 /\ inputBytes' \in Int
        /\ sum \in Int32 => inputBytes' = sum
        /\ (sum - inputBytes') % IntSize = 0
        /\ IntSize \in Nat \ {0}
    <3>1. inputBytes' \in Int32
      BY <2>1, <2>2
    <3>2. inputBytes' \in Int
      BY <3>1, Numbers
    <3>3. sum \in Int32 => inputBytes' = sum
      BY <2>1, <2>2
    <3>4. (sum - inputBytes') % IntSize = 0
      BY <2>1, <2>2
    <3> QED
      BY <2>2, <3>1, <3>2, <3>3, <3>4, Zenon
  <2> QED
    BY <2>3 DEF sum
<1>6. counted' \in 0..MaxBytes /\ interval' \in 0..MaxBytes /\ flooded' \in BOOLEAN
  <2>1. flooded' \in BOOLEAN
    BY <1>0, <1>3 DEF TypeOK
  <2> QED
    BY <1>1, <1>3, <1>4, <2>1
<1>7. TypeOK'
  BY <1>0, <1>2, <1>3, <1>5, <1>6 DEF TypeOK, table
<1>8. ~ flooded' => /\ ~ flooded /\ interval' <= MaxInt
                    /\ inputBytes = interval /\ inputBytes' = interval'
  <2>1. ~ flooded' => ~ flooded /\ ~ (interval' > MaxInt)
    BY <1>3
  <2>2. ~ flooded' => inputBytes = interval /\ interval' <= MaxInt
    BY <1>0, <1>1, <1>3, <1>4, <2>1 DEF Counting
  <2>3. ~ flooded' => inputBytes + n \in Int32
    BY <1>1, <1>3, <1>4, <2>2 DEF Int32
  <2> QED
    BY <1>3, <1>5, <2>1, <2>2, <2>3
<1>9. Counting'
  <2>1. interval' <= counted'
    BY <1>1, <1>3, <1>4
  <2>2. \A l \in List : received[l] \in Nat /\ received[l] <= counted
    <3>1. \A l \in List : received[l] \in 0..MaxBytes
      BY <1>0 DEF TypeOK
    <3>2. \A l \in List : received[l] <= counted
      BY <1>0 DEF Counting
    <3> QED
      BY <3>1, <3>2, <1>4
  <2>3. \A l \in List : received'[l] <= counted' /\ received'[l] + n <= counted'
    BY <1>1, <1>3, <1>4, <2>2
  <2>4. stats'.at = "calculated" => rated'[stats'.list] <= received'[stats'.list]
    BY <1>0, <1>3 DEF Counting
  <2> QED
    BY <1>1, <1>2, <1>8, <2>1, <2>3, <2>4 DEF Counting
<1>10. WorkerBytesConserved'
  <2>1. ~ flooded' => inputBytes' + reported' = counted'
    <3>1. ~ flooded' => inputBytes + reported = counted
      BY <1>8 DEF Inv, WorkerBytesConserved
    <3>2. ~ flooded' => inputBytes' = inputBytes + n
      BY <1>3, <1>8
    <3> QED
      BY <1>1, <1>3, <1>4, <3>1, <3>2
  <2>2. (counted - inputBytes - reported) % IntSize = 0
    BY DEF Inv, WorkerBytesConserved
  <2>3. ((counted - inputBytes - reported) + ((inputBytes + n) - inputBytes')) % IntSize = 0
    <3>1. counted - inputBytes - reported \in Int /\ (inputBytes + n) - inputBytes' \in Int
      BY <1>1, <1>4, <1>5
    <3> QED
      BY <1>5, <2>2, <3>1, ModSum
  <2>4. (counted - inputBytes - reported) + ((inputBytes + n) - inputBytes')
          = counted' - inputBytes' - reported'
    BY <1>1, <1>3, <1>4, <1>5
  <2> QED
    BY <2>1, <2>3, <2>4 DEF WorkerBytesConserved
<1>11. ListBytesBounded'
  BY <1>3 DEF Inv, ListBytesBounded
<1> QED
  BY <1>7, <1>9, <1>10, <1>11 DEF Inv

\* The datagram is counted for its list.
LEMMA updateInputBytesStep ==
    ASSUME Inv, updateInputBytes
    PROVE  Inv'
<1> DEFINE n == process.length
           l == process.list
<1>0. TypeOK /\ Counting
  BY DEF Inv
<1>1. process.at = "counted" /\ n \in Nat \ {0} /\ l \in List
  BY <1>0, Places, Numbers DEF updateInputBytes
<1>2. /\ listBytes' = [listBytes EXCEPT ![l] = ToInt(listBytes[l] + n)]
      /\ received' = [received EXCEPT ![l] = received[l] + n]
      /\ process' = Idle
      /\ UNCHANGED <<table, inputBytes, stampAge, stats, counted, interval, reported, flooded,
                     rated, changed>>
  BY DEF updateInputBytes
<1>3. received[l] + n <= counted
  BY <1>0, <1>1 DEF Counting
<1> HIDE DEF n, l
<1>4. /\ listBytes[l] \in Int32 /\ listBytes[l] \in Int /\ listBytes[l] >= -(MaxInt + 1)
      /\ received[l] \in Nat /\ counted \in 0..MaxBytes
      /\ MaxInt \in Nat /\ MaxBytes \in Nat
  BY <1>0, <1>1, Numbers DEF TypeOK, Int32
<1>5. ToInt(listBytes[l] + n) \in Int32 /\ ToInt(listBytes[l] + n) <= listBytes[l] + n
  <2>1. listBytes[l] + n \in Int /\ listBytes[l] + n >= -(MaxInt + 1)
    BY <1>1, <1>4
  <2> QED
    BY <2>1, ToIntHolds
<1>6. TypeOK'
  <2>1. received[l] + n \in 0..MaxBytes
    BY <1>1, <1>3, <1>4
  <2> QED
    BY <1>0, <1>1, <1>2, <1>5, <2>1 DEF TypeOK, table
<1>7. \A j \in List : /\ received'[j] = IF j = l THEN received[l] + n ELSE received[j]
                      /\ listBytes'[j] = IF j = l THEN ToInt(listBytes[l] + n) ELSE listBytes[j]
  BY <1>0, <1>1, <1>2 DEF TypeOK
<1>8. Counting'
  <2>1. \A j \in List : received'[j] <= counted'
    BY <1>0, <1>2, <1>3, <1>7 DEF Counting
  <2>2. stats'.at = "calculated" => rated'[stats'.list] <= received'[stats'.list]
    <3>1. SUFFICES ASSUME stats.at = "calculated"
                   PROVE  rated[stats.list] <= received'[stats.list]
      BY <1>2
    <3>2. stats.list \in List /\ rated[stats.list] <= received[stats.list]
            /\ rated[stats.list] \in Int /\ received[stats.list] \in Nat
      BY <1>0, <3>1, Places, Numbers DEF Counting, TypeOK
    <3> QED
      BY <1>1, <1>4, <1>7, <3>2
  <2>3. process'.at = "idle"
    BY <1>2 DEF Idle
  <2> QED
    BY <1>0, <1>2, <2>1, <2>2, <2>3 DEF Counting
<1>9. WorkerBytesConserved'
  BY <1>2 DEF Inv, WorkerBytesConserved
<1>10. ListBytesBounded'
  <2>1. ASSUME NEW j \in List
        PROVE  rated'[j] + listBytes'[j]
                 <= received'[j]
                    + (IF stats'.at = "calculated" /\ stats'.list = j THEN stats'.read ELSE 0)
    <3> DEFINE x == IF stats.at = "calculated" /\ stats.list = j THEN stats.read ELSE 0
    <3>1. x \in Int
      <4>1. stats.at = "calculated" => stats.read \in Int
        BY <1>0, Places, Numbers
      <4> QED
        BY <4>1
    <3>2. rated[j] + listBytes[j] <= received[j] + x
      BY DEF Inv, ListBytesBounded
    <3>3. rated[j] \in Int /\ listBytes[j] \in Int /\ received[j] \in Int
      <4>1. rated[j] \in Int /\ listBytes[j] \in Int32 /\ received[j] \in 0..MaxBytes
        BY <1>0 DEF TypeOK
      <4>2. received[j] \in Int
        BY <4>1
      <4>3. listBytes[j] \in Int
        BY <4>1, Numbers
      <4> QED
        BY <4>1, <4>2, <4>3
    <3>4. stats' = stats /\ rated' = rated
      BY <1>2
    <3> HIDE DEF x
    <3>5. rated[j] + listBytes'[j] <= received'[j] + x
      <4>1. CASE j = l
        <5>1. ToInt(listBytes[l] + n) \in Int
          BY <1>5, Numbers
        <5> QED
          BY <1>1, <1>4, <1>5, <1>7, <3>1, <3>2, <3>3, <4>1, <5>1
      <4>2. CASE j # l
        BY <1>7, <3>2, <4>2
      <4> QED
        BY <4>1, <4>2
    <3> QED
      BY <3>4, <3>5 DEF x
  <2> QED
    BY <2>1 DEF ListBytesBounded
<1> QED
  BY <1>6, <1>8, <1>9, <1>10 DEF Inv

\* The worker's counter is read and reset.
LEMMA collectStep ==
    ASSUME Inv, collect
    PROVE  Inv'
<1>0. TypeOK /\ Counting
  BY DEF Inv
<1>1. /\ reported' = reported + inputBytes /\ interval' = 0 /\ inputBytes' = 0
      /\ stats' = [at |-> "lists", todo |-> lists]
      /\ UNCHANGED <<table, listBytes, stampAge, process, counted, flooded, received, rated,
                     changed>>
      /\ stats.at = "asleep"
  BY DEF collect, Among
<1>2. inputBytes \in Int /\ reported \in Int /\ counted \in 0..MaxBytes
  <2>1. inputBytes \in Int32 /\ reported \in Int /\ counted \in 0..MaxBytes
    BY <1>0 DEF TypeOK
  <2> QED
    BY <2>1, Numbers
<1>3. TypeOK'
  <2>1. reported' \in Int /\ interval' \in 0..MaxBytes /\ inputBytes' \in Int32
    BY <1>1, <1>2, Numbers
  <2>2. stats' \in [at : {"lists"}, todo : SUBSET List]
    BY <1>0, <1>1 DEF TypeOK
  <2> QED
    BY <1>0, <1>1, <2>1, <2>2 DEF TypeOK, table
<1>4. Counting'
  <2>1. interval' <= counted' /\ inputBytes' = interval' /\ interval' <= MaxInt
    BY <1>1, <1>2, Numbers
  <2> QED
    BY <1>0, <1>1, <2>1 DEF Counting
<1>5. WorkerBytesConserved'
  <2>1. ~ flooded => inputBytes + reported = counted
    BY DEF Inv, WorkerBytesConserved
  <2>2. (counted - inputBytes - reported) % IntSize = 0
    BY DEF Inv, WorkerBytesConserved
  <2>3. counted' - inputBytes' - reported' = counted - inputBytes - reported
    BY <1>1, <1>2
  <2>4. inputBytes' + reported' = inputBytes + reported
    BY <1>1, <1>2
  <2> QED
    BY <1>1, <2>1, <2>2, <2>3, <2>4 DEF WorkerBytesConserved
<1>6. ListBytesBounded'
  BY <1>1 DEF Inv, ListBytesBounded
<1> QED
  BY <1>3, <1>4, <1>5, <1>6 DEF Inv

\* A rate is calculated from what the counter holds.
LEMMA calculateRateStep ==
    ASSUME Inv, NEW l \in List, calculateRate(l)
    PROVE  Inv'
<1>0. TypeOK /\ Counting
  BY DEF Inv
<1>1. /\ stats.at = "lists" /\ stats.todo \in SUBSET List
      /\ rated' = [rated EXCEPT ![l] = rated[l] + listBytes[l]]
      /\ stats' = [at |-> "calculated", todo |-> stats.todo \ {l}, list |-> l,
                   read |-> listBytes[l]]
      /\ UNCHANGED <<table, counters, process, counted, interval, reported, flooded, received,
                     changed>>
  BY <1>0, Places DEF calculateRate
<1>2. \A j \in List : /\ rated[j] \in Int /\ listBytes[j] \in Int32 /\ listBytes[j] \in Int
                      /\ received[j] \in 0..MaxBytes /\ received[j] \in Int
                      /\ rated[j] + listBytes[j] <= received[j]
  <2>1. ASSUME NEW j \in List
        PROVE  rated[j] + listBytes[j] <= received[j] + 0
    BY <1>1 DEF Inv, ListBytesBounded
  <2>2. ASSUME NEW j \in List
        PROVE  rated[j] \in Int /\ listBytes[j] \in Int32 /\ received[j] \in 0..MaxBytes
    BY <1>0 DEF TypeOK
  <2>3. ASSUME NEW j \in List
        PROVE  listBytes[j] \in Int /\ received[j] \in Int
    <3>1. received[j] \in Int
      BY <2>2
    <3>2. listBytes[j] \in Int
      BY <2>2, Numbers
    <3> QED
      BY <3>1, <3>2
  <2> QED
    BY <2>1, <2>2, <2>3
<1>3. \A j \in List : rated'[j] = IF j = l THEN rated[l] + listBytes[l] ELSE rated[j]
  BY <1>0, <1>1 DEF TypeOK
<1>4. TypeOK'
  <2>1. rated' \in [List -> Int]
    <3>1. rated[l] + listBytes[l] \in Int
      BY <1>2
    <3> QED
      BY <1>0, <1>1, <3>1 DEF TypeOK
  <2>2. stats' \in [at : {"calculated"}, todo : SUBSET List, list : List, read : Int32]
    BY <1>1, <1>2
  <2> QED
    BY <1>0, <1>1, <2>1, <2>2 DEF TypeOK, table, counters
<1>5. Counting'
  <2>1. rated'[stats'.list] <= received'[stats'.list]
    BY <1>1, <1>2, <1>3
  <2> QED
    BY <1>0, <1>1, <2>1 DEF Counting, counters
<1>6. WorkerBytesConserved'
  BY <1>1 DEF Inv, WorkerBytesConserved, counters
<1>7. ListBytesBounded'
  <2>1. ASSUME NEW j \in List
        PROVE  rated'[j] + listBytes[j] <= received[j] + (IF l = j THEN listBytes[l] ELSE 0)
    BY <1>2, <1>3
  <2> QED
    BY <1>1, <2>1 DEF ListBytesBounded, counters
<1> QED
  BY <1>4, <1>5, <1>6, <1>7 DEF Inv

\* The counter is reset, with what was counted since.
LEMMA resetInputBytesStep ==
    ASSUME Inv, resetInputBytes
    PROVE  Inv'
<1>0. TypeOK /\ Counting
  BY DEF Inv
<1> DEFINE k == stats.list
<1>1. /\ stats.at = "calculated" /\ k \in List /\ stats.todo \in SUBSET List
      /\ rated[k] <= received[k]
      /\ listBytes' = [listBytes EXCEPT ![k] = 0] /\ stampAge' = [stampAge EXCEPT ![k] = 0]
      /\ UNCHANGED <<table, inputBytes, process, history>>
  BY <1>0, Places DEF resetInputBytes, Counting
<1>2. \/ stats' = [at |-> "lists", todo |-> stats.todo]
      \/ stats' = [at |-> "astray"]
  BY DEF resetInputBytes, Advance, Among
<1>3. stats'.at # "calculated"
  BY <1>2
<1> HIDE DEF k
<1>4. TypeOK'
  <2>1. 0 \in Age /\ 0 \in Int32
    BY Numbers DEF Age
  <2> QED
    BY <1>0, <1>1, <1>2, <2>1 DEF TypeOK, table, history
<1>5. Counting'
  BY <1>0, <1>1, <1>3 DEF Counting, history
<1>6. WorkerBytesConserved'
  BY <1>1 DEF Inv, WorkerBytesConserved, history
<1>7. ListBytesBounded'
  <2>1. ASSUME NEW j \in List
        PROVE  rated[j] + listBytes'[j] <= received[j] + 0
    <3>1. rated[j] \in Int /\ received[j] \in 0..MaxBytes
      BY <1>0 DEF TypeOK
    <3>2. CASE j = k
      <4>1. listBytes'[j] = 0
        BY <1>0, <1>1, <3>2 DEF TypeOK
      <4> QED
        BY <1>1, <3>1, <3>2, <4>1
    <3>3. CASE j # k
      <4>1. listBytes'[j] = listBytes[j]
        BY <1>0, <1>1, <3>3 DEF TypeOK
      <4>2. rated[j] + listBytes[j] <= received[j] + 0
        BY <1>1, <3>3 DEF Inv, ListBytesBounded, k
      <4> QED
        BY <4>1, <4>2
    <3> QED
      BY <3>2, <3>3
  <2> QED
    BY <1>1, <1>3, <2>1 DEF ListBytesBounded, history
<1> QED
  BY <1>4, <1>5, <1>6, <1>7 DEF Inv

-----------------------------------------------------------------------------
(* The theorems.                                                           *)

LEMMA InvInit == Init => Inv
<1> SUFFICES ASSUME Init PROVE Inv
  OBVIOUS
<1>1. TypeOK
  <2>1. 0 \in Age /\ 0 \in Int32 /\ 0 \in 0..MaxBytes /\ 0 \in Int /\ Period \in 0..Period
    BY Numbers DEF Age
  <2> QED
    BY <2>1 DEF Init, TypeOK, Asleep
<1>2. Counting
  <2>1. process.at = "idle" /\ stats.at = "asleep" /\ 0 <= MaxInt /\ 0 <= 0
    BY Numbers DEF Init, Idle, Asleep
  <2> QED
    BY <2>1 DEF Init, Counting
<1>3. WorkerBytesConserved
  <2>1. 0 \in Int /\ IntSize \in Nat \ {0}
    BY ToIntHolds
  <2>2. 0 % IntSize = 0
    BY <2>1, ModRange
  <2>3. 0 - 0 - 0 = 0 /\ 0 + 0 = 0
    OBVIOUS
  <2> QED
    BY <2>2, <2>3 DEF Init, WorkerBytesConserved
<1>4. ListBytesBounded
  <2>1. stats.at = "asleep"
    BY DEF Init, Asleep
  <2> QED
    BY <2>1 DEF Init, ListBytesBounded
<1> QED
  BY <1>1, <1>2, <1>3, <1>4 DEF Inv

LEMMA InvStep == Inv /\ [Next]_vars => Inv'
<1> SUFFICES ASSUME Inv, [Next]_vars PROVE Inv'
  OBVIOUS
<1>1. CASE UNCHANGED vars
  BY <1>1 DEF Inv, TypeOK, Counting, WorkerBytesConserved, ListBytesBounded, vars, table,
              counters, history
<1>2. CASE tick
  BY <1>2, tickStep
<1>3. CASE \E l \in List : addSource(l) \/ removeSource(l)
  BY <1>3, addSourceStep, removeSourceStep
<1>4. CASE \E l \in List, n \in Length : receive(l, n)
  BY <1>4, receiveStep
<1>5. CASE receiveFromStranger
  BY <1>5, receiveFromStrangerStep
<1>6. CASE countInput
  BY <1>6, countInputStep
<1>7. CASE updateInputBytes
  BY <1>7, updateInputBytesStep
<1>8. CASE collect
  BY <1>8, collectStep
<1>9. CASE \E l \in List : skip(l)
  BY <1>9, reportingStep
<1>10. CASE \E l \in List : calculateRate(l)
  BY <1>10, calculateRateStep
<1>11. CASE resetInputBytes
  BY <1>11, resetInputBytesStep
<1>12. CASE sleep \/ goAstray
  BY <1>12, reportingStep
<1> QED
  BY <1>1, <1>2, <1>3, <1>4, <1>5, <1>6, <1>7, <1>8, <1>9, <1>10, <1>11, <1>12
     DEF Next, generateStats

\* The counters hold ints, and the two threads point only to list objects, whenever
\* lists are added and removed between their steps (run, generateStats, addSource and
\* removeSource of StatsWorker).
THEOREM TypeTheorem == Spec => []TypeOK
<1>1. Inv => TypeOK
  BY DEF Inv
<1> QED
  BY <1>1, InvInit, InvStep, PTL DEF Spec

\* What the worker has counted is in its counter or in its reports (countInput and
\* collect, under stats_mutex), for an int of any size.
THEOREM ConservedTheorem == Spec => []WorkerBytesConserved
<1>1. Inv => WorkerBytesConserved
  BY DEF Inv
<1> QED
  BY <1>1, InvInit, InvStep, PTL DEF Spec

\* The rates of a list count no byte twice, although calculateRate reads the counter
\* without list_mutex and an object may be freed and another one take its place.
THEOREM ListBytesTheorem == Spec => []ListBytesBounded
<1>1. Inv => ListBytesBounded
  BY DEF Inv
<1> QED
  BY <1>1, InvInit, InvStep, PTL DEF Spec

-----------------------------------------------------------------------------
(* What StatsEnds and RatedAgain rest on: only a change of management      *)
(* under the traversal leads it astray, and once the worker is stopped     *)
(* each step of the reporting thread brings its end nearer.                *)

\* The traversal goes over entries of management, unless that has changed under it.
Steered ==
    ~ changed =>
        /\ stats.at \notin {"astray", "crashed"}
        /\ Traversing => stats.todo \subseteq lists
        /\ stats.at = "calculated" => stats.list \in lists

\* Steps and seconds to the end of the thread, at most, once working is cleared.
Left(s) ==
    CASE s.at = "ended"      -> 0
      [] s.at = "lists"      -> 1 + 2 * Cardinality(s.todo)
      [] s.at = "calculated" -> 2 + 2 * Cardinality(s.todo)
      [] s.at = "asleep"     -> 2 + 2 * Cardinality(List) + s.left

EndNearer == ~ working /\ ~ changed /\ stats' # stats => Left(stats') < Left(stats)

\* The lists to come in a traversal.
LEMMA TodoIs ==
    ASSUME NEW S \in SUBSET List
    PROVE  /\ Cardinality(S) \in Nat
           /\ Cardinality(List) \in Nat
           /\ Cardinality(S) <= Cardinality(List)
           /\ \A l \in S : /\ Cardinality(S \ {l}) \in Nat
                           /\ Cardinality(S) = Cardinality(S \ {l}) + 1
<1>1. /\ IsFiniteSet(List) /\ IsFiniteSet(S)
      /\ Cardinality(S) <= Cardinality(List)
  BY StatsAssumption, FS_Subset
<1>2. Cardinality(S) \in Nat /\ Cardinality(List) \in Nat
  BY <1>1, FS_CardinalityType
<1>3. ASSUME NEW l \in S
      PROVE  /\ Cardinality(S \ {l}) \in Nat
             /\ Cardinality(S) = Cardinality(S \ {l}) + 1
  <2>1. IsFiniteSet(S \ {l}) /\ Cardinality(S \ {l}) = Cardinality(S) - 1
    BY <1>1, <1>3, FS_RemoveElement
  <2>2. Cardinality(S \ {l}) \in Nat
    BY <2>1, FS_CardinalityType
  <2> QED
    BY <1>2, <2>1, <2>2
<1> QED
  BY <1>1, <1>2, <1>3

LEMMA LeftIs ==
    ASSUME NEW s
    PROVE  /\ s.at = "ended" => Left(s) = 0
           /\ s.at = "lists" => Left(s) = 1 + 2 * Cardinality(s.todo)
           /\ s.at = "calculated" => Left(s) = 2 + 2 * Cardinality(s.todo)
           /\ s.at = "asleep" => Left(s) = 2 + 2 * Cardinality(List) + s.left
BY DEF Left

LEMMA SteeredStep ==
    ASSUME TypeOK, Steered, [Next]_vars
    PROVE  Steered'
<1> USE DEF table, counters, history
<1>1. CASE UNCHANGED <<lists, stats, changed>>
  BY <1>1 DEF Steered, Traversing
<1>2. CASE tick
  <2>1. UNCHANGED <<lists, changed>>
    BY <1>2 DEF tick
  <2>2. CASE stats.at = "asleep"
    <3>1. stats \in [at : {"asleep"}, left : 0..Period]
      BY <2>2, Places
    <3>2. stats' = stats \/ stats' = [stats EXCEPT !.left = @ - 1]
      BY <1>2 DEF tick
    <3>3. stats'.at = "asleep"
      BY <2>2, <3>1, <3>2
    <3> QED
      BY <3>3 DEF Steered, Traversing
  <2>3. CASE stats.at # "asleep"
    <3>1. stats' = stats
      BY <1>2, <2>3 DEF tick
    <3> QED
      BY <1>1, <2>1, <3>1
  <2> QED
    BY <2>2, <2>3
<1>3. ASSUME NEW l \in List, addSource(l)
      PROVE  Steered'
  <2>1. SUFFICES ASSUME ~ changed'
                 PROVE  Steered'
    BY DEF Steered
  <2>2. ~ changed /\ ~ Traversing /\ stats' = stats
    BY <1>3, <2>1 DEF addSource, Inserted
  <2> QED
    BY <2>2 DEF Steered, Traversing
<1>4. ASSUME NEW l \in List, removeSource(l)
      PROVE  Steered'
  <2>1. SUFFICES ASSUME ~ changed'
                 PROVE  Steered'
    BY DEF Steered
  <2>2. ~ changed /\ ~ Traversing /\ stats' = stats
    BY <1>4, <2>1 DEF removeSource, Traversing
  <2> QED
    BY <2>2 DEF Steered, Traversing
<1>5. CASE receiveFromStranger
  <2>1. SUFFICES ASSUME ~ changed'
                 PROVE  Steered'
    BY DEF Steered
  <2>2. ~ changed /\ ~ Traversing /\ stats' = stats
    BY <1>5, <2>1 DEF receiveFromStranger, Inserted
  <2> QED
    BY <2>2 DEF Steered, Traversing
<1>6. CASE collect
  <2>1. stats'.at = "lists" /\ stats'.todo = lists /\ lists' = lists
    BY <1>6 DEF collect, Among
  <2> QED
    BY <2>1 DEF Steered, Traversing
<1>7. ASSUME NEW l \in List, skip(l)
      PROVE  Steered'
  <2>1. /\ stats.at = "lists" /\ UNCHANGED <<lists, changed>>
        /\ stats'.at = "lists" /\ stats'.todo = stats.todo \ {l}
    BY <1>7 DEF skip, Among
  <2> QED
    BY <2>1 DEF Steered, Traversing
<1>8. ASSUME NEW l \in List, calculateRate(l)
      PROVE  Steered'
  <2>1. /\ stats.at = "lists" /\ l \in stats.todo /\ UNCHANGED <<lists, changed>>
        /\ stats'.at = "calculated" /\ stats'.todo = stats.todo \ {l} /\ stats'.list = l
    BY <1>8 DEF calculateRate
  <2> QED
    BY <2>1 DEF Steered, Traversing
<1>9. CASE resetInputBytes
  <2>1. stats.at = "calculated" /\ UNCHANGED <<lists, changed>>
    BY <1>9 DEF resetInputBytes
  <2>2. SUFFICES ASSUME ~ changed
                 PROVE  Steered'
    BY <2>1 DEF Steered
  <2>3. stats' = Among(stats.todo) /\ stats.todo \subseteq lists
    BY <1>9, <2>1, <2>2 DEF resetInputBytes, Advance, Steered, Traversing
  <2>4. stats'.at = "lists" /\ stats'.todo = stats.todo
    BY <2>3 DEF Among
  <2> QED
    BY <2>1, <2>3, <2>4 DEF Steered, Traversing
<1>10. CASE sleep
  <2>1. stats'.at \in {"asleep", "ended"}
    BY <1>10 DEF sleep, Asleep, Ended
  <2> QED
    BY <2>1 DEF Steered, Traversing
<1>11. CASE goAstray
  BY <1>11 DEF goAstray, Steered
<1>12. CASE \/ \E l \in List, n \in Length : receive(l, n)
            \/ countInput \/ updateInputBytes \/ UNCHANGED vars
  BY <1>1, <1>12 DEF receive, countInput, updateInputBytes, vars
<1> QED
  BY <1>2, <1>3, <1>4, <1>5, <1>6, <1>7, <1>8, <1>9, <1>10, <1>11, <1>12 DEF Next, generateStats

LEMMA EndNearerStep ==
    ASSUME TypeOK, Steered, [Next]_vars
    PROVE  EndNearer
<1> SUFFICES ASSUME ~ working, ~ changed, stats' # stats
             PROVE  Left(stats') < Left(stats)
  BY DEF EndNearer
<1> USE DEF table, counters, history
<1>0. /\ stats.at \notin {"astray", "crashed"}
      /\ lists \in SUBSET List
  BY DEF Steered, TypeOK
<1>1. CASE tick
  <2>1. stats.at = "asleep" /\ stats.left > 0 /\ stats' = [stats EXCEPT !.left = @ - 1]
    BY <1>1 DEF tick
  <2>2. stats \in [at : {"asleep"}, left : 0..Period]
    BY <2>1, Places
  <2>3. stats'.at = "asleep" /\ stats'.left = stats.left - 1 /\ stats.left \in Int
    BY <2>1, <2>2, StatsAssumption
  <2>4. PICK c \in Nat : c = Cardinality(List)
    BY <1>0, TodoIs
  <2>5. Left(stats) = 2 + 2 * c + stats.left /\ Left(stats') = 2 + 2 * c + stats'.left
    BY <2>1, <2>3, <2>4, LeftIs
  <2> QED
    BY <2>3, <2>4, <2>5
<1>2. CASE collect
  <2>1. stats.at = "asleep" /\ stats.left = 0 /\ stats'.at = "lists" /\ stats'.todo = lists
    BY <1>2 DEF collect, Among
  <2>2. PICK c, d : c = Cardinality(List) /\ d = Cardinality(lists)
    OBVIOUS
  <2>3. c \in Nat /\ d \in Nat /\ d <= c
    BY <1>0, <2>2, TodoIs
  <2>4. Left(stats) = 2 + 2 * c + 0 /\ Left(stats') = 1 + 2 * d
    BY <2>1, <2>2, LeftIs
  <2> QED
    BY <2>3, <2>4
<1>3. ASSUME NEW l \in List, skip(l) \/ calculateRate(l)
      PROVE  Left(stats') < Left(stats)
  <2>1. /\ stats.at = "lists" /\ l \in stats.todo
        /\ stats'.at \in {"lists", "calculated"} /\ stats'.todo = stats.todo \ {l}
    BY <1>3 DEF skip, calculateRate, Among
  <2>2. stats.todo \in SUBSET List
    BY <2>1, Places
  <2>3. PICK c : c = Cardinality(stats'.todo)
    OBVIOUS
  <2>4. c \in Nat /\ Cardinality(stats.todo) = c + 1
    BY <2>1, <2>2, <2>3, TodoIs
  <2>5. Left(stats) = 1 + 2 * (c + 1)
    BY <2>1, <2>4, LeftIs
  <2>6. Left(stats') = 1 + 2 * c \/ Left(stats') = 2 + 2 * c
    BY <2>1, <2>3, LeftIs
  <2> QED
    BY <2>4, <2>5, <2>6
<1>4. CASE resetInputBytes
  <2>1. stats.at = "calculated" /\ stats' = Among(stats.todo)
    BY <1>4 DEF resetInputBytes, Advance, Steered
  <2>2. stats'.at = "lists" /\ stats'.todo = stats.todo
    BY <2>1 DEF Among
  <2>3. stats.todo \in SUBSET List
    BY <2>1, Places
  <2>4. PICK c \in Nat : c = Cardinality(stats.todo)
    BY <2>3, TodoIs
  <2>5. Left(stats) = 2 + 2 * c /\ Left(stats') = 1 + 2 * c
    BY <2>1, <2>2, <2>4, LeftIs
  <2> QED
    BY <2>4, <2>5
<1>5. CASE sleep
  <2>1. stats.at = "lists" /\ stats.todo = {} /\ stats'.at = "ended"
    BY <1>5 DEF sleep, Among, Ended
  <2>2. Left(stats) = 1 + 2 * Cardinality({}) /\ Left(stats') = 0
    BY <2>1, LeftIs
  <2> QED
    BY <2>2, FS_EmptySet
<1>6. CASE \E l \in List : addSource(l) \/ removeSource(l)
  BY <1>6 DEF addSource, removeSource
<1>7. CASE goAstray \/ receiveFromStranger
  BY <1>0, <1>7 DEF goAstray, receiveFromStranger
<1>8. CASE \/ \E l \in List, n \in Length : receive(l, n)
           \/ countInput \/ updateInputBytes \/ UNCHANGED vars
  BY <1>8 DEF receive, countInput, updateInputBytes, vars
<1> QED
  BY <1>1, <1>2, <1>3, <1>4, <1>5, <1>6, <1>7, <1>8 DEF Next, generateStats

\* The iterator of generateStats() stands at an entry of management as long as no list has
\* been added or removed under it.
THEOREM SteeredTheorem == Spec => []Steered
<1>1. Init => Steered
  BY DEF Init, Steered, Traversing, Asleep
<1>2. Inv /\ Steered /\ [Next]_vars => Steered'
  BY SteeredStep DEF Inv
<1> QED
  BY <1>1, <1>2, InvInit, InvStep, PTL DEF Spec

\* Once working has been cleared, each step of generateStats() and each second it sleeps
\* brings the end of its thread nearer: it finishes its report, or sleeps and makes one
\* more, and sees that working has been cleared.
THEOREM EndNearerTheorem == Spec => [][EndNearer]_vars
<1>1. Init => Steered
  BY DEF Init, Steered, Traversing, Asleep
<1>2. Inv /\ Steered /\ [Next]_vars => Steered' /\ [EndNearer]_vars
  BY SteeredStep, EndNearerStep DEF Inv
<1> QED
  BY <1>1, <1>2, InvInit, InvStep, PTL DEF Spec
=============================================================================
