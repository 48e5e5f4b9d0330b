----------------------------- MODULE RtcpProofs -----------------------------
(***************************************************************************)
(* Proofs about module RtcpWorker.                                         *)
(***************************************************************************)
EXTENDS RtcpWorker, StreamListProofs, FiniteSetTheorems, TLAPS

-----------------------------------------------------------------------------
(* What the socket operations return, for any tables.                      *)

\* portFd and fdPort are inverse and name bound sockets: TablesInverse of the
\* tables that are passed from call to call.
Agree(k) ==
    /\ \A p \in Port : k.portFd[p] # NoFd => /\ k.fdPort[k.portFd[p]] = p
                                            /\ k.sock[k.portFd[p]] = p
    /\ \A f \in Fd : k.fdPort[f] # 0 => k.portFd[k.fdPort[f]] = f

LEMMA SocketsFields ==
    ASSUME NEW k \in Sockets
    PROVE  /\ k.listener \in [Port -> Int]
           /\ k.portFd \in [Port -> Fd \cup {NoFd}]
           /\ k.fdPort \in [Fd -> Port \cup {0}]
           /\ k.sock \in [Fd -> Port \cup {Closed, Unbound}]
  BY DEF Sockets

LEMMA Values ==
    /\ Port \subseteq Nat \ {0}
    /\ Fd \subseteq Nat \ {0}
    /\ NoFd = -1 /\ Closed = -1 /\ Unbound = 0
    /\ NoFd \notin Fd
  BY WorkerAssumption DEF NoFd, Closed, Unbound

\* socket() returns a descriptor that is not open, when there is one.
LEMMA freeFdIsFree ==
    ASSUME NEW k
    PROVE  \/ freeFd(k) = NoFd /\ \A f \in Fd : k.sock[f] # Closed
           \/ freeFd(k) \in Fd /\ k.sock[freeFd(k)] = Closed
<1> DEFINE free == {f \in Fd : k.sock[f] = Closed}
<1>1. CASE free = {}
  BY <1>1 DEF freeFd
<1>2. CASE free # {}
  <2>1. free \in SUBSET Nat
    BY Values
  <2>2. Min(free) \in free
    BY <1>2, <2>1, MinOfPositions
  <2>3. freeFd(k) = Min(free)
    BY <1>2 DEF freeFd, Min
  <2> QED BY <2>2, <2>3
<1> QED BY <1>1, <1>2

\* init_socket changes nothing but one descriptor that was not open, and returns
\* it only when no socket was bound to the port.
LEMMA initSocketIs ==
    ASSUME NEW k \in Sockets, NEW p \in Port,
           NEW r, r = initSocket(k, p)
    PROVE  /\ r.k \in Sockets
           /\ r.k.listener = k.listener
           /\ r.k.portFd = k.portFd
           /\ r.k.fdPort = k.fdPort
           /\ \A g \in Fd : k.sock[g] # Closed => r.k.sock[g] = k.sock[g]
           /\ r.fd # NoFd => /\ r.fd \in Fd
                             /\ k.sock[r.fd] = Closed
                             /\ r.k.sock[r.fd] = p
                             /\ p \notin Occupied
                             /\ \A g \in Fd : k.sock[g] # p
           /\ r.fd = NoFd => \/ \A g \in Fd : k.sock[g] # Closed
                             \/ p \in Occupied
                             \/ \E g \in Fd : k.sock[g] = p
<1> DEFINE f == freeFd(k)
           granted == p \notin Occupied /\ \A g \in Fd : k.sock[g] # p
<1>1. CASE f = NoFd
  <2>1. r = [k |-> k, fd |-> NoFd]
    BY <1>1 DEF initSocket
  <2>2. \A g \in Fd : k.sock[g] # Closed
    BY <1>1, freeFdIsFree, Values
  <2> QED BY <2>1, <2>2
<1>2. CASE f # NoFd
  <2>1. f \in Fd /\ k.sock[f] = Closed
    BY <1>2, freeFdIsFree
  <2> HIDE DEF f
  <2>2. r = [k |-> [k EXCEPT !.sock[f] = IF granted THEN p ELSE Unbound],
             fd |-> IF granted THEN f ELSE NoFd]
    BY <1>2 DEF initSocket, f
  <2> HIDE DEF granted
  <2>3. PICK v : v = IF granted THEN p ELSE Unbound
    OBVIOUS
  <2>4. v \in Port \cup {Closed, Unbound}
    BY <2>3
  <2>5. r.k = [k EXCEPT !.sock[f] = v] /\ r.fd = IF granted THEN f ELSE NoFd
    BY <2>2, <2>3
  <2>6. /\ r.k.listener = k.listener
        /\ r.k.portFd = k.portFd
        /\ r.k.fdPort = k.fdPort
        /\ r.k.sock = [k.sock EXCEPT ![f] = v]
        /\ r.k \in Sockets
    BY <2>1, <2>4, <2>5 DEF Sockets
  <2>7. k.sock \in [Fd -> Port \cup {Closed, Unbound}]
    BY SocketsFields
  <2>8. \A g \in Fd : r.k.sock[g] = IF g = f THEN v ELSE k.sock[g]
    BY <2>6, <2>7
  <2>9. \A g \in Fd : k.sock[g] # Closed => r.k.sock[g] = k.sock[g]
    BY <2>1, <2>8
  <2>10. CASE granted
    BY <1>2, <2>1, <2>3, <2>5, <2>6, <2>8, <2>9, <2>10 DEF granted
  <2>11. CASE ~ granted
    BY <1>2, <2>1, <2>3, <2>5, <2>6, <2>8, <2>9, <2>11 DEF granted
  <2> QED BY <2>10, <2>11
<1> QED BY <1>1, <1>2

\* The outcomes of add_socket on tables k and port p, r its result: a listener
\* more on a port that has a count;
Reused(k, p, r) ==
    /\ k.listener[p] # 0
    /\ r.ret = 0
    /\ r.k.listener = [k.listener EXCEPT ![p] = @ + 1]
    /\ r.k.portFd = k.portFd
    /\ r.k.fdPort = k.fdPort
    /\ r.k.sock = k.sock
    /\ r.k \in Sockets

\* neither the port nor the next one opened, in a state in which the next one
\* cannot be opened by itself;
Refused(k, p, r) ==
    /\ k.listener[p] = 0
    /\ r.ret = -1
    /\ r.k.listener = k.listener
    /\ r.k.portFd = k.portFd
    /\ r.k.fdPort = k.fdPort
    /\ \A g \in Fd : k.sock[g] # Closed => r.k.sock[g] = k.sock[g]
    /\ r.k \in Sockets
    /\ initSocket(r.k, p + 1).fd = NoFd

\* both opened, on descriptors that were not open.
Opened(k, p, r) ==
    /\ k.listener[p] = 0
    /\ initSocket(k, p).fd # NoFd
    /\ r.ret = 1
    /\ r.k.listener = [k.listener EXCEPT ![p] = 1, ![p + 1] = 1]
    /\ \E f, g \in Fd :
          /\ f # g
          /\ k.sock[f] = Closed /\ k.sock[g] = Closed
          /\ \A h \in Fd : k.sock[h] \notin {p, p + 1}
          /\ r.k.portFd = [k.portFd EXCEPT ![p] = f, ![p + 1] = g]
          /\ r.k.fdPort = [k.fdPort EXCEPT ![f] = p, ![g] = p + 1]
          /\ r.k.sock[f] = p /\ r.k.sock[g] = p + 1
          /\ \A h \in Fd : k.sock[h] # Closed => r.k.sock[h] = k.sock[h]
    /\ r.k \in Sockets

\* What it returns when the port's own socket comes out as a and the next one's as b.
Result(k, p, a, b) ==
    IF k.listener[p] # 0 THEN [k |-> [k EXCEPT !.listener[p] = @ + 1], ret |-> 0]
    ELSE IF NoFd \in {a.fd, b.fd} THEN [k |-> b.k, ret |-> -1]
    ELSE [k |-> enterSockets(b.k, p, a.fd, b.fd), ret |-> 1]

LEMMA addSocketResult ==
    ASSUME NEW k, NEW p
    PROVE  addSocket(k, p) = Result(k, p, initSocket(k, p), initSocket(initSocket(k, p).k, p + 1))
BY Zenon DEF addSocket, Result

\* add_socket counts a listener on a port that has a count; otherwise it opens
\* the port and the next one, or opens neither and leaves the next one such that
\* it cannot be opened.
LEMMA addSocketIs ==
    ASSUME NEW k \in Sockets, NEW p \in Port, p + 1 \in Port,
           NEW r, r = addSocket(k, p)
    PROVE  Reused(k, p, r) \/ Refused(k, p, r) \/ Opened(k, p, r)
<1>1. PICK a : a = initSocket(k, p)
  OBVIOUS
<1>2. PICK b : b = initSocket(a.k, p + 1)
  OBVIOUS
<1>3. r = Result(k, p, a, b)
  BY <1>1, <1>2, addSocketResult, Zenon
<1>4. /\ a.k \in Sockets
      /\ a.k.listener = k.listener
      /\ a.k.portFd = k.portFd
      /\ a.k.fdPort = k.fdPort
      /\ \A g \in Fd : k.sock[g] # Closed => a.k.sock[g] = k.sock[g]
      /\ a.fd # NoFd => /\ a.fd \in Fd
                        /\ k.sock[a.fd] = Closed
                        /\ a.k.sock[a.fd] = p
                        /\ p \notin Occupied
                        /\ \A g \in Fd : k.sock[g] # p
      /\ a.fd = NoFd => \/ \A g \in Fd : k.sock[g] # Closed
                        \/ p \in Occupied
                        \/ \E g \in Fd : k.sock[g] = p
  BY <1>1, initSocketIs
<1>5. /\ b.k \in Sockets
      /\ b.k.listener = a.k.listener
      /\ b.k.portFd = a.k.portFd
      /\ b.k.fdPort = a.k.fdPort
      /\ \A g \in Fd : a.k.sock[g] # Closed => b.k.sock[g] = a.k.sock[g]
      /\ b.fd # NoFd => /\ b.fd \in Fd
                        /\ a.k.sock[b.fd] = Closed
                        /\ b.k.sock[b.fd] = p + 1
                        /\ p + 1 \notin Occupied
                        /\ \A g \in Fd : a.k.sock[g] # p + 1
      /\ b.fd = NoFd => \/ \A g \in Fd : a.k.sock[g] # Closed
                        \/ p + 1 \in Occupied
                        \/ \E g \in Fd : a.k.sock[g] = p + 1
  BY <1>2, <1>4, initSocketIs
<1>6. \A g \in Fd : k.sock[g] # Closed => b.k.sock[g] = k.sock[g]
  <2>1. SUFFICES ASSUME NEW g \in Fd, k.sock[g] # Closed
                 PROVE  b.k.sock[g] = k.sock[g]
    OBVIOUS
  <2>2. a.k.sock[g] = k.sock[g]
    BY <1>4, <2>1
  <2> QED BY <1>5, <2>1, <2>2
<1>7. CASE k.listener[p] # 0
  <2>1. r.ret = 0 /\ r.k = [k EXCEPT !.listener[p] = @ + 1]
    BY <1>3, <1>7 DEF Result
  <2> QED BY <1>7, <2>1 DEF Sockets, Reused
<1>8. CASE k.listener[p] = 0 /\ NoFd \in {a.fd, b.fd}
  <2>1. r = [k |-> b.k, ret |-> -1]
    BY <1>3, <1>8, Zenon DEF Result
  <2>7. r.ret = -1 /\ r.k = b.k
    BY <2>1
  <2>2. PICK c : c = initSocket(b.k, p + 1)
    OBVIOUS
  <2>3. c.fd # NoFd => /\ c.fd \in Fd
                       /\ b.k.sock[c.fd] = Closed
                       /\ p + 1 \notin Occupied
                       /\ \A g \in Fd : b.k.sock[g] # p + 1
    BY <1>5, <2>2, initSocketIs
  <2>4. b.fd # NoFd => c.fd = NoFd
    BY <1>5, <2>3
  <2>5. ASSUME b.fd = NoFd
        PROVE  c.fd = NoFd
    <3>1. p + 1 # Closed
      BY Values
    <3>2. CASE \A g \in Fd : a.k.sock[g] # Closed
      BY <1>5, <2>3, <3>2
    <3>3. CASE p + 1 \in Occupied
      BY <2>3, <3>3
    <3>4. CASE \E g \in Fd : a.k.sock[g] = p + 1
      BY <1>5, <2>3, <3>1, <3>4
    <3> QED BY <1>5, <2>5, <3>2, <3>3, <3>4
  <2>6. c.fd = NoFd
    BY <2>4, <2>5
  <2> QED BY <1>4, <1>5, <1>6, <1>8, <2>2, <2>6, <2>7 DEF Refused
<1>9. CASE k.listener[p] = 0 /\ NoFd \notin {a.fd, b.fd}
  <2>1. PICK f \in Fd, g \in Fd : f = a.fd /\ g = b.fd
    BY <1>4, <1>5, <1>9
  <2>2. r.ret = 1 /\ r.k = enterSockets(b.k, p, f, g)
    BY <1>3, <1>9, <2>1 DEF Result
  <2>3. PICK m : m = b.k
    OBVIOUS
  <2>4. m \in Sockets /\ m.listener = k.listener /\ m.portFd = k.portFd /\ m.fdPort = k.fdPort
    BY <1>4, <1>5, <2>3
  <2>5. r.k = [m EXCEPT !.portFd = [m.portFd EXCEPT ![p] = f, ![p + 1] = g],
                        !.fdPort = [m.fdPort EXCEPT ![f] = p, ![g] = p + 1],
                        !.listener = [m.listener EXCEPT ![p] = 1, ![p + 1] = 1]]
    BY <2>2, <2>3, <2>4 DEF Sockets, enterSockets
  <2>6. /\ r.k.listener = [k.listener EXCEPT ![p] = 1, ![p + 1] = 1]
        /\ r.k.portFd = [k.portFd EXCEPT ![p] = f, ![p + 1] = g]
        /\ r.k.fdPort = [k.fdPort EXCEPT ![f] = p, ![g] = p + 1]
        /\ r.k.sock = m.sock
        /\ r.k \in Sockets
    <3> DEFINE P == [m.portFd EXCEPT ![p] = f, ![p + 1] = g]
               F == [m.fdPort EXCEPT ![f] = p, ![g] = p + 1]
               L == [m.listener EXCEPT ![p] = 1, ![p + 1] = 1]
    <3>1. /\ m.listener \in [Port -> Int]
          /\ m.portFd \in [Port -> Fd \cup {NoFd}]
          /\ m.fdPort \in [Fd -> Port \cup {0}]
          /\ m.sock \in [Fd -> Port \cup {Closed, Unbound}]
      BY <2>4, SocketsFields
    <3>2. P \in [Port -> Fd \cup {NoFd}]
      BY <3>1
    <3>3. F \in [Fd -> Port \cup {0}]
      BY <3>1
    <3>4. L \in [Port -> Int]
      BY <3>1
    <3>5. L = [k.listener EXCEPT ![p] = 1, ![p + 1] = 1]
      BY <2>4
    <3>6. P = [k.portFd EXCEPT ![p] = f, ![p + 1] = g]
      BY <2>4
    <3>7. F = [k.fdPort EXCEPT ![f] = p, ![g] = p + 1]
      BY <2>4
    <3>8. r.k = [m EXCEPT !.portFd = P, !.fdPort = F, !.listener = L]
      BY <2>5
    <3> HIDE DEF P, F, L
    <3>9. r.k.listener = L /\ r.k.portFd = P /\ r.k.fdPort = F /\ r.k.sock = m.sock
      BY <2>4, <3>8 DEF Sockets
    <3>10. r.k \in Sockets
      BY <2>4, <3>2, <3>3, <3>4, <3>8 DEF Sockets
    <3> QED BY <3>5, <3>6, <3>7, <3>9, <3>10
  <2>7. a.k.sock[f] = p /\ b.k.sock[f] = p /\ b.k.sock[g] = p + 1 /\ p # Closed /\ f # g
    <3>1. a.k.sock[f] = p /\ p # Closed
      BY <1>4, <1>9, <2>1, Values
    <3>2. a.k.sock[g] = Closed
      BY <1>5, <1>9, <2>1
    <3> QED BY <1>5, <1>9, <2>1, <3>1, <3>2
  <2>8. k.sock[g] = Closed
    BY <1>4, <1>5, <1>9, <2>1
  <2>9. ASSUME NEW h \in Fd
        PROVE  k.sock[h] \notin {p, p + 1}
    <3>1. k.sock[h] # p
      BY <1>4, <1>9, <2>1
    <3>2. p + 1 # Closed
      BY Values
    <3>3. k.sock[h] # p + 1
      BY <1>4, <1>5, <1>9, <2>1, <3>2
    <3> QED BY <3>1, <3>3
  <2>10. k.sock[f] = Closed
    BY <1>4, <1>9, <2>1
  <2>11. /\ f # g
         /\ k.sock[f] = Closed /\ k.sock[g] = Closed
         /\ \A h \in Fd : k.sock[h] \notin {p, p + 1}
         /\ r.k.portFd = [k.portFd EXCEPT ![p] = f, ![p + 1] = g]
         /\ r.k.fdPort = [k.fdPort EXCEPT ![f] = p, ![g] = p + 1]
         /\ r.k.sock[f] = p /\ r.k.sock[g] = p + 1
         /\ \A h \in Fd : k.sock[h] # Closed => r.k.sock[h] = k.sock[h]
    BY <1>6, <2>3, <2>6, <2>7, <2>8, <2>9, <2>10
  <2>12. r.ret = 1
    BY <2>2
  <2>13. initSocket(k, p).fd # NoFd
    BY <1>1, <1>9
  <2> QED BY <1>9, <2>6, <2>11, <2>12, <2>13 DEF Opened
<1> QED BY <1>7, <1>8, <1>9

\* The outcomes of remove_socket on tables k and port p, r the new tables: a
\* listener less;
Uncounted(k, p, r) ==
    /\ k.listener[p] # 1
    /\ r.listener = [k.listener EXCEPT ![p] = @ - 1]
    /\ r.portFd = k.portFd
    /\ r.fdPort = k.fdPort
    /\ r.sock = k.sock
    /\ r \in Sockets

\* the sockets of the port and of the next one closed.
Shut(k, p, r) ==
    /\ k.listener[p] = 1
    /\ r.listener = [k.listener EXCEPT ![p] = 0, ![p + 1] = 0]
    /\ r.portFd = [k.portFd EXCEPT ![p] = NoFd, ![p + 1] = NoFd]
    /\ r.fdPort = [f \in Fd |-> IF f \in {k.portFd[p], k.portFd[p + 1]}
                                THEN 0 ELSE k.fdPort[f]]
    /\ r.sock = [f \in Fd |-> IF f \in {k.portFd[p], k.portFd[p + 1]}
                              THEN Closed ELSE k.sock[f]]
    /\ r \in Sockets

\* remove_socket uncounts a listener, and with the last one closes the sockets of
\* the port and of the next one.
LEMMA removeSocketIs ==
    ASSUME NEW k \in Sockets, NEW p \in Port, p + 1 \in Port,
           NEW r, r = removeSocket(k, p)
    PROVE  Uncounted(k, p, r) \/ Shut(k, p, r)
<1> DEFINE closed == {k.portFd[p], k.portFd[p + 1]}
           L == [k.listener EXCEPT ![p] = @ - 1]
           P == [k.portFd EXCEPT ![p] = NoFd, ![p + 1] = NoFd]
           F == [f \in Fd |-> IF f \in closed THEN 0 ELSE k.fdPort[f]]
           S == [f \in Fd |-> IF f \in closed THEN Closed ELSE k.sock[f]]
           M == [L EXCEPT ![p + 1] = 0]
<1>1. PICK one : one = [k EXCEPT !.listener[p] = @ - 1]
  OBVIOUS
<1>2. /\ k.listener \in [Port -> Int]
      /\ k.portFd \in [Port -> Fd \cup {NoFd}]
      /\ k.fdPort \in [Fd -> Port \cup {0}]
      /\ k.sock \in [Fd -> Port \cup {Closed, Unbound}]
  BY SocketsFields
<1>3. L \in [Port -> Int] /\ M \in [Port -> Int] /\ L[p] = k.listener[p] - 1
  BY <1>2
<1>4. P \in [Port -> Fd \cup {NoFd}]
  BY <1>2
<1>5. F \in [Fd -> Port \cup {0}]
  BY <1>2
<1>6. S \in [Fd -> Port \cup {Closed, Unbound}]
  BY <1>2
<1>7. /\ one.listener = L /\ one.portFd = k.portFd
      /\ one.fdPort = k.fdPort /\ one.sock = k.sock
      /\ one \in Sockets
  BY <1>1, <1>3 DEF Sockets
<1>8. r = IF one.listener[p] # 0 THEN one
          ELSE [one EXCEPT !.portFd[p] = NoFd, !.portFd[p + 1] = NoFd,
                           !.listener[p + 1] = 0,
                           !.fdPort = [f \in Fd |-> IF f \in closed THEN 0 ELSE @[f]],
                           !.sock = [f \in Fd |-> IF f \in closed THEN Closed ELSE @[f]]]
  BY <1>1, Zenon DEF removeSocket
<1>9. CASE k.listener[p] # 1
  <2>1. one.listener[p] # 0
    BY <1>2, <1>3, <1>7, <1>9
  <2>2. r = one
    BY <1>8, <2>1
  <2> QED BY <1>7, <1>9, <2>2 DEF Uncounted
<1>10. CASE k.listener[p] = 1
  <2>1. one.listener[p] = 0
    BY <1>3, <1>7, <1>10
  <2>2. r = [one EXCEPT !.portFd[p] = NoFd, !.portFd[p + 1] = NoFd,
                        !.listener[p + 1] = 0,
                        !.fdPort = [f \in Fd |-> IF f \in closed THEN 0 ELSE one.fdPort[f]],
                        !.sock = [f \in Fd |-> IF f \in closed THEN Closed ELSE one.sock[f]]]
    BY <1>8, <2>1
  <2>3. r = [one EXCEPT !.portFd = P, !.listener = M, !.fdPort = F, !.sock = S]
    <3>1. P = [one.portFd EXCEPT ![p] = NoFd, ![p + 1] = NoFd]
      BY <1>7, Zenon
    <3>2. M = [one.listener EXCEPT ![p + 1] = 0]
      BY <1>7, Zenon
    <3>3. /\ F = [f \in Fd |-> IF f \in closed THEN 0 ELSE one.fdPort[f]]
          /\ S = [f \in Fd |-> IF f \in closed THEN Closed ELSE one.sock[f]]
      BY <1>7, Zenon
    <3> HIDE DEF P, M, F, S, closed
    <3> QED BY <1>7, <2>2, <3>1, <3>2, <3>3 DEF Sockets
  <2>4. M = [k.listener EXCEPT ![p] = 0, ![p + 1] = 0]
    BY <1>2, <1>10
  <2> HIDE DEF P, M, F, S
  <2>5. r.listener = M /\ r.portFd = P /\ r.fdPort = F /\ r.sock = S /\ r \in Sockets
    BY <1>3, <1>4, <1>5, <1>6, <1>7, <2>3 DEF Sockets
  <2> QED BY <1>10, <2>4, <2>5 DEF P, F, S, Shut
<1> QED BY <1>9, <1>10

\* add_socket keeps the tables in agreement with each other and with the kernel.
LEMMA addSocketAgrees ==
    ASSUME NEW k \in Sockets, NEW p \in Port, p + 1 \in Port, Agree(k),
           NEW r, r = addSocket(k, p)
    PROVE  r.k \in Sockets /\ Agree(r.k)
<1>1. /\ k.portFd \in [Port -> Fd \cup {NoFd}]
      /\ k.fdPort \in [Fd -> Port \cup {0}]
      /\ k.sock \in [Fd -> Port \cup {Closed, Unbound}]
  BY SocketsFields
<1>0. Reused(k, p, r) \/ Refused(k, p, r) \/ Opened(k, p, r)
  BY addSocketIs, Zenon
<1>2. r.k \in Sockets
  BY <1>0 DEF Reused, Refused, Opened
<1>3. CASE Reused(k, p, r)
  <2>1. r.k.portFd = k.portFd /\ r.k.fdPort = k.fdPort /\ r.k.sock = k.sock
    BY <1>3 DEF Reused
  <2> QED BY <1>2, <2>1 DEF Agree
<1>4. CASE Refused(k, p, r)
  <2>1. /\ r.k.portFd = k.portFd /\ r.k.fdPort = k.fdPort
        /\ \A g \in Fd : k.sock[g] # Closed => r.k.sock[g] = k.sock[g]
    BY <1>4 DEF Refused
  <2>2. ASSUME NEW q \in Port, r.k.portFd[q] # NoFd
        PROVE  r.k.fdPort[r.k.portFd[q]] = q /\ r.k.sock[r.k.portFd[q]] = q
    <3>1. PICK h \in Fd : h = k.portFd[q]
      BY <1>1, <2>1, <2>2
    <3>2. k.fdPort[h] = q /\ k.sock[h] = q
      BY <2>1, <2>2, <3>1 DEF Agree
    <3>3. q # Closed
      BY Values
    <3> QED BY <2>1, <3>1, <3>2, <3>3
  <2> QED BY <1>2, <2>1, <2>2 DEF Agree
<1>5. CASE Opened(k, p, r)
  <2>1. PICK f \in Fd, g \in Fd :
            /\ f # g
            /\ k.sock[f] = Closed /\ k.sock[g] = Closed
            /\ \A h \in Fd : k.sock[h] \notin {p, p + 1}
            /\ r.k.portFd = [k.portFd EXCEPT ![p] = f, ![p + 1] = g]
            /\ r.k.fdPort = [k.fdPort EXCEPT ![f] = p, ![g] = p + 1]
            /\ r.k.sock[f] = p /\ r.k.sock[g] = p + 1
            /\ \A h \in Fd : k.sock[h] # Closed => r.k.sock[h] = k.sock[h]
    BY <1>5 DEF Opened
  <2>2. p # p + 1
    BY Values
  <2>3. \A q \in Port : r.k.portFd[q] = IF q = p THEN f ELSE IF q = p + 1 THEN g
                                        ELSE k.portFd[q]
    BY <1>1, <2>1, <2>2
  <2>4. \A h \in Fd : r.k.fdPort[h] = IF h = f THEN p ELSE IF h = g THEN p + 1
                                      ELSE k.fdPort[h]
    BY <1>1, <2>1
  <2>5. ASSUME NEW q \in Port, r.k.portFd[q] # NoFd
        PROVE  r.k.fdPort[r.k.portFd[q]] = q /\ r.k.sock[r.k.portFd[q]] = q
    <3>1. CASE q \in {p, p + 1}
      BY <2>1, <2>2, <2>3, <2>4, <3>1
    <3>2. CASE q \notin {p, p + 1}
      <4>1. r.k.portFd[q] = k.portFd[q]
        BY <2>3, <3>2
      <4>2. PICK h \in Fd : h = k.portFd[q]
        BY <1>1, <2>5, <4>1
      <4>3. k.fdPort[h] = q /\ k.sock[h] = q
        BY <2>5, <4>1, <4>2 DEF Agree
      <4>4. q # Closed
        BY Values
      <4> QED BY <2>1, <2>4, <4>1, <4>2, <4>3, <4>4
    <3> QED BY <3>1, <3>2
  <2>6. ASSUME NEW h \in Fd, r.k.fdPort[h] # 0
        PROVE  r.k.portFd[r.k.fdPort[h]] = h
    <3>1. CASE h \in {f, g}
      BY <2>1, <2>2, <2>3, <2>4, <3>1
    <3>2. CASE h \notin {f, g}
      <4>1. r.k.fdPort[h] = k.fdPort[h]
        BY <2>4, <3>2
      <4>2. PICK q \in Port : q = k.fdPort[h]
        BY <1>1, <2>6, <4>1
      <4>3. k.portFd[q] = h
        BY <2>6, <4>1, <4>2 DEF Agree
      <4>4. k.sock[h] = q
        BY <4>3, Values DEF Agree
      <4> QED BY <2>1, <2>3, <4>1, <4>2, <4>3, <4>4
    <3> QED BY <3>1, <3>2
  <2> QED BY <1>2, <2>5, <2>6 DEF Agree
<1> QED BY <1>0, <1>3, <1>4, <1>5

\* remove_socket keeps them in agreement, too.
LEMMA removeSocketAgrees ==
    ASSUME NEW k \in Sockets, NEW p \in Port, p + 1 \in Port, Agree(k),
           NEW r, r = removeSocket(k, p)
    PROVE  r \in Sockets /\ Agree(r)
<1>1. /\ k.portFd \in [Port -> Fd \cup {NoFd}]
      /\ k.fdPort \in [Fd -> Port \cup {0}]
      /\ k.sock \in [Fd -> Port \cup {Closed, Unbound}]
  BY SocketsFields
<1>0. Uncounted(k, p, r) \/ Shut(k, p, r)
  BY removeSocketIs, Zenon
<1>2. r \in Sockets
  BY <1>0 DEF Uncounted, Shut
<1>3. CASE Uncounted(k, p, r)
  <2>1. r.portFd = k.portFd /\ r.fdPort = k.fdPort /\ r.sock = k.sock
    BY <1>3 DEF Uncounted
  <2> QED BY <1>2, <2>1 DEF Agree
<1>4. CASE Shut(k, p, r)
  <2>1. /\ r.portFd = [k.portFd EXCEPT ![p] = NoFd, ![p + 1] = NoFd]
        /\ r.fdPort = [f \in Fd |-> IF f \in {k.portFd[p], k.portFd[p + 1]}
                                    THEN 0 ELSE k.fdPort[f]]
        /\ r.sock = [f \in Fd |-> IF f \in {k.portFd[p], k.portFd[p + 1]}
                                  THEN Closed ELSE k.sock[f]]
    BY <1>4 DEF Shut
  <2>2. \A q \in Port : r.portFd[q] = IF q \in {p, p + 1} THEN NoFd ELSE k.portFd[q]
    BY <1>1, <2>1
  <2>3. ASSUME NEW q \in Port, r.portFd[q] # NoFd
        PROVE  r.fdPort[r.portFd[q]] = q /\ r.sock[r.portFd[q]] = q
    <3>1. q \notin {p, p + 1} /\ r.portFd[q] = k.portFd[q]
      BY <2>2, <2>3
    <3>2. PICK h \in Fd : h = k.portFd[q]
      BY <1>1, <2>3, <3>1
    <3>3. k.fdPort[h] = q /\ k.sock[h] = q
      BY <2>3, <3>1, <3>2 DEF Agree
    <3>4. h \notin {k.portFd[p], k.portFd[p + 1]}
      BY <3>1, <3>2, <3>3, Values DEF Agree
    <3> QED BY <2>1, <3>1, <3>2, <3>3, <3>4
  <2>4. ASSUME NEW h \in Fd, r.fdPort[h] # 0
        PROVE  r.portFd[r.fdPort[h]] = h
    <3>1. h \notin {k.portFd[p], k.portFd[p + 1]} /\ r.fdPort[h] = k.fdPort[h]
      BY <2>1, <2>4
    <3>2. PICK q \in Port : q = k.fdPort[h]
      BY <1>1, <2>4, <3>1
    <3>3. k.portFd[q] = h
      BY <2>4, <3>1, <3>2 DEF Agree
    <3> QED BY <2>2, <3>1, <3>2, <3>3
  <2> QED BY <1>2, <2>3, <2>4 DEF Agree
<1> QED BY <1>0, <1>3, <1>4

-----------------------------------------------------------------------------
(* Types, and the agreement of the tables, for any caller.                 *)

\* A list's port has a next one, so that remove_socket of it is defined: the RTP
\* list's has by the caller's choice of ports, the RTCP list's, too.
RoomAbove == \A id \in Lists : PortOf(management[id].src) + 1 \in Port

Inv ==
    /\ RtcpTypeOK
    /\ Agree(sockets)
    /\ RoomAbove

LEMMA AddrFields ==
    ASSUME NEW ip \in IP, NEW p \in Port
    PROVE  <<ip, p>> \in Addr /\ PortOf(<<ip, p>>) = p /\ <<ip, p>>[1] = ip
  BY DEF Addr, PortOf

LEMMA BaseFacts ==
    /\ \A id \in BaseId : id \in ListId /\ id + 1 \in ListId /\ id \in Int /\ id # id + 1
    /\ \A p \in BasePort : p \in Port /\ p + 1 \in Port /\ (p + 1) + 1 \in Port
<1>1. ASSUME NEW id \in BaseId
      PROVE  id \in ListId /\ id + 1 \in ListId /\ id \in Int /\ id # id + 1
  <2>1. {id, id + 1} \subseteq SrcId \ {0}
    BY RtcpAssumption
  <2>2. id \in Nat
    BY <2>1, WorkerAssumption
  <2> QED BY <2>1, <2>2 DEF ListId
<1>2. ASSUME NEW p \in BasePort
      PROVE  p \in Port /\ p + 1 \in Port /\ (p + 1) + 1 \in Port
  <2>1. {p, p + 1, p + 2} \subseteq Port
    BY RtcpAssumption
  <2>2. p \in Nat
    BY <2>1, Values
  <2>3. p + 2 = (p + 1) + 1
    BY <2>2
  <2> QED BY <2>1, <2>3
<1> QED BY <1>1, <1>2

LEMMA ListIdNumbers == ListId \subseteq Nat /\ 0 \in ListId
  BY WorkerAssumption DEF ListId

LEMMA ListFields ==
    ASSUME RtcpTypeOK, NEW id \in Lists
    PROVE  /\ management[id] \in List
           /\ management[id].src \in Addr
           /\ management[id].dests \in Seq(UdpStream)
           /\ PortOf(management[id].src) \in Port
           /\ id \in ListId
<1>1. management[id] \in List /\ id \in ListId
  BY DEF RtcpTypeOK, Lists, IsList
<1> QED BY <1>1 DEF List, Addr, PortOf

\* A record is no null pointer and no missing key.
LEMMA ListIsList ==
    ASSUME NEW l \in List
    PROVE  l \notin {Absent, Null}
  BY WorkerAssumption

LEMMA SetSocketsIs ==
    ASSUME NEW k \in Sockets, SetSockets(k)
    PROVE  sockets' = k
<1>1. k = [listener |-> k.listener, portFd |-> k.portFd,
           fdPort |-> k.fdPort, sock |-> k.sock]
  BY DEF Sockets
<1> QED BY <1>1, Zenon DEF SetSockets, sockets

LEMMA AgreeIsInverse == Agree(sockets) <=> TablesInverse
<1>1. /\ sockets.portFd = portFd
      /\ sockets.fdPort = fdPort
      /\ sockets.sock = sock
  BY DEF sockets
<1> QED BY <1>1, Zenon DEF Agree, TablesInverse

\* Steps that leave the socket tables alone.
LEMMA SocketsUnchanged ==
    ASSUME UNCHANGED <<portListener, portFd, fdPort, sock>>
    PROVE  sockets' = sockets
  BY DEF sockets

LEMMA AgreeUnchanged ==
    ASSUME Agree(sockets), sockets' = sockets
    PROVE  Agree(sockets)'
  BY DEF Agree

LEMMA AgreeNow ==
    ASSUME NEW k, Agree(k), sockets' = k
    PROVE  Agree(sockets)'
  BY DEF Agree

LEMMA InitInv == RtcpInit => Inv
<1> SUFFICES ASSUME RtcpInit
             PROVE  Inv
  OBVIOUS
<1> USE DEF RtcpInit, Init
<1>1. Lists = {}
  BY DEF Lists, IsList
<1>2. RoomAbove
  BY <1>1 DEF RoomAbove
<1>3. sockets \in Sockets
  BY DEF sockets, Sockets, NoFd, Closed
<1>4. forwarding \in [Addr -> ListId]
  BY DEF ListId
<1>5. management \in [ListId -> List \cup {Absent, Null}]
  OBVIOUS
<1>6. RtcpTypeOK
  BY <1>3, <1>4, <1>5 DEF RtcpTypeOK
<1>7. TablesInverse
  BY DEF TablesInverse
<1> QED BY <1>2, <1>6, <1>7, AgreeIsInverse DEF Inv

\* Lists that have their source addresses keep their room.
LEMMA RoomKept ==
    ASSUME RoomAbove,
           \A id \in Lists' : id \in Lists /\ management'[id].src = management[id].src
    PROVE  RoomAbove'
  BY DEF RoomAbove

LEMMA addPairKeeps ==
    ASSUME Inv, NEW id \in BaseId, NEW ip \in IP, NEW p \in BasePort,
           addPair(id, <<ip, p>>)
    PROVE  Inv'
<1> DEFINE a == <<ip, p>>
           b == <<ip, p + 1>>
<1>1. p \in Port /\ p + 1 \in Port /\ (p + 1) + 1 \in Port
  BY BaseFacts
<1>2. a \in Addr /\ b \in Addr /\ PortOf(a) = p /\ PortOf(b) = p + 1 /\ a[1] = ip
  BY <1>1, AddrFields
<1>3. id \in ListId /\ id + 1 \in ListId /\ id # id + 1
  BY BaseFacts
<1>4. PICK r : r = addSocket(sockets, p)
  OBVIOUS
<1>5. PICK s : s = addSocket(r.k, p + 1)
  OBVIOUS
<1>6. SetSockets(s.k)
  BY <1>2, <1>4, <1>5, Zenon DEF addPair
<1>7. r.k \in Sockets /\ Agree(r.k)
  BY <1>1, <1>4, addSocketAgrees DEF Inv, RtcpTypeOK
<1>8. s.k \in Sockets /\ Agree(s.k)
  BY <1>1, <1>5, <1>7, addSocketAgrees
<1>9. sockets' = s.k
  BY <1>6, <1>8, SetSocketsIs
<1>10. Agree(sockets)'
  BY <1>8, <1>9, AgreeNow
<1>11. /\ working' = working /\ crashed' = crashed /\ out' = NoPacket
       /\ overlapped' \in BOOLEAN
  BY Zenon DEF addPair, Inv, RtcpTypeOK
<1>12. \/ /\ management' = [management EXCEPT ![id] = [src |-> a, dests |-> << >>],
                                              ![id + 1] = [src |-> b, dests |-> << >>]]
          /\ forwarding' = [forwarding EXCEPT ![a] = id, ![b] = id + 1]
          /\ srcIdWorker' = srcIdWorker \cup {id}
       \/ UNCHANGED <<management, forwarding, srcIdWorker>>
  BY <1>2, Zenon DEF addPair
<1>13. CASE UNCHANGED <<management, forwarding, srcIdWorker>>
  <2>1. RtcpTypeOK'
    BY <1>8, <1>9, <1>11, <1>13 DEF Inv, RtcpTypeOK
  <2>2. RoomAbove'
    BY <1>13, RoomKept DEF Inv, Lists, IsList
  <2> QED BY <1>10, <2>1, <2>2 DEF Inv
<1>14. CASE /\ management' = [management EXCEPT ![id] = [src |-> a, dests |-> << >>],
                                               ![id + 1] = [src |-> b, dests |-> << >>]]
            /\ forwarding' = [forwarding EXCEPT ![a] = id, ![b] = id + 1]
            /\ srcIdWorker' = srcIdWorker \cup {id}
  <2>1. PICK l, m : l = [src |-> a, dests |-> << >>] /\ m = [src |-> b, dests |-> << >>]
    OBVIOUS
  <2>2. l \in List /\ m \in List /\ l.src = a /\ m.src = b
    BY <1>2, <2>1 DEF List
  <2>3. management' = [management EXCEPT ![id] = l, ![id + 1] = m]
    BY <1>14, <2>1
  <2>4. management \in [ListId -> List \cup {Absent, Null}]
    BY DEF Inv, RtcpTypeOK
  <2>5. management' \in [ListId -> List \cup {Absent, Null}]
    BY <1>3, <2>2, <2>3, <2>4
  <2>6. forwarding' \in [Addr -> ListId]
    BY <1>2, <1>3, <1>14 DEF Inv, RtcpTypeOK
  <2>7. srcIdWorker' \subseteq BaseId
    BY <1>14 DEF Inv, RtcpTypeOK
  <2>8. RtcpTypeOK'
    BY <1>8, <1>9, <1>11, <2>5, <2>6, <2>7 DEF Inv, RtcpTypeOK
  <2>9. \A i \in ListId : management'[i] = IF i = id THEN l ELSE IF i = id + 1 THEN m
                                           ELSE management[i]
    BY <1>3, <2>3, <2>4
  <2>10. ASSUME NEW i \in Lists'
         PROVE  PortOf(management'[i].src) + 1 \in Port
    <3>1. i \in ListId
      BY <2>10 DEF Lists
    <3>2. CASE i \in {id, id + 1}
      BY <1>1, <1>2, <1>3, <2>2, <2>9, <3>1, <3>2
    <3>3. CASE i \notin {id, id + 1}
      <4>1. management'[i] = management[i]
        BY <2>9, <3>1, <3>3
      <4>2. i \in Lists
        BY <2>10, <3>1, <4>1 DEF Lists, IsList
      <4> QED BY <4>1, <4>2 DEF Inv, RoomAbove
    <3> QED BY <3>2, <3>3
  <2>11. RoomAbove'
    BY <2>10 DEF RoomAbove, PortOf
  <2> QED BY <1>10, <2>8, <2>11 DEF Inv
<1> QED BY <1>12, <1>13, <1>14

\* The lists of a source, when it has both.
LEMMA PairFields ==
    ASSUME Inv, NEW id \in BaseId, HasPair(id)
    PROVE  /\ id \in Lists /\ id + 1 \in Lists
           /\ management[id] \in List /\ management[id + 1] \in List
           /\ management[id].src \in Addr /\ management[id + 1].src \in Addr
           /\ management[id].dests \in Seq(UdpStream)
           /\ management[id + 1].dests \in Seq(UdpStream)
<1>1. id \in Lists /\ id + 1 \in Lists
  BY BaseFacts DEF HasPair, Lists
<1> QED BY <1>1, ListFields DEF Inv

LEMMA removePairKeeps ==
    ASSUME Inv, NEW id \in BaseId, removePair(id)
    PROVE  Inv'
<1>1. HasPair(id)
  BY DEF removePair
<1>2. PICK p, q : p = PortOf(management[id].src) /\ q = PortOf(management[id + 1].src)
  OBVIOUS
<1>3. id \in Lists /\ id + 1 \in Lists
  BY <1>1, PairFields
<1>4. p \in Port /\ q \in Port /\ p + 1 \in Port /\ q + 1 \in Port
  BY <1>2, <1>3, ListFields DEF Inv, RoomAbove
<1>5. PICK r : r = removeSocket(sockets, p)
  OBVIOUS
<1>6. PICK s : s = removeSocket(r, q)
  OBVIOUS
<1>7. SetSockets(s)
  BY <1>2, <1>5, <1>6, Zenon DEF removePair
<1>8. r \in Sockets /\ Agree(r)
  BY <1>4, <1>5, removeSocketAgrees DEF Inv, RtcpTypeOK
<1>9. s \in Sockets /\ Agree(s)
  BY <1>4, <1>6, <1>8, removeSocketAgrees
<1>10. sockets' = s
  BY <1>7, <1>9, SetSocketsIs
<1>11. Agree(sockets)'
  BY <1>9, <1>10, AgreeNow
<1>12. /\ management' = [management EXCEPT ![id] = Absent, ![id + 1] = Absent]
       /\ forwarding' = [forwarding EXCEPT ![management[id].src] = 0,
                                           ![management[id + 1].src] = 0]
       /\ srcIdWorker' = srcIdWorker \ {id}
       /\ out' = NoPacket
       /\ UNCHANGED <<working, crashed, overlapped>>
  BY DEF removePair
<1>13. management \in [ListId -> List \cup {Absent, Null}]
  BY DEF Inv, RtcpTypeOK
<1>14. management' \in [ListId -> List \cup {Absent, Null}]
  BY <1>12, <1>13
<1>15. forwarding' \in [Addr -> ListId]
  BY <1>12, ListIdNumbers DEF Inv, RtcpTypeOK
<1>16. RtcpTypeOK'
  BY <1>9, <1>10, <1>12, <1>14, <1>15 DEF Inv, RtcpTypeOK
<1>17. \A i \in Lists' : i \in Lists /\ management'[i] = management[i]
  BY <1>12, <1>13 DEF Lists, IsList
<1>18. RoomAbove'
  BY <1>17, RoomKept DEF Inv
<1> QED BY <1>11, <1>16, <1>18 DEF Inv

\* The lists of a source with destinations x and y in place of theirs.
LEMMA TwoLists ==
    ASSUME Inv, NEW id \in BaseId, HasPair(id),
           NEW x \in Seq(UdpStream), NEW y \in Seq(UdpStream),
           management' = [management EXCEPT ![id].dests = x, ![id + 1].dests = y]
    PROVE  /\ management' \in [ListId -> List \cup {Absent, Null}]
           /\ \A i \in ListId : i \notin {id, id + 1} => management'[i] = management[i]
           /\ management'[id].src = management[id].src
           /\ management'[id].dests = x
           /\ management'[id + 1].src = management[id + 1].src
           /\ management'[id + 1].dests = y
           /\ Lists' = Lists
           /\ \A i \in Lists : management'[i].src = management[i].src
<1>1. id \in ListId /\ id + 1 \in ListId /\ id # id + 1
  BY BaseFacts
<1>2. /\ id \in Lists /\ id + 1 \in Lists
      /\ management[id] \in List /\ management[id + 1] \in List
  BY PairFields
<1>3. management \in [ListId -> List \cup {Absent, Null}]
  BY DEF Inv, RtcpTypeOK
<1>4. PICK l, m : l = [management[id] EXCEPT !.dests = x]
                  /\ m = [management[id + 1] EXCEPT !.dests = y]
  OBVIOUS
<1>5. /\ l \in List /\ l.src = management[id].src /\ l.dests = x
      /\ m \in List /\ m.src = management[id + 1].src /\ m.dests = y
  BY <1>2, <1>4 DEF List
<1>6. management' = [management EXCEPT ![id] = l, ![id + 1] = m]
  BY <1>1, <1>3, <1>4
<1>7. \A i \in ListId : management'[i] = IF i = id THEN l ELSE IF i = id + 1 THEN m
                                         ELSE management[i]
  BY <1>1, <1>3, <1>6
<1>8. management' \in [ListId -> List \cup {Absent, Null}]
  BY <1>3, <1>5, <1>6
<1>9. l \notin {Absent, Null} /\ m \notin {Absent, Null}
  BY <1>5, ListIsList
<1>10. Lists' = Lists
  <2>1. \A i \in ListId : management'[i] \notin {Absent, Null}
                            <=> management[i] \notin {Absent, Null}
    BY <1>2, <1>7, <1>9 DEF Lists, IsList
  <2> QED BY <2>1 DEF Lists, IsList
<1>11. \A i \in Lists : management'[i].src = management[i].src
  BY <1>5, <1>7 DEF Lists
<1> QED BY <1>1, <1>5, <1>7, <1>8, <1>10, <1>11

LEMMA BaseDestFacts ==
    ASSUME NEW d \in BaseDest
    PROVE  d \in UdpStream /\ Rtcp(d) \in UdpStream /\ Rtcp(d).id = d.id + 1 /\ d.id \in Int
<1>1. {d, Rtcp(d)} \subseteq UdpStream /\ BaseDestId \subseteq Int
  BY RtcpAssumption
<1>2. d.id \in BaseDestId
  BY DEF BaseDest
<1>3. Rtcp(d).id = d.id + 1
  BY DEF Rtcp
<1> QED BY <1>1, <1>2, <1>3

LEMMA addPairDestKeeps ==
    ASSUME Inv, NEW id \in BaseId, NEW d \in BaseDest, addPairDest(id, d)
    PROVE  Inv'
<1>1. HasPair(id)
  BY DEF addPairDest
<1>2. PICK x, y : /\ x = addDestination(management[id].dests, d)
                  /\ y = addDestination(management[id + 1].dests, Rtcp(d))
  OBVIOUS
<1>3. x \in Seq(UdpStream) /\ y \in Seq(UdpStream)
  BY <1>1, <1>2, PairFields, BaseDestFacts, addDestinationCorrect
<1>4. management' = [management EXCEPT ![id].dests = x, ![id + 1].dests = y]
  BY <1>2, Zenon DEF addPairDest
<1>5. /\ UNCHANGED <<portListener, portFd, fdPort, sock>>
      /\ UNCHANGED <<working, srcIdWorker, crashed, overlapped>>
      /\ out' = NoPacket
      /\ \/ forwarding' = forwarding
         \/ forwarding' = [forwarding EXCEPT ![management[id].src] = id,
                                             ![management[id + 1].src] = id + 1]
  BY DEF addPairDest
<1>6. forwarding' \in [Addr -> ListId]
  BY <1>1, <1>5, PairFields, BaseFacts DEF Inv, RtcpTypeOK
<1>7. /\ management' \in [ListId -> List \cup {Absent, Null}]
      /\ Lists' = Lists
      /\ \A i \in Lists : management'[i].src = management[i].src
  BY <1>1, <1>3, <1>4, TwoLists
<1>8. RoomAbove'
  BY <1>7, RoomKept DEF Inv
<1>9. sockets' = sockets
  BY <1>5, SocketsUnchanged
<1>10. RtcpTypeOK'
  BY <1>5, <1>6, <1>7, <1>9 DEF Inv, RtcpTypeOK
<1> QED BY <1>8, <1>9, <1>10, AgreeUnchanged DEF Inv

LEMMA removePairDestKeeps ==
    ASSUME Inv, NEW id \in BaseId, NEW did, removePairDest(id, did)
    PROVE  Inv'
<1>1. /\ HasPair(id)
      /\ existDestination(management[id].dests, did)
      /\ existDestination(management[id + 1].dests, did + 1)
  BY DEF removePairDest
<1>2. PICK x, y : /\ x = remDestination(management[id].dests, did)
                  /\ y = remDestination(management[id + 1].dests, did + 1)
  OBVIOUS
<1>3. x \in Seq(UdpStream) /\ y \in Seq(UdpStream)
  BY <1>1, <1>2, PairFields, remDestinationCorrect
<1>4. management' = [management EXCEPT ![id].dests = x, ![id + 1].dests = y]
  BY <1>2, Zenon DEF removePairDest
<1>5. /\ UNCHANGED <<portListener, portFd, fdPort, sock>>
      /\ UNCHANGED <<working, srcIdWorker, crashed, overlapped>>
      /\ out' = NoPacket
      /\ forwarding' = [forwarding EXCEPT ![management[id].src] = id,
                                          ![management[id + 1].src] = id + 1]
  BY DEF removePairDest
<1>6. forwarding' \in [Addr -> ListId]
  BY <1>1, <1>5, PairFields, BaseFacts DEF Inv, RtcpTypeOK
<1>7. /\ management' \in [ListId -> List \cup {Absent, Null}]
      /\ Lists' = Lists
      /\ \A i \in Lists : management'[i].src = management[i].src
  BY <1>1, <1>3, <1>4, TwoLists
<1>8. RoomAbove'
  BY <1>7, RoomKept DEF Inv
<1>9. sockets' = sockets
  BY <1>5, SocketsUnchanged
<1>10. RtcpTypeOK'
  BY <1>5, <1>6, <1>7, <1>9 DEF Inv, RtcpTypeOK
<1> QED BY <1>8, <1>9, <1>10, AgreeUnchanged DEF Inv

LEMMA processKeeps ==
    ASSUME Inv, NEW ip \in IP, NEW p \in Port, process(ip, p),
           UNCHANGED <<srcIdWorker, crashed, overlapped>>
    PROVE  Inv'
<1>1. PICK a, id : a = <<ip, fdPort[portFd[p]]>> /\ id = forwarding[a]
  OBVIOUS
<1>2. /\ portFd[p] # NoFd
      /\ UNCHANGED <<portListener, portFd, fdPort, sock>>
      /\ UNCHANGED <<forwarding, working>>
      /\ \/ /\ IsList(id)
            /\ out' = [from |-> a, to |-> management[id].dests]
            /\ UNCHANGED management
         \/ /\ ~ IsList(id)
            /\ out' = [from |-> a, to |-> << >>]
            /\ management' = [management EXCEPT ![id] = Null]
  BY <1>1 DEF process
<1>3. fdPort[portFd[p]] = p
  BY <1>2, AgreeIsInverse DEF Inv, TablesInverse
<1>4. a \in Addr /\ id \in ListId
  BY <1>1, <1>3, AddrFields DEF Inv, RtcpTypeOK
<1>5. management \in [ListId -> List \cup {Absent, Null}]
  BY DEF Inv, RtcpTypeOK
<1>6. management' \in [ListId -> List \cup {Absent, Null}]
  BY <1>2, <1>5
<1>7. out' \in [from : Addr, to : Seq(UdpStream)]
  <2>1. CASE IsList(id)
    <3>1. id \in Lists
      BY <1>4, <2>1 DEF Lists
    <3>2. management[id].dests \in Seq(UdpStream)
      BY <3>1, ListFields DEF Inv
    <3> QED BY <1>2, <1>4, <2>1, <3>2
  <2>2. CASE ~ IsList(id)
    <3>1. << >> \in Seq(UdpStream)
      OBVIOUS
    <3>2. out' = [from |-> a, to |-> << >>]
      BY <1>2, <2>2
    <3> QED BY <1>4, <3>1, <3>2
  <2> QED BY <2>1, <2>2
<1>8. \A i \in Lists' : i \in Lists /\ management'[i] = management[i]
  BY <1>2, <1>4, <1>5 DEF Lists, IsList
<1>9. RoomAbove'
  BY <1>8, RoomKept DEF Inv
<1>10. sockets' = sockets
  BY <1>2, SocketsUnchanged
<1>11. RtcpTypeOK'
  BY <1>2, <1>6, <1>7, <1>10 DEF Inv, RtcpTypeOK
<1> QED BY <1>9, <1>10, <1>11, AgreeUnchanged DEF Inv

LEMMA StepInv == Inv /\ [RtcpNext]_rtcpVars => Inv'
<1> SUFFICES ASSUME Inv, [RtcpNext]_rtcpVars
             PROVE  Inv'
  OBVIOUS
<1>1. ASSUME NEW id \in BaseId, NEW ip \in IP, NEW p \in BasePort, addPair(id, <<ip, p>>)
      PROVE  Inv'
  BY <1>1, addPairKeeps
<1>2. ASSUME NEW id \in BaseId, removePair(id)
      PROVE  Inv'
  BY <1>2, removePairKeeps
<1>3. ASSUME UNCHANGED <<vars, srcIdWorker, overlapped>>, crashed' \in BOOLEAN
      PROVE  Inv'
  <2>1. /\ sockets' = sockets /\ Lists' = Lists
        /\ management' = management
    BY <1>3 DEF vars, tables, sockets, Lists, IsList
  <2>2. RtcpTypeOK'
    BY <1>3, <2>1 DEF Inv, RtcpTypeOK, vars, tables
  <2> QED BY <2>1, <2>2, AgreeUnchanged, RoomKept DEF Inv
<1>4. ASSUME NEW id \in BaseId, nullList(id)
      PROVE  Inv'
  BY <1>3, <1>4 DEF nullList
<1>5. ASSUME NEW id \in BaseId, NEW d \in BaseDest, addPairDest(id, d)
      PROVE  Inv'
  BY <1>5, addPairDestKeeps
<1>6. ASSUME NEW id \in BaseId, NEW did, removePairDest(id, did)
      PROVE  Inv'
  BY <1>6, removePairDestKeeps
<1>7. ASSUME NEW ip \in IP, NEW p \in Port, process(ip, p),
             UNCHANGED <<srcIdWorker, crashed, overlapped>>
      PROVE  Inv'
  BY <1>7, processKeeps
<1>8. CASE UNCHANGED rtcpVars
  BY <1>3, <1>8 DEF rtcpVars, Inv, RtcpTypeOK
<1> QED BY <1>1, <1>2, <1>4, <1>5, <1>6, <1>7, <1>8 DEF RtcpNext

\* Every table holds what the code's types and the operations on it allow, lists
\* at BaseId and the next identifier included.
THEOREM TypeTheorem == RtcpSpec => []RtcpTypeOK
<1>1. Inv => RtcpTypeOK
  BY DEF Inv
<1> QED BY <1>1, InitInv, StepInv, PTL DEF RtcpSpec

\* portFd and fdPort are inverse and name bound sockets, after any sequence of
\* calls, overlapping pairs and failures included.
THEOREM InverseTheorem == RtcpSpec => []TablesInverse
<1>1. Inv => TablesInverse
  BY AgreeIsInverse DEF Inv
<1> QED BY <1>1, InitInv, StepInv, PTL DEF RtcpSpec

-----------------------------------------------------------------------------
(* The sockets of an even port and of the next one, while sources come and *)
(* go there in pairs.                                                      *)

\* The tables when n sources have the port p: its count is n and that of the next
\* port one more, but for the time no source is left, when the next port's count
\* is what remove_socket made of it.
PairCount(k, p, n) ==
    /\ k.listener[p] = n
    /\ n = 0 => /\ k.listener[p + 1] \in {-1, 0}
                /\ k.portFd[p] = NoFd /\ k.portFd[p + 1] = NoFd
    /\ n # 0 => /\ k.listener[p + 1] = n + 1
                /\ k.portFd[p] # NoFd /\ k.portFd[p + 1] # NoFd

\* The ports other than p and the next one have the same socket in k and in r.
OthersKept(k, r, p) ==
    \A q \in Port : q \notin {p, p + 1} => /\ r.listener[q] = k.listener[q]
                                           /\ r.portFd[q] = k.portFd[q]

\* The two calls of add_socket that add a source count it, or fail both ways.
LEMMA addPairCounts ==
    ASSUME NEW k \in Sockets, NEW p \in Port, p + 1 \in Port, (p + 1) + 1 \in Port,
           NEW n \in Nat, PairCount(k, p, n),
           NEW r, r = addSocket(k, p), NEW s, s = addSocket(r.k, p + 1)
    PROVE  /\ s.k \in Sockets
           /\ OthersKept(k, s.k, p)
           /\ \/ r.ret # -1 /\ s.ret # -1 /\ PairCount(s.k, p, n + 1)
              \/ r.ret = -1 /\ PairCount(s.k, p, n)
<1>1. Reused(k, p, r) \/ Refused(k, p, r) \/ Opened(k, p, r)
  BY addSocketIs, Zenon
<1>2. r.k \in Sockets
  BY <1>1 DEF Reused, Refused, Opened
<1>3. Reused(r.k, p + 1, s) \/ Refused(r.k, p + 1, s) \/ Opened(r.k, p + 1, s)
  BY <1>2, addSocketIs, ZenonT(60)
<1>4. s.k \in Sockets
  BY <1>3 DEF Reused, Refused, Opened
<1>5. k.listener \in [Port -> Int] /\ k.portFd \in [Port -> Fd \cup {NoFd}]
  BY SocketsFields
<1>6. r.k.listener \in [Port -> Int] /\ r.k.portFd \in [Port -> Fd \cup {NoFd}]
  BY <1>2, SocketsFields
<1>7. p \in Nat /\ p # p + 1
  BY Values
<1>8. CASE Reused(k, p, r)
  <2>1. /\ n # 0 /\ r.ret = 0
        /\ r.k.listener = [k.listener EXCEPT ![p] = @ + 1]
        /\ r.k.portFd = k.portFd
    BY <1>8 DEF Reused, PairCount
  <2>2. r.k.listener[p + 1] = n + 1 /\ r.k.listener[p] = n + 1
    BY <1>5, <1>7, <2>1 DEF PairCount
  <2>3. Reused(r.k, p + 1, s)
    <3>1. r.k.listener[p + 1] # 0
      BY <2>2, SMT
    <3>2. ~ Refused(r.k, p + 1, s) /\ ~ Opened(r.k, p + 1, s)
      BY <3>1, Zenon DEF Refused, Opened
    <3> QED BY <1>3, <3>2, Zenon
  <2>4. /\ s.ret = 0
        /\ s.k.listener = [r.k.listener EXCEPT ![p + 1] = @ + 1]
        /\ s.k.portFd = k.portFd
    BY <2>1, <2>3 DEF Reused
  <2>5. s.k.listener[p + 1] = (n + 1) + 1 /\ s.k.listener[p] = n + 1
    BY <1>6, <1>7, <2>2, <2>4
  <2>6. n + 1 # 0
    OBVIOUS
  <2>7. PairCount(s.k, p, n + 1)
    BY <2>1, <2>4, <2>5, <2>6 DEF PairCount
  <2>8. OthersKept(k, s.k, p)
    BY <1>5, <1>6, <2>1, <2>4 DEF OthersKept
  <2> QED BY <1>4, <2>1, <2>4, <2>7, <2>8
<1>9. CASE Opened(k, p, r)
  <2>1. PICK f \in Fd, g \in Fd : r.k.portFd = [k.portFd EXCEPT ![p] = f, ![p + 1] = g]
    BY <1>9 DEF Opened
  <2>2. /\ n = 0 /\ r.ret = 1
        /\ r.k.listener = [k.listener EXCEPT ![p] = 1, ![p + 1] = 1]
    BY <1>9 DEF Opened, PairCount
  <2>3. r.k.listener[p + 1] = 1 /\ r.k.listener[p] = 1
    BY <1>5, <1>7, <2>2
  <2>4. Reused(r.k, p + 1, s)
    BY <1>3, <2>3 DEF Refused, Opened
  <2>5. /\ s.ret = 0
        /\ s.k.listener = [r.k.listener EXCEPT ![p + 1] = @ + 1]
        /\ s.k.portFd = r.k.portFd
    BY <2>4 DEF Reused
  <2>6. s.k.listener[p + 1] = 2 /\ s.k.listener[p] = 1
    BY <1>6, <1>7, <2>3, <2>5
  <2>7. s.k.portFd[p] # NoFd /\ s.k.portFd[p + 1] # NoFd
    BY <1>5, <1>7, <2>1, <2>5, Values
  <2>8. PairCount(s.k, p, n + 1)
    BY <2>2, <2>6, <2>7 DEF PairCount
  <2>9. OthersKept(k, s.k, p)
    BY <1>5, <1>6, <2>1, <2>2, <2>5 DEF OthersKept
  <2> QED BY <1>4, <2>2, <2>5, <2>8, <2>9
<1>10. CASE Refused(k, p, r)
  <2>1. /\ n = 0 /\ r.ret = -1
        /\ r.k.listener = k.listener /\ r.k.portFd = k.portFd
        /\ initSocket(r.k, p + 1).fd = NoFd
    BY <1>10 DEF Refused, PairCount
  <2>2. ~ Opened(r.k, p + 1, s)
    BY <2>1 DEF Opened
  <2>3. s.k.portFd = k.portFd
    BY <1>3, <2>1, <2>2 DEF Reused, Refused
  <2>4. \/ k.listener[p + 1] # 0 /\ s.k.listener = [k.listener EXCEPT ![p + 1] = @ + 1]
        \/ s.k.listener = k.listener
    BY <1>3, <2>1, <2>2 DEF Reused, Refused
  <2>5. s.k.listener[p] = 0 /\ s.k.listener[p + 1] \in {-1, 0}
    BY <1>5, <1>7, <2>1, <2>4 DEF PairCount
  <2>6. PairCount(s.k, p, n)
    BY <2>1, <2>3, <2>5 DEF PairCount
  <2>7. OthersKept(k, s.k, p)
    BY <1>5, <2>3, <2>4 DEF OthersKept
  <2> QED BY <1>4, <2>1, <2>6, <2>7
<1> QED BY <1>1, <1>8, <1>9, <1>10

\* The two calls of remove_socket that remove a source uncount it; the first one
\* closes both ports when the source was their last.
LEMMA removePairCounts ==
    ASSUME NEW k \in Sockets, NEW p \in Port, p + 1 \in Port, (p + 1) + 1 \in Port,
           NEW n \in Nat \ {0}, PairCount(k, p, n),
           NEW r, r = removeSocket(k, p), NEW s, s = removeSocket(r, p + 1)
    PROVE  /\ s \in Sockets
           /\ OthersKept(k, s, p)
           /\ PairCount(s, p, n - 1)
<1>1. Uncounted(k, p, r) \/ Shut(k, p, r)
  BY removeSocketIs, Zenon
<1>2. r \in Sockets
  BY <1>1 DEF Uncounted, Shut
<1>3. Uncounted(r, p + 1, s) \/ Shut(r, p + 1, s)
  BY <1>2, removeSocketIs, Zenon
<1>4. s \in Sockets
  BY <1>3 DEF Uncounted, Shut
<1>5. k.listener \in [Port -> Int] /\ k.portFd \in [Port -> Fd \cup {NoFd}]
  BY SocketsFields
<1>6. r.listener \in [Port -> Int] /\ r.portFd \in [Port -> Fd \cup {NoFd}]
  BY <1>2, SocketsFields
<1>7. p \in Nat /\ p # p + 1
  BY Values
<1>8. CASE Uncounted(k, p, r)
  <2>1. /\ n # 1
        /\ r.listener = [k.listener EXCEPT ![p] = @ - 1]
        /\ r.portFd = k.portFd
    BY <1>8 DEF Uncounted, PairCount
  <2>2. r.listener[p] = n - 1 /\ r.listener[p + 1] = n + 1
    BY <1>5, <1>7, <2>1 DEF PairCount
  <2>3. Uncounted(r, p + 1, s)
    BY <1>3, <2>2 DEF Shut
  <2>4. s.listener = [r.listener EXCEPT ![p + 1] = @ - 1] /\ s.portFd = k.portFd
    BY <2>1, <2>3 DEF Uncounted
  <2>5. s.listener[p] = n - 1 /\ s.listener[p + 1] = (n - 1) + 1
    BY <1>6, <1>7, <2>2, <2>4
  <2>6. n - 1 # 0
    BY <2>1
  <2>7. PairCount(s, p, n - 1)
    BY <2>4, <2>5, <2>6 DEF PairCount
  <2>8. OthersKept(k, s, p)
    BY <1>5, <1>6, <2>1, <2>4 DEF OthersKept
  <2> QED BY <1>4, <2>7, <2>8
<1>9. CASE Shut(k, p, r)
  <2>1. /\ n = 1
        /\ r.listener = [k.listener EXCEPT ![p] = 0, ![p + 1] = 0]
        /\ r.portFd = [k.portFd EXCEPT ![p] = NoFd, ![p + 1] = NoFd]
    BY <1>9 DEF Shut, PairCount
  <2>2. /\ r.listener[p] = 0 /\ r.listener[p + 1] = 0
        /\ r.portFd[p] = NoFd /\ r.portFd[p + 1] = NoFd
    BY <1>5, <1>7, <2>1
  <2>3. Uncounted(r, p + 1, s)
    BY <1>3, <2>2 DEF Shut
  <2>4. s.listener = [r.listener EXCEPT ![p + 1] = @ - 1] /\ s.portFd = r.portFd
    BY <2>3 DEF Uncounted
  <2>5. s.listener[p] = 0 /\ s.listener[p + 1] = -1
    BY <1>6, <1>7, <2>2, <2>4
  <2>6. PairCount(s, p, n - 1)
    BY <2>1, <2>2, <2>4, <2>5 DEF PairCount
  <2>7. OthersKept(k, s, p)
    BY <1>5, <1>6, <2>1, <2>4 DEF OthersKept
  <2> QED BY <1>4, <2>6, <2>7
<1> QED BY <1>1, <1>8, <1>9

-----------------------------------------------------------------------------
(* The destinations of a pair of lists.                                    *)

\* m has the RTCP halves of the destinations l has, in the same order.
Halves(l, m) ==
    /\ Len(m) = Len(l)
    /\ \A i \in 1..Len(l) : m[i] = Rtcp(l[i])

\* A destination is found in both lists, at the same position, or in neither.
LEMMA halvesFound ==
    ASSUME NEW l \in Seq(BaseDest), NEW m \in Seq(UdpStream), Halves(l, m), NEW did \in Int
    PROVE  /\ existDestination(l, did) <=> existDestination(m, did + 1)
           /\ findDestination(l, did) = findDestination(m, did + 1)
<1>1. ASSUME NEW i \in 1..Len(l)
      PROVE  l[i].id = did <=> m[i].id = did + 1
  <2>1. l[i] \in BaseDest
    BY ElementOfSeq
  <2>2. m[i].id = l[i].id + 1 /\ l[i].id \in Int
    BY <2>1, BaseDestFacts DEF Halves
  <2> QED BY <2>2
<1>2. Len(m) = Len(l)
  BY DEF Halves
<1>3. existDestination(l, did) <=> existDestination(m, did + 1)
  BY <1>1, <1>2 DEF existDestination
<1>4. PICK I, J : I = {i \in 1..Len(l) : l[i].id = did} /\ J = {i \in 1..Len(m) : m[i].id = did + 1}
  OBVIOUS
<1>5. I = J
  BY <1>1, <1>2, <1>4
<1>6. /\ findDestination(l, did) = IF I # {} THEN Min(I) ELSE 0
      /\ findDestination(m, did + 1) = IF J # {} THEN Min(J) ELSE 0
  BY <1>4 DEF findDestination, SelectInSeq
<1> QED BY <1>3, <1>5, <1>6

LEMMA halvesAdded ==
    ASSUME NEW l \in Seq(BaseDest), NEW m \in Seq(UdpStream), Halves(l, m),
           NEW d \in BaseDest, ~ existDestination(l, d.id)
    PROVE  /\ addDestination(l, d) \in Seq(BaseDest)
           /\ Halves(addDestination(l, d), addDestination(m, Rtcp(d)))
<1>1. ~ existDestination(m, Rtcp(d).id)
  BY BaseDestFacts, halvesFound
<1>2. addDestination(l, d) = Append(l, d) /\ addDestination(m, Rtcp(d)) = Append(m, Rtcp(d))
  BY <1>1 DEF addDestination
<1>3. PICK x, y : x = Append(l, d) /\ y = Append(m, Rtcp(d))
  OBVIOUS
<1>4. /\ x \in Seq(BaseDest) /\ Len(x) = Len(l) + 1
      /\ \A i \in 1..Len(l) : x[i] = l[i]
      /\ x[Len(l) + 1] = d
  BY <1>3, AppendProperties
<1>5. /\ Len(y) = Len(m) + 1
      /\ \A i \in 1..Len(m) : y[i] = m[i]
      /\ y[Len(m) + 1] = Rtcp(d)
  BY <1>3, BaseDestFacts, AppendProperties
<1>6. Len(l) \in Nat /\ Len(m) = Len(l)
  BY LenProperties DEF Halves
<1>7. ASSUME NEW i \in 1..Len(x)
      PROVE  y[i] = Rtcp(x[i])
  <2>1. CASE i = Len(l) + 1
    BY <1>4, <1>5, <1>6, <2>1
  <2>2. CASE i # Len(l) + 1
    <3>1. i \in 1..Len(l)
      BY <1>4, <1>6, <2>2
    <3> QED BY <1>4, <1>5, <1>6, <3>1 DEF Halves
  <2> QED BY <2>1, <2>2
<1> QED BY <1>2, <1>3, <1>4, <1>5, <1>6, <1>7 DEF Halves

LEMMA halvesRemoved ==
    ASSUME NEW l \in Seq(BaseDest), NEW m \in Seq(UdpStream), Halves(l, m),
           NEW did \in Int, existDestination(l, did)
    PROVE  /\ remDestination(l, did) \in Seq(BaseDest)
           /\ Halves(remDestination(l, did), remDestination(m, did + 1))
<1>1. PICK k \in 1..Len(l) : k = findDestination(l, did)
  BY findDestinationCorrect
<1>2. k = findDestination(m, did + 1)
  BY <1>1, halvesFound
<1>3. PICK x, y : x = RemoveAt(l, k) /\ y = RemoveAt(m, k)
  OBVIOUS
<1>4. x = remDestination(l, did) /\ y = remDestination(m, did + 1)
  BY <1>1, <1>2, <1>3 DEF remDestination
<1>5. Len(l) \in Nat /\ Len(m) = Len(l)
  BY LenProperties DEF Halves
<1>6. /\ x \in Seq(BaseDest)
      /\ Len(x) = Len(l) - 1
      /\ \A i \in 1..(Len(l) - 1) : x[i] = IF i < k THEN l[i] ELSE l[i + 1]
  <2>1. x \in Seq(BaseDest) /\ Shifted(l, k, x)
    BY <1>3, removeAtCorrect
  <2> QED BY <2>1 DEF Shifted
<1>7. /\ Len(y) = Len(l) - 1
      /\ \A i \in 1..(Len(l) - 1) : y[i] = IF i < k THEN m[i] ELSE m[i + 1]
  <2>1. k \in 1..Len(m)
    BY <1>5
  <2>2. Shifted(m, k, y)
    BY <1>3, <2>1, removeAtCorrect
  <2> QED BY <1>5, <2>2 DEF Shifted
<1>8. ASSUME NEW i \in 1..(Len(l) - 1)
      PROVE  y[i] = Rtcp(x[i])
  <2>1. i \in 1..Len(l) /\ i + 1 \in 1..Len(l)
    BY <1>5
  <2>2. m[i] = Rtcp(l[i]) /\ m[i + 1] = Rtcp(l[i + 1])
    BY <2>1 DEF Halves
  <2>3. x[i] = (IF i < k THEN l[i] ELSE l[i + 1]) /\ y[i] = IF i < k THEN m[i] ELSE m[i + 1]
    BY <1>6, <1>7
  <2> QED BY <2>2, <2>3
<1> QED BY <1>4, <1>6, <1>7, <1>8 DEF Halves

-----------------------------------------------------------------------------
(* What holds while no source was added at an odd port or next to an       *)
(* identifier in use.                                                      *)

Even == {p \in BasePort : p % 2 = 0}

\* The sources that have the port.
On(p) == {id \in srcIdWorker : PortOf(management[id].src) = p}

Apart == \A id \in srcIdWorker : id + 1 \notin srcIdWorker

\* A source has both its lists, registered under its address and the next one.
Pair(id) ==
    /\ HasPair(id)
    /\ PortOf(management[id].src) \in Even
    /\ management[id + 1].src = <<management[id].src[1], PortOf(management[id].src) + 1>>
    /\ forwarding[management[id].src] = id
    /\ forwarding[management[id + 1].src] = id + 1

Pairs ==
    /\ ~ crashed
    /\ \A id \in srcIdWorker : Pair(id)
    /\ Lists \subseteq srcIdWorker \cup {id + 1 : id \in srcIdWorker}

\* The address table has no entries but those of the lists.
Routed ==
    \A a \in Addr : forwarding[a] # 0 => /\ IsList(forwarding[a])
                                         /\ management[forwarding[a]].src = a

\* The counts of an even port and the next one are those of the sources there, and no
\* other port is open.
Counted ==
    /\ \A p \in Even : PairCount(sockets, p, Cardinality(On(p)))
    /\ \A p \in Port : p \notin Even /\ p - 1 \notin Even => portFd[p] = NoFd

\* The destinations of a source's two lists, callers' destinations with identifiers of
\* their own and their halves.
Destinations ==
    \A id \in srcIdWorker : /\ management[id].dests \in Seq(BaseDest)
                            /\ UniqueIdsIn(management[id].dests)
                            /\ Halves(management[id].dests, management[id + 1].dests)

Regular == Apart /\ Pairs /\ Routed /\ Counted /\ Destinations

PairInv == Inv /\ (~ overlapped => Regular)

LEMMA EvenThenOdd == \A n \in Nat : n % 2 = 0 => (n + 1) % 2 # 0
  OBVIOUS

LEMMA EvenFacts ==
    /\ \A p \in Even : p \in BasePort /\ p \in Port /\ p + 1 \in Port /\ (p + 1) + 1 \in Port
    /\ \A p, q \in Even : p # q + 1
<1>1. \A p \in Even : p \in BasePort /\ p \in Port /\ p + 1 \in Port /\ (p + 1) + 1 \in Port
  BY BaseFacts DEF Even
<1>2. ASSUME NEW p \in Even, NEW q \in Even
      PROVE  p # q + 1
  <2>1. q \in Nat
    BY <1>1, Values
  <2>2. p % 2 = 0 /\ q % 2 = 0
    BY DEF Even
  <2> QED BY <2>1, <2>2, EvenThenOdd
<1> QED BY <1>1, <1>2

LEMMA OnIsFinite ==
    ASSUME Inv, NEW p
    PROVE  IsFiniteSet(On(p)) /\ Cardinality(On(p)) \in Nat
<1>1. On(p) \subseteq SrcId
  <2>1. srcIdWorker \subseteq BaseId
    BY DEF Inv, RtcpTypeOK
  <2>2. BaseId \subseteq SrcId
    BY RtcpAssumption
  <2> QED BY <2>1, <2>2 DEF On
<1>2. IsFiniteSet(SrcId)
  BY WorkerAssumption
<1> QED BY <1>1, <1>2, FS_Subset, FS_CardinalityType

LEMMA SourceFacts ==
    ASSUME Inv, NEW id \in srcIdWorker
    PROVE  /\ id \in BaseId /\ id \in ListId /\ id + 1 \in ListId
           /\ id \in Nat \ {0} /\ id + 1 # 0
<1>1. id \in BaseId
  BY DEF Inv, RtcpTypeOK
<1>2. {id, id + 1} \subseteq SrcId \ {0}
  BY <1>1, RtcpAssumption
<1> QED BY <1>1, <1>2, BaseFacts, WorkerAssumption

\* A pair that keeps its two lists' addresses and their entries stays one.
LEMMA PairKept ==
    ASSUME NEW id, Pair(id), HasPair(id)',
           management'[id].src = management[id].src,
           management'[id + 1].src = management[id + 1].src,
           forwarding'[management[id].src] = forwarding[management[id].src],
           forwarding'[management[id + 1].src] = forwarding[management[id + 1].src]
    PROVE  Pair(id)'
  BY DEF Pair, PortOf

\* A step that changes no socket, no source, no list's address and no entry of
\* a list's address keeps all but the destinations.
LEMMA ShapeKept ==
    ASSUME Inv, Apart, Pairs, Routed, Counted,
           sockets' = sockets, portFd' = portFd, srcIdWorker' = srcIdWorker, crashed' = crashed,
           Lists' = Lists,
           \A id \in Lists : management'[id].src = management[id].src,
           forwarding' = forwarding
    PROVE  Apart' /\ Pairs' /\ Routed' /\ Counted'
<1>1. Apart'
  BY DEF Apart
<1>2. ASSUME NEW id \in srcIdWorker
      PROVE  id \in Lists /\ id + 1 \in Lists
  BY SourceFacts DEF Pairs, Pair, HasPair, Lists
<1>3. ASSUME NEW id \in srcIdWorker
      PROVE  Pair(id)'
  <2>1. HasPair(id)'
    BY <1>2 DEF HasPair, Lists, IsList
  <2> QED BY <1>2, <2>1, PairKept DEF Pairs
<1>4. Pairs'
  BY <1>3 DEF Pairs
<1>5. \A p \in Even : On(p)' = On(p)
  BY <1>2 DEF On, PortOf
<1>6. Counted'
  BY <1>5 DEF Counted, PairCount
<1>7. Routed'
  <2>1. SUFFICES ASSUME NEW a \in Addr, forwarding[a] # 0
                 PROVE  forwarding[a] \in Lists' /\ management'[forwarding[a]].src = a
    BY DEF Routed, Lists
  <2>2. forwarding[a] \in Lists /\ management[forwarding[a]].src = a
    BY <2>1 DEF Routed, Lists, Inv, RtcpTypeOK
  <2> QED BY <2>2
<1> QED BY <1>1, <1>4, <1>6, <1>7

LEMMA InitPair == RtcpInit => PairInv
<1> SUFFICES ASSUME RtcpInit
             PROVE  PairInv
  OBVIOUS
<1>1. srcIdWorker = {} /\ ~ crashed /\ Inv
  BY InitInv DEF RtcpInit
<1>2. Lists = {}
  BY DEF RtcpInit, Init, Lists, IsList
<1>3. /\ sockets.listener = [p \in Port |-> 0]
      /\ sockets.portFd = [p \in Port |-> NoFd]
      /\ portFd = [p \in Port |-> NoFd]
  BY DEF RtcpInit, Init, sockets
<1>4. \A p \in Even : On(p) = {}
  BY <1>1 DEF On
<1>5. \A p \in Even : Cardinality(On(p)) = 0
  BY <1>4, FS_EmptySet
<1>6. Counted
  BY <1>3, <1>5, EvenFacts DEF Counted, PairCount
<1>7. Routed
  BY DEF RtcpInit, Init, Routed
<1>8. Regular
  BY <1>1, <1>2, <1>6, <1>7 DEF Regular, Apart, Pairs, Destinations
<1> QED BY <1>1, <1>8 DEF PairInv

\* The counts after a step that changes the sources of one even port.
LEMMA CountedAt ==
    ASSUME Counted, NEW p \in Even, NEW k, sockets' = k, portFd' = k.portFd,
           OthersKept(sockets, k, p),
           PairCount(k, p, Cardinality(On(p)')),
           \A q \in Even : q # p => On(q)' = On(q)
    PROVE  Counted'
<1>1. ASSUME NEW q \in Even
      PROVE  PairCount(k, q, Cardinality(On(q)'))
  <2>1. CASE q = p
    BY <2>1
  <2>2. CASE q # p
    <3>1. q \in Port /\ q + 1 \in Port /\ q \in Nat /\ p \in Nat
      BY EvenFacts, Values
    <3>2. q # p + 1 /\ q + 1 # p
      BY EvenFacts
    <3>3. q + 1 # p + 1
      BY <2>2, <3>1
    <3>4. /\ k.listener[q] = sockets.listener[q] /\ k.listener[q + 1] = sockets.listener[q + 1]
          /\ k.portFd[q] = sockets.portFd[q] /\ k.portFd[q + 1] = sockets.portFd[q + 1]
      BY <2>2, <3>1, <3>2, <3>3 DEF OthersKept
    <3>5. PairCount(sockets, q, Cardinality(On(q)))
      BY DEF Counted
    <3>6. Cardinality(On(q)') = Cardinality(On(q))
      BY <2>2
    <3> QED BY <3>4, <3>5, <3>6 DEF PairCount
  <2> QED BY <2>1, <2>2
<1>2. ASSUME NEW q \in Port, q \notin Even, q - 1 \notin Even
      PROVE  portFd'[q] = NoFd
  <2>1. p \in Nat /\ q \in Nat
    BY EvenFacts, Values
  <2>2. q # p /\ q # p + 1
    BY <1>2, <2>1
  <2>3. k.portFd[q] = sockets.portFd[q] /\ sockets.portFd = portFd
    BY <2>2 DEF OthersKept, sockets
  <2> QED BY <1>2, <2>3 DEF Counted
<1>3. \A q \in Even : PairCount(sockets', q, Cardinality(On(q)'))
  BY <1>1
<1> QED BY <1>2, <1>3 DEF Counted, PairCount

LEMMA SocketsNow ==
    ASSUME NEW k \in Sockets, SetSockets(k)
    PROVE  sockets' = k /\ portFd' = k.portFd
  BY SetSocketsIs DEF SetSockets

LEMMA addPairRegular ==
    ASSUME PairInv, NEW id \in BaseId, NEW ip \in IP, NEW p \in BasePort,
           addPair(id, <<ip, p>>), ~ overlapped'
    PROVE  Regular'
<1> DEFINE a == <<ip, p>>
           b == <<ip, p + 1>>
<1>1. p \in Port /\ p + 1 \in Port /\ (p + 1) + 1 \in Port
  BY BaseFacts
<1>2. a \in Addr /\ b \in Addr /\ PortOf(a) = p /\ PortOf(b) = p + 1 /\ a[1] = ip
  BY <1>1, AddrFields
<1>3. /\ id \in ListId /\ id + 1 \in ListId /\ id # id + 1
      /\ id \in Int
  BY BaseFacts
<1>4. /\ id \notin srcIdWorker
      /\ forwarding[a] = 0 /\ forwarding[b] = 0
      /\ overlapped' = (\/ overlapped
                        \/ p % 2 = 1
                        \/ {id - 1, id + 1} \cap srcIdWorker # {})
      /\ crashed' = crashed
  BY <1>2, Zenon DEF addPair
<1>5. /\ ~ overlapped
      /\ p % 2 # 1
      /\ id - 1 \notin srcIdWorker /\ id + 1 \notin srcIdWorker
  BY <1>4
<1>6. Inv /\ Apart /\ Pairs /\ Routed /\ Counted /\ Destinations
  BY <1>5 DEF PairInv, Regular
<1>7. p \in Even
  <2>1. p \in Nat
    BY <1>1, Values
  <2>2. p % 2 = 0
    BY <1>5, <2>1
  <2> QED BY <2>2 DEF Even
<1>8. PICK r : r = addSocket(sockets, p)
  OBVIOUS
<1>9. PICK s : s = addSocket(r.k, p + 1)
  OBVIOUS
<1>10. SetSockets(s.k)
  BY <1>2, <1>8, <1>9, Zenon DEF addPair
<1>11. PICK n : n = Cardinality(On(p)) /\ n \in Nat
  BY <1>6, OnIsFinite
<1>12. sockets \in Sockets /\ PairCount(sockets, p, n)
  BY <1>6, <1>7, <1>11 DEF Inv, RtcpTypeOK, Counted
<1>13. /\ s.k \in Sockets
       /\ OthersKept(sockets, s.k, p)
       /\ \/ r.ret # -1 /\ s.ret # -1 /\ PairCount(s.k, p, n + 1)
          \/ r.ret = -1 /\ PairCount(s.k, p, n)
  BY <1>1, <1>8, <1>9, <1>11, <1>12, addPairCounts
<1>14. sockets' = s.k /\ portFd' = s.k.portFd
  BY <1>10, <1>13, SocketsNow
<1>15. \/ /\ r.ret # -1 /\ s.ret # -1
          /\ management' = [management EXCEPT ![id] = [src |-> a, dests |-> << >>],
                                              ![id + 1] = [src |-> b, dests |-> << >>]]
          /\ forwarding' = [forwarding EXCEPT ![a] = id, ![b] = id + 1]
          /\ srcIdWorker' = srcIdWorker \cup {id}
       \/ /\ r.ret = -1 \/ s.ret = -1
          /\ UNCHANGED <<management, forwarding, srcIdWorker>>
  BY <1>2, <1>8, <1>9, Zenon DEF addPair
<1>16. CASE r.ret = -1 \/ s.ret = -1
  <2>1. UNCHANGED <<management, forwarding, srcIdWorker, crashed>>
    BY <1>4, <1>15, <1>16
  <2>2. PairCount(s.k, p, n)
    BY <1>13, <1>16
  <2>3. \A q : On(q)' = On(q)
    BY <2>1 DEF On
  <2>4. Counted'
    <3>1. PairCount(s.k, p, Cardinality(On(p)'))
      BY <1>11, <2>2, <2>3
    <3> QED BY <1>6, <1>7, <1>13, <1>14, <2>3, <3>1, CountedAt
  <2>5. Apart' /\ Destinations'
    BY <1>6, <2>1 DEF Apart, Destinations
  <2>6. Pairs'
    BY <1>6, <2>1 DEF Pairs, Pair, HasPair, Lists, IsList
  <2>7. Routed'
    BY <1>6, <2>1 DEF Routed, IsList
  <2> QED BY <2>4, <2>5, <2>6, <2>7 DEF Regular
<1>17. CASE r.ret # -1 /\ s.ret # -1
  <2>1. PICK l, m : l = [src |-> a, dests |-> << >>] /\ m = [src |-> b, dests |-> << >>]
    OBVIOUS
  <2>2. /\ l \in List /\ l.src = a /\ l.dests = << >>
        /\ m \in List /\ m.src = b /\ m.dests = << >>
        /\ l \notin {Absent, Null} /\ m \notin {Absent, Null}
    <3>1. l \in List /\ m \in List
      BY <1>2, <2>1 DEF List
    <3>2. l.src = a /\ l.dests = << >> /\ m.src = b /\ m.dests = << >>
      BY <2>1
    <3> QED BY <3>1, <3>2, ListIsList
  <2>3. /\ management' = [management EXCEPT ![id] = l, ![id + 1] = m]
        /\ forwarding' = [forwarding EXCEPT ![a] = id, ![b] = id + 1]
        /\ srcIdWorker' = srcIdWorker \cup {id}
    BY <1>15, <1>17, <2>1
  <2>4. management \in [ListId -> List \cup {Absent, Null}] /\ forwarding \in [Addr -> ListId]
    BY <1>6 DEF Inv, RtcpTypeOK
  <2>5. \A i \in ListId : management'[i] = IF i = id THEN l ELSE IF i = id + 1 THEN m
                                           ELSE management[i]
    BY <1>3, <2>3, <2>4
  <2>6. a # b
    BY <1>1, Values
  <2>7. \A c \in Addr : forwarding'[c] = IF c = a THEN id ELSE IF c = b THEN id + 1
                                         ELSE forwarding[c]
    BY <1>2, <2>3, <2>4, <2>6
  <2>8. ASSUME NEW j \in srcIdWorker
        PROVE  /\ j \notin {id, id + 1} /\ j + 1 \notin {id, id + 1}
               /\ management'[j] = management[j] /\ management'[j + 1] = management[j + 1]
    <3>1. j \in ListId /\ j + 1 \in ListId /\ j \in Nat
      BY <1>6, SourceFacts
    <3>2. j # id /\ j # id + 1
      BY <1>4, <1>5
    <3>3. j + 1 # id /\ j + 1 # id + 1
      <4>1. j + 1 = id => j = id - 1
        BY <3>1
      <4>2. j + 1 = id + 1 => j = id
        BY <1>3, <3>1
      <4> QED BY <1>5, <3>2, <4>1, <4>2
    <3> QED BY <2>5, <3>1, <3>2, <3>3
  <2>9. ASSUME NEW j \in srcIdWorker
        PROVE  Pair(j)'
    <3>1. Pair(j) /\ j # 0 /\ j + 1 # 0
      BY <1>6, SourceFacts DEF Pairs
    <3>2. HasPair(j)'
      BY <2>8, <3>1 DEF Pair, HasPair, IsList
    <3>3. management[j].src \in Addr /\ management[j + 1].src \in Addr
      BY <1>6, <3>1, PairFields, SourceFacts DEF Pair
    <3>4. /\ management[j].src \notin {a, b}
          /\ management[j + 1].src \notin {a, b}
      BY <1>4, <3>1 DEF Pair
    <3>5. /\ forwarding'[management[j].src] = forwarding[management[j].src]
          /\ forwarding'[management[j + 1].src] = forwarding[management[j + 1].src]
      BY <2>7, <3>3, <3>4
    <3> QED BY <2>8, <3>1, <3>2, <3>5, PairKept
  <2>10. Pair(id)'
    <3>1. management'[id] = l /\ management'[id + 1] = m
      BY <1>3, <2>5
    <3>2. HasPair(id)'
      BY <2>2, <3>1 DEF HasPair, IsList
    <3>3. forwarding'[a] = id /\ forwarding'[b] = id + 1
      BY <1>2, <2>6, <2>7
    <3>4. PortOf(a) = p /\ b = <<a[1], PortOf(a) + 1>>
      BY <1>2
    <3> QED BY <1>7, <2>2, <3>1, <3>2, <3>3, <3>4 DEF Pair, PortOf
  <2>11. Lists' \subseteq srcIdWorker' \cup {i + 1 : i \in srcIdWorker'}
    <3>1. SUFFICES ASSUME NEW i \in Lists', i \notin {id, id + 1}
                   PROVE  i \in Lists
      BY <1>6, <2>3 DEF Pairs
    <3> QED BY <2>5, <3>1 DEF Lists, IsList
  <2>12. Pairs'
    BY <1>4, <1>6, <2>3, <2>9, <2>10, <2>11 DEF Pairs
  <2>13. Apart'
    <3>1. SUFFICES ASSUME NEW j \in srcIdWorker \cup {id}
                   PROVE  j + 1 \notin srcIdWorker \cup {id}
      BY <2>3 DEF Apart
    <3> QED BY <1>3, <1>5, <1>6, <2>8 DEF Apart
  <2>14. Destinations'
    <3>1. ASSUME NEW j \in srcIdWorker'
          PROVE  /\ management'[j].dests \in Seq(BaseDest)
                 /\ UniqueIdsIn(management'[j].dests)
                 /\ Halves(management'[j].dests, management'[j + 1].dests)
      <4>1. CASE j = id
        <5>1. management'[j].dests = << >> /\ management'[j + 1].dests = << >>
          BY <1>3, <2>2, <2>5, <4>1
        <5>2. << >> \in Seq(BaseDest) /\ UniqueIdsIn(<< >>) /\ Halves(<< >>, << >>)
          BY DEF Halves, UniqueIdsIn
        <5> QED BY <5>1, <5>2
      <4>2. CASE j # id
        <5>1. j \in srcIdWorker
          BY <2>3, <4>2
        <5> QED BY <1>6, <2>8, <5>1 DEF Destinations
      <4> QED BY <4>1, <4>2
    <3> QED BY <3>1 DEF Destinations, Halves, UniqueIdsIn
  <2>15. On(p)' = On(p) \cup {id}
    <3>1. PortOf(management'[id].src) = p
      BY <1>2, <1>3, <2>2, <2>5
    <3> QED BY <2>3, <2>8, <3>1 DEF On, PortOf
  <2>16. \A q \in Even : q # p => On(q)' = On(q)
    <3>1. PortOf(management'[id].src) = p
      BY <1>2, <1>3, <2>2, <2>5
    <3> QED BY <2>3, <2>8, <3>1 DEF On, PortOf
  <2>17. Cardinality(On(p)') = n + 1
    <3>1. id \notin On(p)
      BY <1>4 DEF On
    <3> QED BY <1>6, <1>11, <2>15, <3>1, OnIsFinite, FS_AddElement
  <2>18. Counted'
    <3>1. PairCount(s.k, p, Cardinality(On(p)'))
      BY <1>13, <1>17, <2>17
    <3> QED BY <1>6, <1>7, <1>13, <1>14, <2>16, <3>1, CountedAt
  <2>19. Routed'
    <3>1. SUFFICES ASSUME NEW c \in Addr, forwarding'[c] # 0
                   PROVE  /\ management'[forwarding'[c]] \notin {Absent, Null}
                          /\ management'[forwarding'[c]].src = c
      BY DEF Routed, IsList
    <3>2. CASE c = a
      BY <1>2, <1>3, <2>2, <2>5, <2>7, <3>2
    <3>3. CASE c = b
      BY <1>2, <1>3, <2>2, <2>5, <2>6, <2>7, <3>3
    <3>4. CASE c # a /\ c # b
      <4>1. forwarding'[c] = forwarding[c]
        BY <2>7, <3>4
      <4>2. /\ forwarding[c] \in Lists
            /\ management[forwarding[c]].src = c
        BY <1>6, <2>4, <3>1, <4>1 DEF Routed, Lists
      <4>3. PICK j \in srcIdWorker : forwarding[c] \in {j, j + 1}
        BY <1>6, <4>2 DEF Pairs
      <4>4. management'[forwarding[c]] = management[forwarding[c]]
        BY <2>8, <4>3
      <4> QED BY <4>1, <4>2, <4>4 DEF Lists, IsList
    <3> QED BY <3>2, <3>3, <3>4
  <2> QED BY <2>12, <2>13, <2>14, <2>18, <2>19 DEF Regular
<1> QED BY <1>16, <1>17

LEMMA removePairRegular ==
    ASSUME Inv, Regular, NEW id \in BaseId, removePair(id)
    PROVE  Regular'
<1> USE DEF Regular
<1>1. id \in srcIdWorker /\ Pair(id)
  BY DEF removePair, Pairs
<1>2. PICK a, b, p : a = management[id].src /\ b = management[id + 1].src /\ p = PortOf(a)
  OBVIOUS
<1>3. /\ a \in Addr /\ b \in Addr
      /\ p \in Even
      /\ PortOf(b) = p + 1
      /\ forwarding[a] = id /\ forwarding[b] = id + 1
  BY <1>1, <1>2, PairFields DEF Pair, PortOf
<1>4. p \in Port /\ p + 1 \in Port /\ (p + 1) + 1 \in Port
  BY <1>3, EvenFacts
<1>5. id \in ListId /\ id + 1 \in ListId /\ id # id + 1 /\ id \in Int
  BY BaseFacts
<1>6. PICK r : r = removeSocket(sockets, p)
  OBVIOUS
<1>7. PICK s : s = removeSocket(r, p + 1)
  OBVIOUS
<1>8. SetSockets(s)
  BY <1>2, <1>3, <1>6, <1>7, Zenon DEF removePair
<1>9. /\ management' = [management EXCEPT ![id] = Absent, ![id + 1] = Absent]
      /\ forwarding' = [forwarding EXCEPT ![a] = 0, ![b] = 0]
      /\ srcIdWorker' = srcIdWorker \ {id}
      /\ crashed' = crashed
  BY <1>2 DEF removePair
<1>10. id \in On(p)
  BY <1>1, <1>2 DEF On
<1>11. PICK n : n = Cardinality(On(p)) /\ n \in Nat
  BY OnIsFinite
<1>12. n # 0
  BY <1>10, <1>11, OnIsFinite, FS_EmptySet
<1>13. sockets \in Sockets /\ PairCount(sockets, p, n)
  BY <1>3, <1>11 DEF Inv, RtcpTypeOK, Counted
<1>14. /\ s \in Sockets
       /\ OthersKept(sockets, s, p)
       /\ PairCount(s, p, n - 1)
  BY <1>4, <1>6, <1>7, <1>11, <1>12, <1>13, removePairCounts
<1>15. sockets' = s /\ portFd' = s.portFd
  BY <1>8, <1>14, SocketsNow
<1>16. management \in [ListId -> List \cup {Absent, Null}] /\ forwarding \in [Addr -> ListId]
  BY DEF Inv, RtcpTypeOK
<1>17. \A i \in ListId : management'[i] = IF i \in {id, id + 1} THEN Absent ELSE management[i]
  BY <1>5, <1>9, <1>16
<1>18. \A c \in Addr : forwarding'[c] = IF c \in {a, b} THEN 0 ELSE forwarding[c]
  BY <1>3, <1>9, <1>16
<1>19. ASSUME NEW j \in srcIdWorker, j # id
       PROVE  /\ j \notin {id, id + 1} /\ j + 1 \notin {id, id + 1}
              /\ management'[j] = management[j] /\ management'[j + 1] = management[j + 1]
  <2>1. j \in ListId /\ j + 1 \in ListId /\ j \in Nat
    BY SourceFacts
  <2>2. j # id + 1 /\ j + 1 # id
    BY <1>1, <1>19 DEF Apart
  <2>3. j + 1 # id + 1
    BY <1>5, <1>19, <2>1
  <2> QED BY <1>17, <1>19, <2>1, <2>2, <2>3
<1>20. ASSUME NEW j \in srcIdWorker, j # id
       PROVE  Pair(j)'
  <2>1. Pair(j)
    BY DEF Pairs
  <2>2. HasPair(j)'
    BY <1>19, <1>20, <2>1 DEF Pair, HasPair, IsList
  <2>3. management[j].src \in Addr /\ management[j + 1].src \in Addr
    BY <2>1, PairFields, SourceFacts DEF Pair
  <2>4. /\ management[j].src \notin {a, b}
        /\ management[j + 1].src \notin {a, b}
    BY <1>3, <1>19, <1>20, <2>1 DEF Pair
  <2>5. /\ forwarding'[management[j].src] = forwarding[management[j].src]
        /\ forwarding'[management[j + 1].src] = forwarding[management[j + 1].src]
    BY <1>18, <2>3, <2>4
  <2> QED BY <1>19, <1>20, <2>1, <2>2, <2>5, PairKept
<1>21. Lists' \subseteq srcIdWorker' \cup {i + 1 : i \in srcIdWorker'}
  <2>1. SUFFICES ASSUME NEW i \in Lists'
                 PROVE  i \in srcIdWorker' \cup {j + 1 : j \in srcIdWorker'}
    OBVIOUS
  <2>2. i \in Lists /\ i \notin {id, id + 1}
    BY <1>17 DEF Lists, IsList
  <2> QED BY <1>9, <2>2 DEF Pairs
<1>22. Pairs'
  BY <1>9, <1>20, <1>21 DEF Pairs
<1>23. Apart'
  BY <1>9 DEF Apart
<1>24. Destinations'
  <2>1. ASSUME NEW j \in srcIdWorker'
        PROVE  /\ management'[j].dests \in Seq(BaseDest)
               /\ UniqueIdsIn(management'[j].dests)
               /\ Halves(management'[j].dests, management'[j + 1].dests)
    <3>1. j \in srcIdWorker /\ j # id
      BY <1>9
    <3> QED BY <1>19, <3>1 DEF Destinations
  <2> QED BY <2>1 DEF Destinations, Halves, UniqueIdsIn
<1>25. On(p)' = On(p) \ {id}
  BY <1>9, <1>19 DEF On, PortOf
<1>26. \A q \in Even : q # p => On(q)' = On(q)
  BY <1>2, <1>9, <1>19 DEF On, PortOf
<1>27. Cardinality(On(p)') = n - 1
  BY <1>10, <1>11, <1>25, OnIsFinite, FS_RemoveElement
<1>28. Counted'
  <2>1. PairCount(s, p, Cardinality(On(p)'))
    BY <1>14, <1>27
  <2> QED BY <1>3, <1>14, <1>15, <1>26, <2>1, CountedAt
<1>29. Routed'
  <2>1. SUFFICES ASSUME NEW c \in Addr, forwarding'[c] # 0
                 PROVE  /\ management'[forwarding'[c]] \notin {Absent, Null}
                        /\ management'[forwarding'[c]].src = c
    BY DEF Routed, IsList
  <2>2. c \notin {a, b} /\ forwarding'[c] = forwarding[c]
    BY <1>18, <2>1
  <2>3. /\ forwarding[c] \in ListId
        /\ management[forwarding[c]] \notin {Absent, Null}
        /\ management[forwarding[c]].src = c
    BY <1>16, <2>1, <2>2 DEF Routed, IsList
  <2>4. forwarding[c] \notin {id, id + 1}
    BY <1>2, <2>2, <2>3
  <2> QED BY <1>17, <2>2, <2>3, <2>4
<1> QED BY <1>22, <1>23, <1>24, <1>28, <1>29

\* The entries of a pair's addresses already name its lists, so writing them again
\* changes nothing.
LEMMA RegisteredAgain ==
    ASSUME Inv, NEW id \in BaseId, Pair(id)
    PROVE  [forwarding EXCEPT ![management[id].src] = id,
                              ![management[id + 1].src] = id + 1] = forwarding
<1>1. management[id].src \in Addr /\ management[id + 1].src \in Addr
  BY PairFields DEF Pair
<1>2. forwarding \in [Addr -> ListId]
  BY DEF Inv, RtcpTypeOK
<1>3. forwarding[management[id].src] = id /\ forwarding[management[id + 1].src] = id + 1
  BY DEF Pair
<1> QED BY <1>1, <1>2, <1>3

\* A step that replaces the destinations of one pair by another list of callers'
\* destinations and its halves.
LEMMA DestinationsReplaced ==
    ASSUME Inv, Regular, NEW id \in BaseId, id \in srcIdWorker,
           NEW x \in Seq(UdpStream), NEW y \in Seq(UdpStream), x \in Seq(BaseDest), UniqueIdsIn(x),
           Halves(x, y),
           management' = [management EXCEPT ![id].dests = x, ![id + 1].dests = y],
           forwarding' = forwarding,
           UNCHANGED <<portListener, portFd, fdPort, sock>>,
           UNCHANGED <<srcIdWorker, crashed>>
    PROVE  Regular'
<1> USE DEF Regular
<1>1. HasPair(id)
  BY DEF Pairs, Pair
<1>2. /\ \A i \in ListId : i \notin {id, id + 1} => management'[i] = management[i]
      /\ management'[id].dests = x
      /\ management'[id + 1].dests = y
      /\ Lists' = Lists
      /\ \A i \in Lists : management'[i].src = management[i].src
  <2>1. \A i \in ListId : i \notin {id, id + 1} => management'[i] = management[i]
    BY <1>1, TwoLists
  <2>2. management'[id].dests = x
    BY <1>1, TwoLists
  <2>3. management'[id + 1].dests = y
    <3>1. management \in [ListId -> List \cup {Absent, Null}] /\ management[id + 1] \in List
      BY <1>1, PairFields DEF Inv, RtcpTypeOK
    <3>2. id + 1 \in ListId /\ id # id + 1
      BY BaseFacts
    <3>3. management'[id + 1] = [management[id + 1] EXCEPT !.dests = y]
      BY <3>1, <3>2
    <3> QED BY <3>1, <3>3 DEF List
  <2>4. Lists' = Lists /\ \A i \in Lists : management'[i].src = management[i].src
    BY <1>1, TwoLists
  <2> QED BY <2>1, <2>2, <2>3, <2>4
<1>3. sockets' = sockets
  BY SocketsUnchanged
<1>4. Apart' /\ Pairs' /\ Routed' /\ Counted'
  BY <1>2, <1>3, ShapeKept
<1>5. ASSUME NEW j \in srcIdWorker
      PROVE  /\ management'[j].dests \in Seq(BaseDest)
             /\ UniqueIdsIn(management'[j].dests)
             /\ Halves(management'[j].dests, management'[j + 1].dests)
  <2>1. CASE j = id
    BY <1>2, <2>1
  <2>2. CASE j # id
    <3>1. j \in ListId /\ j + 1 \in ListId /\ j \in Nat /\ id \in Nat
      BY SourceFacts
    <3>2. j # id + 1 /\ j + 1 # id
      BY DEF Apart
    <3>3. j + 1 # id + 1
      BY <2>2, <3>1
    <3>4. management'[j] = management[j] /\ management'[j + 1] = management[j + 1]
      BY <1>2, <2>2, <3>1, <3>2, <3>3
    <3> QED BY <3>4 DEF Destinations
  <2> QED BY <2>1, <2>2
<1>6. Destinations'
  BY <1>5 DEF Destinations, Halves, UniqueIdsIn
<1> QED BY <1>4, <1>6

LEMMA addPairDestRegular ==
    ASSUME Inv, Regular, NEW id \in BaseId, NEW d \in BaseDest, addPairDest(id, d)
    PROVE  Regular'
<1>1. PICK l, m : l = management[id].dests /\ m = management[id + 1].dests
  OBVIOUS
<1>2. /\ id \in srcIdWorker /\ ~ existDestination(l, d.id)
      /\ management' = [management EXCEPT ![id].dests = addDestination(l, d),
                                          ![id + 1].dests = addDestination(m, Rtcp(d))]
      /\ forwarding' = IF existDestination(m, d.id + 1) THEN forwarding
                       ELSE [forwarding EXCEPT ![management[id].src] = id,
                                               ![management[id + 1].src] = id + 1]
      /\ UNCHANGED <<portListener, portFd, fdPort, sock>>
      /\ UNCHANGED <<srcIdWorker, crashed>>
  BY <1>1 DEF addPairDest
<1>3. Pair(id)
  BY <1>2 DEF Regular, Pairs
<1>4. /\ l \in Seq(BaseDest) /\ l \in Seq(UdpStream) /\ m \in Seq(UdpStream)
      /\ UniqueIdsIn(l) /\ Halves(l, m)
  BY <1>1, <1>2, <1>3, PairFields DEF Pair, Regular, Destinations
<1>5. forwarding' = forwarding
  BY <1>2, <1>3, RegisteredAgain
<1>6. PICK x, y : x = addDestination(l, d) /\ y = addDestination(m, Rtcp(d))
  OBVIOUS
<1>7. x \in Seq(UdpStream) /\ y \in Seq(UdpStream) /\ UniqueIdsIn(x)
  BY <1>4, <1>6, BaseDestFacts, addDestinationCorrect
<1>8. x \in Seq(BaseDest) /\ Halves(x, y)
  BY <1>2, <1>4, <1>6, halvesAdded
<1>9. management' = [management EXCEPT ![id].dests = x, ![id + 1].dests = y]
  BY <1>2, <1>6
<1> QED BY <1>2, <1>5, <1>7, <1>8, <1>9, DestinationsReplaced

LEMMA removePairDestRegular ==
    ASSUME Inv, Regular, NEW id \in BaseId, NEW did \in Int, removePairDest(id, did)
    PROVE  Regular'
<1>1. PICK l, m : l = management[id].dests /\ m = management[id + 1].dests
  OBVIOUS
<1>2. /\ id \in srcIdWorker
      /\ existDestination(l, did) /\ existDestination(m, did + 1)
      /\ management' = [management EXCEPT ![id].dests = remDestination(l, did),
                                          ![id + 1].dests = remDestination(m, did + 1)]
      /\ forwarding' = [forwarding EXCEPT ![management[id].src] = id,
                                          ![management[id + 1].src] = id + 1]
      /\ UNCHANGED <<portListener, portFd, fdPort, sock>>
      /\ UNCHANGED <<srcIdWorker, crashed>>
  BY <1>1 DEF removePairDest
<1>3. Pair(id)
  BY <1>2 DEF Regular, Pairs
<1>4. /\ l \in Seq(BaseDest) /\ l \in Seq(UdpStream) /\ m \in Seq(UdpStream)
      /\ UniqueIdsIn(l) /\ Halves(l, m)
  BY <1>1, <1>2, <1>3, PairFields DEF Pair, Regular, Destinations
<1>5. forwarding' = forwarding
  BY <1>2, <1>3, RegisteredAgain
<1>6. PICK x, y : x = remDestination(l, did) /\ y = remDestination(m, did + 1)
  OBVIOUS
<1>7. x \in Seq(UdpStream) /\ y \in Seq(UdpStream) /\ UniqueIdsIn(x)
  BY <1>2, <1>4, <1>6, remDestinationCorrect
<1>8. x \in Seq(BaseDest) /\ Halves(x, y)
  BY <1>2, <1>4, <1>6, halvesRemoved
<1>9. management' = [management EXCEPT ![id].dests = x, ![id + 1].dests = y]
  BY <1>2, <1>6
<1> QED BY <1>2, <1>5, <1>7, <1>8, <1>9, DestinationsReplaced

\* A datagram from an address of no source writes a null pointer only where there
\* is no list.
LEMMA processRegular ==
    ASSUME Inv, Regular, NEW ip \in IP, NEW p \in Port, process(ip, p),
           UNCHANGED <<srcIdWorker, crashed, overlapped>>
    PROVE  Regular'
<1> USE DEF Regular
<1>1. PICK id : id = forwarding[<<ip, fdPort[portFd[p]]>>]
  OBVIOUS
<1>2. /\ UNCHANGED <<portListener, portFd, fdPort, sock>>
      /\ forwarding' = forwarding
      /\ \/ UNCHANGED management
         \/ ~ IsList(id) /\ management' = [management EXCEPT ![id] = Null]
  BY <1>1 DEF process
<1>3. management \in [ListId -> List \cup {Absent, Null}]
  BY DEF Inv, RtcpTypeOK
<1>4. Lists' = Lists /\ \A i \in Lists : management'[i] = management[i]
  BY <1>2, <1>3 DEF Lists, IsList
<1>5. sockets' = sockets
  BY <1>2, SocketsUnchanged
<1>6. Apart' /\ Pairs' /\ Routed' /\ Counted'
  BY <1>2, <1>4, <1>5, ShapeKept
<1>7. ASSUME NEW j \in srcIdWorker
      PROVE  management'[j] = management[j] /\ management'[j + 1] = management[j + 1]
  <2>1. HasPair(j) /\ j \in BaseId
    BY SourceFacts DEF Pairs, Pair
  <2> QED BY <1>4, <2>1, PairFields
<1>8. ASSUME NEW j \in srcIdWorker
      PROVE  /\ management'[j].dests \in Seq(BaseDest)
             /\ UniqueIdsIn(management'[j].dests)
             /\ Halves(management'[j].dests, management'[j + 1].dests)
  BY <1>7 DEF Destinations
<1>9. Destinations'
  BY <1>8 DEF Destinations, Halves, UniqueIdsIn
<1> QED BY <1>6, <1>9

LEMMA StepPair == PairInv /\ [RtcpNext]_rtcpVars => PairInv'
<1> SUFFICES ASSUME PairInv, [RtcpNext]_rtcpVars, ~ overlapped'
             PROVE  Regular'
  BY StepInv DEF PairInv
<1>1. ASSUME NEW id \in BaseId, NEW ip \in IP, NEW p \in BasePort, addPair(id, <<ip, p>>)
      PROVE  Regular'
  BY <1>1, addPairRegular
<1>2. ASSUME ~ overlapped
      PROVE  Inv /\ Regular
  BY <1>2 DEF PairInv
<1>3. ASSUME NEW id \in BaseId, removePair(id)
      PROVE  Regular'
  <2>1. ~ overlapped
    BY <1>3 DEF removePair
  <2> QED BY <1>2, <1>3, <2>1, removePairRegular
<1>4. ASSUME NEW id \in BaseId, nullList(id)
      PROVE  Regular'
  <2>1. ~ overlapped /\ id \in srcIdWorker /\ ~ HasPair(id)
    BY <1>4 DEF nullList
  <2> QED BY <1>2, <2>1 DEF Regular, Pairs, Pair
<1>5. ASSUME NEW id \in BaseId, NEW d \in BaseDest, addPairDest(id, d)
      PROVE  Regular'
  <2>1. ~ overlapped
    BY <1>5 DEF addPairDest
  <2> QED BY <1>2, <1>5, <2>1, addPairDestRegular
<1>6. ASSUME NEW id \in BaseId, NEW d \in BaseDest, removePairDest(id, d.id)
      PROVE  Regular'
  <2>1. ~ overlapped
    BY <1>6 DEF removePairDest
  <2>2. d.id \in Int
    BY BaseDestFacts
  <2> QED BY <1>2, <1>6, <2>1, <2>2, removePairDestRegular
<1>7. ASSUME NEW ip \in IP, NEW p \in Port, process(ip, p),
             UNCHANGED <<srcIdWorker, crashed, overlapped>>
      PROVE  Regular'
  <2>1. ~ overlapped
    BY <1>7
  <2> QED BY <1>2, <1>7, <2>1, processRegular
<1>8. CASE UNCHANGED rtcpVars
  <2>1. UNCHANGED <<portListener, portFd, fdPort, management, forwarding, sock,
                    srcIdWorker, crashed, overlapped>>
    BY <1>8 DEF rtcpVars, vars, tables
  <2>2. Inv /\ Regular
    BY <1>2, <2>1
  <2>3. sockets' = sockets /\ Lists' = Lists
    BY <2>1 DEF sockets, Lists, IsList
  <2>4. Apart' /\ Pairs' /\ Routed' /\ Counted'
    BY <2>1, <2>2, <2>3, ShapeKept DEF Regular
  <2>5. Destinations'
    BY <2>1, <2>2 DEF Regular, Destinations, Halves, UniqueIdsIn
  <2> QED BY <2>4, <2>5 DEF Regular
<1> QED BY <1>1, <1>3, <1>4, <1>5, <1>6, <1>7, <1>8 DEF RtcpNext

-----------------------------------------------------------------------------
\* A source of the Manager has both its lists under its address and the next one, so
\* that no operation on it dereferences a null list: for every number of sources,
\* ports and descriptors and any failure to open a socket.
THEOREM PairsTheorem == RtcpSpec => []PairsComplete
<1>1. PairInv => PairsComplete
  <2> SUFFICES ASSUME Regular
               PROVE  /\ ~ crashed
                      /\ \A id \in srcIdWorker :
                          /\ HasPair(id)
                          /\ LET a == management[id].src
                             IN  /\ management[id + 1].src = <<a[1], PortOf(a) + 1>>
                                 /\ forwarding[a] = id
                                 /\ forwarding[management[id + 1].src] = id + 1
                      /\ Lists \subseteq srcIdWorker \cup {id + 1 : id \in srcIdWorker}
                      /\ \A a \in Addr : forwarding[a] # 0 =>
                            /\ IsList(forwarding[a])
                            /\ management[forwarding[a]].src = a
    BY DEF PairInv, PairsComplete
  <2> QED BY DEF Regular, Pairs, Pair, Routed
<1> QED BY <1>1, InitPair, StepPair, PTL DEF RtcpSpec

\* A port is open exactly while a list has it, with counts that are off by one on
\* the odd port and after it is closed.
THEOREM PortsTheorem == RtcpSpec => []PortsExact
<1>1. PairInv => PortsExact
  <2> SUFFICES ASSUME Inv, Regular, NEW p \in Port
               PROVE  portFd[p] # NoFd <=> ListsOn(p) # {}
    BY DEF PairInv, PortsExact
  <2> USE DEF Regular
  <2>1. sockets.portFd = portFd
    BY DEF sockets
  <2>2. ASSUME NEW i \in Lists
        PROVE  \E id \in srcIdWorker : \/ i = id
                                       \/ i = id + 1 /\ PortOf(management[i].src)
                                                          = PortOf(management[id].src) + 1
    <3>1. PICK id \in srcIdWorker : i = id \/ i = id + 1
      BY DEF Pairs
    <3>2. PortOf(management[id + 1].src) = PortOf(management[id].src) + 1
      BY DEF Pairs, Pair, PortOf
    <3> QED BY <3>1, <3>2
  <2>3. \A id \in srcIdWorker : /\ PortOf(management[id].src) \in Even
                                /\ id \in Lists /\ id + 1 \in Lists
                                /\ PortOf(management[id + 1].src) = PortOf(management[id].src) + 1
    BY SourceFacts DEF Pairs, Pair, PortOf, HasPair, Lists
  <2>4. \A q \in Even : /\ On(q) = {} => portFd[q] = NoFd /\ portFd[q + 1] = NoFd
                        /\ On(q) # {} => portFd[q] # NoFd /\ portFd[q + 1] # NoFd
    <3>1. SUFFICES ASSUME NEW q \in Even
                   PROVE  /\ On(q) = {} => portFd[q] = NoFd /\ portFd[q + 1] = NoFd
                          /\ On(q) # {} => portFd[q] # NoFd /\ portFd[q + 1] # NoFd
      OBVIOUS
    <3>2. PairCount(sockets, q, Cardinality(On(q)))
      BY DEF Counted
    <3>3. Cardinality(On(q)) = 0 <=> On(q) = {}
      BY OnIsFinite, FS_EmptySet
    <3> QED BY <2>1, <3>2, <3>3 DEF PairCount
  <2>5. CASE p \in Even
    <3>1. ListsOn(p) # {} <=> On(p) # {}
      <4>1. \A id \in On(p) : id \in ListsOn(p)
        BY <2>3 DEF On, ListsOn
      <4>2. ASSUME NEW i \in ListsOn(p)
            PROVE  i \in On(p)
        <5>1. i \in Lists /\ PortOf(management[i].src) = p
          BY DEF ListsOn
        <5>2. PICK id \in srcIdWorker : \/ i = id
                                        \/ i = id + 1 /\ PortOf(management[i].src)
                                                           = PortOf(management[id].src) + 1
          BY <2>2, <5>1
        <5>3. i = id
          BY <2>3, <2>5, <5>1, <5>2, EvenFacts
        <5> QED BY <5>1, <5>3 DEF On
      <4> QED BY <4>1, <4>2
    <3> QED BY <2>4, <2>5, <3>1
  <2>6. CASE p \notin Even /\ p - 1 \in Even
    <3>1. p \in Nat /\ (p - 1) + 1 = p
      BY Values
    <3>2. ListsOn(p) # {} <=> On(p - 1) # {}
      <4>1. ASSUME NEW id \in On(p - 1)
            PROVE  id + 1 \in ListsOn(p)
        BY <2>3, <3>1 DEF On, ListsOn
      <4>2. ASSUME NEW i \in ListsOn(p)
            PROVE  \E id \in srcIdWorker : id \in On(p - 1)
        <5>1. i \in Lists /\ PortOf(management[i].src) = p
          BY DEF ListsOn
        <5>2. PICK id \in srcIdWorker : \/ i = id
                                        \/ i = id + 1 /\ PortOf(management[i].src)
                                                           = PortOf(management[id].src) + 1
          BY <2>2, <5>1
        <5>3. p = PortOf(management[id].src) + 1
          BY <2>3, <2>6, <5>1, <5>2
        <5>4. PortOf(management[id].src) \in Nat
          BY <2>3, EvenFacts, Values
        <5> QED BY <5>3, <5>4 DEF On
      <4> QED BY <4>1, <4>2
    <3> QED BY <2>4, <2>6, <3>1, <3>2
  <2>7. CASE p \notin Even /\ p - 1 \notin Even
    <3>1. portFd[p] = NoFd
      BY <2>7 DEF Counted
    <3>2. ASSUME NEW i \in ListsOn(p)
          PROVE  FALSE
      <4>1. i \in Lists /\ PortOf(management[i].src) = p
        BY DEF ListsOn
      <4>2. PICK id \in srcIdWorker : \/ i = id
                                      \/ i = id + 1 /\ PortOf(management[i].src)
                                                         = PortOf(management[id].src) + 1
        BY <2>2, <4>1
      <4>3. PortOf(management[id].src) \in Even /\ PortOf(management[id].src) \in Nat
        BY <2>3, EvenFacts, Values
      <4>4. p = PortOf(management[id].src) + 1
        BY <2>7, <4>1, <4>2, <4>3
      <4>5. p - 1 = PortOf(management[id].src)
        BY <4>3, <4>4
      <4> QED BY <2>7, <4>3, <4>5
    <3> QED BY <3>1, <3>2
  <2> QED BY <2>5, <2>6, <2>7
<1> QED BY <1>1, InitPair, StepPair, PTL DEF RtcpSpec

\* The two lists of a source have the two halves of the same destinations, in the
\* same order: no call adds or removes one half.
THEOREM DestinationsTheorem == RtcpSpec => []DestinationsPaired
<1>1. PairInv => DestinationsPaired
  BY DEF PairInv, Regular, Destinations, Halves, DestinationsPaired
<1> QED BY <1>1, InitPair, StepPair, PTL DEF RtcpSpec

\* A datagram is sent only to the destinations of the list whose source it came
\* from: a stranger's lookup yields 0, which is no list of this worker.
THEOREM StrangersTheorem ==
    RtcpSpec => [][\A ip \in IP, p \in Port :
                    process(ip, p) /\ ~ overlapped /\ out'.to # << >> =>
                        \E id \in Lists : /\ management[id].src = out'.from
                                          /\ management[id].dests = out'.to]_rtcpVars
<1>1. ASSUME PairInv, NEW ip \in IP, NEW p \in Port, process(ip, p), ~ overlapped,
             out'.to # << >>
      PROVE  \E id \in Lists : management[id].src = out'.from /\ management[id].dests = out'.to
  <2>1. Inv /\ Regular
    BY <1>1 DEF PairInv
  <2>2. PICK a, id : a = <<ip, fdPort[portFd[p]]>> /\ id = forwarding[a]
    OBVIOUS
  <2>3. /\ portFd[p] # NoFd
        /\ \/ IsList(id) /\ out' = [from |-> a, to |-> management[id].dests]
           \/ out' = [from |-> a, to |-> << >>]
    BY <1>1, <2>2 DEF process
  <2>4. IsList(id) /\ out' = [from |-> a, to |-> management[id].dests]
    BY <1>1, <2>3
  <2>5. fdPort[portFd[p]] = p
    BY <2>1, <2>3, AgreeIsInverse DEF Inv, TablesInverse
  <2>6. a \in Addr /\ id \in ListId
    BY <2>1, <2>2, <2>5, AddrFields DEF Inv, RtcpTypeOK
  <2>7. id \in Lists
    BY <2>4, <2>6 DEF Lists
  <2>8. PICK j \in srcIdWorker : id \in {j, j + 1}
    BY <2>1, <2>7 DEF Regular, Pairs
  <2>9. id # 0
    BY <2>1, <2>8, SourceFacts
  <2>10. management[id].src = a
    BY <2>1, <2>2, <2>6, <2>9 DEF Regular, Routed
  <2> QED BY <2>4, <2>7, <2>10
<1>2. PairInv => [\A ip \in IP, p \in Port :
                    process(ip, p) /\ ~ overlapped /\ out'.to # << >> =>
                        \E id \in Lists : /\ management[id].src = out'.from
                                          /\ management[id].dests = out'.to]_rtcpVars
  BY <1>1
<1> QED BY <1>2, InitPair, StepPair, PTL DEF RtcpSpec

\* A port whose listener count lets add_socket return 0 is open, when the caller
\* keeps to even ports and to identifiers that are not next to one in use.
THEOREM CountedTheorem ==
    RtcpSpec => [][\A id \in BaseId, ip \in IP, p \in BasePort :
                    addPair(id, <<ip, p>>) /\ ~ overlapped' /\ portListener[p] # 0
                        => portFd[p] # NoFd]_rtcpVars
<1>1. ASSUME PairInv, NEW id \in BaseId, NEW ip \in IP, NEW p \in BasePort,
             addPair(id, <<ip, p>>), ~ overlapped', portListener[p] # 0
      PROVE  portFd[p] # NoFd
  <2>1. ~ overlapped /\ p % 2 # 1
    BY <1>1 DEF addPair, PortOf
  <2>2. p \in Even
    <3>1. p \in Nat
      BY BaseFacts, Values
    <3>2. p % 2 = 0
      BY <2>1, <3>1
    <3> QED BY <3>2 DEF Even
  <2>3. PairCount(sockets, p, Cardinality(On(p)))
    BY <1>1, <2>1, <2>2 DEF PairInv, Regular, Counted
  <2>4. sockets.listener = portListener /\ sockets.portFd = portFd
    BY DEF sockets
  <2> QED BY <1>1, <2>3, <2>4 DEF PairCount
<1>2. PairInv => [\A id \in BaseId, ip \in IP, p \in BasePort :
                    addPair(id, <<ip, p>>) /\ ~ overlapped' /\ portListener[p] # 0
                        => portFd[p] # NoFd]_rtcpVars
  BY <1>1
<1> QED BY <1>2, InitPair, StepPair, PTL DEF RtcpSpec

-----------------------------------------------------------------------------
(* The worker implements PairReflector.                                    *)

PairRoute(id) == [src |-> management[id].src, dests |-> ToSet(management[id].dests)]

\* A source of the Manager has both its lists, so each has a route, and no other
\* identifier has one: before a step, and after it.
LEMMA RoutesBefore ==
    ASSUME Regular
    PROVE  pairRoutes = [id \in BaseId |-> IF id \in srcIdWorker THEN PairRoute(id) ELSE Absent]
BY DEF Regular, Pairs, Pair, pairRoutes, PairRoute

LEMMA RoutesAfter ==
    ASSUME Regular'
    PROVE  pairRoutes'
             = [id \in BaseId |-> IF id \in srcIdWorker' THEN PairRoute(id)' ELSE Absent]
BY DEF Regular, Pairs, Pair, pairRoutes, PairRoute

\* A route is a record, so it is no missing key.
LEMMA RouteIsRoute ==
    ASSUME Inv, Regular, NEW id \in srcIdWorker
    PROVE  /\ PairRoute(id) # Absent
           /\ PairRoute(id).src = management[id].src
           /\ PairRoute(id).dests = ToSet(management[id].dests)
<1>1. id \in BaseId /\ HasPair(id)
  BY SourceFacts DEF Regular, Pairs, Pair
<1>2. management[id].src \in Addr /\ management[id].dests \in Seq(UdpStream)
  BY <1>1, PairFields
<1>3. ToSet(management[id].dests) \subseteq UdpStream
  BY <1>2, LenProperties, ElementOfSeq DEF ToSet
<1>4. PairRoute(id) \in [src : Addr, dests : SUBSET UdpStream]
  BY <1>2, <1>3 DEF PairRoute
<1> QED BY <1>4, WorkerAssumption DEF PairRoute

\* What is registered is what the Manager has here, and the ends of a source are the
\* addresses of its two lists.
LEMMA RouteOfPair ==
    ASSUME Inv, Regular, NEW id \in BaseId
    PROVE  /\ PR!Registered(id) <=> id \in srcIdWorker
           /\ id \in srcIdWorker =>
                /\ pairRoutes[id] = PairRoute(id)
                /\ pairRoutes[id].src = management[id].src
                /\ pairRoutes[id].dests = ToSet(management[id].dests)
                /\ PR!Above(management[id].src) = management[id + 1].src
                /\ PR!Ends(id) = {management[id].src, management[id + 1].src}
<1>1. pairRoutes[id] = IF id \in srcIdWorker THEN PairRoute(id) ELSE Absent
  BY RoutesBefore
<1>2. ASSUME id \in srcIdWorker
      PROVE  /\ pairRoutes[id] = PairRoute(id) /\ pairRoutes[id] # Absent
             /\ pairRoutes[id].src = management[id].src
             /\ pairRoutes[id].dests = ToSet(management[id].dests)
  BY <1>1, <1>2, RouteIsRoute
<1>3. ASSUME id \in srcIdWorker
      PROVE  PR!Above(management[id].src) = management[id + 1].src
  BY <1>3 DEF Regular, Pairs, Pair, PR!Above, PortOf
<1> QED BY <1>1, <1>2, <1>3 DEF PR!Registered, PR!Ends

\* A step that leaves the RTP lists of the other sources alone changes one route.
LEMMA OneRouteChanged ==
    ASSUME Regular, Regular', NEW id \in BaseId,
           \A j \in BaseId : j # id => /\ j \in srcIdWorker' <=> j \in srcIdWorker
                                       /\ j \in srcIdWorker => management'[j] = management[j]
    PROVE  pairRoutes' = [pairRoutes EXCEPT ![id] = IF id \in srcIdWorker'
                                                    THEN PairRoute(id)' ELSE Absent]
<1>1. \A j \in BaseId : pairRoutes[j] = IF j \in srcIdWorker THEN PairRoute(j) ELSE Absent
  BY RoutesBefore
<1>2. pairRoutes' = [j \in BaseId |-> IF j \in srcIdWorker' THEN PairRoute(j)' ELSE Absent]
  BY RoutesAfter
<1>3. ASSUME NEW j \in BaseId, j # id
      PROVE  (IF j \in srcIdWorker' THEN PairRoute(j)' ELSE Absent) = pairRoutes[j]
  BY <1>1, <1>3 DEF PairRoute
<1>4. DOMAIN pairRoutes = BaseId
  BY DEF pairRoutes
<1> HIDE DEF PairRoute
<1> QED BY <1>2, <1>3, <1>4

\* addSource registers the source under its RTP address, or is refused.
LEMMA addPairRegisters ==
    ASSUME Inv, Regular, Regular', NEW id \in BaseId, NEW ip \in IP, NEW p \in BasePort,
           addPair(id, <<ip, p>>), ~ overlapped'
    PROVE  PR!Register(id, <<ip, p>>) \/ PR!Refuse
<1>1. PICK a, b : a = <<ip, p>> /\ b = <<ip, p + 1>>
  OBVIOUS
<1>2. a \in Addr /\ b \in Addr /\ PortOf(a) = p /\ a[1] = ip /\ a[2] = p
  BY <1>1, BaseFacts, AddrFields DEF PortOf
<1>3. /\ id \notin srcIdWorker
      /\ forwarding[a] = 0 /\ forwarding[b] = 0
      /\ id + 1 \notin srcIdWorker
      /\ out' = NoPacket
      /\ \/ /\ management' = [management EXCEPT ![id] = [src |-> a, dests |-> << >>],
                                                ![id + 1] = [src |-> b, dests |-> << >>]]
            /\ srcIdWorker' = srcIdWorker \cup {id}
         \/ UNCHANGED <<management, srcIdWorker>>
  BY <1>1, <1>2, Zenon DEF addPair
<1>4. sent' = NoPacket
  BY <1>3 DEF sent
<1>5. CASE UNCHANGED <<management, srcIdWorker>>
  <2>1. pairRoutes' = pairRoutes
    BY <1>5 DEF pairRoutes, HasPair, IsList
  <2> QED BY <1>4, <2>1 DEF PR!Refuse
<1>6. CASE /\ management' = [management EXCEPT ![id] = [src |-> a, dests |-> << >>],
                                               ![id + 1] = [src |-> b, dests |-> << >>]]
           /\ srcIdWorker' = srcIdWorker \cup {id}
  <2>1. /\ management \in [ListId -> List \cup {Absent, Null}]
        /\ id \in ListId /\ id + 1 \in ListId /\ id # id + 1
    BY BaseFacts DEF Inv, RtcpTypeOK
  <2>2. management'[id] = [src |-> a, dests |-> << >>]
    BY <1>6, <2>1
  <2>3. PairRoute(id)' = [src |-> a, dests |-> {}]
    <3>1. ToSet(<< >>) = {}
      BY DEF ToSet
    <3>2. management'[id].src = a /\ management'[id].dests = << >>
      BY <2>2
    <3> QED BY <3>1, <3>2 DEF PairRoute
  <2>4. ASSUME NEW j \in srcIdWorker
        PROVE  management'[j] = management[j]
    <3>1. j \in ListId /\ j # id /\ j # id + 1
      BY <1>3, SourceFacts
    <3> QED BY <1>6, <2>1, <3>1
  <2>5. pairRoutes' = [pairRoutes EXCEPT ![id] = [src |-> a, dests |-> {}]]
    <3>1. id \in srcIdWorker'
      BY <1>6
    <3>2. pairRoutes' = [pairRoutes EXCEPT ![id] = IF id \in srcIdWorker'
                                                   THEN PairRoute(id)' ELSE Absent]
      BY <1>6, <2>4, OneRouteChanged
    <3> QED BY <2>3, <3>1, <3>2, Zenon
  <2>6. ~ PR!Registered(id)
    BY <1>3, RouteOfPair
  <2>7. ASSUME NEW i \in BaseId, PR!Registered(i)
        PROVE  {a, PR!Above(a)} \cap PR!Ends(i) = {}
    <3>1. /\ i \in srcIdWorker
          /\ PR!Ends(i) = {management[i].src, management[i + 1].src}
      BY <2>7, RouteOfPair
    <3>2. forwarding[management[i].src] # 0 /\ forwarding[management[i + 1].src] # 0
      BY <3>1, SourceFacts DEF Regular, Pairs, Pair
    <3>3. PR!Above(a) = b
      BY <1>1, <1>2 DEF PR!Above
    <3> QED BY <1>3, <3>1, <3>2, <3>3
  <2>8. PR!Register(id, a)
    BY <1>4, <2>5, <2>6, <2>7 DEF PR!Register
  <2> QED BY <1>1, <2>8
<1> QED BY <1>3, <1>5, <1>6

\* removeSource removes the source with its destinations.
LEMMA removePairUnregisters ==
    ASSUME Inv, Regular, Regular', NEW id \in BaseId, removePair(id)
    PROVE  PR!Unregister(id)
<1>1. /\ id \in srcIdWorker
      /\ management' = [management EXCEPT ![id] = Absent, ![id + 1] = Absent]
      /\ srcIdWorker' = srcIdWorker \ {id}
      /\ out' = NoPacket
  BY DEF removePair
<1>2. /\ management \in [ListId -> List \cup {Absent, Null}]
      /\ id \in ListId /\ id + 1 \in ListId
  BY BaseFacts DEF Inv, RtcpTypeOK
<1>3. ASSUME NEW j \in srcIdWorker, j # id
      PROVE  management'[j] = management[j]
  <2>1. j \in ListId /\ j # id + 1
    BY <1>1, SourceFacts DEF Regular, Apart
  <2> QED BY <1>1, <1>2, <1>3, <2>1
<1>4. pairRoutes' = [pairRoutes EXCEPT ![id] = Absent]
  <2>1. id \notin srcIdWorker'
    BY <1>1
  <2>2. pairRoutes' = [pairRoutes EXCEPT ![id] = IF id \in srcIdWorker'
                                                 THEN PairRoute(id)' ELSE Absent]
    BY <1>1, <1>3, OneRouteChanged
  <2> QED BY <2>1, <2>2, Zenon
<1> QED BY <1>1, <1>4, RouteOfPair DEF PR!Unregister, sent

\* Other destinations in the two lists of a source are other destinations of its route.
LEMMA DestinationsOfRoute ==
    ASSUME Inv, Regular, Regular', NEW id \in BaseId, id \in srcIdWorker,
           NEW x \in Seq(UdpStream), NEW y \in Seq(UdpStream),
           management' = [management EXCEPT ![id].dests = x, ![id + 1].dests = y],
           srcIdWorker' = srcIdWorker
    PROVE  pairRoutes' = [pairRoutes EXCEPT ![id].dests = ToSet(x)]
<1>1. HasPair(id)
  BY DEF Regular, Pairs, Pair
<1>2. ASSUME NEW j \in srcIdWorker, j # id
      PROVE  management'[j] = management[j]
  <2>1. j \in ListId /\ j # id + 1
    BY SourceFacts DEF Regular, Apart
  <2> QED BY <1>1, <1>2, <2>1, TwoLists
<1>3. management'[id].src = management[id].src /\ management'[id].dests = x
  BY <1>1, TwoLists
<1>4. PairRoute(id)' = [src |-> management[id].src, dests |-> ToSet(x)]
  BY <1>3 DEF PairRoute
<1>5. pairRoutes' = [pairRoutes EXCEPT ![id] = [src |-> management[id].src, dests |-> ToSet(x)]]
  <2>1. pairRoutes' = [pairRoutes EXCEPT ![id] = IF id \in srcIdWorker'
                                                 THEN PairRoute(id)' ELSE Absent]
    BY <1>2, OneRouteChanged
  <2> QED BY <1>4, <2>1, Zenon
<1>6. [pairRoutes[id] EXCEPT !.dests = ToSet(x)]
        = [src |-> management[id].src, dests |-> ToSet(x)]
  <2>1. pairRoutes[id] = [src |-> management[id].src, dests |-> ToSet(management[id].dests)]
    BY RouteOfPair DEF PairRoute
  <2> QED BY <2>1
<1> QED BY <1>5, <1>6

\* addDestination to both lists is one destination more for the route.
LEMMA addPairDestAttaches ==
    ASSUME Inv, Regular, Regular', NEW id \in BaseId, NEW d \in BaseDest, addPairDest(id, d)
    PROVE  PR!Attach(id, d)
<1>1. PICK l, m : l = management[id].dests /\ m = management[id + 1].dests
  OBVIOUS
<1>2. PICK x, y : x = addDestination(l, d) /\ y = addDestination(m, Rtcp(d))
  OBVIOUS
<1>3. /\ id \in srcIdWorker /\ HasPair(id) /\ ~ existDestination(l, d.id)
      /\ management' = [management EXCEPT ![id].dests = x, ![id + 1].dests = y]
      /\ srcIdWorker' = srcIdWorker
      /\ out' = NoPacket
  BY <1>1, <1>2, Zenon DEF addPairDest
<1>4. l \in Seq(UdpStream) /\ m \in Seq(UdpStream)
  BY <1>1, <1>3, PairFields
<1>5. x \in Seq(UdpStream) /\ y \in Seq(UdpStream) /\ ToSet(x) = ToSet(l) \cup {d}
  <2>1. d \in UdpStream /\ Rtcp(d) \in UdpStream
    BY BaseDestFacts
  <2>2. x \in Seq(UdpStream) /\ ToSet(x) = ToSet(l) \cup {d}
    <3>1. l \in Seq(UdpStream) /\ ~ existDestination(l, d.id) /\ x = addDestination(l, d)
      BY <1>2, <1>3, <1>4
    <3>2. addDestination(l, d) \in Seq(UdpStream)
      BY <2>1, <3>1, addDestinationCorrect
    <3>3. ToSet(addDestination(l, d)) = ToSet(l) \cup {d}
      BY <2>1, <3>1, addDestinationCorrect, SMTT(30)
    <3> QED BY <3>1, <3>2, <3>3, Zenon
  <2>3. y \in Seq(UdpStream)
    BY <1>2, <1>4, <2>1, addDestinationCorrect
  <2> QED BY <2>2, <2>3
<1>6. pairRoutes' = [pairRoutes EXCEPT ![id].dests = ToSet(x)]
  BY <1>3, <1>5, DestinationsOfRoute
<1>7. PR!Registered(id) /\ pairRoutes[id].dests = ToSet(l)
  BY <1>1, <1>3, RouteOfPair
<1>8. \A e \in ToSet(l) : e.id # d.id
  BY <1>3, <1>4, LenProperties DEF existDestination, ToSet
<1>9. sent' = NoPacket
  BY <1>3 DEF sent
<1> QED BY <1>5, <1>6, <1>7, <1>8, <1>9 DEF PR!Attach

\* removeDestination from both lists takes one destination from the route.
LEMMA removePairDestDetaches ==
    ASSUME Inv, Regular, Regular', NEW id \in BaseId, NEW d, removePairDest(id, d.id)
    PROVE  PR!Detach(id, d)
<1>1. PICK l, m : l = management[id].dests /\ m = management[id + 1].dests
  OBVIOUS
<1>2. PICK x, y : x = remDestination(l, d.id) /\ y = remDestination(m, d.id + 1)
  OBVIOUS
<1>3. /\ id \in srcIdWorker /\ HasPair(id)
      /\ existDestination(l, d.id) /\ existDestination(m, d.id + 1)
      /\ management' = [management EXCEPT ![id].dests = x, ![id + 1].dests = y]
      /\ srcIdWorker' = srcIdWorker
      /\ out' = NoPacket
  BY <1>1, <1>2, Zenon DEF removePairDest
<1>4. l \in Seq(UdpStream) /\ m \in Seq(UdpStream)
  BY <1>1, <1>3, PairFields
<1>5. UniqueIdsIn(l)
  BY <1>1, <1>3 DEF Regular, Destinations
<1>6. x \in Seq(UdpStream) /\ y \in Seq(UdpStream)
  BY <1>2, <1>3, <1>4, remDestinationCorrect
<1>7. ToSet(x) = {e \in ToSet(l) : e.id # d.id}
  BY <1>2, <1>3, <1>4, <1>5, remDestinationCorrect
<1>8. pairRoutes' = [pairRoutes EXCEPT ![id].dests = ToSet(x)]
  BY <1>3, <1>6, DestinationsOfRoute
<1>9. PR!Registered(id) /\ pairRoutes[id].dests = ToSet(l)
  BY <1>1, <1>3, RouteOfPair
<1>10. sent' = NoPacket
  BY <1>3 DEF sent
<1> QED BY <1>7, <1>8, <1>9, <1>10 DEF PR!Detach

\* The halves of a list, read as a set.
LEMMA HalvesAsSet ==
    ASSUME NEW l \in Seq(BaseDest), NEW m \in Seq(UdpStream), Halves(l, m)
    PROVE  ToSet(m) = {PR!Half(d) : d \in ToSet(l)}
<1>1. DOMAIN l = 1..Len(l) /\ DOMAIN m = 1..Len(l)
  BY LenProperties DEF Halves
<1>2. \A i \in 1..Len(l) : m[i] = PR!Half(l[i])
  BY DEF Halves, Rtcp, PR!Half
<1> HIDE DEF PR!Half
<1> QED BY <1>1, <1>2 DEF ToSet

\* What process sends is a value of out.
LEMMA SentIs ==
    ASSUME NEW a \in Addr, NEW ds \in Seq(UdpStream), out' = [from |-> a, to |-> ds]
    PROVE  sent' = [from |-> a, to |-> ToSet(ds)]
<1>1. out' # NoPacket /\ out'.from = a /\ out'.to = ds
  BY WorkerAssumption
<1> QED BY <1>1 DEF sent

\* A datagram goes to the destinations of its sender, or to their RTCP halves, or
\* its sender is nobody's source.
LEMMA processReflects ==
    ASSUME Inv, Regular, Regular', NEW ip \in IP, NEW p \in Port, process(ip, p),
           UNCHANGED <<srcIdWorker, crashed, overlapped>>
    PROVE  \/ \E id \in BaseId : PR!ReflectRtp(id) \/ PR!ReflectRtcp(id)
           \/ \E a \in Addr : PR!Drop(a)
<1>1. PICK a, id : a = <<ip, fdPort[portFd[p]]>> /\ id = forwarding[a]
  OBVIOUS
<1>2. /\ portFd[p] # NoFd
      /\ \/ /\ IsList(id)
            /\ out' = [from |-> a, to |-> management[id].dests]
            /\ UNCHANGED management
         \/ /\ ~ IsList(id)
            /\ out' = [from |-> a, to |-> << >>]
            /\ management' = [management EXCEPT ![id] = Null]
  BY <1>1 DEF process
<1>3. fdPort[portFd[p]] = p
  BY <1>2, AgreeIsInverse DEF Inv, TablesInverse
<1>4. a \in Addr /\ id \in ListId
  BY <1>1, <1>3, AddrFields DEF Inv, RtcpTypeOK
<1>5. UNCHANGED pairRoutes
  <2>1. management \in [ListId -> List \cup {Absent, Null}]
    BY DEF Inv, RtcpTypeOK
  <2>2. ASSUME NEW j \in srcIdWorker
        PROVE  management'[j] = management[j]
    <3>1. j \in ListId /\ IsList(j)
      BY SourceFacts DEF Regular, Pairs, Pair, HasPair
    <3> QED BY <1>2, <2>1, <3>1
  <2>3. \A j \in srcIdWorker : PairRoute(j)' = PairRoute(j)
    BY <2>2 DEF PairRoute
  <2> HIDE DEF PairRoute
  <2> QED BY <2>3, RoutesBefore, RoutesAfter
<1>6. CASE IsList(id)
  <2>1. id \in Lists
    BY <1>4, <1>6 DEF Lists
  <2>2. PICK j \in srcIdWorker : id = j \/ id = j + 1
    BY <2>1 DEF Regular, Pairs
  <2>3. j \in BaseId /\ HasPair(j) /\ id # 0
    BY <2>2, SourceFacts DEF Regular, Pairs, Pair
  <2>4. management[id].src = a
    BY <1>1, <1>4, <2>3 DEF Regular, Routed
  <2>5. management[id].dests \in Seq(UdpStream)
    BY <2>2, <2>3, PairFields
  <2>6. sent' = [from |-> a, to |-> ToSet(management[id].dests)]
    BY <1>2, <1>4, <1>6, <2>5, SentIs
  <2>7. /\ PR!Registered(j)
        /\ pairRoutes[j].src = management[j].src
        /\ pairRoutes[j].dests = ToSet(management[j].dests)
        /\ PR!Above(management[j].src) = management[j + 1].src
    BY <2>3, RouteOfPair
  <2>8. CASE id = j
    <3>1. PR!ReflectRtp(j)
      BY <1>5, <2>4, <2>6, <2>7, <2>8 DEF PR!ReflectRtp
    <3> QED BY <2>3, <3>1
  <2>9. CASE id = j + 1
    <3>1. management[j].dests \in Seq(BaseDest) /\ Halves(management[j].dests, management[id].dests)
      BY <2>9 DEF Regular, Destinations
    <3>2. ToSet(management[id].dests) = {PR!Half(d) : d \in pairRoutes[j].dests}
      BY <2>5, <2>7, <3>1, HalvesAsSet
    <3>3. PR!Above(pairRoutes[j].src) = a
      BY <2>4, <2>7, <2>9
    <3>4. PR!ReflectRtcp(j)
      BY <1>5, <2>6, <2>7, <3>2, <3>3, Zenon DEF PR!ReflectRtcp
    <3> QED BY <2>3, <3>4
  <2> QED BY <2>2, <2>8, <2>9
<1>7. CASE ~ IsList(id)
  <2>1. sent' = [from |-> a, to |-> {}]
    <3>1. << >> \in Seq(UdpStream) /\ ToSet(<< >>) = {}
      BY DEF ToSet
    <3>2. out' = [from |-> a, to |-> << >>]
      BY <1>2, <1>7
    <3> QED BY <1>4, <3>1, <3>2, SentIs
  <2>2. ASSUME NEW i \in BaseId, PR!Registered(i)
        PROVE  a \notin PR!Ends(i)
    <3>1. i \in srcIdWorker /\ PR!Ends(i) = {management[i].src, management[i + 1].src}
      BY <2>2, RouteOfPair
    <3>2. /\ IsList(i) /\ IsList(i + 1)
          /\ forwarding[management[i].src] = i /\ forwarding[management[i + 1].src] = i + 1
      BY <3>1 DEF Regular, Pairs, Pair, HasPair
    <3> QED BY <1>1, <1>7, <3>1, <3>2
  <2>3. PR!Drop(a)
    BY <1>5, <2>1, <2>2 DEF PR!Drop
  <2> QED BY <1>4, <2>3
<1> QED BY <1>6, <1>7

\* Every step of a worker whose callers keep apart is a step of PairReflector or changes
\* nothing of it.
LEMMA PairReflectorStep ==
    ASSUME PairInv, [RtcpNext]_rtcpVars
    PROVE  [overlapped' \/ PR!Next]_(PR!vars)
<1> SUFFICES ASSUME ~ overlapped'
             PROVE  PR!Next \/ UNCHANGED PR!vars
  OBVIOUS
<1>1. Regular' /\ (~ overlapped => Inv /\ Regular) /\ Inv
  BY StepPair DEF PairInv
<1>2. ASSUME NEW id \in BaseId, NEW ip \in IP, NEW p \in BasePort, addPair(id, <<ip, p>>)
      PROVE  PR!Next
  <2>1. ~ overlapped
    BY <1>2 DEF addPair
  <2>2. <<ip, p>> \in Addr
    BY BaseFacts, AddrFields
  <2>3. PR!Register(id, <<ip, p>>) \/ PR!Refuse
    BY <1>1, <1>2, <2>1, addPairRegisters
  <2> QED BY <2>2, <2>3 DEF PR!Next
<1>3. ASSUME NEW id \in BaseId, removePair(id)
      PROVE  PR!Next
  <2>1. ~ overlapped
    BY <1>3 DEF removePair
  <2>2. PR!Unregister(id)
    BY <1>1, <1>3, <2>1, removePairUnregisters
  <2> QED BY <2>2 DEF PR!Next
<1>4. ASSUME NEW id \in BaseId, nullList(id)
      PROVE  FALSE
  <2>1. ~ overlapped /\ id \in srcIdWorker /\ ~ HasPair(id)
    BY <1>4 DEF nullList
  <2> QED BY <1>1, <2>1 DEF Regular, Pairs, Pair
<1>5. ASSUME NEW id \in BaseId, NEW d \in BaseDest, addPairDest(id, d)
      PROVE  PR!Next
  <2>1. ~ overlapped
    BY <1>5 DEF addPairDest
  <2>2. PR!Attach(id, d)
    BY <1>1, <1>5, <2>1, addPairDestAttaches
  <2> QED BY <2>2 DEF PR!Next
<1>6. ASSUME NEW id \in BaseId, NEW d \in BaseDest, removePairDest(id, d.id)
      PROVE  PR!Next
  <2>1. ~ overlapped
    BY <1>6 DEF removePairDest
  <2>2. PR!Detach(id, d)
    BY <1>1, <1>6, <2>1, removePairDestDetaches
  <2> QED BY <2>2 DEF PR!Next
<1>7. ASSUME NEW ip \in IP, NEW p \in Port, process(ip, p),
             UNCHANGED <<srcIdWorker, crashed, overlapped>>
      PROVE  PR!Next
  <2>1. ~ overlapped
    BY <1>7
  <2>2. \/ \E id \in BaseId : PR!ReflectRtp(id) \/ PR!ReflectRtcp(id)
        \/ \E a \in Addr : PR!Drop(a)
    BY <1>1, <1>7, <2>1, processReflects
  <2> QED BY <2>2 DEF PR!Next
<1>8. CASE UNCHANGED rtcpVars
  BY <1>8 DEF rtcpVars, vars, tables, PR!vars, pairRoutes, HasPair, IsList, sent
<1> QED BY <1>2, <1>3, <1>4, <1>5, <1>6, <1>7, <1>8 DEF RtcpNext

LEMMA PairReflectorInit == RtcpInit => PR!Init
  BY DEF RtcpInit, Init, PR!Init, pairRoutes, sent

\* With even ports and identifiers that are not next to one in use, a worker with all
\* its tables behaves as the pair reflector does: a source is one thing, whose two lists
\* are made, filled, emptied and removed together, RTP goes to its destinations, RTCP to
\* their halves, and nothing to anybody else; and so does every other worker up to the
\* first source that overlaps.
THEOREM ImplementsPairsTheorem == RtcpSpec => ImplementsPairs
<1>1. PairInv /\ [RtcpNext]_rtcpVars => [overlapped' \/ PR!Next]_(PR!vars)
  BY PairReflectorStep
<1> QED BY <1>1, InitPair, StepPair, PairReflectorInit, PTL DEF RtcpSpec, ImplementsPairs

\* A worker whose callers always keep apart implements PairReflector outright.
THEOREM PairReflectorTheorem == RtcpSpec /\ [](~ overlapped) => PR!Spec
<1>1. PairInv /\ [RtcpNext]_rtcpVars /\ ~ overlapped' => [PR!Next]_(PR!vars)
  BY PairReflectorStep
<1> QED BY <1>1, InitPair, StepPair, PairReflectorInit, PTL DEF RtcpSpec, PR!Spec

-----------------------------------------------------------------------------
(* What the pair reflector promises, and through it every worker whose     *)
(* callers keep apart.                                                     *)

LEMMA NoSuchRoute == Absent \notin PR!Route
<1>1. BaseDest \subseteq UdpStream
  BY BaseDestFacts
<1>2. PR!Route \subseteq [src : Addr, dests : SUBSET UdpStream]
  BY <1>1 DEF PR!Route
<1> QED BY <1>2, WorkerAssumption

\* A step that gives one source other destinations.
LEMMA DestsChanged ==
    ASSUME PR!TypeOK, NEW id \in BaseId, PR!Registered(id), NEW new \in SUBSET BaseDest,
           pairRoutes' = [pairRoutes EXCEPT ![id].dests = new]
    PROVE  /\ PR!TypeOK'
           /\ \A i \in BaseId : PR!Registered(i)' => PR!Registered(i)
                                                     /\ pairRoutes'[i].src = pairRoutes[i].src
<1>1. pairRoutes \in [BaseId -> PR!Route \cup {Absent}]
  BY DEF PR!TypeOK
<1>2. PICK r : r = [pairRoutes[id] EXCEPT !.dests = new]
  OBVIOUS
<1>3. pairRoutes[id] \in PR!Route
  BY <1>1 DEF PR!Registered
<1>4. r \in PR!Route /\ r.src = pairRoutes[id].src
  BY <1>2, <1>3 DEF PR!Route
<1>5. pairRoutes' = [pairRoutes EXCEPT ![id] = r]
  BY <1>2
<1>6. \A i \in BaseId : pairRoutes'[i] = IF i = id THEN r ELSE pairRoutes[i]
  BY <1>1, <1>5
<1> QED BY <1>1, <1>4, <1>5, <1>6 DEF PR!Registered, PR!TypeOK

\* Sources that keep their addresses, or are removed, stay distinct.
LEMMA PairsKept ==
    ASSUME PR!PairsDistinct,
           \A i \in BaseId : PR!Registered(i)' => /\ PR!Registered(i)
                                                  /\ pairRoutes'[i].src = pairRoutes[i].src
    PROVE  PR!PairsDistinct'
BY DEF PR!PairsDistinct, PR!Ends

LEMMA PairReflectorInvStep ==
    ASSUME PR!TypeOK, PR!PairsDistinct, [PR!Next]_(PR!vars)
    PROVE  PR!TypeOK' /\ PR!PairsDistinct'
<1>1. pairRoutes \in [BaseId -> PR!Route \cup {Absent}]
  BY DEF PR!TypeOK
<1>2. ASSUME NEW id \in BaseId, NEW a \in Addr, PR!Register(id, a)
      PROVE  PR!TypeOK' /\ PR!PairsDistinct'
  <2>1. PICK r : r = [src |-> a, dests |-> {}]
    OBVIOUS
  <2>2. r \in PR!Route /\ r.src = a
    BY <2>1 DEF PR!Route
  <2>3. /\ \A i \in BaseId : PR!Registered(i) => {a, PR!Above(a)} \cap PR!Ends(i) = {}
        /\ pairRoutes' = [pairRoutes EXCEPT ![id] = r]
    BY <1>2, <2>1 DEF PR!Register
  <2>4. \A i \in BaseId : pairRoutes'[i] = IF i = id THEN r ELSE pairRoutes[i]
    BY <1>1, <2>3
  <2>5. PR!TypeOK'
    BY <1>1, <2>2, <2>3 DEF PR!TypeOK
  <2>6. PR!Ends(id)' = {a, PR!Above(a)}
    BY <2>2, <2>4 DEF PR!Ends
  <2>7. ASSUME NEW i \in BaseId, i # id, PR!Registered(i)'
        PROVE  PR!Registered(i) /\ PR!Ends(i)' = PR!Ends(i)
    BY <2>4, <2>7 DEF PR!Registered, PR!Ends
  <2>8. ASSUME NEW i \in BaseId, NEW j \in BaseId, PR!Registered(i)', PR!Registered(j)',
               PR!Ends(i)' \cap PR!Ends(j)' # {}
        PROVE  i = j
    <3>1. CASE i = id /\ j # id
      BY <2>3, <2>6, <2>7, <2>8, <3>1
    <3>2. CASE i # id /\ j = id
      BY <2>3, <2>6, <2>7, <2>8, <3>2
    <3>3. CASE i # id /\ j # id
      BY <2>7, <2>8, <3>3 DEF PR!PairsDistinct
    <3> QED BY <3>1, <3>2, <3>3
  <2> QED BY <2>5, <2>8 DEF PR!PairsDistinct
<1>3. ASSUME NEW id \in BaseId, PR!Unregister(id)
      PROVE  PR!TypeOK' /\ PR!PairsDistinct'
  <2>1. pairRoutes' = [pairRoutes EXCEPT ![id] = Absent]
    BY <1>3 DEF PR!Unregister
  <2>2. \A i \in BaseId : pairRoutes'[i] = IF i = id THEN Absent ELSE pairRoutes[i]
    BY <1>1, <2>1
  <2>3. PR!TypeOK'
    BY <1>1, <2>1 DEF PR!TypeOK
  <2> QED BY <2>2, <2>3, PairsKept DEF PR!Registered
<1>4. \A id \in BaseId : PR!Registered(id) => pairRoutes[id].dests \in SUBSET BaseDest
  BY <1>1 DEF PR!Registered, PR!Route
<1>5. ASSUME NEW id \in BaseId, NEW d \in BaseDest, PR!Attach(id, d)
      PROVE  PR!TypeOK' /\ PR!PairsDistinct'
  <2>1. PR!Registered(id) /\ pairRoutes[id].dests \cup {d} \in SUBSET BaseDest
    BY <1>4, <1>5 DEF PR!Attach
  <2>2. pairRoutes' = [pairRoutes EXCEPT ![id].dests = pairRoutes[id].dests \cup {d}]
    BY <1>5 DEF PR!Attach
  <2> QED BY <2>1, <2>2, DestsChanged, PairsKept
<1>6. ASSUME NEW id \in BaseId, NEW d \in BaseDest, PR!Detach(id, d)
      PROVE  PR!TypeOK' /\ PR!PairsDistinct'
  <2>1. PR!Registered(id) /\ {e \in pairRoutes[id].dests : e.id # d.id} \in SUBSET BaseDest
    BY <1>4, <1>6 DEF PR!Detach
  <2>2. pairRoutes' = [pairRoutes EXCEPT ![id].dests = {e \in pairRoutes[id].dests : e.id # d.id}]
    BY <1>6 DEF PR!Detach
  <2> QED BY <2>1, <2>2, DestsChanged, PairsKept
<1>7. CASE pairRoutes' = pairRoutes
  BY <1>7, PairsKept DEF PR!TypeOK, PR!Registered
<1>8. CASE UNCHANGED PR!vars
  BY <1>7, <1>8 DEF PR!vars
<1> QED BY <1>2, <1>3, <1>5, <1>6, <1>7, <1>8
           DEF PR!Next, PR!ReflectRtp, PR!ReflectRtcp, PR!Drop, PR!Refuse

\* The pair reflector never has an address in two sources, not even as the RTP address of
\* one and the RTCP address of the other.
THEOREM PairsDistinctTheorem == PR!Spec => [](PR!TypeOK /\ PR!PairsDistinct)
<1>1. PR!Init => PR!TypeOK /\ PR!PairsDistinct
  BY DEF PR!Init, PR!TypeOK, PR!PairsDistinct, PR!Registered
<1>2. (PR!TypeOK /\ PR!PairsDistinct) /\ [PR!Next]_(PR!vars) => (PR!TypeOK /\ PR!PairsDistinct)'
  BY PairReflectorInvStep
<1> QED BY <1>1, <1>2, PTL DEF PR!Spec

\* So neither has a worker whose callers keep apart, by the refinement.
THEOREM WorkerPairsDistinctTheorem == RtcpSpec /\ [](~ overlapped) => []PR!PairsDistinct
<1> QED BY PairReflectorTheorem, PairsDistinctTheorem, PTL
=============================================================================
