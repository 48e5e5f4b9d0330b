-------------------------- MODULE StreamListProofs --------------------------
(***************************************************************************)
(* What the operators of StreamList return, for every list of destinations *)
(* D of records with an id field: the facts the proofs about workers cite. *)
(***************************************************************************)
EXTENDS StreamList, SequenceTheorems, WellFoundedInduction, TLAPS

\* A non-empty set of positions has a least element (what Min of the community
\* modules chooses).
LEMMA MinOfPositions ==
    ASSUME NEW I \in SUBSET Nat, I # {}
    PROVE  Min(I) \in I /\ \A j \in I : Min(I) <= j
<1>1. PICK R : R = OpToRel(<, Nat)
  BY Zenon
<1>2. R = {p \in Nat \X Nat : p[1] < p[2]}
  BY <1>1, Zenon DEF OpToRel
<1>3. IsWellFoundedOn(R, Nat)
  BY <1>1, NatLessThanWellFounded, Zenon
<1>4. PICK x \in I : \A y \in I : ~ (<<y, x>> \in R)
  BY <1>3, WFMin, Zenon
<1>5. ASSUME NEW y \in I
      PROVE  x <= y
  <2>1. <<y, x>> \in Nat \X Nat /\ <<y, x>>[1] = y /\ <<y, x>>[2] = x
    OBVIOUS
  <2>2. <<y, x>> \in {p \in Nat \X Nat : p[1] < p[2]} <=> y < x
    BY <2>1, Zenon
  <2>3. ~ (y < x)
    BY <1>2, <1>4, <2>2, Zenon
  <2>4. x \in Nat /\ y \in Nat
    OBVIOUS
  <2> QED BY <2>3, <2>4
<1> QED
  BY <1>4, <1>5 DEF Min

\* StreamList::findDestination returns the position of a destination with the
\* id it was asked for whenever the list holds one, and end() otherwise.
LEMMA findDestinationCorrect ==
    ASSUME NEW D, NEW ds \in Seq(D), NEW id
    PROVE  /\ existDestination(ds, id) =>
                /\ findDestination(ds, id) \in 1..Len(ds)
                /\ ds[findDestination(ds, id)].id = id
           /\ ~ existDestination(ds, id) => findDestination(ds, id) = 0
<1> DEFINE I == {i \in 1..Len(ds) : ds[i].id = id}
<1>1. findDestination(ds, id) = IF I # {} THEN Min(I) ELSE 0
  BY DEF findDestination, SelectInSeq
<1>2. I \in SUBSET Nat
  OBVIOUS
<1>3. existDestination(ds, id) <=> I # {}
  BY DEF existDestination
<1>4. I # {} => Min(I) \in I
  BY <1>2, MinOfPositions
<1> QED
  BY <1>1, <1>3, <1>4

\* StreamList::getDestination returns a member of the list with that id.
LEMMA getDestinationCorrect ==
    ASSUME NEW D, NEW ds \in Seq(D), NEW id, existDestination(ds, id)
    PROVE  /\ getDestination(ds, id) \in D
           /\ getDestination(ds, id).id = id
<1>1. findDestination(ds, id) \in 1..Len(ds)
  BY findDestinationCorrect
<1> QED
  BY <1>1, findDestinationCorrect, ElementOfSeq DEF getDestination

\* StreamList::addDestination adds the destination when its id is free and
\* changes nothing otherwise, so ids that were unique stay unique.
LEMMA addDestinationCorrect ==
    ASSUME NEW D, NEW ds \in Seq(D), NEW d \in D
    PROVE  /\ addDestination(ds, d) \in Seq(D)
           /\ existDestination(ds, d.id) => addDestination(ds, d) = ds
           /\ ~ existDestination(ds, d.id) =>
                ToSet(addDestination(ds, d)) = ToSet(ds) \cup {d}
           /\ UniqueIdsIn(ds) => UniqueIdsIn(addDestination(ds, d))
<1> DEFINE new == Append(ds, d)
<1>1. /\ new \in Seq(D)
      /\ Len(ds) \in Nat
      /\ Len(new) = Len(ds) + 1
      /\ \A i \in 1..Len(ds) : new[i] = ds[i]
      /\ new[Len(ds) + 1] = d
  BY AppendProperties, LenProperties
<1>2. ASSUME ~ existDestination(ds, d.id)
      PROVE  ToSet(new) = ToSet(ds) \cup {d}
  <2>1. /\ DOMAIN new = 1..(Len(ds) + 1)
        /\ DOMAIN ds = 1..Len(ds)
    BY <1>1, LenProperties
  <2>2. \A x : x \in ToSet(new) <=> \E i \in 1..(Len(ds) + 1) : x = new[i]
    BY <2>1 DEF ToSet
  <2>3. \A x : x \in ToSet(ds) <=> \E i \in 1..Len(ds) : x = ds[i]
    BY <2>1 DEF ToSet
  <2>4. \A x : x \in ToSet(new) <=> x \in ToSet(ds) \/ x = d
    <3> HIDE DEF new
    <3> QED BY <1>1, <2>2, <2>3
  <2> QED
    BY <2>4
<1>3. ASSUME ~ existDestination(ds, d.id), UniqueIdsIn(ds)
      PROVE  UniqueIdsIn(new)
  <2> SUFFICES ASSUME NEW i \in 1..Len(new), NEW j \in 1..Len(new),
                      new[i].id = new[j].id
               PROVE  i = j
    BY DEF UniqueIdsIn
  <2>1. \A k \in 1..Len(ds) : new[k].id # d.id
    BY <1>1, <1>3 DEF existDestination
  <2> HIDE DEF new
  <2> QED
    BY <1>1, <1>3, <2>1 DEF UniqueIdsIn
<1> QED
  BY <1>1, <1>2, <1>3 DEF addDestination

\* A list without its position k, those behind it shifted.
Shifted(ds, k, new) ==
    /\ Len(new) = Len(ds) - 1
    /\ \A i \in 1..(Len(ds) - 1) : new[i] = IF i < k THEN ds[i] ELSE ds[i + 1]

\* erase() of a position shifts the destinations behind it.
LEMMA removeAtCorrect ==
    ASSUME NEW D, NEW ds \in Seq(D), NEW k \in 1..Len(ds),
           NEW new, new = RemoveAt(ds, k)
    PROVE  new \in Seq(D) /\ Shifted(ds, k, new)
<1> DEFINE n == Len(ds)
<1>1. k \in 1..n
  OBVIOUS
<1>2. n \in Nat /\ DOMAIN ds = 1..n /\ \A i \in 1..n : ds[i] \in D
  BY LenProperties, ElementOfSeq
<1>3. new = SubSeq(ds, 1, k - 1) \o SubSeq(ds, k + 1, n)
  BY DEF RemoveAt
<1> HIDE DEF n
<1>4. /\ SubSeq(ds, 1, k - 1) \in Seq(D)
      /\ Len(SubSeq(ds, 1, k - 1)) = k - 1
      /\ \A i \in 1..(k - 1) : SubSeq(ds, 1, k - 1)[i] = ds[i]
  <2>1. 1 \in Int /\ k - 1 \in Int /\ \A i \in 1..(k - 1) : ds[i] \in D
    BY <1>1, <1>2
  <2>2. /\ SubSeq(ds, 1, k - 1) \in Seq(D)
        /\ Len(SubSeq(ds, 1, k - 1)) = IF 1 <= k - 1 THEN k - 1 - 1 + 1 ELSE 0
        /\ \A i \in 1..(k - 1 - 1 + 1) : SubSeq(ds, 1, k - 1)[i] = ds[1 + i - 1]
    BY <2>1, SubSeqProperties
  <2> QED
    BY <1>1, <1>2, <2>2
<1>5. /\ SubSeq(ds, k + 1, n) \in Seq(D)
      /\ Len(SubSeq(ds, k + 1, n)) = n - k
      /\ \A i \in 1..(n - k) : SubSeq(ds, k + 1, n)[i] = ds[k + i]
  <2>1. k + 1 \in Int /\ n \in Int /\ \A i \in (k + 1)..n : ds[i] \in D
    BY <1>1, <1>2
  <2>2. /\ SubSeq(ds, k + 1, n) \in Seq(D)
        /\ Len(SubSeq(ds, k + 1, n)) = IF k + 1 <= n THEN n - (k + 1) + 1 ELSE 0
        /\ \A i \in 1..(n - (k + 1) + 1) : SubSeq(ds, k + 1, n)[i] = ds[k + 1 + i - 1]
    BY <2>1, SubSeqProperties
  <2> QED
    BY <1>1, <1>2, <2>2
<1>6. /\ new \in Seq(D)
      /\ Len(new) = n - 1
      /\ \A i \in 1..(n - 1) : new[i] = IF i < k THEN ds[i] ELSE ds[i + 1]
  <2> DEFINE s == SubSeq(ds, 1, k - 1)
             t == SubSeq(ds, k + 1, n)
  <2>0. /\ new \in Seq(D)
        /\ Len(new) = Len(s) + Len(t)
        /\ \A i \in 1..(Len(s) + Len(t)) :
             new[i] = IF i <= Len(s) THEN s[i] ELSE t[i - Len(s)]
    <3>1. s \in Seq(D) /\ t \in Seq(D) /\ new = s \o t
      BY <1>3, <1>4, <1>5
    <3> HIDE DEF s, t
    <3> QED BY <3>1, ConcatProperties
  <2>1. /\ new \in Seq(D)
        /\ Len(new) = (k - 1) + (n - k)
        /\ \A i \in 1..((k - 1) + (n - k)) :
             new[i] = IF i <= k - 1 THEN SubSeq(ds, 1, k - 1)[i]
                      ELSE SubSeq(ds, k + 1, n)[i - (k - 1)]
    BY <1>4, <1>5, <2>0
  <2>2. ASSUME NEW i \in 1..(n - 1)
        PROVE  new[i] = IF i < k THEN ds[i] ELSE ds[i + 1]
    <3>1. CASE i < k
      BY <1>1, <1>2, <1>4, <2>1, <3>1
    <3>2. CASE ~ (i < k)
      <4>1. i - (k - 1) \in 1..(n - k) /\ k + (i - (k - 1)) = i + 1
        BY <1>1, <1>2, <3>2
      <4>2. new[i] = SubSeq(ds, k + 1, n)[i - (k - 1)]
        BY <1>1, <1>2, <2>1, <3>2
      <4> QED
        BY <1>5, <3>2, <4>1, <4>2
    <3> QED
      BY <3>1, <3>2
  <2> QED
    BY <1>1, <1>2, <2>1, <2>2
<1> QED
  BY <1>6 DEF n, Shifted

\* StreamList::remDestination on an id the list holds removes one destination;
\* in a list with unique ids, exactly the destinations of that id are gone.
LEMMA remDestinationCorrect ==
    ASSUME NEW D, NEW ds \in Seq(D), NEW id, existDestination(ds, id)
    PROVE  /\ remDestination(ds, id) \in Seq(D)
           /\ UniqueIdsIn(ds) =>
                /\ UniqueIdsIn(remDestination(ds, id))
                /\ ToSet(remDestination(ds, id)) = {d \in ToSet(ds) : d.id # id}
<1> DEFINE k == findDestination(ds, id)
           n == Len(ds)
           new == remDestination(ds, id)
<1>1. k \in 1..n /\ ds[k].id = id
  BY findDestinationCorrect
<1>2. n \in Nat /\ DOMAIN ds = 1..n /\ \A i \in 1..n : ds[i] \in D
  BY LenProperties, ElementOfSeq
<1>3. new = RemoveAt(ds, k)
  BY DEF remDestination
<1> HIDE DEF k, n, new
<1>4. /\ new \in Seq(D)
      /\ Len(new) = n - 1
      /\ \A i \in 1..(n - 1) : new[i] = IF i < k THEN ds[i] ELSE ds[i + 1]
  BY <1>1, <1>3, removeAtCorrect, ZenonT(60) DEF n, Shifted
<1>5. ASSUME UniqueIdsIn(ds)
      PROVE  UniqueIdsIn(new)
  <2> SUFFICES ASSUME NEW i \in 1..(n - 1), NEW j \in 1..(n - 1),
                      new[i].id = new[j].id
               PROVE  i = j
    BY <1>4 DEF UniqueIdsIn
  <2>1. \A a, b \in 1..n : ds[a].id = ds[b].id => a = b
    BY <1>5 DEF UniqueIdsIn, n
  <2> QED
    BY <1>1, <1>2, <1>4, <2>1
<1>6. ASSUME UniqueIdsIn(ds)
      PROVE  ToSet(new) = {d \in ToSet(ds) : d.id # id}
  <2>1. \A a, b \in 1..n : ds[a].id = ds[b].id => a = b
    BY <1>6 DEF UniqueIdsIn, n
  <2>2. DOMAIN new = 1..(n - 1)
    BY <1>4, LenProperties
  <2>3. \A x : x \in ToSet(new) <=> \E i \in 1..(n - 1) : x = new[i]
    BY <2>2 DEF ToSet
  <2>4. \A x : x \in ToSet(ds) <=> \E i \in 1..n : x = ds[i]
    BY <1>2 DEF ToSet
  <2>5. ASSUME NEW i \in 1..(n - 1)
        PROVE  new[i] \in ToSet(ds) /\ new[i].id # id
    <3>1. \E j \in 1..n : j # k /\ new[i] = ds[j]
      <4>1. CASE i < k
        BY <1>1, <1>2, <1>4, <4>1
      <4>2. CASE ~ (i < k)
        <5>1. i + 1 \in 1..n /\ i + 1 # k
          BY <1>1, <1>2, <4>2
        <5> QED
          BY <1>4, <4>2, <5>1
      <4> QED
        BY <4>1, <4>2
    <3> QED
      BY <1>1, <2>1, <2>4, <3>1
  <2>6. ASSUME NEW j \in 1..n, ds[j].id # id
        PROVE  \E i \in 1..(n - 1) : ds[j] = new[i]
    <3>1. CASE j < k
      BY <1>1, <1>2, <1>4, <3>1
    <3>2. CASE ~ (j < k)
      <4>1. j - 1 \in 1..(n - 1) /\ ~ (j - 1 < k) /\ (j - 1) + 1 = j
        BY <1>1, <1>2, <2>6, <3>2
      <4> QED
        BY <1>4, <4>1
    <3> QED
      BY <3>1, <3>2
  <2>7. \A x : x \in ToSet(new) <=> x \in ToSet(ds) /\ x.id # id
    BY <2>3, <2>4, <2>5, <2>6
  <2> QED
    BY <2>7
<1> QED
  BY <1>4, <1>5, <1>6 DEF new
=============================================================================
