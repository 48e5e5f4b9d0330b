----------------------------- MODULE StreamList -----------------------------
(***************************************************************************)
(* The destination list of a StreamList object (StreamList.cpp): a         *)
(* std::list of UdpStream objects, each with an identifier and an address. *)
(* The list is a sequence of records with an id field; every operator      *)
(* takes the list and returns the new one.                                 *)
(***************************************************************************)
EXTENDS Integers, SequencesExt

\* Position of the first destination with this id; 0 stands for end().
findDestination(ds, id) == SelectInSeq(ds, LAMBDA d : d.id = id)

existDestination(ds, id) == \E i \in 1..Len(ds) : ds[i].id = id

\* Mutant of addDestination: the list is not searched for the id.
addDestinationUnchecked(ds, d) == Append(ds, d)

\* A destination whose id is taken is refused and the list is left alone.
addDestination(ds, d) ==
    IF existDestination(ds, d.id) THEN ds ELSE Append(ds, d)

\* Defined when existDestination(ds, id) holds: the callers test it first, and
\* the iterator of a missing id is end(), which the code would dereference.
getDestination(ds, id) == ds[findDestination(ds, id)]

remDestination(ds, id) == RemoveAt(ds, findDestination(ds, id))

-----------------------------------------------------------------------------
\* No two destinations of a list share an id.
UniqueIdsIn(ds) ==
    \A i, j \in 1..Len(ds) : ds[i].id = ds[j].id => i = j
=============================================================================
