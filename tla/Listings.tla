------------------------------ MODULE Listings ------------------------------
(***************************************************************************)
(* Lists with an order, as ORDER BY and sort.Slice make them.              *)
(***************************************************************************)
EXTENDS Integers, FiniteSets, SequencesExt

\* The elements of a set, of which x is at the place after those that are Before it.
InOrder(S, Before(_, _)) ==
  [i \in 1 .. Cardinality(S) |-> CHOOSE x \in S : Cardinality({y \in S : Before(y, x)}) = i - 1]

\* The lists in which no element comes after one that it is Before: it decides not between all.
Orders(S, Before(_, _)) ==
  {list \in SetToSeqs(S) : \A i, j \in DOMAIN list : i < j => ~Before(list[j], list[i])}

===========================================================================
