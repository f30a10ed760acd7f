------------------------------- MODULE Ordering -------------------------------
(***************************************************************************)
(* Sets in an order, and the elements of a sequence at some of its places. *)
(* As SetToSortSeq and SelectSeq of the libraries, but without recursion:  *)
(* a place is given by how many elements come before it.                   *)
(***************************************************************************)
EXTENDS Naturals, FiniteSets

Sorted(S, Before(_, _)) ==
  [n \in 1 .. Cardinality(S) |-> CHOOSE x \in S : Cardinality({y \in S : Before(y, x)}) = n - 1]

InOrder(places) == Sorted(places, LAMBDA i, j : i < j)

\* The elements of s at the places order, one after the other.
Taken(s, order) == [n \in DOMAIN order |-> s[order[n]]]

\* The elements of s at the places in I, in the order they have in s.
Only(s, I) == Taken(s, InOrder(I))
=============================================================================
