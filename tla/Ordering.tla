------------------------------- MODULE Ordering -------------------------------
(***************************************************************************)
(* The elements of a finite set of numbers in ascending order, and the     *)
(* entries of a sequence at a set of its positions: sort and filter, told  *)
(* by counting, for proofs as well as for checking.                        *)
(***************************************************************************)
EXTENDS Integers, FiniteSets, Sequences

PlaceIn(n, s) == Cardinality({k \in s : k <= n})

InOrder(s) == [i \in 1 .. Cardinality(s) |-> CHOOSE n \in s : PlaceIn(n, s) = i]

EntriesAt(seq, places) == [i \in 1 .. Cardinality(places) |-> seq[InOrder(places)[i]]]
===============================================================================
