--------------------------- MODULE SortedNumbers ---------------------------
(***************************************************************************)
(* The members of a finite set of numbers in order, and the items of a     *)
(* sequence at given places.                                               *)
(***************************************************************************)
EXTENDS Integers, Sequences, FiniteSets

\* The members of a set of numbers in order.
Ascending(set) ==
    [i \in 1..Cardinality(set) |->
        CHOOSE n \in set : Cardinality({m \in set : m < n}) = i - 1]

\* The items of a sequence at some of its places, in order.
ItemsAt(seq, places) == [i \in 1..Cardinality(places) |-> seq[Ascending(places)[i]]]
=============================================================================
