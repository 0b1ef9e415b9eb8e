------------------------------- MODULE Ordered -------------------------------
(***************************************************************************)
(* Numbers in their order (ORDER BY an id, sort_unstable and dedup), and   *)
(* what a loop over a Vec keeps of it.                                     *)
(***************************************************************************)
EXTENDS Integers, Sequences, FiniteSets

Ascending(keys) == [i \in 1..Cardinality(keys) |-> CHOOSE k \in keys : Cardinality({x \in keys : x < k}) = i - 1]

\* The elements at some places of a sequence.
Picked(seq, places) == LET order == Ascending(places) IN [i \in DOMAIN order |-> seq[order[i]]]

\* The first of the elements at some places, Iterator::find.
First(seq, places) == seq[CHOOSE p \in places : \A q \in places : p <= q]

\* Each element once, where it is first.
Distinct(seq) == Picked(seq, {i \in DOMAIN seq : \A k \in 1..(i - 1) : seq[k] /= seq[i]})
=============================================================================
