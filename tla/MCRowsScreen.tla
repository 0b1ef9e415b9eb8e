--------------------------- MODULE MCRowsScreen ---------------------------
(* Instances of RowsScreen for TLC. *)
EXTENDS RowsScreen, TLC

\* Nothing tells two texts, two secrets or two keys apart but their being different.
Alike == Permutations(Texts) \cup Permutations(Secrets) \cup Permutations(Keys)
=============================================================================
