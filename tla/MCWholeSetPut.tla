--------------------------- MODULE MCWholeSetPut ---------------------------
(* The whole-set PUTs on small instances; items and PUTs interchangeable.  *)
EXTENDS WholeSetPut, TLC

Symmetry == Permutations(Item) \cup Permutations(Put)
=============================================================================
