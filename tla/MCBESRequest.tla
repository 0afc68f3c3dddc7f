---------------------------- MODULE MCBESRequest ----------------------------
(* BESRequest for TLC: the names are not told apart. *)
EXTENDS BESRequest

Symmetry == Permutations(Names) \cup Permutations(Defs)
=============================================================================
