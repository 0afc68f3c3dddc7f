---------------------------- MODULE MCHTTPCache ----------------------------
(* HTTPCache for TLC: threads, URLs and file names are not told apart.      *)
EXTENDS HTTPCache, TLC

Symmetry == Permutations(Threads) \cup Permutations(Urls) \cup Permutations(Names)
=============================================================================
