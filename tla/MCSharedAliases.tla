--------------------------- MODULE MCSharedAliases ---------------------------
(* Two instances from construction to destruction, one alias to set and to  *)
(* unset, two threads.                                                      *)
EXTENDS SharedAliases, TLC
symmetry == Permutations(Threads) \cup Permutations(Instances)
=============================================================================
