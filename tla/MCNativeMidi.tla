----------------------------- MODULE MCNativeMidi -----------------------------
(* Two names over up to two ports of each way, with any repetition; three   *)
(* ports open at a time; the list changes once and the interpreter restarts *)
(* once.  Neither names nor keys are told apart.                            *)
EXTENDS NativeMidi

Symmetry == Permutations(Devices) \cup Permutations(Keys)
=============================================================================
