---------------------------- MODULE MCProgramBank ----------------------------
(* Two programs, one script, and blocks enough to set one bank.            *)
EXTENDS ProgramBank, TLC
Symmetry == Permutations(Blocks)
=============================================================================
