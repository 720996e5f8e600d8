----------------------------- MODULE MCSharedMem -----------------------------
(* Two instances whose scripts and receive threads send to each other.      *)
EXTENDS SharedMem
=============================================================================
