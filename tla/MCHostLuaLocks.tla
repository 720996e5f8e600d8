--------------------------- MODULE MCHostLuaLocks ---------------------------
(* Two threads that make any call; in each call the script calls the host   *)
(* at most once, from any of its callbacks.                                 *)
EXTENDS HostLuaLocks
=============================================================================
