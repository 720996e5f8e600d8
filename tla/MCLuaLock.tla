------------------------------ MODULE MCLuaLock ------------------------------
(* The lock with three threads: one holder, one that takes over, one more.  *)
EXTENDS LuaLock
=============================================================================
