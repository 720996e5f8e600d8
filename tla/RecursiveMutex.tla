--------------------------- MODULE RecursiveMutex ---------------------------
(***************************************************************************)
(* What the callers of LuaLock (src/sysfuncs.h) rely on: a recursive       *)
(* mutual exclusion lock.  depth[t] is the number of Lock() calls of       *)
(* thread t that have returned and not been given back by Unlock().        *)
(***************************************************************************)
EXTENDS Naturals

CONSTANT Threads

VARIABLE depth

FreeFor(t) == \A u \in Threads \ {t} : depth[u] = 0

Init == depth = [t \in Threads |-> 0]

Enter(t) ==
    /\ FreeFor(t)
    /\ depth' = [depth EXCEPT ![t] = @ + 1]

Leave(t) ==
    /\ depth[t] > 0
    /\ depth' = [depth EXCEPT ![t] = @ - 1]

Next == \E t \in Threads : Enter(t) \/ Leave(t)

Spec == Init /\ [][Next]_depth
=============================================================================
