------------------------------ MODULE AliasMap ------------------------------
(***************************************************************************)
(* What the scripts are told of the aliases (docs/VstLuaApi.html): one     *)
(* table for all instances, in which each sets its own name.               *)
(***************************************************************************)
CONSTANTS Instances, Names, NoName

VARIABLE aliases

Init == aliases = [i \in Instances |-> NoName]

Set(i, name) == aliases' = [aliases EXCEPT ![i] = name]

Next == \E i \in Instances, name \in Names \cup {NoName} : Set(i, name)

Spec == Init /\ [][Next]_aliases
=============================================================================
