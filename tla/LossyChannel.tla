----------------------------- MODULE LossyChannel -----------------------------
(***************************************************************************)
(* What the scripts are told of messages to other instances                *)
(* (docs/VstLuaApi.html): a message that is sent may be lost.  Otherwise   *)
(* it is handed to the instance it is for, once, and not after a later     *)
(* message of the same instance.                                           *)
(***************************************************************************)
EXTENDS Naturals, Sequences

CONSTANTS Instances,
          Threads    \* that send, each a pair that starts with its instance

VARIABLES sends,     \* number of messages so far
          underway,  \* messages that are neither lost nor handed over
          delivered  \* per instance: what it was given

vars == <<sends, underway, delivered>>

Init == sends = 0 /\ underway = {} /\ delivered = [i \in Instances |-> <<>>]

Send(t, i) ==
    /\ sends' = sends + 1
    /\ underway' = underway \cup {[n |-> sends', from |-> t, to |-> i]}
    /\ UNCHANGED delivered

Lose(m) ==
    /\ m \in underway /\ underway' = underway \ {m}
    /\ UNCHANGED <<sends, delivered>>

SameWay(m, l) == m.from[1] = l.from[1] /\ m.to = l.to

HandOver(m) ==
    /\ m \in underway /\ \A l \in underway : SameWay(m, l) => m.n <= l.n
    /\ delivered' = [delivered EXCEPT ![m.to] = Append(@, m)]
    /\ underway' = underway \ {m}
    /\ UNCHANGED sends

Next ==
    \/ \E t \in Threads, i \in Instances : Send(t, i)
    \/ \E m \in underway : Lose(m) \/ HandOver(m)

Spec == Init /\ [][Next]_vars
=============================================================================
