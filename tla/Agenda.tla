-------------------------------- MODULE Agenda --------------------------------
(***************************************************************************)
(* What the scripts are told of scheduleEvent (docs/VstLuaApi.html): the   *)
(* event will be sent when its delta has passed, in whatever frame that    *)
(* is.  Nothing is sent twice, and nothing in the wrong order; the end of  *)
(* a frame leaves nothing behind that was due in it.                       *)
(***************************************************************************)
EXTENDS Integers

CONSTANTS Delays, Lengths

VARIABLES pending,   \* events to send, each with the samples that are left
          count,     \* number of events so far
          window,    \* length of the frame
          playing    \* whether the frame is being played

vars == <<pending, count, window, playing>>

Init == pending = {} /\ count = 0 /\ window \in Lengths /\ playing = FALSE

Begin(n) ==
    /\ ~playing /\ playing' = TRUE
    /\ window' = n
    /\ UNCHANGED <<pending, count>>

Add(d) ==
    /\ count' = count + 1
    /\ pending' = pending \cup {[id |-> count', left |-> d]}
    /\ UNCHANGED <<window, playing>>

Send(e) ==
    /\ playing /\ e.left \in 0..(window - 1)
    /\ \A f \in pending : e.left <= f.left
    /\ pending' = pending \ {e}
    /\ UNCHANGED <<count, window, playing>>

Pass ==
    /\ playing /\ playing' = FALSE
    /\ \A e \in pending : e.left >= window
    /\ pending' = {[e EXCEPT !.left = @ - window] : e \in pending}
    /\ UNCHANGED <<count, window>>

\* another script
Clear ==
    /\ ~playing
    /\ pending' = {}
    /\ UNCHANGED <<count, window, playing>>

Next ==
    \/ \E n \in Lengths : Begin(n)
    \/ \E d \in Delays : Add(d)
    \/ \E e \in pending : Send(e)
    \/ Pass \/ Clear

Spec == Init /\ [][Next]_vars
===============================================================================
