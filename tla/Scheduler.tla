------------------------------ MODULE Scheduler ------------------------------
(***************************************************************************)
(* The event scheduler of the scripts (src/lua/scheduler.lua), driven by   *)
(* _onFrameCb (src/lua/callback_wrappers.lua) once for every block of      *)
(* audio.  The lua lock is held throughout, so nothing interleaves; but    *)
(* the execution trap (src/lua/executetrap.lua), or any error, can end the *)
(* callback after each of its instructions.  The plugin is then halted,    *)
(* and the queue stays as it is until the script is restarted or, without  *)
(* a restart, the host suspends and resumes.                               *)
(***************************************************************************)
EXTENDS Integers, Sequences, SequencesExt

CONSTANTS MaxEvents, \* bound: events ever scheduled
          MaxDelta,  \* bound: how far ahead, in samples
          Windows,   \* bound: the lengths of a frame
          MaxAborts, \* bound: callbacks that end half way
          MaxLate    \* bound: up to which lateness is told apart

ASSUME EventsAssumption == MaxEvents \in Nat
ASSUME BoundsAssumption == MaxAborts \in Nat /\ MaxLate \in Nat
ASSUME WindowsAssumption == Windows \subseteq 1..MaxDelta /\ MaxDelta \in Nat

(* Of an event: its number, in the order of scheduling, the delta the      *)
(* scheduler keeps, and the samples that are really left till it is due.   *)
Event == [id : 1..MaxEvents, delta : 0..MaxDelta, left : (-MaxLate)..MaxDelta]

VARIABLES eventQueue, window, halted,
          pc,         \* where _onFrameCb is
          i,          \* of the loop that decrements
          scheduled,  \* number of events so far
          sends,      \* history: how often each event was given to sendMidi
          repeats,    \* history: how often one that had been given before was
          disturbed,  \* history: since the last restart a frame was cut short
                      \* or passed while the plugin was halted
          aborts

vars == <<eventQueue, window, halted, pc, i, scheduled, sends, repeats, disturbed, aborts>>

Init ==
    /\ eventQueue = <<>> /\ window \in Windows /\ halted = FALSE
    /\ pc = "idle" /\ i = 1 /\ scheduled = 0
    /\ sends = [id \in 1..MaxEvents |-> 0] /\ repeats = 0
    /\ disturbed = FALSE /\ aborts = 0

-----------------------------------------------------------------------------
(* scheduleEvent, from onFrameCb or from any callback between frames (some *)
(* of which run while the plugin is halted): the delta counts from the     *)
(* start of the current, or next, frame.                                   *)
scheduleEvent(d) ==
    /\ pc \in {"idle", "onFrameCb"}
    /\ scheduled < MaxEvents
    /\ scheduled' = scheduled + 1
    /\ eventQueue' = Append(eventQueue, [id |-> scheduled', delta |-> d, left |-> d])
    /\ UNCHANGED <<window, halted, pc, i, sends, repeats, disturbed, aborts>>

Later(q, n) == [k \in DOMAIN q |->
    [q[k] EXCEPT !.left = IF @ - n < -MaxLate THEN -MaxLate ELSE @ - n]]

\* _onFrameCb up to onFrameCb
_onFrameCb(n) ==
    /\ pc = "idle" /\ ~halted
    /\ pc' = "onFrameCb" /\ window' = n
    /\ UNCHANGED <<eventQueue, halted, i, scheduled, sends, repeats, disturbed, aborts>>

\* the host's time goes on without the script
HaltedFrame(n) ==
    /\ pc = "idle" /\ halted
    /\ eventQueue' = Later(eventQueue, n)
    /\ disturbed' = TRUE
    /\ UNCHANGED <<window, halted, pc, i, scheduled, sends, repeats, aborts>>

-----------------------------------------------------------------------------
(* table.sort(eventQueue, eventCompare): which events of one delta change  *)
(* places is left open (TableSort has the algorithm).                      *)
eventCompare(a, b) == b.delta > a.delta

Orders(q) == {[k \in DOMAIN q |-> q[p[k]]] : p \in Bijection(DOMAIN q, DOMAIN q)}
InOrder(q) == \A k, l \in DOMAIN q : k < l => ~eventCompare(q[l], q[k])
sort(q) == {r \in Orders(q) : InOrder(r)}

Sort ==
    /\ pc = "onFrameCb" /\ pc' = "send"
    /\ eventQueue' \in sort(eventQueue)
    /\ UNCHANGED <<window, halted, i, scheduled, sends, repeats, disturbed, aborts>>

\* mutant of HeadIsDue: an event at the last sample of the frame waits
HeadIsDueStrict == eventQueue # <<>> /\ eventQueue[1].delta < window - 1

HeadIsDue == eventQueue # <<>> /\ eventQueue[1].delta < window

SendHead ==
    /\ pc = "send" /\ HeadIsDue /\ pc' = "remove"
    /\ sends' = [sends EXCEPT ![eventQueue[1].id] = @ + 1]
    /\ repeats' = IF sends[eventQueue[1].id] > 0 THEN repeats + 1 ELSE repeats
    /\ UNCHANGED <<eventQueue, window, halted, i, scheduled, disturbed, aborts>>

\* mutant of RemoveHead: table.remove without a position
RemoveLast ==
    /\ pc = "remove" /\ pc' = "send"
    /\ eventQueue' = Front(eventQueue)
    /\ UNCHANGED <<window, halted, i, scheduled, sends, repeats, disturbed, aborts>>

\* mutant of RemoveHead: all events of the sample go with the first
RemoveSameSample ==
    /\ pc = "remove" /\ pc' = "send"
    /\ eventQueue' = SelectSeq(eventQueue, LAMBDA e : e.delta > eventQueue[1].delta)
    /\ UNCHANGED <<window, halted, i, scheduled, sends, repeats, disturbed, aborts>>

RemoveHead ==
    /\ pc = "remove" /\ pc' = "send"
    /\ eventQueue' = Tail(eventQueue)
    /\ UNCHANGED <<window, halted, i, scheduled, sends, repeats, disturbed, aborts>>

NoneDue ==
    /\ pc = "send" /\ ~HeadIsDue /\ pc' = "decrement"
    /\ i' = 1
    /\ UNCHANGED <<eventQueue, window, halted, scheduled, sends, repeats, disturbed, aborts>>

\* mutant of Decrement: what is left keeps its delta
DecrementNothing ==
    /\ pc = "decrement" /\ i <= Len(eventQueue)
    /\ i' = i + 1
    /\ UNCHANGED <<eventQueue, window, halted, pc, scheduled, sends, repeats, disturbed, aborts>>

\* mutant of Decrement: two frames at once
DecrementTwice ==
    /\ pc = "decrement" /\ i <= Len(eventQueue)
    /\ eventQueue' = [eventQueue EXCEPT ![i].delta = @ - 2 * window]
    /\ i' = i + 1
    /\ UNCHANGED <<window, halted, pc, scheduled, sends, repeats, disturbed, aborts>>

Decrement ==
    /\ pc = "decrement" /\ i <= Len(eventQueue)
    /\ eventQueue' = [eventQueue EXCEPT ![i].delta = @ - window]
    /\ i' = i + 1
    /\ UNCHANGED <<window, halted, pc, scheduled, sends, repeats, disturbed, aborts>>

FrameEnds ==
    /\ pc = "decrement" /\ i > Len(eventQueue)
    /\ pc' = "idle" /\ i' = 1
    /\ eventQueue' = Later(eventQueue, window)
    /\ UNCHANGED <<window, halted, scheduled, sends, repeats, disturbed, aborts>>

(* infiniteError, or an error in onFrameCb: fatal_error halts the plugin.  *)
(* eventCompare is cut short as well, with the list sorted in part.        *)
Abort ==
    /\ pc # "idle" /\ aborts < MaxAborts
    /\ pc' = "idle" /\ i' = 1
    /\ halted' = TRUE
    /\ \E q \in IF pc = "onFrameCb" THEN Orders(eventQueue) ELSE {eventQueue} :
          eventQueue' = Later(q, window)
    /\ disturbed' = TRUE /\ aborts' = aborts + 1
    /\ UNCHANGED <<window, scheduled, sends, repeats>>

\* suspend or the halt button, and resume
Halt ==
    /\ pc = "idle" /\ halted' = TRUE
    /\ UNCHANGED <<eventQueue, window, pc, i, scheduled, sends, repeats, disturbed, aborts>>
Resume ==
    /\ halted /\ halted' = FALSE
    /\ UNCHANGED <<eventQueue, window, pc, i, scheduled, sends, repeats, disturbed, aborts>>

\* reInit runs scheduler.lua again
Restart ==
    /\ pc = "idle"
    /\ eventQueue' = <<>> /\ halted' = FALSE /\ disturbed' = FALSE
    /\ UNCHANGED <<window, pc, i, scheduled, sends, repeats, aborts>>

-----------------------------------------------------------------------------
Frame ==
    \/ \E n \in Windows : _onFrameCb(n)
    \/ Sort \/ SendHead \/ RemoveHead \/ NoneDue \/ Decrement \/ FrameEnds
Schedule == \E d \in 0..MaxDelta : scheduleEvent(d)
HaltedFrames == \E n \in Windows : HaltedFrame(n)

Next == Frame \/ Schedule \/ HaltedFrames \/ Abort \/ Halt \/ Resume \/ Restart

Spec == Init /\ [][Next]_vars

\* the host processes block after block
FairSpec == Spec /\ WF_vars(Frame)

-----------------------------------------------------------------------------
TypeOK ==
    /\ eventQueue \in Seq(Event) /\ Len(eventQueue) <= MaxEvents
    /\ window \in Windows /\ halted \in BOOLEAN
    /\ pc \in {"idle", "onFrameCb", "send", "remove", "decrement"}
    /\ i \in 1..(MaxEvents + 1)
    /\ scheduled \in 0..MaxEvents /\ aborts \in 0..MaxAborts
    /\ sends \in [1..MaxEvents -> 0..(MaxAborts + 1)] /\ repeats \in Nat
    /\ disturbed \in BOOLEAN

NotLate ==
    /\ pc = "idle" => \A k \in DOMAIN eventQueue :
          eventQueue[k].left >= 0 /\ eventQueue[k].delta = eventQueue[k].left
    /\ pc = "remove" => eventQueue[1].left \in 0..(window - 1)
                        /\ eventQueue[1].delta = eventQueue[1].left

NotEarly == \A k \in DOMAIN eventQueue : pc = "idle" \/ pc = "remove" =>
    eventQueue[k].delta >= eventQueue[k].left

(* Between frames no event is overdue, and an event is sent at the sample  *)
(* it was scheduled for, for any sequence of frame lengths.  After a       *)
(* callback that was cut short between any two instructions events may be  *)
(* late, but none is ever early.                                           *)
OnTime == NotEarly /\ (~disturbed => NotLate)

(* An event goes out before those that are due later.                      *)
InTimeOrder == pc = "remove" /\ ~disturbed =>
    \A k \in DOMAIN eventQueue : eventQueue[1].left <= eventQueue[k].left

(* A callback that is cut short repeats one event at most, over all events *)
(* together.                                                               *)
FewRepeats == repeats <= aborts

-----------------------------------------------------------------------------
(* The queue as an agenda: while _onFrameCb is between sendMidi and        *)
(* table.remove, the head has been sent already.                           *)
Sent(k) == pc = "remove" /\ k = 1
Entry(e) == [id |-> e.id, left |-> e.left]
ToSend == {Entry(eventQueue[k]) : k \in {l \in 1..Len(eventQueue) : ~Sent(l)}}

Agenda == INSTANCE Agenda WITH Delays <- 0..MaxDelta, Lengths <- Windows,
             pending <- ToSend, count <- scheduled, playing <- pc # "idle"

(* Until a frame is cut short or passes while the plugin is halted, and    *)
(* again after the next restart, the sorted list that is sent from its     *)
(* head and decremented in a loop is an agenda: no event is dropped, sent  *)
(* twice, moved to another sample or overtaken by a later one.             *)
ImplementsAgenda == Agenda!Init /\ [][disturbed' \/ Agenda!Next]_(Agenda!vars)

-----------------------------------------------------------------------------
(* The inductive invariant.  While _onFrameCb decrements, the deltas before*)
(* i count from the end of the frame already.                              *)
Gone(k) == IF pc = "decrement" /\ k < i THEN window ELSE 0

DueInv == \A k \in 1..Len(eventQueue) :
    LET e == eventQueue[k]
    IN  /\ e.delta >= e.left - Gone(k)
        /\ ~disturbed => e.left >= Gone(k) /\ e.delta = e.left - Gone(k)

SortedInv ==
    /\ pc \in {"send", "remove"} => \A k, l \in 1..Len(eventQueue) :
          k < l => eventQueue[k].delta <= eventQueue[l].delta
    /\ pc = "remove" => HeadIsDue
    /\ pc = "decrement" => \A k \in i..Len(eventQueue) : eventQueue[k].delta >= window

\* an event is sent once, and once more for every callback that was cut short
Excess(k) == IF pc = "remove" /\ k = 1 THEN 1 ELSE 0

SendsInv ==
    /\ Len(eventQueue) <= scheduled
    /\ \A k \in 1..Len(eventQueue) : /\ eventQueue[k].id <= scheduled
                                     /\ sends[eventQueue[k].id] <= aborts + Excess(k)
    /\ \A k, l \in 1..Len(eventQueue) : eventQueue[k].id = eventQueue[l].id => k = l
    /\ \A id \in 1..MaxEvents : /\ sends[id] <= aborts + 1
                                /\ id > scheduled => sends[id] = 0

\* events that have been sent and are still to be sent: one repetition each
Pending(id) == \E k \in 1..Len(eventQueue) : eventQueue[k].id = id /\ Excess(k) = 0
Again == {id \in 1..MaxEvents : sends[id] > 0 /\ Pending(id)}
RepeatsInv == repeats + Cardinality(Again) <= aborts

IInv == TypeOK /\ DueInv /\ SortedInv /\ SendsInv

(* An event in the queue is sent as long as the plugin is not halted (and  *)
(* the script is not restarted).                                           *)
Queued(id) == \E k \in DOMAIN eventQueue : eventQueue[k].id = id
EventuallySent == \A id \in 1..MaxEvents : Queued(id) ~> (~Queued(id) \/ halted)

(* docs/quickstart.html:91: "it's always safe to use scheduleEvent in      *)
(* place of sendMidi": events for the same sample are sent in the order of *)
(* the calls.                                                              *)
OrderKept == pc = "remove" /\ ~disturbed =>
    \A k \in DOMAIN eventQueue :
       eventQueue[k].left = eventQueue[1].left => eventQueue[1].id <= eventQueue[k].id
=============================================================================
