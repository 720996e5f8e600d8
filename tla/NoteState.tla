------------------------------ MODULE NoteState ------------------------------
(***************************************************************************)
(* The tables of notes that are down (src/lua/midi.lua), kept by           *)
(* newMidiEvent and sendMidi (src/lua/callback_wrappers.lua), beside what  *)
(* is really down: the keys the host has told of, and the notes that sound *)
(* at the other end.  What is sent in a frame is played in the order of    *)
(* its deltas, and a script sends in any order.  An error or the execution *)
(* trap may end a callback after any of its instructions.                  *)
(***************************************************************************)
EXTENDS Integers, Sequences

CONSTANTS NumNotes, \* note numbers, each on a channel of its own
          MaxSends, \* bound: what a script does in one callback
          MaxLater, \* bound: events sent ahead within a frame
          MaxCuts   \* bound: callbacks that are cut short

ASSUME BoundsAssumption ==
    NumNotes \in Nat /\ MaxSends \in Nat /\ MaxLater \in Nat /\ MaxCuts \in Nat

Notes == 1..NumNotes

Nil == -1         \* no entry in a Lua table
Velocities == {0, 1}
Deltas == {0, 1}  \* at once, and later in the frame
NoteEvent == [type : {"noteOn"}, note : Notes, byte3 : Velocities, delta : Deltas]
             \cup [type : {"noteOff"}, note : Notes, byte3 : {0}, delta : Deltas]
CCEvent == [type : {"cc"}, note : Notes, byte3 : {0}, delta : {0}]
NoEvent == [type |-> "none"]

VARIABLES
    held, time,       \* of the host: keys, and the delta of its last event
    sounding, later,  \* notes that sound; events to be played in this frame
    inputNotesDown, outputNotesDown,
    passes,           \* the script has no midiEventCb and no filters
    halted,
    pc, event, caller, calls, \* the callback, its event, where sendMidi was
                      \* called, and what the script has done
    todo,             \* of panic
    left,             \* notes that pairs() in stopAllPlaying has not come to
    missed,           \* history: notes of input events without effect
    own,              \* history: notes that a script sent last, not the wire
    lost,             \* history: notes whose entry and sound were parted
    cuts

hostVars == <<held, time>>
chainVars == <<sounding, later>>
tables == <<inputNotesDown, outputNotesDown>>
callVars == <<pc, event, caller, calls, todo, left>>
histories == <<missed, own, lost>>
vars == <<held, time, sounding, later, inputNotesDown, outputNotesDown, passes,
          halted, pc, event, caller, calls, todo, left, missed, own, lost, cuts>>

Empty == [n \in Notes |-> Nil]

Init ==
    /\ held = {} /\ time = 0 /\ sounding = {} /\ later = <<>>
    /\ inputNotesDown = Empty /\ outputNotesDown = Empty
    /\ passes \in BOOLEAN /\ halted = FALSE
    /\ pc = "idle" /\ event = NoEvent /\ caller = "idle" /\ calls = 0 /\ todo = <<>>
    /\ left = {} /\ missed = {} /\ own = {} /\ lost = {} /\ cuts = 0

-----------------------------------------------------------------------------
(* At the other end: only a note on with a velocity sounds, and the two    *)
(* controllers of panic end what sounds on their channel.                  *)
Sounds(e) == e.type = "noteOn" /\ e.byte3 > 0
Play(e, s) == IF Sounds(e) THEN s \cup {e.note} ELSE s \ {e.note}

(* What sounds when the frame is over: for each note the last event that   *)
(* waits for it decides, or what sounds now if none does.                  *)
LastFor(n, k) == later[k].note = n /\ \A l \in (k + 1)..Len(later) : later[l].note # n
WillSound == {n \in Notes :
    \/ \E k \in 1..Len(later) : LastFor(n, k) /\ Sounds(later[k])
    \/ n \in sounding /\ \A k \in 1..Len(later) : later[k].note # n}

FrameEnds ==
    /\ pc = "idle"
    /\ sounding' = WillSound /\ later' = <<>> /\ time' = 0
    /\ UNCHANGED <<held, tables, passes, halted, callVars, histories, cuts>>

Room(e) == e.delta = 0 \/ Len(later) < MaxLater

-----------------------------------------------------------------------------
(* recvMidiEvent: the host sends the events of a frame in their order.     *)
recvMidiEvent(e) ==
    /\ pc = "idle" /\ e.delta >= time /\ Room(e)
    /\ time' = e.delta /\ held' = Play(e, held)
    /\ IF halted
       THEN missed' = missed \cup {e.note} /\ UNCHANGED <<pc, event>>
       ELSE pc' = "newMidiEvent" /\ event' = e /\ UNCHANGED missed
    /\ UNCHANGED <<chainVars, tables, passes, halted, caller, calls, todo, left,
                   own, lost, cuts>>

\* mutant of Mapped: the velocity is not looked at
MappedNot(e) == e

\* zero velocity to note off
Mapped(e) == IF e.byte3 = 0 THEN [e EXCEPT !.type = "noteOff"] ELSE e

Noted(table, e) == CASE e.type = "noteOn"  -> [table EXCEPT ![e.note] = e.byte3]
                     [] e.type = "noteOff" -> [table EXCEPT ![e.note] = Nil]
                     [] OTHER              -> table

\* up to midiEventCb, or sendMidi if there is nothing else to do
newMidiEvent ==
    LET e == Mapped(event)
    IN  /\ pc = "newMidiEvent"
        /\ inputNotesDown' = Noted(inputNotesDown, e)
        /\ missed' = missed \ {e.note}
        /\ IF passes THEN pc' = "sendMidi" /\ event' = e
           ELSE pc' = "script" /\ event' = NoEvent
        /\ caller' = "idle"
        /\ UNCHANGED <<hostVars, chainVars, outputNotesDown, passes, halted, calls,
                       todo, left, own, lost, cuts>>

\* onFrameCb, valueChangedCb and the others, doSchedule included: of any script
Callback ==
    /\ pc = "idle" /\ ~halted /\ pc' = "script"
    /\ UNCHANGED <<hostVars, chainVars, tables, passes, halted, event, caller,
                   calls, todo, left, histories, cuts>>

-----------------------------------------------------------------------------
Calls(e, from) ==
    /\ pc' = "sendMidi" /\ event' = e /\ caller' = from
    /\ UNCHANGED <<hostVars, chainVars, tables, passes, halted, histories, cuts>>

\* the script sends, or calls one of the two functions
ScriptSends(e) ==
    /\ pc = "script" /\ calls < MaxSends /\ Room(e)
    /\ calls' = calls + 1 /\ UNCHANGED <<todo, left>>
    /\ Calls(e, "script")

PanicEvents ==
    LET cc(n) == [type |-> "cc", note |-> n, byte3 |-> 0, delta |-> 0]
        loop == [n \in Notes |-> cc(n)]
    IN  loop \o loop    \* 123 on all channels, then 120

ScriptCalls ==
    /\ pc = "script" /\ calls < MaxSends
    /\ calls' = calls + 1
    /\ \/ pc' = "stopAllPlaying" /\ left' = Notes /\ UNCHANGED todo
       \/ pc' = "panic" /\ todo' = PanicEvents /\ UNCHANGED left
    /\ UNCHANGED <<hostVars, chainVars, tables, passes, halted, event, caller,
                   histories, cuts>>

CallbackEnds ==
    /\ pc = "script" /\ pc' = "idle" /\ calls' = 0
    /\ UNCHANGED <<hostVars, chainVars, tables, passes, halted, event, caller, todo,
                   left, histories, cuts>>

noteOff(n) == [type |-> "noteOff", note |-> n, byte3 |-> 0, delta |-> 0]
\* pairs() comes once to each key it still finds, in any order
StopNext ==
    /\ pc = "stopAllPlaying"
    /\ \E n \in left : /\ outputNotesDown[n] # Nil
                      /\ left' = left \ {n} /\ Calls(noteOff(n), pc)
    /\ UNCHANGED <<calls, todo>>
StopEnds ==
    /\ pc = "stopAllPlaying" /\ \A n \in left : outputNotesDown[n] = Nil
    /\ pc' = "return" /\ left' = {}
    /\ UNCHANGED <<hostVars, chainVars, tables, passes, halted, event, caller,
                   calls, todo, histories, cuts>>

PanicNext ==
    /\ pc = "panic" /\ todo # <<>>
    /\ todo' = Tail(todo) /\ Calls(Head(todo), pc)
    /\ UNCHANGED <<calls, left>>

\* mutant of PanicEnds: the table is kept
PanicEndsOnly ==
    /\ pc = "panic" /\ todo = <<>>
    /\ pc' = "return"
    /\ UNCHANGED <<hostVars, chainVars, tables, passes, halted, event, caller,
                   calls, todo, left, histories, cuts>>

PanicEnds ==
    /\ pc = "panic" /\ todo = <<>>
    /\ outputNotesDown' = Empty /\ pc' = "return"
    /\ UNCHANGED <<hostVars, chainVars, inputNotesDown, passes, halted, event,
                   caller, calls, todo, left, histories, cuts>>

\* from either of the two
Returns ==
    /\ pc = "return" /\ pc' = "script"
    /\ UNCHANGED <<hostVars, chainVars, tables, passes, halted, event, caller,
                   calls, todo, left, histories, cuts>>

-----------------------------------------------------------------------------
(* sendMidi: the table first, then _sendMidi.                              *)
sendMidi ==
    /\ pc = "sendMidi" /\ pc' = "send"
    /\ outputNotesDown' = Noted(outputNotesDown, event)
    /\ UNCHANGED <<hostVars, chainVars, inputNotesDown, passes, halted, event,
                   caller, calls, todo, left, histories, cuts>>

\* it will be played before one that was sent earlier for the same note
Overtakes(e) == e.delta = 0 /\ \E k \in DOMAIN later : later[k].note = e.note

_sendMidi ==
    /\ pc = "send"
    /\ IF event.delta = 0
       THEN sounding' = Play(event, sounding) /\ UNCHANGED later
       ELSE later' = Append(later, event) /\ UNCHANGED sounding
    /\ lost' = IF Overtakes(event) THEN lost \cup {event.note}
               ELSE IF event.type = "cc" THEN lost ELSE lost \ {event.note}
    /\ own' = IF caller = "idle" THEN own \ {event.note}
              ELSE IF passes THEN own \cup {event.note} ELSE own
    /\ pc' = caller /\ event' = NoEvent /\ caller' = "idle"
    /\ UNCHANGED <<hostVars, tables, passes, halted, calls, todo, left, missed, cuts>>

-----------------------------------------------------------------------------
(* An error, or infiniteError: fatal_error halts the plugin.               *)
Cut ==
    /\ pc # "idle" /\ cuts < MaxCuts
    /\ cuts' = cuts + 1 /\ halted' = TRUE
    /\ missed' = IF pc = "newMidiEvent" \/ (pc = "sendMidi" /\ caller = "idle")
                 THEN missed \cup {event.note} ELSE missed
    /\ lost' = IF pc = "panic" \/ caller = "panic" THEN Notes
               ELSE IF pc = "send" THEN lost \cup {event.note} ELSE lost
    /\ pc' = "idle" /\ event' = NoEvent /\ caller' = "idle" /\ calls' = 0
    /\ todo' = <<>> /\ left' = {}
    /\ UNCHANGED <<hostVars, chainVars, tables, passes, own>>

\* suspend, the buttons, resume
Halt ==
    /\ pc = "idle" /\ halted' = ~halted
    /\ UNCHANGED <<hostVars, chainVars, tables, passes, callVars, histories, cuts>>

\* reInit: the tables are those of the new state, the host is not told
Restart ==
    /\ pc = "idle"
    /\ inputNotesDown' = Empty /\ outputNotesDown' = Empty
    /\ passes' \in BOOLEAN /\ halted' = FALSE
    /\ missed' = missed \cup held /\ own' = {}
    /\ lost' = lost \cup WillSound
    /\ UNCHANGED <<hostVars, chainVars, callVars, cuts>>

-----------------------------------------------------------------------------
Script == (\E e \in NoteEvent : ScriptSends(e)) \/ ScriptCalls \/ CallbackEnds
Instruction ==
    \/ newMidiEvent \/ sendMidi \/ _sendMidi \/ Script
    \/ StopNext \/ StopEnds \/ PanicNext \/ PanicEnds \/ Returns

Next ==
    \/ \E e \in NoteEvent : recvMidiEvent(e)
    \/ FrameEnds \/ Callback \/ Instruction \/ Cut \/ Halt \/ Restart

Spec == Init /\ [][Next]_vars

-----------------------------------------------------------------------------
TypeOK ==
    /\ held \subseteq Notes /\ time \in Deltas
    /\ sounding \subseteq Notes /\ later \in Seq(NoteEvent)
    /\ inputNotesDown \in [Notes -> Velocities \cup {Nil}]
    /\ outputNotesDown \in [Notes -> Velocities \cup {Nil}]
    /\ passes \in BOOLEAN /\ halted \in BOOLEAN
    /\ pc \in {"idle", "newMidiEvent", "script", "sendMidi", "send",
               "stopAllPlaying", "panic", "return"}
    /\ event \in NoteEvent \cup CCEvent \cup {NoEvent}
    /\ caller \in {"idle", "script", "stopAllPlaying", "panic"}
    /\ calls \in 0..MaxSends /\ todo \in Seq(CCEvent)
    /\ left \subseteq Notes /\ missed \subseteq Notes /\ own \subseteq Notes
    /\ lost \subseteq Notes /\ cuts \in 0..MaxCuts

\* stopAllPlaying and panic are over
Silent == WillSound \subseteq lost

(* Between callbacks, and whenever the script is at work, outputNotesDown  *)
(* tells what sounds: a positive entry for each note that sounds, or will  *)
(* at the end of the frame, and for no other.  So stopAllPlaying, which    *)
(* goes through a table that loses its entries meanwhile, and panic leave  *)
(* nothing that sounds (docs/VstLuaApi.html:1004 and :994).  Not told are  *)
(* the notes of a call that was cut between the table and the sending, or  *)
(* in panic; those sent ahead and then switched off "now"; and those that  *)
(* sounded at a restart.                                                   *)
TableTellsWhatSounds ==
    /\ pc \in {"idle", "script"} =>
          \A n \in Notes \ lost : n \in WillSound <=> outputNotesDown[n] > 0
    /\ pc = "return" => Silent

InputTableTellsKeys == pc = "idle" =>
    \A n \in Notes \ missed : n \in held <=> inputNotesDown[n] # Nil

\* without midiEventCb and filters the plugin is a wire, but for its own notes
PassedThrough == pc = "idle" /\ passes =>
    \A n \in Notes \ (missed \cup own \cup lost) : n \in WillSound <=> n \in held

(* inputNotesDown has an entry for each key that is held, and for no       *)
(* other; except for keys whose last event came while the plugin was       *)
(* halted, or was cut off, or came to an earlier script.  In particular no *)
(* entry is left by a note on of velocity 0.  Without midiEventCb and      *)
(* filters those keys are the notes that sound, except for notes that the  *)
(* script itself has sent since, from another callback.                    *)
InputInv == TypeOK /\ InputTableTellsKeys /\ PassedThrough

-----------------------------------------------------------------------------
(* The inductive invariant.  First, which event is at which place.         *)
Sending == pc \in {"sendMidi", "send"}
PlaceInv ==
    /\ pc = "newMidiEvent" => event \in NoteEvent
    /\ Sending => event \in CASE caller = "panic" -> CCEvent
                               [] caller = "stopAllPlaying" -> {noteOff(n) : n \in Notes}
                               [] OTHER -> NoteEvent
    /\ ~Sending => caller = "idle"

\* the event of a key is on its way to the table
KeyInv == \A n \in Notes :
    IF pc = "newMidiEvent" /\ event.note = n THEN n \in held <=> Sounds(event)
    ELSE n \notin missed => (n \in held <=> inputNotesDown[n] # Nil)

(* A note that is between the table and the host.  In panic the table is   *)
(* ignored: a note is silent as soon as its controllers have been sent.    *)
Panicking == pc = "panic" \/ caller = "panic"
SoundInv ==
    IF Panicking
    THEN \A n \in Notes : \/ n \in lost \/ n \notin WillSound
                          \/ Sending /\ event.note = n
                          \/ \E k \in 1..Len(todo) : todo[k].note = n
    ELSE \A n \in Notes :
            IF pc = "send" /\ event.note = n THEN outputNotesDown[n] > 0 <=> Sounds(event)
            ELSE n \notin lost => (n \in WillSound <=> outputNotesDown[n] > 0)

\* stopAllPlaying has still to come to every entry
StopInv == pc = "stopAllPlaying" \/ caller = "stopAllPlaying" =>
    \A n \in Notes : outputNotesDown[n] # Nil =>
        n \in left \/ (pc = "sendMidi" /\ event.note = n)

\* the event of a wire is what the host told
Passing == pc \in {"newMidiEvent", "sendMidi", "send"} /\ caller = "idle"
WireInv == passes => \A n \in Notes :
    IF Passing /\ event.note = n THEN n \in held <=> Sounds(event)
    ELSE n \notin missed \cup own \cup lost => (n \in WillSound <=> n \in held)

IInv == /\ TypeOK /\ PlaceInv /\ KeyInv /\ SoundInv /\ StopInv /\ WireInv
        /\ pc = "return" => Silent
=============================================================================
