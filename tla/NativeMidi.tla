------------------------------ MODULE NativeMidi ------------------------------
(***************************************************************************)
(* MIDI ports that a script opens by itself (src/lua/nativemidi.lua,       *)
(* src/nativemidi.cpp).  Windows numbers the ports anew whenever a device  *)
(* is plugged in or out, in ports and out ports apart, and several ports   *)
(* may have one name; nativemidi.lua keeps the numbers by name, and the C  *)
(* functions the handles by number, in tables of the Lua state that go     *)
(* with it.  Whether a port opens or closes is up to its driver.           *)
(* No name here is one of NoteState, so that both can be used together.    *)
(***************************************************************************)
EXTENDS Naturals, Sequences, SequencesExt

CONSTANTS Devices, NoDevice, \* names of devices
          Keys,        \* what a driver gives for an open port
          NotOpen, NoHandle,
          MaxPorts,    \* bound: ports of each way
          MaxRestarts, \* bound: further Lua states
          MaxPlugs     \* bound: changes of the list of devices

Ways == {"in", "out"}
Ids == [way : Ways, number : 1..MaxPorts]
Handle == [key : Keys, id : Ids, device : Devices, script : 1..(MaxRestarts + 1)]

ASSUME NoDeviceAssumption == NoDevice \notin Devices
ASSUME NotOpenAssumption == NotOpen \notin Ids
ASSUME NoHandleAssumption == NoHandle \notin Handle
ASSUME PortBoundsAssumption == MaxPorts \in Nat /\ MaxRestarts \in Nat /\ MaxPlugs \in Nat

Lists == [Ways -> UNION {[1..n -> Devices] : n \in 0..MaxPorts}]

VARIABLES
    devices, plugs,    \* as midiInGetDevCaps and midiOutGetDevCaps list them
    open,              \* handles that a driver has given and not taken back
    script,            \* number of the Lua state
    stopped,           \* halted, of the plugin
    ports,             \* _openInPorts and _openOutPorts: number to handle
    openMidiDevices,   \* name to number
    deviceIdMappings,  \* number to name
    step, name, id,    \* of openMidiDevice
    \* history of this Lua state
    renumbered,        \* the list of devices has changed
    closed,            \* names that closeMidiDevice was called for
    unmapped,          \* names cut off between the two tables
    \* history, of all of them: handles
    unnamed,           \* cut off before the tables of names
    unclosed           \* that a driver did not close

systemVars == <<devices, plugs, open>>
portTables == <<ports, openMidiDevices, deviceIdMappings>>
openVars == <<step, name, id>>
portHistories == <<renumbered, closed, unmapped, unnamed, unclosed>>
portVars == <<devices, plugs, open, script, stopped, ports, openMidiDevices,
              deviceIdMappings, step, name, id, renumbered, closed, unmapped, unnamed, unclosed>>

NoPorts == [n \in Ids |-> NoHandle]
NoneOpen == [d \in Devices |-> NotOpen]
NoMappings == [n \in Ids |-> NoDevice]

PortInit ==
    /\ devices \in Lists /\ plugs = 0
    /\ open = {} /\ script = 1 /\ stopped = FALSE
    /\ ports = NoPorts /\ openMidiDevices = NoneOpen /\ deviceIdMappings = NoMappings
    /\ step = "idle" /\ name = NoDevice /\ id = NotOpen
    /\ renumbered = FALSE /\ closed = {} /\ unmapped = {}
    /\ unnamed = {} /\ unclosed = {}

\* n is the number of a port of that name
Names(n, d) == n.number \in DOMAIN devices[n.way] /\ devices[n.way][n.number] = d

-----------------------------------------------------------------------------
(* Windows *)
Plug(l) ==
    /\ plugs < MaxPlugs /\ plugs' = plugs + 1
    /\ devices' = l /\ renumbered' = TRUE
    /\ UNCHANGED <<open, script, stopped, portTables, openVars, closed, unmapped,
                   unnamed, unclosed>>

-----------------------------------------------------------------------------
Runs == step = "idle" /\ ~stopped

\* an error: fatal_error halts, unless the script itself called through pcall
CallEnds == step' = "idle" /\ name' = NoDevice /\ id' = NotOpen
Error == CallEnds /\ stopped' \in {stopped, TRUE}

\* in ports are entered first, out ports over them, each list in order
Over(n, m) == \/ n.way = m.way /\ n.number > m.number
              \/ n.way = "out" /\ m.way = "in"

\* mutant of getMidiDeviceID: in ports lose their bit 0x8000
getMidiDeviceIDOut(d) ==
    {[n EXCEPT !.way = "out"] : n \in {m \in Ids : Names(m, d)}}

\* the entry of the name in its table: one number, or none
getMidiDeviceID(d) ==
    {n \in Ids : Names(n, d) /\ \A m \in Ids : Names(m, d) => ~Over(m, n)}

\* openMidiDevice up to _openMidiDevice; the other cases only return false
openMidiDevice(d) ==
    /\ Runs /\ openMidiDevices[d] = NotOpen
    /\ step' = "open" /\ name' = d /\ id' \in getMidiDeviceID(d)
    /\ UNCHANGED <<systemVars, script, stopped, portTables, portHistories>>

\* a driver that serves several clients opens a port once more
_openMidiDevice(key) ==
    LET handle == [key |-> key, id |-> id, device |-> devices[id.way][id.number],
                   script |-> script]
    IN  /\ step = "open" /\ step' = "opened"
        /\ id.number \in DOMAIN devices[id.way] /\ \A h \in open : h.key # key
        /\ open' = open \cup {handle}
        /\ ports' = [ports EXCEPT ![id] = handle]
        /\ UNCHANGED <<devices, plugs, script, stopped, openMidiDevices,
                       deviceIdMappings, name, id, portHistories>>

\* the message puts the result, nil, into a string
CouldNotBeOpened ==
    /\ step = "open" /\ Error
    /\ UNCHANGED <<systemVars, script, portTables, portHistories>>

KeepsNumber ==
    /\ step = "opened" /\ step' = "known"
    /\ openMidiDevices' = [openMidiDevices EXCEPT ![name] = id]
    /\ UNCHANGED <<systemVars, script, stopped, ports, deviceIdMappings, name, id,
                   portHistories>>
KeepsName ==
    /\ step = "known" /\ CallEnds
    /\ deviceIdMappings' = [deviceIdMappings EXCEPT ![id] = name]
    /\ UNCHANGED <<systemVars, script, stopped, ports, openMidiDevices, portHistories>>

\* the execution trap
CutOpening ==
    /\ step # "idle" /\ Error
    /\ unnamed' = unnamed \cup {ports[n] : n \in {m \in {id} : step = "opened"}}
    /\ unmapped' = unmapped \cup {d \in {name} : step = "known"}
    /\ UNCHANGED <<systemVars, script, portTables, renumbered, closed, unclosed>>

-----------------------------------------------------------------------------
\* mutant of _closeMidiDevice: the entry is kept
_closeMidiDeviceOnly(n) ==
    /\ open' = open \ {ports[n]} /\ unnamed' = unnamed \ {ports[n]}
    /\ UNCHANGED <<ports, unclosed>>

\* the result of midiInClose and midiOutClose is not looked at
_closeMidiDevice(n) ==
    /\ ports' = [ports EXCEPT ![n] = NoHandle]
    /\ \/ /\ open' = open \ {ports[n]} /\ unnamed' = unnamed \ {ports[n]}
          /\ UNCHANGED unclosed
       \/ /\ ports[n] # NoHandle /\ unclosed' = unclosed \cup {ports[n]}
          /\ UNCHANGED <<open, unnamed>>

\* the next line takes openMidiDevice[name], of a function: an error, and
\* the tables of names stay as they are
closeMidiDevice(d) ==
    /\ Runs /\ openMidiDevices[d] # NotOpen
    /\ _closeMidiDevice(openMidiDevices[d])
    /\ Error
    /\ closed' = closed \cup {d}
    /\ UNCHANGED <<devices, plugs, script, openMidiDevices, deviceIdMappings,
                   renumbered, unmapped>>

\* cleanUpMidiLua gives the numbers instead of the handles to midiOutClose
cleanUpMidi == UNCHANGED <<open, unnamed, unclosed>>

\* closeInterpreter, and a new Lua state
reInit ==
    /\ step = "idle" /\ script <= MaxRestarts
    /\ cleanUpMidi
    /\ script' = script + 1 /\ stopped' = FALSE
    /\ ports' = NoPorts /\ openMidiDevices' = NoneOpen
    /\ deviceIdMappings' = NoMappings
    /\ renumbered' = FALSE /\ closed' = {} /\ unmapped' = {}
    /\ UNCHANGED <<devices, plugs, openVars>>

HaltScript ==
    /\ step = "idle" /\ stopped' = ~stopped
    /\ UNCHANGED <<systemVars, script, portTables, openVars, portHistories>>

-----------------------------------------------------------------------------
PortNext ==
    \/ \E l \in Lists \ {devices} : Plug(l)
    \/ \E d \in Devices : openMidiDevice(d) \/ closeMidiDevice(d)
    \/ \E key \in Keys : _openMidiDevice(key)
    \/ CouldNotBeOpened \/ KeepsNumber \/ KeepsName \/ CutOpening
    \/ reInit \/ HaltScript

PortSpec == PortInit /\ [][PortNext]_portVars

-----------------------------------------------------------------------------
PortTypeOK ==
    /\ devices \in Lists /\ plugs \in 0..MaxPlugs
    /\ open \subseteq Handle
    /\ script \in 1..(MaxRestarts + 1) /\ stopped \in BOOLEAN
    /\ ports \in [Ids -> Handle \cup {NoHandle}]
    /\ openMidiDevices \in [Devices -> Ids \cup {NotOpen}]
    /\ deviceIdMappings \in [Ids -> Devices \cup {NoDevice}]
    /\ step \in {"idle", "open", "opened", "known"}
    /\ IF step = "idle" THEN name = NoDevice /\ id = NotOpen ELSE name \in Devices /\ id \in Ids
    /\ renumbered \in BOOLEAN /\ closed \subseteq Devices /\ unmapped \subseteq Devices
    /\ unnamed \subseteq open /\ unclosed \subseteq open

HandlesLive == \A n \in Ids : ports[n] # NoHandle => ports[n] \in open

LeaksAccounted == \A h \in open :
    \/ ports[h.id] = h
    \/ h.script < script
    \/ h \in unclosed \/ h \in unnamed
    \/ renumbered

(* A handle in the registry is open, however the numbers have changed: no  *)
(* closed handle is sent to or closed again.  A port that the plugin still *)
(* has open and cannot close any more was opened by an earlier script, or  *)
(* its driver refused to close it, or the callback was cut short before    *)
(* the name was kept (and the port perhaps opened once more), or another   *)
(* device has got its number since.                                        *)
HandlesInv == PortTypeOK /\ HandlesLive /\ LeaksAccounted

(* As long as the ports are not renumbered a script that knows a device by *)
(* name reaches a port of that name and of the way the name stood for, and *)
(* no other, and an event that comes in by number is told by that name:    *)
(* the three tables agree, but for a device that was to be closed (a name  *)
(* for good, without a port), one whose opening was cut short before the   *)
(* first table (a port without a name) and one cut short between the two   *)
(* (a name that is not told).                                              *)
NamesReachDevices == ~renumbered => \A n \in Ids :
    /\ \A d \in Devices : openMidiDevices[d] = n =>
         /\ deviceIdMappings[n] = d \/ d \in unmapped \/ (step = "known" /\ name = d)
         /\ d \notin closed => ports[n] # NoHandle /\ ports[n].device = d
    /\ ports[n] # NoHandle =>
         \/ openMidiDevices[ports[n].device] = n
         \/ step = "opened" /\ id = n
         \/ ports[n] \in unnamed

-----------------------------------------------------------------------------
(* The inductive invariant.  A handle is kept under the number it was      *)
(* opened by; until the ports are numbered anew every number in the tables *)
(* stands for the name that it is kept with, the last port of it.          *)
PortsInv ==
    /\ \A n \in Ids : ports[n] # NoHandle => ports[n].id = n /\ ports[n] \notin unclosed
    /\ \A h \in open : h.script <= script
    /\ step = "opened" => ports[id] # NoHandle

Entry == [d \in Devices |-> getMidiDeviceID(d)]

NumbersInv == ~renumbered =>
    /\ step # "idle" => id \in Entry[name]
    /\ step \in {"open", "opened"} => openMidiDevices[name] = NotOpen
    /\ step = "open" => ports[id] = NoHandle \/ ports[id] \in unnamed
    /\ step = "known" => openMidiDevices[name] = id
    /\ \A d \in Devices : openMidiDevices[d] # NotOpen => openMidiDevices[d] \in Entry[d]
    /\ \A n \in Ids : ports[n] # NoHandle => n \in Entry[ports[n].device]

PortIInv == HandlesInv /\ PortsInv /\ NumbersInv /\ NamesReachDevices
=============================================================================
