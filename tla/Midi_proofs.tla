----------------------------- MODULE Midi_proofs -----------------------------
(***************************************************************************)
(* Proofs about the two modules of MIDI: NativeMidi for any devices, any   *)
(* number of changes of their list and any number of scripts one after the *)
(* other, and NoteState for any number of notes, of events in a callback   *)
(* or in a frame, and of callbacks that are cut short.                     *)
(***************************************************************************)
EXTENDS NativeMidi, NoteState, FiniteSetTheorems, TLAPS

(* Every entry of a list is a name, under a number within the bound.       *)
LEMMA Listed ==
  ASSUME NEW l \in Lists, NEW w \in Ways
  PROVE  DOMAIN l[w] \subseteq 1..MaxPorts /\ \A i \in DOMAIN l[w] : l[w][i] \in Devices
<1>1. PICK n \in 0..MaxPorts : l[w] \in [1..n -> Devices]
  BY DEF Lists
<1> QED
  BY <1>1, PortBoundsAssumption

(* getMidiDeviceID has at most one number for a name, of a port of that    *)
(* name, and no number for two names.                                      *)
LEMMA Found ==
  ASSUME NEW d \in Devices
  PROVE  /\ Entry[d] \subseteq Ids
         /\ \A n \in Entry[d] : Names(n, d)
         /\ \A m, n \in Entry[d] : m = n
         /\ \A e \in Devices, n \in Entry[d] : n \in Entry[e] => d = e
<1>1. Entry[d] \subseteq Ids /\ \A n \in Entry[d] : Names(n, d)
  BY DEF Entry, getMidiDeviceID
<1>2. \A m, n \in Entry[d] : m = n
  <2> SUFFICES ASSUME NEW m \in Entry[d], NEW n \in Entry[d] PROVE m = n
    OBVIOUS
  <2>1. m \in Ids /\ n \in Ids /\ ~Over(m, n) /\ ~Over(n, m)
    BY DEF Entry, getMidiDeviceID
  <2>2. m.way = n.way
    BY <2>1 DEF Over, Ids, Ways
  <2>3. m.number = n.number
    BY <2>1, <2>2, PortBoundsAssumption DEF Over, Ids
  <2> QED
    BY <2>1, <2>2, <2>3 DEF Ids
<1>3. \A e \in Devices, n \in Entry[d] : n \in Entry[e] => d = e
  BY DEF Entry, getMidiDeviceID, Names
<1> QED
  BY <1>1, <1>2, <1>3

(* What an opening makes of a number: a handle of the name it stands for.  *)
LEMMA NewHandle ==
  ASSUME PortTypeOK, NEW key \in Keys, _openMidiDevice(key)
  PROVE  \E h \in Handle :
            /\ h \notin open /\ h # NoHandle /\ h.id = id /\ h.script = script
            /\ open' = open \cup {h}
            /\ ports' = [ports EXCEPT ![id] = h]
            /\ \A d \in Devices : Names(id, d) => h.device = d
<1> DEFINE h == [key |-> key, id |-> id, device |-> devices[id.way][id.number], script |-> script]
<1>1. id \in Ids /\ devices \in Lists /\ script \in 1..(MaxRestarts + 1)
  BY DEF PortTypeOK, _openMidiDevice
<1>2. id.way \in Ways /\ id.number \in DOMAIN devices[id.way]
  BY <1>1 DEF Ids, _openMidiDevice
<1>3. devices[id.way][id.number] \in Devices
  BY <1>1, <1>2, Listed
<1>4. h \in Handle /\ h # NoHandle
  BY <1>1, <1>3, NoHandleAssumption DEF Handle
<1>5. h \notin open
  BY DEF _openMidiDevice
<1>6. \A d \in Devices : Names(id, d) => h.device = d
  BY DEF Names
<1>7. open' = open \cup {h} /\ ports' = [ports EXCEPT ![id] = h]
  BY DEF _openMidiDevice
<1>8. h.id = id /\ h.script = script
  OBVIOUS
<1> HIDE DEF h
<1> QED
  BY <1>4, <1>5, <1>6, <1>7, <1>8

(* Every step keeps the types.                                             *)
LEMMA Typed ==
  ASSUME PortTypeOK, HandlesLive, PortsInv, PortNext
  PROVE  PortTypeOK'
<1> USE PortBoundsAssumption DEF PortTypeOK, systemVars, portTables, openVars, portHistories
<1>1. CASE (\E l \in Lists \ {devices} : Plug(l))
  BY <1>1 DEF Plug
<1>2. CASE (\E d \in Devices : openMidiDevice(d))
  <2>1. PICK d \in Devices : openMidiDevice(d)
    BY <1>2
  <2>2. id' \in Ids
    BY <2>1 DEF openMidiDevice, getMidiDeviceID
  <2> QED
    BY <2>1, <2>2 DEF openMidiDevice
<1>3. CASE (\E d \in Devices : closeMidiDevice(d))
  <2>1. PICK d \in Devices : closeMidiDevice(d)
    BY <1>3
  <2>2. openMidiDevices[d] \in Ids
    BY <2>1 DEF closeMidiDevice
  <2>3. stopped' \in BOOLEAN
    BY <2>1, Zenon DEF closeMidiDevice, Error
  <2>4. open' \subseteq Handle /\ unnamed' \subseteq open' /\ unclosed' \subseteq open'
        /\ ports' \in [Ids -> Handle \cup {NoHandle}]
    BY <2>1, <2>2, NoHandleAssumption DEF closeMidiDevice, _closeMidiDevice, HandlesLive, PortsInv
  <2> QED
    BY <2>1, <2>3, <2>4 DEF closeMidiDevice, Error, CallEnds
<1>4. CASE (\E key \in Keys : _openMidiDevice(key))
  <2>1. PICK key \in Keys : _openMidiDevice(key)
    BY <1>4
  <2>2. PICK h \in Handle : open' = open \cup {h} /\ ports' = [ports EXCEPT ![id] = h]
    BY <2>1, NewHandle
  <2> QED
    BY <2>1, <2>2 DEF _openMidiDevice
<1>5. CASE CouldNotBeOpened
  <2>1. stopped' \in BOOLEAN
    BY <1>5, Zenon DEF CouldNotBeOpened, Error
  <2> QED
    BY <1>5, <2>1 DEF CouldNotBeOpened, Error, CallEnds
<1>6. CASE KeepsNumber
  BY <1>6 DEF KeepsNumber
<1>7. CASE KeepsName
  BY <1>7 DEF KeepsName, CallEnds
<1>8. CASE CutOpening
  <2>1. stopped' \in BOOLEAN
    BY <1>8, Zenon DEF CutOpening, Error
  <2>2. step = "opened" => id \in Ids /\ ports[id] \in open
    BY DEF HandlesLive, PortsInv
  <2>3. unnamed' \subseteq open
    BY <1>8, <2>2 DEF CutOpening
  <2>4. unmapped' \subseteq Devices
    BY <1>8 DEF CutOpening
  <2> QED
    BY <1>8, <2>1, <2>3, <2>4 DEF CutOpening, Error, CallEnds
<1>9. CASE reInit
  <2>1. stopped' \in BOOLEAN /\ renumbered' \in BOOLEAN
    BY <1>9, Zenon DEF reInit
  <2>2. script' \in 1..(MaxRestarts + 1)
    BY <1>9 DEF reInit
  <2> QED
    BY <1>9, <2>1, <2>2 DEF reInit, cleanUpMidi, NoPorts, NoneOpen, NoMappings
<1>10. CASE HaltScript
  BY <1>10 DEF HaltScript
<1> QED
  BY <1>1, <1>2, <1>3, <1>4, <1>5, <1>6, <1>7, <1>8, <1>9, <1>10 DEF PortNext

(* The handles: live, each under its number, and accounted for.            *)
LEMMA KeepsHandles ==
  ASSUME HandlesInv, PortsInv, NumbersInv, PortNext
  PROVE  HandlesLive' /\ LeaksAccounted' /\ PortsInv'
<1> USE NoHandleAssumption DEF HandlesInv, systemVars, portTables, openVars, portHistories
<1>0. /\ ports \in [Ids -> Handle \cup {NoHandle}] /\ open \subseteq Handle
      /\ script \in Nat /\ \A h \in open : h.script \in Nat /\ h.id \in Ids
      /\ unclosed \subseteq open
  BY PortBoundsAssumption DEF PortTypeOK, Handle
<1>1. CASE (\E l \in Lists \ {devices} : Plug(l))
  BY <1>1, <1>0 DEF Plug, HandlesLive, LeaksAccounted, PortsInv
<1>2. CASE (\E d \in Devices : openMidiDevice(d))
  BY <1>2, <1>0 DEF openMidiDevice, Runs, HandlesLive, LeaksAccounted, PortsInv
<1>3. CASE (\E d \in Devices : closeMidiDevice(d))
  <2>1. PICK d \in Devices : closeMidiDevice(d)
    BY <1>3
  <2>2. PICK n \in Ids : _closeMidiDevice(n)
    BY <2>1 DEF closeMidiDevice, PortTypeOK
  <2>3. \A m \in Ids : ports'[m] = IF m = n THEN NoHandle ELSE ports[m]
    BY <1>0, <2>2 DEF _closeMidiDevice
  <2>4. \/ open' = open /\ unclosed' = unclosed \cup {ports[n]} /\ unnamed' = unnamed
        \/ open' = open \ {ports[n]} /\ unclosed' = unclosed /\ unnamed' = unnamed \ {ports[n]}
    BY <2>2 DEF _closeMidiDevice
  <2>5. step' = "idle" /\ UNCHANGED <<script, renumbered>>
    BY <2>1 DEF closeMidiDevice, Error, CallEnds
  <2>6. \A m \in Ids : m # n /\ ports[m] # NoHandle => ports[m] # ports[n]
    BY DEF PortsInv
  <2>7. HandlesLive' /\ PortsInv'
    BY <1>0, <2>3, <2>4, <2>5, <2>6 DEF HandlesLive, PortsInv
  <2>8. LeaksAccounted'
    <3> SUFFICES ASSUME NEW h \in open', ~(h.script < script), ~renumbered,
                        h \notin unclosed', h \notin unnamed'
                 PROVE  ports'[h.id] = h
      BY <2>5 DEF LeaksAccounted
    <3>1. h \in open /\ h \notin unclosed /\ h # ports[n]
      BY <2>4
    <3>2. h \notin unnamed
      BY <2>4, <3>1
    <3>3. ports[h.id] = h /\ h.id \in Ids
      BY <1>0, <3>1, <3>2 DEF LeaksAccounted
    <3>4. h.id # n
      BY <3>1, <3>3
    <3> QED
      BY <2>3, <3>3, <3>4
  <2> QED
    BY <2>7, <2>8
<1>4. CASE (\E key \in Keys : _openMidiDevice(key))
  <2>1. PICK key \in Keys : _openMidiDevice(key)
    BY <1>4
  <2>2. PICK h \in Handle : /\ h \notin open /\ h # NoHandle /\ h.id = id /\ h.script = script
                            /\ open' = open \cup {h} /\ ports' = [ports EXCEPT ![id] = h]
    BY <2>1, NewHandle
  <2>3. /\ step = "open" /\ step' = "opened" /\ id \in Ids
        /\ UNCHANGED <<script, renumbered, unclosed, unnamed, id>>
    BY <2>1 DEF _openMidiDevice, PortTypeOK
  <2>4. \A m \in Ids : ports'[m] = IF m = id THEN h ELSE ports[m]
    BY <1>0, <2>2
  <2>5. HandlesLive' /\ PortsInv'
    BY <1>0, <2>2, <2>3, <2>4 DEF HandlesLive, PortsInv
  <2>6. LeaksAccounted'
    <3> SUFFICES ASSUME NEW g \in open', ~(g.script < script), ~renumbered,
                        g \notin unclosed, g \notin unnamed
                 PROVE  ports'[g.id] = g
      BY <2>3 DEF LeaksAccounted
    <3>1. CASE g = h
      BY <2>2, <2>3, <2>4, <3>1
    <3>2. CASE g \in open
      <4>1. ports[g.id] = g /\ g.id \in Ids /\ g # NoHandle
        BY <1>0, <3>2 DEF LeaksAccounted
      <4>2. g.id # id
        BY <2>3, <4>1 DEF NumbersInv
      <4> QED
        BY <2>4, <4>1, <4>2
    <3> QED
      BY <2>2, <3>1, <3>2
  <2> QED
    BY <2>5, <2>6
<1>5. CASE CouldNotBeOpened
  BY <1>5, <1>0 DEF CouldNotBeOpened, Error, CallEnds, HandlesLive, LeaksAccounted, PortsInv
<1>6. CASE KeepsNumber
  BY <1>6, <1>0 DEF KeepsNumber, HandlesLive, LeaksAccounted, PortsInv
<1>7. CASE KeepsName
  BY <1>7, <1>0 DEF KeepsName, CallEnds, HandlesLive, LeaksAccounted, PortsInv
<1>8. CASE CutOpening
  <2>1. /\ step' = "idle" /\ unnamed \subseteq unnamed'
        /\ UNCHANGED <<open, script, ports, renumbered, unclosed>>
    BY <1>8 DEF CutOpening, Error, CallEnds
  <2> QED
    BY <1>0, <2>1 DEF HandlesLive, LeaksAccounted, PortsInv
<1>9. CASE reInit
  <2>1. /\ ports' = [m \in Ids |-> NoHandle] /\ open' = open /\ script' = script + 1
        /\ step' = "idle"
    BY <1>9 DEF reInit, cleanUpMidi, NoPorts
  <2>2. \A h \in open : h.script < script' /\ h.script <= script'
    BY <1>0, <2>1 DEF PortsInv
  <2> QED
    BY <1>0, <2>1, <2>2 DEF HandlesLive, LeaksAccounted, PortsInv
<1>10. CASE HaltScript
  BY <1>10, <1>0 DEF HaltScript, HandlesLive, LeaksAccounted, PortsInv
<1> QED
  BY <1>1, <1>2, <1>3, <1>4, <1>5, <1>6, <1>7, <1>8, <1>9, <1>10 DEF PortNext

(* Numbers and names, and the three tables, while the ports keep their     *)
(* numbers.                                                                *)
LEMMA KeepsNames ==
  ASSUME PortTypeOK, HandlesLive, PortsInv, NumbersInv, NamesReachDevices, PortNext,
         ~renumbered'
  PROVE  NumbersInv' /\ NamesReachDevices'
<1> USE NoHandleAssumption, NoDeviceAssumption, NotOpenAssumption
    DEF systemVars, portTables, openVars, portHistories
<1>0. /\ ports \in [Ids -> Handle \cup {NoHandle}]
      /\ openMidiDevices \in [Devices -> Ids \cup {NotOpen}]
      /\ deviceIdMappings \in [Ids -> Devices \cup {NoDevice}]
      /\ step # "idle" => name \in Devices /\ id \in Ids
      /\ \A n \in Ids : ports[n] # NoHandle => ports[n].device \in Devices
      /\ step \in {"idle", "open", "opened", "known"}
  BY DEF PortTypeOK, Handle
<1>00. devices' = devices => Entry' = Entry
  BY DEF Entry, getMidiDeviceID, Names
<1>000. \A d \in Devices : \A n \in Entry[d] : n \in Ids /\ Names(n, d) /\
          \A e \in Devices : n \in Entry[e] => d = e
  BY Found
<1>1. CASE (\E l \in Lists \ {devices} : Plug(l))
  BY <1>1 DEF Plug
<1>2. CASE (\E d \in Devices : openMidiDevice(d))
  <2>1. PICK d \in Devices : openMidiDevice(d)
    BY <1>2
  <2>2. /\ step = "idle" /\ step' = "open" /\ name' = d /\ id' \in Entry[d]
        /\ openMidiDevices[d] = NotOpen
        /\ UNCHANGED <<devices, ports, openMidiDevices, deviceIdMappings, renumbered, closed,
                       unmapped, unnamed>>
    BY <2>1 DEF openMidiDevice, Runs, Entry
  <2>3. Entry' = Entry
    BY <1>00, <2>2
  <2>4. ~renumbered
    BY <2>2
  <2>5. PICK n \in Entry[d] : id' = n
    BY <2>2
  <2>6. ports[n] = NoHandle \/ ports[n] \in unnamed
    BY <1>0, <1>000, <2>2, <2>4, <2>5 DEF NumbersInv, NamesReachDevices
  <2>7. NumbersInv'
    BY <2>2, <2>3, <2>4, <2>5, <2>6 DEF NumbersInv
  <2> QED
    BY <2>2, <2>4, <2>7 DEF NamesReachDevices
<1>3. CASE (\E d \in Devices : closeMidiDevice(d))
  <2>1. PICK d \in Devices : closeMidiDevice(d)
    BY <1>3
  <2>2. PICK c \in Ids : c = openMidiDevices[d] /\ _closeMidiDevice(c)
    BY <1>0, <2>1 DEF closeMidiDevice
  <2>3. /\ step = "idle" /\ step' = "idle" /\ closed' = closed \cup {d}
        /\ UNCHANGED <<devices, openMidiDevices, deviceIdMappings, renumbered, unmapped>>
    BY <2>1 DEF closeMidiDevice, Error, CallEnds, Runs
  <2>4. Entry' = Entry /\ ~renumbered
    BY <1>00, <2>3
  <2>5. /\ \A n \in Ids : ports'[n] = IF n = c THEN NoHandle ELSE ports[n]
        /\ unnamed \ {ports[c]} \subseteq unnamed'
    BY <1>0, <2>2 DEF _closeMidiDevice
  <2>6. \A n \in Ids : n # c /\ ports[n] # NoHandle => ports[n] # ports[c]
    BY DEF PortsInv
  <2>7. NumbersInv'
    BY <2>3, <2>4, <2>5 DEF NumbersInv
  <2>8. \A e \in Devices : openMidiDevices[e] = c => e = d
    BY <1>000, <2>2, <2>4 DEF NumbersInv
  <2> QED
    BY <2>3, <2>4, <2>5, <2>6, <2>7, <2>8 DEF NamesReachDevices
<1>4. CASE (\E key \in Keys : _openMidiDevice(key))
  <2>1. PICK key \in Keys : _openMidiDevice(key)
    BY <1>4
  <2>2. PICK h \in Handle : /\ h # NoHandle /\ ports' = [ports EXCEPT ![id] = h]
                            /\ \A d \in Devices : Names(id, d) => h.device = d
    BY <2>1, NewHandle
  <2>3. /\ step = "open" /\ step' = "opened"
        /\ UNCHANGED <<devices, openMidiDevices, deviceIdMappings, name, id, renumbered, closed,
                       unmapped, unnamed>>
    BY <2>1 DEF _openMidiDevice
  <2>4. Entry' = Entry /\ ~renumbered
    BY <1>00, <2>3
  <2>5. \A n \in Ids : ports'[n] = IF n = id THEN h ELSE ports[n]
    BY <1>0, <2>2
  <2>6. id \in Ids /\ name \in Devices /\ id \in Entry[name] /\ openMidiDevices[name] = NotOpen
    BY <1>0, <2>3, <2>4 DEF NumbersInv
  <2>7. h.device = name
    BY <1>000, <2>2, <2>6
  <2>8. NumbersInv'
    BY <2>3, <2>4, <2>5, <2>6, <2>7 DEF NumbersInv
  <2>9. \A d \in Devices : openMidiDevices[d] # id
    BY <1>000, <2>4, <2>6 DEF NumbersInv
  <2> QED
    BY <2>3, <2>4, <2>5, <2>8, <2>9 DEF NamesReachDevices
<1>5. CASE CouldNotBeOpened
  BY <1>5, <1>00 DEF CouldNotBeOpened, Error, CallEnds, NumbersInv, NamesReachDevices
<1>6. CASE KeepsNumber
  <2>1. /\ step = "opened" /\ step' = "known"
        /\ openMidiDevices' = [openMidiDevices EXCEPT ![name] = id]
        /\ UNCHANGED <<devices, ports, deviceIdMappings, name, id, renumbered, closed, unmapped,
                       unnamed>>
    BY <1>6 DEF KeepsNumber
  <2>2. Entry' = Entry /\ ~renumbered
    BY <1>00, <2>1
  <2>3. \A d \in Devices : openMidiDevices'[d] = IF d = name THEN id ELSE openMidiDevices[d]
    BY <1>0, <2>1
  <2>4. id \in Ids /\ name \in Devices /\ id \in Entry[name] /\ openMidiDevices[name] = NotOpen
    BY <1>0, <2>1, <2>2 DEF NumbersInv
  <2>5. ports[id] # NoHandle /\ ports[id].device = name
    BY <1>0, <1>000, <2>1, <2>2, <2>4 DEF NumbersInv, PortsInv
  <2>6. NumbersInv'
    BY <2>1, <2>2, <2>3, <2>4 DEF NumbersInv
  <2>7. \A d \in Devices, n \in Ids : openMidiDevices'[d] = n =>
          /\ deviceIdMappings[n] = d \/ d \in unmapped \/ name = d
          /\ d \notin closed => ports[n] # NoHandle /\ ports[n].device = d
    BY <2>1, <2>2, <2>3, <2>5 DEF NamesReachDevices
  <2>8. \A n \in Ids : ports[n] # NoHandle =>
          openMidiDevices'[ports[n].device] = n \/ ports[n] \in unnamed
    BY <1>0, <2>1, <2>2, <2>3, <2>4, <2>5 DEF NamesReachDevices
  <2> QED
    BY <2>1, <2>6, <2>7, <2>8 DEF NamesReachDevices
<1>7. CASE KeepsName
  <2>1. /\ step = "known" /\ step' = "idle"
        /\ deviceIdMappings' = [deviceIdMappings EXCEPT ![id] = name]
        /\ UNCHANGED <<devices, ports, openMidiDevices, renumbered, closed, unmapped, unnamed>>
    BY <1>7 DEF KeepsName, CallEnds
  <2>2. Entry' = Entry /\ ~renumbered
    BY <1>00, <2>1
  <2>3. \A n \in Ids : deviceIdMappings'[n] = IF n = id THEN name ELSE deviceIdMappings[n]
    BY <1>0, <2>1
  <2>4. id \in Ids /\ name \in Devices /\ id \in Entry[name] /\ openMidiDevices[name] = id
    BY <1>0, <2>1, <2>2 DEF NumbersInv
  <2>5. \A d \in Devices : openMidiDevices[d] = id => d = name
    BY <1>000, <2>2, <2>4 DEF NumbersInv
  <2>6. NumbersInv'
    BY <2>1, <2>2 DEF NumbersInv
  <2> QED
    BY <2>1, <2>2, <2>3, <2>4, <2>5, <2>6 DEF NamesReachDevices
<1>8. CASE CutOpening
  <2>1. /\ step # "idle" /\ step' = "idle"
        /\ UNCHANGED <<devices, ports, openMidiDevices, deviceIdMappings, renumbered, closed>>
        /\ unnamed \subseteq unnamed' /\ unmapped \subseteq unmapped'
        /\ step = "opened" => ports[id] \in unnamed'
        /\ step = "known" => name \in unmapped'
    BY <1>8 DEF CutOpening, Error, CallEnds
  <2>2. Entry' = Entry /\ ~renumbered
    BY <1>00, <2>1
  <2>3. NumbersInv'
    BY <2>1, <2>2 DEF NumbersInv
  <2> QED
    BY <2>1, <2>2, <2>3 DEF NamesReachDevices
<1>9. CASE reInit
  <2>1. /\ ports' = [n \in Ids |-> NoHandle] /\ openMidiDevices' = [d \in Devices |-> NotOpen]
        /\ step' = "idle"
    BY <1>9 DEF reInit, NoPorts, NoneOpen
  <2> QED
    BY <2>1 DEF NumbersInv, NamesReachDevices
<1>10. CASE HaltScript
  BY <1>10, <1>00 DEF HaltScript, NumbersInv, NamesReachDevices
<1> QED
  BY <1>1, <1>2, <1>3, <1>4, <1>5, <1>6, <1>7, <1>8, <1>9, <1>10 DEF PortNext

(* The invariant behind them all.                                          *)
THEOREM PortsInvariance == PortSpec => []PortIInv
<1>1. PortInit => PortIInv
  <2> SUFFICES ASSUME PortInit PROVE PortIInv
    OBVIOUS
  <2>1. PortTypeOK
    <3>1. stopped \in BOOLEAN /\ renumbered \in BOOLEAN
      BY Zenon DEF PortInit
    <3> QED
      BY <3>1, PortBoundsAssumption DEF PortInit, PortTypeOK, NoPorts, NoneOpen, NoMappings
  <2>2. HandlesLive /\ LeaksAccounted /\ PortsInv
    BY DEF PortInit, HandlesLive, LeaksAccounted, PortsInv, NoPorts
  <2>3. NumbersInv /\ NamesReachDevices
    BY NotOpenAssumption DEF PortInit, NumbersInv, NamesReachDevices, NoPorts, NoneOpen
  <2> QED
    BY <2>1, <2>2, <2>3 DEF PortIInv, HandlesInv
<1>2. PortIInv /\ [PortNext]_portVars => PortIInv'
  <2> SUFFICES ASSUME PortIInv, [PortNext]_portVars PROVE PortIInv'
    OBVIOUS
  <2>0. PortTypeOK /\ HandlesLive /\ HandlesInv /\ PortsInv /\ NumbersInv /\ NamesReachDevices
    BY DEF PortIInv, HandlesInv
  <2>1. CASE PortNext
    <3>1. PortTypeOK'
      BY <2>0, <2>1, Typed
    <3>2. HandlesLive' /\ LeaksAccounted' /\ PortsInv'
      BY <2>0, <2>1, KeepsHandles
    <3>3. NumbersInv' /\ NamesReachDevices'
      <4>1. CASE renumbered'
        BY <4>1 DEF NumbersInv, NamesReachDevices
      <4>2. CASE ~renumbered'
        BY <2>0, <2>1, <4>2, KeepsNames
      <4> QED
        BY <4>1, <4>2
    <3> QED
      BY <3>1, <3>2, <3>3 DEF PortIInv, HandlesInv
  <2>2. CASE UNCHANGED portVars
    <3>1. Entry' = Entry
      BY <2>2 DEF portVars, Entry, getMidiDeviceID, Names
    <3> QED
      BY <2>0, <2>2, <3>1 DEF portVars, PortIInv, HandlesInv, PortTypeOK, HandlesLive,
         LeaksAccounted, PortsInv, NumbersInv, NamesReachDevices
  <2> QED
    BY <2>1, <2>2
<1> QED
  BY <1>1, <1>2, PTL DEF PortSpec

(* A handle in the registry is open; what is open without one is of an     *)
(* earlier script, was not closed by its driver, was cut off before its    *)
(* name was kept, or the ports have been numbered anew.                    *)
THEOREM HandlesAreOpen == PortSpec => []HandlesInv
<1>1. PortIInv => HandlesInv
  BY DEF PortIInv
<1> QED
  BY <1>1, PortsInvariance, PTL

(* Until the ports are numbered anew a name reaches a port of that name.   *)
THEOREM NamesReach == PortSpec => []NamesReachDevices
<1>1. PortIInv => NamesReachDevices
  BY DEF PortIInv
<1> QED
  BY <1>1, PortsInvariance, PTL


-----------------------------------------------------------------------------
(* What sounds when the frame is over, after each way to change it.        *)
LEMMA WillSame ==
  ASSUME UNCHANGED chainVars
  PROVE  WillSound' = WillSound
BY DEF chainVars, WillSound, LastFor

LEMMA WillEnd ==
  ASSUME TypeOK, FrameEnds, NEW n \in Notes
  PROVE  n \in WillSound' <=> n \in WillSound
<1>1. sounding' = WillSound /\ Len(later') = 0 /\ 1..0 = {}
  BY DEF FrameEnds
<1> QED
  BY <1>1 DEF WillSound

LEMMA WillPlay ==
  ASSUME NEW e, later' = later, sounding' = Play(e, sounding), NEW n \in Notes
  PROVE  /\ n # e.note => (n \in WillSound' <=> n \in WillSound)
         /\ n = e.note /\ (\A k \in 1..Len(later) : later[k].note # n)
               => (n \in WillSound' <=> Sounds(e))
<1>1. n # e.note => (n \in sounding' <=> n \in sounding)
  BY DEF Play
<1>2. n = e.note => (n \in sounding' <=> Sounds(e))
  BY DEF Play
<1> HIDE DEF Sounds
<1>3. n # e.note => (n \in WillSound' <=> n \in WillSound)
  BY <1>1 DEF WillSound, LastFor
<1>4. ASSUME n = e.note, \A k \in 1..Len(later) : later[k].note # n
      PROVE  n \in WillSound' <=> Sounds(e)
  BY <1>2, <1>4 DEF WillSound, LastFor
<1> QED
  BY <1>3, <1>4

LEMMA WillAppend ==
  ASSUME TypeOK, NEW e \in NoteEvent, later' = Append(later, e), sounding' = sounding,
         NEW n \in Notes
  PROVE  n \in WillSound' <=> IF n = e.note THEN Sounds(e) ELSE n \in WillSound
<1>1. PICK m \in Nat : m = Len(later)
  BY DEF TypeOK
<1>2. /\ Len(later') = m + 1 /\ later'[m + 1] = e
      /\ \A k \in 1..m : later'[k] = later[k]
  BY <1>1 DEF TypeOK
<1>3. \A k \in 1..(m + 1) : k \in 1..m \/ k = m + 1
  OBVIOUS
<1> HIDE DEF Sounds
<1>4. n \in WillSound' <=>
         \/ \E k \in 1..(m + 1) : LastFor(n, k)' /\ Sounds(later'[k])
         \/ n \in sounding /\ \A k \in 1..(m + 1) : later'[k].note # n
  BY <1>2 DEF WillSound, Sounds
<1>5. ASSUME NEW k \in 1..(m + 1)
      PROVE  LastFor(n, k)' <=>
                /\ later'[k].note = n
                /\ \A l \in (k + 1)..(m + 1) : later'[l].note # n
  BY <1>2 DEF LastFor
<1>6. CASE n = e.note
  <2>1. m + 1 \in 1..(m + 1) /\ (m + 2)..(m + 1) = {}
    OBVIOUS
  <2>2. LastFor(n, m + 1)'
    BY <1>2, <1>5, <1>6, <2>1
  <2>3. \A k \in 1..m : ~LastFor(n, k)'
    <3> SUFFICES ASSUME NEW k \in 1..m, LastFor(n, k)' PROVE FALSE
      OBVIOUS
    <3>1. m + 1 \in (k + 1)..(m + 1)
      OBVIOUS
    <3> QED
      BY <1>2, <1>5, <1>6, <3>1
  <2> QED
    BY <1>2, <1>3, <1>4, <1>6, <2>1, <2>2, <2>3
<1>7. CASE n # e.note
  <2>1. ~LastFor(n, m + 1)'
    BY <1>2, <1>5, <1>7
  <2>2. ASSUME NEW k \in 1..m
        PROVE  LastFor(n, k)' <=> LastFor(n, k)
    <3>0. k \in 1..(m + 1)
      OBVIOUS
    <3>1. LastFor(n, k)' <=>
             /\ later'[k].note = n
             /\ \A l \in (k + 1)..(m + 1) : later'[l].note # n
      BY <1>5, <3>0
    <3>2. \A l \in (k + 1)..(m + 1) : l \in (k + 1)..m \/ l = m + 1
      OBVIOUS
    <3>3. \A l \in (k + 1)..m : l \in (k + 1)..(m + 1) /\ l \in 1..m
      OBVIOUS
    <3> QED
      BY <1>1, <1>2, <1>7, <3>1, <3>2, <3>3 DEF LastFor
  <2>3. n \in WillSound <=>
           \/ \E k \in 1..m : LastFor(n, k) /\ Sounds(later[k])
           \/ n \in sounding /\ \A k \in 1..m : later[k].note # n
    BY <1>1 DEF WillSound
  <2>4. \A k \in 1..m : k \in 1..(m + 1)
    OBVIOUS
  <2> QED
    BY <1>2, <1>3, <1>4, <1>7, <2>1, <2>2, <2>3, <2>4
<1> QED
  BY <1>6, <1>7

(* The events: their notes, and what the mapping of velocity 0 does.       *)
LEMMA Events ==
  ASSUME NEW e \in NoteEvent
  PROVE  /\ e.note \in Notes /\ e.byte3 \in Velocities /\ e.delta \in Deltas
         /\ e.type \in {"noteOn", "noteOff"}
         /\ Mapped(e) \in NoteEvent /\ Mapped(e).note = e.note
         /\ Sounds(Mapped(e)) <=> Sounds(e)
<1>1. CASE e \in [type : {"noteOn"}, note : Notes, byte3 : Velocities, delta : Deltas]
  <2>1. /\ e.note \in Notes /\ e.byte3 \in {0, 1} /\ e.delta \in Deltas /\ e.type = "noteOn"
    BY <1>1 DEF Velocities
  <2>2. e.byte3 = 0 =>
           [e EXCEPT !.type = "noteOff"] \in
               [type : {"noteOff"}, note : Notes, byte3 : {0}, delta : Deltas]
    BY <1>1
  <2> QED
    BY <1>1, <2>1, <2>2 DEF NoteEvent, Mapped, Sounds, Velocities
<1>2. CASE e \in [type : {"noteOff"}, note : Notes, byte3 : {0}, delta : Deltas]
  <2>1. /\ e.note \in Notes /\ e.byte3 = 0 /\ e.delta \in Deltas /\ e.type = "noteOff"
    BY <1>2
  <2>2. [e EXCEPT !.type = "noteOff"] = e
    BY <1>2
  <2> QED
    BY <1>2, <2>1, <2>2 DEF NoteEvent, Mapped, Sounds, Velocities
<1> QED
  BY <1>1, <1>2 DEF NoteEvent

\* a table after an event, and that an entry tells what the event did
LEMMA TableAfter ==
  ASSUME NEW table \in [Notes -> Velocities \cup {Nil}], NEW e \in NoteEvent
  PROVE  /\ Noted(table, e) \in [Notes -> Velocities \cup {Nil}]
         /\ \A n \in Notes : n # e.note => Noted(table, e)[n] = table[n]
         /\ Noted(table, e)[e.note] > 0 <=> Sounds(e)
         /\ Noted(table, Mapped(e))[e.note] # Nil <=> Sounds(e)
<1>1. /\ e.note \in Notes /\ e.byte3 \in {0, 1} /\ e.type \in {"noteOn", "noteOff"}
  BY Events DEF Velocities
<1>2. Nil = -1 /\ Velocities = {0, 1}
  BY DEF Nil, Velocities
<1>3. CASE e.type = "noteOn"
  <2>1. Noted(table, e) = [table EXCEPT ![e.note] = e.byte3]
    BY <1>3 DEF Noted
  <2>2. CASE e.byte3 = 0
    <3>1. Mapped(e).type = "noteOff" /\ Mapped(e).note = e.note
      BY <2>2, Events DEF Mapped, NoteEvent
    <3>2. Noted(table, Mapped(e)) = [table EXCEPT ![e.note] = Nil]
      BY <3>1 DEF Noted
    <3> QED
      BY <1>1, <1>2, <1>3, <2>1, <2>2, <3>2 DEF Sounds
  <2>3. CASE e.byte3 = 1
    <3>1. Mapped(e) = e
      BY <2>3 DEF Mapped
    <3> QED
      BY <1>1, <1>2, <1>3, <2>1, <2>3, <3>1 DEF Sounds
  <2> QED
    BY <1>1, <2>2, <2>3
<1>4. CASE e.type = "noteOff"
  <2>1. Noted(table, e) = [table EXCEPT ![e.note] = Nil]
    BY <1>4 DEF Noted
  <2>2. Mapped(e).type = "noteOff" /\ Mapped(e).note = e.note
    BY <1>4, Events DEF Mapped, NoteEvent
  <2>3. Noted(table, Mapped(e)) = [table EXCEPT ![e.note] = Nil]
    BY <2>2 DEF Noted
  <2> QED
    BY <1>1, <1>2, <1>4, <2>1, <2>3 DEF Sounds
<1> QED
  BY <1>1, <1>3, <1>4

(* All of the invariant but the two parts about the end of stopAllPlaying  *)
(* and panic.                                                              *)
Core == TypeOK /\ PlaceInv /\ KeyInv /\ SoundInv /\ WireInv

LEMMA SentEvents ==
  ASSUME PlaceInv, Sending
  PROVE  event \in IF caller = "panic" THEN CCEvent ELSE NoteEvent
<1>1. \A n \in Notes : noteOff(n) \in NoteEvent
  BY DEF noteOff, NoteEvent, Deltas
<1> QED
  BY <1>1 DEF PlaceInv

(* Steps that change neither tables nor sound, before, between and after   *)
(* the events that a script sends.                                         *)
LEMMA Quiet ==
  ASSUME IInv, UNCHANGED <<held, chainVars, tables, passes, histories, event, caller>>,
         pc \in {"idle", "script", "stopAllPlaying", "return"},
         pc' \in {"idle", "script", "stopAllPlaying", "return"}
  PROVE  PlaceInv' /\ KeyInv' /\ SoundInv' /\ WireInv'
<1>0. PlaceInv /\ KeyInv /\ SoundInv /\ WireInv
  BY DEF IInv
<1>1. WillSound' = WillSound
  BY WillSame
<1>2. UNCHANGED <<held, tables, passes, missed, own, lost, event, caller>>
  BY DEF histories
<1>3. caller = "idle" /\ ~Panicking /\ ~Panicking'
  BY <1>0, <1>2 DEF PlaceInv, Sending, Panicking
<1>4. PlaceInv'
  BY <1>2, <1>3 DEF PlaceInv, Sending
<1>5. KeyInv'
  BY <1>0, <1>2 DEF KeyInv, tables
<1>6. SoundInv'
  <2>1. \A n \in Notes : n \notin lost => (n \in WillSound <=> outputNotesDown[n] > 0)
    BY <1>0, <1>3 DEF SoundInv
  <2> QED
    BY <1>1, <1>2, <1>3, <2>1 DEF SoundInv, tables
<1>7. WireInv'
  <2>1. ~Passing /\ ~Passing'
    BY DEF Passing
  <2> QED
    BY <1>0, <1>1, <1>2, <2>1 DEF WireInv
<1> QED
  BY <1>4, <1>5, <1>6, <1>7

LEMMA QuietSteps ==
  ASSUME IInv, Callback \/ CallbackEnds \/ StopEnds \/ Returns \/ Halt
  PROVE  Core'
<1> USE BoundsAssumption
<1>0. TypeOK /\ PlaceInv /\ KeyInv /\ SoundInv /\ WireInv
  BY DEF IInv
<1>1. /\ UNCHANGED <<held, chainVars, tables, passes, histories, event, caller>>
      /\ pc \in {"idle", "script", "stopAllPlaying", "return"}
      /\ pc' \in {"idle", "script", "stopAllPlaying", "return"}
  BY DEF Callback, CallbackEnds, StopEnds, Returns, Halt, hostVars, callVars
<1>2. PlaceInv' /\ KeyInv' /\ SoundInv' /\ WireInv'
  BY <1>1, Quiet
<1>3. halted' \in BOOLEAN
  BY <1>0, Zenon DEF Callback, CallbackEnds, StopEnds, Returns, Halt, TypeOK
<1>4. TypeOK'
  BY <1>0, <1>1, <1>3 DEF TypeOK, Callback, CallbackEnds, StopEnds, Returns, Halt, hostVars, callVars,
     chainVars, tables, histories
<1> QED
  BY <1>2, <1>4 DEF Core

(* The frame is over: what should sound does.                              *)
LEMMA FrameEndsKeeps ==
  ASSUME IInv, FrameEnds
  PROVE  Core'
<1> USE BoundsAssumption
<1>0. TypeOK /\ PlaceInv /\ KeyInv /\ SoundInv /\ WireInv
  BY DEF IInv
<1>1. \A n \in Notes : n \in WillSound' <=> n \in WillSound
  BY <1>0, WillEnd
<1>2. /\ pc = "idle" /\ later' = <<>> /\ time' = 0 /\ sounding' = WillSound
      /\ UNCHANGED <<held, inputNotesDown, outputNotesDown, passes, halted, pc, event, caller,
                     calls, todo, left, missed, own, lost, cuts>>
  BY DEF FrameEnds, tables, callVars, histories
<1>3. caller = "idle"
  BY <1>0, <1>2 DEF PlaceInv, Sending
<1>10. TypeOK'
  <2>1. sounding' \subseteq Notes /\ 0 \in Deltas
    BY <1>2 DEF WillSound, Deltas
  <2>2. <<>> \in Seq(NoteEvent)
    OBVIOUS
  <2> HIDE DEF WillSound
  <2> QED
    BY <1>0, <1>2, <2>1, <2>2 DEF TypeOK
<1>11. PlaceInv'
  BY <1>2, <1>3 DEF PlaceInv, Sending
<1>12. KeyInv'
  BY <1>0, <1>2 DEF KeyInv
<1>13. SoundInv'
  <2>1. \A n \in Notes : n \notin lost => (n \in WillSound <=> outputNotesDown[n] > 0)
    BY <1>0, <1>2, <1>3 DEF SoundInv, Panicking
  <2> QED
    BY <1>1, <1>2, <1>3, <2>1 DEF SoundInv, Panicking
<1>14. WireInv'
  <2>1. ~Passing /\ ~Passing'
    BY <1>2 DEF Passing
  <2> QED
    BY <1>0, <1>1, <1>2, <2>1 DEF WireInv
<1> QED
  BY <1>10, <1>11, <1>12, <1>13, <1>14 DEF Core

(* The host tells of a key.                                                *)
LEMMA recvMidiEventKeeps ==
  ASSUME IInv, NEW e \in NoteEvent, recvMidiEvent(e)
  PROVE  Core'
<1> USE BoundsAssumption
<1>0. TypeOK /\ PlaceInv /\ KeyInv /\ SoundInv /\ WireInv
  BY DEF IInv
<1>1. /\ pc = "idle" /\ time' = e.delta /\ held' = Play(e, held)
      /\ UNCHANGED <<chainVars, inputNotesDown, outputNotesDown, passes, halted, caller,
                     calls, todo, left, own, lost, cuts>>
      /\ \/ /\ halted /\ missed' = missed \cup {e.note} /\ UNCHANGED <<pc, event>>
         \/ ~halted /\ pc' = "newMidiEvent" /\ event' = e /\ UNCHANGED missed
  BY DEF recvMidiEvent, tables
<1>2. caller = "idle"
  BY <1>0, <1>1 DEF PlaceInv, Sending
<1>3. e.note \in Notes /\ e.delta \in Deltas
  BY Events
<1>4. /\ e.note \in held' <=> Sounds(e)
      /\ \A n \in Notes : n # e.note => (n \in held' <=> n \in held)
  BY <1>1 DEF Play
<1>5. WillSound' = WillSound
  BY <1>1, WillSame
<1> HIDE DEF Sounds
<1>10. TypeOK'
  <2>1. held' \subseteq Notes
    BY <1>0, <1>1, <1>3 DEF Play, TypeOK
  <2> QED
    BY <1>0, <1>1, <1>3, <2>1 DEF TypeOK, chainVars
<1>11. PlaceInv'
  BY <1>1, <1>2 DEF PlaceInv, Sending
<1>12. KeyInv'
  BY <1>0, <1>1, <1>4 DEF KeyInv, Sounds
<1>13. SoundInv'
  <2>1. \A n \in Notes : n \notin lost => (n \in WillSound <=> outputNotesDown[n] > 0)
    BY <1>0, <1>1, <1>2 DEF SoundInv, Panicking
  <2> QED
    BY <1>1, <1>2, <1>5, <2>1 DEF SoundInv, Panicking
<1>14. WireInv'
  <2>1. passes => \A n \in Notes :
           n \notin missed \cup own \cup lost => (n \in WillSound <=> n \in held)
    BY <1>0, <1>1 DEF WireInv, Passing
  <2> QED
    BY <1>1, <1>2, <1>4, <1>5, <2>1 DEF WireInv, Passing, Sounds
<1> QED
  BY <1>10, <1>11, <1>12, <1>13, <1>14 DEF Core

(* The event enters the table, and is sent on if there is no script.       *)
LEMMA newMidiEventKeeps ==
  ASSUME IInv, newMidiEvent
  PROVE  Core'
<1> USE BoundsAssumption
<1>0. TypeOK /\ PlaceInv /\ KeyInv /\ SoundInv /\ WireInv
  BY DEF IInv
<1>1. event \in NoteEvent /\ pc = "newMidiEvent" /\ caller = "idle"
  BY <1>0 DEF PlaceInv, Sending, newMidiEvent
<1> DEFINE e == Mapped(event)
<1>2. /\ inputNotesDown' = Noted(inputNotesDown, e) /\ missed' = missed \ {e.note}
      /\ caller' = "idle"
      /\ UNCHANGED <<held, time, chainVars, outputNotesDown, passes, halted, calls, todo,
                     left, own, lost, cuts>>
      /\ \/ passes /\ pc' = "sendMidi" /\ event' = e
         \/ ~passes /\ pc' = "script" /\ event' = NoEvent
  BY DEF newMidiEvent, hostVars
<1>3. /\ e \in NoteEvent /\ e.note = event.note /\ e.note \in Notes
      /\ Sounds(e) <=> Sounds(event)
  BY <1>1, Events
<1>4. inputNotesDown \in [Notes -> Velocities \cup {Nil}]
  BY <1>0 DEF TypeOK
<1>5. /\ inputNotesDown' \in [Notes -> Velocities \cup {Nil}]
      /\ \A n \in Notes : n # e.note => inputNotesDown'[n] = inputNotesDown[n]
      /\ inputNotesDown'[e.note] # Nil <=> Sounds(event)
  <2>1. /\ Noted(inputNotesDown, e) \in [Notes -> Velocities \cup {Nil}]
        /\ \A n \in Notes : n # e.note => Noted(inputNotesDown, e)[n] = inputNotesDown[n]
    BY <1>3, <1>4, TableAfter
  <2>2. Noted(inputNotesDown, e)[event.note] # Nil <=> Sounds(event)
    BY <1>1, <1>4, TableAfter
  <2> QED
    BY <1>2, <1>3, <2>1, <2>2
<1>6. WillSound' = WillSound
  BY <1>2, WillSame
<1>7. /\ event.note \in held <=> Sounds(event)
      /\ \A n \in Notes : n # event.note /\ n \notin missed => (n \in held <=> inputNotesDown[n] # Nil)
  BY <1>0, <1>1, <1>3 DEF KeyInv
<1> HIDE DEF e, Sounds
<1>10. TypeOK'
  BY <1>0, <1>2, <1>3, <1>5 DEF TypeOK, chainVars
<1>11. PlaceInv'
  BY <1>2, <1>3 DEF PlaceInv, Sending
<1>12. KeyInv'
  BY <1>2, <1>3, <1>5, <1>7 DEF KeyInv
<1>13. SoundInv'
  <2>1. \A n \in Notes : n \notin lost => (n \in WillSound <=> outputNotesDown[n] > 0)
    BY <1>0, <1>1 DEF SoundInv, Panicking
  <2> QED
    BY <1>2, <1>6, <2>1 DEF SoundInv, Panicking
<1>14. WireInv'
  <2>1. passes => \A n \in Notes : n # event.note =>
           (n \notin missed \cup own \cup lost => (n \in WillSound <=> n \in held))
    BY <1>0, <1>1 DEF WireInv, Passing
  <2> QED
    BY <1>2, <1>3, <1>6, <1>7, <2>1 DEF WireInv, Passing, Sounds
<1> QED
  BY <1>10, <1>11, <1>12, <1>13, <1>14 DEF Core

(* A script, or stopAllPlaying, calls sendMidi.                            *)
LEMMA CallsKeeps ==
  ASSUME IInv, NEW e \in NoteEvent, pc \in {"script", "stopAllPlaying"}, Calls(e, pc),
         pc = "stopAllPlaying" => \E n \in Notes : e = noteOff(n)
  PROVE  PlaceInv' /\ KeyInv' /\ SoundInv' /\ WireInv'
<1>0. PlaceInv /\ KeyInv /\ SoundInv /\ WireInv
  BY DEF IInv
<1>1. /\ pc' = "sendMidi" /\ event' = e /\ caller' = pc
      /\ UNCHANGED <<held, chainVars, inputNotesDown, outputNotesDown, passes, missed, own, lost>>
  BY DEF Calls, hostVars, tables, histories
<1>2. caller = "idle" /\ ~Passing /\ ~Passing'
  BY <1>0, <1>1 DEF PlaceInv, Sending, Passing
<1>3. WillSound' = WillSound
  BY <1>1, WillSame
<1>4. PlaceInv'
  BY <1>1 DEF PlaceInv, Sending
<1>5. KeyInv'
  BY <1>0, <1>1 DEF KeyInv
<1>6. SoundInv'
  <2>1. \A n \in Notes : n \notin lost => (n \in WillSound <=> outputNotesDown[n] > 0)
    BY <1>0, <1>2 DEF SoundInv, Panicking
  <2> QED
    BY <1>1, <1>3, <2>1 DEF SoundInv, Panicking
<1>7. WireInv'
  BY <1>0, <1>1, <1>2, <1>3 DEF WireInv
<1> QED
  BY <1>4, <1>5, <1>6, <1>7

LEMMA ScriptSendsKeeps ==
  ASSUME IInv, NEW e \in NoteEvent, ScriptSends(e)
  PROVE  Core'
<1> USE BoundsAssumption
<1>0. TypeOK /\ PlaceInv /\ KeyInv /\ SoundInv /\ WireInv
  BY DEF IInv
<1>1. pc = "script" /\ Calls(e, pc)
  BY DEF ScriptSends
<1>2. PlaceInv' /\ KeyInv' /\ SoundInv' /\ WireInv'
  BY <1>1, CallsKeeps
<1>3. calls' \in 0..MaxSends /\ UNCHANGED <<todo, left>>
  BY <1>0 DEF ScriptSends, TypeOK
<1>4. TypeOK'
  BY <1>0, <1>1, <1>3 DEF TypeOK, Calls, hostVars, chainVars, tables, histories
<1> QED
  BY <1>2, <1>4 DEF Core

LEMMA StopNextKeeps ==
  ASSUME IInv, StopNext
  PROVE  Core'
<1> USE BoundsAssumption
<1>0. TypeOK /\ PlaceInv /\ KeyInv /\ SoundInv /\ WireInv
  BY DEF IInv
<1>1. PICK n \in left : /\ pc = "stopAllPlaying" /\ Calls(noteOff(n), pc)
                       /\ left' = left \ {n} /\ UNCHANGED <<calls, todo>>
  BY DEF StopNext
<1>2. n \in Notes /\ noteOff(n) \in NoteEvent
  BY <1>0 DEF noteOff, NoteEvent, Deltas, TypeOK
<1>3. PlaceInv' /\ KeyInv' /\ SoundInv' /\ WireInv'
  BY <1>1, <1>2, CallsKeeps
<1>4. TypeOK'
  BY <1>0, <1>1, <1>2 DEF TypeOK, Calls, hostVars, chainVars, tables, histories
<1> QED
  BY <1>3, <1>4 DEF Core

(* Panic: every note gets its controllers.                                 *)
LEMMA PanicCovers ==
  /\ PanicEvents \in Seq(CCEvent)
  /\ \A n \in Notes : \E k \in 1..Len(PanicEvents) : PanicEvents[k].note = n
<1> USE BoundsAssumption
<1> DEFINE cc(n) == [type |-> "cc", note |-> n, byte3 |-> 0, delta |-> 0]
           loop == [n \in Notes |-> cc(n)]
<1>1. \A n \in Notes : cc(n) \in CCEvent /\ cc(n).note = n
  BY DEF CCEvent
<1> HIDE DEF cc
<1>2. loop \in Seq(CCEvent) /\ Len(loop) = NumNotes /\ \A n \in Notes : loop[n] = cc(n)
  BY <1>1 DEF Notes
<1> HIDE DEF loop
<1>3. /\ loop \o loop \in Seq(CCEvent)
      /\ \A n \in Notes : n \in 1..Len(loop \o loop) /\ (loop \o loop)[n] = loop[n]
  BY <1>2 DEF Notes
<1>4. PanicEvents = loop \o loop
  BY DEF PanicEvents, loop, cc
<1> QED
  BY <1>1, <1>2, <1>3, <1>4

LEMMA ScriptCallsKeeps ==
  ASSUME IInv, ScriptCalls
  PROVE  Core'
<1> USE BoundsAssumption
<1>0. TypeOK /\ PlaceInv /\ KeyInv /\ SoundInv /\ WireInv
  BY DEF IInv
<1>1. /\ pc = "script" /\ calls' \in 0..MaxSends
      /\ UNCHANGED <<held, time, chainVars, tables, passes, halted, event, caller, histories, cuts>>
      /\ \/ pc' = "stopAllPlaying" /\ left' = Notes /\ UNCHANGED todo
         \/ pc' = "panic" /\ todo' = PanicEvents /\ UNCHANGED left
  BY <1>0 DEF ScriptCalls, TypeOK, hostVars
<1>2. caller = "idle" /\ ~Passing /\ ~Passing' /\ WillSound' = WillSound
  BY <1>0, <1>1, WillSame DEF PlaceInv, Sending, Passing
<1>10. TypeOK'
  BY <1>0, <1>1, PanicCovers DEF TypeOK, chainVars, tables, histories
<1>3. CASE pc' = "stopAllPlaying"
  <2>1. PlaceInv' /\ KeyInv' /\ SoundInv' /\ WireInv'
    BY <1>1, <1>2, <1>3, Quiet
  <2> QED
    BY <1>10, <2>1 DEF Core
<1>4. CASE pc' = "panic"
  <2>1. PlaceInv'
    BY <1>1, <1>2, <1>4 DEF PlaceInv, Sending
  <2>2. KeyInv'
    BY <1>0, <1>1, <1>4 DEF KeyInv, tables, histories
  <2>3. SoundInv'
    BY <1>1, <1>4, PanicCovers DEF SoundInv, Panicking
  <2>4. WireInv'
    BY <1>0, <1>1, <1>2 DEF WireInv, histories
  <2> QED
    BY <1>10, <2>1, <2>2, <2>3, <2>4 DEF Core
<1> QED
  BY <1>1, <1>3, <1>4

LEMMA PanicNextKeeps ==
  ASSUME IInv, PanicNext
  PROVE  Core'
<1> USE BoundsAssumption
<1>0. TypeOK /\ PlaceInv /\ KeyInv /\ SoundInv /\ WireInv
  BY DEF IInv
<1>1. /\ pc = "panic" /\ todo # <<>> /\ todo' = Tail(todo) /\ UNCHANGED <<calls, left>>
      /\ pc' = "sendMidi" /\ event' = Head(todo) /\ caller' = "panic"
      /\ UNCHANGED <<held, time, chainVars, inputNotesDown, outputNotesDown, passes, halted,
                     missed, own, lost, cuts>>
  BY DEF PanicNext, Calls, hostVars, tables, histories
<1>2. /\ todo \in Seq(CCEvent) /\ Head(todo) \in CCEvent /\ Tail(todo) \in Seq(CCEvent)
      /\ Head(todo) = todo[1] /\ Len(Tail(todo)) = Len(todo) - 1
      /\ \A k \in 1..Len(todo) : k = 1 \/ (k - 1 \in 1..Len(Tail(todo)) /\ Tail(todo)[k - 1] = todo[k])
  BY <1>0, <1>1 DEF TypeOK
<1>3. WillSound' = WillSound
  BY <1>1, WillSame
<1>10. TypeOK'
  BY <1>0, <1>1, <1>2 DEF TypeOK, chainVars
<1>11. PlaceInv'
  BY <1>1, <1>2 DEF PlaceInv, Sending
<1>12. KeyInv'
  BY <1>0, <1>1 DEF KeyInv
<1>13. SoundInv'
  <2> SUFFICES ASSUME NEW n \in Notes
               PROVE  \/ n \in lost \/ n \notin WillSound \/ event'.note = n
                      \/ \E k \in 1..Len(todo') : todo'[k].note = n
    BY <1>1, <1>3 DEF SoundInv, Panicking, Sending
  <2>1. \/ n \in lost \/ n \notin WillSound
        \/ \E k \in 1..Len(todo) : todo[k].note = n
    BY <1>0, <1>1 DEF SoundInv, Panicking, Sending
  <2>2. ASSUME NEW k \in 1..Len(todo), todo[k].note = n
        PROVE  event'.note = n \/ \E l \in 1..Len(todo') : todo'[l].note = n
    BY <1>1, <1>2, <2>2
  <2> QED
    BY <2>1, <2>2
<1>14. WireInv'
  <2>1. ~Passing /\ ~Passing'
    BY <1>1 DEF Passing
  <2> QED
    BY <1>0, <1>1, <1>3, <2>1 DEF WireInv
<1> QED
  BY <1>10, <1>11, <1>12, <1>13, <1>14 DEF Core

LEMMA PanicEndsKeeps ==
  ASSUME IInv, PanicEnds
  PROVE  Core'
<1> USE BoundsAssumption
<1>0. TypeOK /\ PlaceInv /\ KeyInv /\ SoundInv /\ WireInv
  BY DEF IInv
<1>1. /\ pc = "panic" /\ todo = <<>> /\ outputNotesDown' = Empty /\ pc' = "return"
      /\ UNCHANGED <<held, time, chainVars, inputNotesDown, passes, halted, event, caller, calls,
                     todo, left, missed, own, lost, cuts>>
  BY DEF PanicEnds, hostVars, histories
<1>2. caller = "idle" /\ ~Passing /\ ~Passing'
  BY <1>0, <1>1 DEF PlaceInv, Sending, Passing
<1>3. WillSound' = WillSound
  BY <1>1, WillSame
<1>4. outputNotesDown' \in [Notes -> Velocities \cup {Nil}]
      /\ \A n \in Notes : ~(outputNotesDown'[n] > 0)
  BY <1>1 DEF Empty, Nil
<1>10. TypeOK'
  BY <1>0, <1>1, <1>4 DEF TypeOK, chainVars
<1>11. PlaceInv'
  BY <1>1, <1>2 DEF PlaceInv, Sending
<1>12. KeyInv'
  BY <1>0, <1>1 DEF KeyInv
<1>13. SoundInv'
  <2>1. Len(todo) = 0 /\ 1..0 = {}
    BY <1>1
  <2>2. \A n \in Notes : n \in lost \/ n \notin WillSound
    BY <1>0, <1>1, <2>1 DEF SoundInv, Panicking, Sending
  <2> QED
    BY <1>1, <1>2, <1>3, <1>4, <2>2 DEF SoundInv, Panicking
<1>14. WireInv'
  BY <1>0, <1>1, <1>2, <1>3 DEF WireInv
<1> QED
  BY <1>10, <1>11, <1>12, <1>13, <1>14 DEF Core

(* sendMidi enters the note in the table; controllers leave it alone.      *)
LEMMA sendMidiKeeps ==
  ASSUME IInv, sendMidi
  PROVE  Core'
<1> USE BoundsAssumption
<1>0. TypeOK /\ PlaceInv /\ KeyInv /\ SoundInv /\ WireInv
  BY DEF IInv
<1>1. /\ pc = "sendMidi" /\ pc' = "send" /\ outputNotesDown' = Noted(outputNotesDown, event)
      /\ UNCHANGED <<held, time, chainVars, inputNotesDown, passes, halted, event, caller, calls,
                     todo, left, missed, own, lost, cuts>>
  BY DEF sendMidi, hostVars, histories
<1>2. WillSound' = WillSound
  BY <1>1, WillSame
<1>3. outputNotesDown \in [Notes -> Velocities \cup {Nil}]
  BY <1>0 DEF TypeOK
<1>11. PlaceInv'
  BY <1>0, <1>1 DEF PlaceInv, Sending
<1>12. KeyInv'
  BY <1>0, <1>1 DEF KeyInv
<1>14. WireInv'
  <2>1. Passing' <=> Passing
    BY <1>1 DEF Passing
  <2> QED
    BY <1>0, <1>1, <1>2, <2>1 DEF WireInv, Sounds
<1>4. CASE caller = "panic"
  <2>1. event \in CCEvent
    BY <1>0, <1>1, <1>4, SentEvents DEF Sending
  <2>2. outputNotesDown' = outputNotesDown
    <3>1. event.type = "cc"
      BY <2>1 DEF CCEvent
    <3> QED
      BY <1>1, <3>1 DEF Noted
  <2>3. TypeOK'
    BY <1>0, <1>1, <2>2 DEF TypeOK, chainVars
  <2>4. SoundInv'
    BY <1>0, <1>1, <1>2, <1>4 DEF SoundInv, Panicking, Sending
  <2> QED
    BY <1>11, <1>12, <1>14, <2>3, <2>4 DEF Core
<1>5. CASE caller # "panic"
  <2>1. event \in NoteEvent
    BY <1>0, <1>1, <1>5, SentEvents DEF Sending
  <2>2. /\ outputNotesDown' \in [Notes -> Velocities \cup {Nil}]
        /\ \A n \in Notes : n # event.note => outputNotesDown'[n] = outputNotesDown[n]
        /\ outputNotesDown'[event.note] > 0 <=> Sounds(event)
    BY <1>1, <1>3, <2>1, TableAfter
  <2>3. TypeOK'
    BY <1>0, <1>1, <2>2 DEF TypeOK, chainVars
  <2>4. \A n \in Notes : n \notin lost => (n \in WillSound <=> outputNotesDown[n] > 0)
    BY <1>0, <1>1, <1>5 DEF SoundInv, Panicking
  <2>5. SoundInv'
    BY <1>1, <1>2, <1>5, <2>2, <2>4 DEF SoundInv, Panicking, Sounds
  <2> QED
    BY <1>11, <1>12, <1>14, <2>3, <2>5 DEF Core
<1> QED
  BY <1>4, <1>5

(* The host plays the event, or keeps it for later in the frame: then the  *)
(* note does what the event says, or another event has overtaken.          *)
LEMMA Played ==
  ASSUME TypeOK, PlaceInv, _sendMidi
  PROVE  /\ event \in NoteEvent \cup CCEvent /\ event.note \in Notes
         /\ sounding' \subseteq Notes /\ later' \in Seq(NoteEvent) /\ lost' \subseteq Notes
         /\ \A n \in Notes : n # event.note =>
               (n \in WillSound' <=> n \in WillSound) /\ (n \in lost' <=> n \in lost)
         /\ event.note \notin lost' => (event.note \in WillSound' <=> Sounds(event))
<1>1. event \in NoteEvent \cup CCEvent /\ event.note \in Notes
  <2>1. event \in NoteEvent \/ event \in CCEvent
    BY SentEvents DEF Sending, _sendMidi
  <2>2. event \in CCEvent => event.note \in Notes
    BY DEF CCEvent
  <2> QED
    BY <2>1, <2>2, Events
<1>2. CASE event.delta = 0
  <2>1. later' = later /\ sounding' = Play(event, sounding)
    BY <1>2 DEF _sendMidi
  <2>2. \A n \in Notes :
           /\ n # event.note => (n \in WillSound' <=> n \in WillSound)
           /\ n = event.note /\ (\A k \in 1..Len(later) : later[k].note # n)
                 => (n \in WillSound' <=> Sounds(event))
    BY <2>1, WillPlay
  <2>3. DOMAIN later = 1..Len(later)
    BY DEF TypeOK
  <2>4. event.note \notin lost' => \A k \in 1..Len(later) : later[k].note # event.note
    BY <1>2, <2>3 DEF _sendMidi, Overtakes
  <2>5. sounding' \subseteq Notes
    BY <1>1, <2>1 DEF Play, TypeOK
  <2>6. lost' \subseteq Notes /\ \A n \in Notes : n # event.note => (n \in lost' <=> n \in lost)
    BY <1>1 DEF _sendMidi, TypeOK
  <2> HIDE DEF Sounds
  <2> QED
    BY <1>1, <2>1, <2>2, <2>4, <2>5, <2>6 DEF TypeOK
<1>3. CASE event.delta # 0
  <2>1. event \in NoteEvent
    BY <1>1, <1>3 DEF CCEvent
  <2>2. later' = Append(later, event) /\ sounding' = sounding
    BY <1>3 DEF _sendMidi
  <2>3. \A n \in Notes :
           n \in WillSound' <=> IF n = event.note THEN Sounds(event) ELSE n \in WillSound
    BY <2>1, <2>2, WillAppend
  <2>4. later' \in Seq(NoteEvent) /\ sounding' \subseteq Notes
    BY <2>1, <2>2 DEF TypeOK
  <2>5. lost' \subseteq Notes /\ \A n \in Notes : n # event.note => (n \in lost' <=> n \in lost)
    BY <1>1 DEF _sendMidi, TypeOK
  <2> HIDE DEF Sounds
  <2> QED
    BY <1>1, <2>3, <2>4, <2>5
<1> QED
  BY <1>2, <1>3

LEMMA _sendMidiKeeps ==
  ASSUME IInv, _sendMidi
  PROVE  Core'
<1> USE BoundsAssumption
<1>0. TypeOK /\ PlaceInv /\ KeyInv /\ SoundInv /\ WireInv
  BY DEF IInv
<1>1. /\ pc = "send" /\ pc' = caller /\ event' = NoEvent /\ caller' = "idle"
      /\ UNCHANGED <<held, time, inputNotesDown, outputNotesDown, passes, halted, calls, todo,
                     left, missed, cuts>>
      /\ own' = IF caller = "idle" THEN own \ {event.note}
                ELSE IF passes THEN own \cup {event.note} ELSE own
  BY DEF _sendMidi, hostVars, tables
<1>2. /\ event \in NoteEvent \cup CCEvent /\ event.note \in Notes
      /\ sounding' \subseteq Notes /\ later' \in Seq(NoteEvent) /\ lost' \subseteq Notes
      /\ \A n \in Notes : n # event.note =>
            (n \in WillSound' <=> n \in WillSound) /\ (n \in lost' <=> n \in lost)
      /\ event.note \notin lost' => (event.note \in WillSound' <=> Sounds(event))
  BY <1>0, Played
<1>3. caller \in {"idle", "script", "stopAllPlaying", "panic"}
  BY <1>0 DEF TypeOK
<1> HIDE DEF Sounds
<1>10. TypeOK'
  BY <1>0, <1>1, <1>2, <1>3 DEF TypeOK
<1>11. PlaceInv'
  BY <1>1, <1>3 DEF PlaceInv, Sending
<1>12. KeyInv'
  BY <1>0, <1>1, <1>3 DEF KeyInv
<1>13. SoundInv'
  <2>1. CASE caller = "panic"
    <3>1. ~Sounds(event)
      <4>1. event \in CCEvent
        BY <1>0, <1>1, <2>1, SentEvents DEF Sending
      <4> QED
        BY <4>1 DEF CCEvent, Sounds
    <3>2. \A n \in Notes :
             \/ n \in lost \/ n \notin WillSound \/ event.note = n
             \/ \E k \in 1..Len(todo) : todo[k].note = n
      BY <1>0, <1>1, <2>1 DEF SoundInv, Panicking, Sending
    <3>3. \A n \in Notes :
             \/ n \in lost' \/ n \notin WillSound'
             \/ \E k \in 1..Len(todo) : todo[k].note = n
      BY <1>2, <3>1, <3>2
    <3> QED
      BY <1>1, <2>1, <3>3 DEF SoundInv, Panicking
  <2>2. CASE caller # "panic"
    <3>1. \A n \in Notes :
             IF event.note = n THEN outputNotesDown[n] > 0 <=> Sounds(event)
             ELSE n \notin lost => (n \in WillSound <=> outputNotesDown[n] > 0)
      BY <1>0, <1>1, <2>2 DEF SoundInv, Panicking
    <3>2. \A n \in Notes : n \notin lost' => (n \in WillSound' <=> outputNotesDown[n] > 0)
      BY <1>2, <3>1
    <3> QED
      BY <1>1, <1>3, <2>2, <3>2 DEF SoundInv, Panicking
  <2> QED
    BY <2>1, <2>2
<1>14. WireInv'
  <2> SUFFICES ASSUME passes, NEW n \in Notes, n \notin missed \cup own' \cup lost'
               PROVE  n \in WillSound' <=> n \in held
    BY <1>1, <1>3 DEF WireInv, Passing
  <2>1. CASE caller = "idle"
    <3>1. IF event.note = n THEN n \in held <=> Sounds(event)
          ELSE n \notin missed \cup own \cup lost => (n \in WillSound <=> n \in held)
      BY <1>0, <1>1, <2>1 DEF WireInv, Passing
    <3> QED
      BY <1>1, <1>2, <2>1, <3>1
  <2>2. CASE caller # "idle"
    <3>1. n # event.note /\ n \notin own
      BY <1>1, <2>2
    <3>2. n \notin missed \cup own \cup lost => (n \in WillSound <=> n \in held)
      BY <1>0, <1>1, <2>2 DEF WireInv, Passing
    <3> QED
      BY <1>2, <3>1, <3>2
  <2> QED
    BY <2>1, <2>2
<1> QED
  BY <1>10, <1>11, <1>12, <1>13, <1>14 DEF Core

(* A callback is cut short.                                                *)
LEMMA CutKeeps ==
  ASSUME IInv, Cut
  PROVE  Core'
<1> USE BoundsAssumption
<1>0. TypeOK /\ PlaceInv /\ KeyInv /\ SoundInv /\ WireInv
  BY DEF IInv
<1>1. /\ pc # "idle" /\ cuts' \in 0..MaxCuts /\ halted' = TRUE
      /\ missed' = IF pc = "newMidiEvent" \/ (pc = "sendMidi" /\ caller = "idle")
                   THEN missed \cup {event.note} ELSE missed
      /\ lost' = IF pc = "panic" \/ caller = "panic" THEN Notes
                 ELSE IF pc = "send" THEN lost \cup {event.note} ELSE lost
      /\ pc' = "idle" /\ event' = NoEvent /\ caller' = "idle" /\ calls' = 0 /\ todo' = <<>>
      /\ left' = {}
      /\ UNCHANGED <<held, time, chainVars, inputNotesDown, outputNotesDown, passes, own>>
  BY <1>0 DEF Cut, hostVars, tables, TypeOK
<1>2. WillSound' = WillSound
  BY <1>1, WillSame
<1>3. pc = "newMidiEvent" \/ Sending => event.note \in Notes
  <2>1. event \in CCEvent => event.note \in Notes
    BY DEF CCEvent
  <2> QED
    BY <1>0, <2>1, Events, SentEvents DEF PlaceInv
<1>10. TypeOK'
  <2>1. missed' \subseteq Notes /\ lost' \subseteq Notes
    BY <1>0, <1>1, <1>3 DEF TypeOK, Sending
  <2>2. <<>> \in Seq(CCEvent)
    OBVIOUS
  <2>3. halted' \in BOOLEAN
    BY <1>1, Zenon
  <2> QED
    BY <1>0, <1>1, <2>1, <2>2, <2>3 DEF TypeOK, chainVars
<1>11. PlaceInv'
  BY <1>1 DEF PlaceInv, Sending
<1>12. KeyInv'
  BY <1>0, <1>1 DEF KeyInv
<1>13. SoundInv'
  <2>1. \A n \in Notes : n \notin lost' => (n \in WillSound <=> outputNotesDown[n] > 0)
    BY <1>0, <1>1 DEF SoundInv, Panicking
  <2> QED
    BY <1>1, <1>2, <2>1 DEF SoundInv, Panicking
<1>14. WireInv'
  <2> SUFFICES ASSUME passes, NEW n \in Notes, n \notin missed' \cup own \cup lost'
               PROVE  n \in WillSound <=> n \in held
    BY <1>1, <1>2 DEF WireInv, Passing
  <2>1. n \notin missed \cup own \cup lost /\ ~(Passing /\ event.note = n)
    BY <1>0, <1>1 DEF Passing, TypeOK
  <2> QED
    BY <1>0, <2>1 DEF WireInv
<1> QED
  BY <1>10, <1>11, <1>12, <1>13, <1>14 DEF Core

(* A new script, with empty tables, while keys are held and notes sound.   *)
LEMMA RestartKeeps ==
  ASSUME IInv, Restart
  PROVE  Core'
<1> USE BoundsAssumption
<1>0. TypeOK /\ PlaceInv /\ KeyInv /\ SoundInv /\ WireInv
  BY DEF IInv
<1>1. /\ pc = "idle" /\ inputNotesDown' = Empty /\ outputNotesDown' = Empty
      /\ passes' \in BOOLEAN /\ halted' = FALSE
      /\ missed' = missed \cup held /\ own' = {} /\ lost' = lost \cup WillSound
      /\ UNCHANGED <<held, time, chainVars, pc, event, caller, calls, todo, left, cuts>>
  BY DEF Restart, hostVars, callVars
<1>2. WillSound' = WillSound /\ WillSound \subseteq Notes
  <2>1. WillSound' = WillSound
    BY <1>1, WillSame
  <2> QED
    BY <2>1 DEF WillSound
<1>3. caller = "idle"
  BY <1>0, <1>1 DEF PlaceInv, Sending
<1>4. /\ Empty \in [Notes -> Velocities \cup {Nil}]
      /\ \A n \in Notes : Empty[n] = Nil /\ ~(Empty[n] > 0)
  BY DEF Empty, Nil
<1>10. TypeOK'
  <2>1. halted' \in BOOLEAN
    BY <1>1, Zenon
  <2> QED
    BY <1>0, <1>1, <1>2, <1>4, <2>1 DEF TypeOK, chainVars
<1>11. PlaceInv'
  BY <1>1, <1>3 DEF PlaceInv, Sending
<1>12. KeyInv'
  BY <1>1, <1>4 DEF KeyInv
<1>13. SoundInv'
  BY <1>1, <1>2, <1>3, <1>4 DEF SoundInv, Panicking
<1>14. WireInv'
  BY <1>1, <1>2, <1>3 DEF WireInv, Passing
<1> QED
  BY <1>10, <1>11, <1>12, <1>13, <1>14 DEF Core

(* stopAllPlaying has still to come to every entry, ...                    *)
LEMMA StopKeeps ==
  ASSUME IInv, Next
  PROVE  StopInv'
<1>0. TypeOK /\ PlaceInv /\ SoundInv /\ StopInv
  BY DEF IInv
<1> DEFINE Stopping == pc = "stopAllPlaying" \/ caller = "stopAllPlaying"
<1>1. ASSUME \/ \E e \in NoteEvent : recvMidiEvent(e) \/ ScriptSends(e)
             \/ FrameEnds \/ Callback \/ newMidiEvent \/ CallbackEnds \/ StopEnds \/ PanicNext
             \/ PanicEnds \/ Returns \/ Cut \/ Halt \/ Restart
      PROVE  StopInv'
  <2>1. ~Stopping'
    BY <1>0, <1>1 DEF recvMidiEvent, ScriptSends, Calls, FrameEnds, Callback, newMidiEvent,
       CallbackEnds, StopEnds, PanicNext, PanicEnds, Returns, Cut, Halt, Restart, callVars,
       PlaceInv, Sending
  <2> QED
    BY <2>1 DEF StopInv
<1>2. ASSUME ScriptCalls PROVE StopInv'
  <2>1. caller' = "idle" /\ (pc' = "stopAllPlaying" => left' = Notes)
    BY <1>0, <1>2 DEF ScriptCalls, PlaceInv, Sending
  <2> QED
    BY <2>1 DEF StopInv
<1>3. ASSUME StopNext PROVE StopInv'
  <2>1. PICK n \in left : /\ left' = left \ {n} /\ pc' = "sendMidi" /\ event' = noteOff(n)
                         /\ pc = "stopAllPlaying" /\ outputNotesDown' = outputNotesDown
    BY <1>3 DEF StopNext, Calls, tables
  <2>2. event'.note = n
    BY <2>1 DEF noteOff
  <2> QED
    BY <1>0, <2>1, <2>2 DEF StopInv
<1>4. ASSUME sendMidi PROVE StopInv'
  <2> SUFFICES ASSUME caller = "stopAllPlaying" PROVE StopInv'
    BY <1>4 DEF sendMidi, StopInv
  <2>1. PICK n \in Notes : event = noteOff(n)
    BY <1>0, <1>4 DEF PlaceInv, Sending, sendMidi
  <2>2. outputNotesDown' = [outputNotesDown EXCEPT ![n] = Nil] /\ event.note = n
    BY <1>4, <2>1 DEF sendMidi, Noted, noteOff
  <2>3. \A m \in Notes : outputNotesDown[m] # Nil => m \in left \/ m = n
    BY <1>0, <1>4, <2>2 DEF StopInv, sendMidi
  <2>4. outputNotesDown \in [Notes -> Velocities \cup {Nil}]
    BY <1>0 DEF TypeOK
  <2>5. \A m \in Notes : outputNotesDown'[m] # Nil => m \in left
    BY <2>2, <2>3, <2>4
  <2>6. left' = left
    BY <1>4 DEF sendMidi
  <2> QED
    BY <2>5, <2>6 DEF StopInv
<1>5. ASSUME _sendMidi PROVE StopInv'
  BY <1>0, <1>5 DEF _sendMidi, StopInv, tables
<1> QED
  BY <1>1, <1>2, <1>3, <1>4, <1>5 DEF Next, Instruction, Script

(* ... and when it or panic is over nothing sounds.                        *)
LEMMA SilentKeeps ==
  ASSUME IInv, Next
  PROVE  pc' = "return" => Silent'
<1>0. TypeOK /\ PlaceInv /\ SoundInv /\ StopInv
  BY DEF IInv
<1> SUFFICES ASSUME pc' = "return" PROVE Silent'
  OBVIOUS
<1>1. StopEnds \/ PanicEnds
  BY <1>0 DEF Next, Instruction, Script, recvMidiEvent, ScriptSends, Calls, FrameEnds, Callback,
     newMidiEvent, CallbackEnds, ScriptCalls, StopNext, PanicNext, Returns, sendMidi, _sendMidi, Cut,
     Halt, Restart, callVars, TypeOK
<1>2. WillSound' = WillSound /\ lost' = lost
  BY <1>1, WillSame DEF StopEnds, PanicEnds, histories
<1>3. CASE StopEnds
  <2>1. pc = "stopAllPlaying" /\ \A n \in left : outputNotesDown[n] = Nil
    BY <1>3 DEF StopEnds
  <2>2. \A n \in Notes : outputNotesDown[n] = Nil
    BY <1>0, <2>1 DEF StopInv
  <2>3. ~(Nil > 0) /\ ~Panicking /\ pc # "send"
    BY <1>0, <2>1 DEF Nil, Panicking, PlaceInv, Sending
  <2>4. \A n \in Notes : n \notin lost => n \notin WillSound
    BY <1>0, <2>2, <2>3 DEF SoundInv
  <2>5. WillSound \subseteq Notes
    BY DEF WillSound
  <2> QED
    BY <1>2, <2>4, <2>5 DEF Silent
<1>4. CASE PanicEnds
  <2>1. pc = "panic" /\ Len(todo) = 0 /\ 1..0 = {}
    BY <1>4 DEF PanicEnds
  <2>2. \A n \in Notes : n \in lost \/ n \notin WillSound
    BY <1>0, <2>1 DEF SoundInv, Panicking, Sending
  <2>3. WillSound \subseteq Notes
    BY DEF WillSound
  <2> QED
    BY <1>2, <2>2, <2>3 DEF Silent
<1> QED
  BY <1>1, <1>3, <1>4

(* The invariant behind both.                                              *)
THEOREM Invariance == Spec => []IInv
<1>1. Init => IInv
  <2> SUFFICES ASSUME Init PROVE IInv
    OBVIOUS
  <2> USE BoundsAssumption
  <2>1. /\ Empty \in [Notes -> Velocities \cup {Nil}]
        /\ \A n \in Notes : Empty[n] = Nil /\ ~(Empty[n] > 0)
    BY DEF Empty, Nil
  <2>2. WillSound = {}
    <3>1. sounding = {} /\ Len(later) = 0 /\ 1..0 = {}
      BY DEF Init
    <3> QED
      BY <3>1 DEF WillSound
  <2>3. TypeOK
    <3>1. <<>> \in Seq(NoteEvent) /\ <<>> \in Seq(CCEvent)
      OBVIOUS
    <3>2. halted \in BOOLEAN
      BY Zenon DEF Init
    <3> QED
      BY <2>1, <3>1, <3>2 DEF Init, TypeOK, Deltas
  <2>4. PlaceInv /\ KeyInv /\ SoundInv /\ StopInv /\ WireInv /\ pc # "return"
    BY <2>1, <2>2 DEF Init, PlaceInv, Sending, KeyInv, SoundInv, Panicking, StopInv, WireInv, Passing
  <2> QED
    BY <2>3, <2>4 DEF IInv
<1>2. IInv /\ [Next]_vars => IInv'
  <2> SUFFICES ASSUME IInv, [Next]_vars PROVE IInv'
    OBVIOUS
  <2>1. CASE UNCHANGED vars
    <3>1. WillSound' = WillSound
      BY <2>1, WillSame DEF vars, chainVars
    <3> QED
      BY <2>1, <3>1 DEF vars, IInv, TypeOK, PlaceInv, Sending, KeyInv, SoundInv, Panicking,
         StopInv, WireInv, Passing, Silent, Sounds
  <2>2. CASE Next
    <3>1. Core'
      BY <2>2, QuietSteps, FrameEndsKeeps, recvMidiEventKeeps, newMidiEventKeeps, ScriptSendsKeeps,
         StopNextKeeps, ScriptCallsKeeps, PanicNextKeeps, PanicEndsKeeps, sendMidiKeeps,
         _sendMidiKeeps, CutKeeps, RestartKeeps DEF Next, Instruction, Script
    <3> QED
      BY <2>2, <3>1, StopKeeps, SilentKeeps DEF IInv, Core
  <2> QED
    BY <2>1, <2>2
<1> QED
  BY <1>1, <1>2, PTL DEF Spec

(* Whatever keys come and whatever is cut short, the table of input notes  *)
(* tells the keys, and without midiEventCb and filters the plugin is a     *)
(* wire, but for the notes that the script sends from other callbacks.     *)
THEOREM KeysAreTold == Spec => []InputInv
<1>1. IInv => InputInv
  BY DEF IInv, KeyInv, WireInv, Passing, InputInv, InputTableTellsKeys, PassedThrough
<1> QED
  BY <1>1, Invariance, PTL

(* The table of output notes tells what sounds, and after stopAllPlaying   *)
(* and panic nothing does.                                                 *)
THEOREM SoundIsTold == Spec => []TableTellsWhatSounds
<1>1. IInv => TableTellsWhatSounds
  <2> SUFFICES ASSUME IInv, pc \in {"idle", "script"}
               PROVE  \A n \in Notes \ lost : n \in WillSound <=> outputNotesDown[n] > 0
    BY DEF TableTellsWhatSounds, IInv
  <2>1. ~Panicking
    BY DEF IInv, PlaceInv, Sending, Panicking
  <2> QED
    BY <2>1 DEF IInv, SoundInv
<1> QED
  BY <1>1, Invariance, PTL
=============================================================================
