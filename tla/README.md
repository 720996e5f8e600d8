# VSTLua: a formal model of the plugin

VSTLua is a VST plugin whose MIDI processing is written in Lua. The host calls
the plugin from its audio thread and from its window thread, other instances
send it messages through shared memory, UDP sockets and MIDI drivers call it
from threads of their own, and all of them end up in one Lua interpreter that
the user may replace at any moment. The TLA+ modules here model that part of
the program: the lock, the life of the interpreter, the messages between
instances and the table of names they share, the two locks together, the
programs (presets), the event scheduler, the tables of notes and the MIDI ports
a script opens by itself. Paths below are
relative to the repository; the C++ code is in `src/`, the Lua code that every
script runs on top of is in `src/lua/`.

## 1. Inventory

| Part | Code | State | Operations |
|---|---|---|---|
| Lock | `sysfuncs.cpp` (`LuaLock`) | `count`, `recursivecount`, `threadID`, an auto-reset event | `Lock`, `Unlock`; waits of 1500 ms |
| Interpreter | `vstlua.cpp`, `luacalls.cpp` | `lua_state`, `halted`, `insideReInit`, `networkToken`, `current_script`, `scriptToLoad` | constructor, `reInit`, `setScript`, `preloadScript`, `suspend`/`resume`, the handlers (`onFrame`, `recvMidiEvent`, `onKey`, `onOpened`, `messageCallback`, ...), `ReceiveLoop`, the file selector, destructor |
| Shared-memory messages | `sharedmem.cpp` | list of instances, per instance a mailbox, a mutex and two events | registration, `sendToInstance`, `receivePoll`, destruction |
| Programs | `vstlua.cpp`, `vstlua.h`, `lua/persistence.lua` | `programSet`, `curProgram`, `params`; `programData` in Lua | `setProgram`, `getChunk`, `setChunk`, `setParameter`, load and save of `programData` |
| Scheduler | `lua/scheduler.lua`, `lua/callback_wrappers.lua`, `lua/executetrap.lua` | `eventQueue` | `scheduleEvent`, `doSchedule`, the execution trap |
| Host lock | `vstlua.cpp`, `luacalls.cpp` | `hostLock` | around every call from a script into the host, and around program changes |
| Shared aliases | `lua/shared.lua` | a Lua table as text in shared memory, `sharedLuaLock` | `setSharedMemAlias`, `updateSharedMemAliases` |
| Native MIDI | `nativemidi.cpp`, `lua/nativemidi.lua` | open ports in the registry and in two Lua tables | open, close, clean-up at reset |
| MIDI events | `lua/midi.lua`, `lua/callback_wrappers.lua` | `inputNotesDown`, `outputNotesDown`, controller values | `newMidiEvent`, `sendMidi`, `panic`, `stopAllPlaying` |
| GUI | `luagui.cpp`, `customcontrol.cpp`, `xypad.cpp`, `lua/gui.lua` | controls and their values | create, set, callbacks |
| Editor, console | `luaeditor.cpp`, `linemanager.cpp`, `console.cpp` | buttons, a ring of text lines | add line, show, hide |
| OSC, hashing, theory, utilities | `osclua.cpp`, `luahash.cpp`, `luautils.cpp`, `lua/scales.lua`, ... | none | pure functions |

**How they interact.** Every call into Lua is bracketed by `LUA_LOCK` and
`LUA_UNLOCK` on the instance's `exlock`. A handler usually locks, tests
`halted`, calls a global `_...Cb` of `callback_wrappers.lua` with `lua_pcall`
and reports an error with `fatal_error`, which halts the instance. `reInit`
closes the Lua state and opens another one under the lock. Threads that outlive
a state (receive loops, file selectors) carry the `networkToken` they were
started with. Sending a message runs with the sender's `exlock` held, and so
does the callback in the receiver's thread that takes it. Program changes call
into Lua twice, once before and once after the switch.

**What is hard.** The lock is home-made and its fields are read and written
one by one. `halted`, `scriptToLoad` and `current_script` are touched without
it. A restart can fall between any two calls of a handler. Mailboxes hold one
message and every wait has a timeout. A callback can be cut short between any
two instructions by the execution trap, and the Lua state lives on after that.
The `hazards` of `PROJECT.json` list these line by line; section 3 says which
properties cover them.

**What makes each part correct.**

- *Lock*: one thread inside; recursive calls nest; no waiter is forgotten.
- *Interpreter*: no callback in a missing or uninitialised state; restarts do
  not nest; a requested restart happens; old threads leave the new script alone.
- *Messages*: delivered once, in order, never invented; "finished" is only said
  of a message that was taken; no message stays in a mailbox for ever.
- *Programs*: what the script sees and what is saved belongs to the current
  program; each program owns its data string; parameters follow the program.
- *Scheduler*: each event once, at its sample, in order.
- *Host lock*: no cycle of waits, both locks given back on every path, and a
  parameter has one value for host and script.
- *Aliases*: no update lost, every copy current. *Native MIDI*: no closed port
  used, a name reaches its device. *MIDI events*: the tables of notes agree with
  the keys and with what sounds.
- *GUI*: a control, its value and its parameter agree.
- *Line ring*: what is shown are the last lines in order.

## 2. Modules

| Module | Models | Extends / instances |
|---|---|---|
| `RecursiveMutex` | the abstract lock: what the callers of `LuaLock` rely on | |
| `LuaLock` | `LuaLock::Lock` and `Unlock`, field access by field access | `RecursiveMutex` as `Mutex` |
| `LuaLock_proofs` | theorems about `LuaLock` | `LuaLock`, TLAPS |
| `Interpreter` | one instance with its threads | |
| `LossyChannel` | the abstract channel: a message may be lost, otherwise it arrives once and in order | |
| `SharedMem` | several instances and their mailboxes | `LossyChannel` as `Channel` |
| `ProgramBank` | programs, chunks and `programData` | |
| `Agenda` | the abstract scheduler: events to send, each with the samples that are left | |
| `Scheduler` | event queue and `_onFrameCb` | `Agenda` |
| `TableSort` | `table.sort` of Lua 5.1, recursive and for TLC only | `Scheduler` |
| `HostLuaLocks` | `hostLock` and `exlock` of an instance and the calls that take both | `RecursiveMutex` twice, as `Host` and as `Lua` |
| `AliasMap` | the abstract table of aliases: one entry per instance, set at once | |
| `SharedAliases` | the table as a text in shared memory, read, changed and written in steps | `AliasMap` as `Map` |
| `NoteState` | the tables of notes beside keys and sound | |
| `NativeMidi` | MIDI ports in Windows, the registry and two Lua tables | |
| `Interpreter_proofs`, `SharedMem_proofs`, `ProgramBank_proofs`, `SharedAliases_proofs` | theorems about the module of the name | that module, TLAPS |
| `Scheduler_proofs` | theorems about `Scheduler` | `Scheduler`, FiniteSetTheorems, TLAPS |
| `Midi_proofs` | theorems about the two MIDI modules | `NativeMidi`, `NoteState`, FiniteSetTheorems, TLAPS |
| `HostLuaLocks_proofs` | theorems about `HostLuaLocks` | `HostLuaLocks`, SequenceTheorems, TLAPS |
| `MC...` | symmetry sets and the choice of events for the runs | the module of the name (`MCScheduler`: `TableSort`) |

Definitions keep the names of the code where they model a function or a field
(`current_script`, `scheduleEvent`, `setDataString`, ...). A definition whose
comment starts with `mutant` is not part of a specification: it is the mistaken
form of the definition that follows it, and shows which property notices.

### Lock

One action per access to a shared field. In `Lock`: `CallFast`/`CallSlow` (the
comparison with `threadID`), `IncRec`, `IncCount` (`InterlockedIncrement`),
`ResetRec`, `Wake`/`TimeOut` (`WaitForSingleObject` and `RaiseException`),
`SetOwner`. In `Unlock`: `UnlockOther`/`UnlockOwn`, `TestRec`, `Release`
(`InterlockedDecrement`), `Signal`, `DecRec`. `nest` counts what a thread has
locked and not given back, `pc` is its place in the two functions. An exception
of the timeout takes the thread out of the game (`raised`): nothing in the
program catches it, and `count` goes on standing for the thread.

`Unlock` does not clear `threadID`. A thread that has released the lock and
locks again therefore takes the recursive path although it holds nothing;
meanwhile another thread finds `count` at 0 and goes in too. `staleEntry`
remembers that this has happened, and what the lock promises is true up to that
point.

### Interpreter

The threads are `Audio`, `Editor` (the window thread, where the plugin is also
constructed and destroyed), `Messages`, a set of `Loops` and a set of
`Selectors`. A thread has a place `pc` and a `job`, the call it is in. `Lock`,
`Handle`, `TestCalls`/`TestSkips`, `Callback`, `Unlock` are the frame that the
handlers share; `Guarded` and `Unguarded` say which of them test `halted`.
`reInit` is the chain `EnterReInit` ... `LeaveReInit`, with a step for every
assignment another thread can see. What a script does in a callback is
`ScriptRuns`: nothing, fail, ask for a reset, start a loop, open a selector.
`exlock` is the abstract recursive mutex here; the module `LuaLock` says when
that is right. The constant `Events` chooses what host and user do in a run.

`halted` is a Boolean although the code counts (`halted++`): every test and
every reader only asks whether it is 0, and it is set to 1 or 0 at restarts.

### Shared-memory messages

Each instance has a host thread that runs its script and a receive thread. The
steps of `sendToInstance` are `Send` (the name is looked up), `LockRemote` or
`LockTimesOut`, `Write` (copy, `ResetEvent`, `SetEvent`, `ReleaseMutex`: all
under the mutex of the mailbox) or `WriteFails` (the mailbox cannot be mapped:
nothing is copied, but the events are set and waited for all the same, so the
receiver finds a null message or an older one), `Finished` or `FinishedTimesOut`. The receive
thread goes `Wake`, `LockLocal`, `Take` or `NullMessage`, `Deliver`. Timeouts
may fire at any time. `overlapped` and `lost` are histories: which messages
shared the mailbox with another sender, and which were written over. `Underway`
is the set of messages that a `LossyChannel` still carries: those about to be
written, in a mailbox, or taken and not yet given to the script.

### Programs

What runs under one hold of the lock is one step, so `setProgram` is three
(`setProgram`, `Switch`, `Load`), between which the audio or window thread may
restart the script (`Frame`, `ResetButton`, `LoadButton`) or halt it. `getChunk`
saves under the lock, then adds up the lengths (`Measure`) and copies string by
string (`CopyString`) without it. `preloadScript` is the script's own
`reset(name)`, which the next `Frame` carries out. A data string is a pointer into
`heap`; of its text, and of the Lua table, only the script name matters, since
that decides which script is loaded.

A save may fail before it has written and a load before it has read
(`CannotSave`, `Lags`, `InitSkipped`), and a load may be cut before it has asked
for the program's script (`InitCut`); `InitSkipped` is also the `_initCb` that a
`resume()` during the restart leaves out. The plugin runs afterwards all the same.

`tableOf` is the program whose data the table holds. The other histories remember
why the script may have lost track: `lagging` (the present table was not loaded),
`strayed` (a request for a script was replaced, or not made), `exposed` (a table
lagged once, or a restart fell into the middle of a call), `torn` (a string was
replaced after it had been measured), `suspect` and `refused` (chunks). `misplaced`
says that a table was saved into another program's string. After `broken` (a
pointer that is not the program's was read or freed) nothing more happens.

### Scheduler

`_onFrameCb` of one frame is `_onFrameCb`, `Sort`, then `SendHead` and
`RemoveHead` in turn, `NoneDue`, `Decrement` per event, `FrameEnds`. `Abort` may
end it after each of them. An event has, beside the `delta` the code keeps, the
true distance `left`, which follows the host's time even while the plugin is
halted. `ToSend` is the queue as a set of events with what is left, without a head
that was sent and not yet removed: what an `Agenda` still has to send. `Sort` may
choose any list of the same events in the order of their deltas, because the
quicksort of the Lua library is not stable. `TableSort` has that quicksort, and
`SortAssumption`, which TLC evaluates in the run, says that for every list of up to
six deltas from 0 to 3 it returns one of those lists. A callback that is cut short
while it sorts leaves the events in any order. The callback
`onFrameCb` of the user's script is the point where `scheduleEvent` may happen.

### Host lock

A call is the list `todo` of what it does: take or give back a lock, test
`halted`, set a parameter, run the script. The lists are those of
`setParameter`, `setProgram`, `setProgramNoSave` (which is also the end of
`setChunk`), `getChunk` with its two ways out, `setSampleRate`/`setBlockSize`,
`Callback` for all handlers that only lock and call, and `onShiftEscape`, the
branch of `onKey` that returns without `LUA_UNLOCK` (`vstlua.cpp:1317`); `kept`
counts how often a thread went that way. Where the script runs,
it may put the list of a host call in front (`IntoHost`, `setParameterLua`), and
the host may answer `setParameterAutomated` with `setParameter`. A wait ends
with the lock or, after 1500 ms, with an exception that leaves everything the
thread held locked (`raised`). `mixed` and `telling` remember whether two threads
were between storing a parameter and telling the script at the same time. Both
locks are abstract recursive mutexes here: what the real ones do after a stale
entry is the subject of `LuaLock` and of the run `lock_breach`.

### Shared aliases

`Lock` is `WaitForSingleObject(sharedLuaLock, 0)`, whose result nobody uses: the
instance goes on either way, and `got` only says what it was. `ReadBegins` and
`Copy` are apart, because `readFromShared` releases the mutex before the text is
copied, so a text may be torn between two writes. `Write` may give up. Then
every instance in the list gets an `__ALIAS_SET__`, one after the other, each of
which may be lost. `Fail` ends a callback with an error anywhere. A text is the
table it stands for; `sameTable` is there because `sharedMemAliases` *is*
`_sharedProxy.aliases` until the next read makes a new one.

### Note state

`recvMidiEvent` and `newMidiEvent` for the input, `sendMidi` (the table) and
`_sendMidi` (the host) for the output are steps of their own, and `Cut` may come
after each. `held` and `sounding` are what the tables should tell: the keys, and
what an instrument behind the plugin would play, where events with a later
`delta` wait in `later` until the frame ends. `Callback` is any other callback of the
script, `onFrameCb` and the scheduler included, in which it may send whether it has
a `midiEventCb` or not. `stopAllPlaying` comes once to each entry that is there
when it gets to it (`left`), as `pairs` does. `missed` and `lost` remember for each
note the reason why a table may be wrong, `own` that a script without a
`midiEventCb` has sent it by itself.

### Native MIDI

Windows lists in ports and out ports, each list numbered from its start, and names
may repeat; `Plug` changes the lists. `getMidiDeviceID` puts both into one table by
name, in ports first: an out port hides an in port of its name, and of two ports of
one name only the later can be reached. `openMidiDevice` is four steps: look the
number up, open the port and put it in the registry (`_openMidiDevice`), and enter
it in the two Lua tables (`KeepsNumber`, `KeepsName`); `CutOpening` is the execution
trap between any two of them. Whether a port opens is left to its driver, one that
is open already included, and so is whether it closes: `nativemidi.cpp:260-289`
forgets the handle either way. `closeMidiDevice` always fails after that, since
`lua/nativemidi.lua:80` indexes a function: the names stay in the tables, and the
device cannot be opened again by this script. A port that cannot be opened is an
error too (`nil` in a message, `:63`). `cleanUpMidi` closes nothing. Names that
`NoteState` has as well (`Init`, `TypeOK`, `IInv`, ...) start with `Port` here,
so that one module can extend both.

## 3. Runs

| Run | Question | Bounds |
|---|---|---|
| `lock` | When does the lock let two threads in, is it a recursive mutex until then, and are waiters let in? | 3 threads, nesting 2, counters may drift by 1 |
| `lock_breach` | *violation*: it excludes | the same |
| `interpreter_host` | Every call of host and user from constructor to destructor, restarts by script, button and load | 2 restarts, 1 script name |
| `interpreter_loops` | A receive loop and a selector across a restart, beside keys and Shift-Escape | 1 loop, 1 selector, 1 restart |
| `shared_messages` | Two instances that send to each other and to themselves | 3 messages |
| `shared_messages_live` | Is a message ever forgotten in a mailbox? | 2 messages |
| `programs` | Program changes and chunks against restarts, automation, halts, failing loads and saves | 2 programs, 4 blocks, 1 script, 2 values |
| `scheduler` | Events and frames of changing length, cut short at any instruction | 3 events, 3 samples ahead, frames of 1 and 2, 2 aborts; sorting: 6 events |
| `host_lua_locks` | Which calls can wait for each other, and what is left locked or untold? | 2 threads, 2 values, 1 call of the script per callback, 1 Shift-Escape |
| `shared_aliases` | Are updates of the shared table lost, are copies old? | 2 instances, 2 threads, 1 call by a script, 1 failure |
| `note_state` | Do the tables tell what is down? | 2 notes, 1 call per callback, 1 event ahead, 1 cut |
| `native_midi` | Do names, numbers and handles stay together? | 2 names, up to 2 ports each way, 3 open at a time, 1 change of the lists, 1 restart |

**Why the bounds are enough.** A breach of the lock needs a holder, one that
takes over, and a third to wait or time out; nesting 2 tells recursion from
none. `MaxDrift` is only a guard on new calls after a breach, when the counters
lose their meaning. An interpreter run needs the constructor's restart and two
more: the third comes when the second has been asked for and not carried out.
Two messages are the least that overwrite, overtake or acknowledge for each
other; with three the two threads of one instance can both send while the
other instance answers, and the senders may be four different threads. Under
fairness two are enough, since a message is only forgotten if a wake-up is used
up by another. Two programs and a block for each, twice over, are what it
takes to replace a bank while its old strings are still allocated; `Interrupts` lets
errors of the script and presets occur, but not both in one behaviour, since after
either most promises are off. Three events
include a head, one that is equal to it and one that is not; a delta of 3 is
more than a frame, and frames of 1 and 2 make the sums uneven. Six elements are the
least for which the quicksort partitions more than once. `MaxLate`
only limits how late an event is told to be. Two threads are what a cycle of two
locks takes, and one call of the script is enough since every list of a host call
begins and ends without the lock it takes; the two values tell an old parameter
from a new one. In `shared_aliases` every instance also sets its alias to nothing
when it restarts or goes, so three writers can meet with `MaxSets` at 1, and one
failure is a lost message, a failed write or an error. One note can mask another
only in a loop over the table, so two do; an event ahead and one at once are
enough to overtake. Two names over two ports each way can repeat in one
list, occur in both, and change places when the lists change.

`MaxLeaks` (`MaxKept` in `HostLuaLocks`) bounds how often the unreturned lock of Shift-Escape is stacked.

**Deadlock** in TLC's sense is not checked: a destroyed instance, a timed-out
thread and a `broken` heap have no next step, the bounds end the others, and the
host may stop calling. That two threads wait for each other is what
`CrossedByProgramCall` and `CallsEnd` are about.

**Fairness.** A thread inside a function goes on (weak fairness of its steps):
nothing but the waits that are modelled can stop it. A holder of the lock gives
its outermost hold back, because callbacks return: the execution trap ends the
one that does not. Taking a lock is strongly fair, as the waiters of a Windows
mutex or event are served in turn and the lock keeps becoming free. In
`interpreter_host` frames go on coming, as the host's audio thread does not
stop; in `shared_messages_live` the start of the receive thread, its waits and the
end of callbacks are fair and sending is not; in `scheduler` the next step of a
frame is. In `host_lua_locks` waiting for a lock is strongly fair and every other
step of a call weakly. No run assumes that a timeout fires, except that a wait ends by one or the
other.

### What the passing properties say

- `IInv`, in the runs that list it: the inductive invariant of section 4, whose
  first part is always `TypeOK`. TLC looks for its errors on the instance of the
  run before the proof is about all instances.

- `BreachNeedsStaleEntry`, `NoLostWakeup`, `OneGrant`, and `IInv` of `LuaLock`: counter, event,
  timeout and recursion count are right together, and the stale owner is the
  only way in for a second thread. `ImplementsMutex`: until then it is a mutex.
  `WaitersAdmitted`: a waiter is let in unless all have timed out.
- `CallersSeeAState`: the handlers that do not test `halted` still never find
  a missing state, because closing and opening are under one hold, and the
  message thread has its own test for the destructor's gap. `InitFirst`: a script is only called after its `_initCb`, except if
  `resume()` fell into the restart. `NoNestedReInit`; `RequestLoaded` and
  `RequestServed`: what `reset()` asks for is what gets loaded, and it does.
- `OneStalePacket`: a loop gives a later script at most the one packet it had
  tested before the restart. `OnlyShiftEscapeKeepsLock`: restarts from within a
  frame, failures and all other ways out give the lock back; `onKey` returns from
  its Shift-Escape branch without `LUA_UNLOCK` (`vstlua.cpp:1317`), on key down
  and on key up, and each time the editor thread keeps one hold more.
- `ImplementsChannel`: from one instance to another messages
  arrive in the order they were sent, whichever of the two threads of the sender
  runs the script, because it keeps the lua lock through both waits of
  `sendToInstance`. Overwriting and giving up lose messages and do nothing else;
  `SharedAliases` rests on that where it lets every message arrive or be lost.
  `OnceAndInOrder` says what this means for the lists of delivered messages; it
  follows, and is proved in section 4.
- `AckedIsTaken`, `MailboxEmptied`: a late "finished" of a timed-out send never
  counts for the next, because it is reset under the mutex. `AckedIsTaken` excepts an instance that is
  being destroyed: it acknowledges a message without taking it, and a third
  instance, which found the mailbox before, may still overwrite that message. Two
  instances do not show this, the failed step of the proof did.
- `TableOfProgram`, `DataKept`, `StringsOwned`, `ParametersFollow`, `ScriptFollows`:
  each holds outside the cases its comment names, and those are the ways in which
  the code loses track. The table is another program's when a program change was
  not told (halted, `vstlua.cpp:2096`), or its load failed or was skipped.
  `DataKept`: the data of one program then goes into another, and there is only one
  more way to that, a restart inside `setProgram` or `setChunk`, whose `_resetCb`
  saves the old table into the new program before the new one is loaded.
  `StringsOwned` excepts a restart that replaces a string between `Measure` and
  `CopyString`: `getChunk` copies without the lock (`vstlua.cpp:974-984`).
  `ScriptFollows` excepts a script that asks for another one by `reset(name)` over
  a request that was waiting.
- `ImplementsAgenda`: nothing is dropped, whatever is sorted, removed and added in
  the list. A mistake such as removing all events of a sample with the first
  breaks this property alone. `InTimeOrder` follows from it, and is proved too.
- `OnTime`, `FewRepeats`, `EventuallySent`: an
  undisturbed event is sent exactly at its sample; after callbacks cut short,
  events can be late or repeated, once per cut, and never early.
- `CrossedByProgramCall`: the locks are taken in both orders (`setProgram` takes
  `hostLock` and then calls the script; a script calls the host from inside
  `exlock`), and these are the only pairs that can block each other: a program
  change or `getChunk` on one side, a script that calls the host on the other.
  `LocksInv`: early returns give the locks back; the timeout and Shift-Escape do
  not. `CallsEnd`: every call ends, unless there is such a pair, a thread timed out
  with a lock in its hands, or one came out of Shift-Escape with `exlock`. `ScriptKnowsParameter`: the
  script's value is the host's, unless two threads set it at the same time (then
  the script may be left with the older one) or the plugin was halted.
- `AtomicUpdates`: the text implements `AliasMap` as long as nobody wrote without
  the mutex; as the result of `lock` is ignored, the exception is real: two
  instances that restart at the same time lose an alias. `CachesCurrent`: messages
  make up for everything except a lost last message. `MutexInv`, a part of
  `IInv`: an error between lock and unlock leaves the mutex with the thread of the
  host that ran it, and from then on only callbacks on that thread are careful.
- `TableTellsWhatSounds`, `InputInv`: `newMidiEvent` turns a note on of velocity 0
  into a note off and `sendMidi` stores it as 0; both are right for who asks whether
  the entry is positive. What breaks the tables is a cut, a restart, and an event
  sent now after one that was sent ahead. `TableTellsWhatSounds` includes that
  nothing sounds when `stopAllPlaying` or `panic` returns, although `sendMidi`
  removes entries under the loop of the first. `InputInv` includes that a plugin
  without `midiEventCb` and filters lets the keys sound that are held, but for notes
  its script has sent from other callbacks, as `scripts/drummachine.lua` does.
- `HandlesInv`: however ports are renumbered, the registry holds open handles
  only; a port the plugin cannot close any more was opened by an earlier script, was
  not closed by its driver, was cut off before its name was kept, or its number was
  given to another device. `NamesReachDevices`: up to a renumbering a name reaches a
  port of that name, and the tables agree about every device that was not closed or
  cut. Between the steps of an opening the registry has the port, then the first
  table has it, and the other does not yet.

### What the violation run shows

- `lock_breach`: a thread locks, unlocks and locks again; a second thread locks
  in between; both are inside (`docs/index.html:241`, "now threadsafe!").

The modules state more promises of the documentation and of comments that the
code does not keep. There is no run for each; one only needs the configuration
named here with the property in the place of the others (for `Interpreter`,
`MCInterpreter_loops.cfg` with another `Events` from `MCInterpreter`):

| Definition | Configuration | Promise |
|---|---|---|
| `FailedStartStaysHalted` | `FrameReset` | `vstlua.cpp:1136`: the three `if(halted)` of `reInit` follow a `halted = 1`, so a script that failed to start runs on |
| `FramesServed` (`FairSpec`) | `FrameShiftEscape` | `docs/index.html:241`: after Shift-Escape the audio thread waits for its 1500 ms |
| `TableUpdates` | `MCProgramBank.cfg` | `docs/VstLuaApi.html:1768`: a program change while the plugin is halted is not passed on when it resumes, and a failed load leaves the old table |
| `OrderKept` | `MCScheduler.cfg` | `docs/quickstart.html:91`: `table.sort` may send two events of one sample in reverse |
| `HaltStopsCallbacks` | `HaltWindow` | `docs/VstLuaApi.html:17`: window callbacks go on after halt |
| `NoStalePacket`, `TokenNamesState` | `FrameReset`, `Loops = {n1}` | `vstlua.cpp:1087`, `:426`: token and state change at different moments |
| `LoopEndsOnZero` | `FrameReset`, `Loops = {n1}` | `docs/VstLuaApi.html:211`: the callback is called for no results (`vstlua.cpp:372`) |
| `SelectorSameState` | `FrameReset`, `Selectors = {f1}` | `luacalls.cpp:317`: the test precedes the lock |
| `ShiftEscapeResets` | `HaltShiftEscape` | `docs/VstLuaApi.html:298`: not while halted |

Other disagreements met while reading, without a model: `serializeTable`
refuses Booleans (`lua/utils.lua:97`) although `docs/VstLuaApi.html:1768` allows
them in `programData`; `lua/persistence.lua:12` tests a name that is never set,
so `globalPersistence` is always emptied; `executeTrap.frameLimit` sets a
variable nobody reads (`lua/executetrap.lua:34`); `panic` does not clear
`outputCC` (`lua/midi.lua:308`) although `docs/VstLuaApi.html:994` says so;
`getNativeMidiName` calls a table (`lua/nativemidi.lua:5`), and nothing calls
`midiInStart`, so that input of a port never arrives. Part of `NativeMidi`,
and no more than two slips, are `cleanUpMidiLua`, which closes the key of each
table entry and not the port (`nativemidi.cpp:307`), and `closeMidiDevice`, which
indexes a function (`lua/nativemidi.lua:80`).

## 4. Proofs

Every theorem holds for all values of the constants that the module's named
assumptions admit, so for any number of threads, instances, programs, devices.
The invariants are defined in the component's module, beside the properties, so
that TLC can check them; each is called `IInv` (`PortIInv` in `NativeMidi`) and its parts are named. The
proofs all have the same frame: one lemma per action and part that the action
can disturb, `Init => IInv`, `IInv /\ [Next]_vars => IInv'`, the theorem
`Invariance == Spec => []IInv`, and each property from `IInv` state by state (or,
for an action property, step by step).

| Module | Theorems, with the property each states | Assumptions |
|---|---|---|
| `LuaLock_proofs` | `TypeCorrect`, `Invariance`, `BreachOnlyByStaleEntry` (`BreachNeedsStaleEntry`), `WakeupNeverLost` (`NoLostWakeup`), `OneGrantAtATime` (`OneGrant`), `Refinement` (`ImplementsMutex`) | `Threads` is finite and without `NoThread`; the bounds are naturals |
| `Interpreter_proofs` | `Invariance`, `TypeCorrect`, `NoCallWithoutState` (`CallersSeeAState`), `InitBeforeCalls` (`InitFirst`), `ReInitNotNested` (`NoNestedReInit`), `StalePackets` (`OneStalePacket`), `NameIsLoaded` (`RequestLoaded`), `ShiftEscapeKeepsLock` (`OnlyShiftEscapeKeepsLock`) | events are jobs of audio or window thread; the kinds of threads and the special names are apart |
| `SharedMem_proofs` | `Invariance`, `MessagesInOrder` (`OnceAndInOrder`), `FinishedIsTaken` (`AckedIsTaken`), `Refinement` (`ImplementsChannel`) | `MaxSends` is a natural; `None` is no thread and no message |
| `ProgramBank_proofs` | `Invariance`, `TableIsCurrent` (`TableOfProgram`), `DataStays` (`DataKept`), `ProgramsOwnStrings` (`StringsOwned`), `ParametersAreCurrent` (`ParametersFollow`), `ScriptIsFollowed` (`ScriptFollows`) | at least one program; the special texts and pointers are none of the others |
| `Scheduler_proofs` | `Sorts`, `Invariance`, `TypeCorrect`, `EventsOnTime` (`OnTime`), `EventsInTimeOrder` (`InTimeOrder`), `RepeatsAreFew` (`FewRepeats`), `Refinement` (`ImplementsAgenda`) | frames are not empty and no longer than `MaxDelta`; the bounds are naturals |
| `HostLuaLocks_proofs` | `InitIInv`, `NextIInv`, `Invariance`, `LocksGivenBack` (`LocksInv`), `OnlyProgramCallsCross` (`CrossedByProgramCall`), `ScriptKnows` (`ScriptKnowsParameter`) | values are naturals and 0 is one; the bounds are naturals |
| `SharedAliases_proofs` | `Invariance`, `MutexGivenBack`, `CopiesCurrent` (`CachesCurrent`), `UpdatesAreAtomic` (`AtomicUpdates`) | `NoName` and `NoThread` are no name and no thread; the bounds are naturals |
| `Midi_proofs`, of `NativeMidi` | `PortsInvariance` (`PortIInv`), `HandlesAreOpen` (`HandlesInv`), `NamesReach` (`NamesReachDevices`) | `NoDevice`, `NotOpen`, `NoHandle` are no device, number, handle; the bounds are naturals |
| `Midi_proofs`, of `NoteState` | `Invariance`, `KeysAreTold` (`InputInv`), `SoundIsTold` (`TableTellsWhatSounds`) | the number of notes and the bounds are naturals |

The bounds on events, calls, errors, sends, ports and restarts are arbitrary, so they
limit nothing in the theorems.

### Lock

None of the properties is inductive. Exclusion depends on
the event being set by one thread only, that on the value of `count`, and that
on who is waiting, including those that gave up. `IInv` follows the *right to
hold* on its way from a releasing thread over the event to a waiter:
`TokenInv` says there is at most one such right and that somebody has it as long
as `count` stands for anybody; `CountInv` says whom `count` stands for (holder,
waiters, timed-out threads); `OwnerInv` that `threadID` is the holder once it
has left `Lock`; `RecInv` that `recursivecount` is the holder's nesting at each
place of the two functions. All of that is only claimed while no thread has
entered on a stale id, which is why `staleEntry` is in the specification.
`NestRoom` is there for the type of `nest`.

One lemma per action shows that it keeps `LockInv`; those that
move a thread into or out of `Counted` cite the cardinality facts of
`FiniteSetTheorems`. `IInvStep` puts them together, the safety theorems follow
from `IInv` state by state, and `MutexStep` maps the return of `Lock` to `Enter`
and the start of `Unlock` to `Leave`; exclusion in the next state is what
makes `Enter` possible.

### Interpreter

A handler finds a state because whoever closes one holds the lock until the next
is open: so the invariant has to say who holds the lock at every place of every
thread (`LockInv`), and for that which call can be at which place (`JobOfThread`,
`JobAtPlace`, `EditorAtPlace`). `StateInv` lists the moments without a state,
`StartInv` those with a state whose `_initCb` has not run; both name the thread
that is in the middle of it, and the lock makes this a contradiction for any other
thread that calls. `ReInitInv` says `insideReInit` is set exactly while a thread is
in `reInit`, which with the lock makes it one thread. `TokenInv` says tokens do not
come back, so that a loop that has had its stale packet is on its way out.
`NameInv` keeps the name being loaded from changing under the frame that loads it;
the load button, which writes without the lock, is its exception.
What a script may do in a callback is one lemma (`ScriptEffect`), cited by the
actions that call it. `NameIsLoaded` and `ShiftEscapeKeepsLock` are about steps:
they compare depth and name before and after each action, from `IInv` before it.

### Shared-memory messages

`OrderInv` puts the messages from one instance to another in a line: delivered,
taken, in the mailbox, about to be written (`SentInv`), each before the next. That
the two threads of the sender do not both have one about to be written is the
work of the lua lock (`ScriptInv`: whoever is in the script, its waits included,
holds it). Lost messages are
on none of these places (`Arrived`), so nothing lost is delivered. `WaitInv` is
the reason for "finished": while a sender waits that nobody overlapped, its
message is in the mailbox or was taken, and the event being set means taken; that
holds because the event is reset in the step that writes, under the mutex.
`AckedIsTaken` is a part of the invariant itself, since what was acknowledged must
stay safe from every later writer.

For `Refinement` every step is a step of the channel or leaves it alone: `Send`
sends, `LockTimesOut`, `WriteFails` and a `Write` over another message lose,
`Deliver` hands over, and the rest moves a message from one place to the next. `OnePlace` says
that no message is at two places, so losing or handing over takes it away
altogether, and `TakenIsOldest` that what was taken is the oldest of its way.

### Programs

`StringsInv` gives the state of the strings half way through `setChunk`: all
copied pointers after the structure was read, then owned blocks up to `target` and
null from there on. `ParametersInv` says at which places of the program change the
parameters are those of the current program. The other parts are properties
themselves, with one helper: `DataKept` follows from `ExposedInv`, that a table
that lags was exposed, and `TableOfProgram`, that a table that does not lag is the
current program's, since whoever saves does so between two calls of the host or is
a restart, which `exposed` records. The histories appear as hypotheses, as in the
properties.

### Scheduler

`Sorts` says what `Sort` may choose: each list has the events of the queue, every one
once, in order of their deltas, whatever its length; that `table.sort` returns such
a list is the part TLC checks in `TableSort`. `DueInv` splits the queue at `i` while the deltas
are decremented: before it they count from the end of the frame, after it from the
start. `SortedInv` carries the order from the sort to the last event that is sent;
that none is due when the sending loop ends makes the decremented deltas natural
numbers. `SendsInv` bounds the sends of each event and keeps the numbers in the
queue distinct. `RepeatsAreFew` is about all events together and needs `RepeatsInv`:
the repetitions there were, and the events that have been sent and are to be sent
again, are no more than the callbacks cut short. Such an event comes about when a
callback ends between `sendMidi` and `table.remove`, it becomes a repetition when it
is sent, and is gone when the queue is emptied.

`Refinement` needs all the parts: the sort returns every event (`Sorts`), the
numbers are distinct, so that sending removes one event only, the head is the
earliest, and at the end of the loop what is left is at least the length of the
frame (`DueInv` at `i` behind the last event), which is `Pass`. Between two
disturbances it says more than the other theorems, and about a disturbed frame,
where the code is no agenda, nothing; `FewRepeats` and `OnTime` are for those.

### Host lock

What a call still has to do is a list, so the invariant is about lists: `Runs(s,
h0, l0, h1, l1, p)` says that the steps of `s` lead from depths `h0` and `l0` of
the two locks to `h1` and `l1`, that none gives back what it does not hold, that
what the test of `halted` skips changes nothing, and that `exlock` is taken inside
`hostLock` by program calls only (`p`). `DepthInv` is: the rest of every thread's
call runs from what the thread holds to nothing, or to what it has `kept` of `exlock`. The list of each call of the
code is shown to run from its depths to the same depths (`Fits`, `Paired`); taking a
step off the front, skipping, and putting a host call in front of the rest keep
`Runs`. `LocksGivenBack` is the case of the empty list, `OnlyProgramCallsCross` that
of a list whose first step is one of the two locks. `TellInv` finds, for every
value set, the step that tells it three places later, and for every thread in
between the value it is about to tell; `ToldInv` follows the last one.

TLC cannot enumerate the depth functions of `Runs`, so no run lists this `IInv`;
it was checked with the depths computed from the list instead. The attempt to
prove `TypeOK` showed that it did not say which values occur in the steps of a
list (`Steps`), which is what the type of `param` rests on.

### Shared aliases

`CallInv` says that a thread runs one callback, of an instance that is there;
`MutexInv` who may have the mutex, including after an error; `TextInv` that
who has it works on the present text, unless somebody wrote carelessly; `FreshInv`
that an instance whose copy is old has a message on its way, or lost. For
`UpdatesAreAtomic` every step maps to a `Set` of `AliasMap` or leaves the text
alone: what `Write` writes differs from the text in the writer's entry only, by
`TextInv`.

### Native MIDI

`HandlesInv` needs `PortsInv`: a handle is kept under the number it was opened by,
so that closing one does not close another's. `NamesReachDevices` needs `NumbersInv`:
up to a renumbering every number in use is the `Entry` that `getMidiDeviceID` finds
for its name, also between the steps of an opening. This `IInv` was checked by TLC with the
constants of `native_midi`, whose run lists the two properties that follow.

### Note state

An event changes the table in one step and the sound in another, so `SoundInv` and
`KeyInv` except the note of the event that is between the two, and say of it that
the side which is done agrees with the event (`Sounds`). `PlaceInv` tells which
events can be where: only `panic` sends controllers. While `panic` runs the table
is ignored; what is claimed is that each note is silent, lost, in the event on its
way, or still in `todo`, so that all are silent when the table is emptied.
`StopInv` says that `stopAllPlaying` has still to come to every entry there is; so the
table is empty when it returns, and by `SoundInv` nothing sounds.
`WireInv` relates both ends for a plugin without a `midiEventCb`, but for notes in `own`. What will sound at the
end of the frame is defined by the last event that waits for a note; the lemmas
`WillPlay`, `WillAppend`, `WillEnd` say how it changes.

This `IInv` was checked by TLC with the constants of `note_state`, whose run lists
the two properties.

### Only model-checked

Liveness: `WaitersAdmitted`, `RequestServed`, `MailboxEmptied`, `EventuallySent`
and `CallsEnd`. The prover has no rule for fairness here. That the quicksort of
`TableSort`, which is recursive, returns what `Scheduler` takes it for.

## 5. Not modelled

Memory beyond the programs' strings, so buffer lengths, unmapping and the
stack slots that `onKey` and `onHelp` leave on the Lua stack (except the one that
decides about a receive loop); the limits of the list of instances; the values of
controls and controllers; window drawing and dialogs; OSC conversion; the music
theory tables; the example scripts.

Most of the repository is not the program's own code: Lua 5.1.4, luasocket,
oscpack, the Lua libraries under `src/lua/lib` and `src/addons`, `lbitlib.c` and
`lookup3.c` are taken over unchanged and make up about three quarters of the
lines. They are modelled where the program depends on what they do: `lua_pcall`
as a call that may fail, the execution trap as a cut after any instruction,
`table.sort` as the quicksort it is and as any sort, `pairs` as any order. Of the program's own code some
two thirds is registration of functions, conversion of arguments, drawing and
look-up tables without state that could go wrong between two calls.

## 6. Plan

Written so far, in this order: `LuaLock` with its abstraction and proofs,
`Interpreter`, `SharedMem`, `ProgramBank`, `Scheduler`, `HostLuaLocks`,
`SharedAliases` with `AliasMap`, `NoteState`, `NativeMidi`; then `LossyChannel` and
`Agenda` as what the scripts are told of `SharedMem` and `Scheduler`.

Next modules, most important first:

1. `InstanceRegistry`: the list of names, its limits and `pushInstances`.
2. `NoteState` composed with `Scheduler` (the scheduler's `sendMidi` is this one).
3. `LineRing` and `Controls`: ring arithmetic of `linemanager.cpp`, value mapping
   of `gui.lua`; `escape` and its inverse as functions over short texts.

Theorems: every invariant and every safety property of the runs has one. What is
left: which of the promises in the second table of section 3 hold under a
hypothesis worth stating (`OrderKept` without equal deltas is one), and the modules
above, each with its inductive invariant.
