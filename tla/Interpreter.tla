----------------------------- MODULE Interpreter -----------------------------
(***************************************************************************)
(* The life of the Lua interpreter inside one plugin instance (class       *)
(* VstLua, src/vstlua.cpp) and the threads that call into it: the host's   *)
(* audio thread, the editor's thread, the shared-memory message thread,    *)
(* the UDP receive loops and the file selectors a script started.          *)
(*                                                                         *)
(* exlock is taken as the recursive mutex it is meant to be; LuaLock says  *)
(* when it is one.  halted, networkToken and scriptToLoad are plain fields *)
(* that several threads touch without it, so each access outside the lock  *)
(* is a step of its own.                                                   *)
(***************************************************************************)
EXTENDS Naturals, FiniteSets

CONSTANTS Audio, Editor, Messages, \* the threads that always exist
          Loops, Selectors,        \* receive loops and file selectors
          NoThread,
          Scripts,                 \* names of script files
          NoScript,                \* the empty name: no script
          NoRequest,               \* scriptToLoad == NULL
          Events,                  \* what host and user do in this run
          MaxResets,               \* bound: requests to restart
          MaxLeaks                 \* bound: a Shift-Escape key needs depth
                                   \* at most this

Threads == {Audio, Editor, Messages} \cup Loops \cup Selectors

(* Jobs whose handler tests halted once it has the lock.                   *)
Guarded == {"midi", "keyDown", "shiftEscDown", "shiftEscUp", "message"}
(* Jobs whose handler calls the script without a test under the lock.      *)
Unguarded == {"window", "program", "packet", "file"}
AudioJobs == {"frame", "midi"}
EditorJobs == {"keyDown", "shiftEscDown", "shiftEscUp", "window", "program",
               "reset", "load", "halt", "resume", "suspend", "destroy"}

ASSUME EventsAssumption == Events \subseteq AudioJobs \cup EditorJobs
ASSUME ThreadsAssumption ==
    /\ NoThread \notin Threads
    /\ Audio # Editor /\ Editor # Messages /\ Messages # Audio
    /\ Loops \cap Selectors = {}
    /\ {Audio, Editor, Messages} \cap (Loops \cup Selectors) = {}
ASSUME ScriptsAssumption ==
    /\ NoScript \notin Scripts
    /\ NoRequest \notin Scripts \cup {NoScript}
    /\ MaxResets \in Nat /\ MaxLeaks \in Nat

VARIABLES
    owner, depth,      \* exlock: its holder and how often it holds it
    lua,               \* lua_state: 0 for NULL, else the number of the state
    opened,            \* how many states lua_open has made
    stackTop,          \* number a key handler left on top of the Lua stack
    halted,            \* halted # 0
    insideReInit, networkToken, current_script, scriptToLoad,
    pc, job,           \* per thread: place, and what it is doing
    token, state,      \* per loop and selector: networkToken and lua_state
                       \* when the script started it
    receiving,         \* per loop: the flag of its while loop
    resets,            \* restarts requested, for the bound
    \* history
    initialised,       \* _initCb of the open state has been called
    raced,             \* halted was cleared while a reInit was running
    failed,            \* the start of the open state failed
    userHalt,          \* halt was pressed and no reInit has run since
    stale,             \* per loop: packets given to a later state
    askedStop          \* per loop: its callback returned 0

lockVars == <<owner, depth>>
luaVars == <<lua, opened, stackTop>>
haltVars == <<halted, insideReInit, networkToken>>
scriptVars == <<current_script, scriptToLoad, resets>>
bornVars == <<token, state>>
histVars == <<initialised, raced, failed, userHalt, stale, askedStop>>
vars == <<lockVars, luaVars, haltVars, scriptVars, pc, job, bornVars,
          receiving, histVars>>

Init ==
    /\ owner = NoThread /\ depth = 0
    /\ lua = 0 /\ opened = 0 /\ stackTop = "none"
    /\ halted = TRUE /\ insideReInit = FALSE /\ networkToken = 0
    /\ current_script = NoScript /\ scriptToLoad = NoRequest
    \* The constructor has started the message thread and is about to call
    \* initInterpreter.
    /\ pc = [t \in Threads |-> CASE t = Editor -> "lock"
                                 [] t \in {Audio, Messages} -> "idle"
                                 [] OTHER -> "off"]
    /\ job = [t \in Threads |-> IF t = Editor THEN "build" ELSE "none"]
    /\ token = [t \in Loops \cup Selectors |-> 0]
    /\ state = [t \in Loops \cup Selectors |-> 0]
    /\ receiving = [n \in Loops |-> FALSE]
    /\ resets = 0
    /\ initialised = FALSE /\ raced = FALSE /\ failed = FALSE
    /\ userHalt = FALSE
    /\ stale = [n \in Loops |-> 0]
    /\ askedStop = [n \in Loops |-> FALSE]

Built == job[Editor] # "build"
Gone == job[Editor] \in {"destroy", "gone"}

Goto(t, from, to) ==
    /\ pc[t] = from
    /\ pc' = [pc EXCEPT ![t] = to]

-----------------------------------------------------------------------------
(* What a script may do while it runs in thread t: nothing that matters    *)
(* here, halt (verror, or an error that fatal_error reports), ask for a    *)
(* restart, start a receive loop or open a file selector.  The thread goes *)
(* on at `next'.                                                           *)
ScriptHalts(t, next) ==
    /\ halted' = TRUE
    /\ pc' = [pc EXCEPT ![t] = next]
    /\ UNCHANGED <<scriptToLoad, resets, bornVars, receiving, stale, askedStop>>

\* mutant: reset() is not refused while a reInit runs
ScriptResetsAnyTime(t, next) ==
    /\ resets < MaxResets
    /\ resets' = resets + 1
    /\ scriptToLoad' \in Scripts \cup {NoScript}
    /\ pc' = [pc EXCEPT ![t] = next]
    /\ UNCHANGED <<halted, bornVars, receiving, stale, askedStop>>

\* resetLua: refused by fatal_error inside a reInit, else preloadScript.
ScriptResets(t, next) ==
    /\ ~insideReInit
    /\ resets < MaxResets
    /\ resets' = resets + 1
    /\ scriptToLoad' \in Scripts \cup {NoScript}
    /\ pc' = [pc EXCEPT ![t] = next]
    /\ UNCHANGED <<halted, bornVars, receiving, stale, askedStop>>

\* networkReceiveLoopLua and openFileSelectorLua start a thread.
Start(n, s) ==
    /\ pc[n] = "off"
    /\ token' = [token EXCEPT ![n] = networkToken]
    /\ state' = [state EXCEPT ![n] = s]

StartsLoop(t, s, next) == \E n \in Loops :
    /\ Start(n, s)
    /\ pc' = [pc EXCEPT ![t] = next, ![n] = "recv"]
    /\ receiving' = [receiving EXCEPT ![n] = TRUE]
    /\ stale' = [stale EXCEPT ![n] = 0]
    /\ askedStop' = [askedStop EXCEPT ![n] = FALSE]
    /\ UNCHANGED <<halted, scriptToLoad, resets>>

OpensSelector(t, s, next) == \E n \in Selectors :
    /\ Start(n, s)
    /\ pc' = [pc EXCEPT ![t] = next, ![n] = "select"]
    /\ UNCHANGED <<halted, scriptToLoad, resets, receiving, stale, askedStop>>

ScriptQuiet(t, next) ==
    /\ pc' = [pc EXCEPT ![t] = next]
    /\ UNCHANGED <<halted, scriptToLoad, resets, bornVars, receiving, stale,
                   askedStop>>

ScriptRuns(t, s, next) ==
    \/ ScriptQuiet(t, next)
    \/ ScriptHalts(t, next)
    \/ ScriptResets(t, next)
    \/ StartsLoop(t, s, next)
    \/ OpensSelector(t, s, next)

-----------------------------------------------------------------------------
(* Calls that arrive: processReplacing and processEvents from the host,    *)
(* keys, the window, program changes and buttons, a shared-memory message. *)

Begin(t, j, place) ==
    /\ Goto(t, "idle", place)
    /\ job' = [job EXCEPT ![t] = j]
    /\ UNCHANGED <<lockVars, luaVars, haltVars, bornVars, receiving, histVars>>

\* mutant: a halted plugin processes no frames
AudioCallUnlessHalted == \E j \in AudioJobs \cap Events :
    /\ Built /\ ~Gone /\ ~halted
    /\ Begin(Audio, j, "lock")
    /\ UNCHANGED scriptVars

AudioCall == \E j \in AudioJobs \cap Events :
    /\ Built /\ ~Gone
    /\ Begin(Audio, j, "lock")
    /\ UNCHANGED scriptVars

MessageArrives ==
    /\ job[Editor] # "gone"
    /\ Begin(Messages, "message", "lock")
    /\ UNCHANGED scriptVars

KeyOrWindow == \E j \in {"keyDown", "shiftEscDown", "shiftEscUp", "window"} \cap Events :
    /\ ~Gone
    /\ j \in {"shiftEscDown", "shiftEscUp"} => depth <= MaxLeaks
    /\ Begin(Editor, j, "lock")
    /\ UNCHANGED scriptVars

\* setProgram and getChunk test halted before onSaveProgram or
\* onLoadProgram takes the lock.
ProgramChange ==
    /\ ~Gone /\ "program" \in Events
    /\ ~halted
    /\ Begin(Editor, "program", "lock")
    /\ UNCHANGED scriptVars

ResetButton ==
    /\ ~Gone /\ "reset" \in Events
    /\ resets < MaxResets
    /\ resets' = resets + 1
    /\ Begin(Editor, "reset", "lock")
    /\ UNCHANGED <<current_script, scriptToLoad>>

\* setScript before it calls reInit: HALT and the new name, "" if the file
\* cannot be opened.
LoadButton ==
    /\ ~Gone /\ "load" \in Events
    /\ resets < MaxResets
    /\ resets' = resets + 1
    /\ Goto(Editor, "idle", "lock")
    /\ job' = [job EXCEPT ![Editor] = "load"]
    /\ halted' = TRUE
    /\ current_script' \in Scripts \cup {NoScript}
    /\ UNCHANGED <<lockVars, luaVars, insideReInit, networkToken, scriptToLoad,
                   bornVars, receiving, histVars>>

\* The halt button (fatal_error) and suspend set halted, resume clears it;
\* none of them takes the lock.
HaltChange(h) ==
    /\ ~Gone
    /\ pc[Editor] = "idle"
    /\ halted' = h
    /\ UNCHANGED <<lockVars, luaVars, insideReInit, networkToken, scriptVars,
                   pc, job, bornVars, receiving, initialised, failed, stale,
                   askedStop>>

HaltButton ==
    /\ "halt" \in Events
    /\ HaltChange(TRUE)
    /\ userHalt' = TRUE
    /\ UNCHANGED raced

Suspend == "suspend" \in Events /\ HaltChange(TRUE) /\ UNCHANGED <<raced, userHalt>>

Resume ==
    /\ "resume" \in Events
    /\ HaltChange(FALSE)
    /\ raced' = (raced \/ insideReInit)
    /\ UNCHANGED userHalt

\* The destructor: closeInterpreter, then HALT.  The host makes no other call.
Destroy ==
    /\ "destroy" \in Events
    /\ ~Gone
    /\ pc[Audio] = "idle"
    /\ Begin(Editor, "destroy", "lock")
    /\ UNCHANGED scriptVars

-----------------------------------------------------------------------------
(* The lock *)

\* mutant: Lock does not wait for its holder
LocksAtOnce(t) ==
    /\ owner' = t
    /\ depth' = depth + 1

Locks(t) ==
    /\ owner \in {NoThread, t}
    /\ owner' = t
    /\ depth' = depth + 1

\* mutant: an inner Unlock frees the lock
UnlocksAll(t) ==
    /\ owner = t
    /\ depth' = depth - 1
    /\ owner' = NoThread

Unlocks(t) ==
    /\ owner = t
    /\ depth' = depth - 1
    /\ owner' = IF depth' = 0 THEN NoThread ELSE t

Lock(t) ==
    /\ Locks(t)
    /\ Goto(t, "lock", "body")
    /\ UNCHANGED <<luaVars, haltVars, scriptVars, job, bornVars, receiving,
                   histVars>>

\* After the unlock a receive loop goes round again or ends.
Unlock(t) ==
    /\ Unlocks(t)
    /\ Goto(t, "unlock", IF t \in Loops THEN IF receiving[t] THEN "recv" ELSE "off"
                         ELSE IF t \in Selectors THEN "off" ELSE "idle")
    /\ job' = [job EXCEPT ![t] = IF @ = "destroy" THEN @ ELSE "none"]
    /\ UNCHANGED <<luaVars, haltVars, scriptVars, bornVars, receiving, histVars>>

-----------------------------------------------------------------------------
(* The handlers, once they have the lock *)

Stay == UNCHANGED <<luaVars, scriptVars, job, bornVars, receiving, histVars>>

\* onFrame: a script that waits is loaded first (setScript: HALT, the name,
\* reInit with the lock taken once more).
FrameLoads ==
    /\ job[Audio] = "frame" /\ scriptToLoad # NoRequest
    /\ Goto(Audio, "body", "reinit")
    /\ Locks(Audio)
    /\ halted' = TRUE
    /\ current_script' \in {scriptToLoad, NoScript}
    /\ UNCHANGED <<luaVars, insideReInit, networkToken, scriptToLoad, resets,
                   job, bornVars, receiving, histVars>>

FrameDoesNotLoad ==
    /\ job[Audio] = "frame" /\ scriptToLoad = NoRequest
    /\ Goto(Audio, "body", "test")
    /\ UNCHANGED <<lockVars, haltVars>> /\ Stay

\* delete scriptToLoad; scriptToLoad = NULL
FrameLoaded ==
    /\ Goto(Audio, "loaded", "test")
    /\ scriptToLoad' = NoRequest
    /\ UNCHANGED <<lockVars, luaVars, haltVars, current_script, resets, job,
                   bornVars, receiving, histVars>>

Handle(t) ==
    /\ job[t] # "frame"
    /\ Goto(t, "body", CASE job[t] \in Guarded -> "test"
                         [] job[t] \in Unguarded -> "call"
                         [] job[t] \in {"reset", "load", "build"} -> "reinit"
                         [] job[t] = "destroy" -> "onReset")
    /\ UNCHANGED <<lockVars, haltVars>> /\ Stay

\* mutant: messageCallback tests halted only
MayCallUnlessHalted(t) == ~halted

\* if(!halted): messageCallback also tests lua_state.
MayCall(t) == ~halted /\ (job[t] = "message" => lua # 0)

TestCalls(t) ==
    /\ MayCall(t)
    /\ job[t] \notin {"shiftEscDown", "shiftEscUp"}
    /\ Goto(t, "test", "call")
    /\ UNCHANGED <<lockVars, haltVars>> /\ Stay

TestSkips(t) ==
    /\ ~MayCall(t)
    /\ Goto(t, "test", "unlock")
    /\ UNCHANGED <<lockVars, haltVars>> /\ Stay

\* onKey returns from its Shift-Escape branch without LUA_UNLOCK.
ShiftEscapeDown ==
    /\ job[Editor] = "shiftEscDown"
    /\ MayCall(Editor)
    /\ Goto(Editor, "test", "idle")
    /\ job' = [job EXCEPT ![Editor] = "none"]
    /\ UNCHANGED <<lockVars, luaVars, haltVars, scriptVars, bornVars, receiving,
                   histVars>>

ShiftEscapeUp ==
    /\ job[Editor] = "shiftEscUp"
    /\ MayCall(Editor)
    /\ resets < MaxResets
    /\ resets' = resets + 1
    /\ Goto(Editor, "test", "reinit")
    /\ Locks(Editor)
    /\ UNCHANGED <<luaVars, haltVars, current_script, scriptToLoad, job,
                   bornVars, receiving, histVars>>

(* The state a callback runs in: a file selector uses the one it kept, the *)
(* others read lua_state.                                                  *)
RunsIn(t) == IF t \in Selectors THEN state[t] ELSE lua

\* The pcall of a handler.  onKey leaves the callback's result on the stack,
\* a failed pcall its message.
Callback(t) ==
    /\ pc[t] = "call"
    /\ ScriptRuns(t, RunsIn(t), IF t \in Loops THEN "result" ELSE "unlock")
    /\ stackTop' \in CASE job[t] = "keyDown" -> {"none", "0", "1"}
                       [] halted' /\ ~halted -> {stackTop, "none"}
                       [] OTHER -> {stackTop}
    /\ UNCHANGED <<lockVars, lua, opened, insideReInit, networkToken,
                   current_script, job, initialised, raced, failed, userHalt>>

-----------------------------------------------------------------------------
(* reInit, by the thread t that holds the lock *)

ReStay == UNCHANGED <<current_script, job, userHalt>>

EnterReInit(t) ==
    /\ Goto(t, "reinit", "newToken")
    /\ insideReInit' = TRUE
    /\ halted' = TRUE
    /\ userHalt' = FALSE
    /\ raced' = FALSE /\ failed' = FALSE
    /\ UNCHANGED <<lockVars, luaVars, networkToken, scriptVars, job, bornVars,
                   receiving, initialised, stale, askedStop>>

NewNetworkToken(t) ==
    /\ Goto(t, "newToken", "onReset")
    /\ networkToken' = networkToken + 1
    /\ UNCHANGED <<lockVars, luaVars, halted, insideReInit, scriptVars, job,
                   bornVars, receiving, histVars>>

\* closeInterpreter: _resetCb runs in the state that is about to go.
OnReset(t) ==
    /\ pc[t] = "onReset"
    /\ IF lua # 0 THEN ScriptRuns(t, lua, "close")
                  ELSE ScriptQuiet(t, "close")
    /\ UNCHANGED <<lockVars, luaVars, insideReInit, networkToken, initialised,
                   raced, failed>> /\ ReStay

CloseState(t) ==
    /\ Goto(t, "close", IF job[t] = "destroy" THEN "unlock" ELSE "open")
    /\ lua' = 0
    /\ UNCHANGED <<lockVars, opened, stackTop, haltVars, scriptVars, job,
                   bornVars, receiving, histVars>>

\* The destructor goes on: HALT, once closeInterpreter has unlocked.
DestroyHalts ==
    /\ pc[Editor] = "idle" /\ job[Editor] = "destroy"
    /\ job' = [job EXCEPT ![Editor] = "gone"]
    /\ halted' = TRUE
    /\ UNCHANGED <<lockVars, luaVars, insideReInit, networkToken, scriptVars,
                   pc, bornVars, receiving, histVars>>

OpenState(t) ==
    /\ Goto(t, "open", "initScript")
    /\ halted' = TRUE
    /\ opened' = opened + 1
    /\ lua' = opened'
    /\ stackTop' = "none"
    /\ initialised' = FALSE
    /\ UNCHANGED <<lockVars, insideReInit, networkToken, scriptVars, job,
                   bornVars, receiving, raced, failed, userHalt, stale,
                   askedStop>>

\* initScript runs init.lua and the script; a failure is a fatal_error.
InitScript(t) ==
    /\ pc[t] = "initScript"
    /\ ScriptRuns(t, lua, "initCb")
    /\ failed' \in {failed, halted'}
    /\ UNCHANGED <<lockVars, luaVars, insideReInit, networkToken, initialised,
                   raced>> /\ ReStay

\* mutant: the test of halted is the wrong way round
InitCbIfRunning(t) ==
    /\ pc[t] = "initCb"
    /\ IF ~halted
       THEN /\ ScriptRuns(t, lua, "restart")
            /\ failed' \in {failed, halted'}
            /\ initialised' = TRUE
       ELSE /\ ScriptQuiet(t, "leave")
            /\ UNCHANGED <<failed, initialised>>
    /\ UNCHANGED <<lockVars, luaVars, insideReInit, networkToken, raced>>
    /\ ReStay

\* if(halted) around _initCb: halted was set to 1 above.
InitCb(t) ==
    /\ pc[t] = "initCb"
    /\ IF halted
       THEN /\ ScriptRuns(t, lua, "restart")
            /\ failed' \in {failed, halted'}
            /\ initialised' = TRUE
       ELSE /\ ScriptQuiet(t, "leave")
            /\ UNCHANGED <<failed, initialised>>
    /\ UNCHANGED <<lockVars, luaVars, insideReInit, networkToken, raced>>
    /\ ReStay

\* if(halted) UNHALT; else the reset button is lit.
Restart(t) ==
    /\ Goto(t, "restart", "leave")
    /\ halted' = FALSE
    /\ UNCHANGED <<lockVars, insideReInit, networkToken>> /\ Stay

LeaveReInit(t) ==
    /\ Goto(t, "leave", IF job[t] = "frame" THEN "loaded" ELSE "idle")
    /\ Unlocks(t)
    /\ insideReInit' = FALSE
    /\ job' = [job EXCEPT ![t] = IF @ = "frame" THEN @ ELSE "none"]
    /\ UNCHANGED <<luaVars, halted, networkToken, scriptVars, bornVars,
                   receiving, histVars>>

ReInit(t) ==
    \/ EnterReInit(t) \/ NewNetworkToken(t) \/ OnReset(t) \/ CloseState(t)
    \/ OpenState(t) \/ InitScript(t) \/ InitCb(t) \/ Restart(t)
    \/ LeaveReInit(t)

-----------------------------------------------------------------------------
(* ReceiveLoop in a thread of its own.  A packet may come at any time.     *)

LoopStay == UNCHANGED <<lockVars, luaVars, haltVars, scriptVars, bornVars, histVars>>

\* mutant: the loop does not look at the token
PacketArrivesAnyToken(n) ==
    /\ Goto(n, "recv", "testHalted")
    /\ UNCHANGED <<job, receiving>> /\ LoopStay

PacketArrives(n) ==
    /\ token[n] = networkToken
    /\ Goto(n, "recv", "testHalted")
    /\ UNCHANGED <<job, receiving>> /\ LoopStay

\* A receive error, or the token has changed: the loop ends.
LoopStops(n) ==
    /\ Goto(n, "recv", "off")
    /\ receiving' = [receiving EXCEPT ![n] = FALSE]
    /\ UNCHANGED job /\ LoopStay

PacketDropped(n) ==
    /\ halted
    /\ Goto(n, "testHalted", "recv")
    /\ UNCHANGED <<job, receiving>> /\ LoopStay

PacketTaken(n) ==
    /\ ~halted
    /\ Goto(n, "testHalted", "lock")
    /\ job' = [job EXCEPT ![n] = "packet"]
    /\ UNCHANGED receiving /\ LoopStay

\* The callback has failed, or it has returned.  The pcall asks for no
\* result, so what is tested is what else the stack holds: a number that a
\* key handler left there, if any.
CallbackFailed(n) ==
    /\ Goto(n, "result", "unlock")
    /\ halted' = TRUE
    /\ receiving' = [receiving EXCEPT ![n] = FALSE]
    /\ stackTop' = "none"
    /\ stale' = [stale EXCEPT ![n] = @ + IF token[n] = networkToken THEN 0 ELSE 1]
    /\ UNCHANGED <<lockVars, lua, opened, insideReInit, networkToken, scriptVars,
                   job, bornVars, initialised, raced, failed, userHalt, askedStop>>

CallbackReturned(n) ==
    /\ Goto(n, "result", "unlock")
    /\ receiving' = [receiving EXCEPT ![n] = stackTop # "0"]
    /\ stale' = [stale EXCEPT ![n] = @ + IF token[n] = networkToken THEN 0 ELSE 1]
    /\ \E zero \in BOOLEAN :
          askedStop' = [askedStop EXCEPT ![n] = @ \/ zero]
    /\ UNCHANGED <<lockVars, luaVars, haltVars, scriptVars, job, bornVars,
                   initialised, raced, failed, userHalt>>

ReceiveLoop(n) ==
    \/ PacketArrives(n) \/ LoopStops(n) \/ PacketDropped(n) \/ PacketTaken(n)
    \/ CallbackFailed(n) \/ CallbackReturned(n)

(* openFileCallback: the user is done with the selector.                   *)
FileChosen(f) ==
    /\ Goto(f, "select", IF token[f] = networkToken THEN "lock" ELSE "off")
    /\ job' = [job EXCEPT ![f] = "file"]
    /\ UNCHANGED receiving /\ LoopStay

-----------------------------------------------------------------------------
Calls == AudioCall \/ MessageArrives \/ KeyOrWindow \/ ProgramChange
         \/ ResetButton \/ LoadButton \/ HaltButton \/ Suspend \/ Resume \/ Destroy

Handlers(t) ==
    \/ Handle(t) \/ TestCalls(t) \/ TestSkips(t) \/ Callback(t)
    \/ t = Audio /\ (FrameLoads \/ FrameDoesNotLoad \/ FrameLoaded)
    \/ t = Editor /\ (ShiftEscapeDown \/ ShiftEscapeUp \/ DestroyHalts)

Next ==
    \/ Calls
    \/ \E t \in Threads : Lock(t) \/ Unlock(t) \/ Handlers(t) \/ ReInit(t)
    \/ \E n \in Loops : ReceiveLoop(n)
    \/ \E f \in Selectors : FileChosen(f)

Spec == Init /\ [][Next]_vars

(* Threads keep running and the lock does not pass one of them by for      *)
(* ever; the host goes on processing frames.                               *)
Frame == AudioCall /\ job'[Audio] = "frame"

Fairness ==
    /\ \A t \in Threads :
          /\ WF_vars(Unlock(t) \/ Handlers(t) \/ ReInit(t))
          /\ SF_vars(Lock(t))
    /\ \A n \in Loops : WF_vars(CallbackFailed(n) \/ CallbackReturned(n))
    /\ SF_vars(Frame)

FairSpec == Spec /\ Fairness

-----------------------------------------------------------------------------
Places == {"off", "idle", "lock", "body", "test", "call", "unlock", "reinit",
           "newToken", "onReset", "close", "open", "initScript", "initCb",
           "restart", "leave", "loaded", "recv", "testHalted", "result",
           "select"}
Jobs == Guarded \cup Unguarded \cup AudioJobs \cup EditorJobs
        \cup {"none", "build", "gone"}

TypeOK ==
    /\ owner \in Threads \cup {NoThread}
    /\ depth \in Nat /\ (depth = 0 <=> owner = NoThread)
    /\ lua \in 0..opened /\ opened \in Nat
    /\ stackTop \in {"none", "0", "1"}
    /\ halted \in BOOLEAN /\ insideReInit \in BOOLEAN
    /\ networkToken \in Nat
    /\ current_script \in Scripts \cup {NoScript}
    /\ scriptToLoad \in Scripts \cup {NoScript, NoRequest}
    /\ pc \in [Threads -> Places]
    /\ job \in [Threads -> Jobs]
    /\ token \in [Loops \cup Selectors -> Nat]
    /\ state \in [Loops \cup Selectors -> Nat]
    /\ receiving \in [Loops -> BOOLEAN] /\ stale \in [Loops -> Nat]
    /\ resets \in 0..MaxResets
    /\ initialised \in BOOLEAN /\ raced \in BOOLEAN

InCall(t) == pc[t] = "call"

(* No handler ever runs in a NULL state: not those of host and editor,     *)
(* although several of them do not test halted, and not messageCallback,   *)
(* although between closeInterpreter and HALT in the destructor halted may *)
(* still be 0 and the message thread still runs.                           *)
CallersSeeAState == InCall(Audio) \/ InCall(Editor) \/ InCall(Messages) => lua # 0

(* No handler reaches a script whose _initCb has not been called, unless   *)
(* resume() cleared halted in the middle of the reInit and made it skip    *)
(* the call.                                                               *)
InitFirst == \A t \in Threads \ Selectors :
    InCall(t) /\ lua # 0 => initialised \/ raced

(* "to avoid recursive calls to reinit": no thread starts a reInit while   *)
(* another one is under way, whoever asked for it.                         *)
NoNestedReInit == \A t \in Threads : pc[t] = "reinit" => ~insideReInit

(* A receive loop of an earlier token gives the new script at most the one *)
(* packet it had already tested when the token changed.                    *)
OneStalePacket == \A n \in Loops : stale[n] <= 1

(* How often a thread has to hold the lock where it is.                    *)
Outside == {"off", "idle", "lock", "recv", "testHalted", "select"}
ReInitPlaces == {"reinit", "newToken", "onReset", "close", "open", "initScript",
                 "initCb", "restart", "leave"}
Held(t) ==
    IF pc[t] \in Outside THEN 0
    ELSE IF pc[t] \in ReInitPlaces /\ job[t] \in {"frame", "shiftEscUp"} THEN 2
    ELSE 1
Surplus == depth - (IF owner = NoThread THEN 0 ELSE Held(owner))

(* Every way out of a call gives the lock back as often as it took it,     *)
(* restarts from within a call included, and no thread gives back what     *)
(* another one or a call before has taken; only the Shift-Escape branch of *)
(* onKey keeps it, each time once.                                         *)
OnlyShiftEscapeKeepsLock ==
    [][Surplus' # Surplus => /\ Surplus' = Surplus + 1 /\ owner = Editor
                             /\ job[Editor] \in {"shiftEscDown", "shiftEscUp"}]_vars

(* A name that a script handed to reset() leaves scriptToLoad only when it *)
(* has become the current script (or could not be opened): requests made   *)
(* while it is being loaded do not take its place.  The load button, which *)
(* writes current_script without the lock, may have changed it since.      *)
RequestLoaded ==
    [][scriptToLoad # NoRequest /\ scriptToLoad' = NoRequest =>
         current_script \in {scriptToLoad, NoScript} \/ job[Editor] = "load"]_vars

(* A restart that a script asks for is carried out by a later frame, even  *)
(* if the script has been halted since, unless the plugin goes away.       *)
RequestServed == scriptToLoad # NoRequest ~> scriptToLoad = NoRequest \/ Gone

-----------------------------------------------------------------------------
(* The inductive invariant.  First, which jobs bring which thread where.   *)
RestartJobs == {"frame", "shiftEscUp", "reset", "load", "build"}
Handled == Guarded \cup Unguarded \cup RestartJobs \cup {"destroy"}

JobOfThread ==
    /\ job[Audio] \in AudioJobs \cup {"none"}
    /\ job[Editor] \in EditorJobs \cup {"none", "build", "gone"}
    /\ job[Messages] \in {"none", "message"}
    /\ \A n \in Loops : job[n] \in {"none", "packet"}
    /\ \A f \in Selectors : job[f] \in {"none", "file"}

JobAtPlace == \A t \in Threads :
    /\ pc[t] \in {"lock", "body"} => job[t] \in Handled
    /\ pc[t] = "test" => job[t] \in Guarded \cup {"frame"}
    /\ pc[t] = "call" => job[t] \in Guarded \cup Unguarded \cup {"frame"}
    /\ pc[t] \in ReInitPlaces =>
          job[t] \in RestartJobs \/ (pc[t] \in {"onReset", "close"} /\ job[t] = "destroy")
    /\ pc[t] = "loaded" => t = Audio /\ job[t] = "frame"
    /\ pc[t] \in {"recv", "testHalted", "result"} => t \in Loops
    /\ pc[t] = "select" => t \in Selectors

EditorAtPlace ==
    /\ pc[Editor] = "idle" => job[Editor] \in {"none", "destroy", "gone"}
    /\ job[Editor] = "gone" => pc[Editor] = "idle"
    /\ pc[Audio] # "idle" => Built /\ ~Gone

\* a thread that is past its lock has it, as often as it needs
LockInv ==
    /\ \A t \in Threads : pc[t] \notin Outside => owner = t
    /\ owner # NoThread => depth >= Held(owner)

\* insideReInit belongs to the thread that is in reInit
Reiniting(t) == pc[t] \in ReInitPlaces \ {"reinit"} /\ job[t] # "destroy"
ReInitInv == insideReInit <=> \E t \in Threads : Reiniting(t)

\* without a state: not built yet, or between two states, or at the end
StateInv ==
    /\ lua = 0 =>
          \/ ~Built /\ pc[Editor] \in {"lock", "body", "reinit", "newToken",
                                       "onReset", "close"}
          \/ Gone
          \/ \E t \in Threads : pc[t] = "open"
    /\ pc[Messages] = "call" => lua # 0

(* A state whose _initCb has not been called is being set up, or about to  *)
(* be closed, unless the call was skipped.                                 *)
StartInv ==
    /\ \A t \in Threads : pc[t] \in {"initScript", "initCb"} => halted \/ raced
    /\ lua = 0 \/ initialised \/ raced \/ \E t \in Threads :
          pc[t] \in {"newToken", "onReset", "close", "initScript", "initCb"}

\* tokens do not come back, so a loop of an old one gets no further packet
TokenInv == \A n \in Loops :
    /\ token[n] <= networkToken
    /\ stale[n] = 0 \/ (stale[n] = 1 /\ token[n] < networkToken
                        /\ pc[n] \in {"unlock", "recv", "off"})

\* nobody replaces the name that a frame is loading
NameInv == job[Audio] = "frame" /\ pc[Audio] \in ReInitPlaces \cup {"loaded"} =>
    current_script \in {scriptToLoad, NoScript} \/ job[Editor] = "load"

IInv == TypeOK /\ JobOfThread /\ JobAtPlace /\ EditorAtPlace /\ LockInv
        /\ ReInitInv /\ StateInv /\ StartInv /\ TokenInv /\ NameInv

-----------------------------------------------------------------------------
(* What the documentation or a comment says and the code does not do.      *)

(* "The halt button stops all callbacks to the script until reset is       *)
(* pressed": no call of the script starts in between.                      *)
HaltStopsCallbacks ==
    [][\A t \in Threads : ~InCall(t) /\ InCall(t)' => ~userHalt]_vars

(* "restart the interpreter, but only if the preceding didn't halt": a     *)
(* script that failed to start stays halted.                               *)
FailedStartStaysHalted == failed /\ ~insideReInit => halted

(* "make sure previous network threads don't try and call this callback".  *)
NoStalePacket == \A n \in Loops : InCall(n) => token[n] = networkToken

(* "the token forces the loop to stop if we reinit": a loop whose token is *)
(* current belongs to the script that is running.                          *)
TokenNamesState == \A n \in Loops :
    InCall(n) /\ token[n] = networkToken => state[n] = lua

(* "check it's the same instance of lua": the selector's callback runs in  *)
(* the interpreter that opened it.                                         *)
SelectorSameState == \A f \in Selectors : InCall(f) => state[f] = lua

(* "If it returns 0, the network loop thread will end."                    *)
LoopEndsOnZero == \A n \in Loops : InCall(n) => ~askedStop[n]

(* "Shift-Escape resets the plugin".                                       *)
ShiftEscapeResets ==
    [][job[Editor] = "shiftEscUp" /\ pc[Editor] = "test" /\ pc'[Editor] # "test"
         => pc'[Editor] = "reinit"]_vars

(* A frame that waits for the lock gets it.                                *)
FramesServed == pc[Audio] = "lock" ~> pc[Audio] # "lock"
=============================================================================
