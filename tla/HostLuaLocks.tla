---------------------------- MODULE HostLuaLocks ----------------------------
(***************************************************************************)
(* The two locks of an instance together (src/vstlua.cpp,                  *)
(* src/luacalls.cpp): exlock around everything that touches the Lua state, *)
(* hostLock around calls into the host and around program changes.  Each   *)
(* is the recursive mutex that LuaLock implements.  A call is the list of  *)
(* what it does to the locks, to one VST parameter, and of the places      *)
(* where the script or the host may call back, which puts another list in  *)
(* front.                                                                  *)
(***************************************************************************)
EXTENDS Naturals, Sequences

CONSTANTS Threads,  \* audio and window thread of the host; the plugin's own
                    \* (messages, drivers, selectors) only make callbacks
          Values,   \* of the parameter
          MaxCalls, \* bound: calls of a script into the host, per call
          MaxKept   \* bound: Shift-Escapes, of any one thread

ASSUME ValuesAssumption == Values \subseteq Nat /\ 0 \in Values
ASSUME CallsAssumption == MaxCalls \in Nat /\ MaxKept \in Nat

VARIABLES hostDepth, \* hostLock: Lock calls not given back, per thread
          luaDepth,  \* exlock
          kept,      \* history: how often a thread was to keep exlock
          halted,
          call,      \* the call of the host (or driver) that a thread is in
          todo,      \* the rest of it
          raised,    \* threads that a timed-out Lock has thrown out
          calls,     \* calls of the script into the host so far
          param,     \* params[i], and VSTLUA[i] of the program
          told,      \* the last value the script knows of
          telling,   \* of setParameter between its value and its callback
          mixed      \* history: the script was last told of a value while
                     \* another thread was setting one, or was not told

lockVars == <<hostDepth, luaDepth>>
paramVars == <<param, told, telling, mixed>>
vars == <<hostDepth, luaDepth, kept, halted, call, todo, raised, calls, param,
          told, telling, mixed>>

Host == INSTANCE RecursiveMutex WITH depth <- hostDepth
Lua  == INSTANCE RecursiveMutex WITH depth <- luaDepth

Init ==
    /\ Host!Init /\ Lua!Init /\ halted = FALSE
    /\ kept = [t \in Threads |-> 0]
    /\ call = [t \in Threads |-> "none"]
    /\ todo = [t \in Threads |-> <<>>]
    /\ raised = {} /\ calls = [t \in Threads |-> 0]
    /\ param = 0 /\ told = 0 /\ mixed = FALSE
    /\ telling = [t \in Threads |-> "no"]

-----------------------------------------------------------------------------
(* The steps of a call *)
Step(o, v) == [op |-> o, value |-> v]
HOST_LOCK == Step("HOST_LOCK", 0)
HOST_UNLOCK == Step("HOST_UNLOCK", 0)
LUA_LOCK == Step("LUA_LOCK", 0)
LUA_UNLOCK == Step("LUA_UNLOCK", 0)
Script == Step("script", 0)             \* lua_pcall of a callback
IfRunning(s) == <<Step("if(!halted)", Len(s))>> \o s

setParameterNoCallback(w, v) == <<HOST_LOCK, Step(w, v), HOST_UNLOCK>>

\* mutant of setParameter: the value is set and told in the other order
setParameterLast(v) ==
    <<LUA_LOCK, Step("tell", v), LUA_UNLOCK>> \o setParameterNoCallback("set", v)

\* mutant of setParameter: one hold of hostLock for value and callback
setParameterHeld(v) ==
    <<HOST_LOCK, Step("set", v), LUA_LOCK, Step("tell", v), LUA_UNLOCK, HOST_UNLOCK>>

setParameter(v) ==
    setParameterNoCallback("set", v) \o <<LUA_LOCK, Step("tell", v), LUA_UNLOCK>>

\* onFrame, recvMidiEvent, messageCallback, onKey of other keys: any handler
Callback == <<LUA_LOCK, Script, LUA_UNLOCK>>
\* onKey of Shift-Escape: reInit when it is released, and no LUA_UNLOCK
onShiftEscape == <<LUA_LOCK, Script>>
onSaveProgram == Callback
onLoadProgram == <<LUA_LOCK, LUA_UNLOCK>> \o Callback \* VSTProgramName first

setProgramNoSave(v) ==
    <<HOST_LOCK>> \o setParameter(v) \o IfRunning(onLoadProgram) \o <<HOST_UNLOCK>>

setProgram(v) ==
    <<HOST_LOCK>> \o IfRunning(onSaveProgram) \o setParameter(v)
    \o IfRunning(onLoadProgram) \o <<HOST_UNLOCK>>

\* mutant of NoSuchProgram: the early return keeps the lock
NoSuchProgramHeld == <<HOST_LOCK>>

\* setProgram and setProgramNoSave of a number out of range
NoSuchProgram == <<HOST_LOCK, HOST_UNLOCK>>

\* addPointerToFree, then copying
getChunk ==
    <<HOST_LOCK>> \o IfRunning(onSaveProgram) \o <<LUA_LOCK, LUA_UNLOCK, HOST_UNLOCK>>
getChunkNoMemory == <<HOST_LOCK>> \o IfRunning(onSaveProgram) \o <<HOST_UNLOCK>>

\* setSampleRate, setBlockSize
Settings == <<HOST_LOCK, HOST_UNLOCK>>

\* what a script may call: sendMidiEvent, sendSysex, getCycleDataLua,
\* getBarStartLua, addControlLua, ReceiveFromListenLoop, and
IntoHost == <<HOST_LOCK, HOST_UNLOCK>>
setParameterLua(v) ==
    <<HOST_LOCK>> \o setParameterNoCallback("setByScript", v)
    \o <<Step("setParameterAutomated", v), HOST_UNLOCK>>

-----------------------------------------------------------------------------
Idle(t) == call[t] = "none" /\ t \notin raised

BeginKeeping(t, c, s, n) ==
    /\ Idle(t)
    /\ kept' = [kept EXCEPT ![t] = @ + n]
    /\ call' = [call EXCEPT ![t] = c]
    /\ todo' = [todo EXCEPT ![t] = s]
    /\ UNCHANGED <<lockVars, halted, raised, calls, paramVars>>

Begin(t, c, s) == BeginKeeping(t, c, s, 0)

Return(t) ==
    /\ call[t] # "none" /\ todo[t] = <<>> /\ t \notin raised
    /\ call' = [call EXCEPT ![t] = "none"]
    /\ calls' = [calls EXCEPT ![t] = 0]
    /\ UNCHANGED <<kept, lockVars, halted, todo, raised, paramVars>>

At(t, o) == t \notin raised /\ todo[t] # <<>> /\ Head(todo[t]).op = o
Value(t) == Head(todo[t]).value
Goto(t, s) == todo' = [todo EXCEPT ![t] = s]
Continue(t) == Goto(t, Tail(todo[t]))

\* Lock and Unlock of either
LockHost(t) ==
    /\ At(t, "HOST_LOCK") /\ Continue(t) /\ Host!Enter(t)
    /\ UNCHANGED <<kept, luaDepth, halted, call, raised, calls, paramVars>>
UnlockHost(t) ==
    /\ At(t, "HOST_UNLOCK") /\ Continue(t) /\ Host!Leave(t)
    /\ UNCHANGED <<kept, luaDepth, halted, call, raised, calls, paramVars>>
LockLua(t) ==
    /\ At(t, "LUA_LOCK") /\ Continue(t) /\ Lua!Enter(t)
    /\ UNCHANGED <<kept, hostDepth, halted, call, raised, calls, paramVars>>
UnlockLua(t) ==
    /\ At(t, "LUA_UNLOCK") /\ Continue(t) /\ Lua!Leave(t)
    /\ UNCHANGED <<kept, hostDepth, halted, call, raised, calls, paramVars>>

WaitsForHost(t) == At(t, "HOST_LOCK") /\ ~Host!FreeFor(t)
WaitsForLua(t) == At(t, "LUA_LOCK") /\ ~Lua!FreeFor(t)

(* After 1500 ms Lock raises an exception that nothing in the plugin       *)
(* catches: the call is over, without its unlocks.                         *)
TimeOut(t) ==
    /\ WaitsForHost(t) \/ WaitsForLua(t)
    /\ raised' = raised \cup {t}
    /\ UNCHANGED <<kept, lockVars, halted, call, todo, calls, paramVars>>

TestHalted(t) ==
    /\ At(t, "if(!halted)")
    /\ Goto(t, SubSeq(todo[t], (IF halted THEN Value(t) ELSE 0) + 2, Len(todo[t])))
    /\ UNCHANGED <<kept, lockVars, halted, call, raised, calls, paramVars>>

\* the other threads that have set a value and not told the script yet
Telling(t) == {u \in Threads \ {t} : telling[u] # "no"}
Overtaken(t) == [u \in Threads |-> IF u \in Telling(t) THEN "mixed" ELSE telling[u]]

\* setParameterNoCallback, on behalf of the host
SetValue(t) ==
    /\ At(t, "set") /\ Continue(t) /\ param' = Value(t)
    /\ telling' = [Overtaken(t) EXCEPT ![t] = IF Telling(t) = {} THEN "alone" ELSE "mixed"]
    /\ UNCHANGED <<kept, lockVars, halted, call, raised, calls, told, mixed>>

\* and of the script, which knows what it sets
SetByScript(t) ==
    /\ At(t, "setByScript") /\ Continue(t)
    /\ param' = Value(t) /\ told' = Value(t)
    /\ telling' = Overtaken(t)
    /\ UNCHANGED <<kept, lockVars, halted, call, raised, calls, mixed>>

\* _setParameterCb, in which the script may call the host
Tell(t) ==
    /\ At(t, "tell")
    /\ IF halted THEN Continue(t) /\ mixed' = TRUE /\ UNCHANGED told
       ELSE /\ Goto(t, <<Script>> \o Tail(todo[t]))
            /\ told' = Value(t) /\ mixed' = (telling[t] = "mixed")
    /\ telling' = [telling EXCEPT ![t] = "no"]
    /\ UNCHANGED <<kept, lockVars, halted, call, raised, calls, param>>

\* the script calls the host and goes on
ScriptCalls(t, s) ==
    /\ At(t, "script") /\ calls[t] < MaxCalls
    /\ calls' = [calls EXCEPT ![t] = @ + 1]
    /\ Goto(t, s \o todo[t])
    /\ UNCHANGED <<kept, lockVars, halted, call, raised, paramVars>>
ScriptReturns(t) ==
    /\ At(t, "script") /\ Continue(t)
    /\ UNCHANGED <<kept, lockVars, halted, call, raised, calls, paramVars>>

\* the host may answer with the call it makes for its own automation
HostAnswers(t) ==
    /\ At(t, "setParameterAutomated")
    /\ \E s \in {<<>>, setParameter(Value(t))} : Goto(t, s \o Tail(todo[t]))
    /\ UNCHANGED <<kept, lockVars, halted, call, raised, calls, paramVars>>

\* fatal_error, suspend, the buttons; resume
Halt == /\ halted' = ~halted
        /\ UNCHANGED <<kept, lockVars, call, todo, raised, calls, paramVars>>

-----------------------------------------------------------------------------
HostCalls(t) ==
    \/ \E v \in Values : \/ Begin(t, "setParameter", setParameter(v))
                         \/ Begin(t, "setProgram", setProgram(v))
                         \/ Begin(t, "setProgramNoSave", setProgramNoSave(v))
    \/ Begin(t, "setProgram", NoSuchProgram)
    \/ Begin(t, "getChunk", getChunk) \/ Begin(t, "getChunk", getChunkNoMemory)
    \/ Begin(t, "settings", Settings)
    \/ Begin(t, "callback", Callback)
    \/ /\ \A u \in Threads : kept[u] < MaxKept
       /\ BeginKeeping(t, "callback", onShiftEscape, 1)

Scripted(t) ==
    \/ ScriptReturns(t) \/ ScriptCalls(t, IntoHost)
    \/ \E v \in Values : ScriptCalls(t, setParameterLua(v))

Acquire(t) == LockHost(t) \/ LockLua(t)
Proceed(t) ==
    \/ UnlockHost(t) \/ UnlockLua(t) \/ TestHalted(t) \/ SetValue(t)
    \/ SetByScript(t) \/ Tell(t) \/ Scripted(t) \/ HostAnswers(t) \/ Return(t)

Next ==
    \/ \E t \in Threads : HostCalls(t) \/ Acquire(t) \/ Proceed(t) \/ TimeOut(t)
    \/ Halt

Spec == Init /\ [][Next]_vars

(* A thread inside a call goes on, scripts return, and Windows serves the  *)
(* waiters of a lock in turn.                                              *)
Fairness == \A t \in Threads : SF_vars(Acquire(t)) /\ WF_vars(Proceed(t))
FairSpec == Spec /\ Fairness

-----------------------------------------------------------------------------
ProgramCalls == {"setProgram", "setProgramNoSave", "getChunk"}
CallNames == ProgramCalls \cup {"none", "setParameter", "settings", "callback"}
Ops == {"HOST_LOCK", "HOST_UNLOCK", "LUA_LOCK", "LUA_UNLOCK", "script", "set",
        "setByScript", "tell", "setParameterAutomated", "if(!halted)"}
OfValue == {"set", "setByScript", "tell", "setParameterAutomated"}
Steps == {s \in [op : Ops, value : Nat] : s.op \in OfValue => s.value \in Values}

TypeOK ==
    /\ hostDepth \in [Threads -> Nat] /\ luaDepth \in [Threads -> Nat]
    /\ kept \in [Threads -> Nat]
    /\ halted \in BOOLEAN /\ call \in [Threads -> CallNames]
    /\ todo \in [Threads -> Seq(Steps)]
    /\ raised \subseteq Threads /\ calls \in [Threads -> 0..MaxCalls]
    /\ param \in Values /\ told \in Values /\ mixed \in BOOLEAN
    /\ telling \in [Threads -> {"no", "alone", "mixed"}]

(* t has hostLock and waits for exlock, u the other way round.             *)
Crossed(t, u) == /\ hostDepth[t] > 0 /\ WaitsForLua(t)
                 /\ luaDepth[u] > 0 /\ WaitsForHost(u)

(* The locks are taken in both orders, yet two threads wait for each other *)
(* only if one of them changes or saves programs, and the other has only   *)
(* exlock: it is inside the script, calling the host, or was left with     *)
(* exlock by Shift-Escape.  Automation, settings and all other callbacks   *)
(* are safe, whatever the script calls and even if the host answers        *)
(* setParameterAutomated with setParameter.                                *)
CrossedByProgramCall == \A t, u \in Threads : Crossed(t, u) =>
    /\ call[t] \in ProgramCalls /\ luaDepth[t] = 0
    /\ hostDepth[u] = 0 /\ u # t

AllGivenBack ==
    \A t \in Threads : Idle(t) => hostDepth[t] = 0 /\ luaDepth[t] = kept[t]

\* the locks exclude, whatever way a thread went in
Alone(depth) == \A t, u \in Threads : depth[t] > 0 /\ depth[u] > 0 => t = u

(* Every path out of a call, the early ones included, gives both locks     *)
(* back as often as it took them, but for two: a timed-out thread keeps    *)
(* what it has, and each Shift-Escape leaves one more hold of exlock.      *)
LocksInv == TypeOK /\ AllGivenBack /\ Alone(hostDepth) /\ Alone(luaDepth)

(* A parameter is set under one lock and told to the script under the      *)
(* other.  When nobody is in a call the script knows the value that the    *)
(* host sees, unless two calls were between the two at the same time or    *)
(* the script was not told because the plugin was halted.                  *)
ScriptKnowsParameter ==
    (\A t \in Threads : Idle(t)) => param = told \/ mixed

(* A call ends, unless two threads wait for each other, or one has timed   *)
(* out, possibly with a lock in its hands, or one has come out of          *)
(* Shift-Escape with exlock.                                               *)
Blocked == \/ raised # {} \/ \E t, u \in Threads : Crossed(t, u)
           \/ \E t \in Threads : Idle(t) /\ luaDepth[t] > 0
CallsEnd == \A t \in Threads : call[t] # "none" ~> (call[t] = "none" \/ Blocked)

-----------------------------------------------------------------------------
(* The inductive invariant.  A list runs from the depths h[1] and l[1] of  *)
(* the two locks to those after its last step: every step finds what it    *)
(* gives back, and what is skipped while halted leaves the locks alone.    *)
(* A call ends without hostLock and with exlock as often as it is kept.    *)
(* Only a program change (p) takes exlock first while it has hostLock.     *)
After(o, lock, unlock, d) == CASE o = lock -> d + 1 [] o = unlock -> d - 1 [] OTHER -> d
Skipped == {"LUA_LOCK", "LUA_UNLOCK", "script"}

StepRuns(s, h, l, p, k) ==
    /\ h[k + 1] = After(s[k].op, "HOST_LOCK", "HOST_UNLOCK", h[k])
    /\ l[k + 1] = After(s[k].op, "LUA_LOCK", "LUA_UNLOCK", l[k])
    /\ s[k].op = "LUA_LOCK" /\ h[k] > 0 => l[k] > 0 \/ p
    /\ s[k].op \in {"script", "setParameterAutomated", "tell"} => l[k] > 0
    /\ s[k].op = "if(!halted)" =>
          LET n == s[k].value
          IN  /\ k + n <= Len(s) /\ \A j \in (k + 1)..(k + n) : s[j].op \in Skipped
              /\ h[k + n + 1] = h[k] /\ l[k + n + 1] = l[k]

Depths(s) == [1..(Len(s) + 1) -> Nat]
Runs(s, h0, l0, h1, l1, p) == \E h, l \in Depths(s) :
    /\ h[1] = h0 /\ l[1] = l0 /\ h[Len(s) + 1] = h1 /\ l[Len(s) + 1] = l1
    /\ \A k \in 1..Len(s) : StepRuns(s, h, l, p, k)

DepthInv == \A t \in Threads :
    /\ call[t] = "none" => todo[t] = <<>>
    /\ Runs(todo[t], hostDepth[t], luaDepth[t], 0, kept[t], call[t] \in ProgramCalls)

\* a value that is set is told three steps later, by the same call
SetsAt(s, k) == s[k].op = "set" =>
    /\ k + 3 <= Len(s) /\ s[k + 1].op = "HOST_UNLOCK" /\ s[k + 2].op = "LUA_LOCK"
    /\ s[k + 3].op = "tell" /\ s[k + 3].value = s[k].value
ToldAfterSet(s, k) == k > 3 /\ s[k - 3].op = "set"
Pending(s, k) == k <= 3 /\ s[k].op = "tell"
                 /\ \A j \in 1..(k - 1) : s[j].op \in {"HOST_UNLOCK", "LUA_LOCK"}

TellInv == \A t \in Threads :
    LET s == todo[t]
    IN  /\ \A k \in 1..Len(s) : SetsAt(s, k)
        /\ \A k \in 1..Len(s) : s[k].op = "tell" =>
              ToldAfterSet(s, k) \/ (telling[t] # "no" /\ Pending(s, k))
        /\ telling[t] # "no" => \E k \in 1..Len(s) : Pending(s, k)
        /\ telling[t] = "alone" => /\ \A k \in 1..Len(s) : Pending(s, k) => s[k].value = param
                                   /\ \A u \in Threads \ {t} : telling[u] = "no"

ToldInv == (\A t \in Threads : telling[t] = "no") => param = told \/ mixed

IInv == TypeOK /\ Alone(hostDepth) /\ Alone(luaDepth) /\ DepthInv /\ TellInv /\ ToldInv
=============================================================================
