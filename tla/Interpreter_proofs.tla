-------------------------- MODULE Interpreter_proofs --------------------------
(***************************************************************************)
(* Proofs about Interpreter for any receive loops, file selectors, scripts *)
(* and events, and any bounds.                                             *)
(***************************************************************************)
EXTENDS Interpreter, TLAPS

(* What a script may change while it runs in thread t, which then goes on  *)
(* at `next'.                                                              *)
Effects(t, next) ==
    /\ pc' \in [Threads -> Places]
    /\ pc'[t] = next
    /\ \A u \in Threads \ {t} :
          \/ pc'[u] = pc[u]
          \/ pc[u] = "off" /\ u \in Loops /\ pc'[u] = "recv"
          \/ pc[u] = "off" /\ u \in Selectors /\ pc'[u] = "select"
    /\ halted' \in BOOLEAN /\ (halted => halted')
    /\ scriptToLoad' \in Scripts \cup {NoScript, NoRequest}
    /\ scriptToLoad' = scriptToLoad \/ ~insideReInit
    /\ resets' \in 0..MaxResets
    /\ token' \in [Loops \cup Selectors -> Nat]
    /\ state' \in [Loops \cup Selectors -> Nat]
    /\ receiving' \in [Loops -> BOOLEAN]
    /\ stale' \in [Loops -> Nat]
    /\ \A n \in Loops :
          \/ stale'[n] = stale[n] /\ token'[n] = token[n]
          \/ pc[n] = "off" /\ stale'[n] = 0 /\ token'[n] = networkToken

LEMMA ScriptEffect ==
  ASSUME TypeOK, NEW t \in Threads, NEW s \in Nat, NEW next \in Places,
         pc[t] # "off", ScriptRuns(t, s, next)
  PROVE  Effects(t, next)
<1> USE ScriptsAssumption, ThreadsAssumption DEF Effects
<1>1. CASE ScriptQuiet(t, next)
  BY <1>1 DEF ScriptQuiet, TypeOK, bornVars
<1>2. CASE ScriptHalts(t, next)
  BY <1>2 DEF ScriptHalts, TypeOK, bornVars
<1>3. CASE ScriptResets(t, next)
  BY <1>3 DEF ScriptResets, TypeOK, bornVars
<1>4. CASE StartsLoop(t, s, next)
  BY <1>4 DEF StartsLoop, Start, TypeOK, Threads, Places
<1>5. CASE OpensSelector(t, s, next)
  BY <1>5 DEF OpensSelector, Start, TypeOK, Threads, Places
<1> QED
  BY <1>1, <1>2, <1>3, <1>4, <1>5 DEF ScriptRuns

LEMMA CallbackEffect ==
  ASSUME TypeOK, NEW t \in Threads, Callback(t)
  PROVE  /\ pc[t] = "call"
         /\ Effects(t, IF t \in Loops THEN "result" ELSE "unlock")
         /\ stackTop' \in {"none", "0", "1"}
         /\ UNCHANGED <<owner, depth, lua, opened, insideReInit, networkToken,
                        current_script, job, initialised, raced>>
<1>1. RunsIn(t) \in Nat
  BY DEF TypeOK, RunsIn
<1>2. pc[t] = "call" /\ ScriptRuns(t, RunsIn(t), IF t \in Loops THEN "result" ELSE "unlock")
  BY DEF Callback
<1>3. Effects(t, IF t \in Loops THEN "result" ELSE "unlock")
  BY <1>1, <1>2, ScriptEffect DEF Places
<1>4. stackTop' \in {"none", "0", "1"}
  BY DEF Callback, TypeOK
<1> QED
  BY <1>2, <1>3, <1>4 DEF Callback, lockVars

LEMMA OnResetEffect ==
  ASSUME TypeOK, NEW t \in Threads, OnReset(t)
  PROVE  /\ pc[t] = "onReset"
         /\ Effects(t, "close")
         /\ UNCHANGED <<owner, depth, lua, opened, stackTop, insideReInit,
                        networkToken, current_script, job, initialised, raced>>
<1>1. pc[t] = "onReset" /\ ScriptRuns(t, lua, "close")
  BY DEF OnReset, ScriptRuns
<1>2. Effects(t, "close")
  BY <1>1, ScriptEffect DEF Places, TypeOK
<1> QED
  BY <1>1, <1>2 DEF OnReset, ReStay, lockVars, luaVars

LEMMA InitScriptEffect ==
  ASSUME TypeOK, NEW t \in Threads, InitScript(t)
  PROVE  /\ pc[t] = "initScript"
         /\ Effects(t, "initCb")
         /\ UNCHANGED <<owner, depth, lua, opened, stackTop, insideReInit,
                        networkToken, current_script, job, initialised, raced>>
<1>1. pc[t] = "initScript" /\ ScriptRuns(t, lua, "initCb")
  BY DEF InitScript
<1>2. Effects(t, "initCb")
  BY <1>1, ScriptEffect DEF Places, TypeOK
<1> QED
  BY <1>1, <1>2 DEF InitScript, ReStay, lockVars, luaVars

LEMMA InitCbEffect ==
  ASSUME TypeOK, NEW t \in Threads, InitCb(t)
  PROVE  /\ pc[t] = "initCb"
         /\ Effects(t, IF halted THEN "restart" ELSE "leave")
         /\ initialised' = (halted \/ initialised)
         /\ UNCHANGED <<owner, depth, lua, opened, stackTop, insideReInit,
                        networkToken, current_script, job, raced>>
<1>1. CASE halted
  <2>1. Effects(t, "restart")
    BY <1>1, ScriptEffect DEF InitCb, Places, TypeOK
  <2> QED
    BY <1>1, <2>1 DEF InitCb, ReStay, lockVars, luaVars
<1>2. CASE ~halted
  <2>1. ScriptRuns(t, lua, "leave")
    BY <1>2 DEF InitCb, ScriptRuns
  <2>2. Effects(t, "leave")
    BY <2>1, ScriptEffect DEF InitCb, Places, TypeOK
  <2> QED
    BY <1>2, <2>2 DEF InitCb, ReStay, lockVars, luaVars, TypeOK, ScriptQuiet
<1> QED
  BY <1>1, <1>2

(* The calls that arrive keep the types.                                   *)
LEMMA CallsTyped == ASSUME TypeOK, Calls PROVE TypeOK'
<1> USE EventsAssumption, ThreadsAssumption, ScriptsAssumption
    DEF TypeOK, Threads, Places, Jobs, Goto, Begin, lockVars, luaVars, haltVars,
        scriptVars, bornVars, histVars, AudioJobs, EditorJobs, Guarded, Unguarded
<1>1. CASE AudioCall
  BY <1>1 DEF AudioCall
<1>2. CASE MessageArrives
  BY <1>2 DEF MessageArrives
<1>3. CASE KeyOrWindow
  BY <1>3 DEF KeyOrWindow
<1>4. CASE ProgramChange
  BY <1>4 DEF ProgramChange
<1>5. CASE ResetButton
  BY <1>5 DEF ResetButton
<1>6. CASE LoadButton
  BY <1>6 DEF LoadButton
<1>7. CASE HaltButton \/ Suspend \/ Resume
  BY <1>7 DEF HaltButton, Suspend, Resume, HaltChange
<1>8. CASE Destroy
  BY <1>8 DEF Destroy
<1> QED
  BY <1>1, <1>2, <1>3, <1>4, <1>5, <1>6, <1>7, <1>8 DEF Calls

(* So do the lock, the handlers and reInit, in any thread.                 *)
LEMMA ThreadTyped ==
  ASSUME TypeOK, JobAtPlace, NEW t \in Threads,
         Lock(t) \/ Unlock(t) \/ Handlers(t) \/ ReInit(t)
  PROVE  TypeOK'
<1> USE EventsAssumption, ThreadsAssumption, ScriptsAssumption
    DEF TypeOK, Places, Jobs, Goto, lockVars, luaVars, haltVars, Stay, ReStay,
        scriptVars, bornVars, histVars, Locks, Unlocks
<1>1. CASE Lock(t)
  BY <1>1 DEF Lock
<1>2. CASE Unlock(t)
  BY <1>2 DEF Unlock
<1>3. CASE Handlers(t)
  <2>1. CASE Handle(t)
    BY <2>1 DEF Handle, JobAtPlace, Handled, RestartJobs, Guarded, Unguarded
  <2>2. CASE TestCalls(t)
    BY <2>2 DEF TestCalls
  <2>3. CASE TestSkips(t)
    BY <2>3 DEF TestSkips
  <2>4. CASE Callback(t)
    BY <2>4, CallbackEffect DEF Effects
  <2>5. CASE t = Audio /\ FrameLoads
    BY <2>5 DEF FrameLoads
  <2>6. CASE t = Audio /\ FrameDoesNotLoad
    BY <2>6 DEF FrameDoesNotLoad
  <2>7. CASE t = Audio /\ FrameLoaded
    BY <2>7 DEF FrameLoaded
  <2>8. CASE t = Editor /\ ShiftEscapeDown
    BY <2>8 DEF ShiftEscapeDown
  <2>9. CASE t = Editor /\ ShiftEscapeUp
    BY <2>9 DEF ShiftEscapeUp
  <2>10. CASE t = Editor /\ DestroyHalts
    BY <2>10 DEF DestroyHalts
  <2> QED
    BY <1>3, <2>1, <2>2, <2>3, <2>4, <2>5, <2>6, <2>7, <2>8, <2>9, <2>10 DEF Handlers
<1>4. CASE ReInit(t)
  <2>1. CASE EnterReInit(t)
    BY <2>1 DEF EnterReInit
  <2>2. CASE NewNetworkToken(t)
    BY <2>2 DEF NewNetworkToken
  <2>3. CASE OnReset(t)
    BY <2>3, OnResetEffect DEF Effects
  <2>4. CASE CloseState(t)
    BY <2>4 DEF CloseState
  <2>5. CASE OpenState(t)
    <3>1. lua' \in 0..opened' /\ opened' \in Nat
      BY <2>5 DEF OpenState
    <3>2. pc' \in [Threads -> Places]
      BY <2>5 DEF OpenState
    <3> QED
      BY <2>5, <3>1, <3>2 DEF OpenState
  <2>6. CASE InitScript(t)
    BY <2>6, InitScriptEffect DEF Effects
  <2>7. CASE InitCb(t)
    BY <2>7, InitCbEffect DEF Effects
  <2>8. CASE Restart(t)
    BY <2>8 DEF Restart
  <2>9. CASE LeaveReInit(t)
    <3>1. /\ owner' \in Threads \cup {NoThread} /\ depth' \in Nat
          /\ depth' = 0 <=> owner' = NoThread
      BY <2>9 DEF LeaveReInit
    <3>2. pc' \in [Threads -> Places] /\ job' \in [Threads -> Jobs]
      BY <2>9 DEF LeaveReInit
    <3> QED
      BY <2>9, <3>1, <3>2 DEF LeaveReInit
  <2> QED
    BY <1>4, <2>1, <2>2, <2>3, <2>4, <2>5, <2>6, <2>7, <2>8, <2>9 DEF ReInit
<1> QED
  BY <1>1, <1>2, <1>3, <1>4

(* And the receive loops and file selectors.                               *)
LEMMA LoopsTyped ==
  ASSUME TypeOK,
         \/ \E n \in Loops : ReceiveLoop(n)
         \/ \E f \in Selectors : FileChosen(f)
  PROVE  TypeOK'
<1> USE ThreadsAssumption, ScriptsAssumption
    DEF TypeOK, Threads, Places, Jobs, Goto, LoopStay, lockVars, luaVars, haltVars,
        scriptVars, bornVars, histVars, Guarded, Unguarded
<1>1. ASSUME NEW n \in Loops, ReceiveLoop(n)
      PROVE  TypeOK'
  <2>1. CASE PacketArrives(n)
    BY <2>1 DEF PacketArrives
  <2>2. CASE LoopStops(n)
    BY <2>2 DEF LoopStops
  <2>3. CASE PacketDropped(n)
    BY <2>3 DEF PacketDropped
  <2>4. CASE PacketTaken(n)
    BY <2>4 DEF PacketTaken
  <2>5. CASE CallbackFailed(n)
    BY <2>5 DEF CallbackFailed
  <2>6. CASE CallbackReturned(n)
    BY <2>6 DEF CallbackReturned
  <2> QED
    BY <1>1, <2>1, <2>2, <2>3, <2>4, <2>5, <2>6 DEF ReceiveLoop
<1>2. ASSUME NEW f \in Selectors, FileChosen(f)
      PROVE  TypeOK'
  BY <1>2 DEF FileChosen
<1> QED
  BY <1>1, <1>2

(* The jobs: a call brings a thread from its resting place to its lock.    *)
LEMMA CallsKeepJobs ==
  ASSUME TypeOK, JobOfThread, JobAtPlace, EditorAtPlace, Calls
  PROVE  JobOfThread' /\ JobAtPlace' /\ EditorAtPlace'
<1> USE ThreadsAssumption
    DEF TypeOK, JobOfThread, JobAtPlace, EditorAtPlace, Built, Gone, Threads,
        Goto, Begin, Stay, ReStay, LoopStay, lockVars, luaVars, haltVars, scriptVars,
        bornVars, histVars, Handled, RestartJobs, ReInitPlaces, AudioJobs,
        EditorJobs, Guarded, Unguarded
<1>1. CASE AudioCall
  BY <1>1 DEF AudioCall
<1>2. CASE MessageArrives
  BY <1>2 DEF MessageArrives
<1>3. CASE KeyOrWindow
  BY <1>3 DEF KeyOrWindow
<1>4. CASE ProgramChange
  BY <1>4 DEF ProgramChange
<1>5. CASE ResetButton
  BY <1>5 DEF ResetButton
<1>6. CASE LoadButton
  BY <1>6 DEF LoadButton
<1>7. CASE HaltButton \/ Suspend \/ Resume
  BY <1>7 DEF HaltButton, Suspend, Resume, HaltChange
<1>8. CASE Destroy
  BY <1>8 DEF Destroy
<1> QED
  BY <1>1, <1>2, <1>3, <1>4, <1>5, <1>6, <1>7, <1>8 DEF Calls

LEMMA ThreadKeepsJobs ==
  ASSUME TypeOK, JobOfThread, JobAtPlace, EditorAtPlace, NEW t \in Threads,
         Lock(t) \/ Unlock(t) \/ Handlers(t) \/ ReInit(t)
  PROVE  JobOfThread' /\ JobAtPlace' /\ EditorAtPlace'
<1>0. pc \in [Threads -> Places] /\ job \in [Threads -> Jobs] /\ lua \in Nat
  BY DEF TypeOK
<1> USE <1>0, ThreadsAssumption
    DEF JobOfThread, JobAtPlace, EditorAtPlace, Built, Gone, Threads,
        Goto, Begin, Stay, ReStay, LoopStay, lockVars, luaVars, haltVars, scriptVars,
        bornVars, histVars, Handled, RestartJobs, ReInitPlaces, AudioJobs,
        EditorJobs, Guarded, Unguarded, Places, Locks, Unlocks
<1>1. CASE Lock(t)
  BY <1>1 DEF Lock
<1>2. CASE Unlock(t)
  BY <1>2 DEF Unlock
<1>3. CASE Handlers(t)
  <2>1. CASE Handle(t)
    BY <2>1 DEF Handle
  <2>2. CASE TestCalls(t)
    BY <2>2 DEF TestCalls
  <2>3. CASE TestSkips(t)
    BY <2>3 DEF TestSkips
  <2>4. CASE Callback(t)
    BY <2>4, CallbackEffect DEF Effects
  <2>5. CASE t = Audio /\ FrameLoads
    BY <2>5 DEF FrameLoads
  <2>6. CASE t = Audio /\ FrameDoesNotLoad
    BY <2>6 DEF FrameDoesNotLoad
  <2>7. CASE t = Audio /\ FrameLoaded
    BY <2>7 DEF FrameLoaded
  <2>8. CASE t = Editor /\ ShiftEscapeDown
    BY <2>8 DEF ShiftEscapeDown
  <2>9. CASE t = Editor /\ ShiftEscapeUp
    BY <2>9 DEF ShiftEscapeUp
  <2>10. CASE t = Editor /\ DestroyHalts
    BY <2>10 DEF DestroyHalts
  <2> QED
    BY <1>3, <2>1, <2>2, <2>3, <2>4, <2>5, <2>6, <2>7, <2>8, <2>9, <2>10 DEF Handlers
<1>4. CASE ReInit(t)
  <2>1. CASE EnterReInit(t)
    BY <2>1 DEF EnterReInit
  <2>2. CASE NewNetworkToken(t)
    BY <2>2 DEF NewNetworkToken
  <2>3. CASE OnReset(t)
    BY <2>3, OnResetEffect DEF Effects
  <2>4. CASE CloseState(t)
    BY <2>4 DEF CloseState
  <2>5. CASE OpenState(t)
    BY <2>5 DEF OpenState
  <2>6. CASE InitScript(t)
    BY <2>6, InitScriptEffect DEF Effects
  <2>7. CASE InitCb(t)
    BY <2>7, InitCbEffect DEF Effects
  <2>8. CASE Restart(t)
    BY <2>8 DEF Restart
  <2>9. CASE LeaveReInit(t)
    BY <2>9 DEF LeaveReInit
  <2> QED
    BY <1>4, <2>1, <2>2, <2>3, <2>4, <2>5, <2>6, <2>7, <2>8, <2>9 DEF ReInit
<1> QED
  BY <1>1, <1>2, <1>3, <1>4

LEMMA LoopsKeepJobs ==
  ASSUME TypeOK, JobOfThread, JobAtPlace, EditorAtPlace,
         \/ \E n \in Loops : ReceiveLoop(n)
         \/ \E f \in Selectors : FileChosen(f)
  PROVE  JobOfThread' /\ JobAtPlace' /\ EditorAtPlace'
<1> USE ThreadsAssumption
    DEF TypeOK, JobOfThread, JobAtPlace, EditorAtPlace, Built, Gone, Threads,
        Goto, Begin, Stay, ReStay, LoopStay, lockVars, luaVars, haltVars, scriptVars,
        bornVars, histVars, Handled, RestartJobs, ReInitPlaces, AudioJobs,
        EditorJobs, Guarded, Unguarded
<1>1. ASSUME NEW n \in Loops, ReceiveLoop(n)
      PROVE  JobOfThread' /\ JobAtPlace' /\ EditorAtPlace'
  <2>1. CASE PacketArrives(n)
    BY <2>1 DEF PacketArrives
  <2>2. CASE LoopStops(n)
    BY <2>2 DEF LoopStops
  <2>3. CASE PacketDropped(n)
    BY <2>3 DEF PacketDropped
  <2>4. CASE PacketTaken(n)
    BY <2>4 DEF PacketTaken
  <2>5. CASE CallbackFailed(n)
    BY <2>5 DEF CallbackFailed
  <2>6. CASE CallbackReturned(n)
    BY <2>6 DEF CallbackReturned
  <2> QED
    BY <1>1, <2>1, <2>2, <2>3, <2>4, <2>5, <2>6 DEF ReceiveLoop
<1>2. ASSUME NEW f \in Selectors, FileChosen(f)
      PROVE  JobOfThread' /\ JobAtPlace' /\ EditorAtPlace'
  BY <1>2 DEF FileChosen
<1> QED
  BY <1>1, <1>2

(* The lock: who is past it has it.                                        *)
LEMMA CallsKeepLock ==
  ASSUME TypeOK, JobAtPlace, LockInv, Calls
  PROVE  LockInv'
<1> USE ThreadsAssumption
    DEF TypeOK, Threads, Goto, Begin, Stay, ReStay, LoopStay, lockVars, luaVars, haltVars,
        scriptVars, bornVars, histVars, Locks, Unlocks,
        LockInv, Held, Outside, ReInitPlaces, JobAtPlace, RestartJobs
<1>1. CASE AudioCall
  BY <1>1 DEF AudioCall
<1>2. CASE MessageArrives
  BY <1>2 DEF MessageArrives
<1>3. CASE KeyOrWindow
  BY <1>3 DEF KeyOrWindow
<1>4. CASE ProgramChange
  BY <1>4 DEF ProgramChange
<1>5. CASE ResetButton
  BY <1>5 DEF ResetButton
<1>6. CASE LoadButton
  BY <1>6 DEF LoadButton
<1>7. CASE HaltButton \/ Suspend \/ Resume
  BY <1>7 DEF HaltButton, Suspend, Resume, HaltChange
<1>8. CASE Destroy
  BY <1>8 DEF Destroy
<1> QED
  BY <1>1, <1>2, <1>3, <1>4, <1>5, <1>6, <1>7, <1>8 DEF Calls

LEMMA ThreadKeepsLock ==
  ASSUME TypeOK, JobAtPlace, LockInv, NEW t \in Threads,
         Lock(t) \/ Unlock(t) \/ Handlers(t) \/ ReInit(t)
  PROVE  LockInv'
<1>0. pc \in [Threads -> Places] /\ job \in [Threads -> Jobs] /\ depth \in Nat
  BY DEF TypeOK
<1> USE <1>0, ThreadsAssumption
    DEF Threads, Goto, Begin, Stay, ReStay, LoopStay, lockVars, luaVars, haltVars,
        scriptVars, bornVars, histVars, Locks, Unlocks,
        LockInv, Held, Outside, ReInitPlaces, JobAtPlace, RestartJobs
<1>1. CASE Lock(t)
  BY <1>1 DEF Lock
<1>2. CASE Unlock(t)
  BY <1>2 DEF Unlock
<1>3. CASE Handlers(t)
  <2>1. CASE Handle(t)
    BY <2>1 DEF Handle, Handled, Guarded, Unguarded
  <2>2. CASE TestCalls(t)
    BY <2>2 DEF TestCalls
  <2>3. CASE TestSkips(t)
    BY <2>3 DEF TestSkips
  <2>4. CASE Callback(t)
    BY <2>4, CallbackEffect DEF Effects
  <2>5. CASE t = Audio /\ FrameLoads
    BY <2>5 DEF FrameLoads
  <2>6. CASE t = Audio /\ FrameDoesNotLoad
    BY <2>6 DEF FrameDoesNotLoad
  <2>7. CASE t = Audio /\ FrameLoaded
    BY <2>7 DEF FrameLoaded
  <2>8. CASE t = Editor /\ ShiftEscapeDown
    BY <2>8 DEF ShiftEscapeDown
  <2>9. CASE t = Editor /\ ShiftEscapeUp
    BY <2>9 DEF ShiftEscapeUp
  <2>10. CASE t = Editor /\ DestroyHalts
    BY <2>10 DEF DestroyHalts
  <2> QED
    BY <1>3, <2>1, <2>2, <2>3, <2>4, <2>5, <2>6, <2>7, <2>8, <2>9, <2>10 DEF Handlers
<1>4. CASE ReInit(t)
  <2>1. CASE EnterReInit(t)
    BY <2>1 DEF EnterReInit
  <2>2. CASE NewNetworkToken(t)
    BY <2>2 DEF NewNetworkToken
  <2>3. CASE OnReset(t)
    BY <2>3, OnResetEffect DEF Effects
  <2>4. CASE CloseState(t)
    BY <2>4 DEF CloseState
  <2>5. CASE OpenState(t)
    BY <2>5 DEF OpenState
  <2>6. CASE InitScript(t)
    BY <2>6, InitScriptEffect DEF Effects
  <2>7. CASE InitCb(t)
    BY <2>7, InitCbEffect DEF Effects
  <2>8. CASE Restart(t)
    BY <2>8 DEF Restart
  <2>9. CASE LeaveReInit(t)
    BY <2>9 DEF LeaveReInit
  <2> QED
    BY <1>4, <2>1, <2>2, <2>3, <2>4, <2>5, <2>6, <2>7, <2>8, <2>9 DEF ReInit
<1> QED
  BY <1>1, <1>2, <1>3, <1>4

LEMMA LoopsKeepLock ==
  ASSUME TypeOK, JobAtPlace, LockInv,
         \/ \E n \in Loops : ReceiveLoop(n)
         \/ \E f \in Selectors : FileChosen(f)
  PROVE  LockInv'
<1> USE ThreadsAssumption
    DEF TypeOK, Threads, Goto, Begin, Stay, ReStay, LoopStay, lockVars, luaVars, haltVars,
        scriptVars, bornVars, histVars, Locks, Unlocks,
        LockInv, Held, Outside, ReInitPlaces, JobAtPlace, RestartJobs
<1>1. ASSUME NEW n \in Loops, ReceiveLoop(n)
      PROVE  LockInv'
  <2>1. CASE PacketArrives(n)
    BY <2>1 DEF PacketArrives
  <2>2. CASE LoopStops(n)
    BY <2>2 DEF LoopStops
  <2>3. CASE PacketDropped(n)
    BY <2>3 DEF PacketDropped
  <2>4. CASE PacketTaken(n)
    BY <2>4 DEF PacketTaken
  <2>5. CASE CallbackFailed(n)
    BY <2>5 DEF CallbackFailed
  <2>6. CASE CallbackReturned(n)
    BY <2>6 DEF CallbackReturned
  <2> QED
    BY <1>1, <2>1, <2>2, <2>3, <2>4, <2>5, <2>6 DEF ReceiveLoop
<1>2. ASSUME NEW f \in Selectors, FileChosen(f)
      PROVE  LockInv'
  BY <1>2 DEF FileChosen
<1> QED
  BY <1>1, <1>2

(* insideReInit is set exactly while a thread is in reInit.                *)
LEMMA CallsKeepReInit ==
  ASSUME TypeOK, JobAtPlace, LockInv, ReInitInv, Calls
  PROVE  ReInitInv'
<1> USE ThreadsAssumption
    DEF TypeOK, Threads, Goto, Begin, Stay, ReStay, LoopStay, lockVars, luaVars, haltVars,
        scriptVars, bornVars, histVars, Locks, Unlocks,
        LockInv, Outside, ReInitInv, Reiniting, ReInitPlaces, JobAtPlace, RestartJobs
<1>1. CASE AudioCall
  BY <1>1 DEF AudioCall
<1>2. CASE MessageArrives
  BY <1>2 DEF MessageArrives
<1>3. CASE KeyOrWindow
  BY <1>3 DEF KeyOrWindow
<1>4. CASE ProgramChange
  BY <1>4 DEF ProgramChange
<1>5. CASE ResetButton
  BY <1>5 DEF ResetButton
<1>6. CASE LoadButton
  BY <1>6 DEF LoadButton
<1>7. CASE HaltButton \/ Suspend \/ Resume
  BY <1>7 DEF HaltButton, Suspend, Resume, HaltChange
<1>8. CASE Destroy
  BY <1>8 DEF Destroy
<1> QED
  BY <1>1, <1>2, <1>3, <1>4, <1>5, <1>6, <1>7, <1>8 DEF Calls

LEMMA ThreadKeepsReInit ==
  ASSUME TypeOK, JobAtPlace, LockInv, ReInitInv, NEW t \in Threads,
         Lock(t) \/ Unlock(t) \/ Handlers(t) \/ ReInit(t)
  PROVE  ReInitInv'
<1>0. pc \in [Threads -> Places] /\ job \in [Threads -> Jobs] /\ depth \in Nat
  BY DEF TypeOK
<1> USE <1>0, ThreadsAssumption
    DEF Threads, Goto, Begin, Stay, ReStay, LoopStay, lockVars, luaVars, haltVars,
        scriptVars, bornVars, histVars, Locks, Unlocks,
        LockInv, Outside, ReInitInv, Reiniting, ReInitPlaces, JobAtPlace, RestartJobs
<1>1. CASE Lock(t)
  BY <1>1 DEF Lock
<1>2. CASE Unlock(t)
  BY <1>2 DEF Unlock
<1>3. CASE Handlers(t)
  <2>1. CASE Handle(t)
    BY <2>1 DEF Handle, Handled, Guarded, Unguarded
  <2>2. CASE TestCalls(t)
    BY <2>2 DEF TestCalls
  <2>3. CASE TestSkips(t)
    BY <2>3 DEF TestSkips
  <2>4. CASE Callback(t)
    BY <2>4, CallbackEffect DEF Effects
  <2>5. CASE t = Audio /\ FrameLoads
    BY <2>5 DEF FrameLoads
  <2>6. CASE t = Audio /\ FrameDoesNotLoad
    BY <2>6 DEF FrameDoesNotLoad
  <2>7. CASE t = Audio /\ FrameLoaded
    BY <2>7 DEF FrameLoaded
  <2>8. CASE t = Editor /\ ShiftEscapeDown
    BY <2>8 DEF ShiftEscapeDown
  <2>9. CASE t = Editor /\ ShiftEscapeUp
    BY <2>9 DEF ShiftEscapeUp
  <2>10. CASE t = Editor /\ DestroyHalts
    BY <2>10 DEF DestroyHalts
  <2> QED
    BY <1>3, <2>1, <2>2, <2>3, <2>4, <2>5, <2>6, <2>7, <2>8, <2>9, <2>10 DEF Handlers
<1>4. CASE ReInit(t)
  <2>1. CASE EnterReInit(t)
    BY <2>1 DEF EnterReInit
  <2>2. CASE NewNetworkToken(t)
    BY <2>2 DEF NewNetworkToken
  <2>3. CASE OnReset(t)
    BY <2>3, OnResetEffect DEF Effects
  <2>4. CASE CloseState(t)
    BY <2>4 DEF CloseState
  <2>5. CASE OpenState(t)
    BY <2>5 DEF OpenState
  <2>6. CASE InitScript(t)
    BY <2>6, InitScriptEffect DEF Effects
  <2>7. CASE InitCb(t)
    BY <2>7, InitCbEffect DEF Effects
  <2>8. CASE Restart(t)
    BY <2>8 DEF Restart
  <2>9. CASE LeaveReInit(t)
    BY <2>9 DEF LeaveReInit
  <2> QED
    BY <1>4, <2>1, <2>2, <2>3, <2>4, <2>5, <2>6, <2>7, <2>8, <2>9 DEF ReInit
<1> QED
  BY <1>1, <1>2, <1>3, <1>4

LEMMA LoopsKeepReInit ==
  ASSUME TypeOK, JobAtPlace, LockInv, ReInitInv,
         \/ \E n \in Loops : ReceiveLoop(n)
         \/ \E f \in Selectors : FileChosen(f)
  PROVE  ReInitInv'
<1> USE ThreadsAssumption
    DEF TypeOK, Threads, Goto, Begin, Stay, ReStay, LoopStay, lockVars, luaVars, haltVars,
        scriptVars, bornVars, histVars, Locks, Unlocks,
        LockInv, Outside, ReInitInv, Reiniting, ReInitPlaces, JobAtPlace, RestartJobs
<1>1. ASSUME NEW n \in Loops, ReceiveLoop(n)
      PROVE  ReInitInv'
  <2>1. CASE PacketArrives(n)
    BY <2>1 DEF PacketArrives
  <2>2. CASE LoopStops(n)
    BY <2>2 DEF LoopStops
  <2>3. CASE PacketDropped(n)
    BY <2>3 DEF PacketDropped
  <2>4. CASE PacketTaken(n)
    BY <2>4 DEF PacketTaken
  <2>5. CASE CallbackFailed(n)
    BY <2>5 DEF CallbackFailed
  <2>6. CASE CallbackReturned(n)
    BY <2>6 DEF CallbackReturned
  <2> QED
    BY <1>1, <2>1, <2>2, <2>3, <2>4, <2>5, <2>6 DEF ReceiveLoop
<1>2. ASSUME NEW f \in Selectors, FileChosen(f)
      PROVE  ReInitInv'
  BY <1>2 DEF FileChosen
<1> QED
  BY <1>1, <1>2

(* Without a Lua state no handler runs.                                    *)
LEMMA CallsKeepState ==
  ASSUME TypeOK, JobOfThread, JobAtPlace, EditorAtPlace, LockInv, StateInv, Calls
  PROVE  StateInv'
<1> USE ThreadsAssumption
    DEF TypeOK, Threads, Goto, Begin, Stay, ReStay, LoopStay, lockVars, luaVars, haltVars,
        scriptVars, bornVars, histVars, Locks, Unlocks,
        JobOfThread, EditorAtPlace, Built, Gone, LockInv, Outside, StateInv, ReInitPlaces,
        JobAtPlace, RestartJobs, AudioJobs, EditorJobs
<1>1. CASE AudioCall
  BY <1>1 DEF AudioCall
<1>2. CASE MessageArrives
  BY <1>2 DEF MessageArrives
<1>3. CASE KeyOrWindow
  BY <1>3 DEF KeyOrWindow
<1>4. CASE ProgramChange
  BY <1>4 DEF ProgramChange
<1>5. CASE ResetButton
  BY <1>5 DEF ResetButton
<1>6. CASE LoadButton
  BY <1>6 DEF LoadButton
<1>7. CASE HaltButton \/ Suspend \/ Resume
  BY <1>7 DEF HaltButton, Suspend, Resume, HaltChange
<1>8. CASE Destroy
  BY <1>8 DEF Destroy
<1> QED
  BY <1>1, <1>2, <1>3, <1>4, <1>5, <1>6, <1>7, <1>8 DEF Calls

LEMMA ThreadKeepsState ==
  ASSUME TypeOK, JobOfThread, JobAtPlace, EditorAtPlace, LockInv, StateInv, NEW t \in Threads,
         Lock(t) \/ Unlock(t) \/ Handlers(t) \/ ReInit(t)
  PROVE  StateInv'
<1>0. pc \in [Threads -> Places] /\ job \in [Threads -> Jobs] /\ depth \in Nat /\ lua \in Nat /\ opened \in Nat
  BY DEF TypeOK
<1> USE <1>0, ThreadsAssumption
    DEF Threads, Goto, Begin, Stay, ReStay, LoopStay, lockVars, luaVars, haltVars,
        scriptVars, bornVars, histVars, Locks, Unlocks,
        JobOfThread, EditorAtPlace, Built, Gone, LockInv, Outside, StateInv, ReInitPlaces,
        JobAtPlace, RestartJobs, AudioJobs, EditorJobs
<1>1. CASE Lock(t)
  BY <1>1 DEF Lock
<1>2. CASE Unlock(t)
  BY <1>2 DEF Unlock
<1>3. CASE Handlers(t)
  <2>1. CASE Handle(t)
    BY <2>1 DEF Handle, Handled, Guarded, Unguarded
  <2>2. CASE TestCalls(t)
    <3>1. /\ pc[t] = "test" /\ pc' = [pc EXCEPT ![t] = "call"]
          /\ UNCHANGED <<lua, job>> /\ (job[t] = "message" => lua # 0)
      BY <2>2 DEF TestCalls, MayCall
    <3>2. t = Messages => job[t] = "message"
      BY <3>1 DEF Guarded
    <3> QED
      BY <3>1, <3>2
  <2>3. CASE TestSkips(t)
    BY <2>3 DEF TestSkips
  <2>4. CASE Callback(t)
    BY <2>4, CallbackEffect DEF Effects
  <2>5. CASE t = Audio /\ FrameLoads
    BY <2>5 DEF FrameLoads
  <2>6. CASE t = Audio /\ FrameDoesNotLoad
    BY <2>6 DEF FrameDoesNotLoad
  <2>7. CASE t = Audio /\ FrameLoaded
    BY <2>7 DEF FrameLoaded
  <2>8. CASE t = Editor /\ ShiftEscapeDown
    BY <2>8 DEF ShiftEscapeDown
  <2>9. CASE t = Editor /\ ShiftEscapeUp
    BY <2>9 DEF ShiftEscapeUp
  <2>10. CASE t = Editor /\ DestroyHalts
    BY <2>10 DEF DestroyHalts
  <2> QED
    BY <1>3, <2>1, <2>2, <2>3, <2>4, <2>5, <2>6, <2>7, <2>8, <2>9, <2>10 DEF Handlers
<1>4. CASE ReInit(t)
  <2>1. CASE EnterReInit(t)
    BY <2>1 DEF EnterReInit
  <2>2. CASE NewNetworkToken(t)
    BY <2>2 DEF NewNetworkToken
  <2>3. CASE OnReset(t)
    BY <2>3, OnResetEffect DEF Effects
  <2>4. CASE CloseState(t)
    BY <2>4 DEF CloseState
  <2>5. CASE OpenState(t)
    BY <2>5 DEF OpenState
  <2>6. CASE InitScript(t)
    BY <2>6, InitScriptEffect DEF Effects
  <2>7. CASE InitCb(t)
    BY <2>7, InitCbEffect DEF Effects
  <2>8. CASE Restart(t)
    BY <2>8 DEF Restart
  <2>9. CASE LeaveReInit(t)
    BY <2>9 DEF LeaveReInit
  <2> QED
    BY <1>4, <2>1, <2>2, <2>3, <2>4, <2>5, <2>6, <2>7, <2>8, <2>9 DEF ReInit
<1> QED
  BY <1>1, <1>2, <1>3, <1>4

LEMMA LoopsKeepState ==
  ASSUME TypeOK, JobOfThread, JobAtPlace, EditorAtPlace, LockInv, StateInv,
         \/ \E n \in Loops : ReceiveLoop(n)
         \/ \E f \in Selectors : FileChosen(f)
  PROVE  StateInv'
<1> USE ThreadsAssumption
    DEF TypeOK, Threads, Goto, Begin, Stay, ReStay, LoopStay, lockVars, luaVars, haltVars,
        scriptVars, bornVars, histVars, Locks, Unlocks,
        JobOfThread, EditorAtPlace, Built, Gone, LockInv, Outside, StateInv, ReInitPlaces,
        JobAtPlace, RestartJobs, AudioJobs, EditorJobs
<1>1. ASSUME NEW n \in Loops, ReceiveLoop(n)
      PROVE  StateInv'
  <2>1. CASE PacketArrives(n)
    BY <2>1 DEF PacketArrives
  <2>2. CASE LoopStops(n)
    BY <2>2 DEF LoopStops
  <2>3. CASE PacketDropped(n)
    BY <2>3 DEF PacketDropped
  <2>4. CASE PacketTaken(n)
    BY <2>4 DEF PacketTaken
  <2>5. CASE CallbackFailed(n)
    BY <2>5 DEF CallbackFailed
  <2>6. CASE CallbackReturned(n)
    BY <2>6 DEF CallbackReturned
  <2> QED
    BY <1>1, <2>1, <2>2, <2>3, <2>4, <2>5, <2>6 DEF ReceiveLoop
<1>2. ASSUME NEW f \in Selectors, FileChosen(f)
      PROVE  StateInv'
  BY <1>2 DEF FileChosen
<1> QED
  BY <1>1, <1>2

(* A state that is not initialised is being set up, or will be closed.     *)
LEMMA CallsKeepStart ==
  ASSUME TypeOK, JobOfThread, JobAtPlace, EditorAtPlace, LockInv, ReInitInv, StartInv, Calls
  PROVE  StartInv'
<1> USE ThreadsAssumption
    DEF TypeOK, Threads, Goto, Begin, Stay, ReStay, LoopStay, lockVars, luaVars, haltVars,
        scriptVars, bornVars, histVars, Locks, Unlocks,
        JobOfThread, EditorAtPlace, Built, Gone, LockInv, Outside, StartInv, ReInitPlaces,
        ReInitInv, Reiniting, JobAtPlace, RestartJobs, AudioJobs, EditorJobs
<1>1. CASE AudioCall
  BY <1>1 DEF AudioCall
<1>2. CASE MessageArrives
  BY <1>2 DEF MessageArrives
<1>3. CASE KeyOrWindow
  BY <1>3 DEF KeyOrWindow
<1>4. CASE ProgramChange
  BY <1>4 DEF ProgramChange
<1>5. CASE ResetButton
  BY <1>5 DEF ResetButton
<1>6. CASE LoadButton
  BY <1>6 DEF LoadButton
<1>7. CASE HaltButton \/ Suspend \/ Resume
  BY <1>7 DEF HaltButton, Suspend, Resume, HaltChange
<1>8. CASE Destroy
  BY <1>8 DEF Destroy
<1> QED
  BY <1>1, <1>2, <1>3, <1>4, <1>5, <1>6, <1>7, <1>8 DEF Calls

LEMMA ThreadKeepsStart ==
  ASSUME TypeOK, JobOfThread, JobAtPlace, EditorAtPlace, LockInv, ReInitInv, StartInv, NEW t \in Threads,
         Lock(t) \/ Unlock(t) \/ Handlers(t) \/ ReInit(t)
  PROVE  StartInv'
<1>0. pc \in [Threads -> Places] /\ job \in [Threads -> Jobs] /\ depth \in Nat /\ lua \in Nat /\ opened \in Nat
  BY DEF TypeOK
<1> USE <1>0, ThreadsAssumption
    DEF Threads, Goto, Begin, Stay, ReStay, LoopStay, lockVars, luaVars, haltVars,
        scriptVars, bornVars, histVars, Locks, Unlocks,
        JobOfThread, EditorAtPlace, Built, Gone, LockInv, Outside, StartInv, ReInitPlaces,
        ReInitInv, Reiniting, JobAtPlace, RestartJobs, AudioJobs, EditorJobs
<1>1. CASE Lock(t)
  BY <1>1 DEF Lock
<1>2. CASE Unlock(t)
  <2>1. /\ \A u \in Threads \ {t} : pc'[u] = pc[u]
        /\ pc[t] \notin {"newToken", "onReset", "close", "initScript", "initCb"}
        /\ pc'[t] \notin {"initScript", "initCb"}
    BY <1>2 DEF Unlock
  <2>2. UNCHANGED <<lua, initialised, raced>> /\ (halted => halted')
    BY <1>2 DEF Unlock
  <2> QED
    BY <2>1, <2>2 DEF StartInv
<1>3. CASE Handlers(t)
  <2>1. CASE Handle(t)
    BY <2>1 DEF Handle, Handled, Guarded, Unguarded
  <2>2. CASE TestCalls(t)
    <3>1. /\ \A u \in Threads \ {t} : pc'[u] = pc[u]
          /\ pc[t] \notin {"newToken", "onReset", "close", "initScript", "initCb"}
          /\ pc'[t] \notin {"initScript", "initCb"}
      BY <2>2 DEF TestCalls
    <3>2. UNCHANGED <<lua, initialised, raced>> /\ (halted => halted')
      BY <2>2 DEF TestCalls
    <3> QED
      BY <3>1, <3>2 DEF StartInv
  <2>3. CASE TestSkips(t)
    BY <2>3 DEF TestSkips
  <2>4. CASE Callback(t)
    BY <2>4, CallbackEffect DEF Effects
  <2>5. CASE t = Audio /\ FrameLoads
    BY <2>5 DEF FrameLoads
  <2>6. CASE t = Audio /\ FrameDoesNotLoad
    BY <2>6 DEF FrameDoesNotLoad
  <2>7. CASE t = Audio /\ FrameLoaded
    BY <2>7 DEF FrameLoaded
  <2>8. CASE t = Editor /\ ShiftEscapeDown
    BY <2>8 DEF ShiftEscapeDown
  <2>9. CASE t = Editor /\ ShiftEscapeUp
    BY <2>9 DEF ShiftEscapeUp
  <2>10. CASE t = Editor /\ DestroyHalts
    BY <2>10 DEF DestroyHalts
  <2> QED
    BY <1>3, <2>1, <2>2, <2>3, <2>4, <2>5, <2>6, <2>7, <2>8, <2>9, <2>10 DEF Handlers
<1>4. CASE ReInit(t)
  <2>1. CASE EnterReInit(t)
    BY <2>1 DEF EnterReInit
  <2>2. CASE NewNetworkToken(t)
    BY <2>2 DEF NewNetworkToken
  <2>3. CASE OnReset(t)
    BY <2>3, OnResetEffect DEF Effects
  <2>4. CASE CloseState(t)
    BY <2>4 DEF CloseState
  <2>5. CASE OpenState(t)
    BY <2>5 DEF OpenState
  <2>6. CASE InitScript(t)
    BY <2>6, InitScriptEffect DEF Effects
  <2>7. CASE InitCb(t)
    BY <2>7, InitCbEffect DEF Effects
  <2>8. CASE Restart(t)
    BY <2>8 DEF Restart
  <2>9. CASE LeaveReInit(t)
    <3>1. /\ \A u \in Threads \ {t} : pc'[u] = pc[u]
          /\ pc[t] \notin {"newToken", "onReset", "close", "initScript", "initCb"}
          /\ pc'[t] \notin {"initScript", "initCb"}
      BY <2>9 DEF LeaveReInit
    <3>2. UNCHANGED <<lua, initialised, raced>> /\ (halted => halted')
      BY <2>9 DEF LeaveReInit
    <3> QED
      BY <3>1, <3>2 DEF StartInv
  <2> QED
    BY <1>4, <2>1, <2>2, <2>3, <2>4, <2>5, <2>6, <2>7, <2>8, <2>9 DEF ReInit
<1> QED
  BY <1>1, <1>2, <1>3, <1>4

LEMMA LoopsKeepStart ==
  ASSUME TypeOK, JobOfThread, JobAtPlace, EditorAtPlace, LockInv, ReInitInv, StartInv,
         \/ \E n \in Loops : ReceiveLoop(n)
         \/ \E f \in Selectors : FileChosen(f)
  PROVE  StartInv'
<1> USE ThreadsAssumption
    DEF TypeOK, Threads, Goto, Begin, Stay, ReStay, LoopStay, lockVars, luaVars, haltVars,
        scriptVars, bornVars, histVars, Locks, Unlocks,
        JobOfThread, EditorAtPlace, Built, Gone, LockInv, Outside, StartInv, ReInitPlaces,
        ReInitInv, Reiniting, JobAtPlace, RestartJobs, AudioJobs, EditorJobs
<1>1. ASSUME NEW n \in Loops, ReceiveLoop(n)
      PROVE  StartInv'
  <2>1. CASE PacketArrives(n)
    BY <2>1 DEF PacketArrives
  <2>2. CASE LoopStops(n)
    BY <2>2 DEF LoopStops
  <2>3. CASE PacketDropped(n)
    BY <2>3 DEF PacketDropped
  <2>4. CASE PacketTaken(n)
    BY <2>4 DEF PacketTaken
  <2>5. CASE CallbackFailed(n)
    BY <2>5 DEF CallbackFailed
  <2>6. CASE CallbackReturned(n)
    BY <2>6 DEF CallbackReturned
  <2> QED
    BY <1>1, <2>1, <2>2, <2>3, <2>4, <2>5, <2>6 DEF ReceiveLoop
<1>2. ASSUME NEW f \in Selectors, FileChosen(f)
      PROVE  StartInv'
  BY <1>2 DEF FileChosen
<1> QED
  BY <1>1, <1>2

(* Old tokens.                                                             *)
LEMMA CallsKeepTokens ==
  ASSUME TypeOK, JobAtPlace, LockInv, TokenInv, Calls
  PROVE  TokenInv'
<1> USE ThreadsAssumption
    DEF TypeOK, Threads, Goto, Begin, Stay, ReStay, LoopStay, lockVars, luaVars, haltVars,
        scriptVars, bornVars, histVars, Locks, Unlocks,
        LockInv, Outside, TokenInv, JobAtPlace, RestartJobs, ReInitPlaces
<1>1. CASE AudioCall
  BY <1>1 DEF AudioCall
<1>2. CASE MessageArrives
  BY <1>2 DEF MessageArrives
<1>3. CASE KeyOrWindow
  BY <1>3 DEF KeyOrWindow
<1>4. CASE ProgramChange
  BY <1>4 DEF ProgramChange
<1>5. CASE ResetButton
  BY <1>5 DEF ResetButton
<1>6. CASE LoadButton
  BY <1>6 DEF LoadButton
<1>7. CASE HaltButton \/ Suspend \/ Resume
  BY <1>7 DEF HaltButton, Suspend, Resume, HaltChange
<1>8. CASE Destroy
  BY <1>8 DEF Destroy
<1> QED
  BY <1>1, <1>2, <1>3, <1>4, <1>5, <1>6, <1>7, <1>8 DEF Calls

LEMMA ThreadKeepsTokens ==
  ASSUME TypeOK, JobAtPlace, LockInv, TokenInv, NEW t \in Threads,
         Lock(t) \/ Unlock(t) \/ Handlers(t) \/ ReInit(t)
  PROVE  TokenInv'
<1>0. pc \in [Threads -> Places] /\ job \in [Threads -> Jobs] /\ depth \in Nat /\ networkToken \in Nat
      /\ token \in [Loops \cup Selectors -> Nat] /\ stale \in [Loops -> Nat]
  BY DEF TypeOK
<1> USE <1>0, ThreadsAssumption
    DEF Threads, Goto, Begin, Stay, ReStay, LoopStay, lockVars, luaVars, haltVars,
        scriptVars, bornVars, histVars, Locks, Unlocks,
        LockInv, Outside, TokenInv, JobAtPlace, RestartJobs, ReInitPlaces
<1>1. CASE Lock(t)
  BY <1>1 DEF Lock
<1>2. CASE Unlock(t)
  BY <1>2 DEF Unlock
<1>3. CASE Handlers(t)
  <2>1. CASE Handle(t)
    BY <2>1 DEF Handle, Handled, Guarded, Unguarded
  <2>2. CASE TestCalls(t)
    BY <2>2 DEF TestCalls
  <2>3. CASE TestSkips(t)
    BY <2>3 DEF TestSkips
  <2>4. CASE Callback(t)
    BY <2>4, CallbackEffect DEF Effects
  <2>5. CASE t = Audio /\ FrameLoads
    BY <2>5 DEF FrameLoads
  <2>6. CASE t = Audio /\ FrameDoesNotLoad
    BY <2>6 DEF FrameDoesNotLoad
  <2>7. CASE t = Audio /\ FrameLoaded
    BY <2>7 DEF FrameLoaded
  <2>8. CASE t = Editor /\ ShiftEscapeDown
    BY <2>8 DEF ShiftEscapeDown
  <2>9. CASE t = Editor /\ ShiftEscapeUp
    BY <2>9 DEF ShiftEscapeUp
  <2>10. CASE t = Editor /\ DestroyHalts
    BY <2>10 DEF DestroyHalts
  <2> QED
    BY <1>3, <2>1, <2>2, <2>3, <2>4, <2>5, <2>6, <2>7, <2>8, <2>9, <2>10 DEF Handlers
<1>4. CASE ReInit(t)
  <2>1. CASE EnterReInit(t)
    BY <2>1 DEF EnterReInit
  <2>2. CASE NewNetworkToken(t)
    BY <2>2 DEF NewNetworkToken
  <2>3. CASE OnReset(t)
    BY <2>3, OnResetEffect DEF Effects
  <2>4. CASE CloseState(t)
    BY <2>4 DEF CloseState
  <2>5. CASE OpenState(t)
    BY <2>5 DEF OpenState
  <2>6. CASE InitScript(t)
    BY <2>6, InitScriptEffect DEF Effects
  <2>7. CASE InitCb(t)
    BY <2>7, InitCbEffect DEF Effects
  <2>8. CASE Restart(t)
    BY <2>8 DEF Restart
  <2>9. CASE LeaveReInit(t)
    BY <2>9 DEF LeaveReInit
  <2> QED
    BY <1>4, <2>1, <2>2, <2>3, <2>4, <2>5, <2>6, <2>7, <2>8, <2>9 DEF ReInit
<1> QED
  BY <1>1, <1>2, <1>3, <1>4

LEMMA LoopsKeepTokens ==
  ASSUME TypeOK, JobAtPlace, LockInv, TokenInv,
         \/ \E n \in Loops : ReceiveLoop(n)
         \/ \E f \in Selectors : FileChosen(f)
  PROVE  TokenInv'
<1> USE ThreadsAssumption
    DEF TypeOK, Threads, Goto, Begin, Stay, ReStay, LoopStay, lockVars, luaVars, haltVars,
        scriptVars, bornVars, histVars, Locks, Unlocks,
        LockInv, Outside, TokenInv, JobAtPlace, RestartJobs, ReInitPlaces
<1>1. ASSUME NEW n \in Loops, ReceiveLoop(n)
      PROVE  TokenInv'
  <2>1. CASE PacketArrives(n)
    BY <2>1 DEF PacketArrives
  <2>2. CASE LoopStops(n)
    BY <2>2 DEF LoopStops
  <2>3. CASE PacketDropped(n)
    BY <2>3 DEF PacketDropped
  <2>4. CASE PacketTaken(n)
    BY <2>4 DEF PacketTaken
  <2>5. CASE CallbackFailed(n)
    BY <2>5 DEF CallbackFailed
  <2>6. CASE CallbackReturned(n)
    BY <2>6 DEF CallbackReturned
  <2> QED
    BY <1>1, <2>1, <2>2, <2>3, <2>4, <2>5, <2>6 DEF ReceiveLoop
<1>2. ASSUME NEW f \in Selectors, FileChosen(f)
      PROVE  TokenInv'
  BY <1>2 DEF FileChosen
<1> QED
  BY <1>1, <1>2

(* The name that a frame loads.                                            *)
LEMMA CallsKeepName ==
  ASSUME TypeOK, JobOfThread, JobAtPlace, EditorAtPlace, LockInv, ReInitInv, NameInv, Calls
  PROVE  NameInv'
<1> USE ThreadsAssumption
    DEF TypeOK, Threads, Goto, Begin, Stay, ReStay, LoopStay, lockVars, luaVars, haltVars,
        scriptVars, bornVars, histVars, Locks, Unlocks,
        JobOfThread, EditorAtPlace, Built, Gone, LockInv, Outside,
        NameInv, JobAtPlace, RestartJobs, ReInitPlaces,
        ReInitInv, Reiniting, AudioJobs, EditorJobs
<1>1. CASE AudioCall
  BY <1>1 DEF AudioCall
<1>2. CASE MessageArrives
  BY <1>2 DEF MessageArrives
<1>3. CASE KeyOrWindow
  BY <1>3 DEF KeyOrWindow
<1>4. CASE ProgramChange
  BY <1>4 DEF ProgramChange
<1>5. CASE ResetButton
  BY <1>5 DEF ResetButton
<1>6. CASE LoadButton
  BY <1>6 DEF LoadButton
<1>7. CASE HaltButton \/ Suspend \/ Resume
  BY <1>7 DEF HaltButton, Suspend, Resume, HaltChange
<1>8. CASE Destroy
  BY <1>8 DEF Destroy
<1> QED
  BY <1>1, <1>2, <1>3, <1>4, <1>5, <1>6, <1>7, <1>8 DEF Calls

LEMMA ThreadKeepsName ==
  ASSUME TypeOK, JobOfThread, JobAtPlace, EditorAtPlace, LockInv, ReInitInv, NameInv, NEW t \in Threads,
         Lock(t) \/ Unlock(t) \/ Handlers(t) \/ ReInit(t)
  PROVE  NameInv'
<1>0. pc \in [Threads -> Places] /\ job \in [Threads -> Jobs] /\ depth \in Nat
  BY DEF TypeOK
<1> USE <1>0, ThreadsAssumption
    DEF Threads, Goto, Begin, Stay, ReStay, LoopStay, lockVars, luaVars, haltVars,
        scriptVars, bornVars, histVars, Locks, Unlocks,
        JobOfThread, EditorAtPlace, Built, Gone, LockInv, Outside,
        NameInv, JobAtPlace, RestartJobs, ReInitPlaces,
        ReInitInv, Reiniting, AudioJobs, EditorJobs
<1>1. CASE Lock(t)
  BY <1>1 DEF Lock
<1>2. CASE Unlock(t)
  BY <1>2 DEF Unlock
<1>3. CASE Handlers(t)
  <2>1. CASE Handle(t)
    BY <2>1 DEF Handle, Handled, Guarded, Unguarded
  <2>2. CASE TestCalls(t)
    BY <2>2 DEF TestCalls
  <2>3. CASE TestSkips(t)
    BY <2>3 DEF TestSkips
  <2>4. CASE Callback(t)
    BY <2>4, CallbackEffect DEF Effects
  <2>5. CASE t = Audio /\ FrameLoads
    BY <2>5 DEF FrameLoads
  <2>6. CASE t = Audio /\ FrameDoesNotLoad
    BY <2>6 DEF FrameDoesNotLoad
  <2>7. CASE t = Audio /\ FrameLoaded
    BY <2>7 DEF FrameLoaded
  <2>8. CASE t = Editor /\ ShiftEscapeDown
    BY <2>8 DEF ShiftEscapeDown
  <2>9. CASE t = Editor /\ ShiftEscapeUp
    BY <2>9 DEF ShiftEscapeUp
  <2>10. CASE t = Editor /\ DestroyHalts
    BY <2>10 DEF DestroyHalts
  <2> QED
    BY <1>3, <2>1, <2>2, <2>3, <2>4, <2>5, <2>6, <2>7, <2>8, <2>9, <2>10 DEF Handlers
<1>4. CASE ReInit(t)
  <2>1. CASE EnterReInit(t)
    BY <2>1 DEF EnterReInit
  <2>2. CASE NewNetworkToken(t)
    BY <2>2 DEF NewNetworkToken
  <2>3. CASE OnReset(t)
    BY <2>3, OnResetEffect DEF Effects
  <2>4. CASE CloseState(t)
    BY <2>4 DEF CloseState
  <2>5. CASE OpenState(t)
    BY <2>5 DEF OpenState
  <2>6. CASE InitScript(t)
    BY <2>6, InitScriptEffect DEF Effects
  <2>7. CASE InitCb(t)
    BY <2>7, InitCbEffect DEF Effects
  <2>8. CASE Restart(t)
    BY <2>8 DEF Restart
  <2>9. CASE LeaveReInit(t)
    BY <2>9 DEF LeaveReInit
  <2> QED
    BY <1>4, <2>1, <2>2, <2>3, <2>4, <2>5, <2>6, <2>7, <2>8, <2>9 DEF ReInit
<1> QED
  BY <1>1, <1>2, <1>3, <1>4

LEMMA LoopsKeepName ==
  ASSUME TypeOK, JobOfThread, JobAtPlace, EditorAtPlace, LockInv, ReInitInv, NameInv,
         \/ \E n \in Loops : ReceiveLoop(n)
         \/ \E f \in Selectors : FileChosen(f)
  PROVE  NameInv'
<1> USE ThreadsAssumption
    DEF TypeOK, Threads, Goto, Begin, Stay, ReStay, LoopStay, lockVars, luaVars, haltVars,
        scriptVars, bornVars, histVars, Locks, Unlocks,
        JobOfThread, EditorAtPlace, Built, Gone, LockInv, Outside,
        NameInv, JobAtPlace, RestartJobs, ReInitPlaces,
        ReInitInv, Reiniting, AudioJobs, EditorJobs
<1>1. ASSUME NEW n \in Loops, ReceiveLoop(n)
      PROVE  NameInv'
  <2>1. CASE PacketArrives(n)
    BY <2>1 DEF PacketArrives
  <2>2. CASE LoopStops(n)
    BY <2>2 DEF LoopStops
  <2>3. CASE PacketDropped(n)
    BY <2>3 DEF PacketDropped
  <2>4. CASE PacketTaken(n)
    BY <2>4 DEF PacketTaken
  <2>5. CASE CallbackFailed(n)
    BY <2>5 DEF CallbackFailed
  <2>6. CASE CallbackReturned(n)
    BY <2>6 DEF CallbackReturned
  <2> QED
    BY <1>1, <2>1, <2>2, <2>3, <2>4, <2>5, <2>6 DEF ReceiveLoop
<1>2. ASSUME NEW f \in Selectors, FileChosen(f)
      PROVE  NameInv'
  BY <1>2 DEF FileChosen
<1> QED
  BY <1>1, <1>2

(* Surplus: only the Shift-Escape branch adds to it.                       *)
LEMMA CallsKeepSurplus ==
  ASSUME TypeOK, JobOfThread, JobAtPlace, LockInv, Calls
  PROVE  \/ Surplus' = Surplus
         \/ /\ Surplus' = Surplus + 1 /\ owner = Editor
            /\ job[Editor] \in {"shiftEscDown", "shiftEscUp"}
<1> USE ThreadsAssumption
    DEF TypeOK, Threads, Goto, Begin, Stay, ReStay, LoopStay, lockVars, luaVars, haltVars,
        scriptVars, bornVars, histVars, Locks, Unlocks,
        JobOfThread, LockInv, Surplus, Held, Outside, ReInitPlaces, JobAtPlace, RestartJobs
<1>1. CASE AudioCall
  BY <1>1 DEF AudioCall
<1>2. CASE MessageArrives
  BY <1>2 DEF MessageArrives
<1>3. CASE KeyOrWindow
  BY <1>3 DEF KeyOrWindow
<1>4. CASE ProgramChange
  BY <1>4 DEF ProgramChange
<1>5. CASE ResetButton
  BY <1>5 DEF ResetButton
<1>6. CASE LoadButton
  BY <1>6 DEF LoadButton
<1>7. CASE HaltButton \/ Suspend \/ Resume
  BY <1>7 DEF HaltButton, Suspend, Resume, HaltChange
<1>8. CASE Destroy
  BY <1>8 DEF Destroy
<1> QED
  BY <1>1, <1>2, <1>3, <1>4, <1>5, <1>6, <1>7, <1>8 DEF Calls

LEMMA ThreadKeepsSurplus ==
  ASSUME TypeOK, JobOfThread, JobAtPlace, LockInv, NEW t \in Threads,
         Lock(t) \/ Unlock(t) \/ Handlers(t) \/ ReInit(t)
  PROVE  \/ Surplus' = Surplus
         \/ /\ Surplus' = Surplus + 1 /\ owner = Editor
            /\ job[Editor] \in {"shiftEscDown", "shiftEscUp"}
<1>0. pc \in [Threads -> Places] /\ job \in [Threads -> Jobs] /\ depth \in Nat
  BY DEF TypeOK
<1> USE <1>0, ThreadsAssumption
    DEF Threads, Goto, Begin, Stay, ReStay, LoopStay, lockVars, luaVars, haltVars,
        scriptVars, bornVars, histVars, Locks, Unlocks,
        JobOfThread, LockInv, Surplus, Held, Outside, ReInitPlaces, JobAtPlace, RestartJobs
<1>1. CASE Lock(t)
  BY <1>1 DEF Lock
<1>2. CASE Unlock(t)
  BY <1>2 DEF Unlock
<1>3. CASE Handlers(t)
  <2>1. CASE Handle(t)
    BY <2>1 DEF Handle, Handled, Guarded, Unguarded
  <2>2. CASE TestCalls(t)
    BY <2>2 DEF TestCalls
  <2>3. CASE TestSkips(t)
    BY <2>3 DEF TestSkips
  <2>4. CASE Callback(t)
    BY <2>4, CallbackEffect DEF Effects
  <2>5. CASE t = Audio /\ FrameLoads
    BY <2>5 DEF FrameLoads
  <2>6. CASE t = Audio /\ FrameDoesNotLoad
    BY <2>6 DEF FrameDoesNotLoad
  <2>7. CASE t = Audio /\ FrameLoaded
    BY <2>7 DEF FrameLoaded
  <2>8. CASE t = Editor /\ ShiftEscapeDown
    BY <2>8 DEF ShiftEscapeDown
  <2>9. CASE t = Editor /\ ShiftEscapeUp
    BY <2>9 DEF ShiftEscapeUp
  <2>10. CASE t = Editor /\ DestroyHalts
    BY <2>10 DEF DestroyHalts
  <2> QED
    BY <1>3, <2>1, <2>2, <2>3, <2>4, <2>5, <2>6, <2>7, <2>8, <2>9, <2>10 DEF Handlers
<1>4. CASE ReInit(t)
  <2>1. CASE EnterReInit(t)
    BY <2>1 DEF EnterReInit
  <2>2. CASE NewNetworkToken(t)
    BY <2>2 DEF NewNetworkToken
  <2>3. CASE OnReset(t)
    BY <2>3, OnResetEffect DEF Effects
  <2>4. CASE CloseState(t)
    BY <2>4 DEF CloseState
  <2>5. CASE OpenState(t)
    BY <2>5 DEF OpenState
  <2>6. CASE InitScript(t)
    BY <2>6, InitScriptEffect DEF Effects
  <2>7. CASE InitCb(t)
    BY <2>7, InitCbEffect DEF Effects
  <2>8. CASE Restart(t)
    BY <2>8 DEF Restart
  <2>9. CASE LeaveReInit(t)
    <3>1. /\ pc[t] = "leave" /\ owner = t /\ t # NoThread /\ depth' = depth - 1
          /\ owner' = IF depth' = 0 THEN NoThread ELSE t
          /\ pc'[t] = IF job[t] = "frame" THEN "loaded" ELSE "idle"
          /\ job'[t] = IF job[t] = "frame" THEN "frame" ELSE "none"
      BY <2>9 DEF LeaveReInit
    <3>2. /\ Held(t) = IF job[t] \in {"frame", "shiftEscUp"} THEN 2 ELSE 1
          /\ Held(t)' = IF job[t] = "frame" THEN 1 ELSE 0
      BY <3>1
    <3>3. depth >= Held(t)
      BY <3>1 DEF LockInv
    <3>4. job[t] = "shiftEscUp" => t = Editor
      BY Zenon DEF Threads, JobOfThread, AudioJobs
    <3>5. /\ Surplus = depth - Held(t)
          /\ Surplus' = depth' - (IF depth' = 0 THEN 0 ELSE Held(t)')
      BY <3>1 DEF Surplus
    <3> HIDE DEF Surplus, Held
    <3> QED
      BY <3>1, <3>2, <3>3, <3>4, <3>5
  <2> QED
    BY <1>4, <2>1, <2>2, <2>3, <2>4, <2>5, <2>6, <2>7, <2>8, <2>9 DEF ReInit
<1> QED
  BY <1>1, <1>2, <1>3, <1>4

LEMMA LoopsKeepSurplus ==
  ASSUME TypeOK, JobOfThread, JobAtPlace, LockInv,
         \/ \E n \in Loops : ReceiveLoop(n)
         \/ \E f \in Selectors : FileChosen(f)
  PROVE  \/ Surplus' = Surplus
         \/ /\ Surplus' = Surplus + 1 /\ owner = Editor
            /\ job[Editor] \in {"shiftEscDown", "shiftEscUp"}
<1> USE ThreadsAssumption
    DEF TypeOK, Threads, Goto, Begin, Stay, ReStay, LoopStay, lockVars, luaVars, haltVars,
        scriptVars, bornVars, histVars, Locks, Unlocks,
        JobOfThread, LockInv, Surplus, Held, Outside, ReInitPlaces, JobAtPlace, RestartJobs
<1>1. ASSUME NEW n \in Loops, ReceiveLoop(n)
      PROVE  \/ Surplus' = Surplus
         \/ /\ Surplus' = Surplus + 1 /\ owner = Editor
            /\ job[Editor] \in {"shiftEscDown", "shiftEscUp"}
  <2>1. CASE PacketArrives(n)
    BY <2>1 DEF PacketArrives
  <2>2. CASE LoopStops(n)
    BY <2>2 DEF LoopStops
  <2>3. CASE PacketDropped(n)
    BY <2>3 DEF PacketDropped
  <2>4. CASE PacketTaken(n)
    BY <2>4 DEF PacketTaken
  <2>5. CASE CallbackFailed(n)
    BY <2>5 DEF CallbackFailed
  <2>6. CASE CallbackReturned(n)
    BY <2>6 DEF CallbackReturned
  <2> QED
    BY <1>1, <2>1, <2>2, <2>3, <2>4, <2>5, <2>6 DEF ReceiveLoop
<1>2. ASSUME NEW f \in Selectors, FileChosen(f)
      PROVE  \/ Surplus' = Surplus
         \/ /\ Surplus' = Surplus + 1 /\ owner = Editor
            /\ job[Editor] \in {"shiftEscDown", "shiftEscUp"}
  BY <1>2 DEF FileChosen
<1> QED
  BY <1>1, <1>2

(* Init fulfils it, and every step keeps it.                               *)
LEMMA InitIInv == Init => IInv
<1> SUFFICES ASSUME Init PROVE IInv
  OBVIOUS
<1> USE ThreadsAssumption, ScriptsAssumption
<1>1. /\ pc \in [Threads -> Places] /\ job \in [Threads -> Jobs]
      /\ \A t \in Threads : pc[t] = IF t = Editor THEN "lock"
                            ELSE IF t \in {Audio, Messages} THEN "idle" ELSE "off"
      /\ \A t \in Threads : job[t] = IF t = Editor THEN "build" ELSE "none"
  BY DEF Init, Threads, Places, Jobs
<1>2. TypeOK
  <2>1. /\ owner \in Threads \cup {NoThread} /\ depth \in Nat /\ (depth = 0 <=> owner = NoThread)
        /\ lua \in 0..opened /\ opened \in Nat /\ stackTop \in {"none", "0", "1"}
        /\ networkToken \in Nat /\ resets \in 0..MaxResets
    BY DEF Init
  <2>2. /\ current_script \in Scripts \cup {NoScript}
        /\ scriptToLoad \in Scripts \cup {NoScript, NoRequest}
        /\ token \in [Loops \cup Selectors -> Nat] /\ state \in [Loops \cup Selectors -> Nat]
        /\ stale \in [Loops -> Nat]
    BY DEF Init
  <2>3. /\ halted \in BOOLEAN /\ insideReInit \in BOOLEAN
        /\ initialised \in BOOLEAN /\ raced \in BOOLEAN
    BY Zenon DEF Init
  <2>4. receiving \in [Loops -> BOOLEAN]
    BY DEF Init
  <2> QED
    BY <1>1, <2>1, <2>2, <2>3, <2>4 DEF TypeOK
<1>3. JobOfThread /\ JobAtPlace /\ EditorAtPlace
  BY <1>1 DEF JobOfThread, JobAtPlace, EditorAtPlace, Built, Gone, Threads,
              ReInitPlaces, Handled, RestartJobs
<1>4. LockInv /\ ReInitInv
  BY <1>1 DEF Init, LockInv, Outside, ReInitInv, Reiniting, ReInitPlaces
<1>5. StateInv /\ StartInv /\ TokenInv /\ NameInv
  BY <1>1 DEF Init, StateInv, StartInv, TokenInv, NameInv, Built, Threads,
              ReInitPlaces
<1> QED
  BY <1>2, <1>3, <1>4, <1>5 DEF IInv

LEMMA NextIInv == IInv /\ [Next]_vars => IInv'
<1> SUFFICES ASSUME IInv, [Next]_vars PROVE IInv'
  OBVIOUS
<1> USE DEF IInv
<1>1. CASE Calls
  BY <1>1, CallsTyped, CallsKeepJobs, CallsKeepLock, CallsKeepReInit,
     CallsKeepState, CallsKeepStart, CallsKeepTokens, CallsKeepName
<1>2. ASSUME NEW t \in Threads, Lock(t) \/ Unlock(t) \/ Handlers(t) \/ ReInit(t)
      PROVE  IInv'
  BY <1>2, ThreadTyped, ThreadKeepsJobs, ThreadKeepsLock, ThreadKeepsReInit,
     ThreadKeepsState, ThreadKeepsStart, ThreadKeepsTokens, ThreadKeepsName
<1>3. CASE (\E n \in Loops : ReceiveLoop(n)) \/ (\E f \in Selectors : FileChosen(f))
  BY <1>3, LoopsTyped, LoopsKeepJobs, LoopsKeepLock, LoopsKeepReInit,
     LoopsKeepState, LoopsKeepStart, LoopsKeepTokens, LoopsKeepName
<1>4. CASE UNCHANGED vars
  <2> USE <1>4 DEF vars, lockVars, luaVars, haltVars, scriptVars, bornVars, histVars
  <2>1. TypeOK' /\ JobOfThread' /\ JobAtPlace'
    BY DEF TypeOK, JobOfThread, JobAtPlace
  <2>2. EditorAtPlace' /\ LockInv' /\ ReInitInv'
    BY DEF EditorAtPlace, Built, Gone, LockInv, Held, ReInitInv, Reiniting
  <2>3. StateInv' /\ StartInv' /\ TokenInv' /\ NameInv'
    BY DEF StateInv, StartInv, TokenInv, NameInv, Built, Gone
  <2> QED
    BY <2>1, <2>2, <2>3
<1> QED
  BY <1>1, <1>2, <1>3, <1>4 DEF Next

-----------------------------------------------------------------------------
(* The inductive invariant of the interpreter: which thread is where with  *)
(* which job, what it holds of the lock, whose insideReInit is, when there *)
(* is a state and when it is initialised, what a token says.               *)
THEOREM Invariance == Spec => []IInv
<1> QED
  BY InitIInv, NextIInv, PTL DEF Spec

(* Every reachable state of the interpreter is well typed.                 *)
THEOREM TypeCorrect == Spec => []TypeOK
<1>1. IInv => TypeOK
  BY DEF IInv
<1> QED
  BY <1>1, Invariance, PTL

(* No handler of host, editor or message thread runs in a NULL state.      *)
THEOREM NoCallWithoutState == Spec => []CallersSeeAState
<1>1. IInv => CallersSeeAState
  <2> SUFFICES ASSUME IInv, NEW t \in {Audio, Editor, Messages}, InCall(t), lua = 0
               PROVE  FALSE
    BY DEF CallersSeeAState
  <2> USE ThreadsAssumption DEF IInv
  <2>1. t \in Threads /\ t # NoThread /\ owner = t /\ pc[t] = "call"
    BY DEF InCall, LockInv, Outside, Threads
  <2>2. t # Messages
    BY <2>1 DEF StateInv
  <2>3. \A u \in Threads : pc[u] # "open"
    BY <2>1 DEF LockInv, Outside
  <2>4. Gone \/ ~Built
    BY <2>3 DEF StateInv
  <2>5. t = Editor
    BY <2>1, <2>2, <2>4 DEF EditorAtPlace
  <2> QED
    BY <2>1, <2>4, <2>5 DEF Built, Gone, JobAtPlace, EditorAtPlace, Guarded, Unguarded
<1> QED
  BY <1>1, Invariance, PTL

(* No handler reaches a script before its _initCb, unless resume() made    *)
(* reInit skip it.                                                         *)
THEOREM InitBeforeCalls == Spec => []InitFirst
<1>1. IInv => InitFirst
  <2> SUFFICES ASSUME IInv, NEW t \in Threads \ Selectors, InCall(t), lua # 0
               PROVE  initialised \/ raced
    BY DEF InitFirst
  <2> USE ThreadsAssumption DEF IInv
  <2>1. t \in Threads /\ owner = t /\ pc[t] = "call"
    BY DEF InCall, LockInv, Outside
  <2>2. \A u \in Threads : pc[u] \notin {"newToken", "onReset", "close",
                                         "initScript", "initCb"}
    BY <2>1 DEF LockInv, Outside
  <2> QED
    BY <2>1, <2>2 DEF StartInv
<1> QED
  BY <1>1, Invariance, PTL

(* reInit is not entered a second time while a thread is in it.            *)
THEOREM ReInitNotNested == Spec => []NoNestedReInit
<1>1. IInv => NoNestedReInit
  <2> SUFFICES ASSUME IInv, NEW t \in Threads, pc[t] = "reinit", insideReInit
               PROVE  FALSE
    BY DEF NoNestedReInit
  <2> USE DEF IInv
  <2>1. PICK u \in Threads : Reiniting(u)
    BY DEF ReInitInv
  <2> QED
    BY <2>1 DEF Reiniting, ReInitPlaces, LockInv, Outside
<1> QED
  BY <1>1, Invariance, PTL

(* A loop that outlives its script gives the next one at most one packet.  *)
THEOREM StalePackets == Spec => []OneStalePacket
<1>1. IInv => OneStalePacket
  BY DEF IInv, TokenInv, OneStalePacket
<1> QED
  BY <1>1, Invariance, PTL

(* The name that a script handed to reset() is the one that is loaded.     *)
THEOREM NameIsLoaded == Spec => RequestLoaded
<1>1. IInv /\ [Next]_vars =>
        (scriptToLoad # NoRequest /\ scriptToLoad' = NoRequest =>
           current_script \in {scriptToLoad, NoScript} \/ job[Editor] = "load")
  <2> SUFFICES ASSUME IInv, [Next]_vars, scriptToLoad # NoRequest,
                      scriptToLoad' = NoRequest
               PROVE  current_script \in {scriptToLoad, NoScript} \/ job[Editor] = "load"
    OBVIOUS
  <2>1. PICK t \in Threads : Lock(t) \/ Unlock(t) \/ Handlers(t) \/ ReInit(t)
    BY DEF Next, vars, scriptVars, Calls, AudioCall, MessageArrives, KeyOrWindow,
           ProgramChange, ResetButton, LoadButton, HaltButton, Suspend, Resume,
           HaltChange, Destroy, Begin, ReceiveLoop, PacketArrives, LoopStops,
           PacketDropped, PacketTaken, CallbackFailed, CallbackReturned,
           FileChosen, LoopStay
  <2>2. FrameLoaded
    <3> USE ScriptsAssumption DEF scriptVars, Stay, ReStay
    <3>1. ASSUME NEW s, NEW next, ScriptRuns(t, s, next) PROVE FALSE
      BY <3>1 DEF ScriptRuns, ScriptQuiet, ScriptHalts, ScriptResets,
                  StartsLoop, OpensSelector
    <3>2. ~Lock(t) /\ ~Unlock(t)
      BY DEF Lock, Unlock
    <3>3. ~ReInit(t)
      <4>1. ~OnReset(t) /\ ~InitScript(t) /\ ~InitCb(t)
        BY <3>1 DEF OnReset, InitScript, InitCb, ScriptQuiet
      <4> QED
        BY <4>1 DEF ReInit, EnterReInit, NewNetworkToken, CloseState, OpenState,
                    Restart, LeaveReInit
    <3>4. ~Callback(t)
      BY <3>1 DEF Callback
    <3> QED
      BY <2>1, <3>2, <3>3, <3>4
      DEF Handlers, Handle, TestCalls, TestSkips, FrameLoads, FrameDoesNotLoad,
          ShiftEscapeDown, ShiftEscapeUp, DestroyHalts
  <2>3. pc[Audio] = "loaded" /\ Audio \in Threads
    BY <2>2 DEF FrameLoaded, Goto, Threads
  <2> QED
    BY <2>3 DEF IInv, JobAtPlace, NameInv
<1> QED
  BY <1>1, Invariance, PTL DEF Spec, RequestLoaded

(* Every way out of a call gives the lock back as often as it was taken;   *)
(* only the Shift-Escape branch of onKey keeps it, once.                   *)
THEOREM ShiftEscapeKeepsLock == Spec => OnlyShiftEscapeKeepsLock
<1>1. IInv /\ [Next]_vars =>
        (Surplus' # Surplus => /\ Surplus' = Surplus + 1 /\ owner = Editor
                               /\ job[Editor] \in {"shiftEscDown", "shiftEscUp"})
  <2> SUFFICES ASSUME IInv, [Next]_vars
               PROVE  \/ Surplus' = Surplus
                       \/ /\ Surplus' = Surplus + 1 /\ owner = Editor
                          /\ job[Editor] \in {"shiftEscDown", "shiftEscUp"}
    OBVIOUS
  <2> USE DEF IInv
  <2>1. CASE Calls
    BY <2>1, CallsKeepSurplus
  <2>2. CASE \E t \in Threads : Lock(t) \/ Unlock(t) \/ Handlers(t) \/ ReInit(t)
    BY <2>2, ThreadKeepsSurplus
  <2>3. CASE (\E n \in Loops : ReceiveLoop(n)) \/ (\E f \in Selectors : FileChosen(f))
    BY <2>3, LoopsKeepSurplus
  <2>4. CASE UNCHANGED vars
    BY <2>4 DEF vars, lockVars, Surplus, Held
  <2> QED
    BY <2>1, <2>2, <2>3, <2>4 DEF Next
<1> QED
  BY <1>1, Invariance, PTL DEF Spec, OnlyShiftEscapeKeepsLock
=============================================================================
