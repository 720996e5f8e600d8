---------------------------- MODULE SharedAliases ----------------------------
(***************************************************************************)
(* The table of aliases that all instances share (src/lua/shared.lua) as a *)
(* text in shared memory (src/sharedmem.cpp).  An instance that changes it *)
(* reads it all, changes its own entry, writes it all, and sends a message *)
(* to everybody; who gets the message copies the table.  The mutex around  *)
(* that is only tried, and whether it was got is not looked at.            *)
(***************************************************************************)
EXTENDS Naturals, FiniteSets

CONSTANTS Instances,
          Names, NoName, \* aliases, and nil
          Threads,       \* that run callbacks, of any instance
          NoThread,
          MaxSets,       \* bound: calls of setSharedMemAlias by scripts
          MaxErrors      \* bound: callbacks that end with an error, writes and
                         \* messages that time out

ASSUME NamesAssumption == NoName \notin Names
ASSUME ThreadsAssumption == NoThread \notin Threads
ASSUME BoundsAssumption == MaxSets \in Nat /\ MaxErrors \in Nat

Table == [Instances -> Names \cup {NoName}]
NoAliases == [i \in Instances |-> NoName]

VARIABLES
    text, written,        \* sharedLua: a serialised table, at first ""
    owner, depth,         \* sharedLuaLock, a mutex of Windows: recursive
    state, halted,        \* of an instance
    pc, job, thread,      \* the callback an instance is in
    name,                 \* argument of setSharedMemAlias
    got,                  \* the mutex was free
    seen,                 \* the text when reading it began
    proxy,                \* _sharedProxy.aliases
    cache, sameTable,     \* sharedMemAliases; is it the table of the proxy?
    rest,                 \* instances that still get the message
    mail,                 \* instances with an __ALIAS_SET__ in their mailbox
    careless,             \* history: a write without the mutex or in vain
    stuck,                \* history: a callback failed with the mutex
    stale,                \* history: missed a message or did not handle it
    sets, errors

sharedVars == <<text, written>>
mutexVars == <<owner, depth>>
callVars == <<pc, job, thread, name, got, seen, rest>>
scriptVars == <<proxy, cache, sameTable>>
histories == <<careless, stuck, stale>>
vars == <<text, written, owner, depth, state, halted, pc, job, thread, name, got,
          seen, proxy, cache, sameTable, rest, mail, careless, stuck,
          stale, sets, errors>>

ForAll(v) == [i \in Instances |-> v]

Init ==
    /\ text = NoAliases /\ written = FALSE
    /\ owner = NoThread /\ depth = 0
    /\ state = ForAll("new") /\ halted = ForAll(FALSE)
    /\ pc = ForAll("idle") /\ job = ForAll("none") /\ thread = ForAll(NoThread)
    /\ name = ForAll(NoName) /\ got = ForAll(FALSE) /\ seen = ForAll(NoAliases)
    /\ proxy = ForAll(NoAliases) /\ cache = ForAll(NoAliases)
    /\ sameTable = ForAll(FALSE) /\ rest = ForAll({}) /\ mail = {}
    /\ careless = FALSE /\ stuck = FALSE /\ stale = {}
    /\ sets = 0 /\ errors = 0

Up == {i \in Instances : state[i] = "up"}
Setting(i) == job[i] \in {"set", "restart", "exit"}
Fault == errors < MaxErrors /\ errors' = errors + 1
Goto(i, from, to) == pc[i] = from /\ pc' = [pc EXCEPT ![i] = to]

-----------------------------------------------------------------------------
(* A callback starts: exlock of the instance is free, and so is a thread.  *)
Free(i) == pc[i] = "idle"
Busy == {thread[i] : i \in {j \in Instances : ~Free(j)}}

Begin(i, th, j, n) ==
    /\ Free(i) /\ th \notin Busy
    /\ pc' = [pc EXCEPT ![i] = "lock"]
    /\ job' = [job EXCEPT ![i] = j]
    /\ thread' = [thread EXCEPT ![i] = th]
    /\ name' = [name EXCEPT ![i] = n]
    /\ UNCHANGED <<sharedVars, mutexVars, got, seen, rest, scriptVars,
                   careless, stuck, errors>>

\* back in the host: the locals of the call are gone
Return(i) ==
    /\ pc' = [pc EXCEPT ![i] = "idle"]
    /\ job' = [job EXCEPT ![i] = "none"]
    /\ thread' = [thread EXCEPT ![i] = NoThread]
    /\ name' = [name EXCEPT ![i] = NoName]
    /\ seen' = [seen EXCEPT ![i] = NoAliases]

\* from the user's script
setSharedMemAlias(i, th, n) ==
    /\ state[i] = "up" /\ ~halted[i] /\ sets < MaxSets
    /\ sets' = sets + 1
    /\ Begin(i, th, "set", n)
    /\ UNCHANGED <<state, halted, mail, stale>>

\* the constructor: registered, then _initCb
Construct(i, th) ==
    /\ state[i] = "new"
    /\ state' = [state EXCEPT ![i] = "up"]
    /\ Begin(i, th, "init", NoName)
    /\ UNCHANGED <<halted, mail, stale, sets>>

\* closeInterpreter calls _resetCb, which sets the alias to nil
reInit(i, th) ==
    /\ state[i] = "up"
    /\ Begin(i, th, "restart", NoName)
    /\ UNCHANGED <<state, halted, mail, stale, sets>>
Destruct(i, th) ==
    /\ state[i] = "up"
    /\ Begin(i, th, "exit", NoName)
    /\ UNCHANGED <<state, halted, mail, stale, sets>>

\* messageCallback and handleSharedCallbacks
messageCallback(i, th) ==
    /\ i \in mail /\ state[i] = "up" /\ ~halted[i]
    /\ mail' = mail \ {i}
    /\ Begin(i, th, "update", NoName)
    /\ UNCHANGED <<state, halted, stale, sets>>
MessageIgnored(i) ==
    /\ i \in mail /\ Free(i) /\ (halted[i] \/ state[i] = "gone")
    /\ mail' = mail \ {i} /\ stale' = stale \cup {i}
    /\ UNCHANGED <<sharedVars, mutexVars, state, halted, callVars, scriptVars,
                   careless, stuck, sets, errors>>

-----------------------------------------------------------------------------
\* mutant of Lock: lockShared says that it has the mutex, in any case
LockAlways(i) ==
    /\ Goto(i, "lock", "read")
    /\ got' = [got EXCEPT ![i] = TRUE]
    /\ IF owner \in {NoThread, thread[i]}
       THEN owner' = thread[i] /\ depth' = depth + 1
       ELSE UNCHANGED mutexVars
    /\ UNCHANGED <<sharedVars, state, halted, job, thread, name, seen, rest,
                   scriptVars, mail, histories, sets, errors>>

(* sharedMemory.lock(), which is lockShared: a wait of 0 ms *)
Lock(i) ==
    /\ Goto(i, "lock", "read")
    /\ IF owner \in {NoThread, thread[i]}
       THEN /\ owner' = thread[i] /\ depth' = depth + 1
            /\ got' = [got EXCEPT ![i] = TRUE]
       ELSE /\ got' = [got EXCEPT ![i] = FALSE]
            /\ UNCHANGED mutexVars
    /\ UNCHANGED <<sharedVars, state, halted, job, thread, name, seen, rest,
                   scriptVars, mail, histories, sets, errors>>

(* sharedMemory.read(): readFromShared gives the globalMutex back before   *)
(* the text is copied.  An empty text leaves _sharedProxy as it is.        *)
ReadBegins(i) ==
    /\ Goto(i, "read", "copy")
    /\ seen' = [seen EXCEPT ![i] = IF written THEN text ELSE proxy[i]]
    /\ stale' = IF Setting(i) THEN stale ELSE stale \ {i}
    /\ UNCHANGED <<sharedVars, mutexVars, state, halted, job, thread, name, got,
                   rest, scriptVars, mail, careless, stuck, sets, errors>>

\* mutant of Read: the table of the instance instead of the text
ReadOwn(i) == {proxy[i]}

\* a text that is being written may be torn, if it is Lua at all (Fail)
Read(i) ==
    LET now == IF written THEN text ELSE proxy[i]
    IN  {t \in Table : \A j \in Instances : t[j] \in {now[j], seen[i][j]}}

\* and, in setSharedMemAlias, the change of the own entry
Copy(i) ==
    /\ Goto(i, "copy", IF Setting(i) THEN "write" ELSE "unlock")
    /\ \E t \in Read(i) :
          LET new == IF Setting(i) THEN [t EXCEPT ![i] = name[i]] ELSE t
          IN  /\ proxy' = [proxy EXCEPT ![i] = new]
              /\ cache' = [cache EXCEPT ![i] =
                              IF sameTable[i] /\ ~written THEN new ELSE @]
    /\ sameTable' = [sameTable EXCEPT ![i] = @ /\ ~written]
    /\ seen' = [seen EXCEPT ![i] = NoAliases]
    /\ UNCHANGED <<sharedVars, mutexVars, state, halted, job, thread, name, got,
                   rest, mail, histories, sets, errors>>

\* sharedMemory.write(): writeToShared gives up after 50 ms, which nobody sees
Write(i) ==
    /\ Goto(i, "write", "unlock")
    /\ \E ok \in BOOLEAN :
          /\ text' = IF ok THEN proxy[i] ELSE text
          /\ written' = (written \/ ok)
          /\ careless' = (careless \/ ~ok \/ ~got[i])
          /\ IF ok THEN UNCHANGED errors ELSE Fault
    /\ UNCHANGED <<mutexVars, state, halted, job, thread, name, got, seen, rest,
                   scriptVars, mail, stuck, stale, sets>>

\* mutant of Unlock: updateSharedMemAliases keeps the mutex
UnlockSetting(i) ==
    /\ pc[i] = "unlock"
    /\ IF owner = thread[i] /\ Setting(i)
       THEN depth' = depth - 1 /\ owner' = IF depth = 1 THEN NoThread ELSE owner
       ELSE UNCHANGED mutexVars
    /\ got' = [got EXCEPT ![i] = FALSE]
    /\ halted' = [halted EXCEPT ![i] = @ /\ job[i] # "init"]
    /\ IF Setting(i)
       THEN /\ pc' = [pc EXCEPT ![i] = "list"]
            /\ UNCHANGED <<job, thread, name, seen, cache, sameTable>>
       ELSE /\ Return(i)
            /\ cache' = [cache EXCEPT ![i] = proxy[i]]
            /\ sameTable' = [sameTable EXCEPT ![i] = TRUE]
    /\ UNCHANGED <<sharedVars, state, rest, proxy, mail, histories, sets, errors>>

(* sharedMemory.unlock(): ReleaseMutex does nothing for a thread that is   *)
(* not the owner.  updateSharedMemAliases then keeps the table (the same   *)
(* table) as sharedMemAliases; _initCb is over with that, for us.          *)
Unlock(i) ==
    /\ pc[i] = "unlock"
    /\ IF owner = thread[i]
       THEN depth' = depth - 1 /\ owner' = IF depth = 1 THEN NoThread ELSE owner
       ELSE UNCHANGED mutexVars
    /\ got' = [got EXCEPT ![i] = FALSE]
    /\ halted' = [halted EXCEPT ![i] = @ /\ job[i] # "init"]
    /\ IF Setting(i)
       THEN /\ pc' = [pc EXCEPT ![i] = "list"]
            /\ UNCHANGED <<job, thread, name, seen, cache, sameTable>>
       ELSE /\ Return(i)
            /\ cache' = [cache EXCEPT ![i] = proxy[i]]
            /\ sameTable' = [sameTable EXCEPT ![i] = TRUE]
    /\ UNCHANGED <<sharedVars, state, rest, proxy, mail, histories, sets, errors>>

-----------------------------------------------------------------------------
\* mutant of getInstances: the others only
getOthers(i) == Up \ {i}

getInstances(i) == Up

List(i) ==
    /\ Goto(i, "list", "send")
    /\ rest' = [rest EXCEPT ![i] = getInstances(i)]
    /\ UNCHANGED <<sharedVars, mutexVars, state, halted, job, thread, name, got,
                   seen, scriptVars, mail, histories, sets, errors>>

\* sendToInstance: the mailbox, unless one of its waits times out
Send(i) ==
    /\ pc[i] = "send"
    /\ \E j \in rest[i] :
          /\ rest' = [rest EXCEPT ![i] = @ \ {j}]
          /\ \/ state[j] = "up" /\ mail' = mail \cup {j} /\ UNCHANGED <<stale, errors>>
             \/ state[j] = "gone" /\ UNCHANGED <<mail, stale, errors>>
             \/ Fault /\ stale' = stale \cup {j} /\ UNCHANGED mail
    /\ UNCHANGED <<sharedVars, mutexVars, state, halted, pc, job, thread, name,
                   got, seen, scriptVars, careless, stuck, sets>>

(* The rest of the call: a restart goes on with a new Lua state and its    *)
(* _initCb, the destructor takes the instance out of the list.             *)
Ends(i) ==
    /\ state' = [state EXCEPT ![i] = IF job[i] = "exit" THEN "gone" ELSE @]
    /\ got' = [got EXCEPT ![i] = FALSE]
    /\ IF job[i] = "restart"
       THEN /\ pc' = [pc EXCEPT ![i] = "lock"]
            /\ job' = [job EXCEPT ![i] = "init"]
            /\ proxy' = [proxy EXCEPT ![i] = NoAliases]
            /\ cache' = [cache EXCEPT ![i] = NoAliases]
            /\ sameTable' = [sameTable EXCEPT ![i] = FALSE]
            /\ seen' = [seen EXCEPT ![i] = NoAliases]
            /\ UNCHANGED <<thread, name>>
       ELSE Return(i) /\ UNCHANGED scriptVars
    /\ UNCHANGED <<sharedVars, mutexVars>>

SendEnds(i) ==
    /\ pc[i] = "send" /\ rest[i] = {}
    /\ Ends(i)
    /\ UNCHANGED <<halted, rest, mail, histories, sets, errors>>

(* An error, or the execution trap, anywhere in the callback: the text     *)
(* could not be read (globalMutex, 50 ms) or is not Lua, getInstances gave *)
(* no table, savePersistentProgramData failed before.  The mutex stays     *)
(* with the thread.  fatal_error halts; a restart ends that.               *)
Unsent(i) ==
    IF pc[i] = "send" THEN rest[i]
    ELSE IF Setting(i) /\ pc[i] \in {"unlock", "list"} THEN Up ELSE {}

Fail(i) ==
    /\ ~Free(i) /\ Fault
    /\ Ends(i)
    /\ halted' = [halted EXCEPT ![i] = job[i] \in {"set", "update"} \/ (@ /\ job[i] # "init")]
    /\ rest' = [rest EXCEPT ![i] = {}]
    /\ stale' = stale \cup Unsent(i) \cup {i}
    /\ stuck' = (stuck \/ (got[i] /\ pc[i] \in {"read", "copy", "write", "unlock"}))
    /\ UNCHANGED <<mail, careless, sets>>

\* the buttons, suspend and resume
Halt(i) ==
    /\ state[i] = "up" /\ Free(i)
    /\ halted' = [halted EXCEPT ![i] = ~@]
    /\ UNCHANGED <<sharedVars, mutexVars, state, callVars, scriptVars, mail,
                   histories, sets, errors>>

-----------------------------------------------------------------------------
Starts(i, th) ==
    \/ \E n \in Names \cup {NoName} : setSharedMemAlias(i, th, n)
    \/ Construct(i, th) \/ reInit(i, th) \/ Destruct(i, th) \/ messageCallback(i, th)

Runs(i) ==
    \/ Lock(i) \/ ReadBegins(i) \/ Copy(i) \/ Write(i) \/ Unlock(i)
    \/ List(i) \/ Send(i) \/ SendEnds(i)

Next == \E i \in Instances :
    \/ \E th \in Threads : Starts(i, th)
    \/ Runs(i) \/ MessageIgnored(i) \/ Fail(i) \/ Halt(i)

Spec == Init /\ [][Next]_vars

-----------------------------------------------------------------------------
Places == {"idle", "lock", "read", "copy", "write", "unlock", "list", "send"}
TypeOK ==
    /\ text \in Table /\ written \in BOOLEAN
    /\ owner \in Threads \cup {NoThread} /\ depth \in Nat
    /\ state \in [Instances -> {"new", "up", "gone"}]
    /\ halted \in [Instances -> BOOLEAN] /\ got \in [Instances -> BOOLEAN]
    /\ pc \in [Instances -> Places]
    /\ job \in [Instances -> {"none", "set", "init", "restart", "exit", "update"}]
    /\ thread \in [Instances -> Threads \cup {NoThread}]
    /\ name \in Table
    /\ seen \in [Instances -> Table] /\ proxy \in [Instances -> Table]
    /\ cache \in [Instances -> Table] /\ sameTable \in [Instances -> BOOLEAN]
    /\ rest \in [Instances -> SUBSET Instances]
    /\ mail \subseteq Instances /\ stale \subseteq Instances
    /\ careless \in BOOLEAN /\ stuck \in BOOLEAN
    /\ sets \in 0..MaxSets /\ errors \in 0..MaxErrors

(* The text implements AliasMap, in which no update is lost: it only       *)
(* changes when an instance writes, and then in the entry of that instance,*)
(* however long it took from reading to writing; unless somebody has       *)
(* written without the mutex or could not write.                           *)
Map == INSTANCE AliasMap WITH aliases <- text
AtomicUpdates == Map!Init /\
    [][careless' \/ \E i \in Instances : pc[i] = "write" /\ Map!Set(i, name[i])]_text

(* docs/VstLuaApi.html:1879: the copies of the table are kept up to date.  *)
(* When all messages are handled each instance has the table, even when    *)
(* the mutex was not got and texts were torn, since a message follows      *)
(* every write; unless a message of the last write got lost, came to a     *)
(* halted instance, or met an error.  (Before the first write an instance  *)
(* may see its own alias that it failed to write.)                         *)
Announcing == \E j \in Instances : Setting(j) /\ pc[j] \in {"unlock", "list", "send"}
CachesCurrent == \A i \in Up :
    written /\ Free(i) /\ ~Announcing /\ i \notin mail \cup stale => cache[i] = text

-----------------------------------------------------------------------------
(* The inductive invariant.                                                *)
Locked(i) == pc[i] \in {"read", "copy", "write", "unlock"}

\* a thread runs one callback, of an instance that is there
CallInv ==
    /\ \A i \in Instances : ~Free(i) => thread[i] \in Threads /\ state[i] = "up"
    /\ \A i, j \in Instances :
          ~Free(i) /\ ~Free(j) /\ thread[i] = thread[j] => i = j
    /\ \A i \in Instances :
          /\ Free(i) => job[i] = "none"
          /\ pc[i] \in {"write", "list", "send"} => Setting(i)
          /\ \A j \in rest[i] : state[j] # "new"

(* The mutex is free when nobody is between lock and unlock, unless an     *)
(* error has left it behind; then only the thread that has it can ever get *)
(* it again.  Each error leaves it once at most.                           *)
MutexInv ==
    /\ \A i \in Instances : got[i] => Locked(i) /\ owner = thread[i]
    /\ \A i \in Instances : Locked(i) /\ ~got[i] => owner # thread[i]
    /\ stuck \/ owner = NoThread \/ (depth = 1 /\ \E i \in Instances : got[i])
    /\ depth = 0 <=> owner = NoThread
    /\ depth <= errors + IF \E i \in Instances : got[i] THEN 1 ELSE 0

(* Who has the mutex works on the text that is there, as long as nobody    *)
(* wrote without it.  Before the first write every table holds at most the *)
(* alias of the instance itself.                                           *)
TextInv ==
    /\ ~written => text = NoAliases /\ \A i \in Instances : \A j \in Instances \ {i} :
                      proxy[i][j] = NoName /\ seen[i][j] = NoName
    /\ careless \/ \A i \in Instances : got[i] =>
          /\ pc[i] = "copy" /\ written => \A j \in Instances \ {i} : seen[i][j] = text[j]
          /\ pc[i] = "write" => proxy[i] = [text EXCEPT ![i] = name[i]]

\* a message about the last write is under way to i, or got lost
Announced(i) ==
    \/ i \in mail \cup stale
    \/ \E j \in Instances : Setting(j) /\ \/ pc[j] \in {"unlock", "list"}
                                          \/ pc[j] = "send" /\ i \in rest[j]

\* what i has read, or is about to read or to write and announce
Current(i) ==
    /\ Free(i) => cache[i] = text
    /\ pc[i] = "copy" /\ ~Setting(i) => seen[i] = text
    /\ pc[i] = "unlock" /\ ~Setting(i) => proxy[i] = text
    /\ pc[i] # "send"

FreshInv == written => \A i \in Up : Announced(i) \/ Current(i)

IInv == TypeOK /\ CallInv /\ MutexInv /\ TextInv /\ FreshInv
=============================================================================
