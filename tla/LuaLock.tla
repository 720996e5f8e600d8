------------------------------- MODULE LuaLock -------------------------------
(***************************************************************************)
(* The lock class LuaLock (src/sysfuncs.cpp), of which every plugin owns   *)
(* two (exlock for the interpreter, hostLock for the host) and the console *)
(* one.  It is built from an interlocked counter, an auto-reset event, the *)
(* id of the last owner and a recursion count.  The fields are read and    *)
(* written by separate steps, so each access is an action of its own and   *)
(* the threads interleave between them.                                    *)
(***************************************************************************)
EXTENDS Integers, FiniteSets

CONSTANTS Threads,   \* threads that call Lock and Unlock
          NoThread,  \* the value 0 that threadID has before the first owner
          MaxNest,   \* bound: Lock calls one thread may have open
          MaxDrift   \* bound: a new Lock call needs the two counters in range

ASSUME ThreadsAssumption == IsFiniteSet(Threads) /\ NoThread \notin Threads
ASSUME BoundsAssumption  == MaxNest \in Nat /\ MaxDrift \in Nat

VARIABLES count,           \* holder plus waiters
          recursivecount,  \* extra Lock calls of the owner
          threadID,        \* last thread that left Lock by the slow path
          signalled,       \* state of the auto-reset event
          pc,              \* where each thread is inside Lock or Unlock
          nest,            \* Lock calls returned and not yet given back
          staleEntry       \* history: a thread that held nothing took the
                           \* fast path of Lock

vars == <<count, recursivecount, threadID, signalled, pc, nest, staleEntry>>

Running == "run"      \* outside Lock and Unlock
Places == {Running,
           "inc", "acq", "wait", "reset", "own", "raised",   \* in Lock
           "test", "release", "signal", "decrec"}            \* in Unlock

Init ==
    /\ count = 0
    /\ recursivecount = 0
    /\ threadID = NoThread
    /\ signalled = FALSE
    /\ pc = [t \in Threads |-> Running]
    /\ nest = [t \in Threads |-> 0]
    /\ staleEntry = FALSE

Goto(t, from, to) ==
    /\ pc[t] = from
    /\ pc' = [pc EXCEPT ![t] = to]

Opened(t) == nest' = [nest EXCEPT ![t] = @ + 1]
Closed(t) == nest' = [nest EXCEPT ![t] = @ - 1]

(* The bounds, on the start of a Lock call. *)
MayCall(t) ==
    /\ nest[t] < MaxNest
    /\ count \in -MaxDrift..Cardinality(Threads)
    /\ recursivecount \in -MaxDrift..MaxNest

-----------------------------------------------------------------------------
(* LuaLock::Lock *)

\* threadID == GetCurrentThreadId(): taken for a recursive call.
CallFast(t) ==
    /\ MayCall(t)
    /\ threadID = t
    /\ Goto(t, Running, "inc")
    /\ staleEntry' = (staleEntry \/ nest[t] = 0)
    /\ UNCHANGED <<count, recursivecount, threadID, signalled, nest>>

IncRec(t) ==
    /\ Goto(t, "inc", Running)
    /\ recursivecount' = recursivecount + 1
    /\ Opened(t)
    /\ UNCHANGED <<count, threadID, signalled, staleEntry>>

CallSlow(t) ==
    /\ MayCall(t)
    /\ threadID # t
    /\ Goto(t, Running, "acq")
    /\ UNCHANGED <<count, recursivecount, threadID, signalled, nest, staleEntry>>

\* mutant: two callers may find the lock free
IncCountTwo(t) ==
    /\ count' = count + 1
    /\ Goto(t, "acq", IF count' <= 2 THEN "reset" ELSE "wait")
    /\ UNCHANGED <<recursivecount, threadID, signalled, nest, staleEntry>>

IncCount(t) ==
    /\ count' = count + 1
    /\ Goto(t, "acq", IF count' = 1 THEN "reset" ELSE "wait")
    /\ UNCHANGED <<recursivecount, threadID, signalled, nest, staleEntry>>

ResetRec(t) ==
    /\ Goto(t, "reset", "own")
    /\ recursivecount' = 0
    /\ UNCHANGED <<count, threadID, signalled, nest, staleEntry>>

\* WaitForSingleObject returns WAIT_OBJECT_0 and resets the event.
Wake(t) ==
    /\ signalled
    /\ Goto(t, "wait", "own")
    /\ signalled' = FALSE
    /\ UNCHANGED <<count, recursivecount, threadID, nest, staleEntry>>

\* The wait lasts 1500 ms: RaiseException, which leaves count as it is.
TimeOut(t) ==
    /\ Goto(t, "wait", "raised")
    /\ UNCHANGED <<count, recursivecount, threadID, signalled, nest, staleEntry>>

\* mutant: the new holder does not store its id
SetOwnerNoId(t) ==
    /\ Goto(t, "own", Running)
    /\ Opened(t)
    /\ UNCHANGED <<count, recursivecount, threadID, signalled, staleEntry>>

SetOwner(t) ==
    /\ Goto(t, "own", Running)
    /\ threadID' = t
    /\ Opened(t)
    /\ UNCHANGED <<count, recursivecount, signalled, staleEntry>>

-----------------------------------------------------------------------------
(* LuaLock::Unlock, called once for each Lock call that returned *)

UnlockOther(t) ==
    /\ pc[t] = Running /\ nest[t] > 0
    /\ threadID # t
    /\ Closed(t)
    /\ UNCHANGED <<count, recursivecount, threadID, signalled, pc, staleEntry>>

UnlockOwn(t) ==
    /\ nest[t] > 0
    /\ threadID = t
    /\ Goto(t, Running, "test")
    /\ Closed(t)
    /\ UNCHANGED <<count, recursivecount, threadID, signalled, staleEntry>>

\* mutant: the lock is released while one hold is still open
TestRecEarly(t) ==
    /\ Goto(t, "test", IF recursivecount <= 1 THEN "release" ELSE "decrec")
    /\ UNCHANGED <<count, recursivecount, threadID, signalled, nest, staleEntry>>

TestRec(t) ==
    /\ Goto(t, "test", IF recursivecount = 0 THEN "release" ELSE "decrec")
    /\ UNCHANGED <<count, recursivecount, threadID, signalled, nest, staleEntry>>

\* mutants: the event is set although nobody waits; it is not set for a
\* single waiter
ReleaseAlwaysSignals(t) ==
    /\ count' = count - 1
    /\ Goto(t, "release", "signal")
    /\ UNCHANGED <<recursivecount, threadID, signalled, nest, staleEntry>>

ReleaseForgetsOne(t) ==
    /\ count' = count - 1
    /\ Goto(t, "release", IF count' > 1 THEN "signal" ELSE Running)
    /\ UNCHANGED <<recursivecount, threadID, signalled, nest, staleEntry>>

Release(t) ==
    /\ count' = count - 1
    /\ Goto(t, "release", IF count' > 0 THEN "signal" ELSE Running)
    /\ UNCHANGED <<recursivecount, threadID, signalled, nest, staleEntry>>

Signal(t) ==
    /\ Goto(t, "signal", Running)
    /\ signalled' = TRUE
    /\ UNCHANGED <<count, recursivecount, threadID, nest, staleEntry>>

DecRec(t) ==
    /\ Goto(t, "decrec", Running)
    /\ recursivecount' = recursivecount - 1
    /\ UNCHANGED <<count, threadID, signalled, nest, staleEntry>>

-----------------------------------------------------------------------------
LockStep(t) == IncRec(t) \/ IncCount(t) \/ ResetRec(t) \/ Wake(t) \/ SetOwner(t)
UnlockCall(t) == UnlockOther(t) \/ UnlockOwn(t)
UnlockStep(t) == TestRec(t) \/ Release(t) \/ Signal(t) \/ DecRec(t)

Next == \E t \in Threads :
    \/ CallFast(t) \/ CallSlow(t)
    \/ LockStep(t) \/ TimeOut(t)
    \/ UnlockCall(t) \/ UnlockStep(t)

Spec == Init /\ [][Next]_vars

(* A thread that is inside Lock or Unlock is scheduled again, and one that *)
(* holds the lock gives its outermost hold back: the callbacks it runs     *)
(* return (the execution trap stops a script that does not).  Nothing      *)
(* forces a thread to ask for the lock, nor the timeout to fire.           *)
OutermostUnlock(t) == nest[t] = 1 /\ UnlockCall(t)

Fairness == \A t \in Threads :
    /\ WF_vars(LockStep(t))
    /\ WF_vars(UnlockStep(t))
    /\ WF_vars(UnlockCall(t))
    /\ SF_vars(OutermostUnlock(t))

FairSpec == Spec /\ Fairness

-----------------------------------------------------------------------------
(* Who counts as holding: from the moment the lock is won in Lock to the   *)
(* decrement of count in Unlock.                                           *)
Holds(t) ==
    \/ pc[t] = Running /\ nest[t] > 0
    \/ pc[t] \in {"inc", "reset", "own", "test", "decrec", "release"}

Holders == {t \in Threads : Holds(t)}
Waiters == {t \in Threads : pc[t] = "wait"}
Signallers == {t \in Threads : pc[t] = "signal"}
Inside == {t \in Threads : nest[t] > 0}

(* Each field ranges over what the code can store in it. *)
TypeOK ==
    /\ count \in Int
    /\ recursivecount \in Int
    /\ threadID \in Threads \cup {NoThread}
    /\ signalled \in BOOLEAN
    /\ pc \in [Threads -> Places]
    /\ nest \in [Threads -> 0..MaxNest]
    /\ staleEntry \in BOOLEAN

(* Two threads are never both inside the region the lock guards.           *)
MutualExclusion == \A t, u \in Inside : t = u

(* The only way Lock() lets two threads in is the fast path taken by a     *)
(* thread that holds nothing: the owner id Unlock() leaves behind.  The    *)
(* counter, the event, the timeout and the recursion count are not to      *)
(* blame: as long as that has not happened the lock excludes.              *)
BreachNeedsStaleEntry == ~staleEntry => MutualExclusion

(* A thread waiting in Lock() is never forgotten: some thread holds the    *)
(* lock, or is about to set the event, or the event is set, even after     *)
(* other waiters have timed out and left count too high.                   *)
NoLostWakeup ==
    ~staleEntry /\ Waiters # {} => Holders # {} \/ Signallers # {} \/ signalled

(* One grant at a time: the event is not set, nor about to be, while a     *)
(* thread holds the lock (it would let a second thread in).                *)
OneGrant ==
    ~staleEntry /\ (signalled \/ Signallers # {}) => Holders = {}

(* Until a thread enters on a stale owner id, Lock and Unlock implement a  *)
(* recursive mutex.                                                        *)
Mutex == INSTANCE RecursiveMutex WITH depth <- nest
ImplementsMutex == Mutex!Init /\ [][staleEntry' \/ Mutex!Next]_nest

(* Until then a thread that waits is let in, unless all waiters have timed *)
(* out.                                                                    *)
WaitersAdmitted ==
    Waiters # {} ~> (Waiters = {} \/ staleEntry \/ \E t \in Threads : pc[t] = "own")

-----------------------------------------------------------------------------
(* The strengthening that makes the properties above inductive.            *)

\* The right to hold travels from the releasing thread over the event to a
\* waiter; Tok(t): it is with thread t.
Tok(t) == Holds(t) \/ pc[t] = "signal"

\* The threads count stands for; one that timed out is never taken off.
Counted == {t \in Threads : Holds(t) \/ pc[t] \in {"wait", "raised"}}

TokenInv ==
    /\ \A t, u \in Threads : Tok(t) /\ Tok(u) => t = u
    /\ signalled => \A t \in Threads : ~Tok(t)
    /\ signalled \/ Signallers # {} => Counted # {}
    /\ Counted # {} => signalled \/ \E t \in Threads : Tok(t)

CountInv == count = Cardinality(Counted)

OwnerInv ==
    /\ \A t \in Threads :
          Holds(t) /\ pc[t] \notin {"reset", "own"} => threadID = t
    /\ \A t \in Threads :
          pc[t] \in {"acq", "wait", "reset", "own", "raised", "release", "signal"}
              => nest[t] = 0

RecInv ==
    /\ \A t \in Threads :
          /\ pc[t] = Running /\ nest[t] > 0 => recursivecount = nest[t] - 1
          /\ pc[t] = "inc" => nest[t] > 0 /\ recursivecount = nest[t] - 1
          /\ pc[t] = "test" => recursivecount = nest[t]
          /\ pc[t] = "decrec" => nest[t] > 0 /\ recursivecount = nest[t]
          /\ pc[t] \in {"own", "release", "signal"} => recursivecount = 0
    /\ signalled => recursivecount = 0

\* A Lock call that is under way still has room for one more hold.
NestRoom == \A t \in Threads :
    pc[t] \in {"inc", "acq", "wait", "reset", "own"} => nest[t] < MaxNest

LockInv == TokenInv /\ CountInv /\ OwnerInv /\ RecInv

(* While no thread has entered on a stale owner id: the right to hold is   *)
(* in one place, count counts holder, waiters and timed-out threads, the   *)
(* holder is threadID, and recursivecount is its nesting.                  *)
IInv == TypeOK /\ NestRoom /\ (~staleEntry => LockInv)
=============================================================================
