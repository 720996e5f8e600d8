---------------------------- MODULE LuaLock_proofs ----------------------------
(***************************************************************************)
(* Proofs about LuaLock for any finite set of threads and any bounds.      *)
(***************************************************************************)
EXTENDS LuaLock, FiniteSetTheorems, TLAPS

(* A step of thread t leaves the places of the other threads alone.        *)
LEMMA TypeStep == TypeOK /\ NestRoom /\ [Next]_vars => TypeOK' /\ NestRoom'
<1> USE BoundsAssumption, ThreadsAssumption
<1> SUFFICES ASSUME TypeOK, NestRoom, [Next]_vars
             PROVE  TypeOK' /\ NestRoom'
  OBVIOUS
<1> USE DEF TypeOK, NestRoom, Places, Running, Goto, Opened, Closed, MayCall
<1>1. ASSUME NEW t \in Threads, CallFast(t) \/ CallSlow(t)
      PROVE  TypeOK' /\ NestRoom'
  BY <1>1 DEF CallFast, CallSlow
<1>2. ASSUME NEW t \in Threads, LockStep(t) \/ TimeOut(t)
      PROVE  TypeOK' /\ NestRoom'
  <2>1. CASE IncRec(t)
    BY <2>1 DEF IncRec
  <2>2. CASE IncCount(t)
    BY <2>2 DEF IncCount
  <2>3. CASE ResetRec(t)
    BY <2>3 DEF ResetRec
  <2>4. CASE Wake(t)
    BY <2>4 DEF Wake
  <2>5. CASE TimeOut(t)
    BY <2>5 DEF TimeOut
  <2>6. CASE SetOwner(t)
    BY <2>6 DEF SetOwner
  <2> QED
    BY <1>2, <2>1, <2>2, <2>3, <2>4, <2>5, <2>6 DEF LockStep
<1>3. ASSUME NEW t \in Threads, UnlockCall(t)
      PROVE  TypeOK' /\ NestRoom'
  BY <1>3 DEF UnlockCall, UnlockOther, UnlockOwn
<1>4. ASSUME NEW t \in Threads, UnlockStep(t)
      PROVE  TypeOK' /\ NestRoom'
  <2>1. CASE TestRec(t)
    BY <2>1 DEF TestRec
  <2>2. CASE Release(t)
    BY <2>2 DEF Release
  <2>3. CASE Signal(t)
    BY <2>3 DEF Signal
  <2>4. CASE DecRec(t)
    BY <2>4 DEF DecRec
  <2> QED
    BY <1>4, <2>1, <2>2, <2>3, <2>4 DEF UnlockStep
<1>5. CASE UNCHANGED vars
  BY <1>5 DEF vars
<1> QED
  BY <1>1, <1>2, <1>3, <1>4, <1>5 DEF Next

(* The initial state is well typed.                                        *)
LEMMA InitTyped == Init => TypeOK /\ NestRoom
<1> SUFFICES ASSUME Init PROVE TypeOK /\ NestRoom
  OBVIOUS
<1>1. TypeOK
  <2>1. nest \in [Threads -> 0..MaxNest]
    BY BoundsAssumption DEF Init
  <2>2. pc \in [Threads -> Places]
    BY DEF Init, Places
  <2>3. count \in Int /\ recursivecount \in Int
    BY DEF Init
  <2>4. threadID \in Threads \cup {NoThread}
    BY DEF Init
  <2>5. signalled \in BOOLEAN /\ staleEntry \in BOOLEAN
    BY DEF Init
  <2> QED
    BY <2>1, <2>2, <2>3, <2>4, <2>5 DEF TypeOK
<1>2. NestRoom
  BY DEF Init, NestRoom, Running
<1> QED
  BY <1>1, <1>2

(* The threads count stands for are finitely many.                         *)
LEMMA CountedFinite == IsFiniteSet(Counted) /\ Cardinality(Counted) \in Nat
<1>1. Counted \subseteq Threads
  BY DEF Counted
<1> QED
  BY <1>1, ThreadsAssumption, FS_Subset, FS_CardinalityType

(* A step that moves no thread into or out of Counted and leaves count.    *)
LEMMA CountKept ==
  ASSUME CountInv, Counted' = Counted, UNCHANGED count
  PROVE  CountInv'
BY DEF CountInv

(* A recursive call: the caller already holds. *)
LEMMA CallFastKeepsLockInv ==
  ASSUME TypeOK, NestRoom, LockInv, ~staleEntry', NEW t \in Threads, CallFast(t)
  PROVE  LockInv'
<1>0. nest[t] > 0
  <2>1. nest[t] # 0
    BY DEF CallFast
  <2> QED
    BY <2>1 DEF TypeOK
<1>1. Counted' = Counted
  BY <1>0 DEF LockInv, OwnerInv, Counted, Holds, TypeOK, CallFast, Goto, Running
<1>2. CountInv'
  BY <1>1, CountKept DEF LockInv, CallFast
<1>3. TokenInv'
  BY <1>0, <1>1 DEF LockInv, TokenInv, OwnerInv, Tok, Holds, Signallers, TypeOK, CallFast, Goto, Running
<1>4. OwnerInv'
  BY DEF LockInv, OwnerInv, TokenInv, Tok, Holds, TypeOK, CallFast, Goto, Running
<1>5. RecInv'
  BY <1>0 DEF LockInv, RecInv, OwnerInv, TokenInv, Tok, Holds, TypeOK, CallFast, Goto, Running
<1> QED
  BY <1>2, <1>3, <1>4, <1>5 DEF LockInv

(* A first call: threadID names another thread, so the caller holds nothing. *)
LEMMA CallSlowKeepsLockInv ==
  ASSUME TypeOK, NestRoom, LockInv, ~staleEntry', NEW t \in Threads, CallSlow(t)
  PROVE  LockInv'
<1>1. Counted' = Counted
  BY DEF LockInv, OwnerInv, Counted, Holds, TypeOK, CallSlow, Goto, Running, MayCall
<1>2. CountInv'
  BY <1>1, CountKept DEF LockInv, CallSlow
<1>3. TokenInv'
  BY <1>1 DEF LockInv, TokenInv, OwnerInv, Tok, Holds, Signallers, TypeOK, CallSlow, Goto, Running, MayCall
<1>4. OwnerInv'
  BY DEF LockInv, OwnerInv, TokenInv, Tok, Holds, TypeOK, CallSlow, Goto, Running, MayCall
<1>5. RecInv'
  BY DEF LockInv, RecInv, OwnerInv, TokenInv, Tok, Holds, TypeOK, CallSlow, Goto, Running, MayCall
<1> QED
  BY <1>2, <1>3, <1>4, <1>5 DEF LockInv

(* The recursive call returns. *)
LEMMA IncRecKeepsLockInv ==
  ASSUME TypeOK, NestRoom, LockInv, ~staleEntry', NEW t \in Threads, IncRec(t)
  PROVE  LockInv'
<1>1. Counted' = Counted
  BY DEF LockInv, OwnerInv, Counted, Holds, TypeOK, IncRec, Goto, Running, Opened
<1>2. CountInv'
  BY <1>1, CountKept DEF LockInv, IncRec
<1>3. TokenInv'
  BY <1>1 DEF LockInv, TokenInv, OwnerInv, Tok, Holds, Signallers, TypeOK, IncRec, Goto, Running, Opened
<1>4. OwnerInv'
  BY DEF LockInv, OwnerInv, TokenInv, Tok, Holds, TypeOK, IncRec, Goto, Running, Opened
<1>5. RecInv'
  BY DEF LockInv, RecInv, OwnerInv, TokenInv, Tok, Holds, TypeOK, IncRec, Goto, Running, Opened
<1> QED
  BY <1>2, <1>3, <1>4, <1>5 DEF LockInv

(* The caller is counted; it is the holder exactly if nobody was counted. *)
LEMMA IncCountKeepsLockInv ==
  ASSUME TypeOK, NestRoom, LockInv, ~staleEntry', NEW t \in Threads, IncCount(t)
  PROVE  LockInv'
<1>1. t \notin Counted /\ Counted' = Counted \cup {t}
  BY DEF Counted, Holds, TypeOK, IncCount, Goto, Running
<1>2. CountInv'
  BY <1>1, CountedFinite, FS_AddElement DEF LockInv, CountInv, IncCount
<1>3. count' = 1 <=> Counted = {}
  BY CountedFinite, FS_EmptySet DEF LockInv, CountInv, IncCount
<1>4. CASE Counted = {}
  <2>1. pc' = [pc EXCEPT ![t] = "reset"]
    BY <1>3, <1>4 DEF IncCount, Goto
  <2>2. ~signalled /\ \A u \in Threads : ~Tok(u)
    BY <1>4 DEF LockInv, TokenInv, Counted, Tok, Signallers
  <2>3. TokenInv'
    BY <1>1, <2>1, <2>2
       DEF TokenInv, Tok, Holds, Signallers, TypeOK, IncCount, Running
  <2>4. OwnerInv'
    BY <2>1 DEF LockInv, OwnerInv, Holds, TypeOK, IncCount, Goto, Running
  <2>5. RecInv'
    BY <2>1 DEF LockInv, RecInv, TypeOK, IncCount, Running
  <2> QED
    BY <1>2, <2>3, <2>4, <2>5 DEF LockInv
<1>5. CASE Counted # {}
  <2>1. pc' = [pc EXCEPT ![t] = "wait"] /\ pc[t] = "acq"
    BY <1>3, <1>5 DEF IncCount, Goto
  <2>2. \A u \in Threads : Tok(u)' <=> Tok(u)
    BY <2>1 DEF Tok, Holds, TypeOK, IncCount, Running
  <2>3. TokenInv'
    BY <1>1, <1>5, <2>1, <2>2
       DEF LockInv, TokenInv, Signallers, TypeOK, IncCount
  <2>4. OwnerInv'
    BY <2>1 DEF LockInv, OwnerInv, Holds, TypeOK, IncCount, Running
  <2>5. RecInv'
    BY <2>1 DEF LockInv, RecInv, TypeOK, IncCount, Running
  <2> QED
    BY <1>2, <2>3, <2>4, <2>5 DEF LockInv
<1> QED
  BY <1>4, <1>5

(* The uncontended holder clears the recursion count. *)
LEMMA ResetRecKeepsLockInv ==
  ASSUME TypeOK, NestRoom, LockInv, ~staleEntry', NEW t \in Threads, ResetRec(t)
  PROVE  LockInv'
<1>1. Counted' = Counted
  BY DEF LockInv, OwnerInv, Counted, Holds, TypeOK, ResetRec, Goto, Running
<1>2. CountInv'
  BY <1>1, CountKept DEF LockInv, ResetRec
<1>3. TokenInv'
  BY <1>1 DEF LockInv, TokenInv, OwnerInv, Tok, Holds, Signallers, TypeOK, ResetRec, Goto, Running
<1>4. OwnerInv'
  BY DEF LockInv, OwnerInv, TokenInv, Tok, Holds, TypeOK, ResetRec, Goto, Running
<1>5. RecInv'
  BY DEF LockInv, RecInv, OwnerInv, TokenInv, Tok, Holds, TypeOK, ResetRec, Goto, Running
<1> QED
  BY <1>2, <1>3, <1>4, <1>5 DEF LockInv

(* The right to hold moves from the event to the waiter. *)
LEMMA WakeKeepsLockInv ==
  ASSUME TypeOK, NestRoom, LockInv, ~staleEntry', NEW t \in Threads, Wake(t)
  PROVE  LockInv'
<1>1. Counted' = Counted
  BY DEF LockInv, OwnerInv, Counted, Holds, TypeOK, Wake, Goto, Running
<1>2. CountInv'
  BY <1>1, CountKept DEF LockInv, Wake
<1>3. TokenInv'
  BY <1>1 DEF LockInv, TokenInv, OwnerInv, Tok, Holds, Signallers, TypeOK, Wake, Goto, Running
<1>4. OwnerInv'
  BY DEF LockInv, OwnerInv, TokenInv, Tok, Holds, TypeOK, Wake, Goto, Running
<1>5. RecInv'
  BY DEF LockInv, RecInv, OwnerInv, TokenInv, Tok, Holds, TypeOK, Wake, Goto, Running
<1> QED
  BY <1>2, <1>3, <1>4, <1>5 DEF LockInv

(* A waiter gives up and stays counted. *)
LEMMA TimeOutKeepsLockInv ==
  ASSUME TypeOK, NestRoom, LockInv, ~staleEntry', NEW t \in Threads, TimeOut(t)
  PROVE  LockInv'
<1>1. Counted' = Counted
  BY DEF LockInv, OwnerInv, Counted, Holds, TypeOK, TimeOut, Goto, Running
<1>2. CountInv'
  BY <1>1, CountKept DEF LockInv, TimeOut
<1>3. TokenInv'
  BY <1>1 DEF LockInv, TokenInv, OwnerInv, Tok, Holds, Signallers, TypeOK, TimeOut, Goto, Running
<1>4. OwnerInv'
  BY DEF LockInv, OwnerInv, TokenInv, Tok, Holds, TypeOK, TimeOut, Goto, Running
<1>5. RecInv'
  BY DEF LockInv, RecInv, OwnerInv, TokenInv, Tok, Holds, TypeOK, TimeOut, Goto, Running
<1> QED
  BY <1>2, <1>3, <1>4, <1>5 DEF LockInv

(* The new holder becomes threadID. *)
LEMMA SetOwnerKeepsLockInv ==
  ASSUME TypeOK, NestRoom, LockInv, ~staleEntry', NEW t \in Threads, SetOwner(t)
  PROVE  LockInv'
<1>1. Counted' = Counted
  BY DEF LockInv, OwnerInv, Counted, Holds, TypeOK, SetOwner, Goto, Running, Opened
<1>2. CountInv'
  BY <1>1, CountKept DEF LockInv, SetOwner
<1>3. TokenInv'
  BY <1>1 DEF LockInv, TokenInv, OwnerInv, Tok, Holds, Signallers, TypeOK, SetOwner, Goto, Running, Opened
<1>4. OwnerInv'
  BY DEF LockInv, OwnerInv, TokenInv, Tok, Holds, TypeOK, SetOwner, Goto, Running, Opened
<1>5. RecInv'
  BY DEF LockInv, RecInv, OwnerInv, TokenInv, Tok, Holds, TypeOK, SetOwner, Goto, Running, Opened
<1> QED
  BY <1>2, <1>3, <1>4, <1>5 DEF LockInv

(* Not possible for a thread that holds. *)
LEMMA UnlockOtherKeepsLockInv ==
  ASSUME TypeOK, NestRoom, LockInv, ~staleEntry', NEW t \in Threads, UnlockOther(t)
  PROVE  LockInv'
<1>1. Counted' = Counted
  BY DEF LockInv, OwnerInv, Counted, Holds, TypeOK, UnlockOther, Goto, Running, Closed
<1>2. CountInv'
  BY <1>1, CountKept DEF LockInv, UnlockOther
<1>3. TokenInv'
  BY <1>1 DEF LockInv, TokenInv, OwnerInv, Tok, Holds, Signallers, TypeOK, UnlockOther, Goto, Running, Closed
<1>4. OwnerInv'
  BY DEF LockInv, OwnerInv, TokenInv, Tok, Holds, TypeOK, UnlockOther, Goto, Running, Closed
<1>5. RecInv'
  BY DEF LockInv, RecInv, OwnerInv, TokenInv, Tok, Holds, TypeOK, UnlockOther, Goto, Running, Closed
<1> QED
  BY <1>2, <1>3, <1>4, <1>5 DEF LockInv

(* The owner begins to give one hold back. *)
LEMMA UnlockOwnKeepsLockInv ==
  ASSUME TypeOK, NestRoom, LockInv, ~staleEntry', NEW t \in Threads, UnlockOwn(t)
  PROVE  LockInv'
<1>1. Counted' = Counted
  BY DEF LockInv, OwnerInv, Counted, Holds, TypeOK, UnlockOwn, Goto, Running, Closed
<1>2. CountInv'
  BY <1>1, CountKept DEF LockInv, UnlockOwn
<1>3. TokenInv'
  BY <1>1 DEF LockInv, TokenInv, OwnerInv, Tok, Holds, Signallers, TypeOK, UnlockOwn, Goto, Running, Closed
<1>4. OwnerInv'
  BY DEF LockInv, OwnerInv, TokenInv, Tok, Holds, TypeOK, UnlockOwn, Goto, Running, Closed
<1>5. RecInv'
  BY DEF LockInv, RecInv, OwnerInv, TokenInv, Tok, Holds, TypeOK, UnlockOwn, Goto, Running, Closed
<1> QED
  BY <1>2, <1>3, <1>4, <1>5 DEF LockInv

(* The owner compares the recursion count with 0. *)
LEMMA TestRecKeepsLockInv ==
  ASSUME TypeOK, NestRoom, LockInv, ~staleEntry', NEW t \in Threads, TestRec(t)
  PROVE  LockInv'
<1>1. Counted' = Counted
  BY DEF LockInv, OwnerInv, Counted, Holds, TypeOK, TestRec, Goto, Running
<1>2. CountInv'
  BY <1>1, CountKept DEF LockInv, TestRec
<1>3. TokenInv'
  BY <1>1 DEF LockInv, TokenInv, OwnerInv, Tok, Holds, Signallers, TypeOK, TestRec, Goto, Running
<1>4. OwnerInv'
  BY DEF LockInv, OwnerInv, RecInv, Tok, Holds, TypeOK, TestRec, Goto, Running
<1>5. RecInv'
  BY DEF LockInv, RecInv, OwnerInv, TokenInv, Tok, Holds, TypeOK, TestRec, Goto, Running
<1> QED
  BY <1>2, <1>3, <1>4, <1>5 DEF LockInv

(* The holder leaves Counted and owes a signal if others are counted. *)
LEMMA ReleaseKeepsLockInv ==
  ASSUME TypeOK, NestRoom, LockInv, ~staleEntry', NEW t \in Threads, Release(t)
  PROVE  LockInv'
<1>1. t \in Counted /\ Counted' = Counted \ {t}
  BY DEF LockInv, OwnerInv, Counted, Holds, TypeOK, Release, Goto, Running
<1>2. CountInv'
  BY <1>1, CountedFinite, FS_RemoveElement DEF LockInv, CountInv, Release
<1>3. count' > 0 <=> Counted' # {}
  <2>1. IsFiniteSet(Counted')
    BY <1>1, CountedFinite, FS_RemoveElement
  <2> QED
    BY <1>2, <2>1, FS_EmptySet, FS_CardinalityType DEF CountInv
<1>4. nest[t] = 0 /\ recursivecount = 0 /\ Tok(t)
  BY DEF LockInv, OwnerInv, RecInv, Tok, Holds, Release, Goto
<1>5. ~signalled /\ \A u \in Threads \ {t} : ~Tok(u)
  BY <1>4 DEF LockInv, TokenInv
<1>6. TokenInv'
  <2>1. \A u \in Threads \ {t} : ~Tok(u)'
    BY <1>5 DEF Tok, Holds, TypeOK, Release, Goto, Running
  <2>2. ~signalled'
    BY <1>5 DEF Release
  <2>3. Tok(t)' <=> pc'[t] = "signal"
    BY <1>4 DEF Tok, Holds, TypeOK, Release, Goto, Running
  <2>4. pc'[t] = "signal" <=> Counted' # {}
    BY <1>3 DEF TypeOK, Release, Goto, Running
  <2>5. Signallers' # {} => pc'[t] = "signal"
    BY <2>1 DEF Signallers, Tok
  <2> QED
    BY <2>1, <2>2, <2>3, <2>4, <2>5 DEF TokenInv
<1>7. OwnerInv'
  BY <1>4 DEF LockInv, OwnerInv, Holds, TypeOK, Release, Goto, Running
<1>8. RecInv'
  BY <1>4, <1>5 DEF LockInv, RecInv, TypeOK, Release, Goto, Running
<1> QED
  BY <1>2, <1>6, <1>7, <1>8 DEF LockInv

(* The right to hold moves to the event. *)
LEMMA SignalKeepsLockInv ==
  ASSUME TypeOK, NestRoom, LockInv, ~staleEntry', NEW t \in Threads, Signal(t)
  PROVE  LockInv'
<1>1. Counted' = Counted
  BY DEF LockInv, OwnerInv, Counted, Holds, TypeOK, Signal, Goto, Running
<1>2. CountInv'
  BY <1>1, CountKept DEF LockInv, Signal
<1>3. TokenInv'
  BY <1>1 DEF LockInv, TokenInv, OwnerInv, Tok, Holds, Signallers, TypeOK, Signal, Goto, Running
<1>4. OwnerInv'
  BY DEF LockInv, OwnerInv, TokenInv, Tok, Holds, TypeOK, Signal, Goto, Running
<1>5. RecInv'
  BY DEF LockInv, RecInv, OwnerInv, TokenInv, Tok, Holds, TypeOK, Signal, Goto, Running
<1> QED
  BY <1>2, <1>3, <1>4, <1>5 DEF LockInv

(* An inner hold is given back. *)
LEMMA DecRecKeepsLockInv ==
  ASSUME TypeOK, NestRoom, LockInv, ~staleEntry', NEW t \in Threads, DecRec(t)
  PROVE  LockInv'
<1>0. nest[t] > 0
  BY DEF LockInv, RecInv, DecRec, Goto
<1>1. Counted' = Counted
  BY <1>0 DEF LockInv, OwnerInv, Counted, Holds, TypeOK, DecRec, Goto, Running
<1>2. CountInv'
  BY <1>1, CountKept DEF LockInv, DecRec
<1>3. TokenInv'
  BY <1>0, <1>1 DEF LockInv, TokenInv, OwnerInv, Tok, Holds, Signallers, TypeOK, DecRec, Goto, Running
<1>4. OwnerInv'
  BY DEF LockInv, OwnerInv, TokenInv, Tok, Holds, TypeOK, DecRec, Goto, Running
<1>5. RecInv'
  BY DEF LockInv, RecInv, OwnerInv, TokenInv, Tok, Holds, TypeOK, DecRec, Goto, Running
<1> QED
  BY <1>2, <1>3, <1>4, <1>5 DEF LockInv

(* Every step keeps the inductive invariant.                               *)
LEMMA IInvStep == IInv /\ [Next]_vars => IInv'
<1> SUFFICES ASSUME IInv, [Next]_vars, ~staleEntry'
             PROVE  LockInv'
  BY TypeStep DEF IInv
<1>1. TypeOK /\ NestRoom
  BY DEF IInv
<1>2. ~staleEntry
  BY DEF Next, LockStep, UnlockCall, UnlockStep, vars, CallFast, CallSlow,
         IncRec, IncCount, ResetRec, Wake, TimeOut, SetOwner, UnlockOther,
         UnlockOwn, TestRec, Release, Signal, DecRec
<1>3. LockInv
  BY <1>2 DEF IInv
<1>4. CASE UNCHANGED vars
  BY <1>3, <1>4 DEF vars, LockInv, TokenInv, CountInv, OwnerInv, RecInv,
                    Counted, Tok, Holds, Signallers
<1>5. ASSUME NEW t \in Threads,
             \/ CallFast(t) \/ CallSlow(t)
             \/ LockStep(t) \/ TimeOut(t)
             \/ UnlockCall(t) \/ UnlockStep(t)
      PROVE  LockInv'
  <2>1. CASE CallFast(t) \/ CallSlow(t)
    BY <1>1, <1>3, <2>1, CallFastKeepsLockInv, CallSlowKeepsLockInv
  <2>2. CASE LockStep(t) \/ TimeOut(t)
    BY <1>1, <1>3, <2>2, IncRecKeepsLockInv, IncCountKeepsLockInv,
       ResetRecKeepsLockInv, WakeKeepsLockInv, TimeOutKeepsLockInv,
       SetOwnerKeepsLockInv
       DEF LockStep
  <2>3. CASE UnlockCall(t)
    BY <1>1, <1>3, <2>3, UnlockOtherKeepsLockInv, UnlockOwnKeepsLockInv
       DEF UnlockCall
  <2>4. CASE UnlockStep(t)
    BY <1>1, <1>3, <2>4, TestRecKeepsLockInv, ReleaseKeepsLockInv,
       SignalKeepsLockInv, DecRecKeepsLockInv
       DEF UnlockStep
  <2> QED
    BY <1>5, <2>1, <2>2, <2>3, <2>4
<1> QED
  BY <1>4, <1>5 DEF Next

(* The strengthening holds initially: nobody is counted.                   *)
LEMMA IInvInit == Init => IInv
<1> SUFFICES ASSUME Init PROVE IInv
  OBVIOUS
<1>1. TypeOK /\ NestRoom
  BY InitTyped
<1>2. Counted = {} /\ \A t \in Threads : ~Tok(t)
  BY DEF Init, Counted, Tok, Holds, Running
<1>3. Signallers = {}
  BY <1>2 DEF Signallers, Tok
<1>4. TokenInv
  BY <1>2, <1>3 DEF Init, TokenInv
<1>5. CountInv
  BY <1>2, FS_EmptySet DEF Init, CountInv
<1>6. OwnerInv
  BY <1>2 DEF Init, OwnerInv, Tok
<1>7. RecInv
  BY DEF Init, RecInv, Running
<1> QED
  BY <1>1, <1>4, <1>5, <1>6, <1>7 DEF IInv, LockInv

(* Who has a hold open holds the right to hold.                            *)
LEMMA IInvGivesExclusion == IInv => BreachNeedsStaleEntry
BY DEF IInv, BreachNeedsStaleEntry, MutualExclusion, Inside, LockInv,
       TokenInv, OwnerInv, Tok, Holds, TypeOK, Places

-----------------------------------------------------------------------------
(* Every reachable state is well typed.                                    *)
THEOREM TypeCorrect == Spec => []TypeOK
BY InitTyped, TypeStep, PTL DEF Spec

(* The strengthening holds in every reachable state.                       *)
THEOREM Invariance == Spec => []IInv
BY IInvInit, IInvStep, PTL DEF Spec

(* Lock() lets two threads in only after a thread that held nothing took   *)
(* its fast path.                                                          *)
THEOREM BreachOnlyByStaleEntry == Spec => []BreachNeedsStaleEntry
BY IInvGivesExclusion, Invariance, PTL

(* No waiter of Lock() is forgotten, even after others have timed out.     *)
THEOREM WakeupNeverLost == Spec => []NoLostWakeup
<1>1. IInv => NoLostWakeup
  BY DEF IInv, NoLostWakeup, Waiters, Holders, Signallers, LockInv,
         TokenInv, Counted, Tok
<1> QED
  BY <1>1, Invariance, PTL

(* The event is never set while a thread holds the lock.                   *)
THEOREM OneGrantAtATime == Spec => []OneGrant
<1>1. IInv => OneGrant
  <2> SUFFICES ASSUME IInv, ~staleEntry, signalled \/ Signallers # {},
                      NEW h \in Threads, Holds(h)
               PROVE  FALSE
    BY DEF OneGrant, Holders
  <2>1. TokenInv /\ Tok(h)
    BY DEF IInv, LockInv, Tok
  <2>2. PICK s \in Threads : pc[s] = "signal"
    BY <2>1 DEF TokenInv, Signallers
  <2>3. s = h
    BY <2>1, <2>2 DEF TokenInv, Tok
  <2> QED
    BY <2>2, <2>3 DEF Holds, Running
<1> QED
  BY <1>1, Invariance, PTL

-----------------------------------------------------------------------------
(* A step without a stale entry maps to a step of the recursive mutex: the *)
(* return of Lock is Enter, the start of Unlock is Leave.                  *)
LEMMA MutexStep ==
  ASSUME IInv, IInv', ~staleEntry', [Next]_vars
  PROVE  [Mutex!Next]_nest
<1>1. TypeOK /\ TypeOK'
  BY DEF IInv
<1>2. ASSUME NEW t \in Threads, IncRec(t) \/ SetOwner(t)
      PROVE  Mutex!Enter(t)
  <2>1. nest' = [nest EXCEPT ![t] = @ + 1] /\ nest'[t] > 0 /\ pc'[t] = Running
    BY <1>1, <1>2 DEF IncRec, SetOwner, Opened, Goto, TypeOK
  <2>2. \A u \in Threads \ {t} : nest'[u] = 0
    <3> SUFFICES ASSUME NEW u \in Threads \ {t}, nest'[u] > 0
                 PROVE  FALSE
      BY <1>1 DEF TypeOK
    <3>1. BreachNeedsStaleEntry'
      BY IInvGivesExclusion, PTL
    <3>2. u = t
      BY <2>1, <3>1 DEF BreachNeedsStaleEntry, MutualExclusion, Inside
    <3> QED
      BY <3>2
  <2>3. \A u \in Threads \ {t} : nest[u] = 0
    BY <1>1, <2>1, <2>2 DEF TypeOK
  <2> QED
    BY <2>1, <2>3 DEF Mutex!Enter, Mutex!FreeFor
<1>3. ASSUME NEW t \in Threads, UnlockCall(t)
      PROVE  Mutex!Leave(t)
  BY <1>3 DEF UnlockCall, UnlockOther, UnlockOwn, Closed, Mutex!Leave
<1>4. ASSUME NEW t \in Threads,
             ~(IncRec(t) \/ SetOwner(t) \/ UnlockCall(t)),
             \/ CallFast(t) \/ CallSlow(t)
             \/ LockStep(t) \/ TimeOut(t)
             \/ UnlockCall(t) \/ UnlockStep(t)
      PROVE  UNCHANGED nest
  BY <1>4 DEF LockStep, UnlockStep, CallFast, CallSlow, IncCount, ResetRec,
              Wake, TimeOut, TestRec, Release, Signal, DecRec
<1>5. CASE UNCHANGED vars
  BY <1>5 DEF vars
<1> QED
  BY <1>2, <1>3, <1>4, <1>5 DEF Next, Mutex!Next

(* Until a thread enters on a stale id, the lock implements the recursive  *)
(* mutex.                                                                  *)
THEOREM Refinement == Spec => ImplementsMutex
<1>1. Init => Mutex!Init
  BY DEF Init, Mutex!Init
<1>2. IInv /\ [Next]_vars => [staleEntry' \/ Mutex!Next]_nest
  <2> SUFFICES ASSUME IInv, [Next]_vars, ~staleEntry'
               PROVE  [Mutex!Next]_nest
    OBVIOUS
  <2>1. IInv'
    BY IInvStep
  <2> QED
    BY <2>1, MutexStep
<1> QED
  BY <1>1, <1>2, Invariance, PTL DEF Spec, ImplementsMutex
=============================================================================
