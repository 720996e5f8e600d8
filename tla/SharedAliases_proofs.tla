------------------------ MODULE SharedAliases_proofs ------------------------
(***************************************************************************)
(* Proofs about SharedAliases for any instances, names and threads, and    *)
(* any number of calls and errors.                                         *)
(***************************************************************************)
EXTENDS SharedAliases, TLAPS

(* The types, in three parts.                                              *)
SharedTypes ==
    /\ text \in Table /\ written \in BOOLEAN
    /\ owner \in Threads \cup {NoThread} /\ depth \in Nat
    /\ mail \subseteq Instances /\ stale \subseteq Instances
    /\ careless \in BOOLEAN /\ stuck \in BOOLEAN
    /\ sets \in 0..MaxSets /\ errors \in 0..MaxErrors
CallTypes ==
    /\ state \in [Instances -> {"new", "up", "gone"}]
    /\ halted \in [Instances -> BOOLEAN] /\ got \in [Instances -> BOOLEAN]
    /\ pc \in [Instances -> Places]
    /\ job \in [Instances -> {"none", "set", "init", "restart", "exit", "update"}]
    /\ thread \in [Instances -> Threads \cup {NoThread}]
    /\ rest \in [Instances -> SUBSET Instances]
TableTypes ==
    /\ name \in Table
    /\ seen \in [Instances -> Table] /\ proxy \in [Instances -> Table]
    /\ cache \in [Instances -> Table] /\ sameTable \in [Instances -> BOOLEAN]

LEMMA TypesOfParts == TypeOK <=> SharedTypes /\ CallTypes /\ TableTypes
  BY DEF TypeOK, SharedTypes, CallTypes, TableTypes


LEMMA OneEntry ==
  ASSUME NEW s \in Table, NEW t \in Table, NEW i \in Instances, NEW n,
         \A j \in Instances \ {i} : s[j] = t[j]
  PROVE  [s EXCEPT ![i] = n] = [t EXCEPT ![i] = n]
  BY DEF Table

LEMMA NoAliasesTyped == NoAliases \in Table
  BY DEF Table, NoAliases

(* What Read gives is a table.                                             *)
LEMMA CopyTyped ==
  ASSUME TypeOK, NEW i \in Instances, Copy(i)
  PROVE  /\ proxy' \in [Instances -> Table] /\ cache' \in [Instances -> Table]
         /\ UNCHANGED <<sharedVars, mutexVars>>
<1>1. PICK t \in Table :
         LET new == IF Setting(i) THEN [t EXCEPT ![i] = name[i]] ELSE t
         IN  /\ proxy' = [proxy EXCEPT ![i] = new]
             /\ cache' = [cache EXCEPT ![i] = IF sameTable[i] /\ ~written THEN new ELSE @]
  BY DEF Copy, Read
<1> DEFINE new == IF Setting(i) THEN [t EXCEPT ![i] = name[i]] ELSE t
<1>2. new \in Table
  BY DEF TypeOK, Table
<1> HIDE DEF new
<1>3. proxy' = [proxy EXCEPT ![i] = new]
      /\ cache' = [cache EXCEPT ![i] = IF sameTable[i] /\ ~written THEN new ELSE @]
  BY <1>1 DEF new
<1> QED
  BY <1>2, <1>3 DEF TypeOK, Copy

(* They hold in every state.                                               *)
LEMMA StartTyped ==
  ASSUME SharedTypes, CallTypes, TableTypes, CallInv, MutexInv, NEW i \in Instances, NEW th \in Threads,
         Starts(i, th)
  PROVE  SharedTypes' /\ CallTypes' /\ TableTypes'
<1> USE NoAliasesTyped, NamesAssumption, BoundsAssumption DEF Goto, Fault, sharedVars, mutexVars, callVars, scriptVars, histories
<1>0. \A n \in Names \cup {NoName} : [name EXCEPT ![i] = n] \in Table
  BY DEF TableTypes, Table
<1>00. owner = thread[i] /\ ~Free(i) => depth \in Nat \ {0}
  BY ThreadsAssumption DEF SharedTypes, CallInv, MutexInv
<1> USE <1>0, <1>00
<1>1. CASE (\E n \in Names \cup {NoName} : setSharedMemAlias(i, th, n))
  <2>1. SharedTypes'
    BY <1>1 DEF setSharedMemAlias, Begin, Table, SharedTypes, CallTypes, TableTypes,
       CallInv, MutexInv, Free, Up, Unsent
  <2>2. CallTypes'
    BY <1>1 DEF setSharedMemAlias, Begin, Table, CallTypes, Places, Free, Up
  <2>3. name' \in Table
    BY <1>1 DEF setSharedMemAlias, Begin, Table, TableTypes
  <2>4. seen' \in [Instances -> Table]
    BY <1>1 DEF setSharedMemAlias, Begin, Table, SharedTypes, TableTypes
  <2>5. /\ proxy' \in [Instances -> Table] /\ cache' \in [Instances -> Table]
        /\ sameTable' \in [Instances -> BOOLEAN]
    BY <1>1 DEF setSharedMemAlias, Begin, Table, SharedTypes, TableTypes
  <2> QED
    BY <2>1, <2>2, <2>3, <2>4, <2>5 DEF TableTypes
<1>2. CASE Construct(i, th)
  <2>1. SharedTypes'
    BY <1>2 DEF Construct, Begin, SharedTypes, CallTypes, TableTypes,
       CallInv, MutexInv, Free, Up, Unsent
  <2>2. CallTypes'
    BY <1>2 DEF Construct, Begin, CallTypes, Places, Free, Up
  <2>3. name' \in Table
    BY <1>2 DEF Construct, Begin, TableTypes
  <2>4. seen' \in [Instances -> Table]
    BY <1>2 DEF Construct, Begin, SharedTypes, TableTypes
  <2>5. /\ proxy' \in [Instances -> Table] /\ cache' \in [Instances -> Table]
        /\ sameTable' \in [Instances -> BOOLEAN]
    BY <1>2 DEF Construct, Begin, SharedTypes, TableTypes
  <2> QED
    BY <2>1, <2>2, <2>3, <2>4, <2>5 DEF TableTypes
<1>3. CASE reInit(i, th)
  <2>1. SharedTypes'
    BY <1>3 DEF reInit, Begin, SharedTypes, CallTypes, TableTypes,
       CallInv, MutexInv, Free, Up, Unsent
  <2>2. CallTypes'
    BY <1>3 DEF reInit, Begin, CallTypes, Places, Free, Up
  <2>3. name' \in Table
    BY <1>3 DEF reInit, Begin, TableTypes
  <2>4. seen' \in [Instances -> Table]
    BY <1>3 DEF reInit, Begin, SharedTypes, TableTypes
  <2>5. /\ proxy' \in [Instances -> Table] /\ cache' \in [Instances -> Table]
        /\ sameTable' \in [Instances -> BOOLEAN]
    BY <1>3 DEF reInit, Begin, SharedTypes, TableTypes
  <2> QED
    BY <2>1, <2>2, <2>3, <2>4, <2>5 DEF TableTypes
<1>4. CASE Destruct(i, th)
  <2>1. SharedTypes'
    BY <1>4 DEF Destruct, Begin, SharedTypes, CallTypes, TableTypes,
       CallInv, MutexInv, Free, Up, Unsent
  <2>2. CallTypes'
    BY <1>4 DEF Destruct, Begin, CallTypes, Places, Free, Up
  <2>3. name' \in Table
    BY <1>4 DEF Destruct, Begin, TableTypes
  <2>4. seen' \in [Instances -> Table]
    BY <1>4 DEF Destruct, Begin, SharedTypes, TableTypes
  <2>5. /\ proxy' \in [Instances -> Table] /\ cache' \in [Instances -> Table]
        /\ sameTable' \in [Instances -> BOOLEAN]
    BY <1>4 DEF Destruct, Begin, SharedTypes, TableTypes
  <2> QED
    BY <2>1, <2>2, <2>3, <2>4, <2>5 DEF TableTypes
<1>5. CASE messageCallback(i, th)
  <2>1. SharedTypes'
    BY <1>5 DEF messageCallback, Begin, SharedTypes, CallTypes, TableTypes,
       CallInv, MutexInv, Free, Up, Unsent
  <2>2. CallTypes'
    BY <1>5 DEF messageCallback, Begin, CallTypes, Places, Free, Up
  <2>3. name' \in Table
    BY <1>5 DEF messageCallback, Begin, TableTypes
  <2>4. seen' \in [Instances -> Table]
    BY <1>5 DEF messageCallback, Begin, SharedTypes, TableTypes
  <2>5. /\ proxy' \in [Instances -> Table] /\ cache' \in [Instances -> Table]
        /\ sameTable' \in [Instances -> BOOLEAN]
    BY <1>5 DEF messageCallback, Begin, SharedTypes, TableTypes
  <2> QED
    BY <2>1, <2>2, <2>3, <2>4, <2>5 DEF TableTypes
<1> QED
  BY <1>1, <1>2, <1>3, <1>4, <1>5 DEF Starts

LEMMA RunTyped ==
  ASSUME SharedTypes, CallTypes, TableTypes, CallInv, MutexInv, NEW i \in Instances,
         Runs(i) \/ MessageIgnored(i) \/ Fail(i) \/ Halt(i)
  PROVE  SharedTypes' /\ CallTypes' /\ TableTypes'
<1> USE NoAliasesTyped, NamesAssumption, BoundsAssumption DEF Goto, Fault, sharedVars, mutexVars, callVars, scriptVars, histories
<1>0. \A n \in Names \cup {NoName} : [name EXCEPT ![i] = n] \in Table
  BY DEF TableTypes, Table
<1>00. owner = thread[i] /\ ~Free(i) => depth \in Nat \ {0}
  BY ThreadsAssumption DEF SharedTypes, CallInv, MutexInv
<1> USE <1>0, <1>00
<1>1. CASE Lock(i)
  <2>1. SharedTypes'
    BY <1>1 DEF Lock, SharedTypes, CallTypes, TableTypes,
       CallInv, MutexInv, Free, Up, Unsent
  <2>2. CallTypes'
    BY <1>1 DEF Lock, CallTypes, Places, Free, Up
  <2>3. name' \in Table
    BY <1>1 DEF Lock, TableTypes
  <2>4. seen' \in [Instances -> Table]
    BY <1>1 DEF Lock, SharedTypes, TableTypes
  <2>5. /\ proxy' \in [Instances -> Table] /\ cache' \in [Instances -> Table]
        /\ sameTable' \in [Instances -> BOOLEAN]
    BY <1>1 DEF Lock, SharedTypes, TableTypes
  <2> QED
    BY <2>1, <2>2, <2>3, <2>4, <2>5 DEF TableTypes
<1>2. CASE ReadBegins(i)
  <2>1. SharedTypes'
    BY <1>2 DEF ReadBegins, SharedTypes, CallTypes, TableTypes,
       CallInv, MutexInv, Free, Up, Unsent
  <2>2. CallTypes'
    BY <1>2 DEF ReadBegins, CallTypes, Places, Free, Up
  <2>3. name' \in Table
    BY <1>2 DEF ReadBegins, TableTypes
  <2>4. seen' \in [Instances -> Table]
    BY <1>2 DEF ReadBegins, SharedTypes, TableTypes
  <2>5. /\ proxy' \in [Instances -> Table] /\ cache' \in [Instances -> Table]
        /\ sameTable' \in [Instances -> BOOLEAN]
    BY <1>2 DEF ReadBegins, SharedTypes, TableTypes
  <2> QED
    BY <2>1, <2>2, <2>3, <2>4, <2>5 DEF TableTypes
<1>3. CASE Copy(i)
  <2>1. SharedTypes'
    BY <1>3, CopyTyped, TypesOfParts DEF Copy, SharedTypes, CallTypes, TableTypes,
       CallInv, MutexInv, Free, Up, Unsent
  <2>2. CallTypes'
    BY <1>3, CopyTyped, TypesOfParts DEF Copy, CallTypes, Places, Free, Up
  <2>3. name' \in Table
    BY <1>3, CopyTyped, TypesOfParts DEF Copy, TableTypes
  <2>4. seen' \in [Instances -> Table]
    BY <1>3, CopyTyped, TypesOfParts DEF Copy, SharedTypes, TableTypes
  <2>5. /\ proxy' \in [Instances -> Table] /\ cache' \in [Instances -> Table]
        /\ sameTable' \in [Instances -> BOOLEAN]
    BY <1>3, CopyTyped, TypesOfParts DEF Copy, SharedTypes, TableTypes
  <2> QED
    BY <2>1, <2>2, <2>3, <2>4, <2>5 DEF TableTypes
<1>4. CASE Write(i)
  <2>1. SharedTypes'
    BY <1>4 DEF Write, SharedTypes, CallTypes, TableTypes,
       CallInv, MutexInv, Free, Up, Unsent
  <2>2. CallTypes'
    BY <1>4 DEF Write, CallTypes, Places, Free, Up
  <2>3. name' \in Table
    BY <1>4 DEF Write, TableTypes
  <2>4. seen' \in [Instances -> Table]
    BY <1>4 DEF Write, SharedTypes, TableTypes
  <2>5. /\ proxy' \in [Instances -> Table] /\ cache' \in [Instances -> Table]
        /\ sameTable' \in [Instances -> BOOLEAN]
    BY <1>4 DEF Write, SharedTypes, TableTypes
  <2> QED
    BY <2>1, <2>2, <2>3, <2>4, <2>5 DEF TableTypes
<1>5. CASE Unlock(i)
  <2>1. SharedTypes'
    BY <1>5 DEF Unlock, Return, SharedTypes, CallTypes, TableTypes,
       CallInv, MutexInv, Free, Up, Unsent
  <2>2. CallTypes'
    BY <1>5 DEF Unlock, Return, CallTypes, Places, Free, Up
  <2>3. name' \in Table
    BY <1>5 DEF Unlock, Return, TableTypes
  <2>4. seen' \in [Instances -> Table]
    BY <1>5 DEF Unlock, Return, SharedTypes, TableTypes
  <2>5. /\ proxy' \in [Instances -> Table] /\ cache' \in [Instances -> Table]
        /\ sameTable' \in [Instances -> BOOLEAN]
    BY <1>5 DEF Unlock, Return, SharedTypes, TableTypes
  <2> QED
    BY <2>1, <2>2, <2>3, <2>4, <2>5 DEF TableTypes
<1>6. CASE List(i)
  <2>1. SharedTypes'
    BY <1>6 DEF List, getInstances, SharedTypes, CallTypes, TableTypes,
       CallInv, MutexInv, Free, Up, Unsent
  <2>2. CallTypes'
    BY <1>6 DEF List, getInstances, CallTypes, Places, Free, Up
  <2>3. name' \in Table
    BY <1>6 DEF List, getInstances, TableTypes
  <2>4. seen' \in [Instances -> Table]
    BY <1>6 DEF List, getInstances, SharedTypes, TableTypes
  <2>5. /\ proxy' \in [Instances -> Table] /\ cache' \in [Instances -> Table]
        /\ sameTable' \in [Instances -> BOOLEAN]
    BY <1>6 DEF List, getInstances, SharedTypes, TableTypes
  <2> QED
    BY <2>1, <2>2, <2>3, <2>4, <2>5 DEF TableTypes
<1>7. CASE Send(i)
  <2>1. SharedTypes'
    BY <1>7 DEF Send, SharedTypes, CallTypes, TableTypes,
       CallInv, MutexInv, Free, Up, Unsent
  <2>2. CallTypes'
    BY <1>7 DEF Send, CallTypes, Places, Free, Up
  <2>3. name' \in Table
    BY <1>7 DEF Send, TableTypes
  <2>4. seen' \in [Instances -> Table]
    BY <1>7 DEF Send, SharedTypes, TableTypes
  <2>5. /\ proxy' \in [Instances -> Table] /\ cache' \in [Instances -> Table]
        /\ sameTable' \in [Instances -> BOOLEAN]
    BY <1>7 DEF Send, SharedTypes, TableTypes
  <2> QED
    BY <2>1, <2>2, <2>3, <2>4, <2>5 DEF TableTypes
<1>8. CASE SendEnds(i)
  <2>1. SharedTypes'
    BY <1>8 DEF SendEnds, Ends, Return, SharedTypes, CallTypes, TableTypes,
       CallInv, MutexInv, Free, Up, Unsent
  <2>2. CallTypes'
    BY <1>8 DEF SendEnds, Ends, Return, CallTypes, Places, Free, Up
  <2>3. name' \in Table
    BY <1>8 DEF SendEnds, Ends, Return, TableTypes
  <2>4. seen' \in [Instances -> Table]
    BY <1>8 DEF SendEnds, Ends, Return, SharedTypes, TableTypes
  <2>5. /\ proxy' \in [Instances -> Table] /\ cache' \in [Instances -> Table]
        /\ sameTable' \in [Instances -> BOOLEAN]
    BY <1>8 DEF SendEnds, Ends, Return, SharedTypes, TableTypes
  <2> QED
    BY <2>1, <2>2, <2>3, <2>4, <2>5 DEF TableTypes
<1>9. CASE MessageIgnored(i)
  <2>1. SharedTypes'
    BY <1>9 DEF MessageIgnored, SharedTypes, CallTypes, TableTypes,
       CallInv, MutexInv, Free, Up, Unsent
  <2>2. CallTypes'
    BY <1>9 DEF MessageIgnored, CallTypes, Places, Free, Up
  <2>3. name' \in Table
    BY <1>9 DEF MessageIgnored, TableTypes
  <2>4. seen' \in [Instances -> Table]
    BY <1>9 DEF MessageIgnored, SharedTypes, TableTypes
  <2>5. /\ proxy' \in [Instances -> Table] /\ cache' \in [Instances -> Table]
        /\ sameTable' \in [Instances -> BOOLEAN]
    BY <1>9 DEF MessageIgnored, SharedTypes, TableTypes
  <2> QED
    BY <2>1, <2>2, <2>3, <2>4, <2>5 DEF TableTypes
<1>10. CASE Fail(i)
  <2>1. SharedTypes'
    BY <1>10 DEF Fail, Ends, Return, SharedTypes, CallTypes, TableTypes,
       CallInv, MutexInv, Free, Up, Unsent
  <2>2. CallTypes'
    BY <1>10 DEF Fail, Ends, Return, CallTypes, Places, Free, Up
  <2>3. name' \in Table
    BY <1>10 DEF Fail, Ends, Return, TableTypes
  <2>4. seen' \in [Instances -> Table]
    BY <1>10 DEF Fail, Ends, Return, SharedTypes, TableTypes
  <2>5. /\ proxy' \in [Instances -> Table] /\ cache' \in [Instances -> Table]
        /\ sameTable' \in [Instances -> BOOLEAN]
    BY <1>10 DEF Fail, Ends, Return, SharedTypes, TableTypes
  <2> QED
    BY <2>1, <2>2, <2>3, <2>4, <2>5 DEF TableTypes
<1>11. CASE Halt(i)
  <2>1. SharedTypes'
    BY <1>11 DEF Halt, SharedTypes, CallTypes, TableTypes,
       CallInv, MutexInv, Free, Up, Unsent
  <2>2. CallTypes'
    BY <1>11 DEF Halt, CallTypes, Places, Free, Up
  <2>3. name' \in Table
    BY <1>11 DEF Halt, TableTypes
  <2>4. seen' \in [Instances -> Table]
    BY <1>11 DEF Halt, SharedTypes, TableTypes
  <2>5. /\ proxy' \in [Instances -> Table] /\ cache' \in [Instances -> Table]
        /\ sameTable' \in [Instances -> BOOLEAN]
    BY <1>11 DEF Halt, SharedTypes, TableTypes
  <2> QED
    BY <2>1, <2>2, <2>3, <2>4, <2>5 DEF TableTypes
<1> QED
  BY <1>1, <1>2, <1>3, <1>4, <1>5, <1>6, <1>7, <1>8, <1>9, <1>10, <1>11 DEF Runs

(* Which thread runs which callback.                                       *)
LEMMA StartKeepsCalls ==
  ASSUME CallTypes, CallInv, NEW i \in Instances, NEW th \in Threads,
         Starts(i, th)
  PROVE  CallInv'
<1> USE NamesAssumption, ThreadsAssumption DEF CallTypes, CallInv, Free, Setting, Busy, Up, Goto, Fault, sharedVars, mutexVars, callVars, scriptVars, histories
<1>1. CASE (\E n \in Names \cup {NoName} : setSharedMemAlias(i, th, n))
  BY <1>1 DEF setSharedMemAlias, Begin
<1>2. CASE Construct(i, th)
  BY <1>2 DEF Construct, Begin
<1>3. CASE reInit(i, th)
  BY <1>3 DEF reInit, Begin
<1>4. CASE Destruct(i, th)
  BY <1>4 DEF Destruct, Begin
<1>5. CASE messageCallback(i, th)
  BY <1>5 DEF messageCallback, Begin
<1> QED
  BY <1>1, <1>2, <1>3, <1>4, <1>5 DEF Starts

LEMMA RunKeepsCalls ==
  ASSUME CallTypes, CallInv, NEW i \in Instances,
         Runs(i) \/ MessageIgnored(i) \/ Fail(i) \/ Halt(i)
  PROVE  CallInv'
<1> USE NamesAssumption, ThreadsAssumption DEF CallTypes, CallInv, Free, Setting, Busy, Up, Goto, Fault, sharedVars, mutexVars, callVars, scriptVars, histories
<1>1. CASE Lock(i)
  BY <1>1 DEF Lock
<1>2. CASE ReadBegins(i)
  BY <1>2 DEF ReadBegins
<1>3. CASE Copy(i)
  BY <1>3 DEF Copy
<1>4. CASE Write(i)
  BY <1>4 DEF Write
<1>5. CASE Unlock(i)
  BY <1>5 DEF Unlock, Return
<1>6. CASE List(i)
  BY <1>6 DEF List, getInstances
<1>7. CASE Send(i)
  BY <1>7 DEF Send
<1>8. CASE SendEnds(i)
  BY <1>8 DEF SendEnds, Ends, Return
<1>9. CASE MessageIgnored(i)
  BY <1>9 DEF MessageIgnored
<1>10. CASE Fail(i)
  BY <1>10 DEF Fail, Ends, Return
<1>11. CASE Halt(i)
  BY <1>11 DEF Halt
<1> QED
  BY <1>1, <1>2, <1>3, <1>4, <1>5, <1>6, <1>7, <1>8, <1>9, <1>10, <1>11 DEF Runs

(* The mutex.                                                              *)
LEMMA StartKeepsMutex ==
  ASSUME SharedTypes, CallTypes, CallInv, MutexInv, NEW i \in Instances, NEW th \in Threads,
         Starts(i, th)
  PROVE  MutexInv'
<1> USE NamesAssumption, ThreadsAssumption, BoundsAssumption DEF SharedTypes, CallTypes, CallInv, MutexInv, Free, Busy, Locked, Setting, Goto, Fault, sharedVars, mutexVars, callVars, scriptVars, histories
<1>1. CASE (\E n \in Names \cup {NoName} : setSharedMemAlias(i, th, n))
  BY <1>1 DEF setSharedMemAlias, Begin
<1>2. CASE Construct(i, th)
  BY <1>2 DEF Construct, Begin
<1>3. CASE reInit(i, th)
  BY <1>3 DEF reInit, Begin
<1>4. CASE Destruct(i, th)
  BY <1>4 DEF Destruct, Begin
<1>5. CASE messageCallback(i, th)
  BY <1>5 DEF messageCallback, Begin
<1> QED
  BY <1>1, <1>2, <1>3, <1>4, <1>5 DEF Starts

LEMMA RunKeepsMutex ==
  ASSUME SharedTypes, CallTypes, CallInv, MutexInv, NEW i \in Instances,
         Runs(i) \/ MessageIgnored(i) \/ Fail(i) \/ Halt(i)
  PROVE  MutexInv'
<1> USE NamesAssumption, ThreadsAssumption, BoundsAssumption DEF SharedTypes, CallTypes, CallInv, MutexInv, Free, Busy, Locked, Setting, Goto, Fault, sharedVars, mutexVars, callVars, scriptVars, histories
<1>1. CASE Lock(i)
  BY <1>1 DEF Lock
<1>2. CASE ReadBegins(i)
  BY <1>2 DEF ReadBegins
<1>3. CASE Copy(i)
  BY <1>3 DEF Copy
<1>4. CASE Write(i)
  BY <1>4 DEF Write
<1>5. CASE Unlock(i)
  BY <1>5 DEF Unlock, Return
<1>6. CASE List(i)
  BY <1>6 DEF List, getInstances
<1>7. CASE Send(i)
  BY <1>7 DEF Send
<1>8. CASE SendEnds(i)
  BY <1>8 DEF SendEnds, Ends, Return
<1>9. CASE MessageIgnored(i)
  BY <1>9 DEF MessageIgnored
<1>10. CASE Fail(i)
  BY <1>10 DEF Fail, Ends, Return
<1>11. CASE Halt(i)
  BY <1>11 DEF Halt
<1> QED
  BY <1>1, <1>2, <1>3, <1>4, <1>5, <1>6, <1>7, <1>8, <1>9, <1>10, <1>11 DEF Runs

(* The text.                                                               *)
LEMMA StartKeepsText ==
  ASSUME SharedTypes, CallTypes, TableTypes, CallInv, MutexInv, TextInv, NEW i \in Instances, NEW th \in Threads,
         Starts(i, th)
  PROVE  TextInv'
<1> USE NamesAssumption, ThreadsAssumption DEF CallTypes, TableTypes, CallInv, MutexInv, Free, Locked, Setting, TextInv, Goto, Fault, sharedVars, mutexVars, callVars, scriptVars, histories
<1>1. CASE (\E n \in Names \cup {NoName} : setSharedMemAlias(i, th, n))
  BY <1>1 DEF setSharedMemAlias, Begin
<1>2. CASE Construct(i, th)
  BY <1>2 DEF Construct, Begin
<1>3. CASE reInit(i, th)
  BY <1>3 DEF reInit, Begin
<1>4. CASE Destruct(i, th)
  BY <1>4 DEF Destruct, Begin
<1>5. CASE messageCallback(i, th)
  BY <1>5 DEF messageCallback, Begin
<1> QED
  BY <1>1, <1>2, <1>3, <1>4, <1>5 DEF Starts

LEMMA RunKeepsText ==
  ASSUME SharedTypes, CallTypes, TableTypes, CallInv, MutexInv, TextInv, NEW i \in Instances,
         Runs(i) \/ MessageIgnored(i) \/ Fail(i) \/ Halt(i)
  PROVE  TextInv'
<1> USE NamesAssumption, ThreadsAssumption DEF CallTypes, TableTypes, CallInv, MutexInv, Free, Locked, Setting, TextInv, Goto, Fault, sharedVars, mutexVars, callVars, scriptVars, histories
<1>1. CASE Lock(i)
  BY <1>1 DEF Lock
<1>2. CASE ReadBegins(i)
  BY <1>2 DEF ReadBegins
<1>3. CASE Copy(i)
  <2>1. PICK t \in Read(i) :
            proxy' = [proxy EXCEPT ![i] = IF Setting(i) THEN [t EXCEPT ![i] = name[i]] ELSE t]
    BY <1>3 DEF Copy
  <2>2. /\ pc[i] = "copy" /\ pc' = [pc EXCEPT ![i] = IF Setting(i) THEN "write" ELSE "unlock"]
        /\ seen' = [seen EXCEPT ![i] = NoAliases]
        /\ UNCHANGED <<text, written, got, name, careless>>
    BY <1>3 DEF Copy
  <2>3. /\ t \in [Instances -> Names \cup {NoName}]
        /\ \A j \in Instances :
              t[j] \in {IF written THEN text[j] ELSE proxy[i][j], seen[i][j]}
    BY DEF Read, Table
  <2>4. ASSUME ~written, NEW k \in Instances, NEW j \in Instances \ {k}
        PROVE  proxy'[k][j] = NoName /\ seen'[k][j] = NoName
    BY <2>1, <2>2, <2>3, <2>4 DEF NoAliases
  <2>5. ASSUME ~careless, NEW k \in Instances, got[k]
        PROVE  /\ pc'[k] = "copy" /\ written => \A j \in Instances \ {k} : seen'[k][j] = text[j]
               /\ pc'[k] = "write" => proxy'[k] = [text EXCEPT ![k] = name[k]]
    <3>1. CASE k # i
      BY <2>1, <2>2, <2>5, <3>1
    <3>2. CASE k = i /\ Setting(i)
      <4>1. \A j \in Instances \ {i} : t[j] = text[j]
        BY <2>2, <2>3, <2>5, <3>2 DEF NoAliases
      <4>2. proxy'[i] = [t EXCEPT ![i] = name[i]] /\ pc'[i] = "write"
        BY <2>1, <2>2, <3>2
      <4>3. t \in Table /\ text \in Table
        BY <2>1 DEF SharedTypes, Read
      <4>4. [t EXCEPT ![i] = name[i]] = [text EXCEPT ![i] = name[i]]
        <5> HIDE DEF CallInv, MutexInv, TextInv, CallTypes, TableTypes
        <5> QED
          BY <4>1, <4>3, OneEntry
      <4> QED
        BY <3>2, <4>2, <4>4
    <3>3. CASE k = i /\ ~Setting(i)
      BY <2>2, <3>3
    <3> QED
      BY <3>1, <3>2, <3>3
  <2> HIDE DEF CallInv, MutexInv, CallTypes, TableTypes
  <2> QED
    BY <2>2, <2>4, <2>5 DEF TextInv
<1>4. CASE Write(i)
  <2>1. PICK ok \in BOOLEAN : /\ text' = IF ok THEN proxy[i] ELSE text
                              /\ written' = (written \/ ok)
                              /\ careless' = (careless \/ ~ok \/ ~got[i])
    BY <1>4 DEF Write
  <2>2. /\ pc[i] = "write" /\ pc' = [pc EXCEPT ![i] = "unlock"]
        /\ UNCHANGED <<got, name, proxy, seen>>
    BY <1>4 DEF Write
  <2>3. CASE ok
    <3>1. ASSUME got[i], NEW k \in Instances, got[k] PROVE k = i
      BY <3>1
    <3>2. written' /\ (careless' \/ got[i])
      BY <2>1, <2>3, Zenon
    <3> QED
      BY <2>2, <3>1, <3>2
  <2>4. CASE ~ok
    <3>1. text' = text
      BY <2>1, <2>4
    <3>2. written' = written /\ careless'
      BY <2>1, <2>4, Zenon DEF SharedTypes
    <3> QED
      BY <2>2, <3>1, <3>2
  <2> QED
    BY <2>3, <2>4
<1>5. CASE Unlock(i)
  <2> HIDE DEF CallInv, MutexInv, TextInv
  <2>1. /\ \A k \in Instances \ {i} : /\ got'[k] = got[k] /\ pc'[k] = pc[k]
                                          /\ seen'[k] = seen[k] /\ name'[k] = name[k]
        /\ UNCHANGED <<text, written, careless>> /\ got'[i] = FALSE
    BY <1>5 DEF Unlock, Return, Table
  <2>2. /\ \A k \in Instances \ {i} : proxy'[k] = proxy[k]
        /\ seen'[i] \in {seen[i], NoAliases} /\ proxy'[i] \in {proxy[i], NoAliases}
    BY <1>5 DEF Unlock, Return
  <2> HIDE DEF CallTypes, TableTypes
  <2>3. ~written => \A k \in Instances : \A j \in Instances \ {k} :
          proxy'[k][j] = NoName /\ seen'[k][j] = NoName
    BY <2>1, <2>2 DEF NoAliases, TextInv
  <2>4. careless \/ \A k \in Instances : got'[k] =>
          /\ pc'[k] = "copy" /\ written => \A j \in Instances \ {k} : seen'[k][j] = text[j]
          /\ pc'[k] = "write" => proxy'[k] = [text EXCEPT ![k] = name'[k]]
    BY <2>1, <2>2 DEF TextInv
  <2> QED
    BY <2>1, <2>3, <2>4 DEF TextInv
<1>6. CASE List(i)
  BY <1>6 DEF List, getInstances
<1>7. CASE Send(i)
  BY <1>7 DEF Send
<1>8. CASE SendEnds(i)
  <2> HIDE DEF CallInv, MutexInv, TextInv
  <2>1. /\ \A k \in Instances \ {i} : /\ got'[k] = got[k] /\ pc'[k] = pc[k]
                                          /\ seen'[k] = seen[k] /\ name'[k] = name[k]
        /\ UNCHANGED <<text, written, careless>> /\ got'[i] = FALSE
    BY <1>8 DEF SendEnds, Ends, Return, Table
  <2>2. /\ \A k \in Instances \ {i} : proxy'[k] = proxy[k]
        /\ seen'[i] \in {seen[i], NoAliases} /\ proxy'[i] \in {proxy[i], NoAliases}
    BY <1>8 DEF SendEnds, Ends, Return
  <2> HIDE DEF CallTypes, TableTypes
  <2>3. ~written => \A k \in Instances : \A j \in Instances \ {k} :
          proxy'[k][j] = NoName /\ seen'[k][j] = NoName
    BY <2>1, <2>2 DEF NoAliases, TextInv
  <2>4. careless \/ \A k \in Instances : got'[k] =>
          /\ pc'[k] = "copy" /\ written => \A j \in Instances \ {k} : seen'[k][j] = text[j]
          /\ pc'[k] = "write" => proxy'[k] = [text EXCEPT ![k] = name'[k]]
    BY <2>1, <2>2 DEF TextInv
  <2> QED
    BY <2>1, <2>3, <2>4 DEF TextInv
<1>9. CASE MessageIgnored(i)
  BY <1>9 DEF MessageIgnored
<1>10. CASE Fail(i)
  <2> HIDE DEF CallInv, MutexInv, TextInv
  <2>1. /\ \A k \in Instances \ {i} : /\ got'[k] = got[k] /\ pc'[k] = pc[k]
                                          /\ seen'[k] = seen[k] /\ name'[k] = name[k]
        /\ UNCHANGED <<text, written, careless>> /\ got'[i] = FALSE
    BY <1>10 DEF Fail, Ends, Return, Table
  <2>2. /\ \A k \in Instances \ {i} : proxy'[k] = proxy[k]
        /\ seen'[i] \in {seen[i], NoAliases} /\ proxy'[i] \in {proxy[i], NoAliases}
    BY <1>10 DEF Fail, Ends, Return
  <2> HIDE DEF CallTypes, TableTypes
  <2>3. ~written => \A k \in Instances : \A j \in Instances \ {k} :
          proxy'[k][j] = NoName /\ seen'[k][j] = NoName
    BY <2>1, <2>2 DEF NoAliases, TextInv
  <2>4. careless \/ \A k \in Instances : got'[k] =>
          /\ pc'[k] = "copy" /\ written => \A j \in Instances \ {k} : seen'[k][j] = text[j]
          /\ pc'[k] = "write" => proxy'[k] = [text EXCEPT ![k] = name'[k]]
    BY <2>1, <2>2 DEF TextInv
  <2> QED
    BY <2>1, <2>3, <2>4 DEF TextInv
<1>11. CASE Halt(i)
  BY <1>11 DEF Halt
<1> QED
  BY <1>1, <1>2, <1>3, <1>4, <1>5, <1>6, <1>7, <1>8, <1>9, <1>10, <1>11 DEF Runs

(* The messages.                                                           *)
LEMMA StartKeepsFresh ==
  ASSUME SharedTypes, CallTypes, TableTypes, CallInv, FreshInv, NEW i \in Instances, NEW th \in Threads,
         Starts(i, th)
  PROVE  FreshInv'
<1> USE NamesAssumption, ThreadsAssumption DEF SharedTypes, CallTypes, TableTypes, CallInv, Free, Setting, Up, FreshInv, Announced, Current, Goto, Fault, sharedVars, mutexVars, callVars, scriptVars, histories
<1>1. CASE (\E n \in Names \cup {NoName} : setSharedMemAlias(i, th, n))
  BY <1>1 DEF setSharedMemAlias, Begin
<1>2. CASE Construct(i, th)
  BY <1>2 DEF Construct, Begin
<1>3. CASE reInit(i, th)
  BY <1>3 DEF reInit, Begin
<1>4. CASE Destruct(i, th)
  BY <1>4 DEF Destruct, Begin
<1>5. CASE messageCallback(i, th)
  BY <1>5 DEF messageCallback, Begin
<1> QED
  BY <1>1, <1>2, <1>3, <1>4, <1>5 DEF Starts

LEMMA RunKeepsFresh ==
  ASSUME SharedTypes, CallTypes, TableTypes, CallInv, FreshInv, NEW i \in Instances,
         Runs(i) \/ MessageIgnored(i) \/ Fail(i) \/ Halt(i)
  PROVE  FreshInv'
<1> USE NamesAssumption, ThreadsAssumption DEF SharedTypes, CallTypes, TableTypes, CallInv, Free, Setting, Up, FreshInv, Announced, Current, Goto, Fault, sharedVars, mutexVars, callVars, scriptVars, histories
<1>1. CASE Lock(i)
  BY <1>1 DEF Lock
<1>2. CASE ReadBegins(i)
  <2> SUFFICES ASSUME written', NEW k \in Up' PROVE Announced(k)' \/ Current(k)'
    BY DEF FreshInv
  <2>1. UNCHANGED <<text, written>> /\ k \in Up
    BY <1>2 DEF ReadBegins
  <2>2. Announced(k) \/ Current(k)
    BY <2>1 DEF FreshInv
  <2>3. CASE k # i
    BY <1>2, <2>1, <2>2, <2>3 DEF ReadBegins
  <2>4. CASE k = i
    BY <1>2, <2>1, <2>2, <2>4 DEF ReadBegins
  <2> QED
    BY <2>3, <2>4
<1>3. CASE Copy(i)
  <2> SUFFICES ASSUME written', NEW k \in Up' PROVE Announced(k)' \/ Current(k)'
    BY DEF FreshInv
  <2>1. UNCHANGED <<text, written>> /\ k \in Up
    BY <1>3 DEF Copy
  <2>2. Announced(k) \/ Current(k)
    BY <2>1 DEF FreshInv
  <2>5. written /\ seen[i] = text /\ ~Setting(i) => proxy'[i] = text
    <3>1. PICK t \in Read(i) : ~Setting(i) => proxy' = [proxy EXCEPT ![i] = t]
      BY <1>3 DEF Copy
    <3>2. written => \A j \in Instances : t[j] \in {text[j], seen[i][j]}
      BY DEF Read
    <3>3. t \in [Instances -> Names \cup {NoName}] /\ text \in [Instances -> Names \cup {NoName}]
      BY DEF Read, Table, SharedTypes
    <3>4. written /\ seen[i] = text => t = text
      BY <3>2, <3>3
    <3> QED
      BY <3>1, <3>4 DEF TableTypes
  <2>3. CASE k # i
    BY <1>3, <2>1, <2>2, <2>3 DEF Copy
  <2>4. CASE k = i
    BY <1>3, <2>1, <2>2, <2>4, <2>5 DEF Copy
  <2> QED
    BY <2>3, <2>4
<1>4. CASE Write(i)
  BY <1>4 DEF Write
<1>5. CASE Unlock(i)
  <2> SUFFICES ASSUME written', NEW k \in Up' PROVE Announced(k)' \/ Current(k)'
    BY DEF FreshInv
  <2>1. UNCHANGED <<text, written>> /\ k \in Up
    BY <1>5 DEF Unlock, Return
  <2>2. Announced(k) \/ Current(k)
    BY <2>1 DEF FreshInv
  <2>3. CASE k # i
    BY <1>5, <2>1, <2>2, <2>3 DEF Unlock, Return
  <2>4. CASE k = i
    BY <1>5, <2>1, <2>2, <2>4 DEF Unlock, Return
  <2> QED
    BY <2>3, <2>4
<1>6. CASE List(i)
  BY <1>6 DEF List, getInstances
<1>7. CASE Send(i)
  BY <1>7 DEF Send
<1>8. CASE SendEnds(i)
  <2> SUFFICES ASSUME written', NEW k \in Up' PROVE Announced(k)' \/ Current(k)'
    BY DEF FreshInv
  <2>1. UNCHANGED <<text, written>> /\ k \in Up
    BY <1>8 DEF SendEnds, Ends, Return
  <2>2. Announced(k) \/ Current(k)
    BY <2>1 DEF FreshInv
  <2>3. CASE k # i
    BY <1>8, <2>1, <2>2, <2>3 DEF SendEnds, Ends, Return
  <2>4. CASE k = i
    BY <1>8, <2>1, <2>2, <2>4 DEF SendEnds, Ends, Return
  <2> QED
    BY <2>3, <2>4
<1>9. CASE MessageIgnored(i)
  BY <1>9 DEF MessageIgnored
<1>10. CASE Fail(i)
  <2> SUFFICES ASSUME written', NEW k \in Up' PROVE Announced(k)' \/ Current(k)'
    BY DEF FreshInv
  <2>1. UNCHANGED <<text, written>> /\ k \in Up
    BY <1>10 DEF Fail, Ends, Return, Unsent
  <2>2. Announced(k) \/ Current(k)
    BY <2>1 DEF FreshInv
  <2>3. CASE k # i
    BY <1>10, <2>1, <2>2, <2>3 DEF Fail, Ends, Return, Unsent
  <2>4. CASE k = i
    BY <1>10, <2>1, <2>2, <2>4 DEF Fail, Ends, Return
  <2> QED
    BY <2>3, <2>4
<1>11. CASE Halt(i)
  BY <1>11 DEF Halt
<1> QED
  BY <1>1, <1>2, <1>3, <1>4, <1>5, <1>6, <1>7, <1>8, <1>9, <1>10, <1>11 DEF Runs

-----------------------------------------------------------------------------
LEMMA InitIInv == Init => IInv
<1> SUFFICES ASSUME Init PROVE IInv
  OBVIOUS
<1> USE NoAliasesTyped, BoundsAssumption, ThreadsAssumption DEF Init, ForAll
<1>1. SharedTypes
  <2>1. written \in BOOLEAN /\ careless \in BOOLEAN /\ stuck \in BOOLEAN
    BY Zenon
  <2> QED
    BY <2>1 DEF SharedTypes
<1>2. CallTypes
  BY DEF CallTypes, Places
<1>3. TableTypes
  BY DEF TableTypes, Table
<1>4. CallInv /\ MutexInv
  BY DEF CallInv, MutexInv, Free, Locked
<1>5. TextInv
  BY DEF TextInv, NoAliases
<1>6. FreshInv
  BY DEF FreshInv
<1> QED
  BY <1>1, <1>2, <1>3, <1>4, <1>5, <1>6, TypesOfParts DEF IInv

LEMMA NextIInv == IInv /\ [Next]_vars => IInv'
<1> SUFFICES ASSUME IInv, [Next]_vars PROVE IInv'
  OBVIOUS
<1>1. SharedTypes /\ CallTypes /\ TableTypes /\ CallInv /\ MutexInv /\ TextInv /\ FreshInv
  BY TypesOfParts DEF IInv
<1>2. ASSUME NEW i \in Instances, NEW th \in Threads, Starts(i, th) PROVE IInv'
  <2>1. SharedTypes' /\ CallTypes' /\ TableTypes'
    BY <1>1, <1>2, StartTyped
  <2>2. TypeOK'
    BY <2>1 DEF TypeOK, SharedTypes, CallTypes, TableTypes
  <2> QED
    BY <1>1, <1>2, <2>2, StartKeepsCalls, StartKeepsMutex, StartKeepsText, StartKeepsFresh
    DEF IInv
<1>3. ASSUME NEW i \in Instances, Runs(i) \/ MessageIgnored(i) \/ Fail(i) \/ Halt(i)
      PROVE  IInv'
  <2>1. SharedTypes' /\ CallTypes' /\ TableTypes'
    BY <1>1, <1>3, RunTyped
  <2>2. TypeOK'
    BY <2>1 DEF TypeOK, SharedTypes, CallTypes, TableTypes
  <2> QED
    BY <1>1, <1>3, <2>2, RunKeepsCalls, RunKeepsMutex, RunKeepsText, RunKeepsFresh
    DEF IInv
<1>4. CASE UNCHANGED vars
  <2> USE <1>4 DEF vars, IInv
  <2>1. TypeOK' /\ CallInv'
    BY DEF TypeOK, CallInv, Free, Setting
  <2>2. MutexInv' /\ TextInv'
    BY DEF MutexInv, Locked, TextInv
  <2>3. FreshInv'
    BY DEF FreshInv, Announced, Current, Free, Setting, Up
  <2> QED
    BY <2>1, <2>2, <2>3
<1> QED
  BY <1>2, <1>3, <1>4 DEF Next

(* The inductive invariant of the shared table: which thread is in which   *)
(* instance, who has the mutex, what the text is while it is worked on,    *)
(* and for whom a message is under way.                                    *)
THEOREM Invariance == Spec => []IInv
<1> QED
  BY InitIInv, NextIInv, PTL DEF Spec

(* The mutex is free when no callback is between lock and unlock, unless   *)
(* an error has left it behind.                                            *)
THEOREM MutexGivenBack == Spec => [](stuck \/ owner = NoThread \/ \E i \in Instances : got[i])
<1>1. IInv => stuck \/ owner = NoThread \/ \E i \in Instances : got[i]
  BY DEF IInv, MutexInv
<1> QED
  BY <1>1, Invariance, PTL

(* When all messages are handled, each instance has the table that is in   *)
(* shared memory.                                                          *)
THEOREM CopiesCurrent == Spec => []CachesCurrent
<1>1. IInv => CachesCurrent
  BY DEF IInv, FreshInv, Announced, Current, CachesCurrent, Announcing, Free
<1> QED
  BY <1>1, Invariance, PTL

(* The text implements AliasMap: a write is an atomic change of the own    *)
(* entry, and no update is lost, as long as every writer has the mutex.    *)
THEOREM UpdatesAreAtomic == Spec => AtomicUpdates
<1>1. Init => Map!Init
  BY DEF Init, Map!Init, NoAliases
<1>2. IInv /\ [Next]_vars =>
        [careless' \/ \E i \in Instances : pc[i] = "write" /\ Map!Set(i, name[i])]_text
  <2> SUFFICES ASSUME IInv, [Next]_vars, text' # text, ~careless'
               PROVE  \E i \in Instances : pc[i] = "write" /\ Map!Set(i, name[i])
    OBVIOUS
  <2>1. PICK i \in Instances : Write(i)
    BY DEF Next, vars, Starts, setSharedMemAlias, Construct, reInit, Destruct,
           messageCallback, Begin, Runs, Lock, ReadBegins, Copy, Unlock, List,
           Send, SendEnds, Ends, MessageIgnored, Fail, Halt, sharedVars
  <2>2. text' = proxy[i] /\ pc[i] = "write" /\ got[i] /\ ~careless
    BY <2>1 DEF Write, Goto
  <2> QED
    BY <2>2 DEF IInv, TextInv, Map!Set
<1> QED
  BY <1>1, <1>2, Invariance, PTL DEF Spec, AtomicUpdates
=============================================================================
