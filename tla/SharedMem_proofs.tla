--------------------------- MODULE SharedMem_proofs ---------------------------
(***************************************************************************)
(* Proofs about SharedMem for any set of instances and any number of       *)
(* messages, whatever times out and whoever is destroyed.                  *)
(***************************************************************************)
EXTENDS SharedMem, TLAPS

(* The two threads of an instance are distinct, and of no other instance.  *)
LEMMA ThreadsOf ==
  /\ \A i \in Instances : /\ Script(i) \in Threads /\ Receiver(i) \in Threads
                          /\ Script(i) # Receiver(i)
  /\ \A i, j \in Instances : Receiver(i) = Receiver(j) => i = j
  /\ \A t \in Threads : t[1] \in Instances
BY DEF Threads, Script, Receiver

(* What is written was addressed, and to somebody.                         *)
LEMMA Addressed ==
  ASSUME TypeOK, SentInv, NEW t \in Threads,
         pc[t] \in {"lockRemote", "write", "waitFinished"}
  PROVE  out[t] \in Message /\ Target(t) \in Instances /\ out[t].from = t
BY DEF TypeOK, SentInv, Target, Message

(* Every step keeps the types.                                             *)
LEMMA Typed ==
  ASSUME TypeOK, SentInv, OrderInv, Next
  PROVE  TypeOK'
<1> USE ThreadsOf, MaxSendsAssumption DEF history, sync
<1>1. CASE (\E i \in Instances : Register(i))
  BY <1>1 DEF Register, TypeOK
<1>2. CASE (\E i \in Instances : StartReceiver(i))
  BY <1>2 DEF StartReceiver, Goto, TypeOK
<1>3. CASE (\E i \in Instances : Destroy(i))
  BY <1>3 DEF Destroy, TypeOK
<1>4. CASE (\E i \in Instances : EnterScript(i))
  BY <1>4 DEF EnterScript, Goto, TypeOK
<1>5. CASE (\E t \in Threads : LeaveScript(t))
  BY <1>5 DEF LeaveScript, Goto, TypeOK
<1>6. CASE (\E t \in Threads : \E j \in Instances : Send(t, j))
  <2>1. PICK t \in Threads, j \in Instances : Send(t, j)
    BY <1>6
  <2>2. sends' \in 1..MaxSends
    BY <2>1 DEF Send, TypeOK
  <2>3. [n |-> sends', from |-> t, to |-> j] \in Message
    BY <2>2 DEF Message
  <2> QED
    BY <2>1, <2>2, <2>3 DEF Send, Goto, TypeOK
<1>7. CASE (\E t \in Threads : LockRemote(t))
  <2>1. PICK t \in Threads : LockRemote(t)
    BY <1>7
  <2>2. out[t] \in Message /\ Target(t) \in Instances
    BY <2>1, Addressed DEF LockRemote, Goto
  <2> QED
    BY <2>1, <2>2 DEF LockRemote, Goto, WaitingFor, TypeOK
<1>8. CASE (\E t \in Threads : LockTimesOut(t))
  BY <1>8 DEF LockTimesOut, Goto, TypeOK
<1>9. CASE (\E t \in Threads : Write(t))
  <2>1. PICK t \in Threads : Write(t)
    BY <1>9
  <2>2. out[t] \in Message /\ Target(t) \in Instances
    BY <2>1, Addressed DEF Write, Goto
  <2>3. \A u \in WaitingFor(Target(t)) : out[u] \in Message
    BY Addressed DEF WaitingFor
  <2>4. lost' \subseteq Message /\ overlapped' \subseteq Message
    BY <2>1, <2>2, <2>3 DEF Write, TypeOK
  <2> QED
    BY <2>1, <2>2, <2>4 DEF Write, Goto, TypeOK
<1>17. CASE (\E t \in Threads : WriteFails(t))
  <2>1. PICK t \in Threads : WriteFails(t)
    BY <1>17
  <2>2. out[t] \in Message /\ Target(t) \in Instances
    BY <2>1, Addressed DEF WriteFails, Goto
  <2>3. \A u \in WaitingFor(Target(t)) : out[u] \in Message
    BY Addressed DEF WaitingFor
  <2>4. overlapped' \subseteq Message
    BY <2>1, <2>2, <2>3 DEF WriteFails, TypeOK
  <2> QED
    BY <2>1, <2>2, <2>4 DEF WriteFails, Goto, TypeOK
<1>10. CASE (\E t \in Threads : Finished(t))
  <2>1. PICK t \in Threads : Finished(t)
    BY <1>10
  <2>2. out[t] \in Message /\ Target(t) \in Instances
    BY <2>1, Addressed DEF Finished, Goto
  <2> QED
    BY <2>1, <2>2 DEF Finished, Goto, WaitingFor, TypeOK
<1>11. CASE (\E t \in Threads : FinishedTimesOut(t))
  BY <1>11 DEF FinishedTimesOut, Goto, TypeOK
<1>12. CASE (\E i \in Instances : Wake(i))
  BY <1>12 DEF Wake, Goto, TypeOK
<1>13. CASE (\E i \in Instances : LockLocal(i))
  BY <1>13 DEF LockLocal, Goto, TypeOK
<1>14. CASE (\E i \in Instances : Take(i))
  BY <1>14 DEF Take, HasMessage, Goto, TypeOK
<1>15. CASE (\E i \in Instances : NullMessage(i))
  BY <1>15 DEF NullMessage, HasMessage, Goto, TypeOK
<1>16. CASE (\E i \in Instances : Deliver(i))
  <2>1. PICK i \in Instances : Deliver(i)
    BY <1>16
  <2>2. in[i] \in Message
    BY <2>1 DEF Deliver, Goto, OrderInv, OrderAt, Taken, Arrived
  <2> QED
    BY <2>1, <2>2 DEF Deliver, Goto, TypeOK
<1> QED
  BY <1>1, <1>2, <1>3, <1>4, <1>5, <1>6, <1>7, <1>8, <1>9, <1>10, <1>11, <1>12, <1>13, <1>14, <1>15, <1>16, <1>17 DEF Next, SendStep, TimeOut, ReceiveStep

(* Who is in the script of an instance has its lua lock.                   *)
LEMMA KeepsScript ==
  ASSUME TypeOK, ScriptInv, Next
  PROVE  ScriptInv'
<1> SUFFICES ASSUME NEW t \in Threads, InScript(t)'
             PROVE  luaLock'[t[1]] = t
  BY DEF ScriptInv
<1>0. t[1] \in Instances
  BY ThreadsOf
<1>1. CASE \E i \in Instances : EnterScript(i) \/ Deliver(i)
  <2>1. PICK i \in Instances : EnterScript(i) \/ Deliver(i)
    BY <1>1
  <2>2. CASE t[1] = i
    <3>1. InScript(t) => luaLock[i] = t
      BY <2>2 DEF ScriptInv
    <3>2. luaLock[i] = None /\ t # None
      BY <2>1, NoneAssumption DEF EnterScript, Deliver
    <3>3. t = Script(i) \/ t = Receiver(i)
      BY <2>2 DEF Threads, Script, Receiver
    <3> QED
      BY <2>1, <2>2, <3>1, <3>2, <3>3, ThreadsOf
         DEF InScript, EnterScript, Deliver, Goto, TypeOK
  <2>3. CASE t[1] # i
    <3>1. t # Script(i) /\ t # Receiver(i)
      BY <2>3 DEF Script, Receiver
    <3> QED
      BY <1>0, <2>1, <2>3, <3>1, ThreadsOf
         DEF ScriptInv, InScript, EnterScript, Deliver, Goto, TypeOK
  <2> QED
    BY <2>2, <2>3
<1>2. CASE \E u \in Threads : LeaveScript(u)
  <2>1. PICK u \in Threads : LeaveScript(u)
    BY <1>2
  <2>2. t # u /\ InScript(t) /\ InScript(u)
    BY <2>1 DEF InScript, LeaveScript, Goto, TypeOK
  <2>3. t[1] # u[1]
    BY <2>2 DEF ScriptInv
  <2> QED
    BY <1>0, <2>1, <2>2, <2>3, ThreadsOf DEF ScriptInv, LeaveScript, TypeOK
<1>3. CASE luaLock' = luaLock /\ InScript(t)
  BY <1>3 DEF ScriptInv
<1>4. ASSUME NEW u \in Threads, NEW s, NEW l, Goto(u, s, l),
             l \in {"lua", "lockRemote", "write", "waitFinished"}
                => s \in {"lua", "lockRemote", "write", "waitFinished"}
      PROVE  InScript(t)
  BY <1>4 DEF InScript, Goto, TypeOK
<1>5. CASE \E u \in Threads : SendStep(u) \/ TimeOut(u) \/ \E j \in Instances : Send(u, j)
  <2>1. luaLock' = luaLock
    BY <1>5 DEF SendStep, TimeOut, Send, LockRemote, LockTimesOut, Write, WriteFails, Finished, FinishedTimesOut
  <2>2. InScript(t)
    BY <1>4, <1>5 DEF SendStep, TimeOut, Send, LockRemote, LockTimesOut, Write, WriteFails, Finished,
       FinishedTimesOut
  <2> QED
    BY <1>3, <2>1, <2>2
<1>6. CASE \E i \in Instances : StartReceiver(i) \/ Wake(i) \/ LockLocal(i) \/ Take(i)
                                 \/ NullMessage(i)
  <2>1. luaLock' = luaLock
    BY <1>6 DEF StartReceiver, Wake, LockLocal, Take, NullMessage
  <2>2. InScript(t)
    BY <1>4, <1>6, ThreadsOf DEF StartReceiver, Wake, LockLocal, Take, NullMessage
  <2> QED
    BY <1>3, <2>1, <2>2
<1>7. CASE \E i \in Instances : Register(i) \/ Destroy(i)
  BY <1>3, <1>7 DEF Register, Destroy, InScript
<1> QED
  BY <1>1, <1>2, <1>5, <1>6, <1>7 DEF Next, ReceiveStep

(* Two threads of one instance are not in its script at the same time.     *)
LEMMA OneInScript ==
  ASSUME ScriptInv, NEW t \in Threads, NEW u \in Threads,
         InScript(t), InScript(u), t[1] = u[1]
  PROVE  t = u
BY DEF ScriptInv

(* What was sent stays sent.                                               *)
LEMMA SentKept ==
  ASSUME TypeOK, SentInv, Next, NEW m \in Message, Sent(m)
  PROVE  Sent(m)'
<1>1. m.n \in Nat /\ sends \in Nat
  BY DEF Message, TypeOK
<1>2. CASE \E t \in Threads : \E j \in Instances : Send(t, j)
  <2>1. PICK t \in Threads, j \in Instances : Send(t, j)
    BY <1>2
  <2>2. sends' = sends + 1 /\ out'[t].n = sends' /\ m.n <= sends
    BY <2>1 DEF Send, TypeOK, Sent
  <2>3. \A u \in Threads : u # t => out'[u] = out[u] /\ pc'[u] = pc[u]
    BY <2>1 DEF Send, Goto, TypeOK
  <2> QED
    BY <1>1, <2>2, <2>3 DEF Sent
<1>3. CASE /\ out' = out /\ sends' = sends
           /\ \A t \in Threads : pc'[t] \in {"lockRemote", "write"}
                                   => pc[t] \in {"lockRemote", "write"}
  BY <1>3 DEF Sent
<1>4. (\E t \in Threads : \E j \in Instances : Send(t, j)) \/ <1>3!1
  BY ThreadsOf DEF Next, SendStep, TimeOut, ReceiveStep, TypeOK, Goto, Register, StartReceiver,
     Destroy, EnterScript, LeaveScript, LockRemote, LockTimesOut, Write, WriteFails, Finished,
     FinishedTimesOut, Wake, LockLocal, Take, NullMessage, Deliver
<1> QED
  BY <1>2, <1>3, <1>4

(* Who overwrites, and what.                                               *)
LEMMA WrittenTwice ==
  ASSUME TypeOK, SentInv, Next
  PROVE  /\ lost \subseteq lost'
         /\ lost' # lost => \E t \in Threads : /\ Write(t)
                                               /\ lost' = lost \cup ({mailbox[Target(t)]} \ {None})
<1>1. CASE \E t \in Threads : Write(t)
  BY <1>1 DEF Write
<1>2. CASE lost' = lost
  BY <1>2
<1> QED
  BY <1>1, <1>2 DEF Next, SendStep, TimeOut, ReceiveStep, history, Register, StartReceiver,
     Destroy, EnterScript, LeaveScript, Send, LockRemote, LockTimesOut, WriteFails, Finished,
     FinishedTimesOut, Wake, LockLocal, Take, NullMessage, Deliver

(* Sending: a thread has one message at a time, its latest.                *)
LEMMA KeepsSent ==
  ASSUME TypeOK, ScriptInv, SentInv, OrderInv, Next, TypeOK'
  PROVE  SentInv'
<1>1. ASSUME NEW m \in lost' \cup acked' PROVE Sent(m)'
  <2>1. CASE m \in lost \cup acked
    <3>1. m \in Message /\ Sent(m)
      BY <2>1 DEF TypeOK, SentInv
    <3> QED
      BY <3>1, SentKept
  <2>2. CASE m \in lost' \ lost
    <3>1. PICK t \in Threads : /\ Write(t) /\ m = mailbox[Target(t)] /\ m # None
      BY <2>2, WrittenTwice
    <3>2. Target(t) \in Instances
      BY <3>1, Addressed DEF Write, Goto
    <3>3. m \in Message /\ Sent(m)
      BY <3>1, <3>2 DEF OrderInv, OrderAt, Arrived
    <3> QED
      BY <3>3, SentKept
  <2>3. CASE m \in acked' \ acked
    <3>1. PICK t \in Threads : Finished(t) /\ m = out[t]
      BY <2>3 DEF Next, SendStep, TimeOut, ReceiveStep, history, Register, StartReceiver,
     Destroy, EnterScript, LeaveScript, Send, LockRemote, LockTimesOut, Write, WriteFails, Finished,
     FinishedTimesOut, Wake, LockLocal, Take, NullMessage, Deliver
    <3>2. m \in Message /\ m.from = t
      BY <3>1, Addressed DEF Finished, Goto
    <3>3. m.n <= sends
      BY <3>1, <3>2, NoneAssumption DEF SentInv
    <3>4. Sent(m)
      <4> SUFFICES ASSUME NEW u \in Threads, u[1] = Owner(m), pc[u] \in {"lockRemote", "write"}
                   PROVE  m.n < out[u].n
        BY <3>3 DEF Sent
      <4>1. pc[t] = "waitFinished" /\ InScript(t) /\ InScript(u) /\ u[1] = t[1]
        BY <3>1, <3>2 DEF Finished, Goto, InScript, Owner
      <4> QED
        BY <4>1, OneInScript
    <3> QED
      BY <3>2, <3>4, SentKept
  <2> QED
    BY <2>1, <2>2, <2>3
<1>2. ASSUME NEW t \in Threads
      PROVE  /\ pc'[t] \in {"lockRemote", "write", "waitFinished"} => out'[t] # None
             /\ out'[t] # None => out'[t].from = t /\ out'[t].n <= sends'
  <2>1. CASE \E u \in Threads : \E j \in Instances : Send(u, j)
    <3>1. PICK u \in Threads, j \in Instances : Send(u, j)
      BY <2>1
    <3>2. sends \in Nat /\ sends' = sends + 1 /\ sends' \in 1..MaxSends
      BY <3>1, MaxSendsAssumption DEF Send, TypeOK
    <3>3. CASE t = u
      <4>1. out'[t] = [n |-> sends', from |-> t, to |-> j]
        BY <3>1, <3>3 DEF Send, TypeOK
      <4>2. out'[t] \in Message
        BY <3>2, <4>1 DEF Message
      <4> QED
        BY <3>2, <4>1, <4>2, NoneAssumption
    <3>4. CASE t # u
      <4>1. out'[t] = out[t] /\ pc'[t] = pc[t]
        BY <3>1, <3>4 DEF Send, Goto, TypeOK
      <4>2. out[t] # None => out[t].n \in Nat
        BY DEF TypeOK, Message
      <4> QED
        BY <3>2, <4>1, <4>2 DEF SentInv
    <3> QED
      BY <3>3, <3>4
  <2>2. CASE /\ out' = out /\ sends' = sends
             /\ pc'[t] \in {"lockRemote", "write", "waitFinished"}
                  => pc[t] \in {"lockRemote", "write", "waitFinished"}
    BY <2>2 DEF SentInv
  <2>3. (\E u \in Threads : \E j \in Instances : Send(u, j)) \/ <2>2!1
    BY ThreadsOf DEF Next, SendStep, TimeOut, ReceiveStep, TypeOK, Goto, Register, StartReceiver,
     Destroy, EnterScript, LeaveScript, LockRemote, LockTimesOut, Write, WriteFails, Finished,
     FinishedTimesOut, Wake, LockLocal, Take, NullMessage, Deliver
  <2> QED
    BY <2>1, <2>2, <2>3
<1> QED
  BY <1>1, <1>2 DEF SentInv

(* What has arrived is lost only by a write over the mailbox it is in.     *)
LEMMA ArrivedKept ==
  ASSUME TypeOK, SentInv, OrderInv, Next, NEW j \in Instances, NEW m, Arrived(m, j),
         \A t \in Threads : Write(t) /\ Target(t) = j => m # mailbox[j]
  PROVE  Arrived(m, j)'
<1>1. Sent(m)'
  BY SentKept DEF Arrived
<1>2. ASSUME m \in lost' PROVE FALSE
  <2>1. m \notin lost
    BY DEF Arrived
  <2>2. PICK t \in Threads : Write(t) /\ m = mailbox[Target(t)] /\ m # None
    BY <1>2, <2>1, WrittenTwice
  <2>3. Target(t) \in Instances
    BY <2>2, Addressed DEF Write, Goto
  <2>4. Arrived(m, Target(t))
    BY <2>2, <2>3 DEF OrderInv, OrderAt
  <2>5. Target(t) = j
    BY <2>4 DEF Arrived
  <2> QED
    BY <2>2, <2>5
<1> QED
  BY <1>1, <1>2 DEF Arrived

(* A new message is later than all that has arrived from its sender.       *)
LEMMA NewIsLater ==
  ASSUME TypeOK, SentInv, NEW t \in Threads, pc[t] = "write", NEW m \in Message, Sent(m)
  PROVE  Before(m, out[t]) /\ m # out[t]
<1>1. out[t] \in Message /\ out[t].from = t
  BY Addressed
<1>2. Owner(m) = t[1] => m.n < out[t].n
  BY <1>1 DEF Sent
<1>3. out[t].n \in Nat /\ Owner(out[t]) = t[1]
  BY <1>1 DEF Message, Owner
<1> QED
  BY <1>2, <1>3 DEF Before

(* Order: delivered, then taken, then in the mailbox.                      *)
LEMMA KeepsOrder ==
  ASSUME TypeOK, ScriptInv, SentInv, OrderInv, Next, TypeOK'
  PROVE  OrderInv'
<1> SUFFICES ASSUME NEW j \in Instances PROVE OrderAt(j)'
  BY DEF OrderInv
<1>0. OrderAt(j)
  BY DEF OrderInv
<1>1. CASE \E t \in Threads : Write(t) /\ Target(t) = j
  <2>1. PICK t \in Threads : Write(t) /\ Target(t) = j
    BY <1>1
  <2>2. /\ out[t] \in Message /\ out[t].from = t /\ out[t].to = j /\ pc[t] = "write"
    BY <2>1, Addressed DEF Write, Goto, Target
  <2>3. /\ mailbox'[j] = out[t] /\ in' = in /\ delivered' = delivered /\ out' = out
        /\ pc'[t] = "waitFinished" /\ lost' = lost \cup ({mailbox[j]} \ {None})
        /\ \A u \in Threads : u # t => pc'[u] = pc[u]
    BY <2>1 DEF Write, Goto, TypeOK
  <2>4. \A m \in lost' : m \in Message /\ Sent(m)
    BY <2>3, <1>0 DEF OrderAt, Arrived, SentInv, TypeOK
  <2>5. out[t] \notin lost'
    BY <2>2, <2>4, NewIsLater
  <2>6. Arrived(out[t], j)'
    <3>1. out[t].n \in Nat /\ out[t] # None
      BY <2>2, NoneAssumption DEF Message
    <3>2. out[t].n <= sends /\ sends' = sends
      BY <2>1, <3>1 DEF SentInv, Write
    <3>3. ASSUME NEW u \in Threads, u[1] = Owner(out[t]), pc'[u] \in {"lockRemote", "write"}
          PROVE  FALSE
      <4>1. u # t /\ InScript(u) /\ InScript(t) /\ u[1] = t[1]
        BY <2>2, <2>3, <3>3 DEF InScript, Owner
      <4> QED
        BY <4>1, OneInScript
    <3>4. Sent(out[t])'
      BY <2>3, <3>2, <3>3 DEF Sent, Owner
    <3> QED
      BY <2>2, <2>3, <2>5, <3>4 DEF Arrived, Sent, Owner
  <2>7. ASSUME NEW m, Arrived(m, j), mailbox[j] # None => m # mailbox[j]
        PROVE  Arrived(m, j)' /\ Before(m, out[t])
    <3>1. m # None
      BY <2>7, NoneAssumption DEF Arrived
    <3>2. Arrived(m, j)'
      BY <2>7, <3>1, ArrivedKept
    <3> QED
      BY <2>2, <2>7, <3>2, NewIsLater DEF Arrived
  <2>8. ASSUME NEW m, Arrived(m, j), mailbox[j] # None, Before(m, mailbox[j])
        PROVE  m # mailbox[j]
    BY <2>8 DEF Before, Arrived, Message
  <2>9. Taken(j)' => Taken(j)
    BY <2>3, ThreadsOf DEF Taken
  <2>10. Taken(j)' => Arrived(in[j], j)' /\ Before(in[j], out[t])
    BY <1>0, <2>3, <2>7, <2>8, <2>9 DEF OrderAt, Arrived, Sent
  <2>11. \A k \in 1..Len(delivered[j]) :
            Arrived(delivered[j][k], j)' /\ Before(delivered[j][k], out[t])
    BY <1>0, <2>3, <2>7, <2>8 DEF OrderAt, Arrived, Sent
  <2> QED
    BY <1>0, <2>3, <2>6, <2>9, <2>10, <2>11 DEF OrderAt
<1> SUFFICES ASSUME ~(\E t \in Threads : Write(t) /\ Target(t) = j) PROVE OrderAt(j)'
  BY <1>1
<1>2. ASSUME NEW m, Arrived(m, j) PROVE Arrived(m, j)'
  BY <1>2, ArrivedKept
<1>3. CASE Take(j)
  <2>1. /\ mailbox[j] # None /\ mailbox'[j] = None /\ in'[j] = mailbox[j]
        /\ delivered' = delivered
    BY <1>3 DEF Take, HasMessage, TypeOK, history
  <2> QED
    BY <1>0, <1>2, <2>1 DEF OrderAt
<1>4. CASE Deliver(j)
  <2>1. /\ Taken(j) /\ ~Taken(j)' /\ mailbox' = mailbox
        /\ delivered'[j] = Append(delivered[j], in[j])
    BY <1>4, ThreadsOf DEF Deliver, Goto, Taken, TypeOK
  <2>2. /\ delivered[j] \in Seq(Message) /\ in[j] \in Message
    BY <1>0, <2>1 DEF OrderAt, Arrived, TypeOK
  <2>3. /\ Len(delivered'[j]) = Len(delivered[j]) + 1 /\ Len(delivered[j]) \in Nat
        /\ \A k \in 1..Len(delivered[j]) : delivered'[j][k] = delivered[j][k]
        /\ delivered'[j][Len(delivered[j]) + 1] = in[j]
    BY <2>1, <2>2
  <2>4. mailbox'[j] # None => Arrived(mailbox[j], j)'
    BY <1>0, <1>2, <2>1 DEF OrderAt, Arrived, Sent
  <2>5. \A k \in 1..Len(delivered'[j]) :
           /\ Arrived(delivered[j][k], j)'
           /\ mailbox'[j] # None => Before(delivered'[j][k], mailbox'[j])
    <3> SUFFICES ASSUME NEW k \in 1..Len(delivered'[j])
                 PROVE  /\ Arrived(delivered[j][k], j)'
                        /\ mailbox'[j] # None => Before(delivered'[j][k], mailbox'[j])
      OBVIOUS
    <3>1. CASE k = Len(delivered[j]) + 1
      BY <1>0, <1>2, <2>1, <2>3, <3>1 DEF OrderAt, Arrived, Sent
    <3>2. CASE k \in 1..Len(delivered[j])
      BY <1>0, <1>2, <2>1, <2>3, <3>2 DEF OrderAt, Arrived, Sent
    <3> QED
      BY <2>3, <3>1, <3>2
  <2>6. \A k, l \in 1..Len(delivered'[j]) :
           k < l => Before(delivered'[j][k], delivered'[j][l])
    <3> SUFFICES ASSUME NEW k \in 1..Len(delivered'[j]), NEW l \in 1..Len(delivered'[j]), k < l
                 PROVE  Before(delivered'[j][k], delivered'[j][l])
      OBVIOUS
    <3>1. k \in 1..Len(delivered[j])
      BY <2>3
    <3>2. CASE l = Len(delivered[j]) + 1
      BY <1>0, <2>1, <2>3, <3>1, <3>2 DEF OrderAt
    <3>3. CASE l \in 1..Len(delivered[j])
      BY <1>0, <2>3, <3>1, <3>3 DEF OrderAt
    <3> QED
      BY <2>3, <3>2, <3>3
  <2> QED
    BY <2>1, <2>4, <2>5, <2>6 DEF OrderAt
<1>5. CASE /\ UNCHANGED <<mailbox[j], in[j], delivered[j]>>
           /\ Taken(j)' => Taken(j)
  BY <1>0, <1>2, <1>5 DEF OrderAt
<1>6. Take(j) \/ Deliver(j) \/ <1>5!1
  <2>1. CASE \E i \in Instances : Take(i) \/ Deliver(i)
    <3>1. PICK i \in Instances : i # j => Take(i) \/ Deliver(i)
      BY <2>1
    <3> QED
      BY <2>1, <3>1, ThreadsOf DEF Take, Deliver, Goto, Taken, TypeOK, history
  <2>2. CASE \E t \in Threads : Write(t)
    <3>1. PICK t \in Threads : Write(t) /\ Target(t) # j /\ Target(t) \in Instances
      BY <2>2, Addressed DEF Write, Goto
    <3> QED
      BY <3>1, ThreadsOf DEF Write, Goto, Taken, TypeOK
  <2>3. CASE \E t \in Threads : \E i \in Instances : Send(t, i)
    BY <2>3, ThreadsOf DEF Send, Goto, Taken, TypeOK, history
  <2> QED
    BY <2>1, <2>2, <2>3, ThreadsOf DEF Taken, history, Next, SendStep, TimeOut, ReceiveStep, TypeOK, Goto, Register, StartReceiver,
     Destroy, EnterScript, LeaveScript, LockRemote, LockTimesOut, WriteFails, Finished,
     FinishedTimesOut, Wake, LockLocal, NullMessage
<1> QED
  BY <1>3, <1>4, <1>5, <1>6

(* "Finished" is about the message of the sender that waits.               *)
LEMMA KeepsWait ==
  ASSUME TypeOK, SentInv, OrderInv, WaitInv, Next, TypeOK'
  PROVE  WaitInv'
<1> SUFFICES ASSUME NEW t \in Threads, Answered(t)'
             PROVE  /\ out'[t] \notin lost'
                    /\ finished'[Target(t)'] => mailbox'[Target(t)'] # out'[t]
  BY DEF WaitInv
<1>1. CASE Write(t)
  <2>1. /\ out' = out /\ out[t] \in Message /\ Target(t) \in Instances /\ Target(t)' = Target(t)
    BY <1>1, Addressed DEF Write, Goto, Target
  <2>2. finished'[Target(t)] = FALSE
    BY <1>1, <2>1 DEF Write, TypeOK
  <2>3. \A m \in lost' : m \in Message /\ Sent(m)
    BY <1>1, <2>1 DEF Write, OrderInv, OrderAt, Arrived, SentInv, TypeOK
  <2>4. out[t] \notin lost'
    BY <1>1, <2>3, NewIsLater DEF Write, Goto
  <2> QED
    BY <2>1, <2>2, <2>4
<1>11. CASE WriteFails(t)
  <2>1. /\ out' = out /\ out[t] \in Message /\ Target(t) \in Instances /\ Target(t)' = Target(t)
        /\ pc[t] = "write" /\ lost' = lost
    BY <1>11, Addressed DEF WriteFails, Goto, Target
  <2>2. finished'[Target(t)] = FALSE
    BY <1>11, <2>1 DEF WriteFails, TypeOK
  <2>3. \A m \in lost' : m \in Message /\ Sent(m)
    BY <2>1 DEF SentInv, TypeOK
  <2>4. out[t] \notin lost'
    BY <2>1, <2>3, NewIsLater
  <2> QED
    BY <2>1, <2>2, <2>4
<1> SUFFICES ASSUME ~Write(t), ~WriteFails(t)
             PROVE  /\ out'[t] \notin lost'
                    /\ finished'[Target(t)'] => mailbox'[Target(t)'] # out'[t]
  BY <1>1, <1>11
<1>2. pc[t] = "waitFinished" /\ out'[t] = out[t] /\ Target(t)' = Target(t)
  <2>1. pc'[t] = "waitFinished"
    BY DEF Answered
  <2>2. CASE \E u \in Threads : \E j \in Instances : Send(u, j)
    BY <2>1, <2>2 DEF Send, Goto, TypeOK, Target
  <2>3. ASSUME out' = out PROVE pc[t] = "waitFinished"
    <3>1. ASSUME NEW u \in Threads, NEW s, NEW l, Goto(u, s, l), l # "waitFinished"
          PROVE  pc[t] = "waitFinished"
      BY <2>1, <3>1 DEF Goto, TypeOK
    <3>2. CASE \E u \in Threads : Write(u) \/ WriteFails(u)
      <4>1. PICK u \in Threads : (Write(u) \/ WriteFails(u)) /\ u # t
        BY <3>2
      <4> QED
        BY <2>1, <4>1 DEF Write, WriteFails, Goto, TypeOK
    <3>3. CASE ~(\E u \in Threads : Write(u) \/ WriteFails(u))
      BY <2>1, <2>3, <3>1, <3>3, ThreadsOf DEF Next, SendStep, TimeOut, ReceiveStep, Register,
         StartReceiver, Destroy, EnterScript, LeaveScript, LockRemote, LockTimesOut, Finished,
         FinishedTimesOut, Wake, LockLocal, Take, NullMessage, Deliver, Send
    <3> QED
      BY <3>2, <3>3
  <2> QED
    BY <2>2, <2>3 DEF Target, Next, SendStep, TimeOut, ReceiveStep, Register, StartReceiver,
       Destroy, EnterScript, LeaveScript, LockRemote, LockTimesOut, Write, WriteFails, Finished,
       FinishedTimesOut, Wake, LockLocal, Take, NullMessage, Deliver
<1>3. /\ out[t] \in Message /\ Target(t) \in Instances /\ out[t] # None
  BY <1>2, Addressed DEF SentInv
<1>4. overlapped \subseteq overlapped' /\ (phase[Target(t)] = "dead" => phase'[Target(t)] = "dead")
  BY <1>3 DEF history, Next, SendStep, TimeOut, ReceiveStep, TypeOK, Goto, Register, StartReceiver,
     Destroy, EnterScript, LeaveScript, LockRemote, LockTimesOut, WriteFails, Finished,
     FinishedTimesOut, Wake, LockLocal, NullMessage, Write, Take, Deliver, Send
<1>5. Answered(t)
  BY <1>2, <1>4 DEF Answered
<1>6. /\ out[t] \notin lost /\ (finished[Target(t)] => mailbox[Target(t)] # out[t])
  BY <1>5 DEF WaitInv
<1> DEFINE P == /\ out[t] \notin lost'
                /\ finished'[Target(t)] => mailbox'[Target(t)] # out[t]
<1> SUFFICES P
  BY <1>2
<1> HIDE DEF P
<1>7. CASE \E u \in Threads : Write(u)
  <2>1. PICK u \in Threads : Write(u)
    BY <1>7
  <2>2. /\ Target(u) \in Instances /\ mailbox' = [mailbox EXCEPT ![Target(u)] = out[u]]
        /\ finished' = [finished EXCEPT ![Target(u)] = FALSE]
        /\ lost' = lost \cup ({mailbox[Target(u)]} \ {None})
    BY <2>1, Addressed DEF Write, Goto
  <2>3. CASE Target(u) = Target(t)
    <3>1. t \in WaitingFor(Target(u))
      BY <1>2, <2>3 DEF WaitingFor
    <3>2. out[t] \in overlapped'
      BY <2>1, <3>1 DEF Write
    <3> QED
      BY <1>2, <3>2 DEF Answered
  <2>4. CASE Target(u) # Target(t)
    <3>1. mailbox[Target(u)] # None => mailbox[Target(u)].to = Target(u)
      BY <2>2 DEF OrderInv, OrderAt, Arrived
    <3>2. out[t] \notin lost'
      BY <1>3, <1>6, <2>2, <2>4, <3>1 DEF Target
    <3> QED
      BY <1>3, <1>6, <2>2, <2>4, <3>2 DEF P, TypeOK
  <2> QED
    BY <2>3, <2>4
<1>8. CASE \E i \in Instances : Take(i) \/ NullMessage(i)
  <2>1. PICK i \in Instances : Take(i) \/ NullMessage(i)
    BY <1>8
  <2>2. phase[Target(t)] # "dead"
    BY <1>5 DEF Answered
  <2>3. lost' = lost
    BY <2>1 DEF Take, NullMessage, history
  <2>4. CASE Target(t) = i
    BY <1>3, <1>6, <2>1, <2>2, <2>3, <2>4 DEF P, Take, NullMessage, HasMessage, TypeOK
  <2>5. CASE Target(t) # i
    BY <1>3, <1>6, <2>1, <2>3, <2>5 DEF P, Take, NullMessage, TypeOK
  <2> QED
    BY <2>4, <2>5
<1>9. CASE \E u \in Threads : Finished(u)
  <2>1. PICK u \in Threads : Finished(u)
    BY <1>9
  <2>2. Target(u) \in Instances
    BY <2>1, Addressed DEF Finished, Goto
  <2> QED
    BY <1>3, <1>6, <2>1, <2>2 DEF P, Finished, TypeOK
<1>10. CASE finished' = finished /\ mailbox' = mailbox /\ lost' = lost
  BY <1>6, <1>10 DEF P
<1>12. CASE \E u \in Threads : WriteFails(u)
  <2>1. PICK u \in Threads : WriteFails(u)
    BY <1>12
  <2>2. Target(u) \in Instances /\ mailbox' = mailbox /\ lost' = lost
    BY <2>1, Addressed DEF WriteFails, Goto
  <2> QED
    BY <1>3, <1>6, <2>1, <2>2 DEF P, WriteFails, TypeOK
<1> QED
  BY <1>7, <1>8, <1>9, <1>10, <1>12 DEF Next, SendStep, TimeOut, ReceiveStep, sync, history, Register,
     StartReceiver, Destroy, EnterScript, LeaveScript, Send, LockRemote, LockTimesOut,
     FinishedTimesOut, Wake, LockLocal, Deliver

(* Acknowledged is taken.                                                  *)
LEMMA KeepsAcked ==
  ASSUME TypeOK, SentInv, OrderInv, WaitInv, AckedIsTaken, Next, TypeOK'
  PROVE  AckedIsTaken'
<1> SUFFICES ASSUME NEW m \in acked' \ overlapped', m \in lost' \/ mailbox'[m.to] = m,
                    phase'[m.to] # "dead"
             PROVE  FALSE
  BY DEF AckedIsTaken
<1>1. m \in Message /\ m.to \in Instances /\ m # None
  BY NoneAssumption DEF TypeOK, Message
<1>2. m \notin overlapped /\ phase[m.to] # "dead"
  BY <1>1 DEF history, Next, SendStep, TimeOut, ReceiveStep, TypeOK, Goto, Register, StartReceiver,
     Destroy, EnterScript, LeaveScript, LockRemote, LockTimesOut, WriteFails, Finished,
     FinishedTimesOut, Wake, LockLocal, NullMessage, Write, Take, Deliver, Send
<1>3. CASE \E t \in Threads : Finished(t)
  <2>1. PICK t \in Threads : Finished(t)
    BY <1>3
  <2>2. lost' = lost /\ mailbox' = mailbox /\ acked' = acked \cup {out[t]}
    BY <2>1 DEF Finished
  <2>3. CASE m \in acked
    BY <1>2, <2>2, <2>3 DEF AckedIsTaken
  <2>4. CASE m = out[t]
    BY <1>2, <2>1, <2>2, <2>4 DEF WaitInv, Answered, Finished, Goto, Target
  <2> QED
    BY <2>2, <2>3, <2>4
<1>4. CASE acked' = acked
  <2>1. m \notin lost /\ mailbox[m.to] # m
    BY <1>2, <1>4 DEF AckedIsTaken
  <2>2. CASE \E t \in Threads : Write(t)
    <3>1. PICK t \in Threads : Write(t)
      BY <2>2
    <3>2. Target(t) \in Instances
      BY <3>1, Addressed DEF Write, Goto
    <3>3. m # out[t]
      BY <1>1, <1>4, <3>1, NewIsLater DEF SentInv, Write, Goto
    <3>4. mailbox[Target(t)] # None => mailbox[Target(t)].to = Target(t)
      BY <3>2 DEF OrderInv, OrderAt, Arrived
    <3> QED
      BY <1>1, <2>1, <3>1, <3>2, <3>3, <3>4 DEF Write, TypeOK
  <2>3. CASE lost' = lost /\ \A i \in Instances : mailbox'[i] \in {mailbox[i], None}
    BY <1>1, <2>1, <2>3
  <2> QED
    BY <2>2, <2>3 DEF history, Next, SendStep, TimeOut, ReceiveStep, TypeOK, Goto, Register, StartReceiver,
     Destroy, EnterScript, LeaveScript, LockRemote, LockTimesOut, WriteFails, Finished,
     FinishedTimesOut, Wake, LockLocal, NullMessage, Send, Take, Deliver
<1> QED
  BY <1>3, <1>4 DEF history, Next, SendStep, TimeOut, ReceiveStep, TypeOK, Goto, Register, StartReceiver,
     Destroy, EnterScript, LeaveScript, LockRemote, LockTimesOut, WriteFails, Finished,
     FinishedTimesOut, Wake, LockLocal, NullMessage, Write, Send, Take, Deliver

(* The invariant behind them all.                                          *)
THEOREM Invariance == Spec => []IInv
<1> USE NoneAssumption
<1>1. Init => IInv
  <2> SUFFICES ASSUME Init PROVE IInv
    OBVIOUS
  <2>1. TypeOK
    BY MaxSendsAssumption DEF Init, TypeOK
  <2>2. ScriptInv /\ SentInv /\ WaitInv /\ AckedIsTaken
    BY DEF Init, ScriptInv, InScript, SentInv, WaitInv, Answered, AckedIsTaken
  <2>3. OrderInv
    BY ThreadsOf DEF Init, OrderInv, OrderAt, Taken
  <2> QED
    BY <2>1, <2>2, <2>3 DEF IInv
<1>2. IInv /\ [Next]_vars => IInv'
  <2> SUFFICES ASSUME IInv, [Next]_vars PROVE IInv'
    OBVIOUS
  <2>1. CASE Next
    <3>1. TypeOK'
      BY <2>1, Typed DEF IInv
    <3> QED
      BY <2>1, <3>1, KeepsScript, KeepsSent, KeepsOrder, KeepsWait, KeepsAcked DEF IInv
  <2>2. CASE UNCHANGED vars
    BY <2>2 DEF vars, sync, history, IInv, TypeOK, ScriptInv, InScript, SentInv, Sent, OrderInv, OrderAt, Arrived,
       Taken, WaitInv, Answered, Target, AckedIsTaken
  <2> QED
    BY <2>1, <2>2
<1> QED
  BY <1>1, <1>2, PTL DEF Spec

(* The messages of a sender are handed over in order and once, and never   *)
(* after they were overwritten, for any number of instances.               *)
THEOREM MessagesInOrder == Spec => []OnceAndInOrder
<1>1. IInv => OnceAndInOrder
  <2> SUFFICES ASSUME TypeOK, OrderInv, NEW i \in Instances
               PROVE  /\ \A k, l \in DOMAIN delivered[i] :
                            k < l /\ Owner(delivered[i][k]) = Owner(delivered[i][l])
                               => delivered[i][k].n < delivered[i][l].n
                      /\ \A k \in DOMAIN delivered[i] : delivered[i][k] \notin lost
    BY DEF IInv, OnceAndInOrder
  <2>1. DOMAIN delivered[i] = 1..Len(delivered[i])
    BY DEF TypeOK
  <2> QED
    BY <2>1 DEF OrderInv, OrderAt, Before, Arrived
<1> QED
  BY <1>1, Invariance, PTL

(* What its sender saw finished, and nobody overlapped, was taken out of   *)
(* the mailbox and not overwritten, unless the receiver was going away.    *)
THEOREM FinishedIsTaken == Spec => []AckedIsTaken
<1>1. IInv => AckedIsTaken
  BY DEF IInv
<1> QED
  BY <1>1, Invariance, PTL

-----------------------------------------------------------------------------
(* What is underway is in one of three places.                             *)
Writing(t) == pc[t] \in {"lockRemote", "write"}
LEMMA WhereUnderway ==
  \A m : m \in Underway <=>
           /\ m # None
           /\ \/ \E t \in Threads : Writing(t) /\ m = out[t]
              \/ \E j \in Instances : m = mailbox[j]
              \/ \E j \in Instances : Taken(j) /\ m = in[j]
BY DEF Underway, Writing

(* The same, for the next state.                                           *)
LEMMA WhereUnderwayNext ==
  \A m : m \in Underway' <=>
           /\ m # None
           /\ \/ \E t \in Threads : Writing(t)' /\ m = out'[t]
              \/ \E j \in Instances : m = mailbox'[j]
              \/ \E j \in Instances : Taken(j)' /\ m = in'[j]
BY DEF Underway, Writing

(* A message is in one of these places only: what is about to be written   *)
(* is newer than all that arrived, and what is taken older than the        *)
(* mailbox.                                                                *)
LEMMA OnePlace ==
  ASSUME IInv
  PROVE  /\ \A t \in Threads : Writing(t) =>
              /\ out[t] \in Message /\ out[t] # None
              /\ \A u \in Threads : Writing(u) /\ out[u] = out[t] => u = t
              /\ \A j \in Instances : mailbox[j] # out[t] /\ (Taken(j) => in[j] # out[t])
         /\ \A j \in Instances : mailbox[j] # None =>
              \A i \in Instances : /\ mailbox[i] = mailbox[j] => i = j
                                   /\ Taken(i) => in[i] # mailbox[j]
         /\ \A j \in Instances : Taken(j) =>
              /\ in[j] # None
              /\ \A i \in Instances : Taken(i) /\ in[i] = in[j] => i = j
<1>1. ASSUME NEW t \in Threads, Writing(t)
      PROVE  /\ out[t] \in Message /\ out[t].from = t /\ out[t] # None
             /\ \A m \in Message : Sent(m) => m # out[t]
  <2>1. out[t] \in Message /\ out[t].from = t /\ out[t].n \in Nat /\ out[t] # None
    BY <1>1, Addressed, NoneAssumption DEF IInv, Writing, Message
  <2> QED
    BY <1>1, <2>1 DEF Sent, Owner, Writing
<1>2. ASSUME NEW j \in Instances, mailbox[j] # None
      PROVE  Arrived(mailbox[j], j)
  BY <1>2 DEF IInv, OrderInv, OrderAt
<1>3. ASSUME NEW j \in Instances, Taken(j)
      PROVE  Arrived(in[j], j) /\ in[j] # None
  BY <1>3, NoneAssumption DEF IInv, OrderInv, OrderAt, Arrived
<1>4. ASSUME NEW j \in Instances, Taken(j), mailbox[j] # None
      PROVE  in[j] # mailbox[j]
  <2>1. Before(in[j], mailbox[j]) /\ in[j] \in Message
    BY <1>3, <1>4 DEF IInv, OrderInv, OrderAt, Arrived
  <2> QED
    BY <2>1 DEF Before, Message
<1>5. \A t \in Threads : Writing(t) =>
        /\ out[t] \in Message /\ out[t] # None
        /\ \A u \in Threads : Writing(u) /\ out[u] = out[t] => u = t
        /\ \A j \in Instances : mailbox[j] # out[t] /\ (Taken(j) => in[j] # out[t])
  BY <1>1, <1>2, <1>3 DEF Arrived
<1>6. \A j \in Instances : mailbox[j] # None =>
        \A i \in Instances : /\ mailbox[i] = mailbox[j] => i = j
                             /\ Taken(i) => in[i] # mailbox[j]
  BY <1>2, <1>3, <1>4 DEF Arrived
<1>7. \A j \in Instances : Taken(j) =>
        /\ in[j] # None
        /\ \A i \in Instances : Taken(i) /\ in[i] = in[j] => i = j
  BY <1>3 DEF Arrived
<1> QED
  BY <1>5, <1>6, <1>7

(* Nothing is underway that is older than what was taken from the mailbox. *)
LEMMA TakenIsOldest ==
  ASSUME IInv, NEW i \in Instances, Taken(i), NEW l \in Underway, Channel!SameWay(in[i], l)
  PROVE  in[i].n <= l.n
<1>1. Arrived(in[i], i) /\ in[i].n \in Nat
  BY DEF IInv, OrderInv, OrderAt, Arrived, Message
<1>2. l # None /\ Owner(in[i]) = Owner(l) /\ l.to = i
  BY <1>1, WhereUnderway DEF Channel!SameWay, Owner, Arrived
<1>3. CASE \E t \in Threads : Writing(t) /\ l = out[t]
  <2>1. PICK t \in Threads : Writing(t) /\ l = out[t]
    BY <1>3
  <2>2. l.from = t /\ l.n \in Nat
    BY <2>1, Addressed DEF IInv, Writing, Message
  <2>3. in[i].n < out[t].n
    BY <1>1, <1>2, <2>1, <2>2 DEF Arrived, Sent, Writing, Owner
  <2> QED
    BY <1>1, <2>1, <2>2, <2>3
<1>4. CASE \E j \in Instances : l = mailbox[j]
  <2>1. PICK j \in Instances : l = mailbox[j]
    BY <1>4
  <2>2. Arrived(l, j) /\ l.n \in Nat
    BY <1>2, <2>1 DEF IInv, OrderInv, OrderAt, Arrived, Message
  <2>3. j = i
    BY <1>2, <2>2 DEF Arrived
  <2>4. Before(in[i], l)
    BY <1>2, <2>1, <2>3 DEF IInv, OrderInv, OrderAt
  <2> QED
    BY <1>1, <1>2, <2>2, <2>4 DEF Before
<1>5. CASE \E j \in Instances : Taken(j) /\ l = in[j]
  <2>1. PICK j \in Instances : Taken(j) /\ l = in[j]
    BY <1>5
  <2>2. j = i
    BY <1>2, <2>1 DEF IInv, OrderInv, OrderAt, Arrived
  <2> QED
    BY <1>1, <2>1, <2>2
<1> QED
  BY <1>3, <1>4, <1>5, WhereUnderway

(* Sending puts a message underway.                                        *)
LEMMA SendImplements ==
  ASSUME IInv, NEW t \in Threads, NEW j \in Instances, Send(t, j)
  PROVE  Channel!Send(t, j)
<1> DEFINE m == [n |-> sends', from |-> t, to |-> j]
<1>1. /\ out'[t] = m /\ pc'[t] = "lockRemote" /\ sends' = sends + 1 /\ UNCHANGED delivered
      /\ \A u \in Threads : u # t => out'[u] = out[u] /\ pc'[u] = pc[u]
      /\ mailbox' = mailbox /\ in' = in /\ \A i \in Instances : Taken(i)' <=> Taken(i)
  BY ThreadsOf DEF Send, Goto, IInv, TypeOK, Taken, history
<1>2. m # None
  <2>1. sends' \in 1..MaxSends
    BY MaxSendsAssumption DEF Send, IInv, TypeOK
  <2> QED
    BY <2>1, NoneAssumption DEF Message
<1>3. ~Writing(t) /\ Writing(t)' /\ \A u \in Threads : u # t => (Writing(u)' <=> Writing(u))
  BY <1>1 DEF Writing, Send, Goto
<1> HIDE DEF m
<1>4. \A l : l \in Underway' <=> l \in Underway \cup {m}
  BY <1>1, <1>2, <1>3, WhereUnderway, WhereUnderwayNext
<1>5. Underway' = Underway \cup {m}
  BY <1>4
<1> QED
  BY <1>1, <1>5 DEF Channel!Send, m

(* A message that is not sent in time, or cannot be written, is lost.      *)
LEMMA TimeOutLoses ==
  ASSUME IInv, NEW t \in Threads, LockTimesOut(t) \/ WriteFails(t)
  PROVE  out[t] \in Underway /\ Channel!Lose(out[t])
<1>1. /\ Writing(t) /\ ~Writing(t)'
      /\ \A u \in Threads : u # t => (Writing(u)' <=> Writing(u))
      /\ \A i \in Instances : Taken(i)' <=> Taken(i)
      /\ UNCHANGED <<out, mailbox, in, sends, delivered>>
  BY ThreadsOf DEF Writing, LockTimesOut, WriteFails, Goto, IInv, TypeOK, Taken, history
<1>2. \A l : l \in Underway' <=> l \in Underway /\ l # out[t]
  BY <1>1, OnePlace, WhereUnderway, WhereUnderwayNext
<1>3. Underway' = Underway \ {out[t]}
  BY <1>2
<1>4. out[t] \in Underway
  BY <1>1, OnePlace, WhereUnderway
<1> QED
  BY <1>1, <1>3, <1>4 DEF Channel!Lose

(* Writing loses what is in the mailbox, if there is something.            *)
LEMMA WriteImplements ==
  ASSUME IInv, NEW t \in Threads, Write(t)
  PROVE  \/ UNCHANGED Channel!vars
         \/ \E m \in Underway : Channel!Lose(m)
<1>1. PICK j \in Instances : j = Target(t)
  BY Addressed DEF Write, Goto, IInv
<1>2. /\ Writing(t) /\ ~Writing(t)'
      /\ \A u \in Threads : u # t => (Writing(u)' <=> Writing(u))
      /\ \A i \in Instances : Taken(i)' <=> Taken(i)
      /\ mailbox'[j] = out[t] /\ \A i \in Instances : i # j => mailbox'[i] = mailbox[i]
      /\ UNCHANGED <<out, in, sends, delivered>>
  BY <1>1, ThreadsOf DEF Writing, Write, Goto, IInv, TypeOK, Taken
<1>3. \A l : l \in Underway' <=> l \in Underway /\ l # mailbox[j]
  <2> SUFFICES ASSUME NEW l PROVE l \in Underway' <=> l \in Underway /\ l # mailbox[j]
    OBVIOUS
  <2>1. ASSUME l \in Underway' PROVE l \in Underway /\ l # mailbox[j]
    <3>1. l # None
      BY <2>1, WhereUnderwayNext
    <3>2. CASE \E u \in Threads : Writing(u)' /\ l = out'[u]
      BY <1>2, <3>1, <3>2, OnePlace, WhereUnderway
    <3>3. CASE \E i \in Instances : l = mailbox'[i]
      BY <1>2, <3>1, <3>3, OnePlace, WhereUnderway
    <3>4. CASE \E i \in Instances : Taken(i)' /\ l = in'[i]
      BY <1>2, <3>1, <3>4, OnePlace, WhereUnderway
    <3> QED
      BY <2>1, <3>2, <3>3, <3>4, WhereUnderwayNext
  <2>2. ASSUME l \in Underway, l # mailbox[j] PROVE l \in Underway'
    BY <1>2, <2>2, WhereUnderway, WhereUnderwayNext
  <2> QED
    BY <2>1, <2>2
<1>4. CASE mailbox[j] = None
  <2>1. Underway' = Underway
    BY <1>3, <1>4, WhereUnderway
  <2> QED
    BY <1>2, <2>1 DEF Channel!vars
<1>5. CASE mailbox[j] # None
  <2>1. mailbox[j] \in Underway
    BY <1>5, WhereUnderway
  <2>2. Underway' = Underway \ {mailbox[j]}
    BY <1>3
  <2> QED
    BY <1>2, <2>1, <2>2 DEF Channel!Lose
<1> QED
  BY <1>4, <1>5

(* Taking a message only moves it.                                         *)
LEMMA TakeImplements ==
  ASSUME IInv, NEW i \in Instances, Take(i)
  PROVE  UNCHANGED Channel!vars
<1>1. /\ ~Taken(i) /\ Taken(i)' /\ mailbox[i] # None /\ in'[i] = mailbox[i] /\ mailbox'[i] = None
      /\ \A j \in Instances : j # i => /\ Taken(j)' <=> Taken(j)
                                       /\ in'[j] = in[j] /\ mailbox'[j] = mailbox[j]
      /\ \A t \in Threads : Writing(t)' <=> Writing(t)
      /\ UNCHANGED <<out, sends, delivered>>
  BY ThreadsOf DEF Take, HasMessage, Writing, Goto, IInv, TypeOK, Taken, history
<1>2. \A l : l \in Underway' <=> l \in Underway
  BY <1>1, WhereUnderway, WhereUnderwayNext
<1>3. Underway' = Underway
  BY <1>2
<1> QED
  BY <1>1, <1>3 DEF Channel!vars

(* messageCallback hands a message over, the oldest of its way.            *)
LEMMA DeliverImplements ==
  ASSUME IInv, NEW i \in Instances, Deliver(i)
  PROVE  in[i] \in Underway /\ Channel!HandOver(in[i])
<1>1. /\ Taken(i) /\ ~Taken(i)'
      /\ \A j \in Instances : j # i => (Taken(j)' <=> Taken(j))
      /\ \A t \in Threads : Writing(t)' <=> Writing(t)
      /\ UNCHANGED <<out, in, mailbox, sends>>
      /\ delivered' = [delivered EXCEPT ![i] = Append(@, in[i])]
  BY ThreadsOf DEF Deliver, Writing, Goto, IInv, TypeOK, Taken
<1>2. in[i].to = i
  BY <1>1 DEF IInv, OrderInv, OrderAt, Arrived
<1>3. \A l : l \in Underway' <=> l \in Underway /\ l # in[i]
  BY <1>1, OnePlace, WhereUnderway, WhereUnderwayNext
<1>4. Underway' = Underway \ {in[i]}
  BY <1>3
<1>5. in[i] \in Underway
  BY <1>1, OnePlace, WhereUnderway
<1>6. \A l \in Underway : Channel!SameWay(in[i], l) => in[i].n <= l.n
  BY <1>1, TakenIsOldest
<1> QED
  BY <1>1, <1>2, <1>4, <1>5, <1>6 DEF Channel!HandOver

(* All other steps are none of the channel's.                              *)
LEMMA OthersImplement ==
  ASSUME IInv, UNCHANGED <<out, mailbox, in, sends, delivered>>,
         \A t \in Threads : Writing(t)' <=> Writing(t),
         \A i \in Instances : Taken(i)' <=> Taken(i)
  PROVE  UNCHANGED Channel!vars
<1>1. \A l : l \in Underway' <=> l \in Underway
  BY WhereUnderway, WhereUnderwayNext
<1>2. Underway' = Underway
  BY <1>1
<1> QED
  BY <1>2 DEF Channel!vars

(* Every step is one of the channel, or none.                              *)
LEMMA ChannelStep ==
  ASSUME IInv, [Next]_vars
  PROVE  [Channel!Next]_(Channel!vars)
<1>1. CASE \E t \in Threads : \E j \in Instances : Send(t, j)
  BY <1>1, SendImplements DEF Channel!Next
<1>2. CASE \E t \in Threads : LockTimesOut(t) \/ WriteFails(t)
  BY <1>2, TimeOutLoses DEF Channel!Next
<1>3. CASE \E t \in Threads : Write(t)
  BY <1>3, WriteImplements DEF Channel!Next
<1>4. CASE \E i \in Instances : Take(i)
  BY <1>4, TakeImplements
<1>5. CASE \E i \in Instances : Deliver(i)
  BY <1>5, DeliverImplements DEF Channel!Next
<1> DEFINE Same == /\ UNCHANGED <<out, mailbox, in, sends, delivered>>
                   /\ \A t \in Threads : Writing(t)' <=> Writing(t)
                   /\ \A i \in Instances : Taken(i)' <=> Taken(i)
<1>6. ASSUME NEW u \in Threads, NEW s, NEW l, Goto(u, s, l),
             UNCHANGED <<out, mailbox, in, sends, delivered>>,
             (s \in {"lockRemote", "write"}) <=> (l \in {"lockRemote", "write"}),
             s # "deliver", l # "deliver"
      PROVE  Same
  BY <1>6, ThreadsOf DEF Goto, IInv, TypeOK, Writing, Taken
<1>7. ASSUME \E i \in Instances : StartReceiver(i) \/ EnterScript(i) \/ Wake(i) \/ LockLocal(i)
                                  \/ NullMessage(i)
      PROVE  Same
  BY <1>6, <1>7, ThreadsOf DEF StartReceiver, EnterScript, Wake, LockLocal, NullMessage, history
<1>8. ASSUME \E t \in Threads : LeaveScript(t) \/ LockRemote(t) \/ Finished(t) \/ FinishedTimesOut(t)
      PROVE  Same
  BY <1>6, <1>8 DEF LeaveScript, LockRemote, Finished, FinishedTimesOut, history
<1>9. ASSUME UNCHANGED vars \/ \E i \in Instances : Register(i) \/ Destroy(i)
      PROVE  Same
  BY <1>9 DEF vars, Register, Destroy, history, Writing, Taken
<1>10. Same => UNCHANGED Channel!vars
  BY OthersImplement
<1> QED
  BY <1>1, <1>2, <1>3, <1>4, <1>5, <1>7, <1>8, <1>9, <1>10
     DEF Next, SendStep, TimeOut, ReceiveStep

(* The mailboxes implement the channel that the scripts are told of:       *)
(* whatever times out or is overwritten, no message is invented, repeated, *)
(* misdirected or handed over after a later one of the same instance.      *)
THEOREM Refinement == Spec => ImplementsChannel
<1>1. Init => Channel!Init
  <2> SUFFICES ASSUME Init PROVE Channel!Init
    OBVIOUS
  <2>1. Underway = {}
    BY WhereUnderway, ThreadsOf DEF Init, Writing, Taken
  <2> QED
    BY <2>1 DEF Init, Channel!Init
<1>2. IInv /\ [Next]_vars => [Channel!Next]_(Channel!vars)
  BY ChannelStep
<1> QED
  BY <1>1, <1>2, Invariance, PTL DEF Spec, ImplementsChannel, Channel!Spec
===============================================================================
