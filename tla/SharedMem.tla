------------------------------ MODULE SharedMem ------------------------------
(***************************************************************************)
(* Messages between plugin instances through shared memory (class          *)
(* SharedMem, src/sharedmem.cpp).  Every instance has a mailbox for one    *)
(* message, guarded by a named mutex, an auto-reset event that wakes its   *)
(* receive thread and an auto-reset event the senders wait on.  A message  *)
(* is sent by a script, which runs in a host thread or, when it answers a  *)
(* message, in the receive thread, and holds its instance's lua lock all   *)
(* the while.                                                              *)
(***************************************************************************)
EXTENDS Naturals, Sequences

CONSTANTS Instances,
          None,      \* no message, no thread
          MaxSends   \* bound: messages sent in a run

ASSUME MaxSendsAssumption == MaxSends \in Nat

Script(i) == <<i, "script">>
Receiver(i) == <<i, "receiver">>
Threads == {Script(i) : i \in Instances} \cup {Receiver(i) : i \in Instances}

VARIABLES phase,      \* new, registered, live, dead
          mailbox,    \* mappedData: the message or None
          mutex,      \* localMutex: the thread that owns it or None
          event,      \* localEvent
          finished,   \* localFinishedEvent
          luaLock,    \* the instance's exlock
          pc,
          out,        \* per thread: the message it is sending
          in,         \* per instance: the message its receiver has copied
          sends,      \* messages sent so far
          \* history
          delivered,  \* per instance: what messageCallback was given
          lost,       \* messages overwritten in a mailbox
          acked,      \* messages whose sender was told "finished"
          overlapped  \* messages written while another sender to the same
                      \* mailbox was still waiting

sync == <<mutex, event, finished>>
history == <<delivered, lost, acked, overlapped>>
vars == <<phase, mailbox, sync, luaLock, pc, out, in, sends, history>>

(* A message is its number with sender and receiver.                       *)
Message == [n : 1..MaxSends, from : Threads, to : Instances]

ASSUME NoneAssumption == None \notin Threads /\ None \notin Message

Init ==
    /\ phase = [i \in Instances |-> "new"]
    /\ mailbox = [i \in Instances |-> None]
    /\ mutex = [i \in Instances |-> None]
    /\ event = [i \in Instances |-> FALSE]
    /\ finished = [i \in Instances |-> FALSE]
    /\ luaLock = [i \in Instances |-> None]
    /\ pc = [t \in Threads |-> "idle"]
    /\ out = [t \in Threads |-> None]
    /\ in = [i \in Instances |-> None]
    /\ sends = 0
    /\ delivered = [i \in Instances |-> <<>>]
    /\ lost = {} /\ acked = {} /\ overlapped = {}

Goto(t, from, to) ==
    /\ pc[t] = from
    /\ pc' = [pc EXCEPT ![t] = to]

-----------------------------------------------------------------------------
(* The constructor registers the instance under the global mutex, then     *)
(* starts its receive thread.                                              *)
Register(i) ==
    /\ phase[i] = "new"
    /\ phase' = [phase EXCEPT ![i] = "registered"]
    /\ UNCHANGED <<mailbox, sync, luaLock, pc, out, in, sends, history>>

StartReceiver(i) ==
    /\ phase[i] = "registered"
    /\ phase' = [phase EXCEPT ![i] = "live"]
    /\ Goto(Receiver(i), "idle", "poll")
    /\ UNCHANGED <<mailbox, sync, luaLock, out, in, sends, history>>

(* The destructor, after the host's last call: alive = receiving = 0, and  *)
(* localEvent is set to let the loop exit.                                 *)
Destroy(i) ==
    /\ phase[i] = "live"
    /\ pc[Script(i)] = "idle"
    /\ phase' = [phase EXCEPT ![i] = "dead"]
    /\ event' = [event EXCEPT ![i] = TRUE]
    /\ UNCHANGED <<mailbox, mutex, finished, luaLock, pc, out, in, sends, history>>

Registered(i) == phase[i] \in {"registered", "live"}

-----------------------------------------------------------------------------
(* A host thread enters the script, and leaves it again.                   *)
EnterScript(i) ==
    /\ phase[i] = "live"
    /\ luaLock[i] = None
    /\ Goto(Script(i), "idle", "lua")
    /\ luaLock' = [luaLock EXCEPT ![i] = Script(i)]
    /\ UNCHANGED <<phase, mailbox, sync, out, in, sends, history>>

LeaveScript(t) ==
    /\ Goto(t, "lua", IF t = Script(t[1]) THEN "idle" ELSE "poll")
    /\ luaLock' = [luaLock EXCEPT ![t[1]] = None]
    /\ UNCHANGED <<phase, mailbox, sync, out, in, sends, history>>

-----------------------------------------------------------------------------
(* sendToInstance.  A name that is not registered and alive is dropped.    *)
Send(t, j) ==
    /\ sends < MaxSends
    /\ Registered(j)
    /\ Goto(t, "lua", "lockRemote")
    /\ sends' = sends + 1
    /\ out' = [out EXCEPT ![t] = [n |-> sends', from |-> t, to |-> j]]
    /\ UNCHANGED <<phase, mailbox, sync, luaLock, in, history>>

Target(t) == out[t].to

LockRemote(t) ==
    /\ Goto(t, "lockRemote", "write")
    /\ mutex[Target(t)] = None
    /\ mutex' = [mutex EXCEPT ![Target(t)] = t]
    /\ UNCHANGED <<phase, mailbox, event, finished, luaLock, out, in, sends, history>>

\* 100 ms are over: the message is not sent.
LockTimesOut(t) ==
    /\ Goto(t, "lockRemote", "lua")
    /\ UNCHANGED <<phase, mailbox, sync, luaLock, out, in, sends, history>>

WaitingFor(j) == {u \in Threads : pc[u] = "waitFinished" /\ Target(u) = j}

\* mutant of Write: "finished" is not reset before the wait
WriteKeepsFinished(t) ==
    /\ Goto(t, "write", "waitFinished")
    /\ mailbox' = [mailbox EXCEPT ![Target(t)] = out[t]]
    /\ lost' = lost \cup ({mailbox[Target(t)]} \ {None})
    /\ overlapped' = IF WaitingFor(Target(t)) = {} THEN overlapped
                     ELSE overlapped \cup {out[t]} \cup {out[u] : u \in WaitingFor(Target(t))}
    /\ event' = [event EXCEPT ![Target(t)] = TRUE]
    /\ mutex' = [mutex EXCEPT ![Target(t)] = None]
    /\ UNCHANGED <<phase, finished, luaLock, out, in, sends, delivered, acked>>

\* strcpy over whatever is there, ResetEvent(finished), SetEvent, ReleaseMutex.
Write(t) ==
    /\ Goto(t, "write", "waitFinished")
    /\ mailbox' = [mailbox EXCEPT ![Target(t)] = out[t]]
    /\ lost' = lost \cup ({mailbox[Target(t)]} \ {None})
    /\ overlapped' = IF WaitingFor(Target(t)) = {} THEN overlapped
                     ELSE overlapped \cup {out[t]} \cup {out[u] : u \in WaitingFor(Target(t))}
    /\ finished' = [finished EXCEPT ![Target(t)] = FALSE]
    /\ event' = [event EXCEPT ![Target(t)] = TRUE]
    /\ mutex' = [mutex EXCEPT ![Target(t)] = None]
    /\ UNCHANGED <<phase, luaLock, out, in, sends, delivered, acked>>

\* the mapping cannot be opened: all but the message
WriteFails(t) ==
    /\ Goto(t, "write", "waitFinished")
    /\ overlapped' = IF WaitingFor(Target(t)) = {} THEN overlapped
                     ELSE overlapped \cup {out[t]} \cup {out[u] : u \in WaitingFor(Target(t))}
    /\ finished' = [finished EXCEPT ![Target(t)] = FALSE]
    /\ event' = [event EXCEPT ![Target(t)] = TRUE]
    /\ mutex' = [mutex EXCEPT ![Target(t)] = None]
    /\ UNCHANGED <<phase, mailbox, luaLock, out, in, sends, delivered, lost, acked>>

Finished(t) ==
    /\ Goto(t, "waitFinished", "lua")
    /\ finished[Target(t)]
    /\ finished' = [finished EXCEPT ![Target(t)] = FALSE]
    /\ acked' = acked \cup {out[t]}
    /\ UNCHANGED <<phase, mailbox, mutex, event, luaLock, out, in, sends,
                   delivered, lost, overlapped>>

\* mutant of FinishedTimesOut: the message is sent again
FinishedRetries(t) ==
    /\ Goto(t, "waitFinished", "lockRemote")
    /\ UNCHANGED <<phase, mailbox, sync, luaLock, out, in, sends, history>>

\* 150 ms are over.
FinishedTimesOut(t) ==
    /\ Goto(t, "waitFinished", "lua")
    /\ UNCHANGED <<phase, mailbox, sync, luaLock, out, in, sends, history>>

-----------------------------------------------------------------------------
(* receivePoll *)
Wake(i) ==
    /\ event[i]
    /\ Goto(Receiver(i), "poll", IF phase[i] = "dead" THEN "ended" ELSE "lockLocal")
    /\ event' = [event EXCEPT ![i] = FALSE]
    /\ UNCHANGED <<phase, mailbox, mutex, finished, luaLock, out, in, sends, history>>

LockLocal(i) ==
    /\ mutex[i] = None
    /\ Goto(Receiver(i), "lockLocal", "take")
    /\ mutex' = [mutex EXCEPT ![i] = Receiver(i)]
    /\ UNCHANGED <<phase, mailbox, event, finished, luaLock, out, in, sends, history>>

\* mutant of HasMessage: a spurious wake-up is taken for a message
HasMessageIfAlive(i) == phase[i] # "dead"

HasMessage(i) == phase[i] # "dead" /\ mailbox[i] # None

\* Copy, clear, SetEvent(finished), ReleaseMutex.
Take(i) ==
    /\ HasMessage(i)
    /\ Goto(Receiver(i), "take", "deliver")
    /\ in' = [in EXCEPT ![i] = mailbox[i]]
    /\ mailbox' = [mailbox EXCEPT ![i] = None]
    /\ finished' = [finished EXCEPT ![i] = TRUE]
    /\ mutex' = [mutex EXCEPT ![i] = None]
    /\ UNCHANGED <<phase, event, luaLock, out, sends, history>>

NullMessage(i) ==
    /\ ~HasMessage(i)
    /\ Goto(Receiver(i), "take", IF phase[i] = "dead" THEN "ended" ELSE "poll")
    /\ finished' = [finished EXCEPT ![i] = TRUE]
    /\ mutex' = [mutex EXCEPT ![i] = None]
    /\ UNCHANGED <<phase, mailbox, event, luaLock, out, in, sends, history>>

\* mutant of Deliver: localEvent is reset once the message has been dealt with
DeliverResetsEvent(i) ==
    /\ luaLock[i] = None
    /\ Goto(Receiver(i), "deliver", "lua")
    /\ luaLock' = [luaLock EXCEPT ![i] = Receiver(i)]
    /\ delivered' = [delivered EXCEPT ![i] = Append(@, in[i])]
    /\ event' = [event EXCEPT ![i] = FALSE]
    /\ UNCHANGED <<phase, mailbox, mutex, finished, out, in, sends, lost, acked, overlapped>>

\* messageCallback: the script runs in the receive thread.
Deliver(i) ==
    /\ luaLock[i] = None
    /\ Goto(Receiver(i), "deliver", "lua")
    /\ luaLock' = [luaLock EXCEPT ![i] = Receiver(i)]
    /\ delivered' = [delivered EXCEPT ![i] = Append(@, in[i])]
    /\ UNCHANGED <<phase, mailbox, sync, out, in, sends, lost, acked, overlapped>>

-----------------------------------------------------------------------------
SendStep(t) == LockRemote(t) \/ Write(t) \/ WriteFails(t) \/ Finished(t)
TimeOut(t) == LockTimesOut(t) \/ FinishedTimesOut(t)
ReceiveStep(i) == Wake(i) \/ LockLocal(i) \/ Take(i) \/ NullMessage(i) \/ Deliver(i)

Next ==
    \/ \E i \in Instances :
          Register(i) \/ StartReceiver(i) \/ Destroy(i) \/ EnterScript(i) \/ ReceiveStep(i)
    \/ \E t \in Threads :
          LeaveScript(t) \/ SendStep(t) \/ TimeOut(t) \/ \E j \in Instances : Send(t, j)

Spec == Init /\ [][Next]_vars

(* Threads run on, waits end by their timeouts at the latest, callbacks    *)
(* return, and no waiter for a mutex is passed over for ever.              *)
Fairness ==
    /\ \A i \in Instances :
          /\ WF_vars(StartReceiver(i)) /\ WF_vars(Wake(i))
          /\ WF_vars(Take(i) \/ NullMessage(i))
          /\ SF_vars(LockLocal(i)) /\ SF_vars(Deliver(i))
    /\ \A t \in Threads : WF_vars(SendStep(t) \/ TimeOut(t)) /\ SF_vars(LeaveScript(t))

FairSpec == Spec /\ Fairness

-----------------------------------------------------------------------------
TypeOK ==
    /\ phase \in [Instances -> {"new", "registered", "live", "dead"}]
    /\ mailbox \in [Instances -> Message \cup {None}]
    /\ mutex \in [Instances -> Threads \cup {None}]
    /\ event \in [Instances -> BOOLEAN]
    /\ finished \in [Instances -> BOOLEAN]
    /\ luaLock \in [Instances -> Threads \cup {None}]
    /\ pc \in [Threads -> {"idle", "lua", "lockRemote", "write", "waitFinished",
                           "poll", "lockLocal", "take", "deliver", "ended"}]
    /\ out \in [Threads -> Message \cup {None}]
    /\ in \in [Instances -> Message \cup {None}]
    /\ sends \in 0..MaxSends
    /\ delivered \in [Instances -> Seq(Message)]
    /\ lost \subseteq Message /\ acked \subseteq Message /\ overlapped \subseteq Message

(* What the scripts of one instance send to another, in whichever thread,  *)
(* is handed to messageCallback in the order it was sent and never twice,  *)
(* whatever times out; what was overwritten in the mailbox never is.       *)
Owner(m) == m.from[1]
OnceAndInOrder == \A i \in Instances :
    /\ \A k, l \in DOMAIN delivered[i] :
          k < l /\ Owner(delivered[i][k]) = Owner(delivered[i][l])
             => delivered[i][k].n < delivered[i][l].n
    /\ \A k \in DOMAIN delivered[i] : delivered[i][k] \notin lost

(* The wait for "finished" means something: a message that was written,    *)
(* whose sender was released by it, and that no other sender to the same   *)
(* mailbox overlapped, has been taken and not overwritten, even when an    *)
(* earlier send had timed out and its late "finished" was still to come.   *)
(* But an instance that is being destroyed acknowledges without taking, and*)
(* what it left in its mailbox may still be overwritten by who was about to*)
(* write; and what could not be written is acknowledged all the same.      *)
AckedIsTaken == \A m \in acked \ overlapped :
    m \in lost \/ mailbox[m.to] = m => phase[m.to] = "dead"

(* The mailbox is never forgotten: a message in it is taken, or            *)
(* overwritten, or the instance goes away.                                 *)
MailboxEmptied == \A i \in Instances :
    mailbox[i] # None ~> mailbox[i] = None \/ phase[i] = "dead"

-----------------------------------------------------------------------------
(* The inductive invariant.  The lua lock is held from the call of the     *)
(* script to its end, so an instance sends one message after the other.    *)
InScript(t) == pc[t] \in {"lua", "lockRemote", "write", "waitFinished"}
ScriptInv == \A t \in Threads : InScript(t) => luaLock[t[1]] = t

\* older than what its instance is about to write
Sent(m) ==
    /\ m.n <= sends
    /\ \A t \in Threads : t[1] = Owner(m) /\ pc[t] \in {"lockRemote", "write"}
                            => m.n < out[t].n

SentInv ==
    /\ \A t \in Threads :
          /\ pc[t] \in {"lockRemote", "write", "waitFinished"} => out[t] # None
          /\ out[t] # None => out[t].from = t /\ out[t].n <= sends
    /\ \A m \in lost \cup acked : Sent(m)

Before(m, l) == Owner(m) = Owner(l) => m.n < l.n
Arrived(m, j) == m \in Message /\ m.to = j /\ Sent(m) /\ m \notin lost
Taken(j) == pc[Receiver(j)] = "deliver"

\* what was delivered came before what is taken, and that before the mailbox
OrderAt(j) ==
    /\ mailbox[j] # None => Arrived(mailbox[j], j)
    /\ Taken(j) => /\ Arrived(in[j], j)
                   /\ mailbox[j] # None => Before(in[j], mailbox[j])
    /\ \A k \in 1..Len(delivered[j]) :
          /\ Arrived(delivered[j][k], j)
          /\ mailbox[j] # None => Before(delivered[j][k], mailbox[j])
          /\ Taken(j) => Before(delivered[j][k], in[j])
    /\ \A k, l \in 1..Len(delivered[j]) :
          k < l => Before(delivered[j][k], delivered[j][l])
OrderInv == \A j \in Instances : OrderAt(j)

\* a waiting sender that was not overlapped: "finished" is about its message
Answered(t) == pc[t] = "waitFinished" /\ out[t] \notin overlapped /\ phase[Target(t)] # "dead"
WaitInv == \A t \in Threads : Answered(t) =>
    /\ out[t] \notin lost
    /\ finished[Target(t)] => mailbox[Target(t)] # out[t]

IInv == TypeOK /\ ScriptInv /\ SentInv /\ OrderInv /\ WaitInv /\ AckedIsTaken

-----------------------------------------------------------------------------
(* Messages that may still be handed over: about to be written, in a       *)
(* mailbox, or taken.                                                      *)
Underway ==
    ({out[t] : t \in {u \in Threads : pc[u] \in {"lockRemote", "write"}}}
     \cup {mailbox[j] : j \in Instances}
     \cup {in[j] : j \in {i \in Instances : Taken(i)}}) \ {None}

(* What the scripts rely on: the mailboxes, with their timeouts and        *)
(* overwritten messages, are a channel that loses messages, but invents,   *)
(* repeats, misdirects or reorders none.                                   *)
Channel == INSTANCE LossyChannel WITH underway <- Underway
ImplementsChannel == Channel!Spec
=============================================================================
