--------------------------- MODULE Scheduler_proofs ---------------------------
(***************************************************************************)
(* Proofs about Scheduler for any number of events, any delays, any lengths*)
(* of frames and any number of callbacks that are cut short.               *)
(***************************************************************************)
EXTENDS Scheduler, FiniteSetTheorems, TLAPS

(* A list in another order: the same events, and in order by delta if it   *)
(* is sorted.                                                              *)
Sorted(q) == \A k, l \in 1..Len(q) : k < l => q[k].delta <= q[l].delta
Among(r, q) ==
    /\ Len(r) = Len(q)
    /\ \A k \in 1..Len(r) : \E l \in 1..Len(q) : r[k] = q[l]
    /\ \A l \in 1..Len(q) : \E k \in 1..Len(r) : r[k] = q[l]
    /\ (\A k, l \in 1..Len(q) : q[k].id = q[l].id => k = l)
          => \A k, l \in 1..Len(r) : r[k].id = r[l].id => k = l

LEMMA Ordered ==
  ASSUME NEW q \in Seq(Event), NEW r \in Orders(q)
  PROVE  r \in Seq(Event) /\ Among(r, q)
<1>1. PICK n \in Nat : n = Len(q) /\ DOMAIN q = 1..n
  OBVIOUS
<1>2. PICK p \in Bijection(1..n, 1..n) : r = [k \in 1..n |-> q[p[k]]]
  BY <1>1 DEF Orders
<1>3. /\ p \in [1..n -> 1..n]
      /\ \A k, l \in 1..n : p[k] = p[l] => k = l
      /\ \A l \in 1..n : \E k \in 1..n : p[k] = l
  BY DEF Bijection, Injection, Surjection, IsInjective
<1>4. r \in [1..n -> Event]
  BY <1>1, <1>2, <1>3
<1>5. r \in Seq(Event) /\ Len(r) = n
  BY <1>4
<1>6. \A k \in 1..n : p[k] \in 1..n /\ r[k] = q[p[k]]
  BY <1>2, <1>3
<1>7. ASSUME NEW l \in 1..n
      PROVE  \E k \in 1..n : r[k] = q[l]
  <2>1. PICK k \in 1..n : p[k] = l
    BY <1>3
  <2> QED
    BY <1>6, <2>1
<1>8. ASSUME \A k, l \in 1..n : q[k].id = q[l].id => k = l,
             NEW k \in 1..n, NEW l \in 1..n, r[k].id = r[l].id
      PROVE  k = l
  <2>1. p[k] = p[l]
    BY <1>6, <1>8
  <2> QED
    BY <1>3, <2>1
<1> QED
  BY <1>1, <1>5, <1>6, <1>7, <1>8 DEF Among

LEMMA Sorts ==
  ASSUME NEW q \in Seq(Event), NEW r \in sort(q)
  PROVE  r \in Seq(Event) /\ Sorted(r) /\ Among(r, q)
<1>1. r \in Orders(q) /\ InOrder(r)
  BY DEF sort
<1>2. r \in Seq(Event) /\ Among(r, q)
  BY <1>1, Ordered
<1>3. \A k \in 1..Len(r) : r[k] \in Event /\ r[k].delta \in Nat
  <2>1. \A e \in Event : e.delta \in Nat
    BY WindowsAssumption DEF Event
  <2> QED
    BY <1>2, <2>1
<1>4. DOMAIN r = 1..Len(r)
  BY <1>2
<1>5. Sorted(r)
  BY <1>1, <1>3, <1>4 DEF InOrder, eventCompare, Sorted
<1> QED
  BY <1>2, <1>5

(* Time goes on: deltas and numbers stay, what is left gets less.          *)
LEMMA Laters ==
  ASSUME NEW q \in Seq(Event), NEW n \in Windows
  PROVE  /\ Later(q, n) \in Seq(Event) /\ Len(Later(q, n)) = Len(q)
         /\ \A k \in 1..Len(q) :
               /\ Later(q, n)[k].id = q[k].id /\ Later(q, n)[k].delta = q[k].delta
               /\ Later(q, n)[k].left = IF q[k].left - n < -MaxLate THEN -MaxLate
                                        ELSE q[k].left - n
<1> DEFINE r == Later(q, n)
<1> USE BoundsAssumption, WindowsAssumption
<1>1. PICK m \in Nat : m = Len(q) /\ DOMAIN q = 1..m
  OBVIOUS
<1>2. r = [k \in 1..m |-> [q[k] EXCEPT !.left = IF @ - n < -MaxLate THEN -MaxLate ELSE @ - n]]
  BY <1>1 DEF Later
<1>3. ASSUME NEW k \in 1..m
      PROVE  /\ r[k] \in Event
             /\ r[k].id = q[k].id /\ r[k].delta = q[k].delta
             /\ r[k].left = IF q[k].left - n < -MaxLate THEN -MaxLate ELSE q[k].left - n
  <2>1. q[k] \in Event
    BY <1>1
  <2>2. r[k] = [q[k] EXCEPT !.left = IF @ - n < -MaxLate THEN -MaxLate ELSE @ - n]
    BY <1>2
  <2>3. n \in Nat /\ MaxLate \in Nat /\ MaxDelta \in Nat
    OBVIOUS
  <2> DEFINE new == IF q[k].left - n < -MaxLate THEN -MaxLate ELSE q[k].left - n
  <2>4. q[k].left \in (-MaxLate)..MaxDelta
    BY <2>1 DEF Event
  <2>5. new \in (-MaxLate)..MaxDelta
    BY <2>3, <2>4
  <2> HIDE DEF r, new
  <2>6. r[k] = [q[k] EXCEPT !.left = new]
    BY <2>2 DEF new
  <2>7. r[k] \in Event /\ r[k].id = q[k].id /\ r[k].delta = q[k].delta /\ r[k].left = new
    BY <2>1, <2>5, <2>6 DEF Event
  <2> QED
    BY <2>7 DEF new
<1>4. r \in [1..m -> Event]
  BY <1>2, <1>3
<1> HIDE DEF r
<1>5. r \in Seq(Event) /\ Len(r) = m
  BY <1>4
<1> QED
  BY <1>1, <1>3, <1>5 DEF r

(* The events of the queue.                                                *)
LEMMA Queue ==
  ASSUME TypeOK
  PROVE  /\ eventQueue \in Seq(Event) /\ Len(eventQueue) \in 0..MaxEvents
         /\ window \in Nat \ {0} /\ window \in 1..MaxDelta /\ MaxDelta \in Nat /\ MaxLate \in Nat
         /\ \A k \in 1..Len(eventQueue) :
               /\ eventQueue[k] \in Event
               /\ eventQueue[k].id \in 1..MaxEvents /\ eventQueue[k].delta \in 0..MaxDelta
               /\ eventQueue[k].left \in (-MaxLate)..MaxDelta
<1> USE BoundsAssumption, WindowsAssumption, EventsAssumption
<1>1. eventQueue \in Seq(Event) /\ Len(eventQueue) \in 0..MaxEvents
  <2>1. eventQueue \in Seq(Event) /\ Len(eventQueue) <= MaxEvents
    BY DEF TypeOK
  <2>2. PICK n \in Nat : n = Len(eventQueue)
    BY <2>1
  <2>3. n \in 0..MaxEvents
    BY <2>1, <2>2
  <2> QED
    BY <2>1, <2>2, <2>3
<1>2. \A k \in 1..Len(eventQueue) : eventQueue[k] \in Event
  BY <1>1
<1>3. ASSUME NEW e \in Event
      PROVE  /\ e.id \in 1..MaxEvents /\ e.delta \in 0..MaxDelta
             /\ e.left \in (-MaxLate)..MaxDelta
  BY DEF Event
<1>4. window \in Nat \ {0} /\ window \in 1..MaxDelta /\ MaxDelta \in Nat /\ MaxLate \in Nat
  BY DEF TypeOK
<1> QED
  BY <1>1, <1>2, <1>3, <1>4

(* Halting and resuming.                                                   *)
LEMMA Halts ==
  ASSUME IInv, Halt \/ Resume
  PROVE  IInv'
<1> USE BoundsAssumption, WindowsAssumption, EventsAssumption
<1>0. TypeOK /\ DueInv /\ SortedInv /\ SendsInv
  BY DEF IInv
<1>1. /\ eventQueue \in Seq(Event) /\ Len(eventQueue) \in 0..MaxEvents
      /\ window \in Nat \ {0} /\ window \in 1..MaxDelta /\ MaxDelta \in Nat /\ MaxLate \in Nat
      /\ \A k \in 1..Len(eventQueue) :
            /\ eventQueue[k] \in Event
            /\ eventQueue[k].id \in 1..MaxEvents /\ eventQueue[k].delta \in 0..MaxDelta
            /\ eventQueue[k].left \in (-MaxLate)..MaxDelta
  BY <1>0, Queue
<1>10. TypeOK'
  BY <1>0, <1>1 DEF Halt, Resume, TypeOK
<1>11. DueInv'
  BY <1>0, <1>1 DEF Halt, Resume, DueInv, Gone
<1>12. SortedInv'
  BY <1>0, <1>1 DEF Halt, Resume, SortedInv, HeadIsDue
<1>13. SendsInv'
  BY <1>0, <1>1 DEF Halt, Resume, SendsInv, Excess
<1> QED
  BY <1>10, <1>11, <1>12, <1>13 DEF IInv

(* A frame begins.                                                         *)
LEMMA Begins ==
  ASSUME IInv, \E n \in Windows : _onFrameCb(n)
  PROVE  IInv'
<1> USE BoundsAssumption, WindowsAssumption, EventsAssumption
<1>0. TypeOK /\ DueInv /\ SortedInv /\ SendsInv
  BY DEF IInv
<1>1. /\ eventQueue \in Seq(Event) /\ Len(eventQueue) \in 0..MaxEvents
      /\ window \in Nat \ {0} /\ window \in 1..MaxDelta /\ MaxDelta \in Nat /\ MaxLate \in Nat
      /\ \A k \in 1..Len(eventQueue) :
            /\ eventQueue[k] \in Event
            /\ eventQueue[k].id \in 1..MaxEvents /\ eventQueue[k].delta \in 0..MaxDelta
            /\ eventQueue[k].left \in (-MaxLate)..MaxDelta
  BY <1>0, Queue
<1>10. TypeOK'
  BY <1>0, <1>1 DEF _onFrameCb, TypeOK
<1>11. DueInv'
  BY <1>0, <1>1 DEF _onFrameCb, DueInv, Gone
<1>12. SortedInv'
  BY <1>0, <1>1 DEF _onFrameCb, SortedInv, HeadIsDue
<1>13. SendsInv'
  BY <1>0, <1>1 DEF _onFrameCb, SendsInv, Excess
<1> QED
  BY <1>10, <1>11, <1>12, <1>13 DEF IInv

(* The head is sent.                                                       *)
LEMMA SendsHead ==
  ASSUME IInv, SendHead
  PROVE  IInv'
<1> USE BoundsAssumption, WindowsAssumption, EventsAssumption
<1>0. TypeOK /\ DueInv /\ SortedInv /\ SendsInv
  BY DEF IInv
<1>1. /\ eventQueue \in Seq(Event) /\ Len(eventQueue) \in 0..MaxEvents
      /\ window \in Nat \ {0} /\ window \in 1..MaxDelta /\ MaxDelta \in Nat /\ MaxLate \in Nat
      /\ \A k \in 1..Len(eventQueue) :
            /\ eventQueue[k] \in Event
            /\ eventQueue[k].id \in 1..MaxEvents /\ eventQueue[k].delta \in 0..MaxDelta
            /\ eventQueue[k].left \in (-MaxLate)..MaxDelta
  BY <1>0, Queue
<1>2. 1 \in 1..Len(eventQueue) /\ eventQueue' = eventQueue /\ eventQueue # <<>>
  BY <1>1 DEF SendHead, HeadIsDue
<1>3. /\ sends' = [sends EXCEPT ![eventQueue[1].id] = sends[eventQueue[1].id] + 1]
      /\ eventQueue[1].id \in 1..MaxEvents /\ sends[eventQueue[1].id] \in Nat
      /\ sends[eventQueue[1].id] <= aborts /\ aborts \in 0..MaxAborts
      /\ eventQueue[1].id <= scheduled
  BY <1>0, <1>1, <1>2 DEF SendHead, SendsInv, Excess, TypeOK
<1>10. TypeOK'
  <2>1. sends' \in [1..MaxEvents -> 0..(MaxAborts + 1)]
    <3>1. sends[eventQueue[1].id] + 1 \in 0..(MaxAborts + 1)
      BY <1>3
    <3>2. sends \in [1..MaxEvents -> 0..(MaxAborts + 1)]
      BY <1>0 DEF TypeOK
    <3> QED
      BY <1>3, <3>1, <3>2
  <2>2. repeats' \in Nat
    BY <1>0 DEF SendHead, TypeOK
  <2>3. /\ pc' = "remove"
        /\ UNCHANGED <<eventQueue, window, halted, i, scheduled, disturbed, aborts>>
    BY DEF SendHead
  <2> QED
    BY <1>0, <2>1, <2>2, <2>3 DEF TypeOK
<1>11. DueInv'
  BY <1>0, <1>1 DEF SendHead, DueInv, Gone
<1>12. SortedInv'
  BY <1>0, <1>1 DEF SendHead, SortedInv, HeadIsDue
<1>13. SendsInv'
  <2>1. \A k \in 1..Len(eventQueue) : k # 1 => eventQueue[k].id # eventQueue[1].id
    BY <1>0, <1>2 DEF SendsInv
  <2>2. sends' \in [1..MaxEvents -> Nat] /\ sends \in [1..MaxEvents -> Nat] /\ scheduled \in Nat
    BY <1>0, <1>3 DEF TypeOK
  <2>3. /\ pc = "send" /\ pc' = "remove" /\ UNCHANGED <<scheduled, aborts>>
    BY DEF SendHead
  <2>4. PICK h : h = eventQueue[1].id
    OBVIOUS
  <2>5. sends'[h] = sends[h] + 1 /\ \A id \in 1..MaxEvents : id # h => sends'[id] = sends[id]
    BY <1>3, <2>2, <2>4
  <2>6. \A k \in 1..Len(eventQueue) : Excess(k) = 0 /\ Excess(k)' = IF k = 1 THEN 1 ELSE 0
    BY <2>3 DEF Excess
  <2>7. ASSUME NEW k \in 1..Len(eventQueue)
        PROVE  sends'[eventQueue[k].id] <= aborts + Excess(k)'
    <3>1. sends[eventQueue[k].id] <= aborts + 0 /\ eventQueue[k].id \in 1..MaxEvents
      BY <1>0, <1>1, <2>6 DEF SendsInv
    <3>2. CASE k = 1
      BY <1>3, <2>4, <2>5, <2>6, <3>1, <3>2
    <3>3. CASE k # 1
      BY <1>3, <2>1, <2>4, <2>5, <2>6, <3>1, <3>3
    <3> QED
      BY <3>2, <3>3
  <2>8. ASSUME NEW id \in 1..MaxEvents
        PROVE  sends'[id] <= aborts + 1 /\ (id > scheduled => sends'[id] = 0)
    <3>1. sends[id] <= aborts + 1 /\ (id > scheduled => sends[id] = 0)
      BY <1>0 DEF SendsInv
    <3> QED
      BY <1>3, <2>2, <2>4, <2>5, <3>1
  <2> HIDE DEF Excess
  <2> QED
    BY <1>0, <1>2, <2>3, <2>7, <2>8 DEF SendsInv
<1> QED
  BY <1>10, <1>11, <1>12, <1>13 DEF IInv

(* None is due: all of the queue is later than the frame.                  *)
LEMMA Waits ==
  ASSUME IInv, NoneDue
  PROVE  IInv'
<1> USE BoundsAssumption, WindowsAssumption, EventsAssumption
<1>0. TypeOK /\ DueInv /\ SortedInv /\ SendsInv
  BY DEF IInv
<1>1. /\ eventQueue \in Seq(Event) /\ Len(eventQueue) \in 0..MaxEvents
      /\ window \in Nat \ {0} /\ window \in 1..MaxDelta /\ MaxDelta \in Nat /\ MaxLate \in Nat
      /\ \A k \in 1..Len(eventQueue) :
            /\ eventQueue[k] \in Event
            /\ eventQueue[k].id \in 1..MaxEvents /\ eventQueue[k].delta \in 0..MaxDelta
            /\ eventQueue[k].left \in (-MaxLate)..MaxDelta
  BY <1>0, Queue
<1>10. TypeOK'
  BY <1>0, <1>1 DEF NoneDue, TypeOK
<1>11. DueInv'
  BY <1>0, <1>1 DEF NoneDue, DueInv, Gone
<1>12. SortedInv'
  BY <1>0, <1>1 DEF NoneDue, SortedInv, HeadIsDue
<1>13. SendsInv'
  BY <1>0, <1>1 DEF NoneDue, SendsInv, Excess
<1> QED
  BY <1>10, <1>11, <1>12, <1>13 DEF IInv

(* The queue is sorted.                                                    *)
LEMMA SortsQueue ==
  ASSUME IInv, Sort
  PROVE  IInv'
<1> USE BoundsAssumption, WindowsAssumption, EventsAssumption
<1>0. TypeOK /\ DueInv /\ SortedInv /\ SendsInv
  BY DEF IInv
<1>1. /\ eventQueue \in Seq(Event) /\ Len(eventQueue) \in 0..MaxEvents
      /\ window \in Nat \ {0} /\ window \in 1..MaxDelta /\ MaxDelta \in Nat /\ MaxLate \in Nat
      /\ \A k \in 1..Len(eventQueue) :
            /\ eventQueue[k] \in Event
            /\ eventQueue[k].id \in 1..MaxEvents /\ eventQueue[k].delta \in 0..MaxDelta
            /\ eventQueue[k].left \in (-MaxLate)..MaxDelta
  BY <1>0, Queue
<1>2. /\ eventQueue' \in Seq(Event) /\ Sorted(eventQueue') /\ Among(eventQueue', eventQueue)
      /\ pc = "onFrameCb" /\ pc' = "send"
      /\ UNCHANGED <<window, halted, i, scheduled, sends, repeats, disturbed, aborts>>
  <2>1. eventQueue' \in sort(eventQueue) /\ eventQueue \in Seq(Event)
    BY <1>1 DEF Sort
  <2>2. PICK r \in sort(eventQueue) : r = eventQueue'
    BY <2>1
  <2>3. r \in Seq(Event) /\ Sorted(r) /\ Among(r, eventQueue)
    BY <2>1, Sorts
  <2>4. Sorted(eventQueue') /\ Among(eventQueue', eventQueue)
    BY <2>2, <2>3 DEF Sorted, Among
  <2> QED
    BY <2>2, <2>3, <2>4 DEF Sort
<1>3. /\ Len(eventQueue') = Len(eventQueue)
      /\ \A k \in 1..Len(eventQueue') : \E l \in 1..Len(eventQueue) : eventQueue'[k] = eventQueue[l]
  BY <1>2 DEF Among
<1>10. TypeOK'
  BY <1>0, <1>2, <1>3 DEF TypeOK
<1>11. DueInv'
  BY <1>0, <1>2, <1>3 DEF DueInv, Gone
<1>12. SortedInv'
  BY <1>2 DEF SortedInv, Sorted, HeadIsDue
<1>13. SendsInv'
  <2>1. \A k, l \in 1..Len(eventQueue') : eventQueue'[k].id = eventQueue'[l].id => k = l
    BY <1>0, <1>2 DEF SendsInv, Among
  <2> QED
    BY <1>0, <1>2, <1>3, <2>1 DEF SendsInv, Excess
<1> QED
  BY <1>10, <1>11, <1>12, <1>13 DEF IInv

(* The head leaves the queue.                                              *)
LEMMA RemovesHead ==
  ASSUME IInv, RemoveHead
  PROVE  IInv'
<1> USE BoundsAssumption, WindowsAssumption, EventsAssumption
<1>0. TypeOK /\ DueInv /\ SortedInv /\ SendsInv
  BY DEF IInv
<1>1. /\ eventQueue \in Seq(Event) /\ Len(eventQueue) \in 0..MaxEvents
      /\ window \in Nat \ {0} /\ window \in 1..MaxDelta /\ MaxDelta \in Nat /\ MaxLate \in Nat
      /\ \A k \in 1..Len(eventQueue) :
            /\ eventQueue[k] \in Event
            /\ eventQueue[k].id \in 1..MaxEvents /\ eventQueue[k].delta \in 0..MaxDelta
            /\ eventQueue[k].left \in (-MaxLate)..MaxDelta
  BY <1>0, Queue
<1>2. /\ eventQueue' = Tail(eventQueue) /\ eventQueue # <<>> /\ pc = "remove" /\ pc' = "send"
      /\ UNCHANGED <<window, halted, i, scheduled, sends, repeats, disturbed, aborts>>
  BY <1>0 DEF RemoveHead, SortedInv, HeadIsDue
<1>3. /\ eventQueue' \in Seq(Event) /\ Len(eventQueue') = Len(eventQueue) - 1
      /\ \A k \in 1..Len(eventQueue') : k + 1 \in 1..Len(eventQueue) /\ eventQueue'[k] = eventQueue[k + 1]
  BY <1>1, <1>2
<1>10. TypeOK'
  BY <1>0, <1>1, <1>2, <1>3 DEF TypeOK
<1>11. DueInv'
  BY <1>0, <1>2, <1>3 DEF DueInv, Gone
<1>12. SortedInv'
  BY <1>0, <1>1, <1>2, <1>3 DEF SortedInv, HeadIsDue
<1>13. SendsInv'
  <2>1. \A k \in 1..Len(eventQueue') :
           eventQueue'[k].id <= scheduled /\ sends[eventQueue'[k].id] <= aborts + 0
    BY <1>0, <1>1, <1>2, <1>3 DEF SendsInv, Excess
  <2>2. \A k, l \in 1..Len(eventQueue') : eventQueue'[k].id = eventQueue'[l].id => k = l
    BY <1>0, <1>1, <1>2, <1>3 DEF SendsInv
  <2>3. Len(eventQueue') <= scheduled
    BY <1>0, <1>1, <1>2, <1>3 DEF SendsInv, TypeOK
  <2> QED
    BY <1>0, <1>2, <2>1, <2>2, <2>3 DEF SendsInv, Excess
<1> QED
  BY <1>10, <1>11, <1>12, <1>13 DEF IInv

(* One delta is brought to the next frame.                                 *)
LEMMA Decrements ==
  ASSUME IInv, Decrement
  PROVE  IInv'
<1> USE BoundsAssumption, WindowsAssumption, EventsAssumption
<1>0. TypeOK /\ DueInv /\ SortedInv /\ SendsInv
  BY DEF IInv
<1>1. /\ eventQueue \in Seq(Event) /\ Len(eventQueue) \in 0..MaxEvents
      /\ window \in Nat \ {0} /\ window \in 1..MaxDelta /\ MaxDelta \in Nat /\ MaxLate \in Nat
      /\ \A k \in 1..Len(eventQueue) :
            /\ eventQueue[k] \in Event
            /\ eventQueue[k].id \in 1..MaxEvents /\ eventQueue[k].delta \in 0..MaxDelta
            /\ eventQueue[k].left \in (-MaxLate)..MaxDelta
  BY <1>0, Queue
<1>2. /\ pc = "decrement" /\ i \in 1..Len(eventQueue) /\ i' = i + 1
      /\ eventQueue' = [eventQueue EXCEPT ![i] = [eventQueue[i] EXCEPT !.delta = eventQueue[i].delta - window]]
      /\ UNCHANGED <<window, halted, pc, scheduled, sends, repeats, disturbed, aborts>>
  BY <1>0, <1>1 DEF Decrement, TypeOK
<1>3. eventQueue[i].delta - window \in 0..MaxDelta
  BY <1>0, <1>1, <1>2 DEF SortedInv
<1> DEFINE new == [eventQueue[i] EXCEPT !.delta = eventQueue[i].delta - window]
<1>4. /\ new \in Event /\ new.id = eventQueue[i].id /\ new.left = eventQueue[i].left
      /\ new.delta = eventQueue[i].delta - window
  <2>1. eventQueue[i] \in Event
    BY <1>1, <1>2
  <2> QED
    BY <1>3, <2>1 DEF Event
<1>6. eventQueue' = [eventQueue EXCEPT ![i] = new]
  BY <1>2
<1> HIDE DEF new
<1>5. /\ eventQueue' \in Seq(Event) /\ Len(eventQueue') = Len(eventQueue) /\ eventQueue'[i] = new
      /\ \A k \in 1..Len(eventQueue) : k # i => eventQueue'[k] = eventQueue[k]
  <2>1. PICK n \in Nat : n = Len(eventQueue) /\ eventQueue \in [1..n -> Event]
    BY <1>1
  <2>2. eventQueue' \in [1..n -> Event]
    BY <1>4, <1>6, <2>1
  <2> QED
    BY <1>2, <1>6, <2>1, <2>2
<1>10. TypeOK'
  <2>1. i' \in 1..(MaxEvents + 1)
    BY <1>0, <1>1, <1>2 DEF TypeOK
  <2> QED
    BY <1>0, <1>2, <1>5, <2>1 DEF TypeOK
<1>11. DueInv'
  <2> SUFFICES ASSUME NEW k \in 1..Len(eventQueue)
               PROVE  LET e == eventQueue'[k]
                      IN  /\ e.delta >= e.left - Gone(k)'
                          /\ ~disturbed => e.left >= Gone(k)' /\ e.delta = e.left - Gone(k)'
    BY <1>2, <1>5 DEF DueInv
  <2>1. /\ eventQueue[k].delta >= eventQueue[k].left - Gone(k)
        /\ ~disturbed => /\ eventQueue[k].left >= Gone(k)
                         /\ eventQueue[k].delta = eventQueue[k].left - Gone(k)
    BY <1>0 DEF DueInv
  <2>2. CASE k = i
    <3>1. Gone(k) = 0 /\ Gone(k)' = window
      BY <1>1, <1>2, <2>2 DEF Gone
    <3>2. /\ eventQueue[i].delta \in Nat /\ eventQueue[i].left \in Int
          /\ eventQueue[i].delta >= window
      BY <1>0, <1>1, <1>2 DEF SortedInv
    <3> QED
      BY <1>1, <1>2, <1>4, <1>5, <2>1, <2>2, <3>1, <3>2
  <2>3. CASE k # i
    <3>1. Gone(k)' = Gone(k)
      BY <1>1, <1>2, <2>3 DEF Gone
    <3> QED
      BY <1>5, <2>1, <2>3, <3>1
  <2> QED
    BY <2>2, <2>3
<1>12. SortedInv'
  <2>1. \A k \in (i + 1)..Len(eventQueue) : k \in 1..Len(eventQueue) /\ k # i /\ k \in i..Len(eventQueue)
    BY <1>1, <1>2
  <2> QED
    BY <1>0, <1>2, <1>5, <2>1 DEF SortedInv
<1>13. SendsInv'
  <2>1. \A k \in 1..Len(eventQueue) : eventQueue'[k].id = eventQueue[k].id
    BY <1>2, <1>4, <1>5
  <2> QED
    BY <1>0, <1>2, <1>5, <2>1 DEF SendsInv, Excess
<1> QED
  BY <1>10, <1>11, <1>12, <1>13 DEF IInv

(* Time goes on while the plugin is halted.                                *)
LEMMA Passes ==
  ASSUME IInv, \E n \in Windows : HaltedFrame(n)
  PROVE  IInv'
<1> USE BoundsAssumption, WindowsAssumption, EventsAssumption
<1>0. TypeOK /\ DueInv /\ SortedInv /\ SendsInv
  BY DEF IInv
<1>1. /\ eventQueue \in Seq(Event) /\ Len(eventQueue) \in 0..MaxEvents
      /\ window \in Nat \ {0} /\ window \in 1..MaxDelta /\ MaxDelta \in Nat /\ MaxLate \in Nat
      /\ \A k \in 1..Len(eventQueue) :
            /\ eventQueue[k] \in Event
            /\ eventQueue[k].id \in 1..MaxEvents /\ eventQueue[k].delta \in 0..MaxDelta
            /\ eventQueue[k].left \in (-MaxLate)..MaxDelta
  BY <1>0, Queue
<1>2. PICK n \in Windows : eventQueue' = Later(eventQueue, n)
  BY <1>0 DEF HaltedFrame, TypeOK
<1>3. /\ eventQueue' \in Seq(Event) /\ Len(eventQueue') = Len(eventQueue)
      /\ \A k \in 1..Len(eventQueue) :
            /\ eventQueue'[k].id = eventQueue[k].id /\ eventQueue'[k].delta = eventQueue[k].delta
            /\ eventQueue'[k].left = IF eventQueue[k].left - n < -MaxLate THEN -MaxLate
                                     ELSE eventQueue[k].left - n
  BY <1>1, <1>2, Laters
<1>10. TypeOK'
  BY <1>0, <1>3 DEF HaltedFrame, TypeOK
<1>11. DueInv'
  <2>1. pc = "idle" /\ pc' = "idle" /\ disturbed' = TRUE /\ n \in Nat
    BY <1>2 DEF HaltedFrame
  <2>2. ASSUME NEW k \in 1..Len(eventQueue)
        PROVE  eventQueue'[k].delta >= eventQueue'[k].left - 0
    <3>1. eventQueue[k].delta >= eventQueue[k].left - 0
      BY <1>0, <2>1 DEF DueInv, Gone
    <3>2. eventQueue[k].delta \in Nat /\ eventQueue[k].left \in Int /\ MaxLate \in Nat
      BY <1>1
    <3> QED
      BY <1>3, <2>1, <3>1, <3>2
  <2> QED
    BY <1>3, <2>1, <2>2 DEF DueInv, Gone
<1>12. SortedInv'
  BY DEF HaltedFrame, SortedInv
<1>13. SendsInv'
  <2>1. pc' = "idle" /\ aborts <= aborts' /\ scheduled' = scheduled /\ sends' = sends
        /\ aborts \in Nat /\ aborts' \in Nat
    BY <1>0 DEF HaltedFrame, TypeOK
  <2>2. \A k \in 1..Len(eventQueue) : sends[eventQueue'[k].id] <= aborts' + Excess(k)'
    BY <1>0, <1>1, <1>3 DEF HaltedFrame, SendsInv, Excess, TypeOK
  <2>3. \A m \in 1..MaxEvents : sends[m] <= aborts' + 1
    BY <1>0, <2>1 DEF SendsInv, TypeOK
  <2> QED
    BY <1>0, <1>3, <2>1, <2>2, <2>3 DEF SendsInv
<1> QED
  BY <1>10, <1>11, <1>12, <1>13 DEF IInv

(* A frame ends.                                                           *)
LEMMA Ends ==
  ASSUME IInv, FrameEnds
  PROVE  IInv'
<1> USE BoundsAssumption, WindowsAssumption, EventsAssumption
<1>0. TypeOK /\ DueInv /\ SortedInv /\ SendsInv
  BY DEF IInv
<1>1. /\ eventQueue \in Seq(Event) /\ Len(eventQueue) \in 0..MaxEvents
      /\ window \in Nat \ {0} /\ window \in 1..MaxDelta /\ MaxDelta \in Nat /\ MaxLate \in Nat
      /\ \A k \in 1..Len(eventQueue) :
            /\ eventQueue[k] \in Event
            /\ eventQueue[k].id \in 1..MaxEvents /\ eventQueue[k].delta \in 0..MaxDelta
            /\ eventQueue[k].left \in (-MaxLate)..MaxDelta
  BY <1>0, Queue
<1> DEFINE n == window
<1>2. n \in Windows /\ eventQueue' = Later(eventQueue, n)
  BY <1>0 DEF FrameEnds, TypeOK
<1> HIDE DEF n
<1>3. /\ eventQueue' \in Seq(Event) /\ Len(eventQueue') = Len(eventQueue)
      /\ \A k \in 1..Len(eventQueue) :
            /\ eventQueue'[k].id = eventQueue[k].id /\ eventQueue'[k].delta = eventQueue[k].delta
            /\ eventQueue'[k].left = IF eventQueue[k].left - n < -MaxLate THEN -MaxLate
                                     ELSE eventQueue[k].left - n
  BY <1>1, <1>2, Laters
<1>10. TypeOK'
  BY <1>0, <1>3 DEF FrameEnds, TypeOK
<1>11. DueInv'
  <2>1. /\ pc = "decrement" /\ pc' = "idle" /\ disturbed' = disturbed
        /\ i > Len(eventQueue) /\ i \in Nat /\ n = window
    BY <1>0 DEF FrameEnds, TypeOK, n
  <2>2. ASSUME NEW k \in 1..Len(eventQueue)
        PROVE  /\ eventQueue'[k].delta >= eventQueue'[k].left - 0
               /\ ~disturbed => eventQueue'[k].left >= 0 /\ eventQueue'[k].delta = eventQueue'[k].left - 0
    <3>1. Gone(k) = window
      BY <1>1, <2>1 DEF Gone
    <3>2. /\ eventQueue[k].delta >= eventQueue[k].left - window /\ eventQueue[k].delta \in Nat
          /\ ~disturbed => /\ eventQueue[k].left >= window
                           /\ eventQueue[k].delta = eventQueue[k].left - window
          /\ eventQueue[k].left \in Int /\ window \in Nat /\ MaxLate \in Nat
      BY <1>0, <1>1, <3>1 DEF DueInv
    <3>3. /\ eventQueue'[k].delta = eventQueue[k].delta
          /\ eventQueue'[k].left = IF eventQueue[k].left - window < -MaxLate THEN -MaxLate
                                   ELSE eventQueue[k].left - window
      BY <1>3, <2>1
    <3> QED
      BY <3>2, <3>3
  <2> QED
    BY <1>3, <2>1, <2>2 DEF DueInv, Gone
<1>12. SortedInv'
  BY DEF FrameEnds, SortedInv
<1>13. SendsInv'
  <2>1. pc' = "idle" /\ aborts <= aborts' /\ scheduled' = scheduled /\ sends' = sends
        /\ aborts \in Nat /\ aborts' \in Nat
    BY <1>0 DEF FrameEnds, TypeOK
  <2>2. \A k \in 1..Len(eventQueue) : sends[eventQueue'[k].id] <= aborts' + Excess(k)'
    BY <1>0, <1>1, <1>3 DEF FrameEnds, SendsInv, Excess, TypeOK
  <2>3. \A m \in 1..MaxEvents : sends[m] <= aborts' + 1
    BY <1>0, <2>1 DEF SendsInv, TypeOK
  <2> QED
    BY <1>0, <1>3, <2>1, <2>2, <2>3 DEF SendsInv
<1> QED
  BY <1>10, <1>11, <1>12, <1>13 DEF IInv

(* A callback is cut short: the queue is as it was, or, while it is sorted,*)
(* in some other order.                                                    *)
LEMMA CutQueue ==
  ASSUME TypeOK, Abort
  PROVE  \E q \in Seq(Event) :
            /\ Among(q, eventQueue) /\ (pc = "onFrameCb" \/ q = eventQueue)
            /\ eventQueue' \in Seq(Event) /\ Len(eventQueue') = Len(q)
            /\ \A k \in 1..Len(q) :
                  /\ eventQueue'[k].id = q[k].id /\ eventQueue'[k].delta = q[k].delta
                  /\ eventQueue'[k].left = IF q[k].left - window < -MaxLate THEN -MaxLate
                                           ELSE q[k].left - window
<1>1. eventQueue \in Seq(Event) /\ window \in Windows
  BY DEF TypeOK
<1>2. PICK n \in Windows : n = window
  BY <1>1
<1>3. \E q \in Seq(Event) : /\ Among(q, eventQueue) /\ (pc = "onFrameCb" \/ q = eventQueue)
                            /\ eventQueue' = Later(q, n)
  <2>1. CASE pc = "onFrameCb"
    <3>1. PICK q \in Orders(eventQueue) : eventQueue' = Later(q, n)
      BY <1>2, <2>1 DEF Abort
    <3>2. q \in Seq(Event) /\ Among(q, eventQueue)
      BY <1>1, Ordered
    <3> QED
      BY <2>1, <3>1, <3>2
  <2>2. CASE pc # "onFrameCb"
    <3>1. eventQueue' = Later(eventQueue, n)
      BY <1>2, <2>2 DEF Abort
    <3>2. Among(eventQueue, eventQueue)
      BY <1>1 DEF Among
    <3> QED
      BY <1>1, <3>1, <3>2
  <2> QED
    BY <2>1, <2>2
<1>4. PICK q \in Seq(Event) : /\ Among(q, eventQueue) /\ (pc = "onFrameCb" \/ q = eventQueue)
                             /\ eventQueue' = Later(q, n)
  BY <1>3
<1>5. /\ eventQueue' \in Seq(Event) /\ Len(eventQueue') = Len(q)
      /\ \A k \in 1..Len(q) :
            /\ eventQueue'[k].id = q[k].id /\ eventQueue'[k].delta = q[k].delta
            /\ eventQueue'[k].left = IF q[k].left - n < -MaxLate THEN -MaxLate
                                     ELSE q[k].left - n
  BY <1>4, Laters
<1> QED
  BY <1>2, <1>4, <1>5

(* What is late stays late.                                                *)
LEMMA Aborts ==
  ASSUME IInv, Abort
  PROVE  IInv'
<1> USE BoundsAssumption, WindowsAssumption, EventsAssumption
<1>0. TypeOK /\ DueInv /\ SortedInv /\ SendsInv
  BY DEF IInv
<1>1. /\ eventQueue \in Seq(Event) /\ Len(eventQueue) \in 0..MaxEvents
      /\ window \in Nat \ {0} /\ window \in 1..MaxDelta /\ MaxDelta \in Nat /\ MaxLate \in Nat
      /\ \A k \in 1..Len(eventQueue) :
            /\ eventQueue[k] \in Event
            /\ eventQueue[k].id \in 1..MaxEvents /\ eventQueue[k].delta \in 0..MaxDelta
            /\ eventQueue[k].left \in (-MaxLate)..MaxDelta
  BY <1>0, Queue
<1>2. PICK q \in Seq(Event) :
         /\ Among(q, eventQueue) /\ (pc = "onFrameCb" \/ q = eventQueue)
         /\ eventQueue' \in Seq(Event) /\ Len(eventQueue') = Len(q)
         /\ \A k \in 1..Len(q) :
               /\ eventQueue'[k].id = q[k].id /\ eventQueue'[k].delta = q[k].delta
               /\ eventQueue'[k].left = IF q[k].left - window < -MaxLate THEN -MaxLate
                                        ELSE q[k].left - window
  BY <1>0, CutQueue
<1>3. /\ pc' = "idle" /\ i' = 1 /\ halted' = TRUE /\ disturbed' = TRUE
      /\ aborts < MaxAborts /\ aborts' = aborts + 1
      /\ UNCHANGED <<window, scheduled, sends, repeats>>
  BY DEF Abort
<1>4. /\ Len(eventQueue') = Len(eventQueue)
      /\ \A k \in 1..Len(eventQueue') : \E l \in 1..Len(eventQueue) :
            q[k] = eventQueue[l] /\ (pc # "onFrameCb" => l = k)
  BY <1>2 DEF Among
<1>10. TypeOK'
  BY <1>0, <1>1, <1>2, <1>3, <1>4 DEF TypeOK
<1>11. DueInv'
  <2>1. ASSUME NEW k \in 1..Len(eventQueue')
        PROVE  eventQueue'[k].delta >= eventQueue'[k].left - 0
    <3>1. PICK l \in 1..Len(eventQueue) : q[k] = eventQueue[l]
      BY <1>4
    <3>2. eventQueue[l].delta >= eventQueue[l].left - Gone(l) /\ Gone(l) \in {0, window}
      BY <1>0 DEF DueInv, Gone
    <3>3. eventQueue[l].delta \in Nat /\ eventQueue[l].left \in Int /\ window \in Nat
      BY <1>1
    <3>4. /\ eventQueue'[k].delta = eventQueue[l].delta
          /\ eventQueue'[k].left = IF eventQueue[l].left - window < -MaxLate THEN -MaxLate
                                   ELSE eventQueue[l].left - window
      BY <1>2, <3>1
    <3>5. MaxLate \in Nat
      BY <1>1
    <3> QED
      BY <3>2, <3>3, <3>4, <3>5
  <2> QED
    BY <1>3, <2>1 DEF DueInv, Gone
<1>12. SortedInv'
  BY <1>3 DEF SortedInv
<1>13. SendsInv'
  <2>1. aborts \in Nat /\ aborts' \in Nat /\ \A k : Excess(k)' = 0 /\ Excess(k) \in {0, 1}
    BY <1>0, <1>3 DEF TypeOK, Excess
  <2>2. ASSUME NEW k \in 1..Len(eventQueue')
        PROVE  eventQueue'[k].id <= scheduled' /\ sends'[eventQueue'[k].id] <= aborts' + 0
    <3>1. PICK l \in 1..Len(eventQueue) : q[k] = eventQueue[l]
      BY <1>4
    <3>2. eventQueue[l].id <= scheduled /\ sends[eventQueue[l].id] <= aborts + Excess(l)
      BY <1>0 DEF SendsInv
    <3>3. eventQueue[l].id \in 1..MaxEvents /\ sends[eventQueue[l].id] \in Nat
      BY <1>0, <1>1 DEF TypeOK
    <3>4. eventQueue'[k].id = eventQueue[l].id
      BY <1>2, <3>1
    <3> QED
      BY <1>3, <2>1, <3>2, <3>3, <3>4
  <2>3. ASSUME NEW m \in 1..MaxEvents
        PROVE  sends'[m] <= aborts' + 1 /\ (m > scheduled' => sends'[m] = 0)
    <3>1. sends[m] <= aborts + 1 /\ (m > scheduled => sends[m] = 0) /\ sends[m] \in Nat
      BY <1>0 DEF SendsInv, TypeOK
    <3> QED
      BY <1>3, <2>1, <3>1
  <2>4. \A k, l \in 1..Len(eventQueue') : eventQueue'[k].id = eventQueue'[l].id => k = l
    <3>1. \A k, l \in 1..Len(eventQueue) : eventQueue[k].id = eventQueue[l].id => k = l
      BY <1>0 DEF SendsInv
    <3>2. \A k, l \in 1..Len(q) : q[k].id = q[l].id => k = l
      BY <1>2, <3>1 DEF Among
    <3> QED
      BY <1>2, <3>2
  <2>5. Len(eventQueue') <= scheduled'
    BY <1>0, <1>3, <1>4 DEF SendsInv
  <2> HIDE DEF Excess
  <2> QED
    BY <2>1, <2>2, <2>3, <2>4, <2>5 DEF SendsInv
<1> QED
  BY <1>10, <1>11, <1>12, <1>13 DEF IInv

(* A new event is due at its delta, and has a number of its own.           *)
LEMMA Schedules ==
  ASSUME IInv, \E d \in 0..MaxDelta : scheduleEvent(d)
  PROVE  IInv'
<1> USE BoundsAssumption, WindowsAssumption, EventsAssumption
<1>0. TypeOK /\ DueInv /\ SortedInv /\ SendsInv
  BY DEF IInv
<1>1. /\ eventQueue \in Seq(Event) /\ Len(eventQueue) \in 0..MaxEvents
      /\ window \in Nat \ {0} /\ window \in 1..MaxDelta /\ MaxDelta \in Nat /\ MaxLate \in Nat
      /\ \A k \in 1..Len(eventQueue) :
            /\ eventQueue[k] \in Event
            /\ eventQueue[k].id \in 1..MaxEvents /\ eventQueue[k].delta \in 0..MaxDelta
            /\ eventQueue[k].left \in (-MaxLate)..MaxDelta
  BY <1>0, Queue
<1>2. PICK d \in 0..MaxDelta : scheduleEvent(d)
  OBVIOUS
<1> DEFINE e == [id |-> scheduled + 1, delta |-> d, left |-> d]
<1>3. /\ pc \in {"idle", "onFrameCb"} /\ scheduled' = scheduled + 1 /\ scheduled \in Nat
      /\ scheduled' \in 1..MaxEvents /\ eventQueue' = Append(eventQueue, e)
      /\ UNCHANGED <<window, halted, pc, i, sends, repeats, disturbed, aborts>>
  BY <1>0, <1>2 DEF scheduleEvent, TypeOK
<1>4. e \in Event /\ e.id = scheduled + 1 /\ e.delta = d /\ e.left = d /\ d \in Nat
  BY <1>1, <1>3 DEF Event
<1> HIDE DEF e
<1>5. /\ eventQueue' \in Seq(Event) /\ Len(eventQueue') = Len(eventQueue) + 1
      /\ \A k \in 1..Len(eventQueue) : eventQueue'[k] = eventQueue[k]
      /\ eventQueue'[Len(eventQueue) + 1] = e
  BY <1>1, <1>3, <1>4
<1>6. \A k \in 1..Len(eventQueue') : k \in 1..Len(eventQueue) \/ k = Len(eventQueue) + 1
  BY <1>1, <1>5
<1>10. TypeOK'
  <2>1. Len(eventQueue') <= MaxEvents
    BY <1>0, <1>1, <1>3, <1>5 DEF SendsInv
  <2>2. scheduled' \in 0..MaxEvents
    BY <1>3
  <2> QED
    BY <1>0, <1>3, <1>5, <2>1, <2>2 DEF TypeOK
<1>11. DueInv'
  <2>1. \A k : Gone(k) = 0 /\ Gone(k)' = 0
    BY <1>3 DEF Gone
  <2> SUFFICES ASSUME NEW k \in 1..Len(eventQueue')
               PROVE  /\ eventQueue'[k].delta >= eventQueue'[k].left - 0
                      /\ ~disturbed => /\ eventQueue'[k].left >= 0
                                       /\ eventQueue'[k].delta = eventQueue'[k].left - 0
    BY <1>3, <2>1 DEF DueInv
  <2>2. CASE k = Len(eventQueue) + 1
    BY <1>4, <1>5, <2>2
  <2>3. CASE k \in 1..Len(eventQueue)
    BY <1>0, <1>5, <2>1, <2>3 DEF DueInv
  <2> QED
    BY <1>6, <2>2, <2>3
<1>12. SortedInv'
  BY <1>3 DEF SortedInv
<1>13. SendsInv'
  <2>1. \A k : Excess(k) = 0 /\ Excess(k)' = 0
    BY <1>3 DEF Excess
  <2>2. aborts \in Nat /\ sends[e.id] = 0
    BY <1>0, <1>3, <1>4 DEF SendsInv, TypeOK
  <2>3. ASSUME NEW k \in 1..Len(eventQueue')
        PROVE  eventQueue'[k].id <= scheduled' /\ sends'[eventQueue'[k].id] <= aborts' + 0
    <3>1. CASE k = Len(eventQueue) + 1
      BY <1>3, <1>4, <1>5, <2>2, <3>1
    <3>2. CASE k \in 1..Len(eventQueue)
      <4>1. eventQueue[k].id <= scheduled /\ sends[eventQueue[k].id] <= aborts + 0 /\ eventQueue[k].id \in Nat
        BY <1>0, <1>1, <2>1, <3>2 DEF SendsInv
      <4> QED
        BY <1>3, <1>5, <3>2, <4>1
    <3> QED
      BY <1>6, <3>1, <3>2
  <2>4. ASSUME NEW k \in 1..Len(eventQueue'), NEW l \in 1..Len(eventQueue'),
               eventQueue'[k].id = eventQueue'[l].id
        PROVE  k = l
    <3>1. \A m \in 1..Len(eventQueue) : eventQueue[m].id \in Nat /\ eventQueue[m].id < scheduled + 1
      BY <1>0, <1>1, <1>3 DEF SendsInv
    <3>2. CASE k \in 1..Len(eventQueue) /\ l \in 1..Len(eventQueue)
      BY <1>0, <1>5, <2>4, <3>2 DEF SendsInv
    <3>3. CASE k = Len(eventQueue) + 1 /\ l \in 1..Len(eventQueue)
      BY <1>3, <1>4, <1>5, <2>4, <3>1, <3>3
    <3>4. CASE l = Len(eventQueue) + 1 /\ k \in 1..Len(eventQueue)
      BY <1>3, <1>4, <1>5, <2>4, <3>1, <3>4
    <3> QED
      BY <1>6, <3>2, <3>3, <3>4
  <2>5. Len(eventQueue') <= scheduled'
    BY <1>0, <1>1, <1>3, <1>5 DEF SendsInv
  <2>6. \A m \in 1..MaxEvents : sends'[m] <= aborts' + 1 /\ (m > scheduled' => sends'[m] = 0)
    BY <1>0, <1>3 DEF SendsInv
  <2> HIDE DEF Excess
  <2> QED
    BY <2>1, <2>3, <2>4, <2>5, <2>6 DEF SendsInv
<1> QED
  BY <1>10, <1>11, <1>12, <1>13 DEF IInv

(* A new script starts with an empty queue.                                *)
LEMMA Restarts ==
  ASSUME IInv, Restart
  PROVE  IInv'
<1> USE BoundsAssumption, WindowsAssumption, EventsAssumption
<1>0. TypeOK /\ DueInv /\ SortedInv /\ SendsInv
  BY DEF IInv
<1>1. /\ eventQueue \in Seq(Event) /\ Len(eventQueue) \in 0..MaxEvents
      /\ window \in Nat \ {0} /\ window \in 1..MaxDelta /\ MaxDelta \in Nat /\ MaxLate \in Nat
      /\ \A k \in 1..Len(eventQueue) :
            /\ eventQueue[k] \in Event
            /\ eventQueue[k].id \in 1..MaxEvents /\ eventQueue[k].delta \in 0..MaxDelta
            /\ eventQueue[k].left \in (-MaxLate)..MaxDelta
  BY <1>0, Queue
<1>2. eventQueue' = <<>> /\ Len(eventQueue') = 0 /\ 1..0 = {}
  BY DEF Restart
<1>3. <<>> \in Seq(Event)
  OBVIOUS
<1>10. TypeOK'
  <2>1. halted' \in BOOLEAN /\ disturbed' \in BOOLEAN
    BY Zenon DEF Restart
  <2>2. eventQueue' \in Seq(Event) /\ Len(eventQueue') <= MaxEvents
    BY <1>2, <1>3
  <2> QED
    BY <1>0, <2>1, <2>2 DEF Restart, TypeOK
<1>11. DueInv'
  BY <1>2 DEF DueInv
<1>12. SortedInv'
  BY <1>2 DEF Restart, SortedInv, HeadIsDue
<1>13. SendsInv'
  <2>1. scheduled \in Nat /\ UNCHANGED <<scheduled, sends, aborts>>
    BY <1>0 DEF Restart, TypeOK
  <2> QED
    BY <1>0, <1>2, <2>1 DEF SendsInv
<1> QED
  BY <1>10, <1>11, <1>12, <1>13 DEF IInv

(* The invariant behind them all.                                          *)
THEOREM Invariance == Spec => []IInv
<1>1. Init => IInv
  <2> SUFFICES ASSUME Init PROVE IInv
    OBVIOUS
  <2> USE BoundsAssumption, WindowsAssumption, EventsAssumption
  <2>1. eventQueue = <<>> /\ Len(eventQueue) = 0 /\ 1..0 = {}
    BY DEF Init
  <2>2. TypeOK
    <3>1. <<>> \in Seq(Event)
      OBVIOUS
    <3>2. halted \in BOOLEAN /\ disturbed \in BOOLEAN
      BY Zenon DEF Init
    <3>3. /\ eventQueue \in Seq(Event) /\ Len(eventQueue) <= MaxEvents
          /\ sends \in [1..MaxEvents -> 0..(MaxAborts + 1)]
      BY <2>1, <3>1 DEF Init
    <3> QED
      BY <3>2, <3>3 DEF Init, TypeOK
  <2>3. DueInv /\ SortedInv /\ SendsInv
    BY <2>1 DEF Init, DueInv, SortedInv, SendsInv
  <2> QED
    BY <2>2, <2>3 DEF IInv
<1>2. IInv /\ [Next]_vars => IInv'
  <2> SUFFICES ASSUME IInv, [Next]_vars PROVE IInv'
    OBVIOUS
  <2>1. CASE UNCHANGED vars
    BY <2>1 DEF vars, IInv, TypeOK, DueInv, Gone, SortedInv, HeadIsDue, SendsInv, Excess
  <2> QED
    BY <2>1, Halts, Begins, SendsHead, Waits, SortsQueue, RemovesHead, Decrements, Passes, Ends,
       Aborts, Schedules, Restarts DEF Next, Frame, Schedule, HaltedFrames
<1> QED
  BY <1>1, <1>2, PTL DEF Spec

(* The types of the state.                                                 *)
THEOREM TypeCorrect == Spec => []TypeOK
<1>1. IInv => TypeOK
  BY DEF IInv
<1> QED
  BY <1>1, Invariance, PTL

(* No event is early, whatever is cut short; and in a run that nothing     *)
(* disturbs none is late, for any delays and any lengths of frames.        *)
THEOREM EventsOnTime == Spec => []OnTime
<1>1. IInv => OnTime
  <2> SUFFICES ASSUME IInv PROVE OnTime
    OBVIOUS
  <2>1. /\ TypeOK /\ DueInv /\ SortedInv
    BY DEF IInv
  <2>2. /\ DOMAIN eventQueue = 1..Len(eventQueue) /\ window \in Nat
        /\ \A k \in 1..Len(eventQueue) : eventQueue[k].delta \in Nat /\ eventQueue[k].left \in Int
    BY <2>1, Queue
  <2>3. pc # "decrement" => \A k : Gone(k) = 0
    BY DEF Gone
  <2>4. NotEarly
    BY <2>1, <2>2, <2>3 DEF DueInv, NotEarly
  <2>5. ASSUME ~disturbed PROVE NotLate
    <3>1. pc # "decrement" => \A k \in 1..Len(eventQueue) :
             eventQueue[k].left >= 0 /\ eventQueue[k].delta = eventQueue[k].left
      BY <2>1, <2>2, <2>3, <2>5 DEF DueInv
    <3>2. pc = "remove" => 1 \in 1..Len(eventQueue) /\ eventQueue[1].delta < window
      <4>1. eventQueue # <<>> => 1 \in 1..Len(eventQueue)
        BY <2>1, Queue
      <4> QED
        BY <2>1, <4>1 DEF SortedInv, HeadIsDue
    <3> QED
      BY <2>2, <3>1, <3>2 DEF NotLate
  <2> QED
    BY <2>4, <2>5 DEF OnTime
<1> QED
  BY <1>1, Invariance, PTL

(* What is sent is due no later than anything still in the queue.          *)
THEOREM EventsInTimeOrder == Spec => []InTimeOrder
<1>1. IInv => InTimeOrder
  <2> SUFFICES ASSUME IInv, pc = "remove", ~disturbed, NEW k \in DOMAIN eventQueue
               PROVE  eventQueue[1].left <= eventQueue[k].left
    BY DEF InTimeOrder
  <2>1. /\ TypeOK /\ DueInv /\ SortedInv
    BY DEF IInv
  <2>2. /\ k \in 1..Len(eventQueue) /\ 1 \in 1..Len(eventQueue)
        /\ \A l \in 1..Len(eventQueue) : eventQueue[l].delta \in Nat /\ eventQueue[l].left \in Int
    BY <2>1, Queue
  <2>3. \A l \in 1..Len(eventQueue) : eventQueue[l].delta = eventQueue[l].left
    BY <2>1, <2>2 DEF DueInv, Gone
  <2>4. k = 1 \/ 1 < k
    BY <2>2
  <2> QED
    BY <2>1, <2>2, <2>3, <2>4 DEF SortedInv
<1> QED
  BY <1>1, Invariance, PTL

-----------------------------------------------------------------------------
(***************************************************************************)
(* Repetitions: each that has happened, and each that is still to come,    *)
(* goes back to a callback that was cut short.                             *)
(***************************************************************************)
LEMMA AgainIsFinite ==
  IsFiniteSet(Again) /\ Cardinality(Again) \in Nat
<1>1. 1 \in Int /\ MaxEvents \in Int
  BY EventsAssumption
<1>2. IsFiniteSet(1..MaxEvents)
  BY <1>1, FS_Interval
<1>3. Again \subseteq 1..MaxEvents
  BY DEF Again
<1>4. IsFiniteSet(Again)
  BY <1>2, <1>3, FS_Subset
<1> QED
  BY <1>4, FS_CardinalityType

(* What an event needs to be repeated later.                               *)
LEMMA InAgain ==
  ASSUME NEW id
  PROVE  id \in Again <=> /\ id \in 1..MaxEvents /\ sends[id] > 0
                          /\ \E k \in 1..Len(eventQueue) :
                                eventQueue[k].id = id /\ ~(pc = "remove" /\ k = 1)
BY DEF Again, Pending, Excess

LEMMA InAgainNext ==
  ASSUME NEW id
  PROVE  id \in Again' <=> /\ id \in 1..MaxEvents /\ sends'[id] > 0
                           /\ \E k \in 1..Len(eventQueue') :
                                 eventQueue'[k].id = id /\ ~(pc' = "remove" /\ k = 1)
BY DEF Again, Pending, Excess

LEMMA NoMoreAgain ==
  ASSUME TypeOK, RepeatsInv, UNCHANGED <<repeats, aborts>>, Again' \subseteq Again
  PROVE  RepeatsInv'
<1>1. PICK S : S = Again'
  OBVIOUS
<1>2. Cardinality(S) \in Nat /\ Cardinality(S) <= Cardinality(Again)
  BY <1>1, AgainIsFinite, FS_Subset, FS_CardinalityType
<1>3. repeats \in Nat /\ aborts \in Nat /\ Cardinality(Again) \in Nat
  BY AgainIsFinite, BoundsAssumption DEF TypeOK
<1>4. repeats + Cardinality(S) <= aborts
  BY <1>2, <1>3 DEF RepeatsInv
<1> QED
  BY <1>1, <1>4 DEF RepeatsInv

(* Events that move in the queue, or leave it.                             *)
LEMMA SameEvents ==
  ASSUME TypeOK, RepeatsInv, UNCHANGED <<sends, repeats, aborts>>,
         \A k \in 1..Len(eventQueue') :
            \/ pc' = "remove" /\ k = 1
            \/ \E l \in 1..Len(eventQueue) :
                  eventQueue'[k].id = eventQueue[l].id /\ ~(pc = "remove" /\ l = 1)
  PROVE  RepeatsInv'
<1>1. \A id : id \in Again' => id \in Again
  BY InAgain, InAgainNext
<1> QED
  BY <1>1, NoMoreAgain

(* The head is sent: a repetition that was to come has happened.           *)
LEMMA RepeatsWhenSent ==
  ASSUME IInv, RepeatsInv, SendHead
  PROVE  RepeatsInv'
<1>1. TypeOK /\ SendsInv
  BY DEF IInv
<1>2. /\ pc = "send" /\ pc' = "remove" /\ UNCHANGED <<eventQueue, aborts>> /\ eventQueue # <<>>
      /\ sends' = [sends EXCEPT ![eventQueue[1].id] = @ + 1]
      /\ repeats' = IF sends[eventQueue[1].id] > 0 THEN repeats + 1 ELSE repeats
  BY DEF SendHead, HeadIsDue
<1>3. PICK n \in Nat : n = Len(eventQueue) /\ 1 \in 1..n
  BY <1>1, <1>2, Queue
<1>4. PICK h : h = eventQueue[1].id
  OBVIOUS
<1>5. /\ h \in 1..MaxEvents /\ \A k \in 1..n : eventQueue[k].id = h => k = 1
      /\ sends \in [1..MaxEvents -> Nat] /\ repeats \in Nat /\ aborts \in Nat
  BY <1>1, <1>3, <1>4, Queue, BoundsAssumption DEF SendsInv, TypeOK
<1>6. \A id : id \in Again' <=> id \in Again \ {h}
  <2>1. \A id : id \in Again <=> /\ id \in 1..MaxEvents /\ sends[id] > 0
                                 /\ \E k \in 1..n : eventQueue[k].id = id
    BY <1>2, <1>3, InAgain
  <2>2. \A id : id \in Again' <=> /\ id \in 1..MaxEvents /\ sends'[id] > 0
                                  /\ \E k \in 1..n : eventQueue[k].id = id /\ k # 1
    BY <1>2, <1>3, InAgainNext
  <2>3. \A id \in 1..MaxEvents : id # h => sends'[id] = sends[id]
    BY <1>2, <1>4, <1>5
  <2>4. \A k \in 1..n : k # 1 <=> eventQueue[k].id # h
    BY <1>4, <1>5
  <2> QED
    BY <1>5, <2>1, <2>2, <2>3, <2>4
<1>7. PICK S : S = Again' /\ S = Again \ {h}
  BY <1>6
<1>8. IsFiniteSet(Again) /\ Cardinality(Again) \in Nat
  BY AgainIsFinite
<1>9. Cardinality(S) = IF h \in Again THEN Cardinality(Again) - 1 ELSE Cardinality(Again)
  BY <1>7, <1>8, FS_RemoveElement
<1>10. h \in Again <=> sends[h] > 0
  BY <1>2, <1>3, <1>4, <1>5, InAgain
<1>11. repeats' + Cardinality(S) <= aborts
  BY <1>2, <1>4, <1>5, <1>8, <1>9, <1>10 DEF RepeatsInv
<1> QED
  BY <1>2, <1>7, <1>11 DEF RepeatsInv

(* A callback is cut short: the head may have been sent and not removed.   *)
LEMMA RepeatsWhenCut ==
  ASSUME IInv, RepeatsInv, Abort
  PROVE  RepeatsInv'
<1>1. TypeOK
  BY DEF IInv
<1>2. pc' = "idle" /\ aborts' = aborts + 1 /\ UNCHANGED <<sends, repeats>>
  BY DEF Abort
<1>3. PICK q \in Seq(Event) :
         /\ Among(q, eventQueue) /\ (pc = "onFrameCb" \/ q = eventQueue)
         /\ eventQueue' \in Seq(Event) /\ Len(eventQueue') = Len(q)
         /\ \A k \in 1..Len(q) : eventQueue'[k].id = q[k].id
  BY <1>1, CutQueue
<1>4. PICK h : h = eventQueue[1].id
  OBVIOUS
<1>5. \A id : id \in Again' => id \in Again \cup {h}
  <2> SUFFICES ASSUME NEW id \in Again', id # h PROVE id \in Again
    OBVIOUS
  <2>1. PICK k \in 1..Len(q) : eventQueue'[k].id = id
    BY <1>3, InAgainNext
  <2>2. PICK l \in 1..Len(eventQueue) : q[k] = eventQueue[l]
    BY <1>3 DEF Among
  <2>3. eventQueue[l].id = id
    BY <1>3, <2>1, <2>2
  <2>4. l # 1
    BY <1>4, <2>3
  <2> QED
    BY <1>2, <2>3, <2>4, InAgain, InAgainNext
<1>6. PICK S : S = Again'
  OBVIOUS
<1>7. IsFiniteSet(Again) /\ Cardinality(Again) \in Nat
  BY AgainIsFinite
<1>8. /\ IsFiniteSet(Again \cup {h}) /\ Cardinality(Again \cup {h}) \in Nat
      /\ Cardinality(Again \cup {h}) <= Cardinality(Again) + 1
  <2>1. /\ IsFiniteSet(Again \cup {h})
        /\ Cardinality(Again \cup {h}) =
              IF h \in Again THEN Cardinality(Again) ELSE Cardinality(Again) + 1
    BY <1>7, FS_AddElement
  <2> QED
    BY <1>7, <2>1
<1>9. Cardinality(S) \in Nat /\ Cardinality(S) <= Cardinality(Again \cup {h})
  BY <1>5, <1>6, <1>8, FS_Subset, FS_CardinalityType
<1>10. repeats \in Nat /\ aborts \in Nat
  BY <1>1, BoundsAssumption DEF TypeOK
<1>11. repeats + Cardinality(S) <= aborts + 1
  BY <1>7, <1>8, <1>9, <1>10 DEF RepeatsInv
<1> QED
  BY <1>2, <1>6, <1>11 DEF RepeatsInv

LEMMA RepeatsStep ==
  ASSUME IInv, RepeatsInv, [Next]_vars
  PROVE  RepeatsInv'
<1>1. TypeOK /\ SendsInv
  BY DEF IInv
<1>2. PICK n \in Nat : n = Len(eventQueue)
  BY <1>1, Queue
<1>3. CASE \/ (\E m \in Windows : _onFrameCb(m)) \/ NoneDue \/ Halt \/ Restart
           \/ Resume /\ pc # "remove"
  <2>1. /\ UNCHANGED <<sends, repeats, aborts>> /\ pc # "remove" /\ pc' # "remove"
        /\ eventQueue' = eventQueue \/ eventQueue' = <<>>
    BY <1>3 DEF _onFrameCb, NoneDue, Halt, Resume, Restart
  <2>2. Len(<<>>) = 0 /\ 1..0 = {}
    OBVIOUS
  <2> QED
    BY <1>1, <2>1, <2>2, SameEvents
<1>4. CASE UNCHANGED vars \/ Resume
  <2>1. UNCHANGED <<eventQueue, pc, sends, repeats, aborts>>
    BY <1>4 DEF vars, Resume
  <2> QED
    BY <1>1, <2>1, SameEvents
<1>5. CASE Sort
  <2>1. PICK r \in sort(eventQueue) : r = eventQueue'
    BY <1>5 DEF Sort
  <2>2. Among(r, eventQueue)
    BY <1>1, Queue, Sorts
  <2>3. /\ UNCHANGED <<sends, repeats, aborts>> /\ pc # "remove"
        /\ \A k \in 1..Len(eventQueue') : \E l \in 1..Len(eventQueue) : eventQueue'[k] = eventQueue[l]
    BY <1>5, <2>1, <2>2 DEF Sort, Among
  <2> QED
    BY <1>1, <2>3, SameEvents
<1>6. CASE RemoveHead
  <2>1. /\ UNCHANGED <<sends, repeats, aborts>> /\ eventQueue # <<>> /\ eventQueue' = Tail(eventQueue)
    BY <1>6 DEF RemoveHead, IInv, SortedInv, HeadIsDue
  <2>2. \A k \in 1..Len(eventQueue') : /\ k + 1 \in 1..Len(eventQueue) /\ k + 1 # 1
                                       /\ eventQueue'[k] = eventQueue[k + 1]
    BY <1>1, <1>2, <2>1, Queue
  <2> QED
    BY <1>1, <2>1, <2>2, SameEvents
<1>7. CASE Decrement
  <2>1. /\ UNCHANGED <<sends, repeats, aborts>> /\ pc # "remove"
        /\ eventQueue' = [eventQueue EXCEPT ![i].delta = @ - window]
    BY <1>7 DEF Decrement
  <2>2. eventQueue \in Seq(Event) /\ \A k \in 1..Len(eventQueue) : eventQueue[k] \in Event
    BY <1>1, Queue
  <2>3. /\ Len(eventQueue') = Len(eventQueue)
        /\ \A k \in 1..Len(eventQueue) : eventQueue'[k].id = eventQueue[k].id
    BY <2>1, <2>2 DEF Event
  <2> QED
    BY <1>1, <2>1, <2>3, SameEvents
<1>8. CASE FrameEnds \/ HaltedFrames
  <2>1. PICK m \in Windows : eventQueue' = Later(eventQueue, m)
    BY <1>1, <1>8 DEF FrameEnds, HaltedFrames, HaltedFrame, TypeOK
  <2>2. /\ Len(eventQueue') = Len(eventQueue)
        /\ \A k \in 1..Len(eventQueue) : eventQueue'[k].id = eventQueue[k].id
    BY <1>1, <2>1, Laters, Queue
  <2>3. UNCHANGED <<sends, repeats, aborts>> /\ pc # "remove"
    BY <1>8 DEF FrameEnds, HaltedFrames, HaltedFrame
  <2> QED
    BY <1>1, <2>2, <2>3, SameEvents
<1>9. CASE Schedule
  <2>1. PICK d \in 0..MaxDelta : scheduleEvent(d)
    BY <1>9 DEF Schedule
  <2> DEFINE e == [id |-> scheduled + 1, delta |-> d, left |-> d]
  <2>2. /\ pc # "remove" /\ pc' = pc /\ UNCHANGED <<sends, repeats, aborts>>
        /\ eventQueue' = Append(eventQueue, e) /\ e.id = scheduled + 1
        /\ scheduled \in Nat /\ scheduled + 1 \in 1..MaxEvents
    BY <1>1, <2>1, EventsAssumption DEF scheduleEvent, TypeOK
  <2> HIDE DEF e
  <2>3. /\ Len(eventQueue') = n + 1 /\ eventQueue'[n + 1] = e
        /\ \A k \in 1..n : eventQueue'[k] = eventQueue[k]
    BY <1>1, <1>2, <2>2, Queue
  <2>4. \A k \in 1..(n + 1) : k \in 1..n \/ k = n + 1
    BY <1>2
  <2>5. sends[scheduled + 1] = 0
    BY <1>1, <2>2 DEF SendsInv
  <2>6. ASSUME NEW id \in Again' PROVE id \in Again
    <3>1. id \in 1..MaxEvents /\ sends[id] > 0 /\ \E k \in 1..(n + 1) : eventQueue'[k].id = id
      BY <2>2, <2>3, InAgainNext
    <3>2. id # scheduled + 1
      BY <2>5, <3>1
    <3>3. \E k \in 1..n : eventQueue[k].id = id
      BY <2>2, <2>3, <2>4, <3>1, <3>2
    <3> QED
      BY <1>2, <2>2, <3>1, <3>3, InAgain
  <2> QED
    BY <1>1, <2>2, <2>6, NoMoreAgain
<1>10. CASE SendHead
  BY <1>10, RepeatsWhenSent
<1>11. CASE Abort
  BY <1>11, RepeatsWhenCut
<1> QED
  BY <1>3, <1>4, <1>5, <1>6, <1>7, <1>8, <1>9, <1>10, <1>11 DEF Next, Frame

(* However often callbacks are cut short, and wherever: each time one event*)
(* is sent once too often at most, over all the events of the script.      *)
THEOREM RepeatsAreFew == Spec => []FewRepeats
<1>1. Init => RepeatsInv
  <2> SUFFICES ASSUME Init PROVE RepeatsInv
    OBVIOUS
  <2>1. Len(eventQueue) = 0 /\ 1..0 = {} /\ aborts = 0 /\ repeats = 0
    BY DEF Init
  <2>2. \A id : id \notin Again
    BY <2>1, InAgain
  <2>3. Again = {}
    BY <2>2
  <2>4. Cardinality(Again) = 0
    BY <2>3, FS_EmptySet
  <2> QED
    BY <2>1, <2>4 DEF RepeatsInv
<1>2. IInv /\ RepeatsInv /\ [Next]_vars => RepeatsInv'
  BY RepeatsStep
<1>3. IInv /\ RepeatsInv => FewRepeats
  <2> SUFFICES ASSUME IInv, RepeatsInv PROVE FewRepeats
    OBVIOUS
  <2>1. repeats \in Nat /\ aborts \in Nat /\ Cardinality(Again) \in Nat
    BY AgainIsFinite, BoundsAssumption DEF IInv, TypeOK
  <2> QED
    BY <2>1 DEF RepeatsInv, FewRepeats
<1> QED
  BY <1>1, <1>2, <1>3, Invariance, PTL DEF Spec

-----------------------------------------------------------------------------
(***************************************************************************)
(* The agenda.                                                             *)
(***************************************************************************)
LEMMA WhatIsToSend ==
  ASSUME NEW x
  PROVE  x \in ToSend <=> \E k \in 1..Len(eventQueue) : ~Sent(k) /\ x = Entry(eventQueue[k])
BY DEF ToSend

LEMMA WhatIsToSendNext ==
  ASSUME NEW x
  PROVE  x \in ToSend' <=>
            \E k \in 1..Len(eventQueue') : ~(pc' = "remove" /\ k = 1) /\ x = Entry(eventQueue'[k])
BY DEF ToSend, Sent, Entry

(* Nothing that matters to the agenda happens while the list is sorted,    *)
(* loses the event that was sent, or is decremented.                       *)
LEMMA KeepsAgenda ==
  ASSUME UNCHANGED <<scheduled, window>>, (pc # "idle") = (pc' # "idle"),
         \A x : x \in ToSend' <=> x \in ToSend
  PROVE  UNCHANGED Agenda!vars
<1>1. ToSend' = ToSend
  OBVIOUS
<1> QED
  BY <1>1 DEF Agenda!vars

LEMMA SameQueueKeepsAgenda ==
  ASSUME UNCHANGED <<scheduled, window>>, (pc # "idle") = (pc' # "idle"),
         pc # "remove", pc' # "remove", Len(eventQueue') = Len(eventQueue),
         \A k \in 1..Len(eventQueue) : Entry(eventQueue'[k]) = Entry(eventQueue[k])
  PROVE  UNCHANGED Agenda!vars
<1>1. \A x : x \in ToSend' <=> x \in ToSend
  BY WhatIsToSend, WhatIsToSendNext DEF Sent
<1> QED
  BY <1>1, KeepsAgenda

LEMMA SortKeepsAgenda ==
  ASSUME IInv, Sort
  PROVE  UNCHANGED Agenda!vars
<1>1. TypeOK
  BY DEF IInv
<1>2. pc = "onFrameCb" /\ pc' = "send" /\ UNCHANGED <<scheduled, window>>
  BY DEF Sort
<1>3. PICK r \in sort(eventQueue) : r = eventQueue'
  BY DEF Sort
<1>4. Among(r, eventQueue)
  BY <1>1, Queue, Sorts
<1>5. /\ \A k \in 1..Len(eventQueue') : \E l \in 1..Len(eventQueue) : eventQueue'[k] = eventQueue[l]
      /\ \A l \in 1..Len(eventQueue) : \E k \in 1..Len(eventQueue') : eventQueue'[k] = eventQueue[l]
  BY <1>3, <1>4 DEF Among
<1>6. ASSUME NEW x
      PROVE  x \in ToSend' <=> x \in ToSend
  <2>1. x \in ToSend <=> \E k \in 1..Len(eventQueue) : x = Entry(eventQueue[k])
    BY <1>2, WhatIsToSend DEF Sent
  <2>2. x \in ToSend' <=> \E k \in 1..Len(eventQueue') : x = Entry(eventQueue'[k])
    BY <1>2, WhatIsToSendNext
  <2> QED
    BY <1>5, <2>1, <2>2
<1> QED
  BY <1>2, <1>6, KeepsAgenda

LEMMA RemoveKeepsAgenda ==
  ASSUME IInv, RemoveHead
  PROVE  UNCHANGED Agenda!vars
<1>1. TypeOK /\ SortedInv
  BY DEF IInv
<1>2. /\ pc = "remove" /\ pc' = "send" /\ UNCHANGED <<scheduled, window>>
      /\ eventQueue' = Tail(eventQueue) /\ eventQueue # <<>>
  BY <1>1 DEF RemoveHead, SortedInv, HeadIsDue
<1>3. PICK n \in Nat : n = Len(eventQueue)
  BY <1>1, Queue
<1>4. /\ Len(eventQueue') = n - 1 /\ n > 0
      /\ \A k \in 1..(n - 1) : eventQueue'[k] = eventQueue[k + 1]
  BY <1>1, <1>2, <1>3, Queue
<1>5. ASSUME NEW x
      PROVE  x \in ToSend' <=> x \in ToSend
  <2>1. x \in ToSend <=> \E k \in 1..n : k # 1 /\ x = Entry(eventQueue[k])
    BY <1>2, <1>3, WhatIsToSend DEF Sent
  <2>2. x \in ToSend' <=> \E k \in 1..(n - 1) : x = Entry(eventQueue'[k])
    BY <1>2, <1>4, WhatIsToSendNext
  <2>3. ASSUME x \in ToSend PROVE x \in ToSend'
    <3>1. PICK k \in 1..n : k # 1 /\ x = Entry(eventQueue[k])
      BY <2>1, <2>3
    <3>2. k - 1 \in 1..(n - 1) /\ eventQueue'[k - 1] = eventQueue[k]
      BY <1>4, <3>1
    <3> QED
      BY <2>2, <3>1, <3>2
  <2>4. ASSUME x \in ToSend' PROVE x \in ToSend
    <3>1. PICK k \in 1..(n - 1) : x = Entry(eventQueue'[k])
      BY <2>2, <2>4
    <3>2. k + 1 \in 1..n /\ k + 1 # 1 /\ eventQueue'[k] = eventQueue[k + 1]
      BY <1>4, <3>1
    <3> QED
      BY <2>1, <3>1, <3>2
  <2> QED
    BY <2>3, <2>4
<1> QED
  BY <1>2, <1>5, KeepsAgenda

LEMMA DecrementKeepsAgenda ==
  ASSUME IInv, Decrement
  PROVE  UNCHANGED Agenda!vars
<1>1. TypeOK
  BY DEF IInv
<1>2. /\ pc = "decrement" /\ UNCHANGED <<scheduled, window, pc>>
      /\ eventQueue' = [eventQueue EXCEPT ![i].delta = @ - window]
  BY DEF Decrement
<1>3. eventQueue \in Seq(Event) /\ \A k \in 1..Len(eventQueue) : eventQueue[k] \in Event
  BY <1>1, Queue
<1>4. /\ Len(eventQueue') = Len(eventQueue)
      /\ \A k \in 1..Len(eventQueue) : /\ eventQueue'[k].id = eventQueue[k].id
                                       /\ eventQueue'[k].left = eventQueue[k].left
  BY <1>2, <1>3 DEF Event
<1>5. \A k \in 1..Len(eventQueue) : Entry(eventQueue'[k]) = Entry(eventQueue[k])
  BY <1>4 DEF Entry
<1> QED
  BY <1>2, <1>4, <1>5, SameQueueKeepsAgenda

(* A new event gets a place on the agenda.                                 *)
LEMMA ScheduleAdds ==
  ASSUME IInv, NEW d \in 0..MaxDelta, scheduleEvent(d)
  PROVE  Agenda!Add(d)
<1>1. TypeOK
  BY DEF IInv
<1> DEFINE e == [id |-> scheduled + 1, delta |-> d, left |-> d]
<1>2. /\ pc # "remove" /\ pc' = pc /\ window' = window /\ scheduled' = scheduled + 1
      /\ eventQueue' = Append(eventQueue, e)
  BY DEF scheduleEvent
<1>3. Entry(e) = [id |-> scheduled', left |-> d]
  BY <1>2 DEF Entry
<1> HIDE DEF e
<1>4. PICK n \in Nat : n = Len(eventQueue)
  BY <1>1, Queue
<1>5. /\ Len(eventQueue') = n + 1 /\ eventQueue'[n + 1] = e
      /\ \A k \in 1..n : eventQueue'[k] = eventQueue[k]
  BY <1>1, <1>2, <1>4, Queue
<1>6. \A k : k \in 1..(n + 1) <=> k \in 1..n \/ k = n + 1
  BY <1>4
<1>7. ASSUME NEW x
      PROVE  x \in ToSend' <=> x \in ToSend \/ x = Entry(e)
  <2>1. x \in ToSend <=> \E k \in 1..n : x = Entry(eventQueue[k])
    BY <1>2, <1>4, WhatIsToSend DEF Sent
  <2>2. x \in ToSend' <=> \E k \in 1..(n + 1) : x = Entry(eventQueue'[k])
    BY <1>2, <1>5, WhatIsToSendNext
  <2> QED
    BY <1>5, <1>6, <2>1, <2>2
<1>8. ToSend' = ToSend \cup {[id |-> scheduled', left |-> d]}
  BY <1>3, <1>7
<1> QED
  BY <1>2, <1>8 DEF Agenda!Add

(* The head is the earliest event of the agenda, and its last sample is in *)
(* the frame.                                                              *)
LEMMA SendImplements ==
  ASSUME IInv, ~disturbed, SendHead
  PROVE  \E e \in ToSend : Agenda!Send(e)
<1>1. TypeOK /\ DueInv /\ SortedInv /\ SendsInv
  BY DEF IInv
<1>2. /\ pc = "send" /\ pc' = "remove" /\ UNCHANGED <<eventQueue, window, scheduled>>
      /\ eventQueue # <<>> /\ eventQueue[1].delta < window
  BY DEF SendHead, HeadIsDue
<1>3. PICK n \in Nat : n = Len(eventQueue)
  BY <1>1, Queue
<1>4. /\ 1 \in 1..n /\ window \in Nat
      /\ \A k \in 1..n : eventQueue[k].delta \in Nat /\ eventQueue[k].left \in Int
  <2>1. eventQueue # <<>> => 1 \in 1..n
    BY <1>1, <1>3, Queue
  <2> QED
    BY <1>1, <1>2, <1>3, <2>1, Queue
<1>5. \A k \in 1..n : eventQueue[k].delta = eventQueue[k].left
  BY <1>1, <1>2, <1>3, <1>4 DEF DueInv, Gone
<1>6. \A k \in 1..n : eventQueue[1].left <= eventQueue[k].left
  <2>1. \A k \in 1..n : k = 1 \/ 1 < k
    BY <1>4
  <2> QED
    BY <1>1, <1>2, <1>3, <1>4, <1>5, <2>1 DEF SortedInv
<1> DEFINE e == Entry(eventQueue[1])
<1>7. e.left \in 0..(window - 1) /\ e.left = eventQueue[1].left
  BY <1>2, <1>4, <1>5 DEF Entry
<1>8. \A x : x \in ToSend <=> \E k \in 1..n : x = Entry(eventQueue[k])
  BY <1>2, <1>3, WhatIsToSend DEF Sent
<1>9. e \in ToSend
  BY <1>4, <1>8
<1>10. \A f \in ToSend : e.left <= f.left
  BY <1>6, <1>7, <1>8 DEF Entry
<1>11. ASSUME NEW x
       PROVE  x \in ToSend' <=> x \in ToSend \ {e}
  <2>1. x \in ToSend' <=> \E k \in 1..n : k # 1 /\ x = Entry(eventQueue[k])
    BY <1>2, <1>3, WhatIsToSendNext
  <2>2. \A k \in 1..n : k # 1 => Entry(eventQueue[k]) # e
    <3>1. \A k \in 1..n : k # 1 => eventQueue[k].id # eventQueue[1].id
      BY <1>1, <1>3, <1>4 DEF SendsInv
    <3> QED
      BY <3>1 DEF Entry
  <2> QED
    BY <1>4, <1>8, <2>1, <2>2
<1> HIDE DEF e
<1>12. ToSend' = ToSend \ {e}
  BY <1>11
<1>13. Agenda!Send(e)
  BY <1>2, <1>7, <1>10, <1>12 DEF Agenda!Send
<1> QED
  BY <1>9, <1>13

(* When the loop has ended every delta counts from the next frame, and so  *)
(* nothing that was due in this one is left.                               *)
LEMMA EndPasses ==
  ASSUME IInv, ~disturbed, FrameEnds
  PROVE  Agenda!Pass
<1>1. TypeOK /\ DueInv
  BY DEF IInv
<1>2. /\ pc = "decrement" /\ pc' = "idle" /\ UNCHANGED <<window, scheduled>>
      /\ i > Len(eventQueue) /\ eventQueue' = Later(eventQueue, window)
  BY DEF FrameEnds
<1>3. PICK n \in Nat : n = Len(eventQueue)
  BY <1>1, Queue
<1>4. /\ window \in Nat /\ MaxLate \in Nat /\ i \in Nat
      /\ \A k \in 1..n : eventQueue[k].left \in Int
  BY <1>1, <1>3, Queue, EventsAssumption DEF TypeOK
<1>5. \A k \in 1..n : eventQueue[k].left >= window
  <2>1. \A k \in 1..n : Gone(k) = window
    BY <1>2, <1>3, <1>4 DEF Gone
  <2> QED
    BY <1>1, <1>3, <2>1 DEF DueInv
<1>6. /\ Len(eventQueue') = n
      /\ \A k \in 1..n : /\ eventQueue'[k].id = eventQueue[k].id
                         /\ eventQueue'[k].left = eventQueue[k].left - window
  <2>1. eventQueue \in Seq(Event) /\ window \in Windows
    BY <1>1 DEF TypeOK
  <2>2. PICK w \in Windows : w = window
    BY <2>1
  <2>3. /\ Len(eventQueue') = n
        /\ \A k \in 1..n :
              /\ eventQueue'[k].id = eventQueue[k].id
              /\ eventQueue'[k].left = IF eventQueue[k].left - w < -MaxLate THEN -MaxLate
                                       ELSE eventQueue[k].left - w
    BY <1>2, <1>3, <2>1, <2>2, Laters
  <2> QED
    BY <1>4, <1>5, <2>2, <2>3
<1>7. \A x : x \in ToSend <=> \E k \in 1..n : x = Entry(eventQueue[k])
  BY <1>2, <1>3, WhatIsToSend DEF Sent
<1>8. \A x : x \in ToSend' <=> \E k \in 1..n : x = Entry(eventQueue'[k])
  BY <1>2, <1>6, WhatIsToSendNext
<1>9. \A e \in ToSend : e.left >= window
  BY <1>5, <1>7 DEF Entry
<1>10. \A k \in 1..n : Entry(eventQueue'[k]) = [Entry(eventQueue[k]) EXCEPT !.left = @ - window]
  BY <1>6 DEF Entry
<1>11. ToSend' = {[e EXCEPT !.left = @ - window] : e \in ToSend}
  <2>1. ASSUME NEW x \in ToSend'
        PROVE  \E e \in ToSend : x = [e EXCEPT !.left = @ - window]
    <3>1. PICK k \in 1..n : x = Entry(eventQueue'[k])
      BY <1>8, <2>1
    <3>2. Entry(eventQueue[k]) \in ToSend
      BY <1>7, <3>1
    <3> QED
      BY <1>10, <3>1, <3>2
  <2>2. ASSUME NEW e \in ToSend
        PROVE  [e EXCEPT !.left = @ - window] \in ToSend'
    BY <1>7, <1>8, <1>10, <2>2
  <2> QED
    BY <2>1, <2>2
<1> QED
  BY <1>2, <1>9, <1>11 DEF Agenda!Pass

LEMMA RestartClears ==
  ASSUME Restart
  PROVE  Agenda!Clear
<1>1. /\ pc = "idle" /\ UNCHANGED <<pc, window, scheduled>> /\ Len(eventQueue') = 0 /\ 1..0 = {}
  BY DEF Restart
<1>2. ToSend' = {}
  BY <1>1, WhatIsToSendNext
<1> QED
  BY <1>1, <1>2 DEF Agenda!Clear

LEMMA BeginImplements ==
  ASSUME NEW n \in Windows, _onFrameCb(n)
  PROVE  Agenda!Begin(n)
<1>1. /\ pc = "idle" /\ pc' = "onFrameCb" /\ window' = n /\ UNCHANGED <<eventQueue, scheduled>>
  BY DEF _onFrameCb
<1>2. \A x : x \in ToSend' <=> x \in ToSend
  BY <1>1, WhatIsToSend, WhatIsToSendNext DEF Sent
<1>3. ToSend' = ToSend
  BY <1>2
<1> QED
  BY <1>1, <1>3 DEF Agenda!Begin

LEMMA AgendaStep ==
  ASSUME IInv, [Next]_vars
  PROVE  [disturbed' \/ Agenda!Next]_(Agenda!vars)
<1>1. CASE Frame
  <2>1. CASE \E n \in Windows : _onFrameCb(n)
    BY <2>1, BeginImplements DEF Agenda!Next
  <2>2. CASE Sort
    BY <2>2, SortKeepsAgenda
  <2>3. CASE SendHead
    <3>1. disturbed' = disturbed
      BY <2>3 DEF SendHead
    <3> QED
      BY <2>3, <3>1, SendImplements DEF Agenda!Next
  <2>4. CASE RemoveHead
    BY <2>4, RemoveKeepsAgenda
  <2>5. CASE NoneDue
    BY <2>5, SameQueueKeepsAgenda DEF NoneDue
  <2>6. CASE Decrement
    BY <2>6, DecrementKeepsAgenda
  <2>7. CASE FrameEnds
    <3>1. disturbed' = disturbed
      BY <2>7 DEF FrameEnds
    <3> QED
      BY <2>7, <3>1, EndPasses DEF Agenda!Next
  <2> QED
    BY <1>1, <2>1, <2>2, <2>3, <2>4, <2>5, <2>6, <2>7 DEF Frame
<1>2. CASE Schedule
  BY <1>2, ScheduleAdds DEF Schedule, Agenda!Next
<1>3. CASE HaltedFrames \/ Abort
  <2>1. disturbed' = TRUE
    BY <1>3 DEF HaltedFrames, HaltedFrame, Abort
  <2> QED
    BY <2>1, Zenon
<1>4. CASE Halt \/ Resume \/ UNCHANGED vars
  <2>1. UNCHANGED <<eventQueue, pc, window, scheduled>>
    BY <1>4 DEF Halt, Resume, vars
  <2>2. \A x : x \in ToSend' <=> x \in ToSend
    BY <2>1, WhatIsToSend, WhatIsToSendNext DEF Sent
  <2> QED
    BY <2>1, <2>2, KeepsAgenda
<1>5. CASE Restart
  BY <1>5, RestartClears DEF Agenda!Next
<1> QED
  BY <1>1, <1>2, <1>3, <1>4, <1>5 DEF Next

(* Until the first disturbance, and from a restart to the next one, the    *)
(* scheduler implements the agenda that the scripts are told of: each event*)
(* is sent once, at its sample, before all that are due later, and none is *)
(* left behind.                                                            *)
THEOREM Refinement == Spec => ImplementsAgenda
<1>1. Init => Agenda!Init
  <2> SUFFICES ASSUME Init PROVE Agenda!Init
    OBVIOUS
  <2>1. Len(eventQueue) = 0 /\ 1..0 = {}
    BY DEF Init
  <2>2. ToSend = {}
    BY <2>1, WhatIsToSend
  <2> QED
    BY <2>2 DEF Init, Agenda!Init
<1>2. IInv /\ [Next]_vars => [disturbed' \/ Agenda!Next]_(Agenda!vars)
  BY AgendaStep
<1> QED
  BY <1>1, <1>2, Invariance, PTL DEF Spec, ImplementsAgenda
=============================================================================
