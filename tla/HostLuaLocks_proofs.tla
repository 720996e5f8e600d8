------------------------- MODULE HostLuaLocks_proofs -------------------------
(***************************************************************************)
(* Proofs about HostLuaLocks for any number of threads, any values and any *)
(* number of calls of a script into the host.                              *)
(***************************************************************************)
EXTENDS HostLuaLocks, SequenceTheorems, TLAPS

(* The sequences a call is made of: one after the other, and the rest.     *)
LEMMA Joined ==
  ASSUME NEW s \in Seq(Steps), NEW r \in Seq(Steps)
  PROVE  /\ s \o r \in Seq(Steps) /\ Len(s \o r) = Len(s) + Len(r)
         /\ Len(s) \in Nat /\ Len(r) \in Nat
         /\ \A k \in 1..Len(s) : (s \o r)[k] = s[k]
         /\ \A k \in 1..Len(r) : (s \o r)[Len(s) + k] = r[k]
OBVIOUS

LEMMA Rest ==
  ASSUME NEW s \in Seq(Steps), s # <<>>
  PROVE  /\ Tail(s) \in Seq(Steps) /\ Len(s) \in Nat \ {0} /\ Len(Tail(s)) = Len(s) - 1
         /\ Head(s) = s[1] /\ \A k \in 1..Len(Tail(s)) : Tail(s)[k] = s[k + 1]
OBVIOUS

LEMMA Later ==
  ASSUME NEW s \in Seq(Steps), NEW n \in Nat, n <= Len(s)
  PROVE  /\ SubSeq(s, n + 1, Len(s)) \in Seq(Steps) /\ Len(s) \in Nat
         /\ Len(SubSeq(s, n + 1, Len(s))) = Len(s) - n
         /\ \A k \in 1..(Len(s) - n) : SubSeq(s, n + 1, Len(s))[k] = s[n + k]
OBVIOUS

(* What runs from some depths runs on from those after its first step.     *)
LEMMA RunsOn ==
  ASSUME NEW s \in Seq(Steps), s # <<>>, NEW h0, NEW l0, NEW h1, NEW l1, NEW p,
         Runs(s, h0, l0, h1, l1, p)
  PROVE  /\ h0 \in Nat /\ l0 \in Nat
         /\ s[1].op = "LUA_LOCK" /\ h0 > 0 => l0 > 0 \/ p
         /\ s[1].op \in {"script", "setParameterAutomated", "tell"} => l0 > 0
         /\ s[1].op = "HOST_UNLOCK" => h0 > 0
         /\ s[1].op = "LUA_UNLOCK" => l0 > 0
         /\ Runs(Tail(s), After(s[1].op, "HOST_LOCK", "HOST_UNLOCK", h0),
                 After(s[1].op, "LUA_LOCK", "LUA_UNLOCK", l0), h1, l1, p)
         /\ s[1].op = "if(!halted)" =>
               /\ s[1].value + 1 <= Len(s)
               /\ \A j \in 2..(s[1].value + 1) : s[j].op \in Skipped
               /\ Runs(SubSeq(s, s[1].value + 2, Len(s)), h0, l0, h1, l1, p)
<1>1. PICK h \in Depths(s), l \in Depths(s) :
         /\ h[1] = h0 /\ l[1] = l0 /\ h[Len(s) + 1] = h1 /\ l[Len(s) + 1] = l1
         /\ \A k \in 1..Len(s) : StepRuns(s, h, l, p, k)
  BY DEF Runs
<1> DEFINE m == Len(s)
<1>2. /\ m \in Nat \ {0} /\ Tail(s) \in Seq(Steps) /\ Len(Tail(s)) = m - 1 /\ s[1] \in Steps
      /\ \A k \in 1..(m - 1) : Tail(s)[k] = s[k + 1]
  BY Rest
<1>3. h \in [1..(m + 1) -> Nat] /\ l \in [1..(m + 1) -> Nat]
  BY DEF Depths
<1>4. StepRuns(s, h, l, p, 1)
  BY <1>1, <1>2
<1>5. /\ h[1] \in Nat /\ l[1] \in Nat /\ h[1 + 1] \in Nat /\ l[1 + 1] \in Nat
  BY <1>2, <1>3
<1>6. /\ h0 \in Nat /\ l0 \in Nat
      /\ h[2] = After(s[1].op, "HOST_LOCK", "HOST_UNLOCK", h0)
      /\ l[2] = After(s[1].op, "LUA_LOCK", "LUA_UNLOCK", l0)
  BY <1>1, <1>4, <1>5 DEF StepRuns
<1>7. /\ s[1].op = "LUA_LOCK" /\ h0 > 0 => l0 > 0 \/ p
      /\ s[1].op \in {"script", "setParameterAutomated", "tell"} => l0 > 0
      /\ s[1].op = "HOST_UNLOCK" => h0 > 0
      /\ s[1].op = "LUA_UNLOCK" => l0 > 0
  BY <1>1, <1>4, <1>5, <1>6 DEF StepRuns, After
<1>8. ASSUME NEW n \in 1..m, NEW r \in Seq(Steps), Len(r) = m - n,
             \A k \in 1..(m - n) : r[k] = s[n + k]
      PROVE  Runs(r, h[n + 1], l[n + 1], h1, l1, p)
  <2> DEFINE g == [k \in 1..(m - n + 1) |-> h[n + k]]
             i == [k \in 1..(m - n + 1) |-> l[n + k]]
  <2>1. g \in Depths(r) /\ i \in Depths(r)
    BY <1>2, <1>3, <1>8 DEF Depths
  <2>2. g[1] = h[n + 1] /\ i[1] = l[n + 1] /\ g[Len(r) + 1] = h1 /\ i[Len(r) + 1] = l1
    BY <1>1, <1>2, <1>8
  <2>3. ASSUME NEW k \in 1..(m - n) PROVE StepRuns(r, g, i, p, k)
    <3>1. StepRuns(s, h, l, p, n + k)
      BY <1>1, <1>2, <1>8
    <3>2. g[k] = h[n + k] /\ g[k + 1] = h[n + k + 1] /\ i[k] = l[n + k] /\ i[k + 1] = l[n + k + 1]
      BY <1>2, <2>3
    <3>3. r[k] = s[n + k]
      BY <1>8
    <3>4. s[n + k] \in Steps /\ s[n + k].value \in Nat
      <4>1. n + k \in 1..m
        BY <1>2, <1>8
      <4>2. s[n + k] \in Steps
        BY <4>1
      <4> QED
        BY <4>2 DEF Steps
    <3> DEFINE v == s[n + k].value
    <3>5. ASSUME s[n + k].op = "if(!halted)"
          PROVE  /\ k + v <= Len(r) /\ \A j \in (k + 1)..(k + v) : r[j].op \in Skipped
                 /\ g[k + v + 1] = g[k] /\ i[k + v + 1] = i[k]
      <4>1. /\ n + k + v <= m /\ \A j \in (n + k + 1)..(n + k + v) : s[j].op \in Skipped
            /\ h[n + k + v + 1] = h[n + k] /\ l[n + k + v + 1] = l[n + k]
        BY <3>1, <3>5 DEF StepRuns
      <4>2. k + v + 1 \in 1..(m - n + 1) /\ k + v <= Len(r)
        BY <1>2, <1>8, <3>4, <4>1
      <4>3. g[k + v + 1] = h[n + k + v + 1] /\ i[k + v + 1] = l[n + k + v + 1]
        BY <1>2, <3>4, <4>2, SMTT(30)
      <4>4. \A j \in (k + 1)..(k + v) : j \in 1..(m - n) /\ n + j \in (n + k + 1)..(n + k + v)
        BY <1>2, <1>8, <3>4, <4>2
      <4> HIDE DEF v, g, i
      <4> QED
        BY <1>8, <3>2, <4>1, <4>2, <4>3, <4>4
    <3> HIDE DEF g, i
    <3> QED
      BY <3>1, <3>2, <3>3, <3>5 DEF StepRuns
  <2> HIDE DEF g, i
  <2> QED
    BY <1>8, <2>1, <2>2, <2>3 DEF Runs
<1>9. Runs(Tail(s), h[2], l[2], h1, l1, p)
  <2>1. 1 \in 1..m /\ \A k \in 1..(m - 1) : Tail(s)[k] = s[1 + k]
    BY <1>2
  <2>2. Runs(Tail(s), h[1 + 1], l[1 + 1], h1, l1, p)
    BY <1>2, <1>8, <2>1
  <2> QED
    BY <2>2
<1>10. ASSUME s[1].op = "if(!halted)"
       PROVE  /\ s[1].value + 1 <= Len(s)
              /\ \A j \in 2..(s[1].value + 1) : s[j].op \in Skipped
              /\ Runs(SubSeq(s, s[1].value + 2, Len(s)), h0, l0, h1, l1, p)
  <2> DEFINE n == s[1].value + 1
  <2>1. /\ n \in Nat \ {0} /\ n <= m /\ n + 1 = s[1].value + 2
        /\ \A j \in 2..n : s[j].op \in Skipped
        /\ h[n + 1] = h0 /\ l[n + 1] = l0
    <3>1. s[1].value \in Nat
      BY <1>2 DEF Steps
    <3> QED
      BY <1>1, <1>4, <1>10, <3>1 DEF StepRuns
  <2> HIDE DEF n
  <2>2. /\ SubSeq(s, n + 1, m) \in Seq(Steps) /\ Len(SubSeq(s, n + 1, m)) = m - n
        /\ \A k \in 1..(m - n) : SubSeq(s, n + 1, m)[k] = s[n + k]
    BY <1>2, <2>1, Later
  <2>3. n \in 1..m
    BY <1>2, <2>1
  <2>4. Runs(SubSeq(s, n + 1, m), h[n + 1], l[n + 1], h1, l1, p)
    BY <1>8, <2>2, <2>3
  <2> QED
    BY <2>1, <2>4 DEF n
<1> QED
  BY <1>6, <1>7, <1>9, <1>10

(* Two lists, one after the other.                                         *)
LEMMA RunsJoined ==
  ASSUME NEW s \in Seq(Steps), NEW r \in Seq(Steps),
         NEW h0, NEW l0, NEW h1, NEW l1, NEW h2, NEW l2, NEW p,
         Runs(s, h0, l0, h1, l1, p), Runs(r, h1, l1, h2, l2, p)
  PROVE  s \o r \in Seq(Steps) /\ Runs(s \o r, h0, l0, h2, l2, p)
<1>1. PICK h \in Depths(s), l \in Depths(s) :
         /\ h[1] = h0 /\ l[1] = l0 /\ h[Len(s) + 1] = h1 /\ l[Len(s) + 1] = l1
         /\ \A k \in 1..Len(s) : StepRuns(s, h, l, p, k)
  BY DEF Runs
<1>2. PICK g \in Depths(r), i \in Depths(r) :
         /\ g[1] = h1 /\ i[1] = l1 /\ g[Len(r) + 1] = h2 /\ i[Len(r) + 1] = l2
         /\ \A k \in 1..Len(r) : StepRuns(r, g, i, p, k)
  BY DEF Runs
<1> DEFINE a == Len(s)  b == Len(r)  q == s \o r
<1>3. /\ q \in Seq(Steps) /\ Len(q) = a + b /\ a \in Nat /\ b \in Nat
      /\ \A k \in 1..a : q[k] = s[k]
      /\ \A k \in 1..b : q[a + k] = r[k]
  BY Joined
<1>4. /\ h \in [1..(a + 1) -> Nat] /\ l \in [1..(a + 1) -> Nat]
      /\ g \in [1..(b + 1) -> Nat] /\ i \in [1..(b + 1) -> Nat]
  BY DEF Depths
<1> DEFINE f == [k \in 1..(a + b + 1) |-> IF k <= a THEN h[k] ELSE g[k - a]]
           j == [k \in 1..(a + b + 1) |-> IF k <= a THEN l[k] ELSE i[k - a]]
<1> HIDE DEF a, b, q
<1>5. /\ \A k \in 1..(a + 1) : f[k] = h[k] /\ j[k] = l[k]
      /\ \A k \in 1..(b + 1) : f[a + k] = g[k] /\ j[a + k] = i[k]
  <2>1. h[a + 1] = g[1] /\ l[a + 1] = i[1]
    BY <1>1, <1>2 DEF a
  <2>2. \A k \in 1..(a + 1) : k \in 1..(a + b + 1) /\ (k <= a \/ k = a + 1) /\ (a + 1) - a = 1
    BY <1>3
  <2>3. \A k \in 1..(a + 1) : f[k] = h[k] /\ j[k] = l[k]
    BY <1>3, <2>1, <2>2
  <2>4. \A k \in 1..(b + 1) : a + k \in 1..(a + b + 1) /\ ~(a + k <= a) /\ (a + k) - a = k
    BY <1>3
  <2> QED
    BY <2>3, <2>4
<1>6. f \in [1..(a + b + 1) -> Nat] /\ j \in [1..(a + b + 1) -> Nat]
  <2>1. ASSUME NEW k \in 1..(a + b + 1) PROVE f[k] \in Nat /\ j[k] \in Nat
    <3>1. CASE k <= a
      BY <1>3, <1>4, <3>1
    <3>2. CASE ~(k <= a)
      <4>1. k - a \in 1..(b + 1)
        BY <1>3, <3>2
      <4> QED
        BY <1>4, <3>2, <4>1
    <3> QED
      BY <3>1, <3>2
  <2> QED
    BY <2>1
<1> HIDE DEF f, j
<1>7. ASSUME NEW k \in 1..a PROVE StepRuns(q, f, j, p, k)
  <2>1. StepRuns(s, h, l, p, k) /\ q[k] = s[k] /\ s[k] \in Steps
    BY <1>1, <1>3 DEF a
  <2>2. k \in 1..(a + 1) /\ k + 1 \in 1..(a + 1)
    BY <1>3
  <2>3. f[k] = h[k] /\ f[k + 1] = h[k + 1] /\ j[k] = l[k] /\ j[k + 1] = l[k + 1]
    BY <1>5, <2>2
  <2>4. ASSUME s[k].op = "if(!halted)"
        PROVE  LET n == s[k].value
               IN  /\ k + n <= Len(q) /\ \A m \in (k + 1)..(k + n) : q[m].op \in Skipped
                   /\ f[k + n + 1] = f[k] /\ j[k + n + 1] = j[k]
    <3> DEFINE n == s[k].value
    <3>1. n \in Nat
      BY <2>1 DEF Steps
    <3>2. /\ k + n <= a /\ \A m \in (k + 1)..(k + n) : s[m].op \in Skipped
          /\ h[k + n + 1] = h[k] /\ l[k + n + 1] = l[k]
      BY <2>1, <2>4 DEF StepRuns, a
    <3>3. k + n + 1 \in 1..(a + 1) /\ \A m \in (k + 1)..(k + n) : m \in 1..a
      BY <1>3, <3>1, <3>2
    <3> HIDE DEF n
    <3>4. /\ k + n <= Len(q) /\ \A m \in (k + 1)..(k + n) : q[m].op \in Skipped
          /\ f[k + n + 1] = f[k] /\ j[k + n + 1] = j[k]
      BY <1>3, <1>5, <2>3, <3>1, <3>2, <3>3
    <3> QED
      BY <3>4 DEF n
  <2> QED
    BY <2>1, <2>3, <2>4 DEF StepRuns
<1>8. ASSUME NEW k \in 1..b PROVE StepRuns(q, f, j, p, a + k)
  <2>1. StepRuns(r, g, i, p, k) /\ q[a + k] = r[k] /\ r[k] \in Steps
    BY <1>2, <1>3 DEF b
  <2>2. k \in 1..(b + 1) /\ k + 1 \in 1..(b + 1) /\ a + (k + 1) = (a + k) + 1
    BY <1>3
  <2>3. f[a + k] = g[k] /\ f[(a + k) + 1] = g[k + 1] /\ j[a + k] = i[k] /\ j[(a + k) + 1] = i[k + 1]
    BY <1>5, <2>2
  <2>4. ASSUME r[k].op = "if(!halted)"
        PROVE  LET n == r[k].value
               IN  /\ a + k + n <= Len(q) /\ \A m \in (a + k + 1)..(a + k + n) : q[m].op \in Skipped
                   /\ f[a + k + n + 1] = f[a + k] /\ j[a + k + n + 1] = j[a + k]
    <3> DEFINE n == r[k].value
    <3>1. n \in Nat
      BY <2>1 DEF Steps
    <3>2. /\ k + n <= b /\ \A m \in (k + 1)..(k + n) : r[m].op \in Skipped
          /\ g[k + n + 1] = g[k] /\ i[k + n + 1] = i[k]
      BY <2>1, <2>4 DEF StepRuns, b
    <3> HIDE DEF n
    <3>3. k + n + 1 \in 1..(b + 1) /\ a + (k + n + 1) = a + k + n + 1 /\ a + k + n <= a + b
      BY <1>3, <3>1, <3>2
    <3>4. ASSUME NEW m \in (a + k + 1)..(a + k + n) PROVE q[m].op \in Skipped
      <4>1. m - a \in (k + 1)..(k + n) /\ m - a \in 1..b /\ a + (m - a) = m
        BY <1>3, <3>1, <3>2
      <4>2. q[m] = r[m - a]
        BY <1>3, <4>1
      <4> QED
        BY <3>2, <4>1, <4>2
    <3>5. f[a + k + n + 1] = f[a + k] /\ j[a + k + n + 1] = j[a + k]
      BY <1>5, <2>3, <3>2, <3>3
    <3> QED
      BY <1>3, <3>3, <3>4, <3>5 DEF n
  <2> QED
    BY <2>1, <2>3, <2>4 DEF StepRuns
<1>9. ASSUME NEW k \in 1..(a + b) PROVE StepRuns(q, f, j, p, k)
  <2>1. CASE k \in 1..a
    BY <1>7, <2>1
  <2>2. CASE k \notin 1..a
    <3>1. k - a \in 1..b /\ a + (k - a) = k
      BY <1>3, <2>2
    <3>2. StepRuns(q, f, j, p, a + (k - a))
      BY <1>8, <3>1
    <3> QED
      BY <3>1, <3>2
  <2> QED
    BY <2>1, <2>2
<1>10. f[1] = h0 /\ j[1] = l0 /\ f[Len(q) + 1] = h2 /\ j[Len(q) + 1] = l2
  <2>1. 1 \in 1..(a + 1) /\ b + 1 \in 1..(b + 1) /\ a + (b + 1) = Len(q) + 1
    BY <1>3
  <2> QED
    BY <1>1, <1>2, <1>5, <2>1 DEF b
<1>11. f \in Depths(q) /\ j \in Depths(q)
  BY <1>3, <1>6 DEF Depths
<1>12. Runs(q, h0, l0, h2, l2, p)
  BY <1>3, <1>9, <1>10, <1>11 DEF Runs
<1> QED
  BY <1>3, <1>12 DEF q

(* The lists of HostLuaLocks.  One that fits in leaves the locks as it     *)
(* finds them, wherever exlock may be taken, and tells what it sets.       *)
Paired(s) == \A k \in 1..Len(s) : SetsAt(s, k) /\ (s[k].op = "tell" => ToldAfterSet(s, k))
MayLock(h, l, p) == h = 0 \/ l > 0 \/ p
Fits(s, p) ==
  /\ s \in Seq(Steps) /\ Paired(s)
  /\ \A h, l \in Nat : MayLock(h, l, p) => Runs(s, h, l, h, l, p)

LEMMA PairedJoined ==
  ASSUME NEW s \in Seq(Steps), NEW r \in Seq(Steps), Paired(s), Paired(r)
  PROVE  Paired(s \o r)
<1> DEFINE a == Len(s)  b == Len(r)  q == s \o r
<1>1. /\ q \in Seq(Steps) /\ Len(q) = a + b /\ a \in Nat /\ b \in Nat
      /\ \A k \in 1..a : q[k] = s[k]
      /\ \A k \in 1..b : q[a + k] = r[k]
  BY Joined
<1>2. /\ \A k \in 1..a : SetsAt(s, k) /\ (s[k].op = "tell" => ToldAfterSet(s, k))
      /\ \A k \in 1..b : SetsAt(r, k) /\ (r[k].op = "tell" => ToldAfterSet(r, k))
  BY DEF Paired
<1>3. SUFFICES ASSUME NEW k \in 1..Len(q)
               PROVE  SetsAt(q, k) /\ (q[k].op = "tell" => ToldAfterSet(q, k))
  BY DEF Paired
<1>4. Len(s) = a /\ Len(r) = b
  OBVIOUS
<1> HIDE DEF a, b, q
<1>5. CASE k <= a
  <2>1. q[k] = s[k] /\ SetsAt(s, k) /\ (s[k].op = "tell" => ToldAfterSet(s, k)) /\ k \in 1..a
    BY <1>1, <1>2, <1>3, <1>5
  <2>2. SetsAt(q, k)
    BY <1>1, <1>4, <2>1 DEF SetsAt
  <2>3. q[k].op = "tell" => ToldAfterSet(q, k)
    BY <1>1, <2>1 DEF ToldAfterSet
  <2> QED
    BY <2>2, <2>3
<1>6. CASE ~(k <= a)
  <2> DEFINE m == k - a
  <2>1. m \in 1..b /\ k = a + m
    BY <1>1, <1>3, <1>6
  <2> HIDE DEF m
  <2>2. q[k] = r[m] /\ SetsAt(r, m) /\ (r[m].op = "tell" => ToldAfterSet(r, m))
    BY <1>1, <1>2, <2>1
  <2>3. SetsAt(q, k)
    <3>1. SUFFICES ASSUME r[m].op = "set"
                   PROVE  /\ k + 3 <= a + b /\ q[k + 1].op = "HOST_UNLOCK"
                          /\ q[k + 2].op = "LUA_LOCK" /\ q[k + 3].op = "tell"
                          /\ q[k + 3].value = q[k].value
      BY <1>1, <2>2 DEF SetsAt
    <3>2. /\ m + 3 <= b /\ r[m + 1].op = "HOST_UNLOCK" /\ r[m + 2].op = "LUA_LOCK"
          /\ r[m + 3].op = "tell" /\ r[m + 3].value = r[m].value
      BY <1>4, <2>2, <3>1 DEF SetsAt
    <3>3. /\ m + 1 \in 1..b /\ m + 2 \in 1..b /\ m + 3 \in 1..b
          /\ k + 1 = a + (m + 1) /\ k + 2 = a + (m + 2) /\ k + 3 = a + (m + 3)
      BY <1>1, <2>1, <3>2
    <3>4. q[k + 1] = r[m + 1] /\ q[k + 2] = r[m + 2] /\ q[k + 3] = r[m + 3]
      <4>1. /\ q[a + (m + 1)] = r[m + 1] /\ q[a + (m + 2)] = r[m + 2]
            /\ q[a + (m + 3)] = r[m + 3]
        BY <1>1, <3>3
      <4> QED
        BY <3>3, <4>1
    <3>5. k + 3 <= a + b
      BY <1>1, <3>3
    <3> QED
      BY <2>2, <3>2, <3>4, <3>5
  <2>4. ASSUME q[k].op = "tell" PROVE ToldAfterSet(q, k)
    <3>1. m > 3 /\ r[m - 3].op = "set"
      BY <2>2, <2>4 DEF ToldAfterSet
    <3>2. m - 3 \in 1..b /\ k - 3 = a + (m - 3) /\ k > 3
      BY <1>1, <2>1, <3>1
    <3> QED
      BY <1>1, <3>1, <3>2 DEF ToldAfterSet
  <2> QED
    BY <2>3, <2>4
<1> QED
  BY <1>1, <1>3, <1>5, <1>6

LEMMA PairedWithout ==
  ASSUME NEW s \in Seq(Steps), \A k \in 1..Len(s) : s[k].op # "set" /\ s[k].op # "tell"
  PROVE  Paired(s)
BY DEF Paired, SetsAt

(* One step, and a list that is only run while the plugin is not halted.   *)
Moves(x, h0, l0, h1, l1, p) ==
  /\ x \in Steps /\ x.op # "if(!halted)"
  /\ h1 = After(x.op, "HOST_LOCK", "HOST_UNLOCK", h0)
  /\ l1 = After(x.op, "LUA_LOCK", "LUA_UNLOCK", l0)
  /\ x.op = "LUA_LOCK" => MayLock(h0, l0, p)
  /\ x.op \in {"script", "setParameterAutomated", "tell"} => l0 > 0

LEMMA RunsOne ==
  ASSUME NEW h0 \in Nat, NEW l0 \in Nat, NEW h1 \in Nat, NEW l1 \in Nat, NEW p,
         NEW x, Moves(x, h0, l0, h1, l1, p)
  PROVE  <<x>> \in Seq(Steps) /\ Runs(<<x>>, h0, l0, h1, l1, p)
<1> DEFINE s == <<x>>
           h == [k \in 1..2 |-> IF k = 1 THEN h0 ELSE h1]
           l == [k \in 1..2 |-> IF k = 1 THEN l0 ELSE l1]
<1>1. s \in Seq(Steps) /\ Len(s) = 1 /\ s[1] = x
  BY DEF Moves
<1>2. h \in Depths(s) /\ l \in Depths(s)
  BY <1>1 DEF Depths
<1>3. h[1] = h0 /\ l[1] = l0 /\ h[1 + 1] = h1 /\ l[1 + 1] = l1
  OBVIOUS
<1> HIDE DEF s, h, l
<1>4. StepRuns(s, h, l, p, 1)
  BY <1>1, <1>3 DEF StepRuns, MayLock, Moves
<1>5. \A k \in 1..Len(s) : StepRuns(s, h, l, p, k)
  BY <1>1, <1>4
<1>6. Runs(s, h0, l0, h1, l1, p)
  BY <1>1, <1>2, <1>3, <1>5 DEF Runs
<1> QED
  BY <1>1, <1>6 DEF s

LEMMA RunsIf ==
  ASSUME NEW s \in Seq(Steps), NEW h0 \in Nat, NEW l0 \in Nat, NEW p,
         \A k \in 1..Len(s) : s[k].op \in Skipped,
         Runs(s, h0, l0, h0, l0, p)
  PROVE  IfRunning(s) \in Seq(Steps) /\ Runs(IfRunning(s), h0, l0, h0, l0, p)
<1>1. PICK h \in Depths(s), l \in Depths(s) :
         /\ h[1] = h0 /\ l[1] = l0 /\ h[Len(s) + 1] = h0 /\ l[Len(s) + 1] = l0
         /\ \A k \in 1..Len(s) : StepRuns(s, h, l, p, k)
  BY DEF Runs
<1> DEFINE a == Len(s)  x == Step("if(!halted)", a)  q == IfRunning(s)
           g == [k \in 1..(a + 2) |-> IF k = 1 THEN h0 ELSE h[k - 1]]
           i == [k \in 1..(a + 2) |-> IF k = 1 THEN l0 ELSE l[k - 1]]
<1>2. /\ a \in Nat /\ x \in Steps /\ x.op = "if(!halted)" /\ x.value = a
  BY DEF Step, Steps, Ops, OfValue
<1>3. /\ q \in Seq(Steps) /\ Len(q) = a + 1 /\ q[1] = x
      /\ \A k \in 1..a : q[k + 1] = s[k]
  <2>1. <<x>> \in Seq(Steps) /\ Len(<<x>>) = 1 /\ <<x>>[1] = x /\ q = <<x>> \o s
    BY <1>2 DEF IfRunning
  <2> HIDE DEF x, q
  <2> QED
    BY <2>1, Joined
<1>4. h \in [1..(a + 1) -> Nat] /\ l \in [1..(a + 1) -> Nat] /\ Len(s) = a
  BY DEF Depths
<1> HIDE DEF a, x, q
<1>5. g \in Depths(q) /\ i \in Depths(q)
  BY <1>2, <1>3, <1>4 DEF Depths
<1>6. /\ g[1] = h0 /\ i[1] = l0 /\ g[2] = h0 /\ i[2] = l0
      /\ \A k \in 1..(a + 1) : g[k + 1] = h[k] /\ i[k + 1] = l[k]
  <2>1. 1 \in 1..(a + 2) /\ 1 \in 1..(a + 1)
        /\ \A k \in 1..(a + 1) : k + 1 \in 1..(a + 2) /\ k + 1 # 1 /\ (k + 1) - 1 = k
    BY <1>2
  <2>2. g[1] = h0 /\ i[1] = l0 /\ \A k \in 1..(a + 1) : g[k + 1] = h[k] /\ i[k + 1] = l[k]
    BY <2>1
  <2>3. g[1 + 1] = h[1] /\ i[1 + 1] = l[1]
    BY <2>1, <2>2
  <2> HIDE DEF g, i
  <2> QED
    BY <1>1, <2>2, <2>3
<1> HIDE DEF g, i
<1>7. StepRuns(q, g, i, p, 1)
  <2>1. \A j \in 2..(a + 1) : q[j].op \in Skipped
    <3>1. ASSUME NEW j \in 2..(a + 1) PROVE q[j].op \in Skipped
      <4>1. j - 1 \in 1..a /\ (j - 1) + 1 = j
        BY <1>2
      <4> QED
        BY <1>3, <1>4, <4>1
    <3> QED
      BY <3>1
  <2>2. g[a + 2] = h0 /\ i[a + 2] = l0 /\ (a + 1) + 1 = a + 2 /\ 1 + a + 1 = a + 2 /\ 1 + a = a + 1
    BY <1>1, <1>2, <1>4, <1>6
  <2> QED
    BY <1>2, <1>3, <1>6, <2>1, <2>2 DEF StepRuns, After
<1>8. ASSUME NEW k \in 1..a PROVE StepRuns(q, g, i, p, k + 1)
  <2>1. StepRuns(s, h, l, p, k) /\ q[k + 1] = s[k] /\ s[k].op \in Skipped
    BY <1>1, <1>3, <1>4
  <2>2. k \in 1..(a + 1) /\ k + 1 \in 1..(a + 1)
    BY <1>2
  <2>3. /\ g[k + 1] = h[k] /\ i[k + 1] = l[k]
        /\ g[(k + 1) + 1] = h[k + 1] /\ i[(k + 1) + 1] = l[k + 1]
    BY <1>6, <2>2
  <2>4. s[k].op # "if(!halted)"
    BY <2>1 DEF Skipped
  <2> QED
    BY <2>1, <2>3, <2>4 DEF StepRuns
<1>9. ASSUME NEW k \in 1..(a + 1) PROVE StepRuns(q, g, i, p, k)
  <2>1. k = 1 \/ (k - 1 \in 1..a /\ (k - 1) + 1 = k)
    BY <1>2
  <2>2. CASE k = 1
    BY <1>7, <2>2
  <2>3. CASE k - 1 \in 1..a /\ (k - 1) + 1 = k
    <3>1. StepRuns(q, g, i, p, (k - 1) + 1)
      BY <1>8, <2>3
    <3> QED
      BY <2>3, <3>1
  <2> QED
    BY <2>1, <2>2, <2>3
<1>10. g[Len(q) + 1] = h0 /\ i[Len(q) + 1] = l0
  <2>1. a + 1 \in 1..(a + 1) /\ Len(q) + 1 = (a + 1) + 1
    BY <1>2, <1>3
  <2> QED
    BY <1>1, <1>4, <1>6, <2>1
<1>11. Runs(q, h0, l0, h0, l0, p)
  BY <1>3, <1>5, <1>6, <1>9, <1>10 DEF Runs
<1> QED
  BY <1>3, <1>11 DEF q

(* Inside hostLock, which only a program change keeps around the script.   *)
LEMMA FitsJoined ==
  ASSUME NEW s, NEW r, NEW p, Fits(s, p), Fits(r, p)
  PROVE  Fits(s \o r, p)
<1>1. s \in Seq(Steps) /\ r \in Seq(Steps) /\ Paired(s) /\ Paired(r)
  BY DEF Fits
<1>2. s \o r \in Seq(Steps) /\ Paired(s \o r)
  BY <1>1, PairedJoined, Joined
<1>3. ASSUME NEW h \in Nat, NEW l \in Nat, MayLock(h, l, p)
      PROVE  Runs(s \o r, h, l, h, l, p)
  <2>1. Runs(s, h, l, h, l, p) /\ Runs(r, h, l, h, l, p)
    BY <1>3 DEF Fits
  <2> QED
    BY <1>1, <2>1, RunsJoined
<1> QED
  BY <1>2, <1>3 DEF Fits

LEMMA HostSteps ==
  ASSUME NEW h \in Nat, NEW l \in Nat, NEW p
  PROVE  /\ <<HOST_LOCK>> \in Seq(Steps) /\ Paired(<<HOST_LOCK>>)
         /\ <<HOST_UNLOCK>> \in Seq(Steps) /\ Paired(<<HOST_UNLOCK>>)
         /\ Runs(<<HOST_LOCK>>, h, l, h + 1, l, p)
         /\ Runs(<<HOST_UNLOCK>>, h + 1, l, h, l, p)
<1>1. /\ HOST_LOCK \in Steps /\ HOST_LOCK.op = "HOST_LOCK"
      /\ HOST_UNLOCK \in Steps /\ HOST_UNLOCK.op = "HOST_UNLOCK"
  BY DEF HOST_LOCK, HOST_UNLOCK, Step, Steps, Ops, OfValue
<1> DEFINE x == HOST_LOCK  y == HOST_UNLOCK
<1> HIDE DEF x, y
<1>2. x \in Steps /\ x.op = "HOST_LOCK" /\ y \in Steps /\ y.op = "HOST_UNLOCK"
  BY <1>1 DEF x, y
<1>3. /\ <<x>> \in Seq(Steps) /\ Len(<<x>>) = 1 /\ <<x>>[1] = x
      /\ <<y>> \in Seq(Steps) /\ Len(<<y>>) = 1 /\ <<y>>[1] = y
  BY <1>2
<1>4. Paired(<<x>>) /\ Paired(<<y>>)
  <2>1. /\ \A k \in 1..Len(<<x>>) : <<x>>[k].op # "set" /\ <<x>>[k].op # "tell"
        /\ \A k \in 1..Len(<<y>>) : <<y>>[k].op # "set" /\ <<y>>[k].op # "tell"
    BY <1>2
  <2> QED
    BY <1>3, <2>1, PairedWithout
<1>5. h + 1 \in Nat /\ Moves(x, h, l, h + 1, l, p) /\ Moves(y, h + 1, l, h, l, p)
  BY <1>2 DEF After, Moves
<1>6. Runs(<<x>>, h, l, h + 1, l, p) /\ Runs(<<y>>, h + 1, l, h, l, p)
  BY <1>5, RunsOne
<1> QED
  BY <1>3, <1>4, <1>6 DEF x, y

\* what has taken hostLock once
Opened(s) ==
  /\ s \in Seq(Steps) /\ Paired(s)
  /\ \A h, l \in Nat : Runs(s, h, l, h + 1, l, TRUE)

LEMMA OpenedJoined ==
  ASSUME NEW s, NEW r, Opened(s), Fits(r, TRUE)
  PROVE  Opened(s \o r)
<1>1. s \in Seq(Steps) /\ Paired(s) /\ r \in Seq(Steps) /\ Paired(r)
  BY DEF Opened, Fits
<1>2. s \o r \in Seq(Steps) /\ Paired(s \o r)
  BY <1>1, PairedJoined, Joined
<1>3. ASSUME NEW h \in Nat, NEW l \in Nat PROVE Runs(s \o r, h, l, h + 1, l, TRUE)
  <2>1. h + 1 \in Nat /\ MayLock(h + 1, l, TRUE)
    BY DEF MayLock
  <2>2. Runs(s, h, l, h + 1, l, TRUE) /\ Runs(r, h + 1, l, h + 1, l, TRUE)
    BY <2>1 DEF Opened, Fits
  <2> QED
    BY <1>1, <2>2, RunsJoined
<1> QED
  BY <1>2, <1>3 DEF Opened

LEMMA OpenedClosed ==
  ASSUME NEW s, NEW r, Opened(s), r \in Seq(Steps), Paired(r),
         \A h, l \in Nat : Runs(r, h + 1, l, h, l, TRUE)
  PROVE  Fits(s \o r, TRUE)
<1>1. s \in Seq(Steps) /\ Paired(s)
  BY DEF Opened
<1>2. s \o r \in Seq(Steps) /\ Paired(s \o r)
  BY <1>1, PairedJoined, Joined
<1>3. ASSUME NEW h \in Nat, NEW l \in Nat PROVE Runs(s \o r, h, l, h, l, TRUE)
  <2>1. Runs(s, h, l, h + 1, l, TRUE) /\ Runs(r, h + 1, l, h, l, TRUE)
    BY DEF Opened
  <2> QED
    BY <1>1, <2>1, RunsJoined
<1> QED
  BY <1>2, <1>3 DEF Fits

LEMMA RunsTwo ==
  ASSUME NEW h0 \in Nat, NEW l0 \in Nat, NEW h1 \in Nat, NEW l1 \in Nat,
         NEW h2 \in Nat, NEW l2 \in Nat, NEW p, NEW x, NEW y,
         Moves(x, h0, l0, h1, l1, p), Moves(y, h1, l1, h2, l2, p)
  PROVE  <<x, y>> \in Seq(Steps) /\ Runs(<<x, y>>, h0, l0, h2, l2, p)
<1>1. <<x>> \in Seq(Steps) /\ Runs(<<x>>, h0, l0, h1, l1, p)
  BY RunsOne
<1>2. <<y>> \in Seq(Steps) /\ Runs(<<y>>, h1, l1, h2, l2, p)
  BY RunsOne
<1>3. <<x>> \o <<y>> \in Seq(Steps) /\ Runs(<<x>> \o <<y>>, h0, l0, h2, l2, p)
  BY <1>1, <1>2, RunsJoined
<1>4. <<x>> \o <<y>> = <<x, y>>
  <2> DEFINE q == <<x>> \o <<y>>  r == <<x, y>>
  <2>1. x \in Steps /\ y \in Steps
    BY DEF Moves
  <2>2. /\ q \in Seq(Steps) /\ r \in Seq(Steps) /\ Len(q) = 2 /\ Len(r) = 2
        /\ q[1] = x /\ r[1] = x /\ r[2] = y
    BY <2>1
  <2>3. q[2] = y
    BY <2>1
  <2>4. \A k \in 1..Len(q) : q[k] = r[k]
    BY <2>2, <2>3
  <2> HIDE DEF q, r
  <2>5. q = r
    BY <2>2, <2>4, SeqEqual
  <2> QED
    BY <2>5 DEF q, r
<1> QED
  BY <1>3, <1>4

LEMMA RunsThree ==
  ASSUME NEW h0 \in Nat, NEW l0 \in Nat, NEW h1 \in Nat, NEW l1 \in Nat,
         NEW h2 \in Nat, NEW l2 \in Nat, NEW h3 \in Nat, NEW l3 \in Nat, NEW p,
         NEW x, NEW y, NEW z, Moves(x, h0, l0, h1, l1, p),
         Moves(y, h1, l1, h2, l2, p), Moves(z, h2, l2, h3, l3, p)
  PROVE  <<x, y, z>> \in Seq(Steps) /\ Runs(<<x, y, z>>, h0, l0, h3, l3, p)
<1>1. <<x>> \in Seq(Steps) /\ Runs(<<x>>, h0, l0, h1, l1, p)
  BY RunsOne
<1>2. <<y, z>> \in Seq(Steps) /\ Runs(<<y, z>>, h1, l1, h3, l3, p)
  BY RunsTwo
<1>3. <<x>> \o <<y, z>> \in Seq(Steps) /\ Runs(<<x>> \o <<y, z>>, h0, l0, h3, l3, p)
  BY <1>1, <1>2, RunsJoined
<1>4. <<x>> \o <<y, z>> = <<x, y, z>>
  <2> DEFINE q == <<x>> \o <<y, z>>  r == <<x, y, z>>
  <2>1. x \in Steps /\ y \in Steps /\ z \in Steps
    BY DEF Moves
  <2>2. /\ q \in Seq(Steps) /\ r \in Seq(Steps) /\ Len(q) = 3 /\ Len(r) = 3
        /\ q[1] = x /\ r[1] = x /\ r[2] = y /\ r[3] = z
    BY <2>1
  <2>3. q[2] = y /\ q[3] = z
    BY <2>1
  <2>4. \A k \in 1..Len(q) : q[k] = r[k]
    BY <2>2, <2>3
  <2> HIDE DEF q, r
  <2>5. q = r
    BY <2>2, <2>4, SeqEqual
  <2> QED
    BY <2>5 DEF q, r
<1> QED
  BY <1>3, <1>4

(* What the steps of the lists do.                                         *)
LEMMA StepsOf ==
  ASSUME NEW v \in Nat, NEW o \in Ops, o \in OfValue => v \in Values
  PROVE  /\ Step(o, v) \in Steps /\ Step(o, v).op = o /\ Step(o, v).value = v
         /\ HOST_LOCK \in Steps /\ HOST_LOCK.op = "HOST_LOCK"
         /\ HOST_UNLOCK \in Steps /\ HOST_UNLOCK.op = "HOST_UNLOCK"
         /\ LUA_LOCK \in Steps /\ LUA_LOCK.op = "LUA_LOCK"
         /\ LUA_UNLOCK \in Steps /\ LUA_UNLOCK.op = "LUA_UNLOCK"
         /\ Script \in Steps /\ Script.op = "script"
BY DEF Step, Steps, Ops, OfValue, HOST_LOCK, HOST_UNLOCK, LUA_LOCK, LUA_UNLOCK, Script

LEMMA StepMoves ==
  ASSUME NEW h \in Nat, NEW l \in Nat, NEW p, NEW v \in Values
  PROVE  /\ Moves(HOST_LOCK, h, l, h + 1, l, p) /\ Moves(HOST_UNLOCK, h + 1, l, h, l, p)
         /\ MayLock(h, l, p) => Moves(LUA_LOCK, h, l, h, l + 1, p)
         /\ Moves(LUA_UNLOCK, h, l + 1, h, l, p)
         /\ \A o \in {"script", "setParameterAutomated", "tell"} :
               l > 0 => Moves(Step(o, v), h, l, h, l, p)
         /\ \A o \in {"set", "setByScript"} : Moves(Step(o, v), h, l, h, l, p)
         /\ h + 1 \in Nat /\ l + 1 \in Nat /\ l + 1 > 0
<1>1. /\ HOST_LOCK \in Steps /\ HOST_LOCK.op = "HOST_LOCK"
      /\ HOST_UNLOCK \in Steps /\ HOST_UNLOCK.op = "HOST_UNLOCK"
      /\ LUA_LOCK \in Steps /\ LUA_LOCK.op = "LUA_LOCK"
      /\ LUA_UNLOCK \in Steps /\ LUA_UNLOCK.op = "LUA_UNLOCK"
  BY StepsOf, ValuesAssumption DEF Ops, OfValue
<1>2. Moves(HOST_LOCK, h, l, h + 1, l, p) /\ Moves(HOST_UNLOCK, h + 1, l, h, l, p)
  BY <1>1 DEF Moves, After
<1>3. /\ MayLock(h, l, p) => Moves(LUA_LOCK, h, l, h, l + 1, p)
      /\ Moves(LUA_UNLOCK, h, l + 1, h, l, p)
  BY <1>1 DEF Moves, After
<1>4. ASSUME NEW o \in {"script", "setParameterAutomated", "tell"}, l > 0
      PROVE  Moves(Step(o, v), h, l, h, l, p)
  <2>1. Step(o, v) \in Steps /\ Step(o, v).op = o
    BY <1>4, StepsOf, ValuesAssumption DEF Ops, OfValue
  <2> QED
    BY <1>4, <2>1 DEF Moves, After
<1>5. ASSUME NEW o \in {"set", "setByScript"}
      PROVE  Moves(Step(o, v), h, l, h, l, p)
  <2>1. Step(o, v) \in Steps /\ Step(o, v).op = o
    BY <1>5, StepsOf, ValuesAssumption DEF Ops, OfValue
  <2> QED
    BY <1>5, <2>1 DEF Moves, After
<1> QED
  BY <1>2, <1>3, <1>4, <1>5

LEMMA CallbackFits ==
  ASSUME NEW p
  PROVE  /\ Fits(Callback, p)
         /\ \A k \in 1..Len(Callback) : Callback[k].op \in Skipped
<1> DEFINE x == LUA_LOCK  y == Script  z == LUA_UNLOCK
<1>1. x \in Steps /\ x.op = "LUA_LOCK" /\ y \in Steps /\ y.op = "script"
      /\ z \in Steps /\ z.op = "LUA_UNLOCK"
  BY StepsOf, ValuesAssumption DEF Ops, OfValue
<1>2. ASSUME NEW h \in Nat, NEW l \in Nat, MayLock(h, l, p)
      PROVE  Runs(Callback, h, l, h, l, p)
  <2>1. l + 1 \in Nat /\ l + 1 > 0
    OBVIOUS
  <2>2. Moves(x, h, l, h, l + 1, p) /\ Moves(z, h, l + 1, h, l, p)
    BY <1>2, StepMoves, ValuesAssumption
  <2>3. Moves(Step("script", 0), h, l + 1, h, l + 1, p)
    BY <2>1, StepMoves, ValuesAssumption
  <2>4. Moves(y, h, l + 1, h, l + 1, p)
    BY <2>3 DEF Script
  <2> HIDE DEF x, y, z
  <2>5. Runs(<<x, y, z>>, h, l, h, l, p)
    BY <2>1, <2>2, <2>4, RunsThree
  <2> QED
    BY <2>5 DEF Callback, x, y, z
<1> HIDE DEF x, y, z
<1>3. <<x, y, z>> \in Seq(Steps) /\ Len(<<x, y, z>>) = 3
      /\ <<x, y, z>>[1] = x /\ <<x, y, z>>[2] = y /\ <<x, y, z>>[3] = z
  BY <1>1
<1>4. \A k \in 1..Len(<<x, y, z>>) : <<x, y, z>>[k].op \in {"LUA_LOCK", "script", "LUA_UNLOCK"}
  BY <1>1, <1>3
<1> DEFINE s == <<x, y, z>>
<1>5. s = Callback
  BY DEF Callback, x, y, z
<1> HIDE DEF s
<1>6. /\ s \in Seq(Steps) /\ \A k \in 1..Len(s) : s[k].op \in {"LUA_LOCK", "script", "LUA_UNLOCK"}
  BY <1>3, <1>4 DEF s
<1>7. Paired(s)
  BY <1>6, PairedWithout
<1> QED
  BY <1>2, <1>5, <1>6, <1>7 DEF Fits, Skipped

\* the two locks of exlock alone: VSTProgramName, and what getChunk returns
LEMMA LuaPairFits ==
  ASSUME NEW p
  PROVE  /\ Fits(<<LUA_LOCK, LUA_UNLOCK>>, p)
         /\ \A k \in 1..Len(<<LUA_LOCK, LUA_UNLOCK>>) : <<LUA_LOCK, LUA_UNLOCK>>[k].op \in Skipped
<1> DEFINE x == LUA_LOCK  z == LUA_UNLOCK  s == <<x, z>>
<1>1. x \in Steps /\ x.op = "LUA_LOCK" /\ z \in Steps /\ z.op = "LUA_UNLOCK"
  BY StepsOf, ValuesAssumption DEF Ops, OfValue
<1>2. ASSUME NEW h \in Nat, NEW l \in Nat, MayLock(h, l, p)
      PROVE  Runs(s, h, l, h, l, p)
  <2>1. Moves(x, h, l, h, l + 1, p) /\ Moves(z, h, l + 1, h, l, p) /\ l + 1 \in Nat
    BY <1>2, StepMoves, ValuesAssumption
  <2> HIDE DEF x, z
  <2> QED
    BY <2>1, RunsTwo
<1> HIDE DEF x, z
<1>3. s \in Seq(Steps) /\ \A k \in 1..Len(s) : s[k].op \in {"LUA_LOCK", "LUA_UNLOCK"}
  BY <1>1
<1> HIDE DEF s
<1>4. Paired(s)
  BY <1>3, PairedWithout
<1>5. Fits(s, p) /\ \A k \in 1..Len(s) : s[k].op \in Skipped
  BY <1>2, <1>3, <1>4 DEF Fits, Skipped
<1> QED
  BY <1>5 DEF s, x, z

LEMMA onLoadProgramFits ==
  ASSUME NEW p
  PROVE  /\ Fits(onLoadProgram, p)
         /\ \A k \in 1..Len(onLoadProgram) : onLoadProgram[k].op \in Skipped
<1> DEFINE s == <<LUA_LOCK, LUA_UNLOCK>>  r == Callback
<1>1. /\ Fits(s, p) /\ \A k \in 1..Len(s) : s[k].op \in Skipped
  BY LuaPairFits
<1>2. /\ Fits(r, p) /\ \A k \in 1..Len(r) : r[k].op \in Skipped
  BY CallbackFits
<1>3. onLoadProgram = s \o r
  BY DEF onLoadProgram
<1> HIDE DEF s, r
<1>4. Fits(s \o r, p)
  BY <1>1, <1>2, FitsJoined
<1>5. /\ s \in Seq(Steps) /\ r \in Seq(Steps)
  BY <1>1, <1>2 DEF Fits
<1>6. ASSUME NEW k \in 1..Len(s \o r) PROVE (s \o r)[k].op \in Skipped
  <2>1. /\ Len(s \o r) = Len(s) + Len(r) /\ Len(s) \in Nat /\ Len(r) \in Nat
        /\ \A i \in 1..Len(s) : (s \o r)[i] = s[i]
        /\ \A i \in 1..Len(r) : (s \o r)[Len(s) + i] = r[i]
    BY <1>5, Joined
  <2>2. CASE k <= Len(s)
    BY <1>1, <2>1, <2>2
  <2>3. CASE ~(k <= Len(s))
    <3>1. k - Len(s) \in 1..Len(r) /\ Len(s) + (k - Len(s)) = k
      BY <2>1, <2>3
    <3>2. (s \o r)[k] = r[k - Len(s)]
      BY <2>1, <3>1
    <3> QED
      BY <1>2, <3>1, <3>2
  <2> QED
    BY <2>2, <2>3
<1> QED
  BY <1>3, <1>4, <1>6

\* a list that is skipped while halted
LEMMA IfRunningFits ==
  ASSUME NEW s, NEW p, Fits(s, p), \A k \in 1..Len(s) : s[k].op \in Skipped
  PROVE  Fits(IfRunning(s), p)
<1>1. s \in Seq(Steps) /\ Paired(s) /\ Len(s) \in Nat
  BY DEF Fits
<1>2. ASSUME NEW h \in Nat, NEW l \in Nat, MayLock(h, l, p)
      PROVE  Runs(IfRunning(s), h, l, h, l, p)
  <2>1. Runs(s, h, l, h, l, p)
    BY <1>2 DEF Fits
  <2> QED
    BY <1>1, <2>1, RunsIf
<1> DEFINE x == Step("if(!halted)", Len(s))
<1>3. x \in Steps /\ x.op = "if(!halted)"
  BY <1>1, StepsOf, ValuesAssumption DEF Ops, OfValue
<1> HIDE DEF x
<1>4. <<x>> \in Seq(Steps) /\ \A k \in 1..Len(<<x>>) : <<x>>[k].op = "if(!halted)"
  BY <1>3
<1>5. Paired(<<x>>)
  <2> DEFINE r == <<x>>
  <2>1. r \in Seq(Steps) /\ \A k \in 1..Len(r) : r[k].op # "set" /\ r[k].op # "tell"
    BY <1>4
  <2> HIDE DEF r
  <2>2. Paired(r)
    BY <2>1, PairedWithout
  <2> QED
    BY <2>2 DEF r
<1>6. <<x>> \o s \in Seq(Steps) /\ Paired(<<x>> \o s)
  BY <1>1, <1>4, <1>5, PairedJoined, Joined
<1>7. IfRunning(s) = <<x>> \o s
  BY DEF IfRunning, x
<1> QED
  BY <1>2, <1>6, <1>7 DEF Fits

\* a value of the parameter under hostLock, then the script under exlock
LEMMA SetRuns ==
  ASSUME NEW p, NEW w \in {"set", "setByScript"}, NEW v \in Values,
         NEW h \in Nat, NEW l \in Nat
  PROVE  /\ setParameterNoCallback(w, v) \in Seq(Steps)
         /\ Runs(setParameterNoCallback(w, v), h, l, h, l, p)
<1> DEFINE x == HOST_LOCK  y == Step(w, v)  z == HOST_UNLOCK
<1>1. v \in Nat /\ h + 1 \in Nat
  BY ValuesAssumption
<1>2. /\ Moves(x, h, l, h + 1, l, p) /\ Moves(y, h + 1, l, h + 1, l, p)
      /\ Moves(z, h + 1, l, h, l, p)
  BY <1>1, StepMoves
<1> HIDE DEF x, y, z
<1>3. <<x, y, z>> \in Seq(Steps) /\ Runs(<<x, y, z>>, h, l, h, l, p)
  BY <1>1, <1>2, RunsThree
<1> QED
  BY <1>3 DEF setParameterNoCallback, x, y, z

LEMMA setParameterFits ==
  ASSUME NEW p, NEW v \in Values
  PROVE  Fits(setParameter(v), p)
<1> DEFINE x == LUA_LOCK  y == Step("tell", v)  z == LUA_UNLOCK
           s == setParameterNoCallback("set", v)  r == <<x, y, z>>
<1>1. v \in Nat
  BY ValuesAssumption
<1>2. /\ x \in Steps /\ x.op = "LUA_LOCK" /\ z \in Steps /\ z.op = "LUA_UNLOCK"
      /\ y \in Steps /\ y.op = "tell" /\ y.value = v
  BY <1>1, StepsOf, ValuesAssumption DEF Ops, OfValue
<1>3. ASSUME NEW h \in Nat, NEW l \in Nat, MayLock(h, l, p)
      PROVE  Runs(r, h, l, h, l, p)
  <2>1. l + 1 \in Nat /\ l + 1 > 0
    OBVIOUS
  <2>2. /\ Moves(x, h, l, h, l + 1, p) /\ Moves(z, h, l + 1, h, l, p)
        /\ Moves(y, h, l + 1, h, l + 1, p)
    BY <1>1, <1>3, <2>1, StepMoves
  <2> HIDE DEF x, y, z
  <2> QED
    BY <2>1, <2>2, RunsThree
<1>4. /\ s \in Seq(Steps) /\ Len(s) = 3 /\ s[1].op = "HOST_LOCK" /\ s[2].op = "set"
      /\ s[2].value = v /\ s[3].op = "HOST_UNLOCK"
  <2>1. /\ HOST_LOCK \in Steps /\ HOST_LOCK.op = "HOST_LOCK"
        /\ HOST_UNLOCK \in Steps /\ HOST_UNLOCK.op = "HOST_UNLOCK"
        /\ Step("set", v) \in Steps /\ Step("set", v).op = "set" /\ Step("set", v).value = v
    BY <1>1, StepsOf, ValuesAssumption DEF Ops, OfValue
  <2> QED
    BY <2>1 DEF setParameterNoCallback
<1> HIDE DEF x, y, z
<1>5. r \in Seq(Steps) /\ Len(r) = 3 /\ r[1] = x /\ r[2] = y /\ r[3] = z
  BY <1>2
<1>6. setParameter(v) = s \o r
  BY DEF setParameter, x, y, z
<1> HIDE DEF s, r
<1> DEFINE q == s \o r
<1>7. /\ q \in Seq(Steps) /\ Len(q) = 6
      /\ \A k \in 1..3 : q[k] = s[k] /\ q[3 + k] = r[k]
  <2>1. /\ q \in Seq(Steps) /\ Len(q) = Len(s) + Len(r)
        /\ \A k \in 1..Len(s) : q[k] = s[k]
        /\ \A k \in 1..Len(r) : q[Len(s) + k] = r[k]
    BY <1>4, <1>5, Joined
  <2> HIDE DEF q
  <2> QED
    BY <1>4, <1>5, <2>1
<1> HIDE DEF q
<1>8. /\ q[1].op = "HOST_LOCK" /\ q[2].op = "set" /\ q[2].value = v
      /\ q[3].op = "HOST_UNLOCK" /\ q[4].op = "LUA_LOCK" /\ q[5].op = "tell"
      /\ q[5].value = v /\ q[6].op = "LUA_UNLOCK"
  <2>1. /\ q[1] = s[1] /\ q[2] = s[2] /\ q[3] = s[3]
        /\ q[3 + 1] = r[1] /\ q[3 + 2] = r[2] /\ q[3 + 3] = r[3]
    BY <1>7
  <2>2. q[4] = x /\ q[5] = y /\ q[6] = z
    BY <1>5, <2>1
  <2> QED
    BY <1>2, <1>4, <2>1, <2>2
<1>9. SetsAt(q, 2) /\ ToldAfterSet(q, 5)
  <2>1. 2 + 1 = 3 /\ 2 + 2 = 4 /\ 2 + 3 = 5 /\ 5 - 3 = 2
    OBVIOUS
  <2>2. ToldAfterSet(q, 5)
    BY <1>8, <2>1 DEF ToldAfterSet
  <2>3. SetsAt(q, 2)
    BY <1>7, <1>8, <2>1 DEF SetsAt
  <2> QED
    BY <2>2, <2>3
<1>10. ASSUME NEW k \in 1..Len(q)
       PROVE  SetsAt(q, k) /\ (q[k].op = "tell" => ToldAfterSet(q, k))
  <2>1. k = 1 \/ k = 2 \/ k = 3 \/ k = 4 \/ k = 5 \/ k = 6
    BY <1>7
  <2>2. q[k].op = "set" => k = 2
    BY <1>8, <2>1
  <2>3. q[k].op = "tell" => k = 5
    BY <1>8, <2>1
  <2>4. SetsAt(q, k)
    <3>1. CASE k = 2
      BY <1>9, <3>1
    <3>2. CASE k # 2
      BY <2>2, <3>2 DEF SetsAt
    <3> QED
      BY <3>1, <3>2
  <2> QED
    BY <1>9, <2>3, <2>4
<1>11. Paired(q)
  BY <1>10 DEF Paired
<1>12. ASSUME NEW h \in Nat, NEW l \in Nat, MayLock(h, l, p)
       PROVE  Runs(q, h, l, h, l, p)
  <2>1. Runs(s, h, l, h, l, p)
    BY SetRuns DEF s
  <2>2. Runs(r, h, l, h, l, p)
    BY <1>3, <1>12
  <2> QED
    BY <1>4, <1>5, <2>1, <2>2, RunsJoined DEF q
<1> QED
  BY <1>6, <1>7, <1>11, <1>12 DEF Fits, q

LEMMA HostPairFits ==
  ASSUME NEW p
  PROVE  Fits(<<HOST_LOCK, HOST_UNLOCK>>, p)
<1> DEFINE x == HOST_LOCK  z == HOST_UNLOCK  s == <<x, z>>
<1>1. x \in Steps /\ x.op = "HOST_LOCK" /\ z \in Steps /\ z.op = "HOST_UNLOCK"
  BY StepsOf, ValuesAssumption DEF Ops, OfValue
<1>2. ASSUME NEW h \in Nat, NEW l \in Nat PROVE Runs(s, h, l, h, l, p)
  <2>1. Moves(x, h, l, h + 1, l, p) /\ Moves(z, h + 1, l, h, l, p) /\ h + 1 \in Nat
    BY StepMoves, ValuesAssumption
  <2> HIDE DEF x, z
  <2> QED
    BY <2>1, RunsTwo
<1> HIDE DEF x, z
<1>3. s \in Seq(Steps) /\ \A k \in 1..Len(s) : s[k].op \in {"HOST_LOCK", "HOST_UNLOCK"}
  BY <1>1
<1> HIDE DEF s
<1>4. Paired(s)
  BY <1>3, PairedWithout
<1>5. Fits(s, p)
  BY <1>2, <1>3, <1>4 DEF Fits
<1> QED
  BY <1>5 DEF s, x, z

\* the last steps of getChunk
LEMMA ChunkEnd ==
  ASSUME NEW h \in Nat, NEW l \in Nat
  PROVE  LET s == <<LUA_LOCK, LUA_UNLOCK, HOST_UNLOCK>>
         IN  s \in Seq(Steps) /\ Paired(s) /\ Runs(s, h + 1, l, h, l, TRUE)
<1> DEFINE x == LUA_LOCK  y == LUA_UNLOCK  z == HOST_UNLOCK  s == <<x, y, z>>
<1>1. /\ x \in Steps /\ x.op = "LUA_LOCK" /\ y \in Steps /\ y.op = "LUA_UNLOCK"
      /\ z \in Steps /\ z.op = "HOST_UNLOCK"
  BY StepsOf, ValuesAssumption DEF Ops, OfValue
<1>2. Runs(s, h + 1, l, h, l, TRUE)
  <2>1. h + 1 \in Nat /\ l + 1 \in Nat /\ MayLock(h + 1, l, TRUE)
    BY DEF MayLock
  <2>2. /\ Moves(x, h + 1, l, h + 1, l + 1, TRUE) /\ Moves(y, h + 1, l + 1, h + 1, l, TRUE)
        /\ Moves(z, h + 1, l, h, l, TRUE)
    BY <2>1, StepMoves, ValuesAssumption
  <2> HIDE DEF x, y, z
  <2> QED
    BY <2>1, <2>2, RunsThree
<1> HIDE DEF x, y, z
<1>3. /\ s \in Seq(Steps)
      /\ \A k \in 1..Len(s) : s[k].op \in {"LUA_LOCK", "LUA_UNLOCK", "HOST_UNLOCK"}
  BY <1>1
<1> HIDE DEF s
<1>4. Paired(s)
  BY <1>3, PairedWithout
<1> QED
  BY <1>2, <1>3, <1>4 DEF s, x, y, z

(* What the host calls and what a script calls.                            *)
LEMMA HostLists ==
  ASSUME NEW v \in Values
  PROVE  /\ Fits(setProgram(v), TRUE) /\ Fits(setProgramNoSave(v), TRUE)
         /\ Fits(getChunk, TRUE) /\ Fits(getChunkNoMemory, TRUE)
<1> DEFINE x == <<HOST_LOCK>>  y == <<HOST_UNLOCK>>
           s == IfRunning(onSaveProgram)  m == setParameter(v)  e == IfRunning(onLoadProgram)
           z == <<LUA_LOCK, LUA_UNLOCK, HOST_UNLOCK>>
<1>1. Fits(s, TRUE) /\ Fits(m, TRUE) /\ Fits(e, TRUE)
  <2>1. Fits(s, TRUE)
    BY CallbackFits, IfRunningFits DEF onSaveProgram
  <2>2. Fits(e, TRUE)
    BY onLoadProgramFits, IfRunningFits
  <2> QED
    BY <2>1, <2>2, setParameterFits
<1>2. Opened(x)
  BY HostSteps DEF Opened
<1> HIDE DEF s, m, e
<1>3. Opened(x \o s) /\ Opened(x \o s \o m) /\ Opened(x \o s \o m \o e)
  <2>1. Opened(x \o s)
    BY <1>1, <1>2, OpenedJoined
  <2>2. Opened(x \o s \o m)
    BY <1>1, <2>1, OpenedJoined
  <2> QED
    BY <1>1, <2>1, <2>2, OpenedJoined
<1>4. Opened(x \o m) /\ Opened(x \o m \o e)
  <2>1. Opened(x \o m)
    BY <1>1, <1>2, OpenedJoined
  <2> QED
    BY <1>1, <2>1, OpenedJoined
<1>5. y \in Seq(Steps) /\ Paired(y) /\ \A h, l \in Nat : Runs(y, h + 1, l, h, l, TRUE)
  BY HostSteps
<1>6. z \in Seq(Steps) /\ Paired(z) /\ \A h, l \in Nat : Runs(z, h + 1, l, h, l, TRUE)
  BY ChunkEnd
<1> HIDE DEF x, y, z
<1>7. /\ Fits(x \o s \o m \o e \o y, TRUE) /\ Fits(x \o m \o e \o y, TRUE)
      /\ Fits(x \o s \o z, TRUE) /\ Fits(x \o s \o y, TRUE)
  <2>1. Fits(x \o s \o m \o e \o y, TRUE)
    BY <1>3, <1>5, OpenedClosed
  <2>2. Fits(x \o m \o e \o y, TRUE)
    BY <1>4, <1>5, OpenedClosed
  <2>3. Fits(x \o s \o z, TRUE)
    BY <1>3, <1>6, OpenedClosed
  <2>4. Fits(x \o s \o y, TRUE)
    BY <1>3, <1>5, OpenedClosed
  <2> QED
    BY <2>1, <2>2, <2>3, <2>4
<1> QED
  BY <1>7 DEF setProgram, setProgramNoSave, getChunk, getChunkNoMemory, x, y, z, s, m, e

LEMMA ScriptLists ==
  ASSUME NEW p, NEW v \in Values, NEW h \in Nat, NEW l \in Nat, l > 0
  PROVE  /\ IntoHost \in Seq(Steps) /\ Paired(IntoHost) /\ Runs(IntoHost, h, l, h, l, p)
         /\ setParameterLua(v) \in Seq(Steps) /\ Paired(setParameterLua(v))
         /\ Runs(setParameterLua(v), h, l, h, l, p)
<1>1. IntoHost \in Seq(Steps) /\ Paired(IntoHost) /\ Runs(IntoHost, h, l, h, l, p)
  <2>1. Fits(IntoHost, p) /\ MayLock(h, l, p)
    BY HostPairFits DEF IntoHost, MayLock
  <2> QED
    BY <2>1 DEF Fits
<1> DEFINE x == <<HOST_LOCK>>  s == setParameterNoCallback("setByScript", v)
           y == Step("setParameterAutomated", v)  z == HOST_UNLOCK  e == <<y, z>>
<1>2. v \in Nat /\ h + 1 \in Nat
  BY ValuesAssumption
<1>3. x \in Seq(Steps) /\ Paired(x) /\ Runs(x, h, l, h + 1, l, p)
  BY HostSteps
<1>4. s \in Seq(Steps) /\ Runs(s, h + 1, l, h + 1, l, p)
  BY <1>2, SetRuns
<1>5. Moves(y, h + 1, l, h + 1, l, p) /\ Moves(z, h + 1, l, h, l, p)
  BY <1>2, StepMoves, ValuesAssumption
<1>6. /\ y \in Steps /\ y.op = "setParameterAutomated"
      /\ z \in Steps /\ z.op = "HOST_UNLOCK"
      /\ Step("setByScript", v) \in Steps /\ Step("setByScript", v).op = "setByScript"
      /\ HOST_LOCK \in Steps /\ HOST_LOCK.op = "HOST_LOCK"
  BY <1>2, StepsOf, ValuesAssumption DEF Ops, OfValue
<1>7. \A k \in 1..Len(s) : s[k].op # "set" /\ s[k].op # "tell"
  BY <1>6 DEF setParameterNoCallback
<1> HIDE DEF x, y, z, s
<1>8. e \in Seq(Steps) /\ Runs(e, h + 1, l, h, l, p)
  BY <1>2, <1>5, RunsTwo
<1>9. \A k \in 1..Len(e) : e[k].op # "set" /\ e[k].op # "tell"
  BY <1>6
<1> HIDE DEF e
<1>10. Paired(s) /\ Paired(e)
  BY <1>4, <1>7, <1>8, <1>9, PairedWithout
<1>11. x \o s \in Seq(Steps) /\ Paired(x \o s) /\ Runs(x \o s, h, l, h + 1, l, p)
  BY <1>3, <1>4, <1>10, PairedJoined, RunsJoined
<1>12. /\ x \o s \o e \in Seq(Steps) /\ Paired(x \o s \o e)
       /\ Runs(x \o s \o e, h, l, h, l, p)
  BY <1>8, <1>10, <1>11, PairedJoined, RunsJoined
<1> QED
  BY <1>1, <1>12 DEF setParameterLua, x, y, z, s, e

(* What a list still has to tell.                                          *)
TellList(s, tl) ==
  /\ \A k \in 1..Len(s) : SetsAt(s, k)
  /\ \A k \in 1..Len(s) : s[k].op = "tell" =>
        ToldAfterSet(s, k) \/ (tl # "no" /\ Pending(s, k))
  /\ tl # "no" => \E k \in 1..Len(s) : Pending(s, k)
ValueInv == \A t \in Threads :
  telling[t] = "alone" =>
     /\ \A k \in 1..Len(todo[t]) : Pending(todo[t], k) => todo[t][k].value = param
     /\ \A u \in Threads \ {t} : telling[u] = "no"

LEMMA TellInvParts ==
  TellInv <=> (\A t \in Threads : TellList(todo[t], telling[t])) /\ ValueInv
BY DEF TellInv, TellList, ValueInv

LEMMA PairedIsTellList ==
  ASSUME NEW s
  PROVE  Paired(s) <=> TellList(s, "no")
BY DEF Paired, TellList

\* only a list that is about to unlock, lock or tell has something pending
LEMMA NothingPending ==
  ASSUME NEW s \in Seq(Steps), s # <<>>, NEW tl, TellList(s, tl),
         s[1].op \notin {"HOST_UNLOCK", "LUA_LOCK", "tell"}
  PROVE  tl = "no" /\ Paired(s)
<1>1. ASSUME tl # "no" PROVE FALSE
  <2>1. PICK k \in 1..Len(s) : Pending(s, k)
    BY <1>1 DEF TellList
  <2>2. k = 1 \/ 1 \in 1..(k - 1)
    OBVIOUS
  <2> QED
    BY <2>1, <2>2 DEF Pending
<1> QED
  BY <1>1, PairedIsTellList

\* a list from its place n on: what follows a place, and what precedes it
LEMMA SetsAtFrom ==
  ASSUME NEW s \in Seq(Steps), NEW r \in Seq(Steps), NEW n \in 1..Len(s),
         Len(r) = Len(s) - n, \A k \in 1..Len(r) : r[k] = s[n + k],
         \A k \in 1..Len(s) : SetsAt(s, k)
  PROVE  \A k \in 1..Len(r) : SetsAt(r, k)
<1> DEFINE a == Len(s)  b == Len(r)
<1>1. SUFFICES ASSUME NEW k \in 1..b, s[n + k].op = "set"
               PROVE  /\ k + 3 <= b /\ r[k + 1].op = "HOST_UNLOCK"
                      /\ r[k + 2].op = "LUA_LOCK" /\ r[k + 3].op = "tell"
                      /\ r[k + 3].value = s[n + k].value
  BY DEF SetsAt
<1>2. /\ a \in Nat /\ n \in Nat /\ b = a - n /\ n + k \in 1..a
      /\ \A j \in 1..b : r[j] = s[n + j]
  OBVIOUS
<1>3. /\ n + k + 3 <= a /\ s[n + k + 1].op = "HOST_UNLOCK" /\ s[n + k + 2].op = "LUA_LOCK"
      /\ s[n + k + 3].op = "tell" /\ s[n + k + 3].value = s[n + k].value
  BY <1>1, <1>2 DEF SetsAt
<1>4. /\ k + 1 \in 1..b /\ k + 2 \in 1..b /\ k + 3 \in 1..b /\ k + 3 <= b
      /\ n + k + 1 = n + (k + 1) /\ n + k + 2 = n + (k + 2) /\ n + k + 3 = n + (k + 3)
  BY <1>2, <1>3
<1>5. r[k + 1] = s[n + (k + 1)] /\ r[k + 2] = s[n + (k + 2)] /\ r[k + 3] = s[n + (k + 3)]
  BY <1>2, <1>4
<1> HIDE DEF a, b
<1> QED
  BY <1>3, <1>4, <1>5

LEMMA ToldFrom ==
  ASSUME NEW s \in Seq(Steps), NEW r \in Seq(Steps), NEW n \in 1..Len(s),
         Len(r) = Len(s) - n, \A k \in 1..Len(r) : r[k] = s[n + k],
         NEW k \in 1..Len(r), ToldAfterSet(s, n + k),
         k > 3 \/ \A j \in 1..n : s[j].op # "set"
  PROVE  ToldAfterSet(r, k)
<1>1. n + k > 3 /\ s[n + k - 3].op = "set"
  BY DEF ToldAfterSet
<1>2. k > 3
  <2>1. CASE n + k - 3 <= n
    <3>1. n + k - 3 \in 1..n
      BY <1>1, <2>1
    <3> QED
      BY <1>1, <3>1
  <2>2. CASE ~(n + k - 3 <= n)
    BY <2>2
  <2> QED
    BY <2>1, <2>2
<1>3. k - 3 \in 1..Len(r) /\ n + (k - 3) = n + k - 3
  BY <1>2
<1>4. r[k - 3] = s[n + (k - 3)]
  BY <1>3
<1> QED
  BY <1>1, <1>2, <1>3, <1>4 DEF ToldAfterSet

LEMMA PairedFrom ==
  ASSUME NEW s \in Seq(Steps), NEW r \in Seq(Steps), NEW n \in 1..Len(s),
         Len(r) = Len(s) - n, \A k \in 1..Len(r) : r[k] = s[n + k],
         \A k \in 1..n : s[k].op # "set",
         \A k \in 1..Len(s) : SetsAt(s, k),
         \A k \in 1..Len(s) : k > n /\ s[k].op = "tell" => ToldAfterSet(s, k)
  PROVE  Paired(r)
<1>1. \A k \in 1..Len(r) : SetsAt(r, k)
  BY SetsAtFrom
<1>2. ASSUME NEW k \in 1..Len(r), r[k].op = "tell" PROVE ToldAfterSet(r, k)
  <2>1. n + k \in 1..Len(s) /\ n + k > n /\ r[k] = s[n + k]
    OBVIOUS
  <2>2. ToldAfterSet(s, n + k)
    BY <1>2, <2>1
  <2> QED
    BY <2>2, ToldFrom
<1> QED
  BY <1>1, <1>2 DEF Paired

LEMMA PairedTail ==
  ASSUME NEW s \in Seq(Steps), s # <<>>, s[1].op # "set", Paired(s)
  PROVE  Tail(s) \in Seq(Steps) /\ Paired(Tail(s))
<1> DEFINE r == Tail(s)
<1>1. /\ r \in Seq(Steps) /\ Len(s) \in Nat \ {0} /\ Len(r) = Len(s) - 1
      /\ \A k \in 1..Len(r) : r[k] = s[k + 1]
  BY Rest
<1> HIDE DEF r
<1>2. /\ 1 \in 1..Len(s) /\ \A k \in 1..1 : s[k].op # "set"
      /\ \A k \in 1..Len(r) : r[k] = s[1 + k]
  BY <1>1
<1>3. /\ \A k \in 1..Len(s) : SetsAt(s, k)
      /\ \A k \in 1..Len(s) : s[k].op = "tell" => ToldAfterSet(s, k)
  BY DEF Paired
<1>4. Paired(r)
  BY <1>1, <1>2, <1>3, PairedFrom
<1> QED
  BY <1>1, <1>4 DEF r

\* one step towards the callback
LEMMA PendingTail ==
  ASSUME NEW s \in Seq(Steps), s # <<>>, NEW tl, TellList(s, tl),
         s[1].op \in {"HOST_UNLOCK", "LUA_LOCK"}
  PROVE  /\ TellList(Tail(s), tl)
         /\ tl # "no" => \A k \in 1..Len(Tail(s)) : Pending(Tail(s), k) =>
               \E j \in 1..Len(s) : Pending(s, j) /\ s[j].value = Tail(s)[k].value
<1> DEFINE r == Tail(s)  a == Len(s)  b == Len(r)
<1>1. /\ r \in Seq(Steps) /\ a \in Nat \ {0} /\ b = a - 1
      /\ \A k \in 1..b : r[k] = s[k + 1]
  BY Rest
<1>2. /\ \A k \in 1..a : SetsAt(s, k)
      /\ \A k \in 1..a : s[k].op = "tell" =>
            ToldAfterSet(s, k) \/ (tl # "no" /\ Pending(s, k))
  BY DEF TellList
<1>3. a = Len(s) /\ b = Len(r)
  OBVIOUS
<1> HIDE DEF r, a, b
<1>4. \A k \in 1..b : SetsAt(r, k)
  <2>1. /\ 1 \in 1..Len(s) /\ Len(r) = Len(s) - 1
        /\ \A k \in 1..Len(r) : r[k] = s[1 + k]
    BY <1>1, <1>3
  <2>2. \A k \in 1..Len(s) : SetsAt(s, k)
    BY <1>2, <1>3
  <2>3. \A k \in 1..Len(r) : SetsAt(r, k)
    BY <1>1, <2>1, <2>2, SetsAtFrom
  <2> QED
    BY <1>3, <2>3
<1>5. ASSUME NEW k \in 1..b, Pending(s, k + 1) PROVE Pending(r, k)
  <2>1. /\ k + 1 <= 3 /\ s[k + 1].op = "tell"
        /\ \A j \in 1..k : s[j].op \in {"HOST_UNLOCK", "LUA_LOCK"}
    BY <1>5 DEF Pending
  <2>2. ASSUME NEW j \in 1..(k - 1) PROVE r[j].op \in {"HOST_UNLOCK", "LUA_LOCK"}
    <3>1. j \in 1..b /\ j + 1 \in 1..k
      BY <1>1, <1>5
    <3>2. r[j] = s[j + 1]
      BY <1>1, <3>1
    <3> QED
      BY <2>1, <3>1, <3>2
  <2> QED
    BY <1>1, <2>1, <2>2 DEF Pending
<1>6. ASSUME NEW k \in 1..b, r[k].op = "tell"
      PROVE  ToldAfterSet(r, k) \/ (tl # "no" /\ Pending(r, k))
  <2>1. k + 1 \in 1..a /\ r[k] = s[k + 1]
    BY <1>1
  <2>2. ToldAfterSet(s, k + 1) \/ (tl # "no" /\ Pending(s, k + 1))
    BY <1>2, <1>6, <2>1
  <2>3. ASSUME ToldAfterSet(s, k + 1) PROVE ToldAfterSet(r, k)
    <3>1. k + 1 > 3 /\ s[k + 1 - 3].op = "set"
      BY <2>3 DEF ToldAfterSet
    <3>2. k + 1 - 3 # 1
      BY <3>1
    <3>3. k > 3 /\ k - 3 \in 1..b /\ (k - 3) + 1 = k + 1 - 3
      BY <1>1, <3>1, <3>2
    <3> QED
      BY <1>1, <3>1, <3>3 DEF ToldAfterSet
  <2> QED
    BY <1>5, <2>2, <2>3
<1>7. ASSUME tl # "no"
      PROVE  \E k \in 1..b : Pending(r, k) /\ Pending(s, k + 1)
  <2>1. PICK j \in 1..a : Pending(s, j)
    BY <1>3, <1>7 DEF TellList
  <2>2. j # 1
    BY <2>1 DEF Pending
  <2>3. j - 1 \in 1..b /\ (j - 1) + 1 = j
    BY <1>1, <2>2
  <2> QED
    BY <1>5, <2>1, <2>3
<1>8. ASSUME tl # "no", NEW k \in 1..b, Pending(r, k)
      PROVE  \E j \in 1..a : Pending(s, j) /\ s[j].value = r[k].value
  <2>1. PICK i \in 1..b : Pending(r, i) /\ Pending(s, i + 1)
    BY <1>7, <1>8
  <2>2. i = k
    <3>1. /\ r[k].op = "tell" /\ r[i].op = "tell"
          /\ \A j \in 1..(k - 1) : r[j].op \in {"HOST_UNLOCK", "LUA_LOCK"}
          /\ \A j \in 1..(i - 1) : r[j].op \in {"HOST_UNLOCK", "LUA_LOCK"}
      BY <1>8, <2>1 DEF Pending
    <3>2. i = k \/ i \in 1..(k - 1) \/ k \in 1..(i - 1)
      BY <1>1
    <3> QED
      BY <3>1, <3>2
  <2>3. k + 1 \in 1..a /\ r[k] = s[k + 1]
    BY <1>1
  <2> QED
    BY <2>1, <2>2, <2>3
<1>9. TellList(r, tl)
  BY <1>3, <1>4, <1>6, <1>7 DEF TellList
<1> QED
  BY <1>3, <1>8, <1>9 DEF r

\* the value is set: three steps on it is told
LEMMA SetTail ==
  ASSUME NEW s \in Seq(Steps), s # <<>>, s[1].op = "set", Paired(s), NEW tl, tl # "no"
  PROVE  /\ TellList(Tail(s), tl)
         /\ \A k \in 1..Len(Tail(s)) : Pending(Tail(s), k) => Tail(s)[k].value = s[1].value
<1> DEFINE r == Tail(s)  a == Len(s)  b == Len(r)
<1>1. /\ r \in Seq(Steps) /\ a \in Nat \ {0} /\ b = a - 1
      /\ \A k \in 1..b : r[k] = s[k + 1]
  BY Rest
<1>2. /\ \A k \in 1..a : SetsAt(s, k)
      /\ \A k \in 1..a : s[k].op = "tell" => ToldAfterSet(s, k)
  BY DEF Paired
<1>3. a = Len(s) /\ b = Len(r)
  OBVIOUS
<1> HIDE DEF r, a, b
<1>4. \A k \in 1..b : SetsAt(r, k)
  <2>1. /\ 1 \in 1..Len(s) /\ Len(r) = Len(s) - 1
        /\ \A k \in 1..Len(r) : r[k] = s[1 + k]
    BY <1>1, <1>3
  <2>2. \A k \in 1..Len(s) : SetsAt(s, k)
    BY <1>2, <1>3
  <2>3. \A k \in 1..Len(r) : SetsAt(r, k)
    BY <1>1, <2>1, <2>2, SetsAtFrom
  <2> QED
    BY <1>3, <2>3
<1>5. /\ 3 \in 1..b /\ r[1].op = "HOST_UNLOCK" /\ r[2].op = "LUA_LOCK" /\ r[3].op = "tell"
      /\ r[3].value = s[1].value
  <2>1. /\ 1 + 3 <= a /\ s[1 + 1].op = "HOST_UNLOCK" /\ s[1 + 2].op = "LUA_LOCK"
        /\ s[1 + 3].op = "tell" /\ s[1 + 3].value = s[1].value
    BY <1>1, <1>2, <1>3 DEF SetsAt
  <2>2. /\ 1 \in 1..b /\ 2 \in 1..b /\ 3 \in 1..b
        /\ 1 + 1 = 2 /\ 1 + 2 = 3 /\ 1 + 3 = 4 /\ 2 + 1 = 3 /\ 3 + 1 = 4
    BY <1>1, <2>1
  <2>3. r[1] = s[2] /\ r[2] = s[3] /\ r[3] = s[4]
    BY <1>1, <2>2
  <2> QED
    BY <2>1, <2>2, <2>3
<1>6. Pending(r, 3)
  <2>1. \A j \in 1..(3 - 1) : j = 1 \/ j = 2
    OBVIOUS
  <2> QED
    BY <1>5, <2>1 DEF Pending
<1>7. ASSUME NEW k \in 1..b, r[k].op = "tell"
      PROVE  ToldAfterSet(r, k) \/ (tl # "no" /\ Pending(r, k))
  <2>1. k + 1 \in 1..a /\ r[k] = s[k + 1]
    BY <1>1
  <2>2. k + 1 > 3 /\ s[k + 1 - 3].op = "set"
    BY <1>2, <1>7, <2>1 DEF ToldAfterSet
  <2>3. CASE k = 3
    BY <1>6, <2>3
  <2>4. CASE k # 3
    <3>1. k > 3 /\ k - 3 \in 1..b /\ (k - 3) + 1 = k + 1 - 3
      BY <1>1, <2>2, <2>4
    <3>2. ToldAfterSet(r, k)
      BY <1>1, <2>2, <3>1 DEF ToldAfterSet
    <3> QED
      BY <3>2
  <2> QED
    BY <2>3, <2>4
<1>8. ASSUME NEW k \in 1..b, Pending(r, k) PROVE r[k].value = s[1].value
  <2>1. r[k].op = "tell" /\ k <= 3
    BY <1>8 DEF Pending
  <2>2. k # 1 /\ k # 2
    BY <1>5, <2>1
  <2>3. k = 3
    BY <2>1, <2>2
  <2> QED
    BY <1>5, <2>3
<1>9. TellList(r, tl)
  BY <1>3, <1>4, <1>5, <1>6, <1>7 DEF TellList
<1> QED
  BY <1>3, <1>8, <1>9 DEF r

\* the script is told: nothing is pending any more
LEMMA TellTail ==
  ASSUME NEW s \in Seq(Steps), s # <<>>, s[1].op = "tell", NEW tl, TellList(s, tl)
  PROVE  tl # "no" /\ 1 \in 1..Len(s) /\ Pending(s, 1) /\ Tail(s) \in Seq(Steps) /\ Paired(Tail(s))
<1>1. 1 \in 1..Len(s)
  BY Rest
<1>2. tl # "no" /\ Pending(s, 1)
  BY <1>1 DEF TellList, ToldAfterSet
<1>3. ASSUME NEW k \in 1..Len(s), Pending(s, k) PROVE k = 1
  <2>1. \A j \in 1..(k - 1) : s[j].op \in {"HOST_UNLOCK", "LUA_LOCK"}
    BY <1>3 DEF Pending
  <2>2. k = 1 \/ 1 \in 1..(k - 1)
    OBVIOUS
  <2> QED
    BY <2>1, <2>2
<1> DEFINE r == Tail(s)
<1>4. /\ r \in Seq(Steps) /\ Len(s) \in Nat \ {0} /\ Len(r) = Len(s) - 1
      /\ \A k \in 1..Len(r) : r[k] = s[k + 1]
  BY Rest
<1> HIDE DEF r
<1>5. /\ \A k \in 1..Len(s) : SetsAt(s, k)
      /\ \A k \in 1..Len(s) : k > 1 /\ s[k].op = "tell" => ToldAfterSet(s, k)
      /\ \A k \in 1..1 : s[k].op # "set"
      /\ \A k \in 1..Len(r) : r[k] = s[1 + k]
  <2>1. \A k \in 1..Len(s) : SetsAt(s, k)
    BY DEF TellList
  <2>2. \A k \in 1..Len(s) : k > 1 /\ s[k].op = "tell" => ToldAfterSet(s, k)
    BY <1>3 DEF TellList
  <2> QED
    BY <1>4, <2>1, <2>2
<1>6. Paired(r)
  BY <1>1, <1>4, <1>5, PairedFrom
<1> QED
  BY <1>1, <1>2, <1>4, <1>6 DEF r

-----------------------------------------------------------------------------
(* What an action does to one thread, and what it leaves to the others.    *)
LEMMA RunsEmpty ==
  ASSUME NEW h \in Nat, NEW l \in Nat, NEW h1, NEW l1, NEW p, NEW b
  PROVE  /\ Runs(<<>>, h, l, h, l, p)
         /\ Runs(<<>>, h, l, h1, l1, b) => h1 = h /\ l1 = l
<1> DEFINE s == <<>>
           g == [k \in 1..1 |-> h]
           i == [k \in 1..1 |-> l]
<1>1. Len(s) = 0 /\ Len(s) + 1 = 1
  OBVIOUS
<1> HIDE DEF s
<1>2. g \in Depths(s) /\ i \in Depths(s) /\ g[1] = h /\ i[1] = l
  BY <1>1 DEF Depths
<1> HIDE DEF g, i
<1>3. Runs(s, h, l, h, l, p)
  BY <1>1, <1>2 DEF Runs
<1>4. Runs(s, h, l, h1, l1, b) => h1 = h /\ l1 = l
  BY <1>1 DEF Runs
<1> QED
  BY <1>3, <1>4 DEF s

LEMMA HeadOf ==
  ASSUME TypeOK, NEW t \in Threads, NEW o, At(t, o)
  PROVE  /\ t \notin raised /\ todo[t] \in Seq(Steps) /\ todo[t] # <<>>
         /\ Len(todo[t]) \in Nat \ {0} /\ Tail(todo[t]) \in Seq(Steps)
         /\ todo[t][1] \in Steps /\ todo[t][1].op = o
         /\ Value(t) = todo[t][1].value /\ Value(t) \in Nat
         /\ o \in OfValue => Value(t) \in Values
<1>1. t \notin raised /\ todo[t] \in Seq(Steps) /\ todo[t] # <<>> /\ Head(todo[t]).op = o
  BY DEF At, TypeOK, Steps
<1>2. /\ Len(todo[t]) \in Nat \ {0} /\ Tail(todo[t]) \in Seq(Steps)
      /\ Head(todo[t]) = todo[t][1]
  BY <1>1, Rest
<1>3. todo[t][1] \in Steps
  BY <1>1, <1>2
<1>4. o \in OfValue => todo[t][1].value \in Values
  BY <1>1, <1>2, <1>3 DEF Steps
<1> QED
  BY <1>1, <1>2, <1>3, <1>4 DEF Value, Steps

LEMMA DepthStep ==
  ASSUME DepthInv, NEW t \in Threads,
         \A u \in Threads \ {t} : /\ call'[u] = call[u] /\ todo'[u] = todo[u]
                                  /\ hostDepth'[u] = hostDepth[u] /\ luaDepth'[u] = luaDepth[u]
                                  /\ kept'[u] = kept[u],
         call'[t] = "none" => todo'[t] = <<>>,
         Runs(todo'[t], hostDepth'[t], luaDepth'[t], 0, kept'[t], call'[t] \in ProgramCalls)
  PROVE  DepthInv'
BY DEF DepthInv

LEMMA DepthContinue ==
  ASSUME TypeOK, DepthInv, NEW t \in Threads, todo[t] # <<>>, Continue(t), call' = call,
         kept' = kept,
         \A u \in Threads \ {t} : hostDepth'[u] = hostDepth[u] /\ luaDepth'[u] = luaDepth[u],
         hostDepth'[t] = After(todo[t][1].op, "HOST_LOCK", "HOST_UNLOCK", hostDepth[t]),
         luaDepth'[t] = After(todo[t][1].op, "LUA_LOCK", "LUA_UNLOCK", luaDepth[t])
  PROVE  DepthInv'
<1>1. /\ todo[t] \in Seq(Steps) /\ call[t] # "none"
      /\ Runs(todo[t], hostDepth[t], luaDepth[t], 0, kept[t], call[t] \in ProgramCalls)
  BY DEF DepthInv, TypeOK, Steps
<1>2. /\ todo'[t] = Tail(todo[t]) /\ \A u \in Threads \ {t} : todo'[u] = todo[u]
  BY DEF Continue, Goto, TypeOK
<1> DEFINE s == todo[t]  p == call[t] \in ProgramCalls
<1>3. s \in Seq(Steps) /\ s # <<>> /\ Runs(s, hostDepth[t], luaDepth[t], 0, kept[t], p)
  BY <1>1
<1>4. Runs(Tail(s), After(s[1].op, "HOST_LOCK", "HOST_UNLOCK", hostDepth[t]),
           After(s[1].op, "LUA_LOCK", "LUA_UNLOCK", luaDepth[t]), 0, kept[t], p)
  <2> HIDE DEF s, p
  <2> QED
    BY <1>3, RunsOn
<1>5. Runs(todo'[t], hostDepth'[t], luaDepth'[t], 0, kept'[t], call'[t] \in ProgramCalls)
  BY <1>2, <1>4
<1> QED
  BY <1>1, <1>2, <1>5, DepthStep

(* The parameter and what is told of it stay; one thread goes on.          *)
LEMMA TellKept ==
  ASSUME TypeOK, TellInv, ToldInv, NEW t \in Threads, UNCHANGED paramVars,
         \A u \in Threads \ {t} : todo'[u] = todo[u],
         TellList(todo'[t], telling[t]),
         telling[t] = "alone" =>
            \A k \in 1..Len(todo'[t]) : Pending(todo'[t], k) => todo'[t][k].value = param
  PROVE  TellInv' /\ ToldInv'
<1>1. telling' = telling /\ param' = param /\ told' = told /\ mixed' = mixed
  BY DEF paramVars
<1>2. (\A u \in Threads : TellList(todo[u], telling[u])) /\ ValueInv
  BY TellInvParts
<1>3. \A u \in Threads : TellList(todo'[u], telling'[u])
  BY <1>1, <1>2
<1>4. ValueInv'
  <2> SUFFICES ASSUME NEW u \in Threads, telling[u] = "alone"
               PROVE  /\ \A k \in 1..Len(todo'[u]) :
                            Pending(todo'[u], k) => todo'[u][k].value = param
                      /\ \A w \in Threads \ {u} : telling[w] = "no"
    BY <1>1 DEF ValueInv
  <2>1. \A w \in Threads \ {u} : telling[w] = "no"
    BY <1>2 DEF ValueInv
  <2>2. CASE u = t
    BY <2>1, <2>2
  <2>3. CASE u # t
    <3>1. \A k \in 1..Len(todo[u]) : Pending(todo[u], k) => todo[u][k].value = param
      BY <1>2 DEF ValueInv
    <3>2. todo'[u] = todo[u]
      BY <2>3
    <3> QED
      BY <2>1, <3>1, <3>2
  <2> QED
    BY <2>2, <2>3
<1>5. TellInv'
  BY <1>3, <1>4 DEF TellInv, TellList, ValueInv
<1>6. ToldInv'
  BY <1>1 DEF ToldInv
<1> QED
  BY <1>5, <1>6

\* with nothing left to tell of a value
LEMMA TellPaired ==
  ASSUME TypeOK, TellInv, ToldInv, NEW t \in Threads, UNCHANGED paramVars,
         \A u \in Threads \ {t} : todo'[u] = todo[u],
         telling[t] = "no", Paired(todo'[t])
  PROVE  TellInv' /\ ToldInv'
<1>1. TellList(todo'[t], telling[t])
  BY DEF Paired, TellList
<1> QED
  BY <1>1, TellKept

\* one step that neither sets nor tells
LEMMA TellContinue ==
  ASSUME TypeOK, TellInv, ToldInv, NEW t \in Threads, UNCHANGED paramVars,
         Continue(t), todo[t] # <<>>, todo[t][1].op \notin {"set", "tell"}
  PROVE  TellInv' /\ ToldInv'
<1> DEFINE s == todo[t]
<1>1. s \in Seq(Steps) /\ s # <<>> /\ TellList(s, telling[t])
  BY TellInvParts DEF TypeOK, Steps
<1>2. todo'[t] = Tail(s) /\ \A u \in Threads \ {t} : todo'[u] = todo[u]
  BY DEF Continue, Goto, TypeOK
<1>3. CASE s[1].op \in {"HOST_UNLOCK", "LUA_LOCK"}
  <2>1. /\ TellList(Tail(s), telling[t])
        /\ telling[t] # "no" => \A k \in 1..Len(Tail(s)) : Pending(Tail(s), k) =>
              \E j \in 1..Len(s) : Pending(s, j) /\ s[j].value = Tail(s)[k].value
    <3> HIDE DEF s
    <3> QED
      BY <1>1, <1>3, PendingTail
  <2>2. telling[t] = "alone" => \A j \in 1..Len(s) : Pending(s, j) => s[j].value = param
    BY TellInvParts DEF ValueInv
  <2>3. telling[t] = "alone" =>
           \A k \in 1..Len(todo'[t]) : Pending(todo'[t], k) => todo'[t][k].value = param
    <3> HIDE DEF s
    <3> QED
      BY <1>2, <2>1, <2>2
  <2>4. TellList(todo'[t], telling[t])
    BY <1>2, <2>1
  <2> QED
    BY <1>2, <2>3, <2>4, TellKept
<1>4. CASE s[1].op \notin {"HOST_UNLOCK", "LUA_LOCK"}
  <2>1. telling[t] = "no" /\ Paired(Tail(s))
    <3>1. s[1].op \notin {"HOST_UNLOCK", "LUA_LOCK", "tell"} /\ s[1].op # "set"
      BY <1>4
    <3> HIDE DEF s
    <3>2. telling[t] = "no" /\ Paired(s)
      BY <1>1, <3>1, NothingPending
    <3> QED
      BY <1>1, <3>1, <3>2, PairedTail
  <2>2. Paired(todo'[t])
    BY <1>2, <2>1
  <2> QED
    BY <1>2, <2>1, <2>2, TellPaired
<1> QED
  BY <1>3, <1>4

-----------------------------------------------------------------------------
(* Every action keeps the invariant.                                       *)
THEOREM InitIInv == Init => IInv
<1> SUFFICES ASSUME Init PROVE IInv
  OBVIOUS
<1> USE DEF Init, Host!Init, Lua!Init
<1>1. TypeOK
  <2>1. <<>> \in Seq(Steps)
    OBVIOUS
  <2>2. 0 \in Values /\ 0 \in 0..MaxCalls
    BY ValuesAssumption, CallsAssumption
  <2> QED
    BY <2>1, <2>2 DEF TypeOK, CallNames
<1>2. Alone(hostDepth) /\ Alone(luaDepth)
  BY DEF Alone
<1>3. DepthInv
  <2> SUFFICES ASSUME NEW t \in Threads
               PROVE  Runs(<<>>, 0, 0, 0, 0, "none" \in ProgramCalls)
    BY DEF DepthInv
  <2> QED
    BY RunsEmpty
<1>4. TellInv
  <2> SUFFICES ASSUME NEW t \in Threads
               PROVE  todo[t] = <<>> /\ telling[t] = "no"
    <3>1. \A k \in 1..Len(<<>>) : FALSE
      OBVIOUS
    <3> QED
      BY <3>1 DEF TellInv
  <2> QED
    OBVIOUS
<1>5. ToldInv
  BY DEF ToldInv
<1> QED
  BY <1>1, <1>2, <1>3, <1>4, <1>5 DEF IInv

LEMMA LockHostKeeps ==
  ASSUME IInv, NEW t \in Threads, LockHost(t)
  PROVE  IInv'
<1> USE DEF IInv
<1>1. At(t, "HOST_LOCK") /\ Continue(t) /\ Host!Enter(t)
      /\ UNCHANGED <<kept, luaDepth, halted, call, raised, calls, paramVars>>
  BY DEF LockHost
<1>2. /\ todo[t] # <<>> /\ todo[t][1].op = "HOST_LOCK" /\ Tail(todo[t]) \in Seq(Steps)
  BY <1>1, HeadOf
<1>3. /\ hostDepth'[t] = hostDepth[t] + 1 /\ hostDepth[t] \in Nat
      /\ \A u \in Threads \ {t} : hostDepth'[u] = hostDepth[u] /\ hostDepth[u] = 0
      /\ hostDepth' \in [Threads -> Nat]
  BY <1>1 DEF TypeOK, Host!Enter, Host!FreeFor
<1>4. TypeOK'
  <2>1. todo' \in [Threads -> Seq(Steps)]
    BY <1>1, <1>2 DEF TypeOK, Continue, Goto, Steps
  <2> QED
    BY <1>1, <1>3, <2>1 DEF TypeOK, paramVars, Steps
<1>5. Alone(hostDepth)' /\ Alone(luaDepth)'
  BY <1>1, <1>3 DEF Alone
<1>6. DepthInv'
  <2>1. /\ hostDepth'[t] = After(todo[t][1].op, "HOST_LOCK", "HOST_UNLOCK", hostDepth[t])
        /\ luaDepth'[t] = After(todo[t][1].op, "LUA_LOCK", "LUA_UNLOCK", luaDepth[t])
    BY <1>1, <1>2, <1>3 DEF After
  <2> QED
    BY <1>1, <1>2, <1>3, <2>1, DepthContinue
<1>7. TellInv' /\ ToldInv'
  <2>1. UNCHANGED paramVars /\ todo[t][1].op \notin {"set", "tell"}
    BY <1>1, <1>2
  <2> QED
    BY <1>1, <1>2, <2>1, TellContinue
<1> QED
  BY <1>4, <1>5, <1>6, <1>7

LEMMA LockLuaKeeps ==
  ASSUME IInv, NEW t \in Threads, LockLua(t)
  PROVE  IInv'
<1> USE DEF IInv
<1>1. At(t, "LUA_LOCK") /\ Continue(t) /\ Lua!Enter(t)
      /\ UNCHANGED <<kept, hostDepth, halted, call, raised, calls, paramVars>>
  BY DEF LockLua
<1>2. /\ todo[t] # <<>> /\ todo[t][1].op = "LUA_LOCK" /\ Tail(todo[t]) \in Seq(Steps)
  BY <1>1, HeadOf
<1>3. /\ luaDepth'[t] = luaDepth[t] + 1 /\ luaDepth[t] \in Nat
      /\ \A u \in Threads \ {t} : luaDepth'[u] = luaDepth[u] /\ luaDepth[u] = 0
      /\ luaDepth' \in [Threads -> Nat]
  BY <1>1 DEF TypeOK, Lua!Enter, Lua!FreeFor
<1>4. TypeOK'
  <2>1. todo' \in [Threads -> Seq(Steps)]
    BY <1>1, <1>2 DEF TypeOK, Continue, Goto, Steps
  <2> QED
    BY <1>1, <1>3, <2>1 DEF TypeOK, paramVars, Steps
<1>5. Alone(hostDepth)' /\ Alone(luaDepth)'
  BY <1>1, <1>3 DEF Alone
<1>6. DepthInv'
  <2>1. /\ hostDepth'[t] = After(todo[t][1].op, "HOST_LOCK", "HOST_UNLOCK", hostDepth[t])
        /\ luaDepth'[t] = After(todo[t][1].op, "LUA_LOCK", "LUA_UNLOCK", luaDepth[t])
    BY <1>1, <1>2, <1>3 DEF After
  <2> QED
    BY <1>1, <1>2, <1>3, <2>1, DepthContinue
<1>7. TellInv' /\ ToldInv'
  <2>1. UNCHANGED paramVars /\ todo[t][1].op \notin {"set", "tell"}
    BY <1>1, <1>2
  <2> QED
    BY <1>1, <1>2, <2>1, TellContinue
<1> QED
  BY <1>4, <1>5, <1>6, <1>7

LEMMA UnlockHostKeeps ==
  ASSUME IInv, NEW t \in Threads, UnlockHost(t)
  PROVE  IInv'
<1> USE DEF IInv
<1>1. At(t, "HOST_UNLOCK") /\ Continue(t) /\ Host!Leave(t)
      /\ UNCHANGED <<kept, luaDepth, halted, call, raised, calls, paramVars>>
  BY DEF UnlockHost
<1>2. /\ todo[t] # <<>> /\ todo[t][1].op = "HOST_UNLOCK" /\ Tail(todo[t]) \in Seq(Steps)
  BY <1>1, HeadOf
<1>3. /\ hostDepth'[t] = hostDepth[t] - 1 /\ hostDepth[t] \in Nat \ {0}
      /\ \A u \in Threads \ {t} : hostDepth'[u] = hostDepth[u]
      /\ hostDepth' \in [Threads -> Nat]
  BY <1>1 DEF TypeOK, Host!Leave
<1>4. TypeOK'
  <2>1. todo' \in [Threads -> Seq(Steps)]
    BY <1>1, <1>2 DEF TypeOK, Continue, Goto, Steps
  <2> QED
    BY <1>1, <1>3, <2>1 DEF TypeOK, paramVars, Steps
<1>5. Alone(hostDepth)' /\ Alone(luaDepth)'
  BY <1>1, <1>3 DEF Alone
<1>6. DepthInv'
  <2>1. /\ hostDepth'[t] = After(todo[t][1].op, "HOST_LOCK", "HOST_UNLOCK", hostDepth[t])
        /\ luaDepth'[t] = After(todo[t][1].op, "LUA_LOCK", "LUA_UNLOCK", luaDepth[t])
    BY <1>1, <1>2, <1>3 DEF After
  <2> QED
    BY <1>1, <1>2, <1>3, <2>1, DepthContinue
<1>7. TellInv' /\ ToldInv'
  <2>1. UNCHANGED paramVars /\ todo[t][1].op \notin {"set", "tell"}
    BY <1>1, <1>2
  <2> QED
    BY <1>1, <1>2, <2>1, TellContinue
<1> QED
  BY <1>4, <1>5, <1>6, <1>7

LEMMA UnlockLuaKeeps ==
  ASSUME IInv, NEW t \in Threads, UnlockLua(t)
  PROVE  IInv'
<1> USE DEF IInv
<1>1. At(t, "LUA_UNLOCK") /\ Continue(t) /\ Lua!Leave(t)
      /\ UNCHANGED <<kept, hostDepth, halted, call, raised, calls, paramVars>>
  BY DEF UnlockLua
<1>2. /\ todo[t] # <<>> /\ todo[t][1].op = "LUA_UNLOCK" /\ Tail(todo[t]) \in Seq(Steps)
  BY <1>1, HeadOf
<1>3. /\ luaDepth'[t] = luaDepth[t] - 1 /\ luaDepth[t] \in Nat \ {0}
      /\ \A u \in Threads \ {t} : luaDepth'[u] = luaDepth[u]
      /\ luaDepth' \in [Threads -> Nat]
  BY <1>1 DEF TypeOK, Lua!Leave
<1>4. TypeOK'
  <2>1. todo' \in [Threads -> Seq(Steps)]
    BY <1>1, <1>2 DEF TypeOK, Continue, Goto, Steps
  <2> QED
    BY <1>1, <1>3, <2>1 DEF TypeOK, paramVars, Steps
<1>5. Alone(hostDepth)' /\ Alone(luaDepth)'
  BY <1>1, <1>3 DEF Alone
<1>6. DepthInv'
  <2>1. /\ hostDepth'[t] = After(todo[t][1].op, "HOST_LOCK", "HOST_UNLOCK", hostDepth[t])
        /\ luaDepth'[t] = After(todo[t][1].op, "LUA_LOCK", "LUA_UNLOCK", luaDepth[t])
    BY <1>1, <1>2, <1>3 DEF After
  <2> QED
    BY <1>1, <1>2, <1>3, <2>1, DepthContinue
<1>7. TellInv' /\ ToldInv'
  <2>1. UNCHANGED paramVars /\ todo[t][1].op \notin {"set", "tell"}
    BY <1>1, <1>2
  <2> QED
    BY <1>1, <1>2, <2>1, TellContinue
<1> QED
  BY <1>4, <1>5, <1>6, <1>7

LEMMA TimeOutKeeps ==
  ASSUME IInv, NEW t \in Threads, TimeOut(t)
  PROVE  IInv'
<1> USE DEF IInv
<1>1. /\ raised' = raised \cup {t}
      /\ UNCHANGED <<kept, lockVars, halted, call, todo, calls, paramVars>>
  BY DEF TimeOut
<1>2. TypeOK'
  BY <1>1 DEF TypeOK, lockVars, paramVars
<1>3. Alone(hostDepth)' /\ Alone(luaDepth)' /\ DepthInv'
  BY <1>1 DEF Alone, DepthInv, lockVars
<1>4. TellInv' /\ ToldInv'
  BY <1>1 DEF TellInv, ToldInv, paramVars
<1> QED
  BY <1>2, <1>3, <1>4

LEMMA HaltKeeps ==
  ASSUME IInv, Halt
  PROVE  IInv'
<1> USE DEF IInv
<1>1. /\ halted' = ~halted
      /\ UNCHANGED <<kept, lockVars, call, todo, raised, calls, paramVars>>
  BY DEF Halt
<1>2. TypeOK'
  <2>1. halted' \in BOOLEAN
    BY <1>1 DEF TypeOK
  <2> QED
    BY <1>1, <2>1 DEF TypeOK, lockVars, paramVars
<1>3. Alone(hostDepth)' /\ Alone(luaDepth)' /\ DepthInv'
  BY <1>1 DEF Alone, DepthInv, lockVars
<1>4. TellInv' /\ ToldInv'
  BY <1>1 DEF TellInv, ToldInv, paramVars
<1> QED
  BY <1>2, <1>3, <1>4

\* a call that begins on an idle thread, and is to keep exlock n times
LEMMA BeginKeepingKeeps ==
  ASSUME IInv, NEW t \in Threads, NEW c \in CallNames \ {"none"}, NEW s \in Seq(Steps),
         NEW n \in Nat, Paired(s), \A l \in Nat : Runs(s, 0, l, 0, l + n, c \in ProgramCalls),
         BeginKeeping(t, c, s, n)
  PROVE  IInv'
<1>0. kept \in [Threads -> Nat] /\ kept[t] + n \in Nat
  <2>1. kept \in [Threads -> Nat]
    BY DEF IInv, TypeOK
  <2>2. \A k, m \in Nat : k + m \in Nat
    OBVIOUS
  <2> QED
    BY <2>1, <2>2, Zenon
<1> USE DEF IInv
<1>1. /\ call[t] = "none" /\ call' = [call EXCEPT ![t] = c]
      /\ todo' = [todo EXCEPT ![t] = s]
      /\ UNCHANGED <<lockVars, halted, raised, calls, paramVars>>
      /\ kept' = [kept EXCEPT ![t] = @ + n]
  BY DEF BeginKeeping, Idle
<1>2. /\ kept \in [Threads -> Nat] /\ kept' \in [Threads -> Nat]
      /\ kept'[t] = kept[t] + n /\ \A u \in Threads \ {t} : kept'[u] = kept[u]
  BY <1>0, <1>1
<1>3. /\ todo' \in [Threads -> Seq(Steps)] /\ call' \in [Threads -> CallNames]
      /\ todo'[t] = s /\ call'[t] = c
      /\ \A u \in Threads \ {t} : todo'[u] = todo[u] /\ call'[u] = call[u]
  BY <1>1, <1>2 DEF TypeOK, Steps
<1>4. TypeOK'
  BY <1>1, <1>2, <1>3 DEF TypeOK, Steps, lockVars, paramVars
<1>5. todo[t] = <<>> /\ hostDepth[t] = 0 /\ luaDepth[t] = kept[t]
  <2>1. /\ todo[t] = <<>> /\ hostDepth[t] \in Nat /\ luaDepth[t] \in Nat
        /\ Runs(<<>>, hostDepth[t], luaDepth[t], 0, kept[t], call[t] \in ProgramCalls)
    BY <1>1 DEF DepthInv, TypeOK
  <2> QED
    BY <2>1, RunsEmpty
<1>6. Alone(hostDepth)' /\ Alone(luaDepth)'
  BY <1>1 DEF Alone, lockVars
<1>7. DepthInv'
  <2>1. Runs(s, 0, kept[t], 0, kept[t] + n, c \in ProgramCalls)
    BY <1>2
  <2>2. /\ hostDepth' = hostDepth /\ luaDepth' = luaDepth /\ c # "none"
    BY <1>1 DEF lockVars
  <2>3. Runs(todo'[t], hostDepth'[t], luaDepth'[t], 0, kept'[t], call'[t] \in ProgramCalls)
    BY <1>2, <1>3, <1>5, <2>1, <2>2
  <2> QED
    BY <1>2, <1>3, <2>2, <2>3, DepthStep
<1>8. TellInv' /\ ToldInv'
  <2>1. telling[t] = "no"
    <3>1. telling[t] # "no" => \E k \in 1..Len(todo[t]) : Pending(todo[t], k)
      BY DEF TellInv
    <3>2. \A k \in 1..Len(<<>>) : FALSE
      OBVIOUS
    <3> QED
      BY <1>5, <3>1, <3>2
  <2>2. Paired(todo'[t])
    BY <1>3
  <2>3. UNCHANGED paramVars
    BY <1>1
  <2> QED
    BY <1>3, <2>1, <2>2, <2>3, TellPaired
<1> QED
  BY <1>4, <1>6, <1>7, <1>8

\* one that gives back what it takes, and one that does not
LEMMA BeginKeeps ==
  ASSUME IInv, NEW t \in Threads, NEW c \in CallNames \ {"none"}, NEW s,
         Fits(s, c \in ProgramCalls), Begin(t, c, s)
  PROVE  IInv'
<1>1. s \in Seq(Steps) /\ Paired(s)
  BY DEF Fits
<1>2. ASSUME NEW l \in Nat PROVE Runs(s, 0, l, 0, l + 0, c \in ProgramCalls)
  <2>1. 0 \in Nat /\ MayLock(0, l, c \in ProgramCalls) /\ l + 0 = l
    BY DEF MayLock
  <2> QED
    BY <2>1 DEF Fits
<1>3. BeginKeeping(t, c, s, 0) /\ 0 \in Nat
  BY DEF Begin
<1> QED
  BY <1>1, <1>2, <1>3, BeginKeepingKeeps

LEMMA ShiftEscapeKeeps ==
  ASSUME IInv, NEW t \in Threads, BeginKeeping(t, "callback", onShiftEscape, 1)
  PROVE  IInv'
<1> DEFINE x == LUA_LOCK  y == Script  s == <<x, y>>  p == "callback" \in ProgramCalls
<1>1. x \in Steps /\ x.op = "LUA_LOCK" /\ y \in Steps /\ y.op = "script"
  BY StepsOf, ValuesAssumption DEF Ops, OfValue
<1>2. ASSUME NEW l \in Nat PROVE s \in Seq(Steps) /\ Runs(s, 0, l, 0, l + 1, p)
  <2>1. 0 \in Nat /\ l + 1 \in Nat /\ l + 1 > 0 /\ MayLock(0, l, p)
    BY DEF MayLock
  <2>2. Moves(x, 0, l, 0, l + 1, p) /\ Moves(Step("script", 0), 0, l + 1, 0, l + 1, p)
    BY <2>1, StepMoves, ValuesAssumption
  <2>3. Moves(y, 0, l + 1, 0, l + 1, p)
    BY <2>2 DEF Script
  <2> HIDE DEF x, y, p
  <2> QED
    BY <2>1, <2>2, <2>3, RunsTwo
<1> HIDE DEF x, y
<1>3. s \in Seq(Steps) /\ \A k \in 1..Len(s) : s[k].op \in {"LUA_LOCK", "script"}
  BY <1>1
<1>4. onShiftEscape = s
  BY DEF onShiftEscape, x, y
<1> HIDE DEF s
<1>5. Paired(s)
  BY <1>3, PairedWithout
<1>6. "callback" \in CallNames \ {"none"} /\ 1 \in Nat
  BY DEF CallNames, ProgramCalls
<1> QED
  BY <1>2, <1>3, <1>4, <1>5, <1>6, BeginKeepingKeeps

LEMMA ReturnKeeps ==
  ASSUME IInv, NEW t \in Threads, Return(t)
  PROVE  IInv'
<1> USE DEF IInv
<1>1. /\ todo[t] = <<>> /\ call' = [call EXCEPT ![t] = "none"]
      /\ calls' = [calls EXCEPT ![t] = 0]
      /\ UNCHANGED <<kept, lockVars, halted, todo, raised, paramVars>>
  BY DEF Return
<1>2. /\ call' \in [Threads -> CallNames] /\ calls' \in [Threads -> 0..MaxCalls]
      /\ call'[t] = "none" /\ \A u \in Threads \ {t} : call'[u] = call[u]
  BY <1>1, CallsAssumption DEF TypeOK, CallNames
<1>3. TypeOK'
  BY <1>1, <1>2 DEF TypeOK, lockVars, paramVars
<1>4. Alone(hostDepth)' /\ Alone(luaDepth)'
  BY <1>1 DEF Alone, lockVars
<1>5. DepthInv'
  <2>1. /\ hostDepth[t] \in Nat /\ luaDepth[t] \in Nat
        /\ Runs(<<>>, hostDepth[t], luaDepth[t], 0, kept[t], call[t] \in ProgramCalls)
    BY <1>1 DEF DepthInv, TypeOK
  <2>2. hostDepth[t] = 0 /\ luaDepth[t] = kept[t]
    BY <2>1, RunsEmpty
  <2>3. Runs(<<>>, 0, kept[t], 0, kept[t], "none" \in ProgramCalls)
    BY <2>1, <2>2, RunsEmpty
  <2>4. hostDepth' = hostDepth /\ luaDepth' = luaDepth /\ todo' = todo
    BY <1>1 DEF lockVars
  <2>5. Runs(todo'[t], hostDepth'[t], luaDepth'[t], 0, kept'[t], call'[t] \in ProgramCalls)
    BY <1>1, <1>2, <2>2, <2>3, <2>4
  <2> QED
    BY <1>1, <1>2, <2>4, <2>5, DepthStep
<1>6. TellInv' /\ ToldInv'
  BY <1>1 DEF TellInv, ToldInv, paramVars
<1> QED
  BY <1>3, <1>4, <1>5, <1>6

\* what a script or the host puts in front, or a test skips
LEMMA GotoKeeps ==
  ASSUME IInv, NEW t \in Threads, NEW s \in Seq(Steps), Goto(t, s), todo[t] # <<>>,
         UNCHANGED <<kept, lockVars, halted, call, raised, paramVars>>,
         calls' \in [Threads -> 0..MaxCalls],
         Runs(s, hostDepth[t], luaDepth[t], 0, kept[t], call[t] \in ProgramCalls),
         telling[t] = "no", Paired(s)
  PROVE  IInv'
<1> USE DEF IInv
<1>1. /\ todo' \in [Threads -> Seq(Steps)] /\ todo'[t] = s
      /\ \A u \in Threads \ {t} : todo'[u] = todo[u]
  BY DEF Goto, TypeOK, Steps
<1>2. TypeOK'
  BY <1>1 DEF TypeOK, Steps, lockVars, paramVars
<1>3. Alone(hostDepth)' /\ Alone(luaDepth)'
  BY DEF Alone, lockVars
<1>4. DepthInv'
  <2>1. call[t] # "none"
    BY DEF DepthInv
  <2>2. hostDepth' = hostDepth /\ luaDepth' = luaDepth /\ call' = call
    BY DEF lockVars
  <2>3. Runs(todo'[t], hostDepth'[t], luaDepth'[t], 0, kept'[t], call'[t] \in ProgramCalls)
    BY <1>1, <2>2
  <2> QED
    BY <1>1, <2>1, <2>2, <2>3, DepthStep
<1>5. TellInv' /\ ToldInv'
  <2>1. UNCHANGED paramVars /\ Paired(todo'[t])
    BY <1>1
  <2> QED
    BY <1>1, <2>1, TellPaired
<1> QED
  BY <1>2, <1>3, <1>4, <1>5

\* what is known of the list of a thread
LEMMA ListOf ==
  ASSUME IInv, NEW t \in Threads, todo[t] # <<>>
  PROVE  /\ todo[t] \in Seq(Steps) /\ TellList(todo[t], telling[t])
         /\ Runs(todo[t], hostDepth[t], luaDepth[t], 0, kept[t], call[t] \in ProgramCalls)
         /\ hostDepth[t] \in Nat /\ luaDepth[t] \in Nat /\ call[t] # "none"
         /\ telling[t] = "alone" =>
               /\ \A k \in 1..Len(todo[t]) : Pending(todo[t], k) => todo[t][k].value = param
               /\ \A u \in Threads \ {t} : telling[u] = "no"
BY TellInvParts DEF IInv, TypeOK, Steps, DepthInv, ValueInv

LEMMA TestHaltedKeeps ==
  ASSUME IInv, NEW t \in Threads, TestHalted(t)
  PROVE  IInv'
<1> DEFINE s == todo[t]
           v == IF halted THEN Value(t) ELSE 0
           r == SubSeq(s, v + 2, Len(s))
           p == call[t] \in ProgramCalls
<1>1. /\ At(t, "if(!halted)") /\ Goto(t, r)
      /\ UNCHANGED <<kept, lockVars, halted, call, raised, calls, paramVars>>
  BY DEF TestHalted
<1>2. /\ s \in Seq(Steps) /\ s # <<>> /\ s[1].op = "if(!halted)" /\ Len(s) \in Nat \ {0}
      /\ Value(t) = s[1].value /\ Value(t) \in Nat /\ Tail(s) \in Seq(Steps)
  BY <1>1, HeadOf DEF IInv
<1>3. Runs(s, hostDepth[t], luaDepth[t], 0, kept[t], p) /\ TellList(s, telling[t])
  BY <1>2, ListOf
<1>4. telling[t] = "no" /\ Paired(s)
  <2> HIDE DEF s
  <2> QED
    BY <1>2, <1>3, NothingPending
<1>5. /\ Runs(Tail(s), hostDepth[t], luaDepth[t], 0, kept[t], p)
      /\ s[1].value + 1 <= Len(s)
      /\ \A j \in 2..(s[1].value + 1) : s[j].op \in Skipped
      /\ Runs(SubSeq(s, s[1].value + 2, Len(s)), hostDepth[t], luaDepth[t], 0, kept[t], p)
  <2>1. /\ Runs(Tail(s), After(s[1].op, "HOST_LOCK", "HOST_UNLOCK", hostDepth[t]),
                After(s[1].op, "LUA_LOCK", "LUA_UNLOCK", luaDepth[t]), 0, kept[t], p)
        /\ s[1].value + 1 <= Len(s)
        /\ \A j \in 2..(s[1].value + 1) : s[j].op \in Skipped
        /\ Runs(SubSeq(s, s[1].value + 2, Len(s)), hostDepth[t], luaDepth[t], 0, kept[t], p)
    <3> HIDE DEF s, p
    <3> QED
      BY <1>2, <1>3, RunsOn
  <2> HIDE DEF s, p
  <2> QED
    BY <1>2, <2>1 DEF After
<1>6. v \in Nat /\ v + 1 \in 1..Len(s) /\ v + 2 = (v + 1) + 1
  BY <1>2, <1>5
<1>7. \A j \in 1..(v + 1) : s[j].op # "set"
  <2>1. ASSUME NEW j \in 1..(v + 1) PROVE s[j].op # "set"
    <3>1. CASE j = 1
      BY <1>2, <3>1
    <3>2. CASE j # 1
      <4>1. j \in 2..(s[1].value + 1)
        BY <1>2, <1>6, <3>2
      <4> QED
        BY <1>5, <4>1 DEF Skipped
    <3> QED
      BY <3>1, <3>2
  <2> QED
    BY <2>1
<1>8. /\ r \in Seq(Steps) /\ Len(r) = Len(s) - (v + 1)
      /\ \A k \in 1..Len(r) : r[k] = s[(v + 1) + k]
  <2> DEFINE n == v + 1
  <2>1. n \in Nat /\ n <= Len(s) /\ r = SubSeq(s, n + 1, Len(s))
    <3> HIDE DEF v, s
    <3> QED
      BY <1>2, <1>6 DEF r
  <2> HIDE DEF n, s, r
  <2>2. /\ r \in Seq(Steps) /\ Len(r) = Len(s) - n
        /\ \A k \in 1..(Len(s) - n) : r[k] = s[n + k]
    BY <1>2, <2>1, Later
  <2> QED
    BY <2>2 DEF n
<1>9. Paired(r)
  <2>1. /\ \A k \in 1..Len(s) : SetsAt(s, k)
        /\ \A k \in 1..Len(s) : s[k].op = "tell" => ToldAfterSet(s, k)
    BY <1>4 DEF Paired
  <2> DEFINE n == v + 1
  <2>2. n \in 1..Len(s) /\ \A j \in 1..n : s[j].op # "set"
    BY <1>6, <1>7
  <2>3. Len(r) = Len(s) - n /\ \A k \in 1..Len(r) : r[k] = s[n + k]
    BY <1>8
  <2> HIDE DEF n, s, r
  <2> QED
    BY <1>2, <1>8, <2>1, <2>2, <2>3, PairedFrom
<1>10. Runs(r, hostDepth[t], luaDepth[t], 0, kept[t], p)
  <2>1. CASE halted
    BY <1>2, <1>5, <2>1
  <2>2. CASE ~halted
    <3>1. v = 0
      BY <2>2
    <3>2. Len(Tail(s)) = Len(s) - 1 /\ \A k \in 1..Len(Tail(s)) : Tail(s)[k] = s[k + 1]
      BY <1>2, Rest
    <3>3. Len(r) = Len(s) - 1 /\ \A k \in 1..Len(r) : r[k] = s[k + 1]
      <4> HIDE DEF v, r
      <4> QED
        BY <1>2, <1>8, <3>1
    <3>4. r = Tail(s)
      <4> HIDE DEF s, v, r
      <4>1. Len(r) = Len(Tail(s)) /\ \A k \in 1..Len(r) : r[k] = Tail(s)[k]
        BY <3>2, <3>3
      <4> QED
        BY <1>2, <1>8, <4>1, SeqEqual
    <3> QED
      BY <1>5, <3>4
  <2> QED
    BY <2>1, <2>2
<1>11. calls' \in [Threads -> 0..MaxCalls]
  BY <1>1 DEF IInv, TypeOK
<1>12. UNCHANGED <<kept, lockVars, halted, call, raised, paramVars>>
  BY <1>1
<1> HIDE DEF v, r
<1> QED
  BY <1>1, <1>2, <1>4, <1>8, <1>9, <1>10, <1>11, <1>12, GotoKeeps

\* inside the script: exlock is held, and nothing waits to be told
LEMMA InScript ==
  ASSUME IInv, NEW t \in Threads, NEW o \in {"script", "setParameterAutomated"}, At(t, o)
  PROVE  /\ todo[t] \in Seq(Steps) /\ todo[t] # <<>> /\ todo[t][1].op = o
         /\ Value(t) = todo[t][1].value
         /\ telling[t] = "no" /\ Paired(todo[t])
         /\ Tail(todo[t]) \in Seq(Steps) /\ Paired(Tail(todo[t]))
         /\ hostDepth[t] \in Nat /\ luaDepth[t] \in Nat /\ luaDepth[t] > 0
         /\ Runs(todo[t], hostDepth[t], luaDepth[t], 0, kept[t], call[t] \in ProgramCalls)
         /\ Runs(Tail(todo[t]), hostDepth[t], luaDepth[t], 0, kept[t], call[t] \in ProgramCalls)
<1> DEFINE s == todo[t]  p == call[t] \in ProgramCalls
<1>1. /\ s \in Seq(Steps) /\ s # <<>> /\ s[1].op = o /\ Tail(s) \in Seq(Steps)
      /\ Value(t) = s[1].value
  BY HeadOf DEF IInv
<1>2. /\ Runs(s, hostDepth[t], luaDepth[t], 0, kept[t], p) /\ TellList(s, telling[t])
      /\ hostDepth[t] \in Nat /\ luaDepth[t] \in Nat
  BY <1>1, ListOf
<1> HIDE DEF s, p
<1>3. telling[t] = "no" /\ Paired(s)
  BY <1>1, <1>2, NothingPending
<1>4. Paired(Tail(s))
  BY <1>1, <1>3, PairedTail
<1>5. /\ luaDepth[t] > 0
      /\ Runs(Tail(s), After(s[1].op, "HOST_LOCK", "HOST_UNLOCK", hostDepth[t]),
              After(s[1].op, "LUA_LOCK", "LUA_UNLOCK", luaDepth[t]), 0, kept[t], p)
  BY <1>1, <1>2, RunsOn
<1>6. Runs(Tail(s), hostDepth[t], luaDepth[t], 0, kept[t], p)
  BY <1>1, <1>5 DEF After
<1> QED
  BY <1>1, <1>2, <1>3, <1>4, <1>5, <1>6 DEF s, p

LEMMA ScriptReturnsKeeps ==
  ASSUME IInv, NEW t \in Threads, ScriptReturns(t)
  PROVE  IInv'
<1>1. /\ At(t, "script") /\ Goto(t, Tail(todo[t]))
      /\ UNCHANGED <<kept, lockVars, halted, call, raised, calls, paramVars>>
  BY DEF ScriptReturns, Continue
<1>2. calls' \in [Threads -> 0..MaxCalls]
  BY <1>1 DEF IInv, TypeOK
<1>3. UNCHANGED <<kept, lockVars, halted, call, raised, paramVars>>
  BY <1>1
<1> QED
  BY <1>1, <1>2, <1>3, InScript, GotoKeeps

LEMMA ScriptCallsKeeps ==
  ASSUME IInv, NEW t \in Threads, NEW s \in Seq(Steps), Paired(s),
         \A h, l \in Nat, b \in BOOLEAN : l > 0 => Runs(s, h, l, h, l, b),
         ScriptCalls(t, s)
  PROVE  IInv'
<1> DEFINE q == todo[t]  p == call[t] \in ProgramCalls
<1>1. /\ At(t, "script") /\ calls[t] < MaxCalls /\ calls' = [calls EXCEPT ![t] = @ + 1]
      /\ Goto(t, s \o q)
      /\ UNCHANGED <<kept, lockVars, halted, call, raised, paramVars>>
  BY DEF ScriptCalls
<1>2. /\ q \in Seq(Steps) /\ q # <<>> /\ telling[t] = "no" /\ Paired(q)
      /\ hostDepth[t] \in Nat /\ luaDepth[t] \in Nat /\ luaDepth[t] > 0
      /\ Runs(q, hostDepth[t], luaDepth[t], 0, kept[t], p)
  BY <1>1, InScript
<1>3. calls' \in [Threads -> 0..MaxCalls]
  BY <1>1, CallsAssumption DEF IInv, TypeOK
<1>4. p \in BOOLEAN
  OBVIOUS
<1> HIDE DEF p
<1>5. Runs(s, hostDepth[t], luaDepth[t], hostDepth[t], luaDepth[t], p)
  BY <1>2, <1>4
<1>6. /\ s \o q \in Seq(Steps) /\ Runs(s \o q, hostDepth[t], luaDepth[t], 0, kept[t], p)
  BY <1>2, <1>5, RunsJoined
<1>7. Paired(s \o q)
  BY <1>2, PairedJoined
<1> QED
  BY <1>1, <1>2, <1>3, <1>6, <1>7, GotoKeeps DEF p

LEMMA HostAnswersKeeps ==
  ASSUME IInv, NEW t \in Threads, HostAnswers(t)
  PROVE  IInv'
<1>1. /\ At(t, "setParameterAutomated")
      /\ UNCHANGED <<kept, lockVars, halted, call, raised, calls, paramVars>>
  BY DEF HostAnswers
<1>2. PICK s \in {<<>>, setParameter(Value(t))} : Goto(t, s \o Tail(todo[t]))
  BY DEF HostAnswers
<1> DEFINE q == Tail(todo[t])  p == call[t] \in ProgramCalls
<1>3. /\ q \in Seq(Steps) /\ todo[t] # <<>> /\ telling[t] = "no" /\ Paired(q)
      /\ hostDepth[t] \in Nat /\ luaDepth[t] \in Nat /\ luaDepth[t] > 0
      /\ Runs(q, hostDepth[t], luaDepth[t], 0, kept[t], p)
  BY <1>1, InScript
<1>4. calls' \in [Threads -> 0..MaxCalls]
  BY <1>1 DEF IInv, TypeOK
<1>5. UNCHANGED <<kept, lockVars, halted, call, raised, paramVars>>
  BY <1>1
<1> HIDE DEF p
<1>6. CASE s = <<>>
  <2>1. s \o q = q
    <3> HIDE DEF q
    <3> QED
      BY <1>3, <1>6
  <2> QED
    BY <1>2, <1>3, <1>4, <1>5, <2>1, GotoKeeps DEF p
<1>7. CASE s = setParameter(Value(t))
  <2>1. Fits(s, p)
    <3>1. Value(t) \in Values
      <4>1. "setParameterAutomated" \in OfValue
        BY DEF OfValue
      <4> QED
        BY <1>1, <4>1, HeadOf DEF IInv
    <3> QED
      BY <1>7, <3>1, setParameterFits
  <2>2. s \in Seq(Steps) /\ Paired(s) /\ Runs(s, hostDepth[t], luaDepth[t], hostDepth[t], luaDepth[t], p)
    BY <1>3, <2>1 DEF Fits, MayLock
  <2> HIDE DEF q
  <2>3. s \o q \in Seq(Steps) /\ Runs(s \o q, hostDepth[t], luaDepth[t], 0, kept[t], p)
    BY <1>3, <2>2, RunsJoined
  <2>4. Paired(s \o q)
    BY <1>3, <2>2, PairedJoined
  <2> QED
    BY <1>2, <1>3, <1>4, <1>5, <2>3, <2>4, GotoKeeps DEF p, q
<1> QED
  BY <1>6, <1>7

(* The three actions that the parameter is about.                          *)
LEMMA SetValueKeeps ==
  ASSUME IInv, NEW t \in Threads, SetValue(t)
  PROVE  IInv'
<1> DEFINE s == todo[t]
           tl == IF Telling(t) = {} THEN "alone" ELSE "mixed"
<1>1. /\ At(t, "set") /\ Continue(t) /\ param' = Value(t)
      /\ telling' = [Overtaken(t) EXCEPT ![t] = tl]
      /\ UNCHANGED <<kept, lockVars, halted, call, raised, calls, told, mixed>>
  BY DEF SetValue
<1>2. /\ s \in Seq(Steps) /\ s # <<>> /\ s[1].op = "set" /\ Tail(s) \in Seq(Steps)
      /\ Value(t) = s[1].value /\ Value(t) \in Values
  <2>1. "set" \in OfValue
    BY DEF OfValue
  <2> QED
    BY <1>1, <2>1, HeadOf DEF IInv
<1>3. TellList(s, telling[t])
  BY <1>2, ListOf
<1>4. telling[t] = "no" /\ Paired(s)
  <2> HIDE DEF s
  <2> QED
    BY <1>2, <1>3, NothingPending
<1>5. /\ todo' \in [Threads -> Seq(Steps)] /\ todo'[t] = Tail(s)
      /\ \A u \in Threads \ {t} : todo'[u] = todo[u]
  BY <1>1, <1>2 DEF Continue, Goto, IInv, TypeOK
<1>6. tl \in {"alone", "mixed"}
  OBVIOUS
<1>7. telling \in [Threads -> {"no", "alone", "mixed"}]
  BY DEF IInv, TypeOK
<1>8. /\ telling' \in [Threads -> {"no", "alone", "mixed"}] /\ telling'[t] = tl
      /\ \A u \in Threads \ {t} :
            telling'[u] = IF telling[u] # "no" THEN "mixed" ELSE "no"
  <2>1. Overtaken(t) \in [Threads -> {"no", "alone", "mixed"}]
    BY <1>7 DEF Overtaken
  <2>2. \A u \in Threads \ {t} :
           Overtaken(t)[u] = IF telling[u] # "no" THEN "mixed" ELSE "no"
    BY <1>7 DEF Overtaken, Telling
  <2> HIDE DEF tl
  <2> QED
    BY <1>1, <1>6, <2>1, <2>2
<1>9. TypeOK'
  BY <1>1, <1>2, <1>5, <1>8 DEF IInv, TypeOK, lockVars
<1>10. Alone(hostDepth)' /\ Alone(luaDepth)'
  BY <1>1 DEF IInv, Alone, lockVars
<1>11. DepthInv'
  <2>1. /\ hostDepth'[t] = After(s[1].op, "HOST_LOCK", "HOST_UNLOCK", hostDepth[t])
        /\ luaDepth'[t] = After(s[1].op, "LUA_LOCK", "LUA_UNLOCK", luaDepth[t])
        /\ \A u \in Threads \ {t} : hostDepth'[u] = hostDepth[u] /\ luaDepth'[u] = luaDepth[u]
        /\ call' = call
    BY <1>1, <1>2 DEF After, lockVars
  <2> QED
    BY <1>1, <1>2, <2>1, DepthContinue DEF IInv
<1>12. /\ TellList(Tail(s), tl)
       /\ \A k \in 1..Len(Tail(s)) : Pending(Tail(s), k) => Tail(s)[k].value = s[1].value
  <2> HIDE DEF s, tl
  <2> QED
    BY <1>2, <1>4, <1>6, SetTail
<1>13. \A u \in Threads : TellList(todo'[u], telling'[u])
  <2> SUFFICES ASSUME NEW u \in Threads PROVE TellList(todo'[u], telling'[u])
    OBVIOUS
  <2>1. CASE u = t
    BY <1>5, <1>8, <1>12, <2>1
  <2>2. CASE u # t
    <3>1. TellList(todo[u], telling[u])
      BY TellInvParts DEF IInv
    <3>2. todo'[u] = todo[u] /\ (telling'[u] = "no" <=> telling[u] = "no")
      BY <1>5, <1>8, <2>2
    <3> QED
      BY <3>1, <3>2 DEF TellList
  <2> QED
    BY <2>1, <2>2
<1>14. ValueInv'
  <2> SUFFICES ASSUME NEW u \in Threads, telling'[u] = "alone"
               PROVE  /\ \A k \in 1..Len(todo'[u]) :
                            Pending(todo'[u], k) => todo'[u][k].value = param'
                      /\ \A w \in Threads \ {u} : telling'[w] = "no"
    BY DEF ValueInv
  <2>1. u = t
    BY <1>8
  <2>2. Telling(t) = {}
    BY <1>8, <2>1
  <2>3. \A w \in Threads \ {t} : telling[w] = "no"
    BY <2>2 DEF Telling
  <2>4. \A w \in Threads \ {t} : telling'[w] = "no"
    BY <1>8, <2>3
  <2>5. \A k \in 1..Len(todo'[t]) : Pending(todo'[t], k) => todo'[t][k].value = param'
    BY <1>1, <1>2, <1>5, <1>12
  <2> QED
    BY <2>1, <2>4, <2>5
<1>15. TellInv'
  BY <1>13, <1>14 DEF TellInv, TellList, ValueInv
<1>16. ToldInv'
  BY <1>6, <1>8 DEF ToldInv
<1> QED
  BY <1>9, <1>10, <1>11, <1>15, <1>16 DEF IInv

LEMMA SetByScriptKeeps ==
  ASSUME IInv, NEW t \in Threads, SetByScript(t)
  PROVE  IInv'
<1> DEFINE s == todo[t]
<1>1. /\ At(t, "setByScript") /\ Continue(t) /\ param' = Value(t) /\ told' = Value(t)
      /\ telling' = Overtaken(t)
      /\ UNCHANGED <<kept, lockVars, halted, call, raised, calls, mixed>>
  BY DEF SetByScript
<1>2. /\ s \in Seq(Steps) /\ s # <<>> /\ s[1].op = "setByScript" /\ Tail(s) \in Seq(Steps)
      /\ Value(t) \in Values
  <2>1. "setByScript" \in OfValue
    BY DEF OfValue
  <2> QED
    BY <1>1, <2>1, HeadOf DEF IInv
<1>3. TellList(s, telling[t])
  BY <1>2, ListOf
<1>4. telling[t] = "no" /\ Paired(Tail(s))
  <2> HIDE DEF s
  <2>1. telling[t] = "no" /\ Paired(s)
    BY <1>2, <1>3, NothingPending
  <2> QED
    BY <1>2, <2>1, PairedTail
<1>5. /\ todo' \in [Threads -> Seq(Steps)] /\ todo'[t] = Tail(s)
      /\ \A u \in Threads \ {t} : todo'[u] = todo[u]
  BY <1>1, <1>2 DEF Continue, Goto, IInv, TypeOK
<1>6. /\ telling' \in [Threads -> {"no", "alone", "mixed"}] /\ telling'[t] = "no"
      /\ \A u \in Threads \ {t} :
            telling'[u] = IF telling[u] # "no" THEN "mixed" ELSE "no"
  <2>1. telling \in [Threads -> {"no", "alone", "mixed"}]
    BY DEF IInv, TypeOK
  <2>2. t \notin Telling(t)
    BY DEF Telling
  <2>3. Overtaken(t) \in [Threads -> {"no", "alone", "mixed"}]
    BY <2>1 DEF Overtaken
  <2>4. Overtaken(t)[t] = "no"
    BY <1>4, <2>2 DEF Overtaken
  <2>5. \A u \in Threads \ {t} :
           Overtaken(t)[u] = IF telling[u] # "no" THEN "mixed" ELSE "no"
    BY <2>1 DEF Overtaken, Telling
  <2> QED
    BY <1>1, <2>3, <2>4, <2>5
<1>7. TypeOK'
  BY <1>1, <1>2, <1>5, <1>6 DEF IInv, TypeOK, lockVars
<1>8. Alone(hostDepth)' /\ Alone(luaDepth)'
  BY <1>1 DEF IInv, Alone, lockVars
<1>9. DepthInv'
  <2>1. /\ hostDepth'[t] = After(s[1].op, "HOST_LOCK", "HOST_UNLOCK", hostDepth[t])
        /\ luaDepth'[t] = After(s[1].op, "LUA_LOCK", "LUA_UNLOCK", luaDepth[t])
        /\ \A u \in Threads \ {t} : hostDepth'[u] = hostDepth[u] /\ luaDepth'[u] = luaDepth[u]
        /\ call' = call
    BY <1>1, <1>2 DEF After, lockVars
  <2> QED
    BY <1>1, <1>2, <2>1, DepthContinue DEF IInv
<1>10. \A u \in Threads : TellList(todo'[u], telling'[u])
  <2> SUFFICES ASSUME NEW u \in Threads PROVE TellList(todo'[u], telling'[u])
    OBVIOUS
  <2>1. CASE u = t
    BY <1>4, <1>5, <1>6, <2>1, PairedIsTellList
  <2>2. CASE u # t
    <3>1. TellList(todo[u], telling[u])
      BY TellInvParts DEF IInv
    <3>2. todo'[u] = todo[u] /\ (telling'[u] = "no" <=> telling[u] = "no")
      BY <1>5, <1>6, <2>2
    <3> QED
      BY <3>1, <3>2 DEF TellList
  <2> QED
    BY <2>1, <2>2
<1>11. ValueInv'
  BY <1>6 DEF ValueInv
<1>12. TellInv'
  BY <1>10, <1>11 DEF TellInv, TellList, ValueInv
<1>13. ToldInv'
  BY <1>1 DEF ToldInv
<1> QED
  BY <1>7, <1>8, <1>9, <1>12, <1>13 DEF IInv

LEMMA TellKeeps ==
  ASSUME IInv, NEW t \in Threads, Tell(t)
  PROVE  IInv'
<1> DEFINE s == todo[t]  p == call[t] \in ProgramCalls
           r == IF halted THEN Tail(s) ELSE <<Script>> \o Tail(s)
<1>1. /\ At(t, "tell") /\ Goto(t, r)
      /\ halted => mixed' = TRUE /\ told' = told
      /\ ~halted => told' = Value(t) /\ mixed' = (telling[t] = "mixed")
      /\ telling' = [telling EXCEPT ![t] = "no"]
      /\ UNCHANGED <<kept, lockVars, halted, call, raised, calls, param>>
  BY DEF Tell, Continue, Goto
<1>2. /\ s \in Seq(Steps) /\ s # <<>> /\ s[1].op = "tell" /\ Tail(s) \in Seq(Steps)
      /\ Value(t) = s[1].value /\ Value(t) \in Values
  <2>1. "tell" \in OfValue
    BY DEF OfValue
  <2> QED
    BY <1>1, <2>1, HeadOf DEF IInv
<1>3. /\ TellList(s, telling[t]) /\ Runs(s, hostDepth[t], luaDepth[t], 0, kept[t], p)
      /\ hostDepth[t] \in Nat /\ luaDepth[t] \in Nat /\ call[t] # "none"
      /\ telling[t] = "alone" =>
            /\ \A k \in 1..Len(s) : Pending(s, k) => s[k].value = param
            /\ \A u \in Threads \ {t} : telling[u] = "no"
  BY <1>2, ListOf
<1>4. telling[t] # "no" /\ 1 \in 1..Len(s) /\ Pending(s, 1) /\ Paired(Tail(s))
  <2> HIDE DEF s
  <2> QED
    BY <1>2, <1>3, TellTail
<1>5. luaDepth[t] > 0 /\ Runs(Tail(s), hostDepth[t], luaDepth[t], 0, kept[t], p)
  <2>1. /\ luaDepth[t] > 0
        /\ Runs(Tail(s), After(s[1].op, "HOST_LOCK", "HOST_UNLOCK", hostDepth[t]),
                After(s[1].op, "LUA_LOCK", "LUA_UNLOCK", luaDepth[t]), 0, kept[t], p)
    <3> HIDE DEF s, p
    <3> QED
      BY <1>2, <1>3, RunsOn
  <2> HIDE DEF s, p
  <2> QED
    BY <1>2, <2>1 DEF After
<1>6. r \in Seq(Steps) /\ Paired(r) /\ Runs(r, hostDepth[t], luaDepth[t], 0, kept[t], p)
  <2>1. CASE halted
    BY <1>2, <1>4, <1>5, <2>1
  <2>2. CASE ~halted
    <3> DEFINE x == Script  q == Tail(s)
    <3>1. 0 \in Values
      BY ValuesAssumption
    <3>2. Moves(Step("script", 0), hostDepth[t], luaDepth[t], hostDepth[t], luaDepth[t], p)
      BY <1>3, <1>5, <3>1, StepMoves
    <3>3. Moves(x, hostDepth[t], luaDepth[t], hostDepth[t], luaDepth[t], p)
      BY <3>2 DEF Script
    <3>4. x \in Steps /\ x.op = "script"
      BY StepsOf, ValuesAssumption DEF Ops, OfValue
    <3> HIDE DEF x, q, s, p
    <3>5. <<x>> \in Seq(Steps) /\ Runs(<<x>>, hostDepth[t], luaDepth[t], hostDepth[t], luaDepth[t], p)
      BY <1>3, <3>3, RunsOne
    <3>6. \A k \in 1..Len(<<x>>) : <<x>>[k].op # "set" /\ <<x>>[k].op # "tell"
      BY <3>4
    <3>7. Paired(<<x>>)
      BY <3>5, <3>6, PairedWithout
    <3>8. q \in Seq(Steps) /\ Paired(q) /\ Runs(q, hostDepth[t], luaDepth[t], 0, kept[t], p)
      BY <1>2, <1>4, <1>5 DEF q
    <3>9. <<x>> \o q \in Seq(Steps) /\ Runs(<<x>> \o q, hostDepth[t], luaDepth[t], 0, kept[t], p)
      BY <3>5, <3>8, RunsJoined
    <3>10. Paired(<<x>> \o q)
      BY <3>5, <3>7, <3>8, PairedJoined
    <3>11. r = <<x>> \o q
      BY <2>2 DEF x, q
    <3> QED
      BY <3>9, <3>10, <3>11
  <2> QED
    BY <2>1, <2>2
<1> HIDE DEF r
<1>7. /\ todo' \in [Threads -> Seq(Steps)] /\ todo'[t] = r
      /\ \A u \in Threads \ {t} : todo'[u] = todo[u]
  BY <1>1, <1>6 DEF Goto, IInv, TypeOK
<1>8. /\ telling' \in [Threads -> {"no", "alone", "mixed"}] /\ telling'[t] = "no"
      /\ \A u \in Threads \ {t} : telling'[u] = telling[u]
  BY <1>1 DEF IInv, TypeOK
<1>9. TypeOK'
  <2>1. mixed' \in BOOLEAN
    <3>1. CASE halted
      BY <1>1, <3>1
    <3>2. CASE ~halted
      <4>1. mixed' = (telling[t] = "mixed")
        BY <1>1, <3>2
      <4> QED
        BY <4>1
    <3> QED
      BY <3>1, <3>2
  <2>2. told' \in Values
    BY <1>1, <1>2 DEF IInv, TypeOK
  <2>3. UNCHANGED <<kept, hostDepth, luaDepth, halted, call, raised, calls, param>>
    BY <1>1 DEF lockVars
  <2> QED
    BY <1>7, <1>8, <2>1, <2>2, <2>3 DEF IInv, TypeOK
<1>10. Alone(hostDepth)' /\ Alone(luaDepth)'
  BY <1>1 DEF IInv, Alone, lockVars
<1>11. DepthInv'
  <2>1. UNCHANGED <<hostDepth, luaDepth, kept, call>>
    BY <1>1 DEF lockVars
  <2>2. Runs(todo'[t], hostDepth'[t], luaDepth'[t], 0, kept'[t], call'[t] \in ProgramCalls)
    BY <1>6, <1>7, <2>1
  <2>3. call'[t] # "none"
    BY <1>3, <2>1
  <2> QED
    BY <1>7, <2>1, <2>2, <2>3, DepthStep DEF IInv
<1>12. \A u \in Threads : TellList(todo'[u], telling'[u])
  <2> SUFFICES ASSUME NEW u \in Threads PROVE TellList(todo'[u], telling'[u])
    OBVIOUS
  <2>1. CASE u = t
    BY <1>6, <1>7, <1>8, <2>1, PairedIsTellList
  <2>2. CASE u # t
    <3>1. TellList(todo[u], telling[u])
      BY TellInvParts DEF IInv
    <3> QED
      BY <1>7, <1>8, <2>2, <3>1
  <2> QED
    BY <2>1, <2>2
<1>13. ValueInv'
  <2> SUFFICES ASSUME NEW u \in Threads, telling'[u] = "alone"
               PROVE  /\ \A k \in 1..Len(todo'[u]) :
                            Pending(todo'[u], k) => todo'[u][k].value = param'
                      /\ \A w \in Threads \ {u} : telling'[w] = "no"
    BY DEF ValueInv
  <2>1. u # t /\ telling[u] = "alone"
    BY <1>8
  <2>2. ValueInv
    BY TellInvParts DEF IInv
  <2>3. FALSE
    BY <1>4, <2>1, <2>2 DEF ValueInv
  <2> QED
    BY <2>3
<1>14. TellInv'
  BY <1>12, <1>13 DEF TellInv, TellList, ValueInv
<1>15. ToldInv'
  <2> SUFFICES ASSUME \A u \in Threads : telling'[u] = "no"
               PROVE  param' = told' \/ mixed'
    BY DEF ToldInv
  <2>1. CASE halted
    BY <1>1, <2>1
  <2>2. CASE ~halted /\ telling[t] = "mixed"
    BY <1>1, <2>2
  <2>3. CASE ~halted /\ telling[t] # "mixed"
    <3>1. telling[t] = "alone"
      BY <1>4, <2>3 DEF IInv, TypeOK
    <3>2. s[1].value = param
      BY <1>3, <1>4, <3>1
    <3> QED
      BY <1>1, <1>2, <2>3, <3>2
  <2> QED
    BY <2>1, <2>2, <2>3
<1> QED
  BY <1>9, <1>10, <1>11, <1>14, <1>15 DEF IInv

LEMMA HostCallsKeeps ==
  ASSUME IInv, NEW t \in Threads, HostCalls(t)
  PROVE  IInv'
<1>1. /\ "setParameter" \in CallNames \ {"none"} /\ "setProgram" \in CallNames \ {"none"}
      /\ "setProgramNoSave" \in CallNames \ {"none"} /\ "getChunk" \in CallNames \ {"none"}
      /\ "settings" \in CallNames \ {"none"} /\ "callback" \in CallNames \ {"none"}
  BY DEF CallNames, ProgramCalls
<1>2. /\ ("setProgram" \in ProgramCalls) = TRUE /\ ("setProgramNoSave" \in ProgramCalls) = TRUE
      /\ ("getChunk" \in ProgramCalls) = TRUE
  BY DEF ProgramCalls
<1>3. ASSUME NEW v \in Values, Begin(t, "setParameter", setParameter(v)) PROVE IInv'
  <2>1. Fits(setParameter(v), "setParameter" \in ProgramCalls)
    BY setParameterFits
  <2> QED
    BY <1>1, <1>3, <2>1, BeginKeeps
<1>4. ASSUME NEW v \in Values, Begin(t, "setProgram", setProgram(v)) PROVE IInv'
  <2>1. Fits(setProgram(v), "setProgram" \in ProgramCalls)
    BY <1>2, HostLists
  <2> QED
    BY <1>1, <1>4, <2>1, BeginKeeps
<1>5. ASSUME NEW v \in Values, Begin(t, "setProgramNoSave", setProgramNoSave(v)) PROVE IInv'
  <2>1. Fits(setProgramNoSave(v), "setProgramNoSave" \in ProgramCalls)
    BY <1>2, HostLists
  <2> QED
    BY <1>1, <1>5, <2>1, BeginKeeps
<1>6. ASSUME Begin(t, "setProgram", NoSuchProgram) PROVE IInv'
  <2>1. Fits(NoSuchProgram, "setProgram" \in ProgramCalls)
    BY HostPairFits DEF NoSuchProgram
  <2> QED
    BY <1>1, <1>6, <2>1, BeginKeeps
<1>7. ASSUME Begin(t, "getChunk", getChunk) \/ Begin(t, "getChunk", getChunkNoMemory)
      PROVE  IInv'
  <2>1. 0 \in Values
    BY ValuesAssumption
  <2>2. /\ Fits(getChunk, "getChunk" \in ProgramCalls)
        /\ Fits(getChunkNoMemory, "getChunk" \in ProgramCalls)
    BY <1>2, <2>1, HostLists
  <2> QED
    BY <1>1, <1>7, <2>2, BeginKeeps
<1>8. ASSUME Begin(t, "settings", Settings) PROVE IInv'
  <2>1. Fits(Settings, "settings" \in ProgramCalls)
    BY HostPairFits DEF Settings
  <2> QED
    BY <1>1, <1>8, <2>1, BeginKeeps
<1>9. ASSUME Begin(t, "callback", Callback) PROVE IInv'
  <2>1. Fits(Callback, "callback" \in ProgramCalls)
    BY CallbackFits
  <2> QED
    BY <1>1, <1>9, <2>1, BeginKeeps
<1>10. ASSUME BeginKeeping(t, "callback", onShiftEscape, 1) PROVE IInv'
  BY <1>10, ShiftEscapeKeeps
<1> QED
  BY <1>3, <1>4, <1>5, <1>6, <1>7, <1>8, <1>9, <1>10 DEF HostCalls

LEMMA ScriptedKeeps ==
  ASSUME IInv, NEW t \in Threads, Scripted(t)
  PROVE  IInv'
<1>1. ASSUME ScriptCalls(t, IntoHost) PROVE IInv'
  <2>1. 0 \in Values
    BY ValuesAssumption
  <2>2. /\ \A h, l \in Nat, b \in BOOLEAN : l > 0 => Runs(IntoHost, h, l, h, l, b)
        /\ IntoHost \in Seq(Steps) /\ Paired(IntoHost)
    <3>1. \A h, l \in Nat, b \in BOOLEAN : l > 0 => Runs(IntoHost, h, l, h, l, b)
      BY <2>1, ScriptLists
    <3>2. 1 \in Nat /\ 1 > 0
      OBVIOUS
    <3> QED
      BY <2>1, <3>1, <3>2, ScriptLists
  <2> QED
    BY <1>1, <2>2, ScriptCallsKeeps
<1>2. ASSUME NEW v \in Values, ScriptCalls(t, setParameterLua(v)) PROVE IInv'
  <2>1. /\ \A h, l \in Nat, b \in BOOLEAN : l > 0 => Runs(setParameterLua(v), h, l, h, l, b)
        /\ setParameterLua(v) \in Seq(Steps) /\ Paired(setParameterLua(v))
    <3>1. \A h, l \in Nat, b \in BOOLEAN : l > 0 => Runs(setParameterLua(v), h, l, h, l, b)
      BY ScriptLists
    <3>2. 1 \in Nat /\ 1 > 0
      OBVIOUS
    <3> QED
      BY <3>1, <3>2, ScriptLists
  <2> QED
    BY <1>2, <2>1, ScriptCallsKeeps
<1> QED
  BY <1>1, <1>2, ScriptReturnsKeeps DEF Scripted

THEOREM NextIInv == IInv /\ [Next]_vars => IInv'
<1> SUFFICES ASSUME IInv, [Next]_vars PROVE IInv'
  OBVIOUS
<1>1. CASE UNCHANGED vars
  BY <1>1 DEF vars, IInv, TypeOK, Alone, DepthInv, TellInv, ToldInv
<1>2. ASSUME NEW t \in Threads, HostCalls(t) \/ Acquire(t) \/ TimeOut(t) PROVE IInv'
  BY <1>2, HostCallsKeeps, LockHostKeeps, LockLuaKeeps, TimeOutKeeps DEF Acquire
<1>3. ASSUME NEW t \in Threads, Proceed(t) PROVE IInv'
  BY <1>3, UnlockHostKeeps, UnlockLuaKeeps, TestHaltedKeeps, SetValueKeeps, SetByScriptKeeps,
     TellKeeps, ScriptedKeeps, HostAnswersKeeps, ReturnKeeps DEF Proceed
<1>4. CASE Halt
  BY <1>4, HaltKeeps
<1> QED
  BY <1>1, <1>2, <1>3, <1>4 DEF Next

-----------------------------------------------------------------------------
(* The lists of all calls fit the locks: at any moment a thread finds what *)
(* it gives back, and what it has set is told three steps later.           *)
THEOREM Invariance == Spec => []IInv
<1>1. Init => IInv
  BY InitIInv
<1>2. IInv /\ [Next]_vars => IInv'
  BY NextIInv
<1> QED
  BY <1>1, <1>2, PTL DEF Spec

(* Whatever script and host call in whatever order, a call gives hostLock  *)
(* and exlock back as often as it took them, on early returns and while    *)
(* the plugin is halted as well, unless it times out; each Shift-Escape    *)
(* leaves one hold of exlock.  The locks are ideal ones, with one owner.   *)
THEOREM LocksGivenBack == Spec => []LocksInv
<1>1. IInv => LocksInv
  <2> SUFFICES ASSUME IInv PROVE LocksInv
    OBVIOUS
  <2>1. ASSUME NEW t \in Threads, Idle(t) PROVE hostDepth[t] = 0 /\ luaDepth[t] = kept[t]
    <3>1. /\ hostDepth[t] \in Nat /\ luaDepth[t] \in Nat
          /\ Runs(<<>>, hostDepth[t], luaDepth[t], 0, kept[t], call[t] \in ProgramCalls)
      BY <2>1 DEF Idle, IInv, TypeOK, DepthInv
    <3> QED
      BY <3>1, RunsEmpty
  <2> QED
    BY <2>1 DEF LocksInv, AllGivenBack, IInv
<1> QED
  BY <1>1, Invariance, PTL

(* Of two threads that wait for each other one changes or saves programs   *)
(* without exlock and the other has exlock only: from inside the script,   *)
(* or left to it by Shift-Escape.                                          *)
THEOREM OnlyProgramCallsCross == Spec => []CrossedByProgramCall
<1>1. IInv => CrossedByProgramCall
  <2> SUFFICES ASSUME IInv, NEW t \in Threads, NEW u \in Threads, Crossed(t, u)
               PROVE  call[t] \in ProgramCalls /\ luaDepth[t] = 0 /\ hostDepth[u] = 0 /\ u # t
    BY DEF CrossedByProgramCall
  <2>1. /\ hostDepth[t] > 0 /\ luaDepth[u] > 0
        /\ At(t, "LUA_LOCK") /\ At(u, "HOST_LOCK")
    BY DEF Crossed, WaitsForLua, WaitsForHost
  <2>2. todo[t] # <<>> /\ todo[t][1].op = "LUA_LOCK" /\ todo[u][1].op = "HOST_LOCK"
    BY <2>1, HeadOf DEF IInv
  <2>3. /\ u # t /\ hostDepth[t] \in Nat /\ luaDepth[t] \in Nat
        /\ hostDepth[u] \in Nat /\ luaDepth[u] \in Nat
    BY <2>2 DEF IInv, TypeOK
  <2>4. luaDepth[t] = 0 /\ hostDepth[u] = 0
    BY <2>1, <2>3 DEF IInv, Alone
  <2> DEFINE s == todo[t]  p == call[t] \in ProgramCalls
  <2>5. s \in Seq(Steps) /\ Runs(s, hostDepth[t], luaDepth[t], 0, kept[t], p)
    BY <2>2, ListOf
  <2>6. luaDepth[t] > 0 \/ p
    <3>1. s # <<>> /\ s[1].op = "LUA_LOCK"
      BY <2>2
    <3> HIDE DEF s, p
    <3> QED
      BY <2>1, <2>5, <3>1, RunsOn
  <2> QED
    BY <2>3, <2>4, <2>6
<1> QED
  BY <1>1, Invariance, PTL

(* When nobody is in a call the script has been told the value of the      *)
(* parameter, unless calls overlapped or the plugin was halted.            *)
THEOREM ScriptKnows == Spec => []ScriptKnowsParameter
<1>1. IInv => ScriptKnowsParameter
  <2> SUFFICES ASSUME IInv, \A t \in Threads : Idle(t) PROVE param = told \/ mixed
    BY DEF ScriptKnowsParameter
  <2>1. ASSUME NEW t \in Threads PROVE telling[t] = "no"
    <3>1. todo[t] = <<>>
      BY DEF Idle, IInv, DepthInv
    <3>2. telling[t] # "no" => \E k \in 1..Len(todo[t]) : Pending(todo[t], k)
      BY DEF IInv, TellInv
    <3>3. \A k \in 1..Len(<<>>) : FALSE
      OBVIOUS
    <3> QED
      BY <3>1, <3>2, <3>3
  <2> QED
    BY <2>1 DEF IInv, ToldInv
<1> QED
  BY <1>1, Invariance, PTL
=============================================================================
