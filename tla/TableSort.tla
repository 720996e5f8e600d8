------------------------------- MODULE TableSort -------------------------------
(***************************************************************************)
(* table.sort of Lua 5.1 (src/lua-5.1.4/src/ltablib.c), the quicksort that *)
(* Scheduler only takes for what it returns.  Recursive, and for TLC only. *)
(***************************************************************************)
EXTENDS Scheduler

CONSTANT MaxSorted, MaxKey \* bounds: lengths and deltas of the lists sorted

Swap(q, k, l) == [q EXCEPT ![k] = q[l], ![l] = q[k]]
SwapIf(q, k, l) == IF eventCompare(q[l], q[k]) THEN Swap(q, k, l) ELSE q

\* the pivot and the two ends, in order
Median(q, l, m, u) ==
    LET ends == SwapIf(q, l, u)
    IN  IF eventCompare(ends[m], ends[l]) THEN Swap(ends, m, l) ELSE SwapIf(ends, m, u)

\* from i up and from j down to elements on the wrong side of the pivot;
\* beyond the list would be "invalid order function for sorting"
RECURSIVE Partition(_, _, _, _)
Partition(q, pivot, i0, j0) ==
    LET up == CHOOSE k \in (i0 + 1)..Len(q) : /\ ~eventCompare(q[k], pivot)
                 /\ \A n \in (i0 + 1)..(k - 1) : eventCompare(q[n], pivot)
        down == CHOOSE k \in 1..(j0 - 1) : /\ ~eventCompare(pivot, q[k])
                 /\ \A n \in (k + 1)..(j0 - 1) : eventCompare(pivot, q[n])
    IN  IF down < up THEN [list |-> q, at |-> up]
        ELSE Partition(Swap(q, up, down), pivot, up, down)

RECURSIVE auxsort(_, _, _)
auxsort(q, l, u) ==
    LET m == (l + u) \div 2
        three == Median(q, l, m, u)
        parted == Partition(Swap(three, m, u - 1), three[m], l, u - 1)
        halves == Swap(parted.list, u - 1, parted.at)
    IN  CASE l >= u -> q
          [] u - l = 1 -> SwapIf(q, l, u)
          [] u - l = 2 -> three
          [] OTHER -> auxsort(auxsort(halves, l, parted.at - 1), parted.at + 1, u)

(* For a table in any order, auxsort returns the same events, by delta:    *)
(* one of the lists that Scheduler lets Sort choose.                       *)
Returned(q, r) ==
    /\ DOMAIN r = DOMAIN q /\ Range(r) = Range(q)
    /\ InOrder(r)

ASSUME SortAssumption ==
    \A n \in 0..MaxSorted : \A keys \in [1..n -> 0..MaxKey] :
       LET q == [k \in 1..n |-> [id |-> k, delta |-> keys[k]]]
       IN  Returned(q, auxsort(q, 1, n))
================================================================================
