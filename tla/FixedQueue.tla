----------------------------- MODULE FixedQueue -----------------------------
(***************************************************************************)
(* fixedqueue (fixedqueue.h): a queue packed to the left of a fixed array; *)
(* removing an item shifts the ones behind it.                             *)
(***************************************************************************)
EXTENDS Naturals, Sequences

CONSTANTS
  Items,
  MAX_SIZE,
  Predicates   \* the sets of items that visitors ask for

FixedQueueAssumption == MAX_SIZE \in Nat \ {0}

VARIABLES
  data,      \* _data
  size,      \* _size
  visited    \* what the last call visited

vars == <<data, size, visited>>

Init ==
  /\ data \in {[i \in 0..(MAX_SIZE - 1) |-> x] : x \in Items}
  /\ size = 0 /\ visited = <<"none">>

\* push() asserts that there is room.
push(x) ==
  /\ size < MAX_SIZE
  /\ data' = [data EXCEPT ![size] = x] /\ size' = size + 1
  /\ visited' = <<"inserted">>

\* Shifts the items behind the one removed; its old copy at the end stays.
remove(q, pos) ==
  [q EXCEPT !.data = [i \in DOMAIN @ |-> IF i \in pos..(q.size - 2) THEN @[i + 1] ELSE @[i]],
            !.size = @ - 1]

pop ==
  /\ size > 0
  /\ LET q == remove([data |-> data, size |-> size], 0)
     IN  data' = q.data /\ size' = q.size
  /\ visited' = <<"first", data[0]>>

first ==
  /\ size > 0
  /\ visited' = <<"first", data[0]>>
  /\ UNCHANGED <<data, size>>

\* Steps over the item that moved into the place of the removed one.
Turn_Bug(P, q) ==
  IF q.data[q.pos] \in P
    THEN [remove(q, q.pos) EXCEPT !.left = @ - 1, !.pos = @ + 1,
                                  !.seen = Append(@, q.data[q.pos])]
    ELSE [q EXCEPT !.pos = @ + 1]

\* One turn of the loop: after a removal the next item is in the same place.
Turn(P, q) ==
  IF q.data[q.pos] \in P
    THEN [remove(q, q.pos) EXCEPT !.left = @ - 1,
                                  !.seen = Append(@, q.data[q.pos])]
    ELSE [q EXCEPT !.pos = @ + 1]

\* The loop, for a visitor that stops at the n-th visit; i counts its turns.
Loop(P, start) ==
  LET q[i \in 0..MAX_SIZE] ==
        IF i = 0 THEN start
        ELSE LET before == q[i - 1]
             IN  IF before.pos >= before.size \/ before.left = 0 THEN before
                 ELSE Turn(P, before)
  IN  q[MAX_SIZE]

\* removeIf() is visitAndRemoveIf() with a visitor that never stops.
visitAndRemoveIf(P, n) ==
  LET start == [data |-> data, size |-> size, pos |-> 0, left |-> n, seen |-> <<>>]
      end == Loop(P, start)
  IN  /\ data' = end.data /\ size' = end.size
      /\ visited' = <<"visited", end.seen>>

Contents == [i \in 1..size |-> data[i - 1]]

visitIf ==
  /\ visited' = <<"visited", Contents>>
  /\ UNCHANGED <<data, size>>

clear ==
  /\ size' = 0 /\ visited' = <<"none">>
  /\ UNCHANGED data

Next ==
  \/ \E x \in Items : push(x)
  \/ pop \/ first \/ visitIf \/ clear
  \/ \E P \in Predicates, n \in 1..MAX_SIZE : visitAndRemoveIf(P, n)

Spec == Init /\ [][Next]_vars

-----------------------------------------------------------------------------
Arrival ==
  INSTANCE OrderedList WITH
    list <- Contents, result <- visited,
    Larger <- LAMBDA a, b : FALSE, Weight <- LAMBDA x : 1, Space <- MAX_SIZE,
    Given <- LAMBDA x, room : x, Rooms <- {0}, Limits <- 1..MAX_SIZE

\* Items are visited and removed in the order they came in: exactly those asked
\* for, although every removal shifts the array under the loop.
ImplementsArrivalOrder == Arrival!Spec
=============================================================================
