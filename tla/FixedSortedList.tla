-------------------------- MODULE FixedSortedList --------------------------
(***************************************************************************)
(* fixedsortedlist (fixedsortedlist.h): a sorted linked list without       *)
(* dynamic memory.  The slots of a fixed array are chained by _ptrSpace    *)
(* into two lists, the sorted items and the free slots, and every          *)
(* operation moves slots from one to the other.                            *)
(*                                                                         *)
(* Visitors and predicates do not call the list back.                      *)
(***************************************************************************)
EXTENDS Integers, Sequences

CONSTANTS
  Items,
  comparator(_, _),  \* _comparator: negative, zero or positive
  spaceSize,         \* _spaceSize
  Predicates         \* the sets of items that visitors ask for

SortedListAssumption == spaceSize \in Nat \ {0}

VARIABLES
  objSpace,   \* _objSpace: the item of a slot
  ptrSpace,   \* _ptrSpace: the next slot
  firstPtr,   \* _firstPtr
  freePtr,    \* _freePtr
  visited     \* what the last call returned or visited

vars == <<objSpace, ptrSpace, firstPtr, freePtr, visited>>

Nil  == -1
Slot == 0..(spaceSize - 1)

Unlinked == [i \in Slot |-> IF i = spaceSize - 1 THEN Nil ELSE i + 1]

Init ==
  /\ objSpace \in {[i \in Slot |-> x] : x \in Items}   \* whatever was there
  /\ ptrSpace = Unlinked /\ firstPtr = Nil /\ freePtr = 0
  /\ visited = <<"none">>

\* The slots found by following the pointers from p (one more than there are,
\* if the pointers run in a circle).
Chain(p) ==
  LET walk[n \in 0..(spaceSize + 1)] ==      \* after n pointers
        IF n = 0 THEN [slots |-> <<>>, next |-> p]
        ELSE LET at == walk[n - 1]
             IN  IF at.next = Nil THEN at
                 ELSE [slots |-> Append(at.slots, at.next), next |-> ptrSpace[at.next]]
  IN  walk[spaceSize + 1].slots

Held(slots) == [i \in DOMAIN slots |-> objSpace[slots[i]]]

clear ==
  /\ ptrSpace' = Unlinked /\ firstPtr' = Nil /\ freePtr' = 0
  /\ visited' = <<"none">>
  /\ UNCHANGED objSpace

\* Goes before an equal item, too.
IsLarger_Bug(slot, x) == comparator(objSpace[slot], x) >= 0

IsLarger(slot, x) == comparator(objSpace[slot], x) > 0

\* The place of the first larger item, or behind the last one.
Place(slots, x) ==
  CHOOSE i \in 1..(Len(slots) + 1) :
    /\ \A j \in 1..(i - 1) : ~IsLarger(slots[j], x)
    /\ i <= Len(slots) => IsLarger(slots[i], x)

\* The new slot is linked in there.
insert(x) ==
  \/ /\ freePtr = Nil
     /\ visited' = <<"refused">>
     /\ UNCHANGED <<objSpace, ptrSpace, firstPtr, freePtr>>
  \/ /\ freePtr # Nil
     /\ LET slots == Chain(firstPtr)
            i     == Place(slots, x)
        IN  IF i = 1
              THEN /\ firstPtr' = freePtr
                   /\ ptrSpace' = [ptrSpace EXCEPT ![freePtr] = firstPtr]
              ELSE /\ ptrSpace' = [ptrSpace EXCEPT
                                     ![freePtr] = IF i > Len(slots) THEN Nil ELSE slots[i],
                                     ![slots[i - 1]] = freePtr]
                   /\ UNCHANGED firstPtr
     /\ objSpace' = [objSpace EXCEPT ![freePtr] = x]
     /\ freePtr' = ptrSpace[freePtr]
     /\ visited' = <<"inserted">>

first ==
  /\ firstPtr # Nil
  /\ visited' = <<"first", objSpace[firstPtr]>>
  /\ UNCHANGED <<objSpace, ptrSpace, firstPtr, freePtr>>

pop ==
  /\ firstPtr # Nil
  /\ visited' = <<"first", objSpace[firstPtr]>>
  /\ firstPtr' = ptrSpace[firstPtr]
  /\ ptrSpace' = [ptrSpace EXCEPT ![firstPtr] = freePtr]
  /\ freePtr' = firstPtr
  /\ UNCHANGED objSpace

visitAll ==
  /\ visited' = <<"visited", Held(Chain(firstPtr))>>
  /\ UNCHANGED <<objSpace, ptrSpace, firstPtr, freePtr>>

\* Unlinks the slot that was visited and frees it.
Removed(r) ==
  [r EXCEPT !.first = IF r.slot = r.first THEN r.ptr[r.slot] ELSE @,
            !.ptr = IF r.slot = r.first THEN [@ EXCEPT ![r.slot] = r.free]
                    ELSE [@ EXCEPT ![r.prev] = r.ptr[r.slot], ![r.slot] = r.free],
            !.prev = IF r.slot = r.first THEN Nil ELSE @,
            !.free = r.slot]

\* One turn of the loop: looks at the next slot before it visits this one.
Turn(P, r) ==
  IF objSpace[r.slot] \in P
    THEN [Removed(r) EXCEPT !.slot = r.ptr[r.slot], !.left = @ - 1,
                            !.seen = Append(@, objSpace[r.slot])]
    ELSE [r EXCEPT !.slot = r.ptr[r.slot], !.prev = r.slot]

\* The loop, for a visitor that stops at the n-th visit; i counts its turns.
Loop(P, start) ==
  LET r[i \in 0..spaceSize] ==
        IF i = 0 THEN start
        ELSE LET before == r[i - 1]
             IN  IF before.slot = Nil \/ before.left = 0 THEN before ELSE Turn(P, before)
  IN  r[spaceSize]

visitIfAndRemove(P, n) ==
  LET start == [ptr |-> ptrSpace, first |-> firstPtr, free |-> freePtr,
                slot |-> firstPtr, prev |-> Nil, left |-> n, seen |-> <<>>]
      end == Loop(P, start)
  IN  /\ ptrSpace' = end.ptr /\ firstPtr' = end.first /\ freePtr' = end.free
      /\ visited' = <<"visited", end.seen>>
      /\ UNCHANGED objSpace

Next ==
  \/ \E x \in Items : insert(x)
  \/ first \/ pop \/ visitAll \/ clear
  \/ \E P \in Predicates, n \in 1..spaceSize : visitIfAndRemove(P, n)

Spec == Init /\ [][Next]_vars

-----------------------------------------------------------------------------
\* The list is sorted by the comparator, equal items stay in the order they
\* came in, and exactly the items asked for are visited and removed.
Sorted ==
  INSTANCE OrderedList WITH
    list <- Held(Chain(firstPtr)), result <- visited,
    Larger <- LAMBDA a, b : comparator(a, b) > 0,
    Weight <- LAMBDA x : 1, Space <- spaceSize,
    Given <- LAMBDA x, room : x, Rooms <- {0}, Limits <- 1..spaceSize

ImplementsSortedList == Sorted!Spec
=============================================================================
