---------------------------- MODULE OrderedList ----------------------------
(***************************************************************************)
(* What the fixed-storage containers promise: a list that is kept in order *)
(* (fixedsortedlist), or in the order of arrival (fixedqueue and           *)
(* TaggedBuffer, where no item is larger than another), from whose front   *)
(* items are taken and from which the items that satisfy a predicate are   *)
(* visited and removed.                                                    *)
(***************************************************************************)
EXTENDS Naturals, Sequences

CONSTANTS
  Items,
  Larger(_, _),   \* the order; items that compare equal stay in arrival order
  Weight(_),      \* the storage that an item takes
  Space,          \* the storage there is
  Given(_, _),    \* what a reader with so much room is given of an item
  Rooms,          \* the amounts of room that readers have
  Predicates,     \* the sets of items that visitors ask for
  Limits          \* after how many removals a visitor may stop

VARIABLES list, result

vars == <<list, result>>

Weights[n \in 0..Len(list)] == IF n = 0 THEN 0 ELSE Weights[n - 1] + Weight(list[n])
Used == Weights[Len(list)]

Init == list = <<>> /\ result = <<"none">>

\* An item goes before the first one that is larger; it is refused exactly if
\* it does not fit.
Place(x) ==
  CHOOSE p \in 1..(Len(list) + 1) :
    /\ \A i \in 1..(p - 1) : ~Larger(list[i], x)
    /\ p <= Len(list) => Larger(list[p], x)

Insert(x) ==
  IF Used + Weight(x) <= Space
    THEN /\ result' = <<"inserted">>
         /\ list' = SubSeq(list, 1, Place(x) - 1) \o <<x>> \o SubSeq(list, Place(x), Len(list))
    ELSE result' = <<"refused">> /\ UNCHANGED list

Pop(room) ==
  /\ list # <<>>
  /\ result' = <<"first", Given(Head(list), room)>> /\ list' = Tail(list)

Peek(room) ==
  /\ list # <<>>
  /\ result' = <<"first", Given(Head(list), room)>> /\ UNCHANGED list

\* Items are visited in order, each one removed after its visit, until the
\* visitor stops at the n-th; everything else stays, in its order.
RemoveIf(P, n) ==
  LET after[k \in 0..Len(list)] ==      \* with the first k items asked about
        IF k = 0 THEN [seen |-> <<>>, kept |-> <<>>]
        ELSE LET before == after[k - 1]
             IN  IF list[k] \in P /\ Len(before.seen) < n
                   THEN [seen |-> Append(before.seen, list[k]), kept |-> before.kept]
                   ELSE [seen |-> before.seen, kept |-> Append(before.kept, list[k])]
  IN  /\ result' = <<"visited", after[Len(list)].seen>>
      /\ list' = after[Len(list)].kept

VisitAll == result' = <<"visited", list>> /\ UNCHANGED list

Clear == result' = <<"none">> /\ list' = <<>>

Next ==
  \/ \E x \in Items : Insert(x)
  \/ \E room \in Rooms : Pop(room) \/ Peek(room)
  \/ \E P \in Predicates, n \in Limits : RemoveIf(P, n)
  \/ VisitAll
  \/ Clear

Spec == Init /\ [][Next]_vars
=============================================================================
