---------------------------- MODULE MessageQueue ----------------------------
(***************************************************************************)
(* What a CircularBuffer promises (the CircularBuffer interface in         *)
(* CircularBuffer.h): a first-in first-out queue of messages, each an      *)
(* out-of-band part of fixed length and a body of any length.  A message   *)
(* is refused only when its bytes do not fit, and refusing it changes      *)
(* nothing.  A reader whose buffer is too small gets the start of the      *)
(* body, and the rest of that message is gone.                             *)
(***************************************************************************)
EXTENDS Naturals, Sequences

CONSTANTS
  Space,     \* bytes in the buffer
  Messages,  \* the messages that may be pushed: [oob |-> ..., body |-> ...]
  Caps       \* the buffer sizes that readers offer

VARIABLES
  queue,     \* the messages, oldest first
  result     \* what the last call returned

vars == <<queue, result>>

\* A message takes two bytes for its length; one byte of the space stays free.
Size(m) == 2 + Len(m.oob) + Len(m.body)
Sizes[n \in 0..Len(queue)] == IF n = 0 THEN 0 ELSE Sizes[n - 1] + Size(queue[n])
Used == Sizes[Len(queue)]
Fits(m) == Used + Size(m) < Space

Truncated(m, cap) ==
  [m EXCEPT !.body = SubSeq(@, 1, IF cap < Len(@) THEN cap ELSE Len(@))]

Init == queue = <<>> /\ result = <<"none">>

Push(m) ==
  /\ queue' = IF Fits(m) THEN Append(queue, m) ELSE queue
  /\ result' = <<"push", m, Fits(m)>>

Pop(cap) ==
  /\ queue # <<>>
  /\ result' = <<"pop", Truncated(Head(queue), cap)>>
  /\ queue' = Tail(queue)

Peek(cap) ==
  /\ queue # <<>>
  /\ result' = <<"peek", Truncated(Head(queue), cap)>>
  /\ UNCHANGED queue

Discard ==
  /\ queue # <<>>
  /\ queue' = Tail(queue)
  /\ result' = <<"discard">>

Next ==
  \/ \E m \in Messages : Push(m)
  \/ \E cap \in Caps : Pop(cap) \/ Peek(cap)
  \/ Discard

Spec == Init /\ [][Next]_vars
=============================================================================
