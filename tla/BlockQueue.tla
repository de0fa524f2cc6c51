----------------------------- MODULE BlockQueue -----------------------------
(***************************************************************************)
(* What the queues that move blocks of items promise: each direction of a  *)
(* buffered serial channel (the return values of PicoUartChannel::read and *)
(* write), and CircularQueueWithTrigger.  Items come out once each and in  *)
(* the order they went in.  The end of a block that does not fit is not    *)
(* taken in.                                                               *)
(***************************************************************************)
EXTENDS Naturals, Sequences

CONSTANTS
  Items,      \* the items carried
  Capacity,   \* items that fit
  MaxBlock    \* the longest block put or taken at once

VARIABLES
  queue,      \* the items held, oldest first
  last        \* the last call: <<"put", block>> or <<"take", block>>

vars == <<queue, last>>

Free == Capacity - Len(queue)
Prefix(block, n) == SubSeq(block, 1, IF n < Len(block) THEN n ELSE Len(block))

Init == queue = <<>> /\ last = <<>>

Put(block) ==
  /\ last' = <<"put", block>>
  /\ queue' = queue \o Prefix(block, Free)

Take(n) ==
  /\ n <= Len(queue)
  /\ last' = <<"take", Prefix(queue, n)>>
  /\ queue' = SubSeq(queue, n + 1, Len(queue))

Next ==
  \/ \E n \in 1..MaxBlock : \E block \in [1..n -> Items] : Put(block)
  \/ \E n \in 1..MaxBlock : Take(n)

Spec == Init /\ [][Next]_vars
=============================================================================
