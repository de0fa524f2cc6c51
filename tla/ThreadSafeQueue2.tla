-------------------------- MODULE ThreadSafeQueue2 --------------------------
(***************************************************************************)
(* threadsafequeue2 (threadsafequeue2.h): a queue between threads with a   *)
(* blocking try_pop().  push() wakes one waiting thread, and only if the   *)
(* queue was empty; everybody else is expected to find the items without   *)
(* being told.                                                             *)
(*                                                                         *)
(* Every method holds _mutex for its whole body except while it waits, so  *)
(* a method is one step, and try_pop() is one step up to its wait and one  *)
(* from each wake-up on.  Items are numbered as they are pushed.           *)
(***************************************************************************)
EXTENDS Naturals, Sequences, SequencesExt, FiniteSets

CONSTANTS
  Threads,     \* the threads that call try_pop()
  MaxItems     \* bound: items pushed

QueueAssumption == MaxItems \in Nat /\ Threads # {}

VARIABLES
  queue,       \* _queue
  waiting,     \* threads blocked in _cond.wait_for()
  notified,    \* threads taken off the wait, not yet back with the mutex
  pushed,      \* how many items have been pushed
  taken        \* the items handed out, and the thread that got each, in order

vars == <<queue, waiting, notified, pushed, taken>>

Init ==
  /\ queue = <<>> /\ waiting = {} /\ notified = {}
  /\ pushed = 0 /\ taken = <<>>

\* Looks at the queue after the item has been added.
WasEmpty_Bug == Append(queue, pushed + 1) = <<>>

WasEmpty == queue = <<>>

\* notify_one() has no effect if nobody waits.
notify_one ==
  IF waiting = {} THEN UNCHANGED <<waiting, notified>>
  ELSE \E t \in waiting : waiting' = waiting \ {t} /\ notified' = notified \cup {t}

push ==
  /\ pushed < MaxItems
  /\ pushed' = pushed + 1
  /\ queue' = Append(queue, pushed + 1)
  /\ IF WasEmpty THEN notify_one ELSE UNCHANGED <<waiting, notified>>
  /\ UNCHANGED taken

\* Leaves the item on the queue.
Take_Bug(t) ==
  /\ queue # <<>>
  /\ taken' = Append(taken, [item |-> Head(queue), by |-> t])
  /\ UNCHANGED <<queue, pushed>>

Take(t) ==
  /\ queue # <<>>
  /\ taken' = Append(taken, [item |-> Head(queue), by |-> t])
  /\ queue' = Tail(queue)
  /\ UNCHANGED pushed

\* try_pop() takes what is there or starts to wait.
try_pop(t) ==
  /\ t \notin waiting \cup notified
  /\ \/ Take(t) /\ UNCHANGED <<waiting, notified>>
     \/ /\ queue = <<>>
        /\ waiting' = waiting \cup {t}
        /\ UNCHANGED <<queue, notified, pushed, taken>>

\* Waits for the condition without a predicate: goes back without a look.
wake_Bug(t) ==
  /\ t \in notified
  /\ notified' = notified \ {t} /\ waiting' = waiting \cup {t}
  /\ UNCHANGED <<queue, pushed, taken>>

\* A thread that was woken holds the mutex again, and looks.
wake(t) ==
  /\ t \in notified
  /\ notified' = notified \ {t}
  /\ \/ Take(t) /\ UNCHANGED waiting
     \/ /\ queue = <<>>
        /\ waiting' = waiting \cup {t}
        /\ UNCHANGED <<queue, pushed, taken>>

\* The time is up (for a thread that was notified as well): looks once more.
timeout(t) ==
  /\ t \in waiting \cup notified
  /\ waiting' = waiting \ {t} /\ notified' = notified \ {t}
  /\ Take(t) \/ (queue = <<>> /\ UNCHANGED <<queue, pushed, taken>>)

clear ==
  /\ queue # <<>>
  /\ queue' = <<>>
  /\ UNCHANGED <<waiting, notified, pushed, taken>>

Next ==
  \/ push \/ clear
  \/ \E t \in Threads : try_pop(t) \/ wake(t) \/ timeout(t)

\* Threads keep calling try_pop(), and a woken thread gets the mutex in the
\* end.  No timeout is relied on.
Spec ==
  /\ Init /\ [][Next]_vars
  /\ \A t \in Threads : WF_vars(try_pop(t)) /\ WF_vars(wake(t))

-----------------------------------------------------------------------------
\* The types; a thread waits, has been notified, or neither, and what is on
\* the queue has not been handed out.
TypeOK ==
  /\ queue \in Seq(1..MaxItems) /\ pushed \in 0..MaxItems
  /\ waiting \subseteq Threads /\ notified \subseteq Threads
  /\ taken \in Seq([item : 1..MaxItems, by : Threads])
  /\ waiting \cap notified = {}

\* A wake-up is never lost: the queue holds items while all threads are blocked
\* only if one of them has been notified and will look.  push() notifies on
\* the change from empty to non-empty alone; timeouts and clear() fall between
\* the notification and the thread's waking up.
NoLostWakeup == waiting = Threads => queue = <<>>

\* Each item is handed out at most once, and in the order of the pushes,
\* whichever threads are woken, give up or overtake each other.
EachOnceInOrder ==
  LET items == [i \in DOMAIN taken |-> taken[i].item] \o queue
  IN  \A i, j \in DOMAIN items : i < j => items[i] < items[j]

\* Every item leaves the queue, also if no timeout ever helps.
ItemsLeave == \A i \in 1..MaxItems : i \in ToSet(queue) ~> i \notin ToSet(queue)
=============================================================================
