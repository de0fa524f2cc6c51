-------------------------- MODULE CircularQueuePtr --------------------------
(***************************************************************************)
(* CircularQueuePtr (CircularQueuePtr.h), the older sibling of             *)
(* CircularQueuePointers: pointers into a circular space whose reader asks *)
(* isEmpty() first and whose writer relies on the overflow check.          *)
(***************************************************************************)
EXTENDS Naturals

CONSTANTS
  size,        \* _size
  MaxWrites    \* bound: entries written

VARIABLES readPtr, writePtr, depth, overflowCount, writes

vars == <<readPtr, writePtr, depth, overflowCount, writes>>

Init == readPtr = 0 /\ writePtr = 0 /\ depth = 0 /\ overflowCount = 0 /\ writes = 0

Next1(p) == IF p + 1 = size THEN 0 ELSE p + 1

isEmpty == readPtr = writePtr

getAndIncReadPtr ==
  /\ ~isEmpty
  /\ readPtr' = Next1(readPtr) /\ depth' = depth - 1
  /\ UNCHANGED <<writePtr, overflowCount, writes>>

\* The check compares the advanced write pointer with the write pointer.
getAndIncWritePtr ==
  /\ writes < MaxWrites /\ writes' = writes + 1
  /\ IF Next1(writePtr) = writePtr
       THEN overflowCount' = overflowCount + 1 /\ UNCHANGED <<writePtr, depth>>
       ELSE writePtr' = Next1(writePtr) /\ depth' = depth + 1 /\ UNCHANGED overflowCount
  /\ UNCHANGED readPtr

Next == getAndIncReadPtr \/ getAndIncWritePtr

Spec == Init /\ [][Next]_vars

-----------------------------------------------------------------------------
\* A queue that holds something is not reported as empty: getAndIncWritePtr()
\* announces "Check for overflow", which would stop the writer before it
\* catches up with the reader.
EmptyMeansEmpty == isEmpty => depth = 0
=============================================================================
