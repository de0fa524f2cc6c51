----------------------- MODULE CircularQueuePointers -----------------------
(***************************************************************************)
(* The pointers of a circular queue (CircularQueuePointers.h): a read and  *)
(* a write pointer into a space of Capacity slots, of which one is held    *)
(* back, the depth, kept beside them and not computed from them, and       *)
(* counts of overflows and underflows (here up to MaxFaults, past which    *)
(* they stay).                                                             *)
(***************************************************************************)
EXTENDS Integers

CONSTANTS
  Capacity,
  Counts,      \* the block lengths that push(c) and pop(c) are called with
  MaxFaults    \* bound: faults told apart

ASSUME CapacityAssumption ==
  Capacity \in Nat \ {0} /\ Counts \subseteq Nat /\ MaxFaults \in Nat \ {0}

VARIABLES readPtr, writePtr, depth, overflows, underflows

ptrs == <<readPtr, writePtr, depth, overflows, underflows>>

Lesser(a, b) == IF a < b THEN a ELSE b
OneMore(n) == IF n < MaxFaults THEN n + 1 ELSE n

_next(i) == IF i + 1 = Capacity THEN 0 ELSE i + 1

\* Lets a sum equal to the capacity stand.
Wrapped_Bug(i) == IF i > Capacity THEN i - Capacity ELSE i

Wrapped(i) == IF i >= Capacity THEN i - Capacity ELSE i

PtrInit ==
  /\ readPtr = 0 /\ writePtr = 0 /\ depth = 0
  /\ overflows = 0 /\ underflows = 0

reset ==
  /\ readPtr' = 0 /\ writePtr' = 0 /\ depth' = 0
  /\ overflows' = 0 /\ underflows' = 0

isEmpty == readPtr = writePtr

isFull == _next(writePtr) = readPtr

getFree == Capacity - depth - 1

isFault == overflows # 0 \/ underflows # 0

push ==
  /\ IF isFull
       THEN overflows' = OneMore(overflows) /\ UNCHANGED <<writePtr, depth>>
       ELSE /\ writePtr' = _next(writePtr) /\ depth' = depth + 1
            /\ UNCHANGED overflows
  /\ UNCHANGED <<readPtr, underflows>>

Fitting(c, free) == Lesser(c, free)

\* push(c): as many as fit; one overflow if that is not all of them.
pushN(c) ==
  LET p == Fitting(c, getFree)
  IN  /\ writePtr' = Wrapped(writePtr + p)
      /\ depth' = depth + p
      /\ overflows' = IF p < c THEN OneMore(overflows) ELSE overflows
      /\ UNCHANGED <<readPtr, underflows>>

pop ==
  /\ IF isEmpty
       THEN underflows' = OneMore(underflows) /\ UNCHANGED <<readPtr, depth>>
       ELSE /\ readPtr' = _next(readPtr) /\ depth' = depth - 1
            /\ UNCHANGED underflows
  /\ UNCHANGED <<writePtr, overflows>>

popN(c) ==
  LET p == Lesser(c, depth)
  IN  /\ readPtr' = Wrapped(readPtr + p)
      /\ depth' = depth - p
      /\ underflows' = IF p < c THEN OneMore(underflows) ELSE underflows
      /\ UNCHANGED <<writePtr, overflows>>

getMaxContiguousPushLength ==
  IF isFull THEN 0
  ELSE IF readPtr > writePtr THEN readPtr - writePtr - 1
  ELSE Lesser(Capacity - writePtr, Capacity - 1)

getMaxContiguousPopLength ==
  IF isEmpty THEN 0
  ELSE IF writePtr > readPtr THEN writePtr - readPtr
  ELSE Capacity - readPtr

PtrNext ==
  \/ push
  \/ pop
  \/ \E c \in Counts : pushN(c) \/ popN(c)
  \/ reset

PtrSpec == PtrInit /\ [][PtrNext]_ptrs

-----------------------------------------------------------------------------
\* Both pointers name a slot, and one slot is always held back.
PtrTypeOK ==
  /\ readPtr \in 0..(Capacity - 1) /\ writePtr \in 0..(Capacity - 1)
  /\ depth \in 0..(Capacity - 1)
  /\ overflows \in 0..MaxFaults /\ underflows \in 0..MaxFaults

\* The depth that is counted is the distance between the pointers, so that
\* isEmpty() and isFull(), which look at the pointers, agree with getDepth()
\* and getFree(), which look at the count, in whatever mixture the single and
\* the block operations are used.
DepthIsDistance ==
  depth = IF writePtr >= readPtr THEN writePtr - readPtr
                                 ELSE writePtr + Capacity - readPtr

\* The block lengths keep a memcpy inside the space, and a block pop inside
\* what is queued.
BlocksStayInside ==
  /\ writePtr + getMaxContiguousPushLength <= Capacity
  /\ readPtr + getMaxContiguousPopLength <= Capacity
  /\ getMaxContiguousPopLength <= depth

\* The count agrees with the pointers, and the blocks stay inside.
PointersAgree == DepthIsDistance /\ BlocksStayInside

\* "The largest contiguous write that can be performed before overflowing or
\* wrapping" (getMaxContiguousPushLength) is no more than there is room for.
ContiguousPushFits == getMaxContiguousPushLength <= getFree
=============================================================================
