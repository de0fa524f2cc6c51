-------------------- MODULE CircularQueuePointers_proofs --------------------
(***************************************************************************)
(* Circular queue pointers are consistent for every capacity and every     *)
(* sequence of single and block operations.  The inductive invariant is    *)
(* the conjunction of the types and of DepthIsDistance: the block          *)
(* operations trust the depth and the single ones trust the pointers, so   *)
(* neither half is inductive alone.                                        *)
(***************************************************************************)
EXTENDS CircularQueuePointers, TLAPS

IInv == PtrTypeOK /\ DepthIsDistance

USE CapacityAssumption

\* The first conjunct of the invariant and of every step is arithmetic on two
\* pointers: wrapping keeps a pointer in range.
LEMMA WrapInRange ==
  ASSUME NEW i \in 0..(Capacity - 1), NEW p \in 0..(Capacity - 1)
  PROVE  /\ Wrapped(i + p) \in 0..(Capacity - 1)
         /\ Wrapped(i + p) = IF i + p >= Capacity THEN i + p - Capacity ELSE i + p
BY DEF Wrapped

\* Counting a fault stays within the bound.
LEMMA FaultInRange ==
  ASSUME NEW n \in 0..MaxFaults
  PROVE  OneMore(n) \in 0..MaxFaults
BY DEF OneMore

\* The queue is full exactly if every slot but one is counted.
LEMMA FullMeansFull ==
  ASSUME IInv
  PROVE  /\ isFull <=> depth = Capacity - 1
         /\ isEmpty <=> depth = 0
BY DEF IInv, PtrTypeOK, DepthIsDistance, isFull, isEmpty, _next

LEMMA PushKeeps == IInv /\ push => IInv'
<1> SUFFICES ASSUME IInv, push PROVE IInv'
  OBVIOUS
<1>1. CASE isFull
  BY <1>1, FaultInRange DEF push, IInv, PtrTypeOK, DepthIsDistance
<1>2. CASE ~isFull
  <2>1. depth + 1 \in 0..(Capacity - 1)
    BY <1>2, FullMeansFull DEF IInv, PtrTypeOK
  <2>2. QED
    BY <1>2, <2>1 DEF push, _next, isFull, IInv, PtrTypeOK, DepthIsDistance
<1>3. QED
  BY <1>1, <1>2

LEMMA PopKeeps == IInv /\ pop => IInv'
<1> SUFFICES ASSUME IInv, pop PROVE IInv'
  OBVIOUS
<1>1. CASE isEmpty
  BY <1>1, FaultInRange DEF pop, IInv, PtrTypeOK, DepthIsDistance
<1>2. CASE ~isEmpty
  BY <1>2 DEF pop, _next, isEmpty, IInv, PtrTypeOK, DepthIsDistance
<1>3. QED
  BY <1>1, <1>2

LEMMA PushNKeeps ==
  ASSUME NEW c \in Counts, IInv, pushN(c)
  PROVE  IInv'
<1> DEFINE p == Fitting(c, getFree)
<1>1. p \in 0..(Capacity - 1) /\ p <= Capacity - 1 - depth
  BY DEF Fitting, Lesser, getFree, IInv, PtrTypeOK
<1>2. /\ writePtr' = Wrapped(writePtr + p) /\ depth' = depth + p
      /\ readPtr' = readPtr /\ underflows' = underflows
      /\ overflows' \in {overflows, OneMore(overflows)}
  BY DEF pushN
<1> HIDE DEF p
<1>3. writePtr' \in 0..(Capacity - 1)
      /\ writePtr' = IF writePtr + p >= Capacity THEN writePtr + p - Capacity
                                                ELSE writePtr + p
  BY <1>1, <1>2, WrapInRange DEF IInv, PtrTypeOK
<1>4. PtrTypeOK'
  BY <1>1, <1>2, <1>3, FaultInRange DEF IInv, PtrTypeOK
<1>5. DepthIsDistance'
  BY <1>1, <1>2, <1>3 DEF IInv, PtrTypeOK, DepthIsDistance
<1>6. QED
  BY <1>4, <1>5 DEF IInv

LEMMA PopNKeeps ==
  ASSUME NEW c \in Counts, IInv, popN(c)
  PROVE  IInv'
<1> DEFINE p == Lesser(c, depth)
<1>1. p \in 0..(Capacity - 1) /\ p <= depth
  BY DEF Lesser, IInv, PtrTypeOK
<1>2. /\ readPtr' = Wrapped(readPtr + p) /\ depth' = depth - p
      /\ writePtr' = writePtr /\ overflows' = overflows
      /\ underflows' \in {underflows, OneMore(underflows)}
  BY DEF popN
<1> HIDE DEF p
<1>3. readPtr' \in 0..(Capacity - 1)
      /\ readPtr' = IF readPtr + p >= Capacity THEN readPtr + p - Capacity
                                              ELSE readPtr + p
  BY <1>1, <1>2, WrapInRange DEF IInv, PtrTypeOK
<1>4. PtrTypeOK'
  BY <1>1, <1>2, <1>3, FaultInRange DEF IInv, PtrTypeOK
<1>5. DepthIsDistance'
  BY <1>1, <1>2, <1>3 DEF IInv, PtrTypeOK, DepthIsDistance
<1>6. QED
  BY <1>4, <1>5 DEF IInv

LEMMA PtrInvariant == PtrSpec => []IInv
<1>1. PtrInit => IInv
  BY DEF PtrInit, IInv, PtrTypeOK, DepthIsDistance
<1>2. IInv /\ [PtrNext]_ptrs => IInv'
  <2> SUFFICES ASSUME IInv, [PtrNext]_ptrs PROVE IInv'
    OBVIOUS
  <2>1. CASE push
    BY <2>1, PushKeeps
  <2>2. CASE pop
    BY <2>2, PopKeeps
  <2>3. ASSUME NEW c \in Counts, pushN(c) PROVE IInv'
    BY <2>3, PushNKeeps
  <2>4. ASSUME NEW c \in Counts, popN(c) PROVE IInv'
    BY <2>4, PopNKeeps
  <2>5. CASE reset
    BY <2>5 DEF reset, IInv, PtrTypeOK, DepthIsDistance
  <2>6. CASE UNCHANGED ptrs
    BY <2>6 DEF ptrs, IInv, PtrTypeOK, DepthIsDistance
  <2>7. QED
    BY <2>1, <2>2, <2>3, <2>4, <2>5, <2>6 DEF PtrNext
<1>3. QED
  BY <1>1, <1>2, PTL DEF PtrSpec

-----------------------------------------------------------------------------
\* getDepth() and getFree() (CircularQueuePointers.h:49-59) always agree with
\* isEmpty() and isFull(), for every capacity and every mixture of the single
\* and the block operations.
THEOREM DepthTheorem == PtrSpec => []DepthIsDistance
<1>1. IInv => DepthIsDistance
  BY DEF IInv
<1>2. QED
  BY <1>1, PtrInvariant, PTL

\* The pointers always name a slot, and one slot is always held back.
THEOREM PtrTypeTheorem == PtrSpec => []PtrTypeOK
<1>1. IInv => PtrTypeOK
  BY DEF IInv
<1>2. QED
  BY <1>1, PtrInvariant, PTL

\* The block lengths that pushInt32() and tryPopInt32() hand to memcpy
\* (CircularQueueWithTrigger.h:79-112) never run past the end of the space,
\* and a block pop never takes more than is queued.
THEOREM BlocksTheorem == PtrSpec => []BlocksStayInside
<1>1. IInv => BlocksStayInside
  BY DEF IInv, PtrTypeOK, DepthIsDistance, BlocksStayInside, isFull, isEmpty,
         getMaxContiguousPushLength, getMaxContiguousPopLength, Lesser, _next
<1>2. QED
  BY <1>1, PtrInvariant, PTL

\* Both at once: whatever mixture of operations came before, a block that is
\* handed to memcpy is inside the space and the counts agree with the pointers.
THEOREM PointersTheorem == PtrSpec => []PointersAgree
<1>1. DepthIsDistance /\ BlocksStayInside => PointersAgree
  BY DEF PointersAgree
<1>2. QED
  BY <1>1, DepthTheorem, BlocksTheorem, PTL
=============================================================================
