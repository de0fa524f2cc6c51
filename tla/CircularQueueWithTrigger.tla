---------------------- MODULE CircularQueueWithTrigger ----------------------
(***************************************************************************)
(* CircularQueueWithTrigger<T>: a queue in which "popping isn't allowed    *)
(* until the queue has filled beyond a certain threshold".  A writer       *)
(* pushes frames, item by item or, for int32_t, in at most two block moves *)
(* around the end of the space; a reader takes frames of its own length.   *)
(***************************************************************************)
EXTENDS CircularQueuePointers, Sequences

CONSTANTS
  Items,
  NoItem,       \* a value that is no item: what a slot holds at first
  FillTrigger,  \* _fillTrigger
  MaxFrame      \* bound: longest frame

TriggerAssumption ==
  FillTrigger \in Nat /\ MaxFrame \in Nat /\ NoItem \notin Items

VARIABLES
  space,        \* _space
  triggered,    \* _triggered
  last,         \* the last frame pushed or popped
  reader,       \* which of the two calls the reader uses
  starved       \* no frame was popped since the queue was last found too
                \* short for a reader, or since the start

vars == <<ptrs, space, triggered, last, reader, starved>>

Slot == 0..(Capacity - 1)
Frames == UNION {[1..n -> Items] : n \in 1..MaxFrame}

Init ==
  /\ PtrInit
  /\ space = [i \in Slot |-> NoItem]
  /\ triggered = FALSE /\ last = <<>> /\ starved = TRUE
  /\ reader \in {"tryPop", "tryPopInt32"}

\* Copies each part of a frame from its start.
Copied_Bug(sp, p, f, k, n) ==
  [i \in Slot |-> IF i \in p..(p + n - 1) THEN f[1 + i - p] ELSE sp[i]]

\* n items of f from position k on, stored at the slots from p on (memcpy).
Copied(sp, p, f, k, n) ==
  [i \in Slot |-> IF i \in p..(p + n - 1) THEN f[k + i - p] ELSE sp[i]]

Read(p, n) == [i \in 1..n |-> space[Wrapped(p + i - 1)]]

\* push(): one item at a time.  Once the queue is full every further item is
\* written to the slot held back and counted as an overflow.
push_frame(f) ==
  LET n == Lesser(Len(f), getFree)
      kept == [i \in Slot |-> LET k == Wrapped(i - writePtr + Capacity) + 1
                              IN  IF k <= n THEN f[k] ELSE space[i]]
  IN  /\ space' = IF n < Len(f) THEN [kept EXCEPT ![Wrapped(writePtr + n)] = f[Len(f)]]
                                ELSE kept
      /\ writePtr' = Wrapped(writePtr + n)
      /\ depth' = depth + n
      /\ overflows' = Lesser(overflows + Len(f) - n, MaxFaults)
      /\ last' = <<"put", f>>
      /\ UNCHANGED <<readPtr, underflows, triggered, reader, starved>>

\* pushInt32(): a block up to the end of the space, and another if the queue
\* has room left.  memcpy moves all of a block, _ptrs.push what is free of it.
pushInt32(f) ==
  LET n1 == Lesser(getMaxContiguousPushLength, Len(f))
      p1 == Fitting(n1, getFree)
      w1 == Wrapped(writePtr + p1)
      free1 == getFree - p1
      more == free1 > 0 /\ n1 < Len(f)
      run1 == IF readPtr > w1 THEN readPtr - w1 - 1
                              ELSE Lesser(Capacity - w1, Capacity - 1)
      n2 == IF more THEN Lesser(run1, Len(f) - n1) ELSE 0
      p2 == Fitting(n2, free1)
  IN  /\ space' = Copied(Copied(space, writePtr, f, 1, n1), w1, f, n1 + 1, n2)
      /\ writePtr' = Wrapped(w1 + p2)
      /\ depth' = depth + p1 + p2
      /\ overflows' = IF p1 < n1 \/ p2 < n2 THEN OneMore(overflows) ELSE overflows
      /\ last' = <<"put", f>>
      /\ UNCHANGED <<readPtr, underflows, triggered, reader, starved>>

\* Lets a reader start as soon as there is more than it asks for.
MayPop_Bug(n) == triggered \/ depth >= FillTrigger \/ depth > n

MayPop(n) == triggered \/ depth >= FillTrigger

Take(n, frame) ==
  /\ last' = <<"take", frame>>
  /\ readPtr' = Wrapped(readPtr + n)
  /\ depth' = depth - n
  /\ starved' = FALSE
  /\ UNCHANGED <<writePtr, overflows, underflows, space, reader>>

tryPop(n) ==
  /\ reader = "tryPop"
  /\ \/ /\ depth < n
        /\ triggered' = FALSE /\ starved' = TRUE
        /\ UNCHANGED <<ptrs, space, last, reader>>
     \/ /\ depth >= n /\ MayPop(n)
        /\ Take(n, Read(readPtr, n))
        /\ triggered' = TRUE

\* Two block moves, the first up to the end of the space.
tryPopInt32(n) ==
  /\ reader = "tryPopInt32"
  /\ \/ /\ depth < n
        /\ starved' = TRUE
        /\ UNCHANGED <<ptrs, space, triggered, last, reader>>
     \/ /\ depth >= n
        /\ LET n1 == Lesser(getMaxContiguousPopLength, n)
               p2 == Wrapped(readPtr + n1)
           IN  Take(n, [i \in 1..n |-> IF i <= n1 THEN space[readPtr + i - 1]
                                                  ELSE space[p2 + i - n1 - 1]])
        /\ UNCHANGED triggered

Next ==
  \/ \E f \in Frames : push_frame(f) \/ pushInt32(f)
  \/ \E n \in 1..MaxFrame : tryPop(n) \/ tryPopInt32(n)

Spec == Init /\ [][Next]_vars

-----------------------------------------------------------------------------
Queue ==
  INSTANCE BlockQueue WITH
    Capacity <- Capacity - 1, MaxBlock <- MaxFrame,
    queue <- Read(readPtr, depth)

\* Frames pushed item by item or as blocks, popped in other lengths than they
\* were pushed, come out in order and unbroken; a frame that does not fit
\* loses its end and damages nothing else.
ImplementsBlockQueue == Queue!Spec

\* After tryPop() has found the queue too short, it pops nothing "until the
\* queue has filled beyond a certain threshold" (the class comment).
\* tryPopInt32() does not look at the threshold.
WaitsForFill ==
  [][reader = "tryPop" /\ starved /\ ~starved' => depth >= FillTrigger]_vars
=============================================================================
