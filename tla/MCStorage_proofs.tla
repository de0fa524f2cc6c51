-------------------------- MODULE MCStorage_proofs --------------------------
(***************************************************************************)
(* What holds of the containers for every capacity, item and predicate.    *)
(*                                                                         *)
(* CircularQueueWithTrigger: the invariant places the items that are       *)
(* queued from the read pointer on, depth of them, around the end of the   *)
(* space.  The block moves go wrong only where they reach the slot that is *)
(* held back, which no item is in.                                         *)
(*                                                                         *)
(* FixedQueue, FixedSortedList and TaggedBuffer: each implements           *)
(* OrderedList.  What is visited and removed is a walk along the list, and *)
(* the loop of the code, which moves the rest up under its own feet,       *)
(* follows that walk.                                                      *)
(***************************************************************************)
EXTENDS MCStorage, SequenceTheorems, WellFoundedInduction, TLAPS

Value == Items \cup {NoItem}

FramesInv ==
  /\ r \in Frames!Slot /\ w \in Frames!Slot /\ d \in Frames!Slot
  /\ Frames!DepthIsDistance
  /\ space \in [Frames!Slot -> Value]
  /\ reader = "tryPop" /\ starved => ~triggered

LEMMA Sizes ==
  /\ Capacity \in Nat \ {0} /\ FillTrigger \in Nat /\ MaxFrame \in Nat
  /\ Frames!Slot \subseteq Int /\ \A i \in Int : i \in Frames!Slot <=> 0 <= i /\ i < Capacity
BY CapacityAssumption, StorageAssumption DEF Frames!TriggerAssumption, Frames!Slot

\* The slot of the i-th item from p on.
Place(p, i) == IF p + i - 1 >= Capacity THEN p + i - 1 - Capacity ELSE p + i - 1

\* k items of f are put behind the d that are queued.
Appends(f, k) ==
  /\ r' = r /\ d' = d + k /\ w' = Place(w, k + 1)
  /\ space' \in [Frames!Slot -> Value]
  /\ \A i \in 1 .. d + k :
       space'[Place(r, i)] = IF i <= d THEN space[Place(r, i)] ELSE f[i - d]
  /\ last' = <<"put", f>> /\ reader' = reader /\ triggered' = triggered /\ starved' = starved

Free == Capacity - 1 - d
Fits(f) == IF Free < Len(f) THEN Free ELSE Len(f)

LEMMA FrameFacts ==
  ASSUME NEW f \in Frames!Frames
  PROVE  /\ f \in Seq(Items) /\ Len(f) \in 1 .. MaxFrame
         /\ \A i \in Int : 1 <= i /\ i <= Len(f) => f[i] \in Value
<1>1. PICK n \in 1 .. MaxFrame : f \in [1 .. n -> Items]
  BY DEF Frames!Frames
<1>2. n \in Nat
  BY Sizes
<1>3. f \in Seq(Items) /\ Len(f) = n
  BY <1>1, <1>2
<1>4. QED
  BY <1>1, <1>2, <1>3 DEF Value

LEMMA WrappedIs ==
  ASSUME NEW p \in Int, NEW i \in Int
  PROVE  Frames!Wrapped(p + i - 1) = Place(p, i) /\ Frames!Wrapped(p + i) = Place(p, i + 1)
BY Sizes DEF Frames!Wrapped, Place

\* push() item by item.
LEMMA PushAppends ==
  ASSUME FramesInv, NEW f \in Frames!Frames, Frames!push_frame(f)
  PROVE  Appends(f, Fits(f))
<1> DEFINE n == Fits(f)
           l == Len(f)
           k(i) == Frames!Wrapped(i - w + Capacity) + 1
           kept == [i \in Frames!Slot |-> IF k(i) <= n THEN f[k(i)] ELSE space[i]]
<1>1. /\ Capacity \in Nat \ {0} /\ l \in Nat /\ l >= 1
      /\ Frames!Slot \subseteq Int
      /\ \A i \in Int : i \in Frames!Slot <=> 0 <= i /\ i < Capacity
      /\ \A i \in Int : 1 <= i /\ i <= l => f[i] \in Value
  BY Sizes, FrameFacts
<1>2. /\ r \in Int /\ 0 <= r /\ r < Capacity /\ w \in Int /\ 0 <= w /\ w < Capacity
      /\ d \in Int /\ 0 <= d /\ d < Capacity
      /\ d = (IF w >= r THEN w - r ELSE w + Capacity - r)
      /\ space \in [Frames!Slot -> Value]
  BY <1>1 DEF FramesInv, Frames!Slot, Frames!DepthIsDistance
<1>3. n \in Nat /\ n <= l /\ n <= Capacity - 1 - d /\ (n < l => n = Capacity - 1 - d)
  <2>1. Capacity \in Nat \ {0} /\ l \in Nat /\ l >= 1
    BY <1>1
  <2>2. n = IF Free < l THEN Free ELSE l
    BY DEF Fits
  <2> HIDE DEF n, l
  <2>3. QED
    BY <2>1, <2>2, <1>2 DEF Free
<1>4. Frames!Lesser(Len(f), Frames!getFree) = n
  BY <1>1, <1>2 DEF Frames!Lesser, Frames!getFree, Fits, Free
<1>5. /\ space' = IF n < l THEN [kept EXCEPT ![Frames!Wrapped(w + n)] = f[l]] ELSE kept
      /\ w' = Frames!Wrapped(w + n) /\ d' = d + n /\ r' = r
      /\ last' = <<"put", f>> /\ reader' = reader /\ triggered' = triggered /\ starved' = starved
  BY <1>4 DEF Frames!push_frame
<1>6. ASSUME NEW i \in Frames!Slot
      PROVE  k(i) = (IF i >= w THEN i - w + 1 ELSE i - w + Capacity + 1)
  BY <1>1, <1>2 DEF Frames!Wrapped
<1>7. Frames!Wrapped(w + n) = Place(w, n + 1)
  BY <1>2, <1>3, WrappedIs
<1> DEFINE b == Place(w, n + 1)
<1>8. b \in Frames!Slot /\ b = (IF w + n >= Capacity THEN w + n - Capacity ELSE w + n)
  BY <1>1, <1>2, <1>3 DEF Place
<1> HIDE DEF n, l, k, b
<1>9. kept \in [Frames!Slot -> Value] /\ f[l] \in Value
  <2>1. ASSUME NEW i \in Frames!Slot PROVE (IF k(i) <= n THEN f[k(i)] ELSE space[i]) \in Value
    BY <1>1, <1>2, <1>3, <1>6, <2>1
  <2>2. QED
    BY <1>1, <2>1
<1>10. space' \in [Frames!Slot -> Value]
  BY <1>5, <1>9
<1>11. ASSUME NEW i \in 1 .. d + n
       PROVE  space'[Place(r, i)] = IF i <= d THEN space[Place(r, i)] ELSE f[i - d]
  <2> DEFINE p == Place(r, i)
  <2>1. p \in Frames!Slot /\ p = (IF r + i - 1 >= Capacity THEN r + i - 1 - Capacity ELSE r + i - 1)
    BY <1>1, <1>2, <1>3 DEF Place
  <2> HIDE DEF p
  <2>2. p # b \/ ~(n < l)
    BY <1>1, <1>2, <1>3, <1>8, <2>1
  <2>3. space'[p] = kept[p]
    BY <1>5, <1>7, <1>8, <1>9, <2>1, <2>2 DEF b
  <2>4. kept[p] = IF k(p) <= n THEN f[k(p)] ELSE space[p]
    BY <2>1
  <2>5. CASE i <= d
    <3>1. ~(k(p) <= n)
      BY <1>1, <1>2, <1>3, <1>6, <2>1, <2>5
    <3>2. QED
      BY <2>3, <2>4, <2>5, <3>1 DEF p
  <2>6. CASE i > d
    <3>1. k(p) = i - d
      BY <1>1, <1>2, <1>3, <1>6, <2>1, <2>6
    <3>2. i - d <= n /\ ~(i <= d)
      BY <1>2, <1>3, <2>6
    <3>3. QED
      BY <2>3, <2>4, <3>1, <3>2 DEF p
  <2>7. QED
    BY <1>2, <1>3, <2>5, <2>6
<1>12. QED
  BY <1>5, <1>7, <1>10, <1>11 DEF Appends, n
LEMMA Add ==
  ASSUME NEW a \in Int, NEW b \in Int, NEW c \in Int
  PROVE  a + b + c = a + (b + c)
OBVIOUS

\* pushInt32() block by block.
LEMMA PushInt32Appends ==
  ASSUME FramesInv, NEW f \in Frames!Frames, Frames!pushInt32(f)
  PROVE  Appends(f, Fits(f))
<1> DEFINE l == Len(f)
           n1 == Frames!Lesser(Frames!getMaxContiguousPushLength, l)
           p1 == Frames!Fitting(n1, Frames!getFree)
           w1 == Frames!Wrapped(w + p1)
           free1 == Frames!getFree - p1
           more == free1 > 0 /\ n1 < l
           run1 == IF r > w1 THEN r - w1 - 1 ELSE Frames!Lesser(Capacity - w1, Capacity - 1)
           n2 == IF more THEN Frames!Lesser(run1, l - n1) ELSE 0
           p2 == Frames!Fitting(n2, free1)
<1>1. /\ Capacity \in Nat \ {0} /\ l \in Nat /\ l >= 1
      /\ r \in Int /\ 0 <= r /\ r < Capacity /\ w \in Int /\ 0 <= w /\ w < Capacity
      /\ d \in Int /\ 0 <= d /\ d < Capacity
      /\ d = (IF w >= r THEN w - r ELSE w + Capacity - r)
  BY Sizes, FrameFacts DEF FramesInv, Frames!Slot, Frames!DepthIsDistance
<1>2. /\ Frames!Slot \subseteq Int /\ \A i \in Int : i \in Frames!Slot <=> 0 <= i /\ i < Capacity
      /\ \A i \in Int : 1 <= i /\ i <= l => f[i] \in Value
      /\ space \in [Frames!Slot -> Value]
  BY Sizes, FrameFacts DEF FramesInv
<1>3. /\ space' = Frames!Copied(Frames!Copied(space, w, f, 1, n1), w1, f, n1 + 1, n2)
      /\ w' = Frames!Wrapped(w1 + p2) /\ d' = d + p1 + p2 /\ r' = r
      /\ last' = <<"put", f>> /\ reader' = reader /\ triggered' = triggered /\ starved' = starved
  BY DEF Frames!pushInt32
<1>4. Frames!getFree = Free /\ Free = Capacity - 1 - d /\ Free \in Nat
  BY <1>1 DEF Frames!getFree, Free
<1> DEFINE m == Frames!getMaxContiguousPushLength
<1>5. /\ m \in Nat /\ w + m <= Capacity /\ m <= Free + 1
      /\ r > w => m = Free
      /\ r <= w => m = (IF w = 0 THEN Capacity - 1 ELSE IF d = Capacity - 1 THEN 0 ELSE Capacity - w)
  BY <1>1, <1>4 DEF Frames!getMaxContiguousPushLength, Frames!isFull, Frames!_next, Frames!Lesser
<1> HIDE DEF m
<1> HIDE DEF l
<1>6. /\ n1 \in Nat /\ n1 <= l /\ n1 <= m /\ (n1 < l => n1 = m)
      /\ p1 \in Nat /\ p1 <= n1 /\ p1 <= Free /\ p1 = (IF n1 < Free THEN n1 ELSE Free)
  <2>1. n1 = (IF m < l THEN m ELSE l)
    BY DEF Frames!Lesser, m
  <2>2. p1 = (IF n1 < Free THEN n1 ELSE Free)
    BY <1>4 DEF Frames!Fitting, Frames!Lesser
  <2>3. l \in Nat /\ m \in Nat /\ Free \in Nat
    BY <1>1, <1>4, <1>5
  <2> HIDE DEF n1, p1
  <2>4. QED
    BY ONLY <2>1, <2>2, <2>3
<1>7. free1 = Free - p1 /\ w1 = (IF w + p1 >= Capacity THEN w + p1 - Capacity ELSE w + p1)
  BY <1>1, <1>4, <1>6 DEF Frames!Wrapped
<1> HIDE DEF n1, p1, w1, free1
<1>8. more =>
        /\ r <= w /\ 0 < w /\ n1 = Capacity - w /\ p1 = n1 /\ w1 = 0 /\ free1 = r - 1
        /\ n2 = (IF r - 1 < l - n1 THEN r - 1 ELSE l - n1) /\ p2 = n2 /\ n2 \in Nat
  <2> SUFFICES ASSUME free1 > 0, n1 < l
               PROVE  /\ r <= w /\ 0 < w /\ n1 = Capacity - w /\ p1 = n1 /\ w1 = 0 /\ free1 = r - 1
                      /\ n2 = (IF r - 1 < l - n1 THEN r - 1 ELSE l - n1) /\ p2 = n2 /\ n2 \in Nat
    BY DEF l
  <2>1. r <= w /\ 0 < w /\ n1 = Capacity - w /\ p1 = n1 /\ w1 = 0 /\ free1 = r - 1
    BY <1>1, <1>4, <1>5, <1>6, <1>7
  <2>2. run1 = r - 1
    BY <1>1, <2>1 DEF Frames!Lesser
  <2>3. n2 = (IF r - 1 < l - n1 THEN r - 1 ELSE l - n1) /\ n2 \in Nat
    BY <1>1, <1>6, <2>1, <2>2 DEF Frames!Lesser, l
  <2>4. p2 = n2
    BY <1>1, <1>6, <2>1, <2>3 DEF Frames!Fitting, Frames!Lesser
  <2>5. QED
    BY <2>1, <2>3, <2>4
<1>9. ~more => n2 = 0 /\ p2 = 0
  BY <1>1, <1>4, <1>6, <1>7 DEF Frames!Fitting, Frames!Lesser
<1> DEFINE k == Fits(f)
<1>10. k = (IF Free < l THEN Free ELSE l)
  BY DEF Fits, l
<1>11. p1 + p2 = k /\ k \in Nat /\ k <= Free /\ n2 \in Nat /\ n1 + n2 <= l /\ p2 \in Nat
  <2>1. CASE more
    BY <1>1, <1>4, <1>6, <1>7, <1>8, <1>10, <2>1
  <2>2. CASE ~more
    BY <1>1, <1>4, <1>6, <1>7, <1>9, <1>10, <2>2
  <2>3. QED
    BY <2>1, <2>2
<1>12. Frames!Wrapped(w1 + p2) = Place(w, k + 1)
  <2>1. CASE more
    BY <1>1, <1>4, <1>6, <1>8, <1>11, <2>1 DEF Frames!Wrapped, Place
  <2>2. CASE ~more
    BY <1>1, <1>4, <1>6, <1>7, <1>9, <1>11, <2>2 DEF Frames!Wrapped, Place
  <2>3. QED
    BY <2>1, <2>2
<1>13. \/ /\ n2 = 0 /\ p1 = k
       \/ /\ r <= w /\ 0 < w /\ n1 = Capacity - w /\ w1 = 0 /\ n2 <= r - 1 /\ n1 + n2 = k
  BY <1>1, <1>6, <1>8, <1>9, <1>11
<1> HIDE DEF l, k, n2, p2
<1>14. w1 \in Int
  BY <1>1, <1>6, <1>7
<1> DEFINE v(i) == IF i \in w1 .. w1 + n2 - 1 THEN f[n1 + 1 + i - w1]
                   ELSE IF i \in w .. w + n1 - 1 THEN f[1 + i - w] ELSE space[i]
<1>15. space' = [i \in Frames!Slot |-> v(i)]
  BY <1>3 DEF Frames!Copied
<1>16. ASSUME NEW i \in Frames!Slot PROVE v(i) \in Value
  <2>1. i \in Int
    BY <1>2
  <2>2. CASE i \in w1 .. w1 + n2 - 1
    BY <1>2, <1>1, <1>6, <1>11, <1>14, <2>1, <2>2
  <2>3. CASE i \notin w1 .. w1 + n2 - 1 /\ i \in w .. w + n1 - 1
    BY <1>2, <1>1, <1>6, <2>1, <2>3
  <2>4. QED
    BY <1>2, <2>2, <2>3
<1>17. space' \in [Frames!Slot -> Value]
  <2> HIDE DEF v
  <2>1. QED
    BY <1>15, <1>16
<1>18. ASSUME NEW i \in 1 .. d + k
       PROVE  space'[Place(r, i)] = IF i <= d THEN space[Place(r, i)] ELSE f[i - d]
  <2> DEFINE p == Place(r, i)
  <2>1. /\ p = (IF r + i - 1 >= Capacity THEN r + i - 1 - Capacity ELSE r + i - 1)
        /\ p \in Int /\ 0 <= p /\ p < Capacity /\ i \in Int
    BY <1>1, <1>4, <1>11 DEF Place
  <2>2. p \in Frames!Slot
    BY <1>2, <2>1
  <2> HIDE DEF p
  <2>3. space'[p] = v(p)
    BY <1>15, <2>2
  <2>4. CASE i <= d
    <3>1. ~(p \in w1 .. w1 + n2 - 1)
      <4>1. CASE n2 = 0
        BY <1>14, <4>1
      <4>2. CASE r <= w /\ w1 = 0 /\ n2 <= r - 1
        <5>1. p >= r
          BY <1>1, <2>1, <2>4, <4>2
        <5>2. QED
          BY <1>1, <1>11, <2>1, <4>2, <5>1
      <4>3. QED
        BY <1>13, <4>1, <4>2
    <3>2. ~(p \in w .. w + n1 - 1)
      BY <1>1, <1>4, <1>5, <1>6, <2>1, <2>4
    <3>3. QED
      BY <2>3, <2>4, <3>1, <3>2 DEF p
  <2>5. CASE i > d /\ i - d <= n1
    <3>1. ~(p \in w1 .. w1 + n2 - 1) /\ p \in w .. w + n1 - 1 /\ 1 + p - w = i - d
      <4>1. p = w + (i - d) - 1
        BY <1>1, <1>4, <1>5, <1>6, <1>11, <2>1, <2>5
      <4>2. p \in w .. w + n1 - 1 /\ 1 + p - w = i - d
        BY <1>1, <1>6, <2>1, <2>5, <4>1
      <4>3. CASE n2 = 0
        BY <1>14, <4>2, <4>3
      <4>4. CASE r <= w /\ w1 = 0 /\ n2 <= r - 1
        BY <1>1, <1>11, <2>1, <4>2, <4>4
      <4>5. QED
        BY <1>13, <4>2, <4>3, <4>4
    <3>2. QED
      BY <1>1, <2>1, <2>3, <2>5, <3>1 DEF p
  <2>6. CASE i > d /\ i - d > n1
    <3>1. p \in w1 .. w1 + n2 - 1 /\ n1 + 1 + p - w1 = i - d
      BY <1>1, <1>4, <1>5, <1>6, <1>11, <1>13, <2>1, <2>6
    <3>2. QED
      BY <1>1, <2>1, <2>3, <2>6, <3>1 DEF p
  <2>7. QED
    BY <1>1, <1>6, <2>1, <2>4, <2>5, <2>6
<1>19. d' = d + k
  <2>1. d' = d + p1 + p2
    BY <1>3
  <2>2. d \in Int /\ p1 \in Int /\ p2 \in Int /\ p1 + p2 = k
    BY <1>1, <1>6, <1>11
  <2>3. d + p1 + p2 = d + (p1 + p2)
    BY <2>2, Add
  <2>4. QED
    BY ONLY <2>1, <2>2, <2>3
<1>20. QED
  BY <1>3, <1>12, <1>17, <1>18, <1>19 DEF Appends, k
-----------------------------------------------------------------------------
(* The queue as a sequence.                                                 *)

InQueue == Frames!Read(r, d)

LEMMA InQueueIs ==
  ASSUME FramesInv
  PROVE  InQueue \in Seq(Value) /\ Len(InQueue) = d
         /\ \A i \in 1 .. d : InQueue[i] = space[Place(r, i)]
<1>1. Capacity \in Nat \ {0} /\ r \in 0 .. Capacity - 1 /\ d \in 0 .. Capacity - 1
  BY Sizes DEF FramesInv, Frames!Slot
<1>2. ASSUME NEW i \in 1 .. d
      PROVE  Frames!Wrapped(r + i - 1) = Place(r, i) /\ Place(r, i) \in Frames!Slot
  BY <1>1, WrappedIs DEF Place, Frames!Slot
<1>3. InQueue = [i \in 1 .. d |-> space[Place(r, i)]]
  BY <1>2 DEF InQueue, Frames!Read
<1>4. \A i \in 1 .. d : space[Place(r, i)] \in Value
  BY <1>2 DEF FramesInv
<1> DEFINE q == [i \in 1 .. d |-> space[Place(r, i)]]
<1>5. q \in [1 .. d -> Value]
  BY <1>4
<1>6. q \in Seq(Value) /\ Len(q) = d /\ \A i \in 1 .. d : q[i] = space[Place(r, i)]
  BY <1>1, <1>5
<1>7. QED
  BY <1>3, <1>6

\* A push puts what fits of the frame behind the others.
LEMMA AppendsPut ==
  ASSUME FramesInv, FramesInv', NEW f \in Frames!Frames, Appends(f, Fits(f))
  PROVE  Frames!Queue!Put(f)
<1> DEFINE k == Fits(f)
           b == SubSeq(f, 1, k)
<1>1. /\ InQueue \in Seq(Value) /\ Len(InQueue) = d
      /\ \A i \in 1 .. d : InQueue[i] = space[Place(r, i)]
  BY InQueueIs
<1>2. /\ InQueue' \in Seq(Value) /\ Len(InQueue') = d'
      /\ \A i \in 1 .. d' : InQueue'[i] = space'[Place(r', i)]
  <2>1. (InQueue \in Seq(Value) /\ Len(InQueue) = d
         /\ \A i \in 1 .. d : InQueue[i] = space[Place(r, i)])'
    BY InQueueIs, PTL
  <2>2. QED
    BY <2>1
<1>3. k \in Nat /\ k <= Len(f) /\ d \in Nat /\ f \in Seq(Value) /\ Len(f) \in Nat
  <2>1. f \in Seq(Items) /\ Len(f) \in Nat /\ Capacity \in Nat \ {0} /\ d \in 0 .. Capacity - 1
    BY FrameFacts, Sizes DEF FramesInv, Frames!Slot
  <2>2. f \in Seq(Value)
    BY <2>1 DEF Value
  <2> DEFINE l == Len(f)
  <2>3. k = IF Free < l THEN Free ELSE l
    BY DEF Fits
  <2> HIDE DEF k, l
  <2>4. l \in Nat
    BY <2>1 DEF l
  <2>5. k \in Nat /\ k <= l
    BY ONLY <2>1, <2>3, <2>4 DEF Free
  <2>6. QED
    BY <2>1, <2>2, <2>5 DEF l
<1> HIDE DEF k, b
<1>4. d' = d + k /\ r' = r /\ last' = <<"put", f>>
      /\ \A i \in 1 .. d + k : space'[Place(r, i)] = IF i <= d THEN space[Place(r, i)] ELSE f[i - d]
  BY DEF Appends, k
<1>5. Len(InQueue') = d + k
      /\ \A i \in 1 .. d + k : InQueue'[i] = IF i <= d THEN InQueue[i] ELSE f[i - d]
  <2>1. Len(InQueue') = d + k
    BY <1>2, <1>4
  <2>2. \A i \in 1 .. d + k : InQueue'[i] = space'[Place(r, i)]
    BY <1>2, <1>4
  <2>3. \A i \in 1 .. d + k : i <= d => InQueue[i] = space[Place(r, i)]
    BY <1>1, <1>3
  <2>4. QED
    BY <1>4, <2>1, <2>2, <2>3
<1>6. b \in Seq(Value) /\ Len(b) = k /\ \A i \in 1 .. k : b[i] = f[i]
  <2>1. \A i \in 1 .. k : f[i] \in Value
    BY <1>3, LenProperties
  <2>2. /\ b \in Seq(Value) /\ Len(b) = IF 1 <= k THEN k - 1 + 1 ELSE 0
        /\ \A i \in 1 .. k - 1 + 1 : b[i] = f[1 + i - 1]
    BY <1>3, <2>1, SubSeqProperties DEF b
  <2>3. QED
    BY <1>3, <2>2
<1>7. /\ InQueue \o b \in Seq(Value) /\ Len(InQueue \o b) = d + k
      /\ \A i \in 1 .. d + k : (InQueue \o b)[i] = IF i <= d THEN InQueue[i] ELSE b[i - d]
  BY <1>1, <1>6, ConcatProperties
<1>8. InQueue' = InQueue \o b
  <2>1. ASSUME NEW i \in 1 .. d + k PROVE InQueue'[i] = (InQueue \o b)[i]
    <3>1. ~(i <= d) => i - d \in 1 .. k
      BY <1>3
    <3>2. QED
      BY <1>5, <1>6, <1>7, <3>1
  <2>2. QED
    BY <1>2, <1>5, <1>7, <2>1, SeqEqual
<1>9. Frames!Queue!Prefix(f, Frames!Queue!Free) = b
  <2>1. Frames!Queue!Free = Free
    BY <1>1, <1>3, Sizes DEF Frames!Queue!Free, Free, InQueue
  <2>2. QED
    BY <1>3, <2>1, Sizes DEF Frames!Queue!Prefix, b, k, Fits, Free
<1>10. QED
  BY <1>4, <1>8, <1>9 DEF Frames!Queue!Put, InQueue
\* A frame is popped from the front of the queue.
Removes(n) ==
  /\ n <= d /\ r' = Place(r, n + 1) /\ d' = d - n /\ w' = w /\ space' = space
  /\ reader' = reader /\ ~starved'
  /\ last' = <<"take", [i \in 1 .. n |-> space[Place(r, i)]]>>
  /\ reader = "tryPop" /\ starved => d >= FillTrigger

\* Or there is none.
Refuses ==
  /\ r' = r /\ w' = w /\ d' = d /\ space' = space /\ last' = last /\ reader' = reader
  /\ reader' = "tryPop" => ~triggered'

LEMMA PopRemoves ==
  ASSUME FramesInv, NEW n \in 1 .. MaxFrame, Frames!tryPop(n)
  PROVE  Removes(n) \/ Refuses
<1>1. CASE d < n
  BY <1>1, Sizes DEF Frames!tryPop, Refuses, Frames!ptrs, FramesInv, Frames!Slot
<1>2. CASE ~(d < n)
  <2>1. /\ n \in Nat /\ d \in Nat /\ r \in Int /\ n <= d
        /\ reader = "tryPop" /\ Frames!MayPop(n) /\ Frames!Take(n, Frames!Read(r, n))
    BY <1>2, Sizes DEF Frames!tryPop, FramesInv, Frames!Slot
  <2>2. Frames!Read(r, n) = [i \in 1 .. n |-> space[Place(r, i)]]
    <3>1. \A i \in 1 .. n : Frames!Wrapped(r + i - 1) = Place(r, i)
      BY <2>1, WrappedIs
    <3>2. QED
      BY ONLY <3>1 DEF Frames!Read
  <2>3. Frames!Wrapped(r + n) = Place(r, n + 1)
    BY <2>1, WrappedIs
  <2>4. reader = "tryPop" /\ starved => d >= FillTrigger
    BY <2>1 DEF FramesInv, Frames!MayPop
  <2>5. ~starved'
    BY <2>1 DEF Frames!Take
  <2>6. QED
    BY <2>1, <2>2, <2>3, <2>4, <2>5 DEF Frames!Take, Removes
<1>3. QED
  BY <1>1, <1>2

LEMMA PopInt32Removes ==
  ASSUME FramesInv, NEW n \in 1 .. MaxFrame, Frames!tryPopInt32(n)
  PROVE  Removes(n) \/ Refuses
<1>0. reader = "tryPopInt32" /\ reader # "tryPop"
  BY DEF Frames!tryPopInt32
<1>1. CASE d < n
  BY <1>0, <1>1, Sizes DEF Frames!tryPopInt32, Refuses, Frames!ptrs, FramesInv, Frames!Slot
<1>2. CASE ~(d < n)
  <2> DEFINE m == Frames!getMaxContiguousPopLength
             n1 == Frames!Lesser(m, n)
             p2 == Frames!Wrapped(r + n1)
             frame == [i \in 1 .. n |-> IF i <= n1 THEN space[r + i - 1] ELSE space[p2 + i - n1 - 1]]
  <2>1. Frames!Take(n, frame)
    BY <1>2, Sizes DEF Frames!tryPopInt32, FramesInv, Frames!Slot
  <2>2. /\ Capacity \in Nat \ {0} /\ n \in Nat /\ n >= 1 /\ n <= d
        /\ r \in Int /\ 0 <= r /\ r < Capacity /\ w \in Int /\ 0 <= w /\ w < Capacity
        /\ d \in Int /\ 0 <= d /\ d < Capacity
        /\ d = (IF w >= r THEN w - r ELSE w + Capacity - r)
    BY <1>2, Sizes DEF FramesInv, Frames!Slot, Frames!DepthIsDistance
  <2>3. m = IF w > r THEN d ELSE Capacity - r
    BY <2>2 DEF Frames!getMaxContiguousPopLength, Frames!isEmpty
  <2>4. n1 = IF m < n THEN m ELSE n
    BY DEF Frames!Lesser
  <2> HIDE DEF m, n1
  <2>5. n1 \in Nat /\ n1 <= n /\ r + n1 <= Capacity /\ (n1 < n => n1 = Capacity - r)
    BY <2>2, <2>3, <2>4
  <2>6. n1 < n => p2 = 0
    BY <2>2, <2>5 DEF Frames!Wrapped
  <2> HIDE DEF p2
  <2>7. ASSUME NEW i \in 1 .. n
        PROVE  (IF i <= n1 THEN space[r + i - 1] ELSE space[p2 + i - n1 - 1]) = space[Place(r, i)]
    <3>1. CASE i <= n1
      BY <2>2, <2>5, <3>1 DEF Place
    <3>2. CASE i > n1
      <4>1. p2 + i - n1 - 1 = r + i - 1 - Capacity /\ r + i - 1 >= Capacity
        BY <2>2, <2>5, <2>6, <3>2
      <4>2. QED
        BY <2>2, <2>5, <3>2, <4>1 DEF Place
    <3>3. QED
      BY <2>5, <3>1, <3>2
  <2>8. frame = [i \in 1 .. n |-> space[Place(r, i)]]
    BY <2>7
  <2>9. Frames!Wrapped(r + n) = Place(r, n + 1)
    BY <2>2, WrappedIs
  <2> HIDE DEF frame
  <2>10. ~starved'
    BY <2>1 DEF Frames!Take
  <2>11. QED
    BY <1>0, <2>1, <2>2, <2>8, <2>9, <2>10 DEF Frames!Take, Removes
<1>3. QED
  BY <1>1, <1>2

LEMMA AppendsKeeps ==
  ASSUME FramesInv, NEW f \in Frames!Frames, Appends(f, Fits(f))
  PROVE  FramesInv'
<1> DEFINE k == Fits(f)
<1>1. /\ Capacity \in Nat \ {0}
      /\ r \in Int /\ 0 <= r /\ r < Capacity /\ w \in Int /\ 0 <= w /\ w < Capacity
      /\ d \in Int /\ 0 <= d /\ d < Capacity
      /\ d = (IF w >= r THEN w - r ELSE w + Capacity - r)
  BY Sizes DEF FramesInv, Frames!Slot, Frames!DepthIsDistance
<1>2. k \in Nat /\ d + k < Capacity
  <2> DEFINE l == Len(f)
  <2>1. l \in Nat
    BY FrameFacts, Sizes
  <2>2. k = IF Capacity - 1 - d < l THEN Capacity - 1 - d ELSE l
    BY DEF Fits, Free
  <2> HIDE DEF k, l
  <2>3. QED
    BY <1>1, <2>1, <2>2
<1> HIDE DEF k
<1>3. r' = r /\ d' = d + k /\ w' = Place(w, k + 1) /\ space' \in [Frames!Slot -> Value]
  BY DEF Appends, k
<1>4. /\ w' \in 0 .. Capacity - 1 /\ d' \in 0 .. Capacity - 1
      /\ d' = (IF w' >= r' THEN w' - r' ELSE w' + Capacity - r')
  BY <1>1, <1>2, <1>3 DEF Place
<1>5. reader' = "tryPop" /\ starved' => ~triggered'
  <2>1. reader' = reader /\ starved' = starved /\ triggered' = triggered
        /\ (reader = "tryPop" /\ starved => ~triggered)
    BY DEF Appends, FramesInv
  <2>2. QED
    BY <2>1, Zenon
<1>6. QED
  BY <1>1, <1>3, <1>4, <1>5 DEF FramesInv, Frames!Slot, Frames!DepthIsDistance

LEMMA RemovesKeeps ==
  ASSUME FramesInv, NEW n \in 1 .. MaxFrame, Removes(n)
  PROVE  FramesInv'
<1>1. /\ Capacity \in Nat \ {0} /\ n \in Nat /\ n >= 1
      /\ r \in Int /\ 0 <= r /\ r < Capacity /\ w \in Int /\ 0 <= w /\ w < Capacity
      /\ d \in Int /\ 0 <= d /\ d < Capacity
      /\ d = (IF w >= r THEN w - r ELSE w + Capacity - r)
  BY Sizes DEF FramesInv, Frames!Slot, Frames!DepthIsDistance
<1>2. n <= d /\ r' = Place(r, n + 1) /\ d' = d - n /\ w' = w /\ space' = space /\ ~starved'
  BY DEF Removes
<1>3. /\ r' \in 0 .. Capacity - 1 /\ d' \in 0 .. Capacity - 1
      /\ d' = (IF w' >= r' THEN w' - r' ELSE w' + Capacity - r')
  BY <1>1, <1>2 DEF Place
<1>4. QED
  BY <1>1, <1>2, <1>3 DEF FramesInv, Frames!Slot, Frames!DepthIsDistance

LEMMA RemovesTake ==
  ASSUME FramesInv, FramesInv', NEW n \in 1 .. MaxFrame, Removes(n)
  PROVE  Frames!Queue!Take(n)
<1>1. /\ InQueue \in Seq(Value) /\ Len(InQueue) = d
      /\ \A i \in 1 .. d : InQueue[i] = space[Place(r, i)]
  BY InQueueIs
<1>2. /\ InQueue' \in Seq(Value) /\ Len(InQueue') = d'
      /\ \A i \in 1 .. d' : InQueue'[i] = space'[Place(r', i)]
  <2>1. (InQueue \in Seq(Value) /\ Len(InQueue) = d
         /\ \A i \in 1 .. d : InQueue[i] = space[Place(r, i)])'
    BY InQueueIs, PTL
  <2>2. QED
    BY <2>1
<1>3. /\ Capacity \in Nat \ {0} /\ n \in Nat /\ n >= 1 /\ n <= d
      /\ r \in Int /\ 0 <= r /\ r < Capacity /\ d \in Int /\ 0 <= d /\ d < Capacity
  BY Sizes DEF FramesInv, Frames!Slot, Removes
<1>4. r' = Place(r, n + 1) /\ d' = d - n /\ space' = space
  BY DEF Removes
<1> DEFINE front == SubSeq(InQueue, 1, n)
           rest == SubSeq(InQueue, n + 1, d)
<1>5. /\ front \in Seq(Value) /\ Len(front) = n /\ \A i \in 1 .. n : front[i] = InQueue[i]
      /\ rest \in Seq(Value) /\ Len(rest) = d - n /\ \A i \in 1 .. d - n : rest[i] = InQueue[n + i]
  <2>1. \A i \in 1 .. d : InQueue[i] \in Value
    BY <1>1, LenProperties
  <2>2. /\ front \in Seq(Value) /\ Len(front) = IF 1 <= n THEN n - 1 + 1 ELSE 0
        /\ \A i \in 1 .. n - 1 + 1 : front[i] = InQueue[1 + i - 1]
    BY <1>1, <1>3, <2>1, SubSeqProperties
  <2>3. /\ rest \in Seq(Value) /\ Len(rest) = IF n + 1 <= d THEN d - (n + 1) + 1 ELSE 0
        /\ \A i \in 1 .. d - (n + 1) + 1 : rest[i] = InQueue[n + 1 + i - 1]
    BY <1>1, <1>3, <2>1, SubSeqProperties
  <2> HIDE DEF front, rest
  <2>4. \A i \in 1 .. d - n : i \in 1 .. d - (n + 1) + 1 /\ n + 1 + i - 1 = n + i
    BY <1>3
  <2>5. QED
    BY <1>3, <2>2, <2>3, <2>4
<1> HIDE DEF front, rest
<1>6. InQueue' = rest
  <2>1. ASSUME NEW i \in 1 .. d - n PROVE InQueue'[i] = rest[i]
    <3>1. Place(r', i) = Place(r, n + i) /\ n + i \in 1 .. d
      BY <1>3, <1>4 DEF Place
    <3>2. QED
      BY <1>1, <1>2, <1>4, <1>5, <3>1
  <2>2. QED
    BY <1>2, <1>4, <1>5, <2>1, SeqEqual
<1>7. [i \in 1 .. n |-> space[Place(r, i)]] = front
  <2> DEFINE s == [i \in 1 .. n |-> space[Place(r, i)]]
  <2>1. \A i \in 1 .. n : s[i] = InQueue[i] /\ s[i] \in Value
    BY <1>1, <1>3, LenProperties
  <2>2. s \in [1 .. n -> Value]
    BY <2>1
  <2>3. s \in Seq(Value) /\ Len(s) = n
    BY <1>3, <2>2
  <2>4. QED
    BY <1>5, <2>1, <2>3, SeqEqual
<1>8. Frames!Queue!Prefix(InQueue, n) = front
  BY <1>1, <1>3 DEF Frames!Queue!Prefix, front
<1>9. last' = <<"take", front>>
  BY <1>7 DEF Removes
<1>10. QED
  BY <1>1, <1>3, <1>6, <1>8, <1>9 DEF Frames!Queue!Take, InQueue, rest

LEMMA FramesInit ==
  Frames!Init => FramesInv /\ Frames!Queue!Init
<1> SUFFICES ASSUME Frames!Init PROVE FramesInv /\ Frames!Queue!Init
  OBVIOUS
<1>1. /\ r = 0 /\ w = 0 /\ d = 0 /\ last = <<>> /\ ~triggered
      /\ space = [i \in Frames!Slot |-> NoItem]
  BY DEF Frames!Init, Frames!PtrInit
<1>2. FramesInv
  <2>1. space \in [Frames!Slot -> Value]
    BY <1>1 DEF Value
  <2>2. QED
    BY <1>1, <2>1, Sizes DEF FramesInv, Frames!DepthIsDistance
<1>3. InQueue = <<>>
  BY <1>1, <1>2, InQueueIs
<1>4. QED
  BY <1>1, <1>2, <1>3 DEF Frames!Queue!Init, InQueue

\* Which step it was.
LEMMA FramesSteps ==
  ASSUME FramesInv, [Frames!Next]_(Frames!vars)
  PROVE  \/ \E f \in Frames!Frames : Appends(f, Fits(f))
         \/ \E n \in 1 .. MaxFrame : Removes(n)
         \/ Refuses
         \/ UNCHANGED <<r, w, d, space, triggered, last, reader, starved>>
<1>1. ASSUME NEW f \in Frames!Frames, Frames!push_frame(f) \/ Frames!pushInt32(f)
      PROVE  Appends(f, Fits(f))
  BY <1>1, PushAppends, PushInt32Appends
<1>2. ASSUME NEW n \in 1 .. MaxFrame, Frames!tryPop(n) \/ Frames!tryPopInt32(n)
      PROVE  Removes(n) \/ Refuses
  BY <1>2, PopRemoves, PopInt32Removes
<1>3. CASE UNCHANGED Frames!vars
  BY <1>3 DEF Frames!vars, Frames!ptrs
<1>4. QED
  BY <1>1, <1>2, <1>3 DEF Frames!Next

LEMMA FramesKeeps ==
  ASSUME FramesInv, [Frames!Next]_(Frames!vars)
  PROVE  FramesInv'
<1>1. CASE Refuses
  BY <1>1 DEF Refuses, FramesInv, Frames!DepthIsDistance
<1>2. CASE UNCHANGED <<r, w, d, space, triggered, last, reader, starved>>
  <2>1. reader' = "tryPop" /\ starved' => ~triggered'
    <3>1. reader' = reader /\ starved' = starved /\ triggered' = triggered
          /\ (reader = "tryPop" /\ starved => ~triggered)
      BY <1>2 DEF FramesInv
    <3>2. QED
      BY <3>1, Zenon
  <2>2. QED
    BY <1>2, <2>1 DEF FramesInv, Frames!DepthIsDistance
<1>3. QED
  BY <1>1, <1>2, FramesSteps, AppendsKeeps, RemovesKeeps

LEMMA FramesInvariant == Frames!Spec => []FramesInv
<1>1. FramesInv /\ [Frames!Next]_(Frames!vars) => FramesInv'
  BY FramesKeeps
<1>2. QED
  BY <1>1, FramesInit, PTL DEF Frames!Spec

LEMMA FramesQueue ==
  ASSUME FramesInv, FramesInv', [Frames!Next]_(Frames!vars)
  PROVE  [Frames!Queue!Next]_(Frames!Queue!vars)
<1>1. ASSUME NEW f \in Frames!Frames, Appends(f, Fits(f))
      PROVE  Frames!Queue!Next
  <2>1. Frames!Queue!Put(f)
    BY <1>1, AppendsPut
  <2>2. QED
    BY <2>1 DEF Frames!Queue!Next, Frames!Frames
<1>2. ASSUME NEW n \in 1 .. MaxFrame, Removes(n) PROVE Frames!Queue!Next
  <2>1. Frames!Queue!Take(n)
    BY <1>2, RemovesTake
  <2>2. QED
    BY <2>1 DEF Frames!Queue!Next
<1>3. ASSUME r' = r, d' = d, space' = space, last' = last PROVE UNCHANGED Frames!Queue!vars
  BY <1>3 DEF Frames!Queue!vars, Frames!Read
<1>4. Refuses \/ UNCHANGED <<r, w, d, space, triggered, last, reader, starved>>
        => UNCHANGED Frames!Queue!vars
  BY <1>3 DEF Refuses
<1>5. QED
  BY <1>1, <1>2, <1>4, FramesSteps

\* Whichever of the two calls push the frames and in whatever lengths they are
\* popped, they come out in order and unbroken, and one that does not fit
\* loses its end alone (push(), pushInt32(), tryPop(), tryPopInt32()).
THEOREM BlockQueueTheorem == Frames!Spec => ImplementsBlockQueue
<1>1. FramesInv /\ FramesInv' /\ [Frames!Next]_(Frames!vars)
        => [Frames!Queue!Next]_(Frames!Queue!vars)
  BY FramesQueue
<1>2. QED
  BY <1>1, FramesInit, FramesInvariant, PTL
  DEF Frames!Spec, ImplementsBlockQueue, Frames!ImplementsBlockQueue, Frames!Queue!Spec

\* A reader that found the queue too short pops nothing through tryPop()
\* before the queue has filled to its threshold.
THEOREM WaitsForFillTheorem == Frames!Spec => WaitsForFill
<1>1. ASSUME FramesInv, [Frames!Next]_(Frames!vars)
      PROVE  [reader = "tryPop" /\ starved /\ ~starved' => d >= FillTrigger]_(Frames!vars)
  <2>1. ASSUME Frames!Next, reader = "tryPop", starved, ~starved' PROVE d >= FillTrigger
    <3>1. ASSUME NEW f \in Frames!Frames, Appends(f, Fits(f)) PROVE FALSE
      <4>1. starved' = starved
        BY <3>1 DEF Appends
      <4>2. QED
        BY <2>1, <4>1, Zenon
    <3>2. ASSUME NEW n \in 1 .. MaxFrame, Frames!tryPop(n) PROVE d >= FillTrigger
      <4>1. CASE d < n
        <5>1. d \in Int /\ n \in Int
          BY <1>1, Sizes DEF FramesInv
        <5>2. ~(d >= n)
          BY ONLY <4>1, <5>1
        <5>3. starved' = TRUE
          BY ONLY <3>2, <5>2, Zenon DEF Frames!tryPop
        <5>4. QED
          BY <2>1, <5>3, Zenon
      <4>2. CASE ~(d < n)
        <5>1. Frames!MayPop(n) /\ reader = "tryPop"
          BY <3>2, <4>2 DEF Frames!tryPop
        <5>2. ~triggered
          BY <1>1, <2>1, <5>1, Zenon DEF FramesInv
        <5>3. QED
          BY <5>1, <5>2 DEF Frames!MayPop
      <4>3. QED
        BY <4>1, <4>2
    <3>3. ASSUME NEW n \in 1 .. MaxFrame, Frames!tryPopInt32(n) PROVE FALSE
      BY <2>1, <3>3 DEF Frames!tryPopInt32
    <3>4. QED
      BY <1>1, <2>1, <3>1, <3>2, <3>3, PushAppends, PushInt32Appends DEF Frames!Next
  <2>2. QED
    BY <1>1, <2>1
<1>2. QED
  BY <1>1, FramesInvariant, PTL DEF Frames!Spec, WaitsForFill, Frames!WaitsForFill

-----------------------------------------------------------------------------
(* The least of some numbers, and induction over a set of them.             *)

LEMMA Least ==
  ASSUME NEW T \in SUBSET Nat, T # {}
  PROVE  \E x \in T : \A y \in T : x <= y
<1> DEFINE Less == {ss \in Nat \X Nat : ss[1] < ss[2]}
<1>1. IsWellFoundedOn(Less, Nat)
  BY NatLessThanWellFounded, Zenon DEF OpToRel
<1> HIDE DEF Less
<1>2. PICK x \in T : \A y \in T : <<y, x>> \notin Less
  BY <1>1, WFMin
<1>3. ASSUME NEW y \in T PROVE x <= y
  <2>1. ~(y < x)
    BY <1>2 DEF Less
  <2>2. QED
    BY <2>1
<1>4. QED
  BY <1>2, <1>3

LEMMA Induct ==
  ASSUME NEW T, 0 \in T, \A n \in Nat : n \in T => n + 1 \in T
  PROVE  Nat \subseteq T
<1> SUFFICES ASSUME Nat \ T # {} PROVE FALSE
  OBVIOUS
<1>1. PICK x \in Nat \ T : \A y \in Nat \ T : x <= y
  BY Least
<1>2. x # 0 /\ x - 1 \in Nat
  BY <1>1
<1>3. x - 1 \in T
  BY <1>1, <1>2
<1>4. x - 1 + 1 \in T
  BY <1>2, <1>3
<1>5. QED
  BY <1>1, <1>4

-----------------------------------------------------------------------------
(* Walking along a list and taking out what is asked for.                   *)

LEMMA AppendIs ==
  ASSUME NEW U, NEW s \in Seq(U), NEW x \in U
  PROVE  /\ Append(s, x) \in Seq(U) /\ Len(Append(s, x)) = Len(s) + 1
         /\ \A i \in 1 .. Len(s) : Append(s, x)[i] = s[i]
         /\ Append(s, x)[Len(s) + 1] = x
OBVIOUS

LEMMA SameSeq ==
  ASSUME NEW U, NEW s \in Seq(U), NEW t \in Seq(U), Len(s) = Len(t),
         \A i \in 1 .. Len(s) : s[i] = t[i]
  PROVE  s = t
OBVIOUS

Start == [seen |-> <<>>, kept |-> <<>>]
Asked(l, P, n, b, k) ==
  IF l[k] \in P /\ Len(b.seen) < n
    THEN [seen |-> Append(b.seen, l[k]), kept |-> b.kept]
    ELSE [seen |-> b.seen, kept |-> Append(b.kept, l[k])]
Walks(l, P, n, N, f) ==
  f = [k \in 0 .. N |-> IF k = 0 THEN Start ELSE Asked(l, P, n, f[k - 1], k)]
Walk(l, P, n) == CHOOSE f : Walks(l, P, n, Len(l), f)

LEMMA WalkIs ==
  ASSUME NEW l, Len(l) \in Nat, NEW P, NEW n
  PROVE  /\ Walk(l, P, n)[0] = Start
         /\ \A k \in 1 .. Len(l) : Walk(l, P, n)[k] = Asked(l, P, n, Walk(l, P, n)[k - 1], k)
<1> DEFINE T == {N \in Nat : \E f : Walks(l, P, n, N, f)}
           L == Len(l)
<1>1. 0 \in T
  <2>1. Walks(l, P, n, 0, [k \in 0 .. 0 |-> Start])
    BY DEF Walks
  <2>2. QED
    BY <2>1
<1>2. ASSUME NEW N \in Nat, N \in T PROVE N + 1 \in T
  <2>1. PICK f : Walks(l, P, n, N, f)
    BY <1>2
  <2> DEFINE g == [k \in 0 .. N + 1 |-> IF k = N + 1 THEN Asked(l, P, n, f[N], N + 1) ELSE f[k]]
  <2>2. ASSUME NEW k \in 0 .. N + 1
        PROVE  g[k] = IF k = 0 THEN Start ELSE Asked(l, P, n, g[k - 1], k)
    <3>1. CASE k = N + 1
      <4>1. k # 0 /\ k - 1 = N /\ N \in 0 .. N + 1 /\ N # N + 1
        BY <3>1
      <4>2. g[k - 1] = f[N]
        BY <4>1
      <4>3. QED
        BY <3>1, <4>1, <4>2
    <3>2. CASE k # N + 1
      <4>1. k \in 0 .. N /\ (k # 0 => k - 1 \in 0 .. N + 1 /\ k - 1 # N + 1)
        BY <3>2
      <4>2. f[k] = IF k = 0 THEN Start ELSE Asked(l, P, n, f[k - 1], k)
        BY <2>1, <4>1, Zenon DEF Walks
      <4>3. k # 0 => g[k - 1] = f[k - 1]
        BY <4>1
      <4>4. QED
        BY <3>2, <4>2, <4>3
    <3>3. QED
      BY <3>1, <3>2
  <2>3. Walks(l, P, n, N + 1, g)
    <3> DEFINE h == [k \in 0 .. N + 1 |-> IF k = 0 THEN Start ELSE Asked(l, P, n, g[k - 1], k)]
    <3>1. \A k \in 0 .. N + 1 : g[k] = h[k]
      BY <2>2
    <3>2. g = h
      BY <3>1
    <3>3. QED
      BY <3>2 DEF Walks
  <2>4. QED
    BY <2>3
<1>3. \E f : Walks(l, P, n, L, f)
  <2>1. Nat \subseteq T
    <3> HIDE DEF T
    <3>1. QED
      BY <1>1, <1>2, Induct
  <2>2. QED
    BY <2>1
<1>4. Walks(l, P, n, L, Walk(l, P, n))
  BY <1>3, Zenon DEF Walk
<1>5. \A k \in 0 .. L : Walk(l, P, n)[k]
                          = IF k = 0 THEN Start ELSE Asked(l, P, n, Walk(l, P, n)[k - 1], k)
  BY <1>4, Zenon DEF Walks
<1>6. 0 \in 0 .. L /\ \A k \in 1 .. L : k \in 0 .. L /\ k # 0
  OBVIOUS
<1>7. QED
  BY <1>5, <1>6

\* k items, dealt out to two lists.
Dealt(U, b, k) ==
  /\ b = [seen |-> b.seen, kept |-> b.kept]
  /\ b.seen \in Seq(U) /\ b.kept \in Seq(U)
  /\ Len(b.seen) + Len(b.kept) = k

LEMMA WalkType ==
  ASSUME NEW U, NEW l \in Seq(U), NEW P, NEW n
  PROVE  \A k \in 0 .. Len(l) : Dealt(U, Walk(l, P, n)[k], k)
<1> DEFINE L == Len(l)
           wk == Walk(l, P, n)
           T == {k \in Nat : k <= L => Dealt(U, wk[k], k)}
<1>1. L \in Nat
  OBVIOUS
<1>2. wk[0] = Start /\ \A k \in 1 .. L : wk[k] = Asked(l, P, n, wk[k - 1], k)
  BY <1>1, WalkIs
<1> HIDE DEF wk
<1>3. 0 \in T
  <2>1. Dealt(U, wk[0], 0)
    BY <1>2 DEF Start, Dealt
  <2>2. QED
    BY <2>1
<1>4. ASSUME NEW k \in Nat, k \in T PROVE k + 1 \in T
  <2> SUFFICES ASSUME k + 1 <= L PROVE Dealt(U, wk[k + 1], k + 1)
    OBVIOUS
  <2>1. k + 1 \in 1 .. L /\ (k + 1) - 1 = k /\ k <= L
    BY <1>1
  <2>2. Dealt(U, wk[k], k)
    BY <1>4, <2>1
  <2>3. wk[k + 1] = Asked(l, P, n, wk[k], k + 1) /\ l[k + 1] \in U
    BY <1>2, <2>1
  <2> DEFINE b == wk[k]
             x == l[k + 1]
  <2>4. b.seen \in Seq(U) /\ b.kept \in Seq(U) /\ Len(b.seen) + Len(b.kept) = k
    BY <2>2 DEF Dealt
  <2>5. \/ wk[k + 1] = [seen |-> Append(b.seen, x), kept |-> b.kept]
        \/ wk[k + 1] = [seen |-> b.seen, kept |-> Append(b.kept, x)]
    BY <2>3 DEF Asked
  <2> HIDE DEF b, x, L
  <2>6. x \in U
    BY <2>3 DEF x
  <2>7. CASE wk[k + 1] = [seen |-> Append(b.seen, x), kept |-> b.kept]
    <3> DEFINE s == b.seen
               t == b.kept
    <3>1. wk[k + 1] = [seen |-> Append(s, x), kept |-> t]
      BY <2>7
    <3>2. s \in Seq(U) /\ t \in Seq(U) /\ Len(s) + Len(t) = k
      BY <2>4
    <3> HIDE DEF s, t
    <3>3. Append(s, x) \in Seq(U) /\ Len(Append(s, x)) = Len(s) + 1
      BY <2>6, <3>2, AppendIs
    <3>4. Len(Append(s, x)) + Len(t) = k + 1
      BY <3>2, <3>3
    <3>5. wk[k + 1].seen = Append(s, x) /\ wk[k + 1].kept = t
      BY <3>1
    <3>6. QED
      BY <3>1, <3>2, <3>3, <3>4, <3>5, Zenon DEF Dealt
  <2>8. CASE wk[k + 1] = [seen |-> b.seen, kept |-> Append(b.kept, x)]
    <3> DEFINE s == b.seen
               t == b.kept
    <3>1. wk[k + 1] = [seen |-> s, kept |-> Append(t, x)]
      BY <2>8
    <3>2. s \in Seq(U) /\ t \in Seq(U) /\ Len(s) + Len(t) = k
      BY <2>4
    <3> HIDE DEF s, t
    <3>3. Append(t, x) \in Seq(U) /\ Len(Append(t, x)) = Len(t) + 1
      BY <2>6, <3>2, AppendIs
    <3>4. Len(s) + Len(Append(t, x)) = k + 1
      BY <3>2, <3>3
    <3>5. wk[k + 1].seen = s /\ wk[k + 1].kept = Append(t, x)
      BY <3>1
    <3>6. QED
      BY <3>1, <3>2, <3>3, <3>4, <3>5, Zenon DEF Dealt
  <2>9. QED
    BY <2>5, <2>7, <2>8
<1>5. QED
  <2>1. Nat \subseteq T
    <3> HIDE DEF T
    <3>1. QED
      BY <1>3, <1>4, Induct
  <2>2. \A k \in 0 .. L : k \in T /\ k <= L
    BY <1>1, <2>1
  <2>3. \A k \in 0 .. L : Dealt(U, wk[k], k)
    BY <2>2
  <2>4. QED
    BY <2>3 DEF wk

\* c is a, followed by what comes behind the j-th item of l.
Joined(c, a, l, j) ==
  /\ Len(c) = Len(a) + (Len(l) - j)
  /\ \A i \in 1 .. Len(a) : c[i] = a[i]
  /\ \A i \in 1 .. Len(l) - j : c[Len(a) + i] = l[j + i]

\* Once the visitor has stopped, everything stays.
LEMMA WalkStops ==
  ASSUME NEW U, NEW l \in Seq(U), NEW P, NEW n, NEW j \in 0 .. Len(l),
         ~(Len(Walk(l, P, n)[j].seen) < n)
  PROVE  /\ Walk(l, P, n)[Len(l)].seen = Walk(l, P, n)[j].seen
         /\ Joined(Walk(l, P, n)[Len(l)].kept, Walk(l, P, n)[j].kept, l, j)
<1> DEFINE L == Len(l)
           wk == Walk(l, P, n)
           a == wk[j].kept
           Same(k) == /\ wk[j + k].seen = wk[j].seen
                      /\ Len(wk[j + k].kept) = Len(a) + k
                      /\ \A i \in 1 .. Len(a) : wk[j + k].kept[i] = a[i]
                      /\ \A i \in 1 .. k : wk[j + k].kept[Len(a) + i] = l[j + i]
           T == {k \in Nat : j + k <= L => Same(k)}
<1>1. L \in Nat /\ j \in Nat /\ j <= L
  OBVIOUS
<1>2. \A k \in 1 .. L : wk[k] = Asked(l, P, n, wk[k - 1], k)
  BY <1>1, WalkIs
<1>3. \A k \in 0 .. L : wk[k].kept \in Seq(U)
  BY WalkType DEF Dealt
<1>4. ~(Len(wk[j].seen) < n)
  OBVIOUS
<1>5. Len(a) \in Nat
  BY <1>1, <1>3
<1>6. \A k \in 1 .. L : l[k] \in U
  OBVIOUS
<1> HIDE DEF wk, Same, a, L
<1>7. 0 \in T
  <2>1. j + 0 = j /\ 1 .. 0 = {} /\ Len(a) + 0 = Len(a)
    BY <1>1, <1>5
  <2>2. Same(0)
    BY <2>1 DEF Same, a
  <2>3. QED
    BY <2>2
<1>8. ASSUME NEW k \in Nat, k \in T PROVE k + 1 \in T
  <2> SUFFICES ASSUME j + (k + 1) <= L PROVE Same(k + 1)
    OBVIOUS
  <2> DEFINE m == j + k
             K == Len(a)
  <2>1. m + 1 \in 1 .. L /\ j + (k + 1) = m + 1 /\ (m + 1) - 1 = m /\ j + k <= L /\ m \in 0 .. L
        /\ K + (k + 1) = (K + k) + 1
    BY <1>1, <1>5
  <2>2. Same(k)
    BY <1>8, <2>1
  <2>3. /\ wk[m].seen = wk[j].seen
        /\ Len(wk[m].kept) = K + k
        /\ \A i \in 1 .. K : wk[m].kept[i] = a[i]
        /\ \A i \in 1 .. k : wk[m].kept[K + i] = l[j + i]
    BY <2>2 DEF Same
  <2> HIDE DEF m
  <2> DEFINE b == wk[m].kept
             x == l[m + 1]
  <2>4. wk[m + 1] = [seen |-> wk[m].seen, kept |-> Append(b, x)]
    <3>1. wk[m + 1] = Asked(l, P, n, wk[m], m + 1)
      BY <1>2, <2>1
    <3>2. QED
      BY <1>4, <2>3, <3>1 DEF Asked
  <2>5. wk[m + 1].seen = wk[j].seen /\ wk[m + 1].kept = Append(b, x)
    BY <2>3, <2>4
  <2>6. b \in Seq(U) /\ x \in U
    BY <1>3, <1>6, <2>1
  <2>7. Len(b) = K + k /\ (\A i \in 1 .. K : b[i] = a[i]) /\ \A i \in 1 .. k : b[K + i] = l[j + i]
    BY <2>3
  <2> HIDE DEF b, x, K
  <2>8. /\ Len(Append(b, x)) = Len(b) + 1
        /\ \A i \in 1 .. Len(b) : Append(b, x)[i] = b[i]
        /\ Append(b, x)[Len(b) + 1] = x
    BY <2>6, AppendIs
  <2> DEFINE c == Append(b, x)
  <2> HIDE DEF c
  <2>9. K \in Nat
    BY <1>5 DEF K
  <2>10. Len(c) = K + (k + 1)
    BY <2>1, <2>7, <2>8 DEF c
  <2>11. \A i \in 1 .. K : c[i] = a[i]
    <3>1. \A i \in 1 .. K : i \in 1 .. Len(b)
      BY <2>7, <2>9
    <3>2. QED
      BY <2>7, <2>8, <3>1 DEF c
  <2>12. \A i \in 1 .. k + 1 : c[K + i] = l[j + i]
    <3>1. \A i \in 1 .. k : K + i \in 1 .. Len(b)
      BY <2>7, <2>9
    <3>2. \A i \in 1 .. k : c[K + i] = l[j + i]
      BY <2>7, <2>8, <3>1 DEF c
    <3>3. c[K + (k + 1)] = l[j + (k + 1)]
      BY <2>1, <2>7, <2>8 DEF c, x
    <3>4. \A i \in 1 .. k + 1 : i \in 1 .. k \/ i = k + 1
      OBVIOUS
    <3>5. QED
      BY <3>2, <3>3, <3>4
  <2>13. QED
    BY <2>1, <2>5, <2>10, <2>11, <2>12 DEF Same, K, c, b
<1>9. Same(L - j)
  <2>1. Nat \subseteq T
    <3> HIDE DEF T
    <3>1. QED
      BY <1>7, <1>8, Induct
  <2>2. L - j \in Nat /\ j + (L - j) = L
    BY <1>1
  <2>3. QED
    BY <2>1, <2>2
<1>10. j + (L - j) = L
  BY <1>1
<1>11. QED
  BY <1>9, <1>10 DEF wk, Same, Joined, a, L

-----------------------------------------------------------------------------
(* What OrderedList says, in these terms.                                   *)

Counts_(N, f) == f = [n \in 0 .. N |-> IF n = 0 THEN 0 ELSE f[n - 1] + 1]

\* Items of weight 1.
LEMMA CountIs ==
  ASSUME NEW N \in Nat
  PROVE  (CHOOSE f : Counts_(N, f))[N] = N
<1> DEFINE g == [n \in 0 .. N |-> n]
           s == CHOOSE f : Counts_(N, f)
           T == {n \in Nat : n <= N => s[n] = n}
<1>1. Counts_(N, g)
  <2>1. \A n \in 0 .. N : n = IF n = 0 THEN 0 ELSE g[n - 1] + 1
    OBVIOUS
  <2>2. QED
    BY <2>1 DEF Counts_
<1>2. Counts_(N, s)
  BY <1>1, Zenon
<1> HIDE DEF s
<1>3. \A n \in 0 .. N : s[n] = IF n = 0 THEN 0 ELSE s[n - 1] + 1
  BY <1>2, Zenon DEF Counts_
<1>4. 0 \in T
  BY <1>3
<1>5. ASSUME NEW n \in Nat, n \in T PROVE n + 1 \in T
  <2> SUFFICES ASSUME n + 1 <= N PROVE s[n + 1] = n + 1
    OBVIOUS
  <2>1. n + 1 \in 0 .. N /\ n + 1 # 0 /\ (n + 1) - 1 = n /\ n <= N
    OBVIOUS
  <2>2. s[n] = n
    BY <1>5, <2>1
  <2>3. QED
    BY <1>3, <2>1, <2>2
<1>6. N \in T
  <2> HIDE DEF T
  <2>1. Nat \subseteq T
    BY <1>4, <1>5, Induct
  <2>2. QED
    BY <2>1
<1>7. QED
  BY <1>6 DEF s

-----------------------------------------------------------------------------
(* FixedQueue.                                                              *)

QueueInv == data \in [0 .. Size - 1 -> Queued] /\ size \in 0 .. Size

LEMMA SizeIs == Size \in Nat \ {0}
BY StorageAssumption DEF Fixed!FixedQueueAssumption

LEMMA QueueContents ==
  ASSUME QueueInv
  PROVE  /\ Fixed!Contents \in Seq(Queued) /\ Len(Fixed!Contents) = size
         /\ \A i \in 1 .. size : Fixed!Contents[i] = data[i - 1]
<1>1. size \in Nat /\ size <= Size /\ Size \in Nat
  BY SizeIs DEF QueueInv
<1>2. \A i \in 1 .. size : i - 1 \in 0 .. Size - 1
  BY <1>1
<1>3. \A i \in 1 .. size : data[i - 1] \in Queued
  BY <1>2 DEF QueueInv
<1>4. QED
  BY <1>1, <1>3 DEF Fixed!Contents

LEMMA QueueUsed ==
  ASSUME QueueInv
  PROVE  Fixed!Arrival!Used = size
<1>1. Len(Fixed!Contents) = size /\ size \in Nat
  BY QueueContents, SizeIs DEF QueueInv
<1>2. Fixed!Arrival!Weights = CHOOSE f : Counts_(size, f)
  BY <1>1 DEF Fixed!Arrival!Weights, Counts_
<1>3. QED
  BY <1>1, <1>2, CountIs DEF Fixed!Arrival!Used

LEMMA QueuePlace ==
  ASSUME QueueInv, NEW x
  PROVE  Fixed!Arrival!Place(x) = size + 1
<1>1. Len(Fixed!Contents) = size /\ size \in Nat
  BY QueueContents, SizeIs DEF QueueInv
<1>2. Fixed!Arrival!Place(x)
        = CHOOSE p \in 1 .. size + 1 : /\ \A i \in 1 .. p - 1 : ~FALSE
                                       /\ p <= size => FALSE
  BY <1>1 DEF Fixed!Arrival!Place
<1>3. QED
  BY <1>1, <1>2

QueueStep(P, b) ==
  IF b.pos >= b.size \/ b.left = 0 THEN b ELSE Fixed!Turn(P, b)
Loops(P, start, N, f) ==
  f = [i \in 0 .. N |-> IF i = 0 THEN start ELSE QueueStep(P, f[i - 1])]
QueueLoop(P, start) == CHOOSE f : Loops(P, start, Size, f)

LEMMA QueueLoopIs ==
  ASSUME NEW P, NEW start
  PROVE  /\ Fixed!Loop(P, start) = QueueLoop(P, start)[Size]
         /\ QueueLoop(P, start)[0] = start
         /\ \A i \in 1 .. Size :
              QueueLoop(P, start)[i] = QueueStep(P, QueueLoop(P, start)[i - 1])
<1> DEFINE T == {N \in Nat : \E f : Loops(P, start, N, f)}
<1>1. 0 \in T
  <2>1. Loops(P, start, 0, [i \in 0 .. 0 |-> start])
    BY DEF Loops
  <2>2. QED
    BY <2>1
<1>2. ASSUME NEW N \in Nat, N \in T PROVE N + 1 \in T
  <2>1. PICK f : Loops(P, start, N, f)
    BY <1>2
  <2> DEFINE g == [i \in 0 .. N + 1 |-> IF i = N + 1 THEN QueueStep(P, f[N]) ELSE f[i]]
  <2>2. ASSUME NEW i \in 0 .. N + 1
        PROVE  g[i] = IF i = 0 THEN start ELSE QueueStep(P, g[i - 1])
    <3>1. CASE i = N + 1
      <4>1. i # 0 /\ i - 1 = N /\ N \in 0 .. N + 1 /\ N # N + 1
        BY <3>1
      <4>2. g[i - 1] = f[N]
        BY <4>1
      <4>3. QED
        BY <3>1, <4>1, <4>2
    <3>2. CASE i # N + 1
      <4>1. i \in 0 .. N /\ (i # 0 => i - 1 \in 0 .. N + 1 /\ i - 1 # N + 1)
        BY <3>2
      <4>2. f[i] = IF i = 0 THEN start ELSE QueueStep(P, f[i - 1])
        BY <2>1, <4>1, Zenon DEF Loops
      <4>3. i # 0 => g[i - 1] = f[i - 1]
        BY <4>1
      <4>4. QED
        BY <3>2, <4>2, <4>3
    <3>3. QED
      BY <3>1, <3>2
  <2>3. Loops(P, start, N + 1, g)
    <3> DEFINE h == [i \in 0 .. N + 1 |-> IF i = 0 THEN start ELSE QueueStep(P, g[i - 1])]
    <3>1. \A i \in 0 .. N + 1 : g[i] = h[i]
      BY <2>2
    <3>2. g = h
      BY <3>1
    <3>3. QED
      BY <3>2 DEF Loops
  <2>4. QED
    BY <2>3
<1>3. \E f : Loops(P, start, Size, f)
  <2>1. Nat \subseteq T
    <3> HIDE DEF T
    <3>1. QED
      BY <1>1, <1>2, Induct
  <2>2. QED
    BY <2>1, SizeIs
<1>4. Loops(P, start, Size, QueueLoop(P, start))
  BY <1>3, Zenon DEF QueueLoop
<1>5. \A i \in 0 .. Size : QueueLoop(P, start)[i]
        = IF i = 0 THEN start ELSE QueueStep(P, QueueLoop(P, start)[i - 1])
  BY <1>4, Zenon DEF Loops
<1>6. 0 \in 0 .. Size /\ \A i \in 1 .. Size : i \in 0 .. Size /\ i # 0
  BY SizeIs
<1>7. Fixed!Loop(P, start) = QueueLoop(P, start)[Size]
  BY DEF Fixed!Loop, QueueLoop, Loops, QueueStep
<1>8. QED
  BY <1>5, <1>6, <1>7

Arrays == [0 .. Size - 1 -> Queued]
Turns == [data : Arrays, size : Nat, pos : Nat, left : Nat, seen : Seq(Queued)]

\* remove() shifts what is behind the place.
LEMMA RemoveIs ==
  ASSUME NEW q \in Turns, NEW p \in Nat, q.size \in 1 .. Size
  PROVE  LET cut == Fixed!remove(q, p)
         IN  /\ cut \in Turns /\ cut.size = q.size - 1
             /\ cut.pos = q.pos /\ cut.left = q.left /\ cut.seen = q.seen
             /\ \A i \in 0 .. Size - 1 :
                  cut.data[i] = IF p <= i /\ i <= q.size - 2 THEN q.data[i + 1] ELSE q.data[i]
<1> DEFINE old == q.data
           e == [i \in DOMAIN old |-> IF i \in p .. (q.size - 2) THEN old[i + 1] ELSE old[i]]
<1>1. old \in Arrays /\ DOMAIN old = 0 .. Size - 1 /\ q.size \in Nat /\ Size \in Nat
  BY SizeIs DEF Turns, Arrays
<1>2. \A i \in 0 .. Size - 1 : i \in p .. (q.size - 2) <=> p <= i /\ i <= q.size - 2
  BY <1>1
<1>3. \A i \in 0 .. Size - 1 : p <= i /\ i <= q.size - 2 => i + 1 \in 0 .. Size - 1
  BY <1>1
<1>4. e \in Arrays
  BY <1>1, <1>2, <1>3 DEF Arrays
<1>5. \A i \in 0 .. Size - 1 : e[i] = IF p <= i /\ i <= q.size - 2 THEN old[i + 1] ELSE old[i]
  BY <1>1, <1>2
<1>6. Fixed!remove(q, p) = [q EXCEPT !.data = e, !.size = q.size - 1]
  BY DEF Fixed!remove
<1> HIDE DEF e
<1>7. q.size - 1 \in Nat
  BY <1>1
<1>8. QED
  BY <1>4, <1>5, <1>6, <1>7 DEF Turns

\* The loop after it has asked about the first j items of l: what it kept is in
\* the front, and the rest follows at once.
Shape(q, l, b, n, j) ==
  /\ q \in Turns
  /\ q.pos = Len(b.kept) /\ q.seen = b.seen /\ q.left = n - Len(b.seen)
  /\ q.size = q.pos + (Len(l) - j)
  /\ \A i \in 1 .. q.pos : q.data[i - 1] = b.kept[i]
  /\ \A i \in 1 .. Len(l) - j : q.data[(q.pos + i) - 1] = l[j + i]

LEMMA QueueTurn ==
  ASSUME NEW l \in Seq(Queued), Len(l) <= Size, NEW P, NEW n \in Nat, NEW j \in 0 .. Len(l) - 1,
         NEW q, Shape(q, l, Walk(l, P, n)[j], n, j), q.left # 0
  PROVE  Shape(Fixed!Turn(P, q), l, Walk(l, P, n)[j + 1], n, j + 1)
<1>0. \A m \in 0 .. Len(l) : Dealt(Queued, Walk(l, P, n)[m], m)
  BY WalkType
<1> DEFINE L == Len(l)
           x == l[j + 1]
           b == Walk(l, P, n)[j]
           s == b.seen
           k == b.kept
<1>1. L \in Nat /\ Size \in Nat /\ j \in Nat /\ j + 1 <= L /\ j \in 0 .. L /\ j + 1 \in 1 .. L
      /\ (j + 1) - 1 = j
  BY SizeIs
<1>2. x \in Queued
  BY <1>1
<1>3. s \in Seq(Queued) /\ k \in Seq(Queued) /\ Len(s) + Len(k) = j /\ b = [seen |-> s, kept |-> k]
  <2>1. j \in 0 .. Len(l)
    BY <1>1
  <2>3. QED
    BY <1>0, <2>1, Zenon DEF Dealt
<1>4. Walk(l, P, n)[j + 1] = Asked(l, P, n, b, j + 1)
  BY <1>1, WalkIs
<1> HIDE DEF b
<1>5. /\ q \in Turns /\ q.pos = Len(k) /\ q.seen = s /\ q.left = n - Len(s)
      /\ q.size = q.pos + (L - j)
      /\ \A i \in 1 .. q.pos : q.data[i - 1] = k[i]
      /\ \A i \in 1 .. L - j : q.data[(q.pos + i) - 1] = l[j + i]
  BY DEF Shape, b
<1>6. q.data \in Arrays /\ q.size \in Nat /\ q.pos \in Nat /\ q.left \in Nat
  BY <1>5 DEF Turns
<1> HIDE DEF L, x, s, k
<1>7. q.size \in 1 .. Size /\ q.pos + 1 <= q.size
  <2>1. Len(s) \in Nat /\ Len(k) \in Nat
    BY <1>3
  <2>2. q.pos <= j
    BY <1>3, <1>5, <2>1
  <2>3. L <= Size
    BY DEF L
  <2>4. QED
    BY <1>1, <1>5, <1>6, <2>2, <2>3
<1>8. q.data[q.pos] = x
  <2>1. 1 \in 1 .. L - j /\ (q.pos + 1) - 1 = q.pos
    BY <1>1, <1>6
  <2>2. q.data[(q.pos + 1) - 1] = l[j + 1]
    BY <1>5, <2>1
  <2>3. QED
    BY <2>1, <2>2 DEF x
<1>9. Len(s) < n
  BY <1>3, <1>5, <1>6
<1>10. CASE x \in P
  <2> DEFINE cut == Fixed!remove(q, q.pos)
             t == [cut EXCEPT !.left = cut.left - 1, !.seen = Append(cut.seen, q.data[q.pos])]
  <2>1. Fixed!Turn(P, q) = t
    BY <1>8, <1>10 DEF Fixed!Turn
  <2>2. /\ cut \in Turns /\ cut.size = q.size - 1
        /\ cut.pos = q.pos /\ cut.left = q.left /\ cut.seen = q.seen
        /\ \A i \in 0 .. Size - 1 :
             cut.data[i] = IF q.pos <= i /\ i <= q.size - 2 THEN q.data[i + 1] ELSE q.data[i]
    BY <1>5, <1>6, <1>7, RemoveIs
  <2> HIDE DEF cut
  <2>3. Append(s, x) \in Seq(Queued) /\ Len(Append(s, x)) = Len(s) + 1
    BY <1>2, <1>3, AppendIs
  <2>4. cut.left - 1 \in Nat /\ cut.left - 1 = n - Len(Append(s, x))
    BY <1>3, <1>5, <1>6, <2>2, <2>3
  <2>5. t = [cut EXCEPT !.left = cut.left - 1, !.seen = Append(s, x)]
    BY <1>5, <1>8, <2>2
  <2>6. /\ t \in Turns /\ t.size = cut.size /\ t.pos = cut.pos /\ t.data = cut.data
        /\ t.left = cut.left - 1 /\ t.seen = Append(s, x)
    BY <2>2, <2>3, <2>4, <2>5 DEF Turns
  <2> HIDE DEF t
  <2>7. Walk(l, P, n)[j + 1] = [seen |-> Append(s, x), kept |-> k]
    BY <1>4, <1>9, <1>10 DEF Asked, s, k, x
  <2>8. t.size = t.pos + (L - (j + 1))
    <3>1. t.size = q.size - 1 /\ t.pos = q.pos
      BY <2>2, <2>6
    <3>2. q.size = q.pos + (L - j)
      BY <1>5
    <3>3. QED
      BY <1>1, <1>6, <3>1, <3>2
  <2>9. \A i \in 1 .. t.pos : t.data[i - 1] = k[i]
    <3> SUFFICES ASSUME NEW i \in 1 .. t.pos PROVE t.data[i - 1] = k[i]
      OBVIOUS
    <3>0. t.pos = q.pos
      BY ONLY <2>2, <2>6
    <3>a. i \in 1 .. q.pos
      BY ONLY <3>0, i \in 1 .. t.pos
    <3>1. i \in 1 .. q.pos /\ i - 1 \in 0 .. Size - 1 /\ ~(q.pos <= i - 1)
      BY ONLY <1>1, <1>6, <1>7, <3>a
    <3>2. t.data[i - 1] = q.data[i - 1]
      BY <2>2, <2>6, <3>1
    <3>3. QED
      BY <1>5, <3>1, <3>2
  <2>10. \A i \in 1 .. L - (j + 1) : t.data[(t.pos + i) - 1] = l[(j + 1) + i]
    <3> SUFFICES ASSUME NEW i \in 1 .. L - (j + 1) PROVE t.data[(t.pos + i) - 1] = l[(j + 1) + i]
      OBVIOUS
    <3> DEFINE from == (q.pos + i) - 1
    <3>1. /\ from \in 0 .. Size - 1 /\ q.pos <= from /\ from <= q.size - 2
          /\ from + 1 = (q.pos + (i + 1)) - 1 /\ i + 1 \in 1 .. L - j /\ j + (i + 1) = (j + 1) + i
      <4>1. i \in Nat /\ 1 <= i /\ i <= L - (j + 1)
        BY ONLY <1>1, i \in 1 .. L - (j + 1)
      <4>2. q.size = q.pos + (L - j) /\ q.size <= Size
        BY ONLY <1>5, <1>7
      <4>3. from \in 0 .. Size - 1 /\ q.pos <= from /\ from <= q.size - 2
        <5> DEFINE A == q.pos
                   B == q.size
        <5>1. A \in Nat /\ B \in Nat /\ B = A + (L - j) /\ B <= Size
          BY <1>6, <4>2
        <5> HIDE DEF A, B
        <5>2. (A + i) - 1 \in 0 .. Size - 1 /\ A <= (A + i) - 1 /\ (A + i) - 1 <= B - 2
          BY ONLY <1>1, <4>1, <5>1
        <5>3. QED
          BY <5>2 DEF A, B
      <4>4. from + 1 = (q.pos + (i + 1)) - 1 /\ i + 1 \in 1 .. L - j /\ j + (i + 1) = (j + 1) + i
        BY ONLY <1>1, <1>6, <4>1
      <4>5. QED
        BY ONLY <4>3, <4>4
    <3>2. q.data[(q.pos + (i + 1)) - 1] = l[j + (i + 1)]
      BY <1>5, <3>1
    <3>3. (t.pos + i) - 1 = from
      BY <2>2, <2>6
    <3> HIDE DEF from
    <3>4. t.data[from] = q.data[from + 1]
      BY <2>2, <2>6, <3>1
    <3>5. QED
      BY <3>1, <3>2, <3>3, <3>4
  <2>11. t.pos = Len(k)
    BY <1>5, <2>2, <2>6
  <2> DEFINE c == [seen |-> Append(s, x), kept |-> k]
  <2>12. c.seen = Append(s, x) /\ c.kept = k
    OBVIOUS
  <2> HIDE DEF c
  <2>13. t.left = n - Len(Append(s, x))
    BY <2>4, <2>6
  <2>14. Shape(t, l, c, n, j + 1)
    BY <2>6, <2>8, <2>9, <2>10, <2>11, <2>12, <2>13 DEF Shape, L
  <2>15. QED
    BY <2>1, <2>7, <2>14 DEF c
<1>11. CASE x \notin P
  <2> DEFINE t == [q EXCEPT !.pos = q.pos + 1]
  <2>1. Fixed!Turn(P, q) = t
    BY <1>8, <1>11 DEF Fixed!Turn
  <2>2. /\ t \in Turns /\ t.size = q.size /\ t.pos = q.pos + 1 /\ t.data = q.data
        /\ t.left = q.left /\ t.seen = q.seen
    <3>1. q \in Turns /\ q.pos + 1 \in Nat
      BY <1>5, <1>6
    <3> DEFINE next == q.pos + 1
    <3> HIDE DEF next
    <3>2. next \in Nat
      BY <3>1 DEF next
    <3> DEFINE e == [q EXCEPT !.pos = next]
    <3>3. /\ e \in Turns /\ e.size = q.size /\ e.pos = next /\ e.data = q.data
          /\ e.left = q.left /\ e.seen = q.seen
      BY ONLY <3>1, <3>2 DEF Turns
    <3>4. QED
      BY <3>3 DEF next
  <2> HIDE DEF t
  <2>3. /\ Append(k, x) \in Seq(Queued) /\ Len(Append(k, x)) = Len(k) + 1
        /\ \A i \in 1 .. Len(k) : Append(k, x)[i] = k[i]
        /\ Append(k, x)[Len(k) + 1] = x
    BY <1>2, <1>3, AppendIs
  <2>4. Walk(l, P, n)[j + 1] = [seen |-> s, kept |-> Append(k, x)]
    BY <1>4, <1>11 DEF Asked, s, k, x
  <2> DEFINE a == Append(k, x)
             c == [seen |-> s, kept |-> a]
  <2>5. c.seen = s /\ c.kept = a
    OBVIOUS
  <2> HIDE DEF c, a
  <2>6. t.pos = Len(a)
    BY <1>5, <2>2, <2>3 DEF a
  <2>7. t.size = t.pos + (L - (j + 1))
    BY <1>1, <1>5, <1>6, <2>2
  <2>8. \A i \in 1 .. t.pos : t.data[i - 1] = a[i]
    <3> SUFFICES ASSUME NEW i \in 1 .. t.pos PROVE t.data[i - 1] = a[i]
      OBVIOUS
    <3>1. CASE i = q.pos + 1
      <4>1. t.data[i - 1] = x
        BY <1>6, <1>8, <2>2, <3>1, SMTT(20)
      <4>2. a[i] = x
        BY <1>5, <2>3, <3>1 DEF a
      <4>3. QED
        BY <4>1, <4>2
    <3>2. CASE i # q.pos + 1
      <4>1. i \in 1 .. q.pos
        BY <1>6, <2>2, <3>2
      <4>2. q.data[i - 1] = k[i] /\ a[i] = k[i]
        BY <1>5, <2>3, <4>1 DEF a
      <4>3. QED
        BY <2>2, <4>2
    <3>3. QED
      BY <3>1, <3>2
  <2>9. \A i \in 1 .. L - (j + 1) : t.data[(t.pos + i) - 1] = l[(j + 1) + i]
    <3> SUFFICES ASSUME NEW i \in 1 .. L - (j + 1) PROVE t.data[(t.pos + i) - 1] = l[(j + 1) + i]
      OBVIOUS
    <3> DEFINE v == t.pos
    <3>0. v = q.pos + 1
      BY <2>2
    <3> HIDE DEF v
    <3>1. i + 1 \in 1 .. L - j /\ j + (i + 1) = (j + 1) + i
      BY <1>1
    <3>4. (v + i) - 1 = (q.pos + (i + 1)) - 1
      <4>1. \A g, h \in Nat : ((g + 1) + h) - 1 = (g + (h + 1)) - 1
        OBVIOUS
      <4>2. i \in Nat /\ q.pos \in Nat
        BY <1>1, <1>6
      <4>3. QED
        BY <3>0, <4>1, <4>2, Zenon
    <3>2. q.data[(q.pos + (i + 1)) - 1] = l[j + (i + 1)]
      BY <1>5, <3>1
    <3>3. QED
      BY <2>2, <3>1, <3>2, <3>4 DEF v
  <2>10. Shape(t, l, c, n, j + 1)
    BY <1>5, <2>2, <2>5, <2>6, <2>7, <2>8, <2>9 DEF Shape, L
  <2>11. QED
    BY <2>1, <2>4, <2>10 DEF c, a
<1>12. QED
  BY <1>10, <1>11

QueueStart(n) == [data |-> data, size |-> size, pos |-> 0, left |-> n, seen |-> <<>>]

\* What the loop leaves behind is what the walk along the contents keeps.
LEMMA QueueLoopEnds ==
  ASSUME QueueInv, NEW P, NEW n \in Nat
  PROVE  LET end  == Fixed!Loop(P, QueueStart(n))
             walk == Walk(Fixed!Contents, P, n)[Len(Fixed!Contents)]
         IN  /\ end.data \in Arrays /\ end.size \in 0 .. Size
             /\ end.seen = walk.seen
             /\ [i \in 1 .. end.size |-> end.data[i - 1]] = walk.kept
<1> DEFINE l == Fixed!Contents
           L == Len(l)
           W == Walk(l, P, n)
           start == QueueStart(n)
           q == QueueLoop(P, start)
           Now(i) == \E j \in 0 .. L : /\ Shape(q[i], l, W[j], n, j)
                                       /\ j = i \/ q[i].left = 0 \/ j = L
           T == {i \in Nat : i <= Size => Now(i)}
<1>1. L = size /\ L \in Nat /\ Size \in Nat /\ L <= Size /\ l \in Seq(Queued) /\ data \in Arrays
  BY QueueContents, SizeIs DEF QueueInv, Arrays
<1>2. \A i \in 1 .. L : l[i] = data[i - 1]
  BY <1>1, QueueContents
<1>3. /\ Fixed!Loop(P, start) = q[Size] /\ q[0] = start
      /\ \A i \in 1 .. Size : q[i] = QueueStep(P, q[i - 1])
  BY QueueLoopIs
<1>4. \A j \in 0 .. L : Dealt(Queued, W[j], j)
  BY <1>1, WalkType
<1>5. W[0] = Start
  BY <1>1, WalkIs
<1>6. ASSUME NEW q2, NEW j \in 0 .. L - 1, Shape(q2, l, W[j], n, j), q2.left # 0
      PROVE  Shape(Fixed!Turn(P, q2), l, W[j + 1], n, j + 1)
  BY <1>1, <1>6, QueueTurn
<1>7. ASSUME NEW j \in 0 .. L, ~(Len(W[j].seen) < n)
      PROVE  W[L].seen = W[j].seen /\ Joined(W[L].kept, W[j].kept, l, j)
  BY <1>1, <1>7, WalkStops
<1> HIDE DEF l, L, W, q, T
<1>8. 0 \in T
  <2>1. Shape(start, l, W[0], n, 0)
    <3>1. start \in Turns
      BY <1>1 DEF QueueStart, Turns
    <3>2. /\ start.pos = 0 /\ start.size = L /\ start.left = n /\ start.seen = <<>>
          /\ start.data = data
      BY <1>1 DEF QueueStart
    <3>3. W[0].seen = <<>> /\ W[0].kept = <<>>
      BY <1>5 DEF Start
    <3> HIDE DEF start
    <3>4. Len(<<>>) = 0
      OBVIOUS
    <3>5. \A i \in 1 .. L : start.data[(0 + i) - 1] = l[0 + i]
      BY <1>1, <1>2, <3>2
    <3>6. L - 0 = L /\ 0 + L = L /\ n - 0 = n
      BY <1>1
    <3>7. QED
      BY <3>1, <3>2, <3>3, <3>4, <3>5, <3>6 DEF Shape, L
  <2>2. Now(0)
    BY <1>1, <1>3, <2>1
  <2>3. QED
    BY <2>2 DEF T
<1>9. ASSUME NEW i \in Nat, i \in T PROVE i + 1 \in T
  <2> SUFFICES ASSUME i + 1 <= Size PROVE Now(i + 1)
    BY DEF T
  <2>1. i + 1 \in 1 .. Size /\ (i + 1) - 1 = i /\ i <= Size
    BY <1>1
  <2>2. Now(i)
    BY <1>9, <2>1 DEF T
  <2>3. PICK j \in 0 .. L : Shape(q[i], l, W[j], n, j) /\ (j = i \/ q[i].left = 0 \/ j = L)
    BY <2>2
  <2>4. q[i + 1] = QueueStep(P, q[i])
    BY <1>3, <2>1
  <2>5. q[i].pos \in Nat /\ q[i].size \in Nat /\ q[i].size = q[i].pos + (L - j)
    BY <2>3 DEF Shape, Turns, L
  <2>6. q[i].pos >= q[i].size <=> j = L
    BY <1>1, <2>5
  <2>7. CASE q[i].pos >= q[i].size \/ q[i].left = 0
    <3>1. q[i + 1] = q[i] /\ (q[i].left = 0 \/ j = L)
      BY <2>4, <2>6, <2>7 DEF QueueStep
    <3>2. QED
      BY <2>3, <3>1
  <2>8. CASE ~(q[i].pos >= q[i].size \/ q[i].left = 0)
    <3>1. q[i + 1] = Fixed!Turn(P, q[i]) /\ j = i /\ j # L /\ q[i].left # 0
      BY <2>3, <2>4, <2>6, <2>8 DEF QueueStep
    <3>2. j \in 0 .. L - 1 /\ j + 1 \in 0 .. L
      BY <1>1, <3>1
    <3>3. Shape(Fixed!Turn(P, q[i]), l, W[j + 1], n, j + 1)
      BY <1>6, <2>3, <3>1, <3>2
    <3>4. Shape(q[i + 1], l, W[j + 1], n, j + 1) /\ j + 1 = i + 1
      BY <3>1, <3>3
    <3>5. QED
      BY <3>2, <3>4
  <2>9. QED
    BY <2>7, <2>8
<1>10. Now(Size)
  <2>1. Nat \subseteq T
    BY <1>8, <1>9, Induct
  <2>2. QED
    BY <1>1, <2>1 DEF T
<1> DEFINE end == q[Size]
           b == W[L]
<1>11. PICK j \in 0 .. L : Shape(end, l, W[j], n, j) /\ (j = Size \/ end.left = 0 \/ j = L)
  BY <1>10
<1>12. /\ end \in Turns
       /\ end.pos = Len(W[j].kept) /\ end.seen = W[j].seen /\ end.left = n - Len(W[j].seen)
       /\ end.size = end.pos + (L - j)
       /\ \A i \in 1 .. end.pos : end.data[i - 1] = W[j].kept[i]
       /\ \A i \in 1 .. L - j : end.data[(end.pos + i) - 1] = l[j + i]
  BY <1>11 DEF Shape, L
<1>13. /\ W[j].seen \in Seq(Queued) /\ W[j].kept \in Seq(Queued)
       /\ Len(W[j].seen) + Len(W[j].kept) = j
       /\ Len(W[j].seen) \in Nat /\ Len(W[j].kept) \in Nat
  <2>1. Dealt(Queued, W[j], j)
    BY <1>4
  <2>2. /\ W[j].seen \in Seq(Queued) /\ W[j].kept \in Seq(Queued)
        /\ Len(W[j].seen) + Len(W[j].kept) = j
    BY <2>1, Zenon DEF Dealt
  <2>3. QED
    BY <2>2, LenProperties
<1>14. b.kept \in Seq(Queued)
  <2>1. L \in 0 .. L
    BY <1>1
  <2>2. Dealt(Queued, W[L], L)
    BY <1>4, <2>1
  <2>3. QED
    BY <2>2, Zenon DEF Dealt
<1>15. end.size \in 0 .. Size /\ end.data \in Arrays /\ end.pos \in Nat /\ end.left \in Nat
  <2>1. end.data \in Arrays /\ end.pos \in Nat /\ end.size \in Nat /\ end.left \in Nat
    BY <1>12 DEF Turns
  <2>2. end.pos <= j
    <3>1. end.pos = Len(W[j].kept)
      BY <1>12
    <3>2. Len(W[j].seen) + Len(W[j].kept) = j /\ Len(W[j].seen) \in Nat
      BY <1>13
    <3> HIDE DEF end
    <3>3. QED
      <4>1. \A g, h, m \in Nat : g + h = m => h <= m
        OBVIOUS
      <4>2. j \in Nat /\ Len(W[j].kept) \in Nat
        BY <1>1, <1>13
      <4>3. QED
        BY <3>1, <3>2, <4>1, <4>2, Zenon
  <2>3. QED
    BY <1>1, <1>12, <2>1, <2>2
<1>16. b.seen = W[j].seen /\ Joined(b.kept, W[j].kept, l, j)
  <2>1. CASE j = L
    <3>1. L - j = 0 /\ 1 .. (L - j) = {}
      BY <1>1, <2>1
    <3>2. Len(W[j].kept) + 0 = Len(W[j].kept)
      BY <1>13
    <3>3. QED
      BY <2>1, <3>1, <3>2 DEF Joined, L
  <2>2. CASE j # L
    <3>1. end.left = 0
      BY <1>1, <1>11, <2>2
    <3>2. ~(Len(W[j].seen) < n)
      BY <1>12, <1>13, <3>1
    <3>3. QED
      BY <1>7, <3>2
  <2>3. QED
    BY <2>1, <2>2
<1>17. /\ Len(b.kept) = end.size
       /\ \A i \in 1 .. end.pos : b.kept[i] = end.data[i - 1]
       /\ \A i \in 1 .. L - j : b.kept[end.pos + i] = end.data[(end.pos + i) - 1]
  BY <1>12, <1>16 DEF Joined, L
<1> HIDE DEF end, b
<1>18. \A i \in 1 .. end.size : b.kept[i] = end.data[i - 1]
  <2> SUFFICES ASSUME NEW i \in 1 .. end.size PROVE b.kept[i] = end.data[i - 1]
    OBVIOUS
  <2>1. CASE i \in 1 .. end.pos
    BY <1>17, <2>1
  <2>2. CASE i \notin 1 .. end.pos
    <3> DEFINE m == i - end.pos
    <3>1. m \in 1 .. L - j /\ i = end.pos + m
      BY <1>1, <1>12, <1>15, <2>2
    <3> HIDE DEF m
    <3>2. QED
      BY <1>17, <3>1
  <2>3. QED
    BY <2>1, <2>2
<1>19. [i \in 1 .. end.size |-> end.data[i - 1]] = b.kept
  <2> DEFINE c == [i \in 1 .. end.size |-> end.data[i - 1]]
  <2>1. \A i \in 1 .. end.size : c[i] = b.kept[i]
    BY <1>18
  <2>2. b.kept \in [1 .. end.size -> Queued]
    BY <1>14, <1>17
  <2>3. b.kept = [i \in 1 .. end.size |-> b.kept[i]]
    BY <2>2
  <2>4. QED
    BY <2>1, <2>3
<1>20. QED
  BY <1>3, <1>12, <1>15, <1>16, <1>19 DEF end, b, W, L, l

LEMMA QueueInit ==
  ASSUME Fixed!Init
  PROVE  QueueInv /\ Fixed!Arrival!Init
<1>1. size = 0 /\ seen = <<"none">> /\ data \in Arrays
  BY DEF Fixed!Init, Arrays
<1>2. QueueInv
  BY <1>1, SizeIs DEF QueueInv, Arrays
<1>3. Fixed!Contents = <<>>
  BY <1>1, <1>2, QueueContents
<1>4. QED
  BY <1>1, <1>2, <1>3 DEF Fixed!Arrival!Init

\* What is new in the contents.
LEMMA QueueContentsNext ==
  /\ QueueInv' => Fixed!Contents' \in Seq(Queued) /\ Len(Fixed!Contents') = size'
  /\ Fixed!Contents' = [i \in 1 .. size' |-> data'[i - 1]]
<1>1. QueueInv => Fixed!Contents \in Seq(Queued) /\ Len(Fixed!Contents) = size
  BY QueueContents
<1>2. (QueueInv => Fixed!Contents \in Seq(Queued) /\ Len(Fixed!Contents) = size)'
  BY <1>1, PTL
<1>3. Fixed!Contents' = [i \in 1 .. size' |-> data'[i - 1]]
  BY DEF Fixed!Contents
<1>4. QED
  BY <1>2, <1>3

LEMMA QueuePush ==
  ASSUME QueueInv, NEW x \in Queued, Fixed!push(x)
  PROVE  QueueInv' /\ Fixed!Arrival!Insert(x)
<1> DEFINE l == Fixed!Contents
           e == Fixed!Contents'
<1>1. /\ size \in Nat /\ size < Size /\ Size \in Nat /\ size' = size + 1
      /\ data' = [data EXCEPT ![size] = x] /\ data \in Arrays /\ seen' = <<"inserted">>
  BY SizeIs DEF QueueInv, Arrays, Fixed!push
<1>2. QueueInv'
  BY <1>1 DEF QueueInv, Arrays
<1>3. /\ e \in Seq(Queued) /\ Len(e) = size + 1
      /\ \A i \in 1 .. size + 1 : e[i] = data'[i - 1]
  BY <1>1, <1>2, QueueContentsNext
<1>4. /\ l \in Seq(Queued) /\ Len(l) = size
      /\ \A i \in 1 .. size : l[i] = data[i - 1]
  BY QueueContents
<1>5. e[size + 1] = x /\ \A i \in 1 .. size : e[i] = l[i]
  <2>1. \A i \in 1 .. size : i - 1 \in 0 .. Size - 1 /\ i - 1 # size /\ i \in 1 .. size + 1
    BY <1>1
  <2>2. \A i \in 1 .. size : data'[i - 1] = data[i - 1]
    BY <1>1, <2>1 DEF Arrays
  <2>3. data'[(size + 1) - 1] = x
    BY <1>1 DEF Arrays
  <2>4. size + 1 \in 1 .. size + 1
    BY <1>1
  <2>5. QED
    BY <1>3, <1>4, <2>1, <2>2, <2>3, <2>4
<1> HIDE DEF l, e
<1>6. e = SubSeq(l, 1, (size + 1) - 1) \o <<x>> \o SubSeq(l, size + 1, size)
  <2>1. SubSeq(l, 1, (size + 1) - 1) = l
    BY <1>1, <1>4
  <2>2. SubSeq(l, size + 1, size) = <<>>
    BY <1>1, <1>4
  <2> DEFINE f == l \o <<x>>
  <2>3. f \in Seq(Queued) /\ Len(f) = size + 1 /\ f[size + 1] = x /\ \A i \in 1 .. size : f[i] = l[i]
    BY <1>1, <1>4
  <2> HIDE DEF f
  <2>4. \A i \in 1 .. size + 1 : i \in 1 .. size \/ i = size + 1
    BY <1>1
  <2>5. \A i \in 1 .. size + 1 : f[i] = e[i]
    BY <1>5, <2>3, <2>4
  <2>6. f = e
    BY <1>3, <2>3, <2>5, SameSeq
  <2>7. f \o <<>> = f
    BY <2>3
  <2>8. QED
    BY <2>1, <2>2, <2>6, <2>7 DEF f
<1>7. Fixed!Arrival!Used = size /\ Fixed!Arrival!Place(x) = size + 1
  BY QueueUsed, QueuePlace
<1>8. Fixed!Arrival!Used + 1 <= Size
  BY <1>1, <1>7
<1>9. QED
  BY <1>1, <1>2, <1>4, <1>6, <1>7, <1>8 DEF Fixed!Arrival!Insert, l, e

LEMMA QueuePop ==
  ASSUME QueueInv, Fixed!pop
  PROVE  QueueInv' /\ Fixed!Arrival!Pop(0)
<1> DEFINE l == Fixed!Contents
           e == Fixed!Contents'
           q == [data |-> data, size |-> size]
           f == [i \in DOMAIN data |->
                   IF i \in 0 .. (size - 2) THEN data[i + 1] ELSE data[i]]
<1>1. /\ size \in Nat /\ size > 0 /\ size <= Size /\ Size \in Nat /\ data \in Arrays
      /\ seen' = <<"first", data[0]>>
      /\ data' = Fixed!remove(q, 0).data /\ size' = Fixed!remove(q, 0).size
  BY SizeIs DEF QueueInv, Arrays, Fixed!pop
<1>2. Fixed!remove(q, 0).data = f /\ Fixed!remove(q, 0).size = size - 1
  <2>1. q.data = data /\ q.size = size /\ q \in [data : Arrays, size : Nat]
    BY <1>1
  <2> HIDE DEF q
  <2>2. f = [i \in DOMAIN q.data |->
               IF i \in 0 .. (q.size - 2) THEN q.data[i + 1] ELSE q.data[i]]
    BY <2>1
  <2>3. Fixed!remove(q, 0) = [q EXCEPT !.data = f, !.size = size - 1]
    BY <2>1, <2>2 DEF Fixed!remove
  <2> HIDE DEF f
  <2>4. QED
    BY <2>1, <2>3
<1>3. data' = f /\ size' = size - 1
  BY <1>1, <1>2
<1>4. \A i \in 0 .. Size - 1 : i \in 0 .. (size - 2) => i + 1 \in 0 .. Size - 1
  BY <1>1
<1>5. f \in Arrays
  BY <1>1, <1>4 DEF Arrays
<1>6. QueueInv'
  <2>1. data' \in Arrays /\ size' \in 0 .. Size
    BY <1>1, <1>3, <1>5
  <2>2. QED
    BY <2>1 DEF QueueInv, Arrays
<1>7. /\ e \in Seq(Queued) /\ Len(e) = size - 1
      /\ \A i \in 1 .. size - 1 : e[i] = data'[i - 1]
  BY <1>1, <1>3, <1>6, QueueContentsNext
<1>8. /\ l \in Seq(Queued) /\ Len(l) = size
      /\ \A i \in 1 .. size : l[i] = data[i - 1]
  BY QueueContents
<1>9. \A i \in 1 .. size - 1 : e[i] = l[i + 1]
  <2> SUFFICES ASSUME NEW i \in 1 .. size - 1 PROVE e[i] = l[i + 1]
    OBVIOUS
  <2>1. /\ i - 1 \in 0 .. Size - 1 /\ i - 1 \in 0 .. (size - 2) /\ (i - 1) + 1 = i
        /\ i + 1 \in 1 .. size /\ (i + 1) - 1 = i
    BY <1>1
  <2>2. f[i - 1] = data[i]
    BY <1>1, <2>1 DEF Arrays
  <2>3. e[i] = f[i - 1]
    BY <1>3, <1>7
  <2>4. l[i + 1] = data[i]
    BY <1>8, <2>1
  <2>5. QED
    BY <2>2, <2>3, <2>4
<1>10. l[1] = data[0]
  BY <1>1, <1>8
<1> HIDE DEF l, e
<1>11. l # <<>> /\ Head(l) = data[0]
  BY <1>1, <1>8, <1>10
<1>12. e = Tail(l)
  <2>1. Tail(l) \in Seq(Queued) /\ Len(Tail(l)) = size - 1
    BY <1>1, <1>8
  <2>2. \A i \in 1 .. size - 1 : Tail(l)[i] = l[i + 1]
    BY <1>1, <1>8, <1>11
  <2>3. \A i \in 1 .. Len(e) : e[i] = Tail(l)[i]
    BY <1>7, <1>9, <2>2
  <2>4. QED
    BY <1>7, <2>1, <2>3, SameSeq
<1>13. QED
  BY <1>1, <1>6, <1>11, <1>12 DEF Fixed!Arrival!Pop, l, e

LEMMA QueueRemoves ==
  ASSUME QueueInv, NEW P, NEW n \in 1 .. Size, Fixed!visitAndRemoveIf(P, n)
  PROVE  QueueInv' /\ Fixed!Arrival!RemoveIf(P, n)
<1> DEFINE end == Fixed!Loop(P, QueueStart(n))
           l == Fixed!Contents
           b == Walk(l, P, n)[Len(l)]
<1>1. n \in Nat
  BY SizeIs
<1>2. /\ end.data \in Arrays /\ end.size \in 0 .. Size /\ end.seen = b.seen
      /\ [i \in 1 .. end.size |-> end.data[i - 1]] = b.kept
  BY <1>1, QueueLoopEnds
<1>3. data' = end.data /\ size' = end.size /\ seen' = <<"visited", end.seen>>
  BY DEF Fixed!visitAndRemoveIf, QueueStart
<1> HIDE DEF end
<1>4. QueueInv'
  BY <1>2, <1>3 DEF QueueInv, Arrays
<1>5. Fixed!Contents' = b.kept
  BY <1>2, <1>3, QueueContentsNext
<1>6. seen' = <<"visited", b.seen>>
  BY <1>2, <1>3, SMTT(20)
<1>7. Fixed!Arrival!RemoveIf(P, n)
  BY <1>5, <1>6 DEF Fixed!Arrival!RemoveIf, Walk, Walks, Asked, Start
<1>8. QED
  BY <1>4, <1>7

LEMMA QueueSteps ==
  ASSUME QueueInv, [Fixed!Next]_(Fixed!vars)
  PROVE  QueueInv' /\ [Fixed!Arrival!Next]_(Fixed!Arrival!vars)
<1>1. ASSUME NEW x \in Queued, Fixed!push(x)
      PROVE  QueueInv' /\ Fixed!Arrival!Next
  BY <1>1, QueuePush DEF Fixed!Arrival!Next
<1>2. CASE Fixed!pop
  BY <1>2, QueuePop DEF Fixed!Arrival!Next
<1>3. CASE Fixed!first
  <2>1. data' = data /\ size' = size /\ size > 0 /\ seen' = <<"first", data[0]>>
    BY <1>3 DEF Fixed!first
  <2>2. QueueInv' /\ Fixed!Contents' = Fixed!Contents
    BY <2>1 DEF QueueInv, Fixed!Contents
  <2>3. Fixed!Contents # <<>> /\ Head(Fixed!Contents) = data[0]
    BY <2>1, QueueContents, SizeIs DEF QueueInv
  <2>4. Fixed!Arrival!Peek(0)
    BY <2>1, <2>2, <2>3 DEF Fixed!Arrival!Peek
  <2>5. QED
    BY <2>2, <2>4 DEF Fixed!Arrival!Next
<1>4. CASE Fixed!visitIf
  <2>1. data' = data /\ size' = size /\ seen' = <<"visited", Fixed!Contents>>
    BY <1>4 DEF Fixed!visitIf
  <2>2. QueueInv' /\ Fixed!Contents' = Fixed!Contents
    BY <2>1 DEF QueueInv, Fixed!Contents
  <2>3. QED
    BY <2>1, <2>2 DEF Fixed!Arrival!VisitAll, Fixed!Arrival!Next
<1>5. CASE Fixed!clear
  <2>1. data' = data /\ size' = 0 /\ seen' = <<"none">>
    BY <1>5 DEF Fixed!clear
  <2>2. QueueInv'
    BY <2>1, SizeIs DEF QueueInv
  <2>3. Fixed!Contents' = <<>>
    BY <2>1, <2>2, QueueContentsNext
  <2>4. QED
    BY <2>1, <2>2, <2>3 DEF Fixed!Arrival!Clear, Fixed!Arrival!Next
<1>6. ASSUME NEW P \in SUBSET Queued, NEW n \in 1 .. Size, Fixed!visitAndRemoveIf(P, n)
      PROVE  QueueInv' /\ Fixed!Arrival!Next
  BY <1>6, QueueRemoves DEF Fixed!Arrival!Next
<1>7. CASE UNCHANGED <<data, size, seen>>
  <2>1. QueueInv' /\ Fixed!Contents' = Fixed!Contents
    BY <1>7 DEF QueueInv, Fixed!Contents
  <2>2. QED
    BY <1>7, <2>1 DEF Fixed!Arrival!vars
<1>8. QED
  BY <1>1, <1>2, <1>3, <1>4, <1>5, <1>6, <1>7 DEF Fixed!Next, Fixed!vars

LEMMA QueueInvariant == Fixed!Spec => []QueueInv
<1>1. QueueInv /\ [Fixed!Next]_(Fixed!vars) => QueueInv'
  BY QueueSteps
<1>2. QED
  BY <1>1, QueueInit, PTL DEF Fixed!Spec

\* fixedqueue keeps its items in the order they came in and visits and removes
\* exactly those asked for, up to the visit after which the visitor stops,
\* although every removal shifts the array under the loop.
THEOREM ArrivalOrderTheorem == Fixed!Spec => ImplementsArrivalOrder
<1>1. QueueInv /\ [Fixed!Next]_(Fixed!vars) => [Fixed!Arrival!Next]_(Fixed!Arrival!vars)
  BY QueueSteps
<1>2. QED
  BY <1>1, QueueInit, QueueInvariant, PTL
  DEF Fixed!Spec, ImplementsArrivalOrder, Fixed!ImplementsArrivalOrder, Fixed!Arrival!Spec

-----------------------------------------------------------------------------
(* FixedSortedList.  One arrangement of all slots is behind its pointers:   *)
(* the slots of the list, then the free ones.                               *)

Links == SortedList!Slot \cup {SortedList!Nil}
Nil_ == SortedList!Nil
Arranged == [1 .. Size -> SortedList!Slot]
OneToOne(c) == \A i, j \in 1 .. Size : c[i] = c[j] => i = j

\* The first k slots of c are chained from p, the others from f.
Layout(c, k, ptr, p, f) ==
  /\ c \in Arranged /\ OneToOne(c)
  /\ ptr \in [SortedList!Slot -> Links]
  /\ p = IF k = 0 THEN Nil_ ELSE c[1]
  /\ f = IF k = Size THEN Nil_ ELSE c[k + 1]
  /\ \A i \in 1 .. Size : ptr[c[i]] = IF i = k \/ i = Size THEN Nil_ ELSE c[i + 1]

LEMMA NilIs == Nil_ \notin SortedList!Slot /\ Nil_ \in Links
BY SizeIs DEF Nil_, Links, SortedList!Nil, SortedList!Slot

\* The place at i moves behind the one at k, or the other way round.
Down(i, k, m) == IF m < i \/ k < m THEN m ELSE IF m = k THEN i ELSE m + 1
Up(i, k, m) == IF m < i \/ k < m THEN m ELSE IF m = i THEN k ELSE m - 1

LEMMA Shuffles ==
  ASSUME NEW k \in 1 .. Size, NEW i \in 1 .. k
  PROVE  /\ \A m \in 1 .. Size : Down(i, k, m) \in 1 .. Size /\ Up(i, k, m) \in 1 .. Size
         /\ \A m, n \in 1 .. Size : Down(i, k, m) = Down(i, k, n) => m = n
         /\ \A m, n \in 1 .. Size : Up(i, k, m) = Up(i, k, n) => m = n
<1>1. Size \in Nat /\ k \in Nat /\ i \in Nat /\ 1 <= i /\ i <= k /\ k <= Size
  BY SizeIs
<1>2. \A m \in 1 .. Size : Down(i, k, m) \in 1 .. Size /\ Up(i, k, m) \in 1 .. Size
  BY <1>1 DEF Down, Up
<1>3. \A m, n \in 1 .. Size : Down(i, k, m) = Down(i, k, n) => m = n
  BY <1>1 DEF Down
<1>4. \A m, n \in 1 .. Size : Up(i, k, m) = Up(i, k, n) => m = n
  BY <1>1 DEF Up
<1>5. QED
  BY <1>2, <1>3, <1>4

Lowered(c, i, k) == [m \in 1 .. Size |-> c[Down(i, k, m)]]
Raised(c, i, k) == [m \in 1 .. Size |-> c[Up(i, k, m)]]

LEMMA Shuffled ==
  ASSUME NEW c \in Arranged, OneToOne(c), NEW k \in 1 .. Size, NEW i \in 1 .. k
  PROVE  /\ Lowered(c, i, k) \in Arranged /\ OneToOne(Lowered(c, i, k))
         /\ Raised(c, i, k) \in Arranged /\ OneToOne(Raised(c, i, k))
<1> DEFINE e == Lowered(c, i, k)
           g == Raised(c, i, k)
<1>1. /\ \A m \in 1 .. Size : Down(i, k, m) \in 1 .. Size /\ Up(i, k, m) \in 1 .. Size
      /\ \A m, n \in 1 .. Size : Down(i, k, m) = Down(i, k, n) => m = n
      /\ \A m, n \in 1 .. Size : Up(i, k, m) = Up(i, k, n) => m = n
  BY Shuffles
<1>2. \A m, n \in 1 .. Size : c[m] = c[n] => m = n
  BY DEF OneToOne
<1>3. e \in Arranged /\ g \in Arranged
  BY <1>1 DEF Lowered, Raised, Arranged
<1>4. \A m \in 1 .. Size : e[m] = c[Down(i, k, m)] /\ g[m] = c[Up(i, k, m)]
  BY DEF Lowered, Raised
<1> HIDE DEF e, g
<1>5. ASSUME NEW m \in 1 .. Size, NEW n \in 1 .. Size
      PROVE  (e[m] = e[n] => m = n) /\ (g[m] = g[n] => m = n)
  <2>1. /\ Down(i, k, m) \in 1 .. Size /\ Down(i, k, n) \in 1 .. Size
        /\ Up(i, k, m) \in 1 .. Size /\ Up(i, k, n) \in 1 .. Size
    BY <1>1
  <2>2. e[m] = e[n] => Down(i, k, m) = Down(i, k, n)
    BY <1>2, <1>4, <2>1
  <2>3. g[m] = g[n] => Up(i, k, m) = Up(i, k, n)
    BY <1>2, <1>4, <2>1
  <2>4. QED
    BY <1>1, <2>2, <2>3
<1>6. QED
  BY <1>3, <1>5 DEF e, g, OneToOne

\* The place at i is taken out of the list and becomes the first free one.
LEMMA Unlinks ==
  ASSUME NEW c, NEW k \in 1 .. Size, NEW ptr, NEW p, NEW f, Layout(c, k, ptr, p, f),
         NEW i \in 1 .. k
  PROVE  LET to == ptr[c[i]]
         IN  Layout(Lowered(c, i, k), k - 1,
                    IF i = 1 THEN [ptr EXCEPT ![c[i]] = f]
                    ELSE [ptr EXCEPT ![c[i - 1]] = to, ![c[i]] = f],
                    IF i = 1 THEN to ELSE p, c[i])
<1> DEFINE to == ptr[c[i]]
           e == Lowered(c, i, k)
           P2 == IF i = 1 THEN [ptr EXCEPT ![c[i]] = f]
                 ELSE [ptr EXCEPT ![c[i - 1]] = to, ![c[i]] = f]
           p2 == IF i = 1 THEN to ELSE p
<1>1. /\ Size \in Nat /\ k \in Nat /\ i \in Nat /\ 1 <= i /\ i <= k /\ k <= Size
      /\ i \in 1 .. Size /\ k \in 1 .. Size
  BY SizeIs
<1>2. /\ c \in Arranged /\ OneToOne(c) /\ ptr \in [SortedList!Slot -> Links]
      /\ p = c[1] /\ f = IF k = Size THEN Nil_ ELSE c[k + 1]
      /\ \A m \in 1 .. Size : ptr[c[m]] = IF m = k \/ m = Size THEN Nil_ ELSE c[m + 1]
  BY <1>1 DEF Layout
<1>3. e \in Arranged /\ OneToOne(e)
  BY <1>2, Shuffled
<1>4. \A m \in 1 .. Size : c[m] \in SortedList!Slot /\ c[m] \in Links
  BY <1>2 DEF Arranged, Links
<1>5. \A m \in 1 .. Size : e[m] = IF m < i \/ k < m THEN c[m] ELSE IF m = k THEN c[i] ELSE c[m + 1]
  BY <1>1 DEF Lowered, Down
<1>6. to = (IF i = k THEN Nil_ ELSE c[i + 1]) /\ to \in Links /\ f \in Links
  <2>1. to = IF i = k THEN Nil_ ELSE c[i + 1]
    BY <1>1, <1>2
  <2>2. i # k => i + 1 \in 1 .. Size
    BY <1>1
  <2>3. k # Size => k + 1 \in 1 .. Size
    BY <1>1
  <2>4. QED
    BY <1>2, <1>4, <2>1, <2>2, <2>3, NilIs
<1> HIDE DEF to, e
<1>7. P2 \in [SortedList!Slot -> Links]
  BY <1>1, <1>2, <1>4, <1>6
<1>8. /\ \A m \in 1 .. Size : m # i /\ (i = 1 \/ m # i - 1) => P2[c[m]] = ptr[c[m]]
      /\ P2[c[i]] = f
      /\ i # 1 => P2[c[i - 1]] = to
  <2>1. i # 1 => i - 1 \in 1 .. Size /\ i - 1 # i
    BY <1>1
  <2>2. \A m \in 1 .. Size : c[m] \in DOMAIN ptr
    BY <1>2, <1>4
  <2>3. \A m, n \in 1 .. Size : c[m] = c[n] => m = n
    BY <1>2 DEF OneToOne
  <2>4. QED
    BY <1>1, <2>1, <2>2, <2>3
<1> HIDE DEF P2
<1>9. ASSUME NEW m \in 1 .. Size
      PROVE  P2[e[m]] = IF m = k - 1 \/ m = Size THEN Nil_ ELSE e[m + 1]
  <2>1. m \in Nat /\ 1 <= m /\ m <= Size
    BY <1>1
  <2>2. m # Size => m + 1 \in 1 .. Size /\ (m + 1) + 1 = m + 2
    BY <1>1
  <2>3. CASE m < i /\ m # i - 1
    <3>1. m < i /\ m + 1 < i /\ m # i /\ m # k /\ m # k - 1 /\ m # Size
      BY <1>1, <2>1, <2>3
    <3>2. e[m] = c[m] /\ e[m + 1] = c[m + 1]
      BY <1>5, <2>2, <3>1
    <3>3. P2[c[m]] = c[m + 1]
      BY <1>2, <1>8, <2>3, <3>1
    <3>4. QED
      BY <3>1, <3>2, <3>3
  <2>4. CASE m = i - 1
    <3>1. m < i /\ m # Size /\ m + 1 = i /\ i # 1
      BY <1>1, <2>1, <2>4
    <3>2. e[m] = c[m] /\ P2[c[m]] = to
      BY <1>5, <1>8, <2>4, <3>1
    <3>3. CASE i = k
      BY <1>6, <2>4, <3>2, <3>3
    <3>4. CASE i # k
      <4>1. e[i] = c[i + 1] /\ m # k - 1
        BY <1>1, <1>5, <2>4, <3>4
      <4>2. QED
        BY <1>6, <3>1, <3>2, <3>4, <4>1
    <3>5. QED
      BY <3>3, <3>4
  <2>5. CASE i <= m /\ m < k
    <3>1. ~(m < i) /\ ~(k < m) /\ m # k /\ m # Size
      BY <1>1, <2>1, <2>5
    <3>2. e[m] = c[m + 1]
      BY <1>5, <3>1
    <3>3. m + 1 # i /\ m + 1 # i - 1 /\ m + 1 \in 1 .. Size
      BY <1>1, <2>1, <2>5
    <3>4. P2[c[m + 1]] = ptr[c[m + 1]]
      BY <1>8, <3>3
    <3>5. CASE m = k - 1
      <4>1. m + 1 = k
        BY <1>1, <3>5
      <4>2. ptr[c[m + 1]] = Nil_
        BY <1>2, <3>3, <4>1
      <4>3. QED
        BY <3>2, <3>4, <3>5, <4>2
    <3>6. CASE m # k - 1
      <4>1. m + 1 # k /\ m + 1 # Size /\ ~(m + 1 < i) /\ ~(k < m + 1)
        BY <1>1, <2>1, <2>5, <3>6
      <4>2. ptr[c[m + 1]] = c[(m + 1) + 1]
        BY <1>2, <3>3, <4>1
      <4>3. e[m + 1] = c[(m + 1) + 1]
        BY <1>5, <3>3, <4>1
      <4>4. QED
        BY <3>1, <3>2, <3>4, <3>6, <4>2, <4>3
    <3>7. QED
      BY <3>5, <3>6
  <2>6. CASE m = k
    <3>1. e[m] = c[i] /\ m # k - 1
      BY <1>1, <1>5, <2>6
    <3>2. P2[e[m]] = f
      BY <1>8, <3>1
    <3>3. m # Size => e[m + 1] = c[m + 1]
      BY <1>1, <1>5, <2>2, <2>6
    <3>4. QED
      BY <1>2, <2>6, <3>1, <3>2, <3>3
  <2>7. CASE k < m
    <3>1. m # i /\ m # i - 1 /\ m # k /\ m # k - 1
      BY <1>1, <2>1, <2>7
    <3>2. e[m] = c[m]
      BY <1>5, <2>7
    <3>3. P2[c[m]] = ptr[c[m]]
      BY <1>8, <3>1
    <3>4. m # Size => e[m + 1] = c[m + 1]
      <4>1. m # Size => k < m + 1 /\ m + 1 \in 1 .. Size
        BY <1>1, <2>1, <2>7
      <4>2. QED
        BY <1>5, <4>1
    <3>5. QED
      BY <1>2, <3>1, <3>2, <3>3, <3>4
  <2>8. QED
    BY <1>1, <2>1, <2>3, <2>4, <2>5, <2>6, <2>7
<1>10. p2 = IF k - 1 = 0 THEN Nil_ ELSE e[1]
  <2>1. 1 \in 1 .. Size /\ (k - 1 = 0 <=> k = 1)
    BY <1>1
  <2>2. CASE i = 1
    <3>1. k # 1 => e[1] = c[2]
      BY <1>1, <1>5, <2>1, <2>2
    <3>2. QED
      BY <1>1, <1>6, <2>1, <2>2, <3>1
  <2>3. CASE i # 1
    <3>1. 1 < i /\ k # 1
      BY <1>1, <2>3
    <3>2. e[1] = c[1]
      BY <1>5, <2>1, <3>1
    <3>3. QED
      BY <1>2, <2>1, <2>3, <3>1, <3>2
  <2>4. QED
    BY <2>2, <2>3
<1>11. c[i] = IF k - 1 = Size THEN Nil_ ELSE e[(k - 1) + 1]
  <2>1. k - 1 # Size /\ (k - 1) + 1 = k
    BY <1>1
  <2>2. e[k] = c[i]
    BY <1>1, <1>5
  <2>3. QED
    BY <2>1, <2>2
<1> HIDE DEF p2
<1>12. Layout(e, k - 1, P2, p2, c[i])
  BY <1>3, <1>7, <1>9, <1>10, <1>11 DEF Layout
<1>13. QED
  BY <1>12 DEF e, P2, p2, to

\* The first free place goes into the list at i.
LEMMA LinksIn ==
  ASSUME NEW c, NEW k \in 0 .. Size - 1, NEW ptr, NEW p, NEW f, Layout(c, k, ptr, p, f),
         NEW i \in 1 .. k + 1
  PROVE  Layout(Raised(c, i, k + 1), k + 1,
                IF i = 1 THEN [ptr EXCEPT ![f] = p]
                ELSE [ptr EXCEPT ![f] = IF i > k THEN Nil_ ELSE c[i], ![c[i - 1]] = f],
                IF i = 1 THEN f ELSE p, ptr[f])
<1> DEFINE to == IF i > k THEN Nil_ ELSE c[i]
           K == k + 1
           e == Raised(c, i, K)
           P2 == IF i = 1 THEN [ptr EXCEPT ![f] = p]
                 ELSE [ptr EXCEPT ![f] = to, ![c[i - 1]] = f]
           p2 == IF i = 1 THEN f ELSE p
<1>1. /\ Size \in Nat /\ k \in Nat /\ i \in Nat /\ 1 <= i /\ i <= K /\ K <= Size /\ K = k + 1
      /\ i \in 1 .. Size /\ K \in 1 .. Size /\ K \in Nat /\ i \in 1 .. K
  BY SizeIs
<1>2. /\ c \in Arranged /\ OneToOne(c) /\ ptr \in [SortedList!Slot -> Links]
      /\ p = (IF k = 0 THEN Nil_ ELSE c[1]) /\ f = c[K]
      /\ \A m \in 1 .. Size : ptr[c[m]] = IF m = k \/ m = Size THEN Nil_ ELSE c[m + 1]
  BY <1>1 DEF Layout
<1> HIDE DEF K
<1>3. e \in Arranged /\ OneToOne(e)
  BY <1>1, <1>2, Shuffled
<1>4. \A m \in 1 .. Size : c[m] \in SortedList!Slot /\ c[m] \in Links
  BY <1>2 DEF Arranged, Links
<1>5. \A m \in 1 .. Size : e[m] = IF m < i \/ K < m THEN c[m] ELSE IF m = i THEN c[K] ELSE c[m - 1]
  BY <1>1 DEF Raised, Up
<1>6. /\ to = (IF i = K THEN Nil_ ELSE c[i]) /\ to \in Links /\ f \in Links
      /\ f \in SortedList!Slot /\ (i = 1 => p = to)
  <2>1. i > k <=> i = K
    BY <1>1
  <2>2. k = 0 <=> 1 = K
    BY <1>1
  <2>3. QED
    BY <1>1, <1>2, <1>4, <2>1, <2>2, NilIs
<1> HIDE DEF to, e
<1>7. P2 \in [SortedList!Slot -> Links]
  BY <1>1, <1>2, <1>4, <1>6
<1>8. /\ \A m \in 1 .. Size : m # K /\ (i = 1 \/ m # i - 1) => P2[c[m]] = ptr[c[m]]
      /\ P2[f] = to
      /\ i # 1 => P2[c[i - 1]] = f
  <2>1. i # 1 => i - 1 \in 1 .. Size /\ i - 1 # K
    BY <1>1
  <2>2. \A m \in 1 .. Size : c[m] \in DOMAIN ptr
    BY <1>2, <1>4
  <2>3. \A m, n \in 1 .. Size : c[m] = c[n] => m = n
    BY <1>2 DEF OneToOne
  <2>4. QED
    BY <1>1, <1>2, <1>6, <2>1, <2>2, <2>3
<1> HIDE DEF P2
<1>9. ASSUME NEW m \in 1 .. Size
      PROVE  P2[e[m]] = IF m = K \/ m = Size THEN Nil_ ELSE e[m + 1]
  <2>1. m \in Nat /\ 1 <= m /\ m <= Size
    BY <1>1
  <2>2. m # Size => m + 1 \in 1 .. Size
    BY <1>1
  <2>3. CASE m < i /\ m # i - 1
    <3>1. m + 1 < i /\ m # k /\ m # K /\ m # Size
      BY <1>1, <2>1, <2>3
    <3>2. e[m] = c[m] /\ e[m + 1] = c[m + 1]
      BY <1>5, <2>2, <2>3, <3>1
    <3>3. P2[c[m]] = c[m + 1]
      BY <1>2, <1>8, <2>3, <3>1
    <3>4. QED
      BY <3>1, <3>2, <3>3
  <2>4. CASE m = i - 1
    <3>1. m < i /\ m # Size /\ m # K /\ m + 1 = i /\ i # 1
      BY <1>1, <2>1, <2>4
    <3>2. e[m] = c[m] /\ P2[c[m]] = f
      BY <1>5, <1>8, <2>4, <3>1
    <3>3. e[i] = c[K]
      BY <1>1, <1>5
    <3>4. QED
      BY <1>2, <3>1, <3>2, <3>3
  <2>5. CASE m = i
    <3>1. e[m] = c[K] /\ P2[c[K]] = to
      BY <1>1, <1>2, <1>5, <1>8, <2>5
    <3>2. CASE i = K
      BY <1>6, <2>5, <3>1, <3>2
    <3>3. CASE i # K
      <4>1. m # K /\ m # Size /\ m + 1 # i /\ ~(m + 1 < i) /\ ~(K < m + 1) /\ (m + 1) - 1 = i
        BY <1>1, <2>1, <2>5, <3>3
      <4>2. e[m + 1] = c[i]
        BY <1>5, <2>2, <4>1
      <4>3. QED
        BY <1>6, <3>1, <3>3, <4>1, <4>2
    <3>4. QED
      BY <3>2, <3>3
  <2>6. CASE i < m /\ m <= K
    <3>1. /\ ~(m < i) /\ ~(K < m) /\ m # i /\ m - 1 \in 1 .. Size /\ m - 1 # K /\ m - 1 # i - 1
          /\ (m - 1) + 1 = m /\ m - 1 # Size /\ (m - 1 = k <=> m = K)
      BY <1>1, <2>1, <2>6
    <3>2. e[m] = c[m - 1] /\ P2[c[m - 1]] = ptr[c[m - 1]]
      BY <1>5, <1>8, <3>1
    <3>3. ptr[c[m - 1]] = IF m = K THEN Nil_ ELSE c[m]
      BY <1>2, <3>1
    <3>4. CASE m = K
      BY <3>2, <3>3, <3>4
    <3>5. CASE m # K
      <4>1. m # Size /\ ~(m + 1 < i) /\ ~(K < m + 1) /\ m + 1 # i /\ (m + 1) - 1 = m
        BY <1>1, <2>1, <2>6, <3>5
      <4>2. e[m + 1] = c[m]
        BY <1>5, <2>2, <4>1
      <4>3. QED
        BY <3>2, <3>3, <3>5, <4>1, <4>2
    <3>6. QED
      BY <3>4, <3>5
  <2>7. CASE K < m
    <3>1. m # K /\ m # i - 1 /\ m # k
      BY <1>1, <2>1, <2>7
    <3>2. e[m] = c[m] /\ P2[c[m]] = ptr[c[m]]
      BY <1>5, <1>8, <2>7, <3>1
    <3>3. m # Size => e[m + 1] = c[m + 1]
      <4>1. m # Size => K < m + 1
        BY <1>1, <2>1, <2>7
      <4>2. QED
        BY <1>5, <2>2, <4>1
    <3>4. QED
      BY <1>2, <3>1, <3>2, <3>3
  <2>8. QED
    BY <1>1, <2>1, <2>3, <2>4, <2>5, <2>6, <2>7
<1>10. p2 = IF K = 0 THEN Nil_ ELSE e[1]
  <2>1. 1 \in 1 .. Size /\ K # 0
    BY <1>1
  <2>2. CASE i = 1
    BY <1>1, <1>2, <1>5, <2>1, <2>2
  <2>3. CASE i # 1
    <3>1. 1 < i /\ k # 0
      BY <1>1, <2>3
    <3>2. e[1] = c[1]
      BY <1>5, <2>1, <3>1
    <3>3. QED
      BY <1>2, <2>1, <2>3, <3>1, <3>2
  <2>4. QED
    BY <2>2, <2>3
<1>11. ptr[f] = IF K = Size THEN Nil_ ELSE e[K + 1]
  <2>1. K # k /\ (K # Size => K + 1 \in 1 .. Size /\ K < K + 1)
    BY <1>1
  <2>2. ptr[c[K]] = IF K = Size THEN Nil_ ELSE c[K + 1]
    BY <1>1, <1>2, <2>1
  <2>3. K # Size => e[K + 1] = c[K + 1]
    BY <1>5, <2>1
  <2>4. QED
    BY <1>2, <2>2, <2>3
<1> HIDE DEF p2
<1>12. Layout(e, K, P2, p2, ptr[f])
  BY <1>3, <1>7, <1>9, <1>10, <1>11 DEF Layout
<1>13. QED
  BY <1>12 DEF e, P2, p2, to, K

Firsts(c, n) == [i \in 1 .. n |-> c[i]]

LEMMA FirstsAppend ==
  ASSUME NEW c \in Arranged, NEW n \in 0 .. Size - 1
  PROVE  /\ Firsts(c, n) \in Seq(SortedList!Slot)
         /\ Firsts(c, n + 1) = Append(Firsts(c, n), c[n + 1])
<1>1. n \in Nat /\ n + 1 \in 1 .. Size /\ Size \in Nat
  BY SizeIs
<1>2. \A i \in 1 .. n + 1 : i \in 1 .. Size
  BY <1>1
<1>3. \A i \in 1 .. Size : c[i] \in SortedList!Slot
  BY DEF Arranged
<1> DEFINE s == Firsts(c, n)
           t == Firsts(c, n + 1)
<1>4. s \in Seq(SortedList!Slot) /\ Len(s) = n /\ \A i \in 1 .. n : s[i] = c[i]
  BY <1>1, <1>2, <1>3 DEF Firsts
<1>5. t \in Seq(SortedList!Slot) /\ Len(t) = n + 1 /\ \A i \in 1 .. n + 1 : t[i] = c[i]
  BY <1>1, <1>2, <1>3 DEF Firsts
<1> HIDE DEF s, t
<1>6. c[n + 1] \in SortedList!Slot
  BY <1>1, <1>3
<1> DEFINE v == Append(s, c[n + 1])
<1>7. /\ v \in Seq(SortedList!Slot) /\ Len(v) = n + 1
      /\ \A i \in 1 .. n : v[i] = s[i]
      /\ v[n + 1] = c[n + 1]
  BY <1>4, <1>6, AppendIs
<1> HIDE DEF v
<1>8. \A i \in 1 .. n + 1 : (i \in 1 .. n \/ i = n + 1) /\ n + 1 \in 1 .. n + 1
  BY <1>1
<1>9. \A i \in 1 .. n + 1 : t[i] = v[i]
  <2> SUFFICES ASSUME NEW i \in 1 .. n + 1 PROVE t[i] = v[i]
    OBVIOUS
  <2>1. CASE i \in 1 .. n
    BY <1>4, <1>5, <1>7, <2>1
  <2>2. CASE i = n + 1
    BY <1>5, <1>7, <2>2
  <2>3. QED
    BY <1>8, <2>1, <2>2
<1>10. t = v
  BY <1>5, <1>7, <1>9, SameSeq
<1>11. QED
  BY <1>4, <1>10 DEF s, t, v

Follow(ptr, at) ==
  IF at.next = Nil_ THEN at
  ELSE [slots |-> Append(at.slots, at.next), next |-> ptr[at.next]]
Follows(ptr, p, N, f) ==
  f = [n \in 0 .. N |-> IF n = 0 THEN [slots |-> <<>>, next |-> p] ELSE Follow(ptr, f[n - 1])]
Followed(ptr, p) == CHOOSE f : Follows(ptr, p, Size + 1, f)

LEMMA FollowedIs ==
  ASSUME NEW c, NEW k \in 0 .. Size, NEW ptr, NEW p, NEW f, Layout(c, k, ptr, p, f)
  PROVE  Followed(ptr, p)[Size + 1].slots = Firsts(c, k)
<1> DEFINE At(n) == [slots |-> Firsts(c, n), next |-> IF n = k THEN Nil_ ELSE c[n + 1]]
           g == [n \in 0 .. Size + 1 |-> IF n <= k THEN At(n) ELSE At(k)]
           s == Followed(ptr, p)
           T == {n \in Nat : n <= Size + 1 => s[n] = g[n]}
<1>1. k \in Nat /\ Size \in Nat /\ k <= Size
  BY SizeIs
<1>2. /\ c \in Arranged /\ p = (IF k = 0 THEN Nil_ ELSE c[1])
      /\ \A i \in 1 .. Size : ptr[c[i]] = IF i = k \/ i = Size THEN Nil_ ELSE c[i + 1]
  BY DEF Layout
<1>3. \A i \in 1 .. Size : c[i] # Nil_
  BY <1>2, NilIs DEF Arranged
<1>4. At(0) = [slots |-> <<>>, next |-> p]
  BY <1>2 DEF Firsts
<1>5. Follow(ptr, At(k)) = At(k)
  BY DEF Follow
<1>6. ASSUME NEW n \in Nat, n < k PROVE Follow(ptr, At(n)) = At(n + 1)
  <2>1. n + 1 \in 1 .. Size /\ n # k /\ n \in 0 .. Size - 1 /\ (n + 1 = Size => n + 1 = k)
    BY <1>1, <1>6
  <2>2. At(n).next = c[n + 1] /\ At(n).next # Nil_ /\ At(n).slots = Firsts(c, n)
    BY <1>3, <2>1
  <2>3. Firsts(c, n + 1) = Append(Firsts(c, n), c[n + 1])
    BY <1>2, <2>1, FirstsAppend
  <2>4. ptr[c[n + 1]] = IF n + 1 = k THEN Nil_ ELSE c[(n + 1) + 1]
    BY <1>2, <2>1
  <2>5. Follow(ptr, At(n)) = [slots |-> Append(Firsts(c, n), c[n + 1]), next |-> ptr[c[n + 1]]]
    BY <2>2, Zenon DEF Follow
  <2>6. QED
    BY <2>3, <2>4, <2>5
<1> HIDE DEF At
<1>7. ASSUME NEW n \in 0 .. Size + 1
      PROVE  g[n] = IF n = 0 THEN [slots |-> <<>>, next |-> p] ELSE Follow(ptr, g[n - 1])
  <2>1. CASE n = 0
    BY <1>1, <1>4, <2>1
  <2>2. CASE n # 0 /\ n <= k
    <3>1. n - 1 \in 0 .. Size + 1 /\ n - 1 <= k /\ n - 1 \in Nat /\ n - 1 < k /\ (n - 1) + 1 = n
      BY <1>1, <2>2
    <3>2. g[n - 1] = At(n - 1) /\ g[n] = At(n)
      BY <2>2, <3>1
    <3>3. Follow(ptr, At(n - 1)) = At((n - 1) + 1)
      BY <1>6, <3>1
    <3>4. QED
      BY <2>2, <3>1, <3>2, <3>3
  <2>3. CASE ~(n <= k)
    <3>1. n # 0 /\ n - 1 \in 0 .. Size + 1 /\ (n - 1 <= k => n - 1 = k)
      BY <1>1, <2>3
    <3>2. g[n - 1] = At(k) /\ g[n] = At(k)
      BY <2>3, <3>1
    <3>3. QED
      BY <1>5, <3>1, <3>2
  <2>4. QED
    BY <2>1, <2>2, <2>3
<1>8. Follows(ptr, p, Size + 1, g)
  <2> DEFINE h == [n \in 0 .. Size + 1 |->
                     IF n = 0 THEN [slots |-> <<>>, next |-> p] ELSE Follow(ptr, g[n - 1])]
  <2>1. \A n \in 0 .. Size + 1 : g[n] = h[n]
    BY <1>7
  <2>2. g = h
    BY <2>1
  <2>3. QED
    BY <2>2 DEF Follows
<1>9. Follows(ptr, p, Size + 1, s)
  BY <1>8, Zenon DEF Followed
<1> HIDE DEF s, g
<1>10. \A n \in 0 .. Size + 1 :
         s[n] = IF n = 0 THEN [slots |-> <<>>, next |-> p] ELSE Follow(ptr, s[n - 1])
  BY <1>9, Zenon DEF Follows
<1>11. 0 \in T
  <2>1. 0 \in 0 .. Size + 1
    BY <1>1
  <2>2. QED
    BY <1>7, <1>10, <2>1
<1>12. ASSUME NEW n \in Nat, n \in T PROVE n + 1 \in T
  <2> SUFFICES ASSUME n + 1 <= Size + 1 PROVE s[n + 1] = g[n + 1]
    OBVIOUS
  <2>1. n + 1 \in 0 .. Size + 1 /\ n + 1 # 0 /\ (n + 1) - 1 = n /\ n <= Size + 1
    BY <1>1
  <2>2. s[n] = g[n]
    BY <1>12, <2>1
  <2>3. QED
    BY <1>7, <1>10, <2>1, <2>2
<1>13. s[Size + 1] = g[Size + 1]
  <2> HIDE DEF T
  <2>1. Nat \subseteq T
    BY <1>11, <1>12, Induct
  <2>2. Size + 1 \in Nat
    BY <1>1
  <2>3. QED
    BY <1>1, <2>1, <2>2 DEF T
<1>14. g[Size + 1] = At(k)
  BY <1>1 DEF g
<1>15. QED
  BY <1>13, <1>14 DEF At, s

\* What the list holds, and what it will hold.
LEMMA ListHolds ==
  ASSUME NEW c, NEW k \in 0 .. Size
  PROVE  /\ Layout(c, k, ptrSpace, firstPtr, freePtr)
              => /\ SortedList!Chain(firstPtr) = Firsts(c, k)
                 /\ SortedList!Held(SortedList!Chain(firstPtr))
                      = [i \in 1 .. k |-> objSpace[c[i]]]
         /\ Layout(c, k, ptrSpace', firstPtr', freePtr')
              => SortedList!Held(SortedList!Chain(firstPtr))'
                   = [i \in 1 .. k |-> objSpace'[c[i]]]
<1>1. SortedList!Chain(firstPtr) = Followed(ptrSpace, firstPtr)[Size + 1].slots
  BY DEF SortedList!Chain, Followed, Follows, Follow, Nil_
<1>2. SortedList!Chain(firstPtr)' = Followed(ptrSpace', firstPtr')[Size + 1].slots
  BY DEF SortedList!Chain, Followed, Follows, Follow, Nil_
<1>3. Layout(c, k, ptrSpace, firstPtr, freePtr) => SortedList!Chain(firstPtr) = Firsts(c, k)
  BY <1>1, FollowedIs
<1>4. Layout(c, k, ptrSpace', firstPtr', freePtr') => SortedList!Chain(firstPtr)' = Firsts(c, k)
  BY <1>2, FollowedIs
<1>5. SortedList!Held(SortedList!Chain(firstPtr))
        = [i \in DOMAIN SortedList!Chain(firstPtr) |-> objSpace[SortedList!Chain(firstPtr)[i]]]
  BY DEF SortedList!Held
<1>6. SortedList!Held(SortedList!Chain(firstPtr))'
        = [i \in DOMAIN SortedList!Chain(firstPtr)' |-> objSpace'[SortedList!Chain(firstPtr)'[i]]]
  BY DEF SortedList!Held
<1>7. /\ [i \in DOMAIN Firsts(c, k) |-> objSpace[Firsts(c, k)[i]]] = [i \in 1 .. k |-> objSpace[c[i]]]
      /\ [i \in DOMAIN Firsts(c, k) |-> objSpace'[Firsts(c, k)[i]]] = [i \in 1 .. k |-> objSpace'[c[i]]]
  BY DEF Firsts
<1>8. QED
  BY <1>3, <1>4, <1>5, <1>6, <1>7

\* The first place that is in B, or the one behind the last.
FirstIn(p, k, B) ==
  /\ p \in 1 .. k + 1
  /\ \A j \in 1 .. p - 1 : j \notin B
  /\ p <= k => p \in B

LEMMA FirstInIs ==
  ASSUME NEW k \in Nat, NEW B
  PROVE  /\ \E p : FirstIn(p, k, B)
         /\ \A p, q : FirstIn(p, k, B) /\ FirstIn(q, k, B) => p = q
<1> DEFINE T == {p \in Nat : 1 <= p /\ (p \in B \/ k < p)}
<1>1. k + 1 \in T
  OBVIOUS
<1>2. PICK p \in T : \A q \in T : p <= q
  <2>1. T \in SUBSET Nat /\ T # {}
    BY <1>1
  <2> HIDE DEF T
  <2>2. QED
    BY <2>1, Least
<1>3. p <= k + 1 /\ p \in Nat /\ 1 <= p /\ (p \in B \/ k < p)
  BY <1>1, <1>2
<1>4. \A j \in 1 .. p - 1 : j \notin B
  <2> SUFFICES ASSUME NEW j \in 1 .. p - 1, j \in B PROVE FALSE
    OBVIOUS
  <2>1. j \in T /\ ~(p <= j)
    BY <1>3
  <2>2. QED
    BY <1>2, <2>1
<1>5. FirstIn(p, k, B)
  BY <1>3, <1>4 DEF FirstIn
<1>6. ASSUME NEW g, NEW h, FirstIn(g, k, B), FirstIn(h, k, B) PROVE ~(g < h)
  <2> SUFFICES ASSUME g < h PROVE FALSE
    OBVIOUS
  <2>1. g \in 1 .. k + 1 /\ h \in 1 .. k + 1
    BY <1>6 DEF FirstIn
  <2>2. g \in 1 .. h - 1 /\ g <= k
    BY <2>1
  <2>3. QED
    BY <1>6, <2>2 DEF FirstIn
<1>7. ASSUME NEW g, NEW h, FirstIn(g, k, B), FirstIn(h, k, B) PROVE g = h
  <2>1. g \in 1 .. k + 1 /\ h \in 1 .. k + 1
    BY <1>7 DEF FirstIn
  <2>2. ~(g < h) /\ ~(h < g)
    BY <1>6, <1>7
  <2>3. QED
    BY <2>1, <2>2
<1>8. QED
  BY <1>5, <1>7

\* l with x put in at p.
PutIn(l, p, x) == SubSeq(l, 1, p - 1) \o <<x>> \o SubSeq(l, p, Len(l))

Splices(t, U, l, p, x) ==
  /\ l \in Seq(U) /\ x \in U /\ p \in 1 .. Len(l) + 1
  /\ t \in Seq(U) /\ Len(t) = Len(l) + 1
  /\ \A i \in 1 .. Len(l) + 1 : t[i] = IF i < p THEN l[i] ELSE IF i = p THEN x ELSE l[i - 1]

LEMMA Spliced ==
  ASSUME NEW U, NEW l, NEW x, NEW t, NEW p, Splices(t, U, l, p, x)
  PROVE  t = PutIn(l, p, x)
<1> SUFFICES
      ASSUME l \in Seq(U), x \in U, t \in Seq(U), Len(t) = Len(l) + 1, p \in 1 .. Len(l) + 1,
             \A i \in 1 .. Len(l) + 1 :
               t[i] = IF i < p THEN l[i] ELSE IF i = p THEN x ELSE l[i - 1]
      PROVE  t = PutIn(l, p, x)
  BY DEF Splices
<1> DEFINE L == Len(l)
           a == SubSeq(l, 1, p - 1)
           b == SubSeq(l, p, L)
           v == (a \o <<x>>) \o b
<1>1. L \in Nat /\ p \in Nat /\ 1 <= p /\ p <= L + 1
  OBVIOUS
<1>2. a \in Seq(U) /\ Len(a) = p - 1 /\ \A i \in 1 .. p - 1 : a[i] = l[i]
  BY <1>1
<1>3. b \in Seq(U) /\ Len(b) = (L - p) + 1 /\ \A i \in 1 .. (L - p) + 1 : b[i] = l[(p + i) - 1]
  BY <1>1
<1> HIDE DEF a, b, L
<1> DEFINE f == a \o <<x>>
<1>4. f \in Seq(U) /\ Len(f) = p /\ f[p] = x /\ \A i \in 1 .. p - 1 : f[i] = l[i]
  <2>1. /\ f \in Seq(U) /\ Len(f) = Len(a) + 1 /\ f[Len(a) + 1] = x
        /\ \A i \in 1 .. Len(a) : f[i] = a[i]
    <3>1. a \in Seq(U) /\ x \in U
      BY <1>2
    <3>2. QED
      BY ONLY <3>1
  <2>2. Len(a) + 1 = p
    BY <1>1, <1>2
  <2> HIDE DEF f
  <2>3. QED
    BY <1>2, <2>1, <2>2
<1> HIDE DEF f
<1>5. /\ f \o b \in Seq(U) /\ Len(f \o b) = L + 1
      /\ \A i \in 1 .. L + 1 : (f \o b)[i] = IF i <= p THEN f[i] ELSE b[i - p]
  <2>1. f \in Seq(U) /\ b \in Seq(U) /\ Len(f) = p /\ Len(b) = (L - p) + 1
    BY <1>3, <1>4
  <2>2. p + ((L - p) + 1) = L + 1
    BY <1>1
  <2>3. /\ f \o b \in Seq(U) /\ Len(f \o b) = Len(f) + Len(b)
        /\ \A i \in 1 .. Len(f) + Len(b) :
             (f \o b)[i] = IF i <= Len(f) THEN f[i] ELSE b[i - Len(f)]
    BY ONLY <2>1
  <2>4. QED
    BY <2>1, <2>2, <2>3
<1> DEFINE h == f \o b
<1> HIDE DEF h
<1>6. /\ h \in Seq(U) /\ Len(h) = L + 1
      /\ \A i \in 1 .. L + 1 : h[i] = IF i <= p THEN f[i] ELSE b[i - p]
  BY <1>5 DEF h
<1>7. ASSUME NEW i \in 1 .. L + 1 PROVE t[i] = h[i]
  <2>1. t[i] = IF i < p THEN l[i] ELSE IF i = p THEN x ELSE l[i - 1]
    BY DEF L
  <2>2. CASE i < p
    <3>1. i \in 1 .. p - 1 /\ i <= p
      BY <1>1, <2>2
    <3>2. QED
      BY <1>4, <1>6, <2>1, <2>2, <3>1
  <2>3. CASE i = p
    <3>1. ~(i < p) /\ i <= p
      BY <1>1, <2>3
    <3>2. QED
      BY <1>4, <1>6, <2>1, <2>3, <3>1
  <2>4. CASE p < i
    <3>1. i - p \in 1 .. (L - p) + 1 /\ (p + (i - p)) - 1 = i - 1 /\ ~(i <= p) /\ ~(i < p) /\ i # p
      BY <1>1, <2>4
    <3>2. h[i] = b[i - p] /\ b[i - p] = l[(p + (i - p)) - 1]
      BY <1>3, <1>6, <3>1
    <3>3. QED
      BY <2>1, <3>1, <3>2
  <2>5. QED
    BY <1>1, <2>2, <2>3, <2>4
<1>8. Len(t) = L + 1
  BY DEF L
<1>9. t = h
  <2>1. Len(t) = Len(h) /\ \A i \in 1 .. Len(t) : t[i] = h[i]
    BY <1>6, <1>7, <1>8
  <2>2. QED
    BY <1>6, <2>1, SameSeq
<1>10. QED
  BY <1>9 DEF h, f, a, b, L, PutIn

ListInv ==
  /\ objSpace \in [SortedList!Slot -> Entries]
  /\ \E c : \E k \in 0 .. Size : Layout(c, k, ptrSpace, firstPtr, freePtr)

Listed == SortedList!Held(SortedList!Chain(firstPtr))

LEMMA ListIs ==
  ASSUME objSpace \in [SortedList!Slot -> Entries],
         NEW c, NEW k \in 0 .. Size, Layout(c, k, ptrSpace, firstPtr, freePtr)
  PROVE  /\ Listed \in Seq(Entries) /\ Len(Listed) = k /\ k \in Nat
         /\ \A i \in 1 .. k : Listed[i] = objSpace[c[i]]
         /\ SortedList!Sorted!Used = k
<1>1. k \in Nat /\ Size \in Nat /\ k <= Size
  BY SizeIs
<1>2. Listed = [i \in 1 .. k |-> objSpace[c[i]]]
  BY ListHolds DEF Listed
<1>3. \A i \in 1 .. k : i \in 1 .. Size
  BY <1>1
<1>4. \A i \in 1 .. k : objSpace[c[i]] \in Entries
  BY <1>3 DEF Layout, Arranged
<1>5. Listed \in Seq(Entries) /\ Len(Listed) = k
  BY <1>1, <1>2, <1>4
<1>6. SortedList!Sorted!Weights = CHOOSE f : Counts_(k, f)
  BY <1>5 DEF SortedList!Sorted!Weights, Counts_, Listed
<1>7. SortedList!Sorted!Used = k
  BY <1>1, <1>5, <1>6, CountIs DEF SortedList!Sorted!Used, Listed
<1>8. QED
  BY <1>1, <1>2, <1>5, <1>7

\* Both look for the same place.
LEMMA ListPlace ==
  ASSUME objSpace \in [SortedList!Slot -> Entries], NEW x,
         NEW c, NEW k \in 0 .. Size, Layout(c, k, ptrSpace, firstPtr, freePtr)
  PROVE  /\ SortedList!Place(SortedList!Chain(firstPtr), x) \in 1 .. k + 1
         /\ SortedList!Sorted!Place(x) = SortedList!Place(SortedList!Chain(firstPtr), x)
<1> DEFINE B == {i \in 1 .. k : comparator(objSpace[c[i]], x) > 0}
           s == SortedList!Chain(firstPtr)
           Q(i) == /\ \A j \in 1 .. i - 1 : ~SortedList!IsLarger(s[j], x)
                   /\ i <= k => SortedList!IsLarger(s[i], x)
           R(i) == /\ \A j \in 1 .. i - 1 : ~(comparator(Listed[j], x) > 0)
                   /\ i <= k => comparator(Listed[i], x) > 0
<1>1. k \in Nat /\ Size \in Nat
  BY SizeIs
<1>2. s = Firsts(c, k)
  BY ListHolds
<1>3. Len(s) = k /\ \A i \in 1 .. k : s[i] = c[i]
  BY <1>1, <1>2 DEF Firsts
<1>4. Len(Listed) = k /\ \A i \in 1 .. k : Listed[i] = objSpace[c[i]]
  BY ListIs
<1> HIDE DEF s
<1>5. \A i \in 1 .. k : (SortedList!IsLarger(s[i], x) <=> i \in B)
  BY <1>3 DEF SortedList!IsLarger
<1>6. \A i \in 1 .. k : (comparator(Listed[i], x) > 0 <=> i \in B)
  BY <1>4
<1> HIDE DEF B
<1>7. ASSUME NEW i \in 1 .. k + 1 PROVE (Q(i) <=> FirstIn(i, k, B)) /\ (R(i) <=> FirstIn(i, k, B))
  <2>1. \A j \in 1 .. i - 1 : j \in 1 .. k
    BY <1>1
  <2>2. i <= k => i \in 1 .. k
    BY <1>1
  <2>3. Q(i) <=> FirstIn(i, k, B)
    BY <1>5, <2>1, <2>2 DEF FirstIn
  <2>4. R(i) <=> FirstIn(i, k, B)
    BY <1>6, <2>1, <2>2 DEF FirstIn
  <2>5. QED
    BY <2>3, <2>4
<1>8. PICK p : FirstIn(p, k, B)
  BY <1>1, FirstInIs
<1>9. p \in 1 .. k + 1
  BY <1>8 DEF FirstIn
<1> DEFINE g == CHOOSE i \in 1 .. k + 1 : Q(i)
           h == CHOOSE i \in 1 .. k + 1 : R(i)
<1>10. SortedList!Place(s, x) = g
  BY <1>3 DEF SortedList!Place
<1>11. SortedList!Sorted!Place(x) = h
  BY <1>4 DEF SortedList!Sorted!Place, Listed
<1> HIDE DEF Q, R
<1>12. g \in 1 .. k + 1 /\ Q(g)
  BY <1>7, <1>8, <1>9
<1>13. h \in 1 .. k + 1 /\ R(h)
  BY <1>7, <1>8, <1>9
<1> HIDE DEF g, h
<1>14. FirstIn(g, k, B) /\ FirstIn(h, k, B)
  BY <1>7, <1>12, <1>13
<1>15. g = h
  BY <1>1, <1>14, FirstInIs
<1>16. QED
  BY <1>10, <1>11, <1>12, <1>15 DEF s

LEMMA ListInsert ==
  ASSUME ListInv, NEW x \in Entries, SortedList!insert(x)
  PROVE  ListInv' /\ SortedList!Sorted!Insert(x)
<1>1. PICK c : \E k \in 0 .. Size : Layout(c, k, ptrSpace, firstPtr, freePtr)
  BY DEF ListInv
<1>2. PICK k \in 0 .. Size : Layout(c, k, ptrSpace, firstPtr, freePtr)
  BY <1>1
<1>3. Size \in Nat /\ k \in Nat /\ objSpace \in [SortedList!Slot -> Entries]
  BY SizeIs DEF ListInv
<1>4. /\ c \in Arranged /\ OneToOne(c)
      /\ freePtr = IF k = Size THEN Nil_ ELSE c[k + 1]
  BY <1>2 DEF Layout
<1>5. \A i \in 1 .. Size : c[i] \in SortedList!Slot
  BY <1>4 DEF Arranged
<1>6. /\ Listed \in Seq(Entries) /\ Len(Listed) = k
      /\ \A i \in 1 .. k : Listed[i] = objSpace[c[i]]
      /\ SortedList!Sorted!Used = k
  BY <1>2, <1>3, ListIs
<1>7. CASE k = Size
  <2>1. freePtr = Nil_
    BY <1>4, <1>7
  <2>2. /\ visited' = <<"refused">>
        /\ UNCHANGED <<objSpace, ptrSpace, firstPtr, freePtr>>
    BY <2>1 DEF SortedList!insert, Nil_
  <2>3. ListInv' /\ Listed' = Listed
    BY <2>2 DEF ListInv, Listed, Layout, SortedList!Held, SortedList!Chain
  <2>4. ~(SortedList!Sorted!Used + 1 <= Size)
    BY <1>3, <1>6, <1>7
  <2>5. SortedList!Sorted!Insert(x)
    BY <2>2, <2>3, <2>4 DEF SortedList!Sorted!Insert, Listed
  <2>6. QED
    BY <2>3, <2>5
<1>8. CASE k # Size
  <2> DEFINE s == SortedList!Chain(firstPtr)
             i == SortedList!Place(s, x)
             e == Raised(c, i, k + 1)
             K == k + 1
  <2>1. k \in 0 .. Size - 1 /\ K \in 1 .. Size /\ K \in 0 .. Size /\ K = k + 1
    BY <1>3, <1>8
  <2>2. freePtr = c[K] /\ freePtr \in SortedList!Slot /\ freePtr # Nil_
    <3>1. freePtr = c[K]
      BY <1>4, <1>8
    <3>2. QED
      BY <1>5, <2>1, <3>1, NilIs
  <2>3. i \in 1 .. k + 1 /\ SortedList!Sorted!Place(x) = i
    BY <1>2, <1>3, ListPlace
  <2>4. s = Firsts(c, k)
    BY <1>2, ListHolds
  <2>5. Len(s) = k /\ \A m \in 1 .. k : s[m] = c[m]
    BY <1>3, <2>4 DEF Firsts
  <2>6. /\ IF i = 1
             THEN /\ firstPtr' = freePtr
                  /\ ptrSpace' = [ptrSpace EXCEPT ![freePtr] = firstPtr]
             ELSE /\ ptrSpace' = [ptrSpace EXCEPT
                                    ![freePtr] = IF i > Len(s) THEN Nil_ ELSE s[i],
                                    ![s[i - 1]] = freePtr]
                  /\ firstPtr' = firstPtr
        /\ objSpace' = [objSpace EXCEPT ![freePtr] = x]
        /\ freePtr' = ptrSpace[freePtr]
        /\ visited' = <<"inserted">>
    BY <2>2 DEF SortedList!insert, Nil_
  <2> HIDE DEF s, i, K, e
  <2>7. (i > k \/ s[i] = c[i]) /\ (i = 1 \/ s[i - 1] = c[i - 1])
    <3>1. ~(i > k) => i \in 1 .. k
      BY <1>3, <2>3
    <3>2. i # 1 => i - 1 \in 1 .. k
      BY <1>3, <2>3
    <3>3. QED
      BY <2>5, <3>1, <3>2
  <2>8. /\ ptrSpace' = IF i = 1 THEN [ptrSpace EXCEPT ![freePtr] = firstPtr]
                       ELSE [ptrSpace EXCEPT ![freePtr] = IF i > k THEN Nil_ ELSE c[i],
                                             ![c[i - 1]] = freePtr]
        /\ firstPtr' = IF i = 1 THEN freePtr ELSE firstPtr
    BY <2>5, <2>6, <2>7
  <2>9. Layout(e, K, ptrSpace', firstPtr', freePtr')
    <3>1. Layout(Raised(c, i, k + 1), k + 1,
                 IF i = 1 THEN [ptrSpace EXCEPT ![freePtr] = firstPtr]
                 ELSE [ptrSpace EXCEPT ![freePtr] = IF i > k THEN Nil_ ELSE c[i],
                                       ![c[i - 1]] = freePtr],
                 IF i = 1 THEN freePtr ELSE firstPtr, ptrSpace[freePtr])
      BY <1>2, <2>1, <2>3, LinksIn
    <3>2. QED
      BY <2>6, <2>8, <3>1, Zenon DEF e, K
  <2>10. objSpace' \in [SortedList!Slot -> Entries]
    BY <1>3, <2>6
  <2>11. ListInv'
    BY <2>1, <2>9, <2>10 DEF ListInv
  <2>12. Listed' = [m \in 1 .. K |-> objSpace'[e[m]]]
    BY <2>1, <2>9, ListHolds DEF Listed
  <2>13. \A m \in 1 .. K : e[m] = IF m < i THEN c[m] ELSE IF m = i THEN c[K] ELSE c[m - 1]
    <3>1. \A m \in 1 .. K : m \in 1 .. Size /\ ~(K < m)
      BY <1>3, <2>1
    <3>2. QED
      BY <3>1 DEF e, Raised, Up, K
  <2>14. \A m \in 1 .. K : /\ m < i => objSpace'[e[m]] = Listed[m]
                           /\ m = i => objSpace'[e[m]] = x
                           /\ i < m => objSpace'[e[m]] = Listed[m - 1]
    <3> SUFFICES ASSUME NEW m \in 1 .. K
                 PROVE  /\ m < i => objSpace'[e[m]] = Listed[m]
                        /\ m = i => objSpace'[e[m]] = x
                        /\ i < m => objSpace'[e[m]] = Listed[m - 1]
      OBVIOUS
    <3>1. \A n \in 1 .. k : objSpace'[c[n]] = Listed[n]
      <4>1. \A n \in 1 .. k : n \in 1 .. Size /\ n # K
        BY <1>3, <2>1
      <4>2. \A n \in 1 .. k : c[n] # c[K] /\ c[n] \in SortedList!Slot
        BY <1>4, <1>5, <2>1, <4>1 DEF OneToOne
      <4>3. QED
        BY <1>3, <1>6, <2>2, <2>6, <4>2
    <3>2. objSpace'[c[K]] = x
      BY <1>3, <2>2, <2>6
    <3>3. /\ m < i => m \in 1 .. k
          /\ i < m => m - 1 \in 1 .. k /\ ~(m < i) /\ m # i
          /\ m = i => ~(m < i)
      BY <1>3, <2>1, <2>3
    <3>4. QED
      BY <2>13, <3>1, <3>2, <3>3
  <2>15. Listed' \in Seq(Entries) /\ Len(Listed') = k + 1
    <3>1. \A m \in 1 .. K : objSpace'[e[m]] \in Entries
      <4>1. e \in Arranged /\ \A m \in 1 .. K : m \in 1 .. Size
        BY <1>3, <2>1, <2>9 DEF Layout
      <4>2. QED
        BY <2>10, <4>1 DEF Arranged
    <3>2. K \in Nat
      BY <2>1
    <3>3. QED
      BY <2>1, <2>12, <3>1, <3>2
  <2>16. \A m \in 1 .. k + 1 :
           Listed'[m] = IF m < i THEN Listed[m] ELSE IF m = i THEN x ELSE Listed[m - 1]
    <3>1. \A m \in 1 .. K : m < i \/ m = i \/ i < m
      BY <1>3, <2>1, <2>3
    <3>2. QED
      BY <2>1, <2>12, <2>14, <3>1
  <2> DEFINE l == Listed
             t == Listed'
  <2>17. t = PutIn(l, i, x)
    <3>1. /\ l \in Seq(Entries) /\ t \in Seq(Entries) /\ Len(t) = Len(l) + 1
          /\ i \in 1 .. Len(l) + 1
          /\ \A m \in 1 .. Len(l) + 1 : t[m] = IF m < i THEN l[m] ELSE IF m = i THEN x ELSE l[m - 1]
      BY <1>6, <2>3, <2>15, <2>16
    <3> HIDE DEF l, t
    <3>2. Splices(t, Entries, l, i, x)
      BY <3>1 DEF Splices
    <3>3. QED
      BY <3>2, Spliced
  <2>18. SortedList!Sorted!Used + 1 <= Size
    BY <1>3, <1>6, <2>1
  <2>19. SortedList!Sorted!Insert(x)
    BY <2>3, <2>6, <2>17, <2>18 DEF SortedList!Sorted!Insert, Listed, PutIn
  <2>20. QED
    BY <2>11, <2>19
<1>9. QED
  BY <1>7, <1>8

Walks_ == [ptr : [SortedList!Slot -> Links], first : Links, free : Links,
           slot : Links, prev : Links, left : Nat, seen : Seq(Entries)]

\* The loop after it has asked about the first j items of l.
Chained(t, c, l, b, n, j) ==
  /\ t \in Walks_
  /\ Layout(c, Len(b.kept) + (Len(l) - j), t.ptr, t.first, t.free)
  /\ t.slot = IF j = Len(l) THEN Nil_ ELSE c[Len(b.kept) + 1]
  /\ t.prev = IF Len(b.kept) = 0 THEN Nil_ ELSE c[Len(b.kept)]
  /\ t.left = n - Len(b.seen) /\ t.seen = b.seen
  /\ \A i \in 1 .. Len(b.kept) : objSpace[c[i]] = b.kept[i]
  /\ \A i \in 1 .. Len(l) - j : objSpace[c[Len(b.kept) + i]] = l[j + i]

\* The turn at an item that is asked for.
Takes(t, x) ==
  [ptr   |-> IF t.slot = t.first THEN [t.ptr EXCEPT ![t.slot] = t.free]
             ELSE [t.ptr EXCEPT ![t.prev] = t.ptr[t.slot], ![t.slot] = t.free],
   first |-> IF t.slot = t.first THEN t.ptr[t.slot] ELSE t.first,
   free  |-> t.slot,
   slot  |-> t.ptr[t.slot],
   prev  |-> IF t.slot = t.first THEN Nil_ ELSE t.prev,
   left  |-> t.left - 1,
   seen  |-> Append(t.seen, x)]

LEMMA TurnTakes ==
  ASSUME NEW t \in Walks_, NEW P, objSpace[t.slot] \in P
  PROVE  SortedList!Turn(P, t) = Takes(t, objSpace[t.slot])
<1> DEFINE A == IF t.slot = t.first THEN [t.ptr EXCEPT ![t.slot] = t.free]
                ELSE [t.ptr EXCEPT ![t.prev] = t.ptr[t.slot], ![t.slot] = t.free]
           F == IF t.slot = t.first THEN t.ptr[t.slot] ELSE t.first
           G == IF t.slot = t.first THEN Nil_ ELSE t.prev
           v == [t EXCEPT !.first = F, !.ptr = A, !.prev = G, !.free = t.slot]
<1>1. SortedList!Removed(t) = v
  BY DEF SortedList!Removed, Nil_
<1>2. SortedList!Turn(P, t)
        = [v EXCEPT !.slot = t.ptr[t.slot], !.left = v.left - 1,
                    !.seen = Append(v.seen, objSpace[t.slot])]
  BY <1>1 DEF SortedList!Turn
<1> HIDE DEF A, F, G
<1>3. v.left = t.left /\ v.seen = t.seen
  BY DEF Walks_
<1>4. v = [ptr |-> A, first |-> F, free |-> t.slot, slot |-> t.slot, prev |-> G,
           left |-> t.left, seen |-> t.seen]
  <2> DEFINE X == [SortedList!Slot -> Links] \cup {A}
             Y == Links \cup {F, G}
             Z == Seq(Entries)
  <2>1. t \in [ptr : X, first : Y, free : Y, slot : Y, prev : Y, left : Nat, seen : Z]
    BY DEF Walks_
  <2>2. A \in X /\ F \in Y /\ G \in Y /\ t.slot \in Y
    BY <2>1
  <2> HIDE DEF X, Y, Z
  <2> DEFINE V == [ptr : X, first : Y, free : Y, slot : Y, prev : Y, left : Nat, seen : Z]
  <2>3. v \in V
    BY <2>1, <2>2
  <2>4. v.first = F /\ v.ptr = A /\ v.prev = G /\ v.free = t.slot
    BY <2>1
  <2>5. v.slot = t.slot /\ v.left = t.left /\ v.seen = t.seen
    BY <2>1
  <2> HIDE DEF v
  <2>6. v = [ptr |-> v.ptr, first |-> v.first, free |-> v.free, slot |-> v.slot,
             prev |-> v.prev, left |-> v.left, seen |-> v.seen]
    BY <2>3
  <2>7. QED
    BY <2>4, <2>5, <2>6
<1> HIDE DEF v
<1>5. SortedList!Turn(P, t)
        = [ptr |-> A, first |-> F, free |-> t.slot, slot |-> t.ptr[t.slot], prev |-> G,
           left |-> t.left - 1, seen |-> Append(t.seen, objSpace[t.slot])]
  BY <1>2, <1>3, <1>4
<1>6. QED
  BY <1>5 DEF Takes, A, F, G

LEMMA ListTurn ==
  ASSUME objSpace \in [SortedList!Slot -> Entries],
         NEW l \in Seq(Entries), Len(l) <= Size, NEW P, NEW n \in Nat, NEW j \in 0 .. Len(l) - 1,
         NEW t, NEW c, Chained(t, c, l, Walk(l, P, n)[j], n, j), t.left # 0
  PROVE  \E e : Chained(SortedList!Turn(P, t), e, l, Walk(l, P, n)[j + 1], n, j + 1)
<1>0. \A m \in 0 .. Len(l) : Dealt(Entries, Walk(l, P, n)[m], m)
  BY WalkType
<1> DEFINE L == Len(l)
           x == l[j + 1]
           b == Walk(l, P, n)[j]
           s == b.seen
           q == b.kept
           m == Len(q)
           k == m + (L - j)
           i == m + 1
<1>1. L \in Nat /\ Size \in Nat /\ j \in Nat /\ j + 1 <= L /\ j \in 0 .. L /\ j + 1 \in 1 .. L
      /\ (j + 1) - 1 = j /\ j # L
  BY SizeIs
<1>2. x \in Entries
  BY <1>1
<1>3. s \in Seq(Entries) /\ q \in Seq(Entries) /\ Len(s) + m = j /\ b = [seen |-> s, kept |-> q]
  BY <1>0, <1>1, Zenon DEF Dealt
<1>4. Walk(l, P, n)[j + 1] = Asked(l, P, n, b, j + 1)
  BY <1>1, WalkIs
<1> HIDE DEF b
<1>5. /\ t \in Walks_ /\ Layout(c, k, t.ptr, t.first, t.free)
      /\ t.slot = c[i] /\ t.prev = (IF m = 0 THEN Nil_ ELSE c[m])
      /\ t.left = n - Len(s) /\ t.seen = s
      /\ \A h \in 1 .. m : objSpace[c[h]] = q[h]
      /\ \A h \in 1 .. L - j : objSpace[c[m + h]] = l[j + h]
  BY <1>1 DEF Chained, b
<1> HIDE DEF L, x, s, q
<1>6. m \in Nat /\ Len(s) \in Nat
  BY <1>3, LenProperties
<1> HIDE DEF m
<1>7. /\ k \in Nat /\ k \in 1 .. Size /\ i \in 1 .. k /\ i \in Nat /\ i \in 1 .. Size /\ i = m + 1
      /\ (i = k <=> j + 1 = L) /\ (m = 0 <=> i = 1) /\ k - 1 = m + (L - (j + 1))
      /\ k = i + (L - (j + 1)) /\ m \in Nat /\ i - 1 = m /\ k <= Size
  <2>1. L <= Size
    BY DEF L
  <2>2. m <= j
    <3>1. \A g, h \in Nat : g + h = j => h <= j
      BY <1>1
    <3>2. QED
      BY <1>3, <1>6, <3>1
  <2>3. QED
    BY <1>1, <1>6, <2>1, <2>2
<1> HIDE DEF k, i
<1>8. /\ c \in Arranged /\ OneToOne(c) /\ t.ptr \in [SortedList!Slot -> Links]
      /\ t.first = c[1]
      /\ \A h \in 1 .. Size : t.ptr[c[h]] = IF h = k \/ h = Size THEN Nil_ ELSE c[h + 1]
  <2>1. k # 0
    BY <1>7
  <2>2. QED
    BY <1>5, <2>1 DEF Layout
<1>9. /\ t.slot \in SortedList!Slot /\ t.left \in Nat /\ t.seen \in Seq(Entries)
      /\ t.slot = t.first <=> i = 1
  <2>1. t.left \in Nat /\ t.seen \in Seq(Entries)
    BY <1>5 DEF Walks_
  <2>2. 1 \in 1 .. Size
    BY <1>1, <1>7
  <2>3. c[i] \in SortedList!Slot /\ (c[i] = c[1] <=> i = 1)
    BY <1>7, <1>8, <2>2 DEF Arranged, OneToOne
  <2>4. QED
    BY <1>5, <1>8, <2>1, <2>3
<1>10. objSpace[t.slot] = x
  <2>1. 1 \in 1 .. L - j
    BY <1>1
  <2>2. objSpace[c[m + 1]] = l[j + 1]
    BY <1>5, <2>1
  <2>3. QED
    BY <1>5, <1>7, <2>2 DEF x
<1>11. Len(s) < n
  BY <1>5, <1>6, <1>9
<1>12. t.ptr[t.slot] = (IF j + 1 = L THEN Nil_ ELSE c[i + 1]) /\ t.ptr[t.slot] \in Links
  <2>1. t.ptr[c[i]] = IF i = k \/ i = Size THEN Nil_ ELSE c[i + 1]
    BY <1>7, <1>8
  <2>2. i = Size => i = k
    BY <1>1, <1>7
  <2>3. QED
    BY <1>5, <1>7, <1>8, <1>9, <2>1, <2>2
<1>13. CASE x \in P
  <2> DEFINE e == Lowered(c, i, k)
             v == Takes(t, x)
  <2>1. SortedList!Turn(P, t) = v
    BY <1>5, <1>10, <1>13, TurnTakes
  <2>2. Layout(e, k - 1,
               IF i = 1 THEN [t.ptr EXCEPT ![c[i]] = t.free]
               ELSE [t.ptr EXCEPT ![c[i - 1]] = t.ptr[c[i]], ![c[i]] = t.free],
               IF i = 1 THEN t.ptr[c[i]] ELSE t.first, c[i])
    BY <1>5, <1>7, Unlinks
  <2>3. /\ v.ptr = IF i = 1 THEN [t.ptr EXCEPT ![c[i]] = t.free]
                   ELSE [t.ptr EXCEPT ![c[i - 1]] = t.ptr[c[i]], ![c[i]] = t.free]
        /\ v.first = IF i = 1 THEN t.ptr[c[i]] ELSE t.first
        /\ v.free = c[i] /\ v.slot = t.ptr[t.slot]
        /\ v.prev = IF i = 1 THEN Nil_ ELSE t.prev
        /\ v.left = t.left - 1 /\ v.seen = Append(t.seen, x)
    <3>1. t.slot = c[i] /\ (i # 1 => t.prev = c[i - 1])
      BY <1>5, <1>7
    <3>2. QED
      BY <1>9, <3>1 DEF Takes
  <2>4. Layout(e, k - 1, v.ptr, v.first, v.free)
    BY <2>2, <2>3, Zenon
  <2>5. Append(s, x) \in Seq(Entries) /\ Len(Append(s, x)) = Len(s) + 1
    BY <1>2, <1>3, AppendIs
  <2>6. t.left - 1 \in Nat /\ t.left - 1 = n - Len(Append(s, x))
    BY <1>5, <1>6, <1>9, <2>5
  <2>7. v \in Walks_
    <3>1. v.ptr \in [SortedList!Slot -> Links]
      BY <2>4 DEF Layout
    <3>2. v.first \in Links /\ v.free \in Links /\ v.prev \in Links /\ v.slot \in Links
      <4>1. t.first \in Links /\ t.prev \in Links
        BY <1>5 DEF Walks_
      <4>2. QED
        BY <1>5, <1>9, <1>12, <2>3, <4>1, NilIs DEF Links
    <3>3. v.left \in Nat /\ v.seen \in Seq(Entries)
      BY <1>5, <2>3, <2>5, <2>6
    <3>4. v = [ptr |-> v.ptr, first |-> v.first, free |-> v.free, slot |-> v.slot,
               prev |-> v.prev, left |-> v.left, seen |-> v.seen]
      BY DEF Takes
    <3> HIDE DEF v
    <3>5. QED
      BY <3>1, <3>2, <3>3, <3>4 DEF Walks_
  <2>8. Walk(l, P, n)[j + 1] = [seen |-> Append(s, x), kept |-> q]
    BY <1>4, <1>11, <1>13 DEF Asked, s, q, x
  <2> DEFINE g == [seen |-> Append(s, x), kept |-> q]
  <2>9. g.seen = Append(s, x) /\ g.kept = q
    OBVIOUS
  <2> HIDE DEF g, v
  <2>10. \A h \in 1 .. Size : e[h] = IF h < i \/ k < h THEN c[h] ELSE IF h = k THEN c[i] ELSE c[h + 1]
    BY DEF Lowered, Down
  <2> HIDE DEF e
  <2>11. v.slot = IF j + 1 = L THEN Nil_ ELSE e[m + 1]
    <3>1. j + 1 # L => ~(i < i) /\ ~(k < i) /\ i # k /\ i \in 1 .. Size
      BY <1>1, <1>7
    <3>2. j + 1 # L => e[i] = c[i + 1]
      BY <2>10, <3>1
    <3>3. QED
      BY <1>7, <1>12, <2>3, <3>2
  <2>12. v.prev = IF m = 0 THEN Nil_ ELSE e[m]
    <3>1. m # 0 => m < i /\ m \in 1 .. Size
      BY <1>1, <1>7
    <3>2. m # 0 => e[m] = c[m]
      BY <2>10, <3>1
    <3>3. QED
      BY <1>5, <1>7, <2>3, <3>2
  <2>13. \A h \in 1 .. m : objSpace[e[h]] = q[h]
    <3>1. \A h \in 1 .. m : h < i /\ h \in 1 .. Size
      BY <1>1, <1>7
    <3>2. \A h \in 1 .. m : e[h] = c[h]
      BY <2>10, <3>1
    <3>3. QED
      BY <1>5, <3>2
  <2>14. \A h \in 1 .. L - (j + 1) : objSpace[e[m + h]] = l[(j + 1) + h]
    <3> SUFFICES ASSUME NEW h \in 1 .. L - (j + 1) PROVE objSpace[e[m + h]] = l[(j + 1) + h]
      OBVIOUS
    <3>1. /\ m + h \in 1 .. Size /\ ~(m + h < i) /\ ~(k < m + h) /\ m + h # k
          /\ h + 1 \in 1 .. L - j /\ (m + h) + 1 = m + (h + 1) /\ j + (h + 1) = (j + 1) + h
      BY <1>1, <1>7
    <3>2. e[m + h] = c[m + (h + 1)]
      BY <2>10, <3>1
    <3>3. QED
      BY <1>5, <3>1, <3>2
  <2>15. Layout(e, m + (L - (j + 1)), v.ptr, v.first, v.free)
    BY <1>7, <2>4
  <2>16. v.left = n - Len(Append(s, x)) /\ v.seen = Append(s, x)
    BY <1>5, <2>3, <2>6
  <2>17. Chained(v, e, l, g, n, j + 1)
    BY <2>7, <2>9, <2>11, <2>12, <2>13, <2>14, <2>15, <2>16 DEF Chained, L, m
  <2>18. QED
    BY <2>1, <2>8, <2>17 DEF g
<1>14. CASE x \notin P
  <2> DEFINE v == [t EXCEPT !.slot = t.ptr[t.slot], !.prev = t.slot]
  <2>1. SortedList!Turn(P, t) = v
    BY <1>10, <1>14 DEF SortedList!Turn
  <2>2. t.slot \in Links
    BY <1>9 DEF Links
  <2>3. /\ v \in Walks_ /\ v.ptr = t.ptr /\ v.first = t.first /\ v.free = t.free
        /\ v.slot = t.ptr[t.slot] /\ v.prev = t.slot /\ v.left = t.left /\ v.seen = t.seen
    BY <1>5, <1>12, <2>2 DEF Walks_
  <2> DEFINE a == Append(q, x)
             g == [seen |-> s, kept |-> a]
  <2>4. /\ a \in Seq(Entries) /\ Len(a) = m + 1
        /\ \A h \in 1 .. m : a[h] = q[h]
        /\ a[m + 1] = x
    <3>1. /\ Append(q, x) \in Seq(Entries) /\ Len(Append(q, x)) = Len(q) + 1
          /\ \A h \in 1 .. Len(q) : Append(q, x)[h] = q[h]
          /\ Append(q, x)[Len(q) + 1] = x
      BY <1>2, <1>3, AppendIs
    <3>2. QED
      BY <3>1 DEF m
  <2>5. Walk(l, P, n)[j + 1] = g
    BY <1>4, <1>14 DEF Asked, s, q, x
  <2>6. g.seen = s /\ g.kept = a
    OBVIOUS
  <2> HIDE DEF v, g, a
  <2>7. Layout(c, Len(a) + (L - (j + 1)), v.ptr, v.first, v.free)
    BY <1>5, <1>7, <2>3, <2>4
  <2>8. v.slot = (IF j + 1 = L THEN Nil_ ELSE c[Len(a) + 1])
    BY <1>7, <1>12, <2>3, <2>4
  <2>9. v.prev = IF Len(a) = 0 THEN Nil_ ELSE c[Len(a)]
    BY <1>5, <1>7, <2>3, <2>4
  <2>10. \A h \in 1 .. Len(a) : objSpace[c[h]] = a[h]
    <3> SUFFICES ASSUME NEW h \in 1 .. Len(a) PROVE objSpace[c[h]] = a[h]
      OBVIOUS
    <3>1. CASE h = m + 1
      BY <1>5, <1>7, <1>10, <2>4, <3>1
    <3>2. CASE h # m + 1
      <4>1. h \in 1 .. m
        BY <1>7, <2>4, <3>2
      <4>2. QED
        BY <1>5, <2>4, <4>1
    <3>3. QED
      BY <3>1, <3>2
  <2>11. \A h \in 1 .. L - (j + 1) : objSpace[c[Len(a) + h]] = l[(j + 1) + h]
    <3> SUFFICES ASSUME NEW h \in 1 .. L - (j + 1) PROVE objSpace[c[Len(a) + h]] = l[(j + 1) + h]
      OBVIOUS
    <3>1. /\ h + 1 \in 1 .. L - j /\ (m + 1) + h = m + (h + 1) /\ j + (h + 1) = (j + 1) + h
      BY <1>1, <1>7
    <3>2. objSpace[c[m + (h + 1)]] = l[j + (h + 1)]
      BY <1>5, <3>1
    <3>3. QED
      BY <2>4, <3>1, <3>2
  <2>12. Chained(v, c, l, g, n, j + 1)
    BY <1>5, <2>3, <2>6, <2>7, <2>8, <2>9, <2>10, <2>11 DEF Chained, L
  <2>13. QED
    BY <2>1, <2>5, <2>12
<1>15. QED
  BY <1>13, <1>14

ListStep(P, b) ==
  IF b.slot = Nil_ \/ b.left = 0 THEN b ELSE SortedList!Turn(P, b)
ListLoops(P, start, N, f) ==
  f = [i \in 0 .. N |-> IF i = 0 THEN start ELSE ListStep(P, f[i - 1])]
ListLoop(P, start) == CHOOSE f : ListLoops(P, start, Size, f)

LEMMA ListLoopIs ==
  ASSUME NEW P, NEW start
  PROVE  /\ SortedList!Loop(P, start) = ListLoop(P, start)[Size]
         /\ ListLoop(P, start)[0] = start
         /\ \A i \in 1 .. Size :
              ListLoop(P, start)[i] = ListStep(P, ListLoop(P, start)[i - 1])
<1> DEFINE T == {N \in Nat : \E f : ListLoops(P, start, N, f)}
<1>1. 0 \in T
  <2>1. ListLoops(P, start, 0, [i \in 0 .. 0 |-> start])
    BY DEF ListLoops
  <2>2. QED
    BY <2>1
<1>2. ASSUME NEW N \in Nat, N \in T PROVE N + 1 \in T
  <2>1. PICK f : ListLoops(P, start, N, f)
    BY <1>2
  <2> DEFINE g == [i \in 0 .. N + 1 |-> IF i = N + 1 THEN ListStep(P, f[N]) ELSE f[i]]
  <2>2. ASSUME NEW i \in 0 .. N + 1
        PROVE  g[i] = IF i = 0 THEN start ELSE ListStep(P, g[i - 1])
    <3>1. CASE i = N + 1
      <4>1. i # 0 /\ i - 1 = N /\ N \in 0 .. N + 1 /\ N # N + 1
        BY <3>1
      <4>2. g[i - 1] = f[N]
        BY <4>1
      <4>3. QED
        BY <3>1, <4>1, <4>2
    <3>2. CASE i # N + 1
      <4>1. i \in 0 .. N /\ (i # 0 => i - 1 \in 0 .. N + 1 /\ i - 1 # N + 1)
        BY <3>2
      <4>2. f[i] = IF i = 0 THEN start ELSE ListStep(P, f[i - 1])
        BY <2>1, <4>1, Zenon DEF ListLoops
      <4>3. i # 0 => g[i - 1] = f[i - 1]
        BY <4>1
      <4>4. QED
        BY <3>2, <4>2, <4>3
    <3>3. QED
      BY <3>1, <3>2
  <2>3. ListLoops(P, start, N + 1, g)
    <3> DEFINE h == [i \in 0 .. N + 1 |-> IF i = 0 THEN start ELSE ListStep(P, g[i - 1])]
    <3>1. \A i \in 0 .. N + 1 : g[i] = h[i]
      BY <2>2
    <3>2. g = h
      BY <3>1
    <3>3. QED
      BY <3>2 DEF ListLoops
  <2>4. QED
    BY <2>3
<1>3. \E f : ListLoops(P, start, Size, f)
  <2>1. Nat \subseteq T
    <3> HIDE DEF T
    <3>1. QED
      BY <1>1, <1>2, Induct
  <2>2. QED
    BY <2>1, SizeIs
<1>4. ListLoops(P, start, Size, ListLoop(P, start))
  BY <1>3, Zenon DEF ListLoop
<1>5. \A i \in 0 .. Size : ListLoop(P, start)[i]
        = IF i = 0 THEN start ELSE ListStep(P, ListLoop(P, start)[i - 1])
  BY <1>4, Zenon DEF ListLoops
<1>6. 0 \in 0 .. Size /\ \A i \in 1 .. Size : i \in 0 .. Size /\ i # 0
  BY SizeIs
<1>7. SortedList!Loop(P, start) = ListLoop(P, start)[Size]
  BY DEF SortedList!Loop, ListLoop, ListLoops, ListStep, Nil_
<1>8. QED
  BY <1>5, <1>6, <1>7

ListStart(n) ==
  [ptr |-> ptrSpace, first |-> firstPtr, free |-> freePtr,
   slot |-> firstPtr, prev |-> Nil_, left |-> n, seen |-> <<>>]

\* What the loop leaves behind is what the walk along the list keeps.
LEMMA ListLoopEnds ==
  ASSUME objSpace \in [SortedList!Slot -> Entries],
         NEW c, NEW k \in 0 .. Size, Layout(c, k, ptrSpace, firstPtr, freePtr),
         NEW P, NEW n \in Nat
  PROVE  LET end  == SortedList!Loop(P, ListStart(n))
             walk == Walk(Listed, P, n)[Len(Listed)]
         IN  /\ end.seen = walk.seen /\ walk.kept \in Seq(Entries) /\ Len(walk.kept) \in 0 .. Size
             /\ \E e : /\ Layout(e, Len(walk.kept), end.ptr, end.first, end.free)
                       /\ \A i \in 1 .. Len(walk.kept) : objSpace[e[i]] = walk.kept[i]
<1> DEFINE l == Listed
           L == Len(l)
           W == Walk(l, P, n)
           start == ListStart(n)
           q == ListLoop(P, start)
           Now(i) == \E j \in 0 .. L : \E e : /\ Chained(q[i], e, l, W[j], n, j)
                                              /\ j = i \/ q[i].left = 0 \/ j = L
           T == {i \in Nat : i <= Size => Now(i)}
<1>1. /\ L = k /\ L \in Nat /\ Size \in Nat /\ L <= Size /\ l \in Seq(Entries)
      /\ \A i \in 1 .. L : l[i] = objSpace[c[i]]
  BY ListIs, SizeIs
<1>2. /\ SortedList!Loop(P, start) = q[Size] /\ q[0] = start
      /\ \A i \in 1 .. Size : q[i] = ListStep(P, q[i - 1])
  BY ListLoopIs
<1>3. \A j \in 0 .. L : Dealt(Entries, W[j], j)
  BY <1>1, WalkType
<1>4. \A j \in 0 .. L : /\ W[j].seen \in Seq(Entries) /\ W[j].kept \in Seq(Entries)
                        /\ Len(W[j].seen) + Len(W[j].kept) = j
                        /\ Len(W[j].seen) \in Nat /\ Len(W[j].kept) \in Nat
  <2> SUFFICES ASSUME NEW j \in 0 .. L
               PROVE  /\ W[j].seen \in Seq(Entries) /\ W[j].kept \in Seq(Entries)
                      /\ Len(W[j].seen) + Len(W[j].kept) = j
                      /\ Len(W[j].seen) \in Nat /\ Len(W[j].kept) \in Nat
    OBVIOUS
  <2>1. Dealt(Entries, W[j], j)
    BY <1>3
  <2>2. /\ W[j].seen \in Seq(Entries) /\ W[j].kept \in Seq(Entries)
        /\ Len(W[j].seen) + Len(W[j].kept) = j
    BY <2>1, Zenon DEF Dealt
  <2>3. QED
    BY <2>2, LenProperties
<1>5. W[0] = Start
  BY <1>1, WalkIs
<1>6. ASSUME NEW t, NEW e, NEW j \in 0 .. L - 1, Chained(t, e, l, W[j], n, j), t.left # 0
      PROVE  \E g : Chained(SortedList!Turn(P, t), g, l, W[j + 1], n, j + 1)
  BY <1>1, <1>6, ListTurn
<1>7. ASSUME NEW j \in 0 .. L, ~(Len(W[j].seen) < n)
      PROVE  W[L].seen = W[j].seen /\ Joined(W[L].kept, W[j].kept, l, j)
  BY <1>1, <1>7, WalkStops
<1> HIDE DEF l, L, W, q, T
<1>8. 0 \in T
  <2>1. Chained(start, c, l, W[0], n, 0)
    <3>1. /\ ptrSpace \in [SortedList!Slot -> Links] /\ c \in Arranged
          /\ firstPtr = (IF L = 0 THEN Nil_ ELSE c[1])
          /\ freePtr = IF L = Size THEN Nil_ ELSE c[L + 1]
      BY <1>1 DEF Layout
    <3>2. firstPtr \in Links /\ freePtr \in Links
      <4>1. (L # 0 => 1 \in 1 .. Size) /\ (L # Size => L + 1 \in 1 .. Size)
        BY <1>1
      <4>2. QED
        BY <3>1, <4>1, NilIs DEF Arranged, Links
    <3>3. start \in Walks_
      BY <3>1, <3>2, NilIs DEF ListStart, Walks_
    <3>4. /\ start.ptr = ptrSpace /\ start.first = firstPtr /\ start.free = freePtr
          /\ start.slot = firstPtr /\ start.prev = Nil_ /\ start.left = n /\ start.seen = <<>>
      BY DEF ListStart
    <3>5. W[0].seen = <<>> /\ W[0].kept = <<>>
      BY <1>5 DEF Start
    <3> HIDE DEF start
    <3>6. Len(<<>>) = 0
      OBVIOUS
    <3>7. L - 0 = L /\ 0 + L = L /\ n - 0 = n /\ 0 + 1 = 1
      BY <1>1
    <3>8. \A i \in 1 .. L : objSpace[c[0 + i]] = l[0 + i]
      BY <1>1
    <3>9. Layout(c, 0 + (L - 0), start.ptr, start.first, start.free)
      BY <1>1, <3>4, <3>7
    <3>10. QED
      BY <3>1, <3>3, <3>4, <3>5, <3>6, <3>7, <3>8, <3>9 DEF Chained, L
  <2>2. Now(0)
    <3>1. 0 \in 0 .. L
      BY <1>1
    <3>2. Chained(q[0], c, l, W[0], n, 0)
      BY <1>2, <2>1, Zenon
    <3>3. QED
      BY <3>1, <3>2
  <2>3. QED
    BY <2>2 DEF T
<1>9. ASSUME NEW i \in Nat, i \in T PROVE i + 1 \in T
  <2> SUFFICES ASSUME i + 1 <= Size PROVE Now(i + 1)
    BY DEF T
  <2>1. i + 1 \in 1 .. Size /\ (i + 1) - 1 = i /\ i <= Size
    BY <1>1
  <2>2. Now(i)
    BY <1>9, <2>1 DEF T
  <2>3. PICK j \in 0 .. L : \E e : /\ Chained(q[i], e, l, W[j], n, j)
                                   /\ j = i \/ q[i].left = 0 \/ j = L
    BY <2>2
  <2>4. PICK e : Chained(q[i], e, l, W[j], n, j) /\ (j = i \/ q[i].left = 0 \/ j = L)
    BY <2>3
  <2>5. q[i + 1] = ListStep(P, q[i])
    BY <1>2, <2>1
  <2>6. q[i].slot = Nil_ <=> j = L
    <3>1. q[i].slot = (IF j = L THEN Nil_ ELSE e[Len(W[j].kept) + 1]) /\ e \in Arranged
      BY <2>4 DEF Chained, Layout, L
    <3>2. j # L => Len(W[j].kept) + 1 \in 1 .. Size
      <4> DEFINE m == Len(W[j].kept)
                 h == Len(W[j].seen)
      <4>1. h + m = j /\ h \in Nat /\ m \in Nat
        BY <1>4
      <4> HIDE DEF m, h
      <4>2. j # L => m + 1 \in 1 .. Size
        BY <1>1, <4>1
      <4>3. QED
        BY <4>2 DEF m
    <3>3. QED
      BY <3>1, <3>2, NilIs DEF Arranged
  <2>7. CASE q[i].slot = Nil_ \/ q[i].left = 0
    <3>1. q[i + 1] = q[i] /\ (q[i].left = 0 \/ j = L)
      BY <2>5, <2>6, <2>7 DEF ListStep
    <3>2. QED
      BY <2>4, <3>1
  <2>8. CASE ~(q[i].slot = Nil_ \/ q[i].left = 0)
    <3>1. q[i + 1] = SortedList!Turn(P, q[i]) /\ j = i /\ j # L /\ q[i].left # 0
      BY <2>4, <2>5, <2>6, <2>8 DEF ListStep
    <3>2. j \in 0 .. L - 1 /\ j + 1 \in 0 .. L
      BY <1>1, <3>1
    <3>3. \E g : Chained(SortedList!Turn(P, q[i]), g, l, W[j + 1], n, j + 1)
      BY <1>6, <2>4, <3>1, <3>2
    <3>4. (\E g : Chained(q[i + 1], g, l, W[j + 1], n, j + 1)) /\ j + 1 = i + 1
      BY <3>1, <3>3
    <3>5. QED
      BY <3>2, <3>4
  <2>9. QED
    BY <2>7, <2>8
<1>10. Now(Size)
  <2>1. Nat \subseteq T
    BY <1>8, <1>9, Induct
  <2>2. Size \in T /\ Size <= Size
    BY <1>1, <2>1
  <2> HIDE DEF Now
  <2>3. QED
    BY <2>2 DEF T
<1> DEFINE end == q[Size]
           b == W[L]
<1>11. PICK j \in 0 .. L : \E e : /\ Chained(end, e, l, W[j], n, j)
                                  /\ j = Size \/ end.left = 0 \/ j = L
  BY <1>10
<1>12. PICK e : Chained(end, e, l, W[j], n, j) /\ (j = Size \/ end.left = 0 \/ j = L)
  BY <1>11
<1> DEFINE m == Len(W[j].kept)
<1>13. /\ Layout(e, m + (L - j), end.ptr, end.first, end.free)
       /\ end.left = n - Len(W[j].seen) /\ end.seen = W[j].seen
       /\ \A i \in 1 .. m : objSpace[e[i]] = W[j].kept[i]
       /\ \A i \in 1 .. L - j : objSpace[e[m + i]] = l[j + i]
  BY <1>12 DEF Chained, L
<1>14. m \in Nat /\ Len(W[j].seen) \in Nat /\ Len(W[j].seen) + m = j
  BY <1>4
<1>15. L \in 0 .. L
  BY <1>1
<1>16. b.seen = W[j].seen /\ Joined(b.kept, W[j].kept, l, j)
  <2>1. CASE j = L
    <3>1. L - j = 0 /\ 1 .. (L - j) = {}
      BY <1>1, <2>1
    <3>2. m + 0 = m
      BY <1>14
    <3>3. QED
      BY <2>1, <3>1, <3>2 DEF Joined, L
  <2>2. CASE j # L
    <3>1. end.left = 0
      BY <1>1, <1>12, <2>2
    <3>2. ~(Len(W[j].seen) < n)
      BY <1>13, <1>14, <3>1
    <3>3. QED
      BY <1>7, <3>2
  <2>3. QED
    BY <2>1, <2>2
<1>17. /\ Len(b.kept) = m + (L - j)
       /\ \A i \in 1 .. m : b.kept[i] = objSpace[e[i]]
       /\ \A i \in 1 .. L - j : b.kept[m + i] = objSpace[e[m + i]]
  BY <1>13, <1>16 DEF Joined, L
<1>18. b.kept \in Seq(Entries)
  BY <1>4, <1>15
<1> HIDE DEF end, b, m
<1> DEFINE K == m + (L - j)
<1>19. K \in 0 .. Size
  <2>1. m <= j
    <3>1. \A g, h \in Nat : g + h = j => h <= j
      BY <1>1
    <3>2. QED
      BY <1>14, <3>1
  <2>2. QED
    BY <1>1, <1>14, <2>1
<1>20. \A i \in 1 .. K : objSpace[e[i]] = b.kept[i]
  <2> SUFFICES ASSUME NEW i \in 1 .. K PROVE objSpace[e[i]] = b.kept[i]
    OBVIOUS
  <2>1. CASE i \in 1 .. m
    BY <1>17, <2>1
  <2>2. CASE i \notin 1 .. m
    <3> DEFINE g == i - m
    <3>1. g \in 1 .. L - j /\ i = m + g
      BY <1>1, <1>14, <2>2
    <3> HIDE DEF g
    <3>2. QED
      BY <1>17, <3>1
  <2>3. QED
    BY <2>1, <2>2
<1> HIDE DEF K
<1>21. Len(b.kept) = K
  BY <1>17 DEF K
<1>22. Layout(e, K, end.ptr, end.first, end.free)
  BY <1>13 DEF K
<1>23. end.seen = b.seen
  BY <1>13, <1>16
<1>24. SortedList!Loop(P, ListStart(n)) = end /\ b = Walk(Listed, P, n)[Len(Listed)]
  BY <1>2 DEF end, b, W, L, l
<1>25. QED
  BY <1>18, <1>19, <1>20, <1>21, <1>22, <1>23, <1>24

LEMMA UnlinkedLayout ==
  Layout([i \in 1 .. Size |-> i - 1], 0, SortedList!Unlinked, Nil_, 0)
<1> DEFINE c == [i \in 1 .. Size |-> i - 1]
           freed == SortedList!Unlinked
<1>1. Size \in Nat /\ Size # 0
  BY SizeIs
<1>2. c \in Arranged /\ OneToOne(c)
  BY <1>1 DEF Arranged, OneToOne, SortedList!Slot
<1>3. freed = [i \in 0 .. Size - 1 |-> IF i = Size - 1 THEN Nil_ ELSE i + 1]
  BY DEF SortedList!Unlinked, SortedList!Slot, Nil_
<1>4. freed \in [SortedList!Slot -> Links]
  BY <1>1, <1>3 DEF SortedList!Slot, Links, Nil_
<1>5. \A i \in 1 .. Size : freed[c[i]] = IF i = 0 \/ i = Size THEN Nil_ ELSE c[i + 1]
  <2> SUFFICES ASSUME NEW i \in 1 .. Size
               PROVE  freed[c[i]] = IF i = 0 \/ i = Size THEN Nil_ ELSE c[i + 1]
    OBVIOUS
  <2>1. /\ i # 0 /\ i - 1 \in 0 .. Size - 1 /\ (i - 1 = Size - 1 <=> i = Size) /\ (i - 1) + 1 = i
        /\ i # Size => i + 1 \in 1 .. Size /\ (i + 1) - 1 = i
    BY <1>1
  <2>2. c[i] = i - 1 /\ (i # Size => c[i + 1] = i)
    BY <2>1
  <2>3. QED
    BY <1>3, <2>1, <2>2
<1>6. 0 # Size /\ c[0 + 1] = 0
  BY <1>1
<1> HIDE DEF c, freed
<1>7. Layout(c, 0, freed, Nil_, 0)
  BY <1>2, <1>4, <1>5, <1>6 DEF Layout
<1>8. QED
  BY <1>7 DEF c, freed

LEMMA ListInit ==
  ASSUME SortedList!Init
  PROVE  ListInv /\ SortedList!Sorted!Init
<1> DEFINE c == [i \in 1 .. Size |-> i - 1]
<1>1. /\ ptrSpace = SortedList!Unlinked /\ firstPtr = Nil_ /\ freePtr = 0
      /\ visited = <<"none">> /\ objSpace \in [SortedList!Slot -> Entries]
  BY DEF SortedList!Init, Nil_
<1>2. Layout(c, 0, SortedList!Unlinked, Nil_, 0)
  BY UnlinkedLayout
<1>3. 0 \in 0 .. Size
  BY SizeIs
<1>4. Layout(c, 0, ptrSpace, firstPtr, freePtr)
  BY <1>1, <1>2, Zenon
<1>5. ListInv
  BY <1>1, <1>3, <1>4 DEF ListInv
<1>6. Listed \in Seq(Entries) /\ Len(Listed) = 0
  BY <1>1, <1>3, <1>4, ListIs
<1>7. Listed = <<>>
  BY <1>6
<1>8. QED
  BY <1>1, <1>5, <1>7 DEF SortedList!Sorted!Init, Listed

LEMMA ListClear ==
  ASSUME ListInv, SortedList!clear
  PROVE  ListInv' /\ SortedList!Sorted!Clear
<1> DEFINE c == [i \in 1 .. Size |-> i - 1]
<1>1. /\ ptrSpace' = SortedList!Unlinked /\ firstPtr' = Nil_ /\ freePtr' = 0
      /\ visited' = <<"none">> /\ objSpace' = objSpace
  BY DEF SortedList!clear, Nil_
<1>2. Layout(c, 0, SortedList!Unlinked, Nil_, 0)
  BY UnlinkedLayout
<1>3. 0 \in 0 .. Size
  BY SizeIs
<1>4. Layout(c, 0, ptrSpace', firstPtr', freePtr')
  BY <1>1, <1>2, Zenon
<1>5. ListInv'
  BY <1>1, <1>3, <1>4 DEF ListInv
<1>6. Listed' = [i \in 1 .. 0 |-> objSpace'[c[i]]]
  BY <1>3, <1>4, ListHolds DEF Listed
<1>7. Listed' = <<>>
  BY <1>6
<1>8. QED
  BY <1>1, <1>5, <1>7 DEF SortedList!Sorted!Clear, Listed

LEMMA ListPop ==
  ASSUME ListInv, SortedList!pop
  PROVE  ListInv' /\ SortedList!Sorted!Pop(0)
<1>1. PICK c : \E k \in 0 .. Size : Layout(c, k, ptrSpace, firstPtr, freePtr)
  BY DEF ListInv
<1>2. PICK k \in 0 .. Size : Layout(c, k, ptrSpace, firstPtr, freePtr)
  BY <1>1
<1>3. Size \in Nat /\ k \in Nat /\ objSpace \in [SortedList!Slot -> Entries]
  BY SizeIs DEF ListInv
<1>4. /\ firstPtr # Nil_ /\ visited' = <<"first", objSpace[firstPtr]>>
      /\ firstPtr' = ptrSpace[firstPtr] /\ ptrSpace' = [ptrSpace EXCEPT ![firstPtr] = freePtr]
      /\ freePtr' = firstPtr /\ objSpace' = objSpace
  BY DEF SortedList!pop, Nil_
<1>5. c \in Arranged /\ firstPtr = IF k = 0 THEN Nil_ ELSE c[1]
  BY <1>2 DEF Layout
<1>6. k \in 1 .. Size /\ firstPtr = c[1] /\ 1 \in 1 .. k /\ k - 1 \in 0 .. Size
  BY <1>3, <1>4, <1>5
<1> DEFINE e == Lowered(c, 1, k)
<1>7. Layout(e, k - 1, ptrSpace', firstPtr', freePtr')
  <2>1. Layout(Lowered(c, 1, k), k - 1,
               IF 1 = 1 THEN [ptrSpace EXCEPT ![c[1]] = freePtr]
               ELSE [ptrSpace EXCEPT ![c[1 - 1]] = ptrSpace[c[1]], ![c[1]] = freePtr],
               IF 1 = 1 THEN ptrSpace[c[1]] ELSE firstPtr, c[1])
    BY <1>2, <1>6, Unlinks
  <2>2. QED
    BY <1>4, <1>6, <2>1
<1>8. ListInv'
  BY <1>3, <1>4, <1>6, <1>7 DEF ListInv
<1>9. /\ Listed \in Seq(Entries) /\ Len(Listed) = k
      /\ \A i \in 1 .. k : Listed[i] = objSpace[c[i]]
  BY <1>2, <1>3, ListIs
<1>10. Listed' = [i \in 1 .. k - 1 |-> objSpace'[e[i]]]
  BY <1>6, <1>7, ListHolds DEF Listed
<1>11. \A i \in 1 .. k - 1 : i + 1 \in 1 .. k /\ e[i] = c[i + 1]
  BY <1>3, <1>6 DEF Lowered, Down
<1>12. \A i \in 1 .. k - 1 : objSpace'[e[i]] = Listed[i + 1]
  BY <1>4, <1>9, <1>11
<1> HIDE DEF e
<1> DEFINE l == Listed
           t == Listed'
<1>13. l \in Seq(Entries) /\ Len(l) = k /\ l[1] = objSpace[firstPtr]
  BY <1>6, <1>9
<1>14. t = [i \in 1 .. k - 1 |-> l[i + 1]]
  BY <1>10, <1>12
<1> HIDE DEF l, t
<1>15. t = Tail(l) /\ l # <<>> /\ Head(l) = objSpace[firstPtr]
  <2>1. k # 0 /\ k - 1 \in Nat
    BY <1>3, <1>6
  <2>2. l # <<>> /\ Head(l) = l[1]
    BY <1>13, <2>1
  <2>3. /\ Tail(l) \in Seq(Entries) /\ Len(Tail(l)) = k - 1
        /\ \A i \in 1 .. k - 1 : Tail(l)[i] = l[i + 1]
    BY <1>3, <1>13, <2>1, <2>2
  <2>4. \A i \in 1 .. k - 1 : l[i + 1] \in Entries
    BY <1>3, <1>13
  <2>5. t \in Seq(Entries) /\ Len(t) = k - 1 /\ \A i \in 1 .. k - 1 : t[i] = l[i + 1]
    BY <1>14, <2>1, <2>4
  <2>6. Len(t) = Len(Tail(l)) /\ \A i \in 1 .. Len(t) : t[i] = Tail(l)[i]
    BY <2>3, <2>5
  <2>7. t = Tail(l)
    BY <2>3, <2>5, <2>6, SameSeq
  <2>8. QED
    BY <1>13, <2>2, <2>7
<1>16. QED
  BY <1>4, <1>8, <1>15 DEF SortedList!Sorted!Pop, Listed, l, t

LEMMA ListRemoves ==
  ASSUME ListInv, NEW P, NEW n \in 1 .. Size, SortedList!visitIfAndRemove(P, n)
  PROVE  ListInv' /\ SortedList!Sorted!RemoveIf(P, n)
<1> DEFINE end == SortedList!Loop(P, ListStart(n))
           b == Walk(Listed, P, n)[Len(Listed)]
           K == Len(b.kept)
<1>1. PICK c : \E k \in 0 .. Size : Layout(c, k, ptrSpace, firstPtr, freePtr)
  BY DEF ListInv
<1>2. PICK k \in 0 .. Size : Layout(c, k, ptrSpace, firstPtr, freePtr)
  BY <1>1
<1>3. n \in Nat /\ objSpace \in [SortedList!Slot -> Entries]
  BY SizeIs DEF ListInv
<1>4. /\ end.seen = b.seen /\ b.kept \in Seq(Entries) /\ K \in 0 .. Size
      /\ \E e : /\ Layout(e, K, end.ptr, end.first, end.free)
                /\ \A i \in 1 .. K : objSpace[e[i]] = b.kept[i]
  BY <1>2, <1>3, ListLoopEnds
<1>5. /\ ptrSpace' = end.ptr /\ firstPtr' = end.first /\ freePtr' = end.free
      /\ visited' = <<"visited", end.seen>> /\ objSpace' = objSpace
  BY DEF SortedList!visitIfAndRemove, ListStart, Nil_
<1> HIDE DEF end, b
<1>6. PICK e : /\ Layout(e, K, end.ptr, end.first, end.free)
               /\ \A i \in 1 .. K : objSpace[e[i]] = b.kept[i]
  BY <1>4
<1>7. Layout(e, K, ptrSpace', firstPtr', freePtr')
  BY <1>5, <1>6, Zenon
<1>8. ListInv'
  BY <1>3, <1>4, <1>5, <1>7 DEF ListInv
<1>9. Listed' = [i \in 1 .. K |-> objSpace'[e[i]]]
  BY <1>4, <1>7, ListHolds DEF Listed
<1>10. Listed' = b.kept
  <2>1. [i \in 1 .. K |-> objSpace'[e[i]]] = [i \in 1 .. K |-> b.kept[i]]
    BY <1>5, <1>6
  <2>2. b.kept = [i \in 1 .. K |-> b.kept[i]]
    BY <1>4, SMTT(20)
  <2>3. QED
    BY <1>9, <2>1, <2>2
<1>11. visited' = <<"visited", b.seen>>
  BY <1>4, <1>5
<1>12. SortedList!Sorted!RemoveIf(P, n)
  BY <1>10, <1>11 DEF SortedList!Sorted!RemoveIf, Listed, Walk, Walks, Asked, Start, b
<1>13. QED
  BY <1>8, <1>12

LEMMA ListSteps ==
  ASSUME ListInv, [SortedList!Next]_(SortedList!vars)
  PROVE  ListInv' /\ [SortedList!Sorted!Next]_(SortedList!Sorted!vars)
<1>1. ASSUME NEW x \in Entries, SortedList!insert(x)
      PROVE  ListInv' /\ SortedList!Sorted!Next
  BY <1>1, ListInsert DEF SortedList!Sorted!Next
<1>2. CASE SortedList!pop
  BY <1>2, ListPop DEF SortedList!Sorted!Next
<1>3. ASSUME UNCHANGED <<objSpace, ptrSpace, firstPtr, freePtr>>
      PROVE  ListInv' /\ Listed' = Listed
  BY <1>3 DEF ListInv, Listed, Layout, SortedList!Held, SortedList!Chain
<1>4. CASE SortedList!first
  <2>1. /\ firstPtr # Nil_ /\ visited' = <<"first", objSpace[firstPtr]>>
        /\ UNCHANGED <<objSpace, ptrSpace, firstPtr, freePtr>>
    BY <1>4 DEF SortedList!first, Nil_
  <2>2. ListInv' /\ Listed' = Listed
    BY <1>3, <2>1
  <2>3. PICK c : \E k \in 0 .. Size : Layout(c, k, ptrSpace, firstPtr, freePtr)
    BY DEF ListInv
  <2>4. PICK k \in 0 .. Size : Layout(c, k, ptrSpace, firstPtr, freePtr)
    BY <2>3
  <2>5. k \in Nat /\ k # 0 /\ firstPtr = c[1]
    BY <2>1, <2>4, SizeIs DEF Layout
  <2>6. /\ Listed \in Seq(Entries) /\ Len(Listed) = k
        /\ \A i \in 1 .. k : Listed[i] = objSpace[c[i]]
    BY <2>4, ListIs DEF ListInv
  <2>7. Listed # <<>> /\ Head(Listed) = objSpace[firstPtr]
    BY <2>5, <2>6
  <2>8. SortedList!Sorted!Peek(0)
    BY <2>1, <2>2, <2>7 DEF SortedList!Sorted!Peek, Listed
  <2>9. QED
    BY <2>2, <2>8 DEF SortedList!Sorted!Next
<1>5. CASE SortedList!visitAll
  <2>1. /\ visited' = <<"visited", Listed>>
        /\ UNCHANGED <<objSpace, ptrSpace, firstPtr, freePtr>>
    BY <1>5 DEF SortedList!visitAll, Listed
  <2>2. ListInv' /\ Listed' = Listed
    BY <1>3, <2>1
  <2>3. SortedList!Sorted!VisitAll
    BY <2>1, <2>2 DEF SortedList!Sorted!VisitAll, Listed
  <2>4. QED
    BY <2>2, <2>3 DEF SortedList!Sorted!Next
<1>6. CASE SortedList!clear
  BY <1>6, ListClear DEF SortedList!Sorted!Next
<1>7. ASSUME NEW P \in SUBSET Entries, NEW n \in 1 .. Size, SortedList!visitIfAndRemove(P, n)
      PROVE  ListInv' /\ SortedList!Sorted!Next
  BY <1>7, ListRemoves DEF SortedList!Sorted!Next
<1>8. CASE UNCHANGED SortedList!vars
  <2>1. UNCHANGED <<objSpace, ptrSpace, firstPtr, freePtr>> /\ visited' = visited
    BY <1>8 DEF SortedList!vars
  <2>2. ListInv' /\ Listed' = Listed
    BY <1>3, <2>1
  <2>3. QED
    BY <2>1, <2>2 DEF SortedList!Sorted!vars, Listed
<1>9. QED
  BY <1>1, <1>2, <1>4, <1>5, <1>6, <1>7, <1>8 DEF SortedList!Next

LEMMA ListInvariant == SortedList!Spec => []ListInv
<1>1. ListInv /\ [SortedList!Next]_(SortedList!vars) => ListInv'
  BY ListSteps
<1>2. QED
  BY <1>1, ListInit, PTL DEF SortedList!Spec

\* fixedsortedlist puts every item before the first one that is larger, gives
\* back the first, and visits and removes exactly the items asked for, up to the
\* visit after which the visitor stops; it refuses an item only when every slot
\* of its space holds one.
THEOREM SortedListTheorem == SortedList!Spec => ImplementsSortedList
<1>1. ListInv /\ [SortedList!Next]_(SortedList!vars)
        => [SortedList!Sorted!Next]_(SortedList!Sorted!vars)
  BY ListSteps
<1>2. QED
  BY <1>1, ListInit, ListInvariant, PTL
  DEF SortedList!Spec, ImplementsSortedList, SortedList!ImplementsSortedList,
      SortedList!Sorted!Spec

-----------------------------------------------------------------------------
(* TaggedBuffer.  Packets lie in the memory one behind the other; g tells   *)
(* where each of them ends.                                                 *)

Memories == [0 .. Room - 1 -> Nat]
Extent(x) == Tagged!HL + Len(x.data)

\* What the k-th cell of a packet holds.
Cell(x, k) ==
  IF k = 0 THEN Extent(x) ELSE IF k = 1 THEN x.stamp ELSE IF k = 2 THEN x.id ELSE x.data[k - 2]
Stored(mem, p, x) == \A k \in 0 .. Extent(x) - 1 : mem[p + k] = Cell(x, k)

Ends(v, g) ==
  /\ v \in Seq(Packets) /\ g \in [0 .. Len(v) -> Nat]
  /\ g[0] = 0 /\ \A i \in 1 .. Len(v) : g[i] = g[i - 1] + Extent(v[i])
Stacked(mem, used, v, g) ==
  /\ Ends(v, g)
  /\ g[Len(v)] = used /\ used <= Room
  /\ mem \in Memories
  /\ \A i \in 1 .. Len(v) : Stored(mem, g[i - 1], v[i])

LEMMA PacketIs ==
  ASSUME NEW x \in Packets
  PROVE  /\ x.stamp \in Nat /\ x.id \in Nat /\ x.data \in Seq(Nat)
         /\ x = [stamp |-> x.stamp, id |-> x.id, data |-> x.data]
         /\ Extent(x) \in Nat /\ Extent(x) = 3 + Len(x.data) /\ Extent(x) >= 3
         /\ Len(x.data) \in Nat /\ Room \in Nat
         /\ \A k \in 0 .. Extent(x) - 1 : Cell(x, k) \in Nat
<1>1. x \in [stamp : Nat, id : Nat, data : Seq(Nat)] /\ Room \in Nat
  BY StorageAssumption DEF Tagged!TaggedBufferAssumption
<1>2. /\ x.stamp \in Nat /\ x.id \in Nat /\ x.data \in Seq(Nat)
      /\ x = [stamp |-> x.stamp, id |-> x.id, data |-> x.data]
  BY <1>1
<1>3. Len(x.data) \in Nat
  BY <1>2, LenProperties
<1>4. Extent(x) = 3 + Len(x.data)
  BY DEF Extent, Tagged!HL
<1>5. Extent(x) \in Nat /\ Extent(x) >= 3
  BY <1>3, <1>4
<1>6. ASSUME NEW k \in 0 .. Extent(x) - 1 PROVE Cell(x, k) \in Nat
  <2>1. k # 0 /\ k # 1 /\ k # 2 => k - 2 \in 1 .. Len(x.data)
    BY <1>3, <1>4
  <2>2. \A i \in 1 .. Len(x.data) : x.data[i] \in Nat
    BY <1>2
  <2>3. QED
    BY <1>2, <1>5, <2>1, <2>2 DEF Cell
<1>7. QED
  BY <1>1, <1>2, <1>3, <1>4, <1>5, <1>6

LEMMA RoomIs == Room \in Nat
BY StorageAssumption DEF Tagged!TaggedBufferAssumption

LEMMA Rising ==
  ASSUME NEW v, NEW g, Ends(v, g), NEW i \in 0 .. Len(v), NEW j \in i .. Len(v)
  PROVE  g[i] + (j - i) <= g[j]
<1> DEFINE L == Len(v)
           T == {k \in Nat : i + k <= L => g[i] + k <= g[i + k]}
<1>1. /\ v \in Seq(Packets) /\ L \in Nat /\ i \in Nat /\ j \in Nat /\ i <= j /\ j <= L
      /\ g \in [0 .. L -> Nat] /\ \A m \in 1 .. L : g[m] = g[m - 1] + Extent(v[m])
  BY DEF Ends
<1>2. \A m \in 1 .. L : v[m] \in Packets
  BY <1>1
<1> HIDE DEF L
<1>3. 0 \in T
  <2>1. i + 0 = i /\ i \in 0 .. L
    BY <1>1
  <2>2. g[i] \in Nat
    BY <1>1, <2>1
  <2>3. QED
    BY <2>1, <2>2
<1>4. ASSUME NEW k \in Nat, k \in T PROVE k + 1 \in T
  <2> SUFFICES ASSUME i + (k + 1) <= L PROVE g[i] + (k + 1) <= g[i + (k + 1)]
    OBVIOUS
  <2> DEFINE m == i + k
  <2>1. m \in Nat /\ m <= L /\ m \in 0 .. L /\ i \in 0 .. L /\ m + 1 \in 1 .. L /\ i + (k + 1) = m + 1
        /\ (m + 1) - 1 = m
    BY <1>1
  <2>2. g[i] + k <= g[m]
    BY <1>4, <2>1
  <2> HIDE DEF m
  <2>3. g[m + 1] = g[m] + Extent(v[m + 1]) /\ g[m] \in Nat /\ g[i] \in Nat
    BY <1>1, <2>1
  <2>4. Extent(v[m + 1]) \in Nat /\ Extent(v[m + 1]) >= 3
    BY <1>2, <2>1, PacketIs
  <2> DEFINE X == Extent(v[m + 1])
             A == g[i]
             B == g[m]
  <2>5. g[i + (k + 1)] = B + X /\ X \in Nat /\ X >= 3 /\ A \in Nat /\ B \in Nat /\ A + k <= B
    BY <2>1, <2>2, <2>3, <2>4
  <2> HIDE DEF X, A, B
  <2>6. A + (k + 1) <= B + X
    BY ONLY <2>5, k \in Nat
  <2>7. QED
    BY <2>5, <2>6 DEF A
<1>5. j - i \in T
  <2> HIDE DEF T
  <2>1. Nat \subseteq T
    BY <1>3, <1>4, Induct
  <2>2. j - i \in Nat
    BY <1>1
  <2>3. QED
    BY <2>1, <2>2
<1>6. i + (j - i) = j
  BY <1>1
<1>7. QED
  BY <1>1, <1>5, <1>6

\* The place and the end of the i-th packet.
LEMMA StackIs ==
  ASSUME NEW mem, NEW used, NEW v, NEW g, Stacked(mem, used, v, g)
  PROVE  /\ Len(v) \in Nat /\ used \in Nat /\ used <= Room /\ Len(v) <= used /\ Room \in Nat
         /\ \A i \in 0 .. Len(v) : g[i] \in Nat /\ g[i] <= used
         /\ \A i \in 1 .. Len(v) :
              /\ v[i] \in Packets /\ Extent(v[i]) \in Nat /\ Extent(v[i]) >= 3
              /\ g[i] = g[i - 1] + Extent(v[i])
              /\ g[i - 1] \in Nat /\ g[i] \in Nat /\ g[i] <= used
<1> DEFINE L == Len(v)
<1>1. /\ v \in Seq(Packets) /\ L \in Nat /\ g \in [0 .. L -> Nat] /\ g[0] = 0
      /\ \A m \in 1 .. L : g[m] = g[m - 1] + Extent(v[m])
      /\ Ends(v, g) /\ g[L] = used /\ used <= Room
  BY DEF Stacked, Ends
<1>2. \A m \in 1 .. L : v[m] \in Packets
  BY <1>1
<1>3. \A i \in 0 .. L : g[i] + (L - i) <= g[L]
  <2>1. \A i \in 0 .. L : L \in i .. L
    BY <1>1
  <2>2. QED
    BY <1>1, <2>1, Rising
<1> HIDE DEF L
<1>4. \A i \in 0 .. L : g[i] \in Nat
  BY <1>1
<1>5. L \in 0 .. L /\ 0 \in 0 .. L
  BY <1>1
<1>6. used \in Nat
  BY <1>1, <1>4, <1>5
<1>7. L <= used
  <2>1. 0 + (L - 0) <= used
    BY <1>1, <1>3, <1>5
  <2>2. QED
    BY <1>1, <1>6, <2>1
<1>8. \A i \in 0 .. L : g[i] <= used
  BY <1>1, <1>3, <1>4, <1>6
<1>9. \A i \in 1 .. L : i \in 0 .. L /\ i - 1 \in 0 .. L
  BY <1>1
<1>10. \A i \in 1 .. L : Extent(v[i]) \in Nat /\ Extent(v[i]) >= 3
  BY <1>2, PacketIs
<1>11. QED
  BY <1>1, <1>2, <1>4, <1>6, <1>7, <1>8, <1>9, <1>10, RoomIs DEF L

\* A packet reads as it was stored.
LEMMA ReadsBack ==
  ASSUME NEW q, NEW p \in Nat, NEW x \in Packets, Stored(q.space, p, x)
  PROVE  Tagged!PacketAt(q, p) = x /\ Tagged!len(q, p) = Extent(x)
<1> DEFINE mem == q.space
           n == Len(x.data)
<1>1. /\ x = [stamp |-> x.stamp, id |-> x.id, data |-> x.data]
      /\ x.data \in Seq(Nat) /\ n \in Nat /\ Extent(x) = 3 + n /\ Extent(x) \in Nat
  BY PacketIs
<1>2. \A k \in 0 .. Extent(x) - 1 : mem[p + k] = Cell(x, k)
  BY DEF Stored
<1> HIDE DEF mem, n
<1>3. 0 \in 0 .. Extent(x) - 1 /\ 1 \in 0 .. Extent(x) - 1 /\ 2 \in 0 .. Extent(x) - 1 /\ p + 0 = p
  BY <1>1
<1>4. mem[p] = Extent(x) /\ mem[p + 1] = x.stamp /\ mem[p + 2] = x.id
  BY <1>2, <1>3 DEF Cell
<1>5. ASSUME NEW k \in 1 .. n PROVE mem[p + 3 + k - 1] = x.data[k]
  <2>1. k + 2 \in 0 .. Extent(x) - 1 /\ p + 3 + k - 1 = p + (k + 2)
        /\ k + 2 # 0 /\ k + 2 # 1 /\ k + 2 # 2 /\ (k + 2) - 2 = k
    <3>1. \A g, h, m \in Nat : h >= 1 /\ h <= m
             => /\ h + 2 \in 0 .. (3 + m) - 1 /\ g + 3 + h - 1 = g + (h + 2)
                /\ h + 2 # 0 /\ h + 2 # 1 /\ h + 2 # 2 /\ (h + 2) - 2 = h
      OBVIOUS
    <3>2. k \in Nat /\ k >= 1 /\ k <= n
      BY <1>1
    <3>3. QED
      BY <1>1, <3>1, <3>2, Zenon
  <2>2. Cell(x, k + 2) = x.data[k]
    BY <2>1 DEF Cell
  <2>3. QED
    BY <1>2, <2>1, <2>2
<1>6. [k \in 1 .. (mem[p] - 3) |-> mem[p + 3 + k - 1]] = x.data
  <2>1. mem[p] - 3 = n
    BY <1>1, <1>4
  <2>2. x.data = [k \in 1 .. n |-> x.data[k]]
    BY <1>1 DEF n
  <2>3. QED
    BY <1>5, <2>1, <2>2
<1>7. Tagged!PacketAt(q, p)
        = [stamp |-> mem[p + 1], id |-> mem[p + 2],
           data |-> [k \in 1 .. (mem[p] - 3) |-> mem[p + 3 + k - 1]]]
  BY DEF Tagged!PacketAt, Tagged!HL, mem
<1>8. Tagged!PacketAt(q, p) = x
  BY <1>1, <1>4, <1>6, <1>7
<1>9. Tagged!len(q, p) = Extent(x)
  BY <1>4 DEF Tagged!len, mem
<1>10. QED
  BY <1>8, <1>9

\* A function applied again and again.
Iterated(N, s, h, f) == f = [n \in 0 .. N |-> IF n = 0 THEN s ELSE h[f[n - 1]]]

LEMMA Iterates ==
  ASSUME NEW N \in Nat, NEW s, NEW h
  PROVE  \E f : Iterated(N, s, h, f)
<1> DEFINE T == {n \in Nat : \E f : Iterated(n, s, h, f)}
<1>1. 0 \in T
  <2>1. Iterated(0, s, h, [n \in 0 .. 0 |-> s])
    BY DEF Iterated
  <2>2. QED
    BY <2>1
<1>2. ASSUME NEW n \in Nat, n \in T PROVE n + 1 \in T
  <2>1. PICK f : Iterated(n, s, h, f)
    BY <1>2
  <2> DEFINE g == [k \in 0 .. n + 1 |-> IF k = n + 1 THEN h[f[n]] ELSE f[k]]
  <2>2. ASSUME NEW k \in 0 .. n + 1
        PROVE  g[k] = IF k = 0 THEN s ELSE h[g[k - 1]]
    <3>1. CASE k = n + 1
      <4>1. k # 0 /\ k - 1 = n /\ n \in 0 .. n + 1 /\ n # n + 1
        BY <3>1
      <4>2. g[k - 1] = f[n]
        BY <4>1
      <4>3. QED
        BY <3>1, <4>1, <4>2
    <3>2. CASE k # n + 1
      <4>1. k \in 0 .. n /\ (k # 0 => k - 1 \in 0 .. n + 1 /\ k - 1 # n + 1)
        BY <3>2
      <4>2. f[k] = IF k = 0 THEN s ELSE h[f[k - 1]]
        BY <2>1, <4>1, Zenon DEF Iterated
      <4>3. k # 0 => g[k - 1] = f[k - 1]
        BY <4>1
      <4>4. QED
        BY <3>2, <4>2, <4>3
    <3>3. QED
      BY <3>1, <3>2
  <2>3. Iterated(n + 1, s, h, g)
    <3> DEFINE e == [k \in 0 .. n + 1 |-> IF k = 0 THEN s ELSE h[g[k - 1]]]
    <3>1. \A k \in 0 .. n + 1 : g[k] = e[k]
      BY <2>2
    <3>2. g = e
      BY <3>1
    <3>3. QED
      BY <3>2 DEF Iterated
  <2>4. QED
    BY <2>3
<1>3. Nat \subseteq T
  <2> HIDE DEF T
  <2>1. QED
    BY <1>1, <1>2, Induct
<1>4. QED
  BY <1>3

\* The place behind the one at p.
Following(mem, used) == [p \in 0 .. Room |-> IF p >= used THEN p ELSE p + mem[p]]

LEMMA PlacesAre ==
  ASSUME NEW v, NEW g, Stacked(bytes, spaceUsed, v, g)
  PROVE  \A n \in 0 .. Len(v) : Tagged!Places[n] = g[n]
<1> DEFINE L == Len(v)
           h == Following(bytes, spaceUsed)
           z == Tagged!Places
           T == {n \in Nat : n <= L => z[n] = g[n]}
<1>1. /\ L \in Nat /\ spaceUsed \in Nat /\ spaceUsed <= Room /\ L <= spaceUsed /\ Room \in Nat
      /\ \A i \in 0 .. L : g[i] \in Nat /\ g[i] <= spaceUsed
      /\ \A i \in 1 .. L :
           /\ v[i] \in Packets /\ Extent(v[i]) \in Nat /\ Extent(v[i]) >= 3
           /\ g[i] = g[i - 1] + Extent(v[i])
           /\ g[i - 1] \in Nat /\ g[i] \in Nat /\ g[i] <= spaceUsed
  BY StackIs
<1>2. Iterated(Room, 0, h, z)
  <2>1. z = CHOOSE f : Iterated(Room, 0, h, f)
    <3> DEFINE e == [p \in 0 .. Room |->
                      IF p >= spaceUsed THEN p ELSE p + Tagged!len(Tagged!Buffer, p)]
    <3>1. e = h
      BY DEF Following, Tagged!len, Tagged!Buffer
    <3>2. z = CHOOSE f : Iterated(Room, 0, e, f)
      BY DEF Tagged!Places, Iterated
    <3> HIDE DEF e, h, z
    <3>3. QED
      BY <3>1, <3>2, Zenon
  <2>2. \E f : Iterated(Room, 0, h, f)
    BY <1>1, Iterates
  <2>3. QED
    BY <2>1, <2>2, Zenon
<1>3. g[0] = 0 /\ \A i \in 1 .. L : Stored(bytes, g[i - 1], v[i])
  BY DEF Stacked, Ends
<1> HIDE DEF L, z, h
<1>4. \A n \in 0 .. Room : z[n] = IF n = 0 THEN 0 ELSE h[z[n - 1]]
  BY <1>2, Zenon DEF Iterated
<1>5. 0 \in T
  <2>1. 0 \in 0 .. Room
    BY <1>1
  <2>2. z[0] = g[0]
    BY <1>3, <1>4, <2>1
  <2>3. QED
    BY <2>2
<1>6. ASSUME NEW n \in Nat, n \in T PROVE n + 1 \in T
  <2> SUFFICES ASSUME n + 1 <= L PROVE z[n + 1] = g[n + 1]
    OBVIOUS
  <2>1. n + 1 \in 1 .. L /\ n + 1 \in 0 .. Room /\ n + 1 # 0 /\ (n + 1) - 1 = n /\ n <= L
    BY <1>1
  <2>2. z[n] = g[n]
    BY <1>6, <2>1
  <2>3. z[n + 1] = h[g[n]]
    BY <1>4, <2>1, <2>2
  <2>4. /\ g[n + 1] = g[n] + Extent(v[n + 1])
        /\ g[n] \in Nat /\ g[n + 1] <= spaceUsed /\ g[n + 1] \in Nat
        /\ Extent(v[n + 1]) \in Nat /\ Extent(v[n + 1]) >= 3
    BY <1>1, <2>1
  <2>5. g[n] \in 0 .. Room /\ ~(g[n] >= spaceUsed)
    BY <1>1, <2>4
  <2>6. bytes[g[n]] = Extent(v[n + 1])
    <3>1. Stored(bytes, g[n], v[n + 1])
      BY <1>3, <2>1
    <3>2. 0 \in 0 .. Extent(v[n + 1]) - 1 /\ g[n] + 0 = g[n]
      BY <2>4
    <3>3. bytes[g[n] + 0] = Cell(v[n + 1], 0)
      BY <3>1, <3>2, Zenon DEF Stored
    <3>4. QED
      BY <3>2, <3>3 DEF Cell
  <2>7. h[g[n]] = g[n] + bytes[g[n]]
    BY <2>5 DEF h, Following
  <2>8. QED
    BY <2>3, <2>4, <2>6, <2>7
<1>7. Nat \subseteq T
  <2> HIDE DEF T
  <2>1. QED
    BY <1>5, <1>6, Induct
<1>8. \A n \in 0 .. L : n \in T /\ n <= L
  BY <1>1, <1>7
<1>9. QED
  BY <1>8 DEF z, L

LEMMA ContentsAre ==
  ASSUME NEW v, NEW g, Stacked(bytes, spaceUsed, v, g)
  PROVE  Tagged!Contents = v
<1> DEFINE L == Len(v)
           Ended(n) == /\ Tagged!Places[n] >= spaceUsed
                       /\ \A m \in 0 .. (n - 1) : Tagged!Places[m] < spaceUsed
           count == CHOOSE n \in 0 .. Room : Ended(n)
<1>1. /\ L \in Nat /\ spaceUsed \in Nat /\ L <= Room
      /\ \A i \in 0 .. L : g[i] \in Nat
      /\ \A i \in 1 .. L : v[i] \in Packets /\ g[i - 1] \in Nat
  <2>1. /\ L \in Nat /\ spaceUsed \in Nat /\ L <= spaceUsed /\ spaceUsed <= Room /\ Room \in Nat
        /\ \A i \in 0 .. L : g[i] \in Nat /\ g[i] <= spaceUsed
        /\ \A i \in 1 .. L : v[i] \in Packets /\ g[i - 1] \in Nat
    BY StackIs
  <2>2. QED
    BY <2>1
<1>2. Ends(v, g) /\ g[L] = spaceUsed /\ v \in Seq(Packets)
  BY DEF Stacked, Ends
<1>3. \A m \in 0 .. L : g[m] + (L - m) <= spaceUsed
  <2>1. \A m \in 0 .. L : L \in m .. L
    BY <1>1
  <2>2. QED
    BY <1>2, <2>1, Rising
<1>4. \A m \in 0 .. L - 1 : g[m] < spaceUsed
  <2>1. \A m \in 0 .. L - 1 : m \in 0 .. L /\ L - m >= 1
    BY <1>1
  <2>2. QED
    BY <1>1, <1>3, <2>1
<1>5. \A n \in 0 .. L : Tagged!Places[n] = g[n]
  BY PlacesAre
<1>6. \A i \in 1 .. L : Stored(bytes, g[i - 1], v[i])
  BY DEF Stacked
<1> HIDE DEF L
<1>7. L \in 0 .. Room /\ Ended(L)
  <2>1. L \in 0 .. L /\ \A m \in 0 .. L - 1 : m \in 0 .. L
    BY <1>1
  <2>2. QED
    BY <1>1, <1>2, <1>4, <1>5, <2>1
<1>8. \A n \in 0 .. Room : Ended(n) => n = L
  <2> SUFFICES ASSUME NEW n \in 0 .. Room, Ended(n), n # L PROVE FALSE
    OBVIOUS
  <2>1. CASE n < L
    <3>1. n \in 0 .. L - 1 /\ n \in 0 .. L
      BY <1>1, <2>1
    <3>2. Tagged!Places[n] < spaceUsed /\ Tagged!Places[n] \in Nat
      BY <1>1, <1>4, <1>5, <3>1
    <3>3. QED
      BY <1>1, <3>2
  <2>2. CASE L < n
    <3>1. L \in 0 .. n - 1 /\ L \in 0 .. L
      BY <1>1, <2>2
    <3>2. Tagged!Places[L] < spaceUsed /\ Tagged!Places[L] = spaceUsed
      BY <1>2, <1>5, <3>1
    <3>3. QED
      BY <1>1, <3>2
  <2>3. QED
    BY <1>1, <2>1, <2>2
<1>9. count = L
  <2> HIDE DEF Ended
  <2>1. count \in 0 .. Room /\ Ended(count)
    BY <1>7, Zenon
  <2>2. QED
    BY <1>8, <2>1, Zenon
<1>10. Tagged!Contents = [n \in 1 .. count |-> Tagged!PacketAt(Tagged!Buffer, Tagged!Places[n - 1])]
  BY DEF Tagged!Contents
<1> HIDE DEF count
<1>11. ASSUME NEW n \in 1 .. L
       PROVE  Tagged!PacketAt(Tagged!Buffer, Tagged!Places[n - 1]) = v[n]
  <2>1. n - 1 \in 0 .. L
    BY <1>1
  <2>2. Tagged!Places[n - 1] = g[n - 1]
    BY <1>5, <2>1
  <2>3. Stored(Tagged!Buffer.space, g[n - 1], v[n]) /\ v[n] \in Packets /\ g[n - 1] \in Nat
    BY <1>1, <1>6 DEF Tagged!Buffer
  <2>4. Tagged!PacketAt(Tagged!Buffer, g[n - 1]) = v[n]
    BY <2>3, ReadsBack
  <2>5. QED
    BY <2>2, <2>4
<1>12. v = [n \in 1 .. L |-> v[n]]
  BY <1>2 DEF L
<1>13. QED
  BY <1>9, <1>10, <1>11, <1>12

\* v without its i-th packet.
Cut(v, i) == [m \in 1 .. Len(v) - 1 |-> IF m < i THEN v[m] ELSE v[m + 1]]

LEMMA CutIs ==
  ASSUME NEW U, NEW v \in Seq(U), NEW i \in 1 .. Len(v)
  PROVE  /\ Cut(v, i) \in Seq(U) /\ Len(Cut(v, i)) = Len(v) - 1
         /\ \A m \in 1 .. Len(v) - 1 : Cut(v, i)[m] = IF m < i THEN v[m] ELSE v[m + 1]
<1> DEFINE L == Len(v)
<1>1. L \in Nat /\ L - 1 \in Nat
  OBVIOUS
<1>2. \A m \in 1 .. L - 1 : m \in 1 .. L /\ m + 1 \in 1 .. L
  BY <1>1
<1>3. \A m \in 1 .. L : v[m] \in U
  OBVIOUS
<1> HIDE DEF L
<1>4. \A m \in 1 .. L - 1 : (IF m < i THEN v[m] ELSE v[m + 1]) \in U
  BY <1>2, <1>3
<1> DEFINE c == [m \in 1 .. L - 1 |-> IF m < i THEN v[m] ELSE v[m + 1]]
<1>5. c \in Seq(U) /\ Len(c) = L - 1
  BY <1>1, <1>4
<1>6. Cut(v, i) = c
  BY DEF Cut, L
<1>7. QED
  BY <1>5, <1>6 DEF L

\* Where the packets end without the i-th.
Closed(v, g, i) ==
  [m \in 0 .. Len(v) - 1 |-> IF m < i THEN g[m] ELSE g[m + 1] - Extent(v[i])]

LEMMA Climbs ==
  ASSUME NEW v, NEW g, Ends(v, g)
  PROVE  \A i, j \in 0 .. Len(v) : i <= j => g[i] <= g[j]
<1> SUFFICES ASSUME NEW i \in 0 .. Len(v), NEW j \in 0 .. Len(v), i <= j PROVE g[i] <= g[j]
  OBVIOUS
<1>1. Len(v) \in Nat /\ g[i] \in Nat /\ g[j] \in Nat
  BY DEF Ends
<1>2. j \in i .. Len(v)
  BY <1>1
<1>3. g[i] + (j - i) <= g[j]
  BY <1>2, Rising
<1>4. QED
  BY <1>1, <1>3

LEMMA ClosedEnds ==
  ASSUME NEW v, NEW g, Ends(v, g), NEW i \in 1 .. Len(v)
  PROVE  /\ Ends(Cut(v, i), Closed(v, g, i))
         /\ Closed(v, g, i)[Len(v) - 1] = g[Len(v)] - Extent(v[i])
<1> DEFINE L == Len(v)
           X == Extent(v[i])
           c == Cut(v, i)
           e == Closed(v, g, i)
<1>1. /\ v \in Seq(Packets) /\ L \in Nat /\ g \in [0 .. L -> Nat] /\ g[0] = 0
      /\ \A m \in 1 .. L : g[m] = g[m - 1] + Extent(v[m])
      /\ i \in Nat /\ 1 <= i /\ i <= L
  BY DEF Ends
<1>2. \A m \in 1 .. L : Extent(v[m]) \in Nat
  <2>1. \A m \in 1 .. L : v[m] \in Packets
    BY <1>1
  <2>2. QED
    BY <2>1, PacketIs
<1>3. /\ c \in Seq(Packets) /\ Len(c) = L - 1
      /\ \A m \in 1 .. L - 1 : c[m] = IF m < i THEN v[m] ELSE v[m + 1]
  BY <1>1, CutIs
<1>4. \A a, b \in 0 .. L : a <= b => g[a] <= g[b]
  BY Climbs
<1>5. \A m \in 0 .. L - 1 : e[m] = IF m < i THEN g[m] ELSE g[m + 1] - X
  BY DEF Closed
<1>6. DOMAIN e = 0 .. L - 1 /\ e = [m \in 0 .. L - 1 |-> e[m]]
  BY DEF Closed
<1>7. X \in Nat /\ g[i] = g[i - 1] + X /\ g[i - 1] \in Nat /\ g[i] \in Nat
  <2>1. i \in 1 .. L /\ i - 1 \in 0 .. L /\ i \in 0 .. L
    BY <1>1
  <2>2. QED
    BY <1>1, <1>2, <2>1
<1> HIDE DEF L, X, c, e
<1>8. \A m \in 0 .. L : g[m] \in Nat
  BY <1>1
<1>9. \A m \in 0 .. L - 1 : m \in 0 .. L /\ m + 1 \in 0 .. L /\ (~(m < i) => i <= m + 1 /\ i \in 0 .. L)
  BY <1>1
<1>10. \A m \in 0 .. L - 1 : e[m] \in Nat
  <2> SUFFICES ASSUME NEW m \in 0 .. L - 1 PROVE e[m] \in Nat
    OBVIOUS
  <2>1. CASE m < i
    BY <1>5, <1>8, <1>9, <2>1
  <2>2. CASE ~(m < i)
    <3>1. g[i] <= g[m + 1] /\ g[m + 1] \in Nat
      BY <1>4, <1>8, <1>9, <2>2
    <3>2. e[m] = g[m + 1] - X
      BY <1>5, <2>2
    <3>3. QED
      BY <1>7, <3>1, <3>2
  <2>3. QED
    BY <2>1, <2>2
<1>11. e \in [0 .. L - 1 -> Nat]
  BY <1>6, <1>10
<1>12. e[0] = 0
  <2>1. 0 \in 0 .. L - 1 /\ 0 < i
    BY <1>1
  <2>2. QED
    BY <1>1, <1>5, <2>1
<1>13. ASSUME NEW m \in 1 .. L - 1 PROVE e[m] = e[m - 1] + Extent(c[m])
  <2>1. /\ m \in 0 .. L - 1 /\ m - 1 \in 0 .. L - 1 /\ m \in 1 .. L /\ m + 1 \in 1 .. L
        /\ (m + 1) - 1 = m /\ (m - 1) + 1 = m /\ m \in 0 .. L /\ m - 1 \in 0 .. L /\ m + 1 \in 0 .. L
        /\ m \in Nat
    BY <1>1
  <2>2. CASE m < i
    <3>1. m - 1 < i
      BY <2>1, <2>2, <1>1
    <3>2. e[m] = g[m] /\ e[m - 1] = g[m - 1] /\ c[m] = v[m]
      BY <1>3, <1>5, <2>1, <2>2, <3>1
    <3>3. QED
      BY <1>1, <2>1, <3>2
  <2>3. CASE m = i
    <3>1. m - 1 < i /\ ~(m < i)
      BY <2>1, <2>3
    <3>2. e[m] = g[m + 1] - X /\ e[m - 1] = g[i - 1] /\ c[m] = v[m + 1]
      BY <1>3, <1>5, <2>1, <2>3, <3>1
    <3>3. g[m + 1] = g[i] + Extent(v[m + 1]) /\ Extent(v[m + 1]) \in Nat
      BY <1>1, <1>2, <2>1, <2>3
    <3> DEFINE Z == Extent(v[m + 1])
               A == g[i - 1]
    <3>4. e[m] = g[m + 1] - X /\ e[m - 1] = A /\ Extent(c[m]) = Z /\ X \in Nat /\ Z \in Nat
      BY <1>7, <3>2, <3>3
    <3>5. g[m + 1] = g[i] + Z /\ g[i] = A + X /\ A \in Nat
      BY <1>7, <3>3
    <3> HIDE DEF Z, A
    <3>6. e[m] = A + Z
      BY ONLY <3>4, <3>5
    <3>7. QED
      BY ONLY <3>4, <3>6
  <2>4. CASE i < m
    <3>1. ~(m - 1 < i) /\ ~(m < i)
      BY <1>1, <2>1, <2>4
    <3>2. e[m] = g[m + 1] - X /\ e[m - 1] = g[m] - X /\ c[m] = v[m + 1]
      BY <1>3, <1>5, <2>1, <3>1
    <3>3. g[m + 1] = g[m] + Extent(v[m + 1]) /\ Extent(v[m + 1]) \in Nat /\ g[m] \in Nat
      BY <1>1, <1>2, <1>8, <2>1
    <3>4. QED
      BY <1>7, <3>2, <3>3
  <2>5. QED
    BY <1>1, <2>1, <2>2, <2>3, <2>4
<1>14. e[L - 1] = g[L] - X
  <2>1. L - 1 \in 0 .. L - 1 /\ (L - 1) + 1 = L
    BY <1>1
  <2>2. CASE i = L
    <3>1. L - 1 < i
      BY <1>1, <2>2
    <3>2. e[L - 1] = g[L - 1] /\ g[L] = g[L - 1] + X /\ g[L - 1] \in Nat
      BY <1>5, <1>7, <2>1, <2>2, <3>1
    <3>3. QED
      BY <1>7, <3>2
  <2>3. CASE i # L
    <3>1. ~(L - 1 < i)
      BY <1>1, <2>3
    <3>2. QED
      BY <1>5, <2>1, <3>1
  <2>4. QED
    BY <2>2, <2>3
<1>15. Ends(c, e)
  BY <1>3, <1>11, <1>12, <1>13 DEF Ends
<1>16. QED
  BY <1>14, <1>15 DEF c, e, L, X

\* Removing the i-th packet shifts what is behind it to its place.
LEMMA Removed ==
  ASSUME NEW q, NEW v, NEW g, Stacked(q.space, q.used, v, g), NEW i \in 1 .. Len(v)
  PROVE  /\ Stacked(Tagged!Without(q, g[i - 1]).space, Tagged!Without(q, g[i - 1]).used,
                    Cut(v, i), Closed(v, g, i))
         /\ Closed(v, g, i)[i - 1] = g[i - 1]
<1> DEFINE L == Len(v)
           X == Extent(v[i])
           p == g[i - 1]
           mem == q.space
           top == q.used
           c == Cut(v, i)
           f == Closed(v, g, i)
           e == [k \in DOMAIN mem |-> IF k \in p .. (top - X - 1) THEN mem[k + X] ELSE mem[k]]
<1>1. /\ L \in Nat /\ top \in Nat /\ top <= Room /\ Room \in Nat
      /\ i \in Nat /\ 1 <= i /\ i <= L
      /\ \A m \in 0 .. L : g[m] \in Nat /\ g[m] <= top
      /\ \A m \in 1 .. L : /\ v[m] \in Packets /\ Extent(v[m]) \in Nat /\ Extent(v[m]) >= 3
                           /\ g[m] = g[m - 1] + Extent(v[m])
                           /\ g[m - 1] \in Nat /\ g[m] \in Nat /\ g[m] <= top
  <2>1. i \in Nat /\ 1 <= i /\ i <= L
    OBVIOUS
  <2>2. QED
    BY <2>1, StackIs
<1>2. /\ Ends(v, g) /\ g[L] = top /\ mem \in Memories /\ v \in Seq(Packets)
      /\ \A m \in 1 .. L : Stored(mem, g[m - 1], v[m])
  BY DEF Stacked, Ends
<1>3. Ends(c, f) /\ f[L - 1] = g[L] - X
  BY <1>2, ClosedEnds
<1>4. \A a, b \in 0 .. L : a <= b => g[a] <= g[b]
  BY <1>2, Climbs
<1>5. Len(c) = L - 1 /\ \A m \in 1 .. L - 1 : c[m] = IF m < i THEN v[m] ELSE v[m + 1]
  BY <1>2, CutIs
<1>6. \A m \in 0 .. L - 1 : f[m] = IF m < i THEN g[m] ELSE g[m + 1] - X
  BY DEF Closed
<1>7. Tagged!len(q, p) = X
  <2>1. Stored(q.space, p, v[i]) /\ v[i] \in Packets /\ p \in Nat
    BY <1>1, <1>2
  <2>2. QED
    BY <2>1, ReadsBack
<1>8. Tagged!Without(q, p) = [space |-> e, used |-> top - X]
  BY <1>7 DEF Tagged!Without
<1>9. DOMAIN mem = 0 .. Room - 1 /\ \A k \in 0 .. Room - 1 : mem[k] \in Nat
  BY <1>2 DEF Memories
<1>10. i \in 1 .. L /\ i - 1 \in 0 .. L /\ i \in 0 .. L
  BY <1>1
<1>11. X \in Nat /\ p \in Nat /\ g[i] = p + X /\ g[i] \in Nat /\ g[i] <= top
  BY <1>1, <1>10
<1>12. \A k \in 0 .. Room - 1 : e[k] = IF p <= k /\ k <= top - X - 1 THEN mem[k + X] ELSE mem[k]
  <2>1. \A k \in 0 .. Room - 1 : k \in p .. (top - X - 1) <=> p <= k /\ k <= top - X - 1
    BY <1>1, <1>11
  <2>2. QED
    BY <1>9, <2>1
<1>13. DOMAIN e = 0 .. Room - 1 /\ e = [k \in 0 .. Room - 1 |-> e[k]]
  BY <1>9
<1> HIDE DEF L, X, p, mem, top, c, f, e
<1>14. \A k \in Nat : p <= k /\ k <= top - X - 1 => k + X \in 0 .. Room - 1
  BY <1>1, <1>11
<1>15. e \in Memories
  <2>1. \A k \in 0 .. Room - 1 : e[k] \in Nat
    <3> SUFFICES ASSUME NEW k \in 0 .. Room - 1 PROVE e[k] \in Nat
      OBVIOUS
    <3>1. k \in Nat
      BY <1>1
    <3>2. CASE p <= k /\ k <= top - X - 1
      BY <1>9, <1>12, <1>14, <3>1, <3>2
    <3>3. CASE ~(p <= k /\ k <= top - X - 1)
      BY <1>9, <1>12, <3>3
    <3>4. QED
      BY <3>2, <3>3
  <2>2. QED
    BY <1>13, <2>1 DEF Memories
<1>16. f[Len(c)] = top - X /\ top - X <= Room
  BY <1>1, <1>2, <1>3, <1>5, <1>11 DEF L
<1>17. ASSUME NEW m \in 1 .. L - 1 PROVE Stored(e, f[m - 1], c[m])
  <2>1. /\ m \in 0 .. L - 1 /\ m - 1 \in 0 .. L - 1 /\ m \in 1 .. L /\ m + 1 \in 1 .. L
        /\ (m + 1) - 1 = m /\ (m - 1) + 1 = m /\ m \in 0 .. L /\ m - 1 \in 0 .. L /\ m + 1 \in 0 .. L
        /\ m \in Nat
    BY <1>1
  <2>2. CASE m < i
    <3>1. m - 1 < i /\ m <= i - 1
      BY <1>1, <2>1, <2>2
    <3>2. f[m - 1] = g[m - 1] /\ c[m] = v[m]
      BY <1>5, <1>6, <2>1, <2>2, <3>1
    <3>3. g[m] <= p /\ g[m] = g[m - 1] + Extent(v[m]) /\ Extent(v[m]) \in Nat /\ g[m - 1] \in Nat
          /\ g[m] <= top
      BY <1>1, <1>4, <1>10, <2>1, <3>1 DEF p
    <3>4. Stored(mem, g[m - 1], v[m])
      BY <1>2, <2>1
    <3> DEFINE a == g[m - 1]
               n == Extent(v[m])
    <3>5. a \in Nat /\ n \in Nat /\ a + n <= p /\ a + n <= top
      BY <3>3
    <3>6. \A k \in 0 .. n - 1 : mem[a + k] = Cell(v[m], k)
      BY <3>4 DEF Stored
    <3> HIDE DEF a, n
    <3>7. ASSUME NEW k \in 0 .. n - 1 PROVE e[a + k] = Cell(v[m], k)
      <4>1. a + k \in 0 .. Room - 1 /\ ~(p <= a + k)
        BY <1>1, <1>11, <3>5
      <4>2. e[a + k] = mem[a + k]
        BY <1>12, <4>1
      <4>3. QED
        BY <3>6, <4>2
    <3>8. Stored(e, a, v[m])
      BY <3>7 DEF Stored, n
    <3>9. QED
      BY <3>2, <3>8 DEF a
  <2>3. CASE ~(m < i)
    <3>1. i <= m /\ c[m] = v[m + 1]
      BY <1>1, <1>5, <2>1, <2>3
    <3>2. f[m - 1] = g[m] - X
      <4>1. CASE m = i
        <5>1. m - 1 < i
          BY <2>1, <4>1
        <5>2. f[m - 1] = p
          BY <1>6, <2>1, <4>1, <5>1 DEF p
        <5>3. QED
          BY <1>11, <4>1, <5>2
      <4>2. CASE m # i
        <5>1. ~(m - 1 < i)
          BY <1>1, <2>1, <2>3, <4>2
        <5>2. QED
          BY <1>6, <2>1, <5>1
      <4>3. QED
        BY <4>1, <4>2
    <3>3. g[i] <= g[m]
      BY <1>4, <1>10, <2>1, <3>1
    <3>4. /\ g[m + 1] = g[m] + Extent(v[m + 1]) /\ Extent(v[m + 1]) \in Nat
          /\ g[m] \in Nat /\ g[m + 1] <= top
      BY <1>1, <2>1
    <3>5. Stored(mem, g[m], v[m + 1])
      BY <1>2, <2>1
    <3> DEFINE a == g[m]
               n == Extent(v[m + 1])
    <3>6. a \in Nat /\ n \in Nat /\ a + n <= top /\ p + X <= a
      BY <1>11, <3>3, <3>4
    <3>7. \A k \in 0 .. n - 1 : mem[a + k] = Cell(v[m + 1], k)
      BY <3>5 DEF Stored
    <3> HIDE DEF a, n
    <3>8. ASSUME NEW k \in 0 .. n - 1 PROVE e[(a - X) + k] = Cell(v[m + 1], k)
      <4> DEFINE b == (a - X) + k
      <4>1. b \in 0 .. Room - 1 /\ p <= b /\ b <= top - X - 1 /\ b + X = a + k
        BY <1>1, <1>11, <3>6
      <4> HIDE DEF b
      <4>2. e[b] = mem[a + k]
        BY <1>12, <4>1
      <4>3. QED
        BY <3>7, <4>2 DEF b
    <3>9. Stored(e, a - X, v[m + 1])
      BY <3>8 DEF Stored, n
    <3>10. QED
      BY <3>1, <3>2, <3>9 DEF a
  <2>4. QED
    BY <2>2, <2>3
<1>18. Stacked(e, top - X, c, f)
  BY <1>3, <1>5, <1>15, <1>16, <1>17 DEF Stacked
<1>19. f[i - 1] = p
  <2>1. i - 1 \in 0 .. L - 1 /\ i - 1 < i
    BY <1>1
  <2>2. QED
    BY <1>6, <2>1 DEF p
<1>20. Tagged!Without(q, p).space = e /\ Tagged!Without(q, p).used = top - X
  BY <1>8
<1>21. QED
  BY <1>18, <1>19, <1>20 DEF c, f, p

\* x behind the last packet.
Grown(v, g, x) ==
  [m \in 0 .. Len(v) + 1 |-> IF m <= Len(v) THEN g[m] ELSE g[Len(v)] + Extent(x)]
Cells(x) == <<Tagged!HL + Len(x.data), x.stamp, x.id>> \o x.data

Cat(s, t) == s \o t
Behind(c, s, t) ==
  /\ Len(c) = Len(s) + Len(t)
  /\ \A i \in 1 .. Len(s) + Len(t) : c[i] = IF i <= Len(s) THEN s[i] ELSE t[i - Len(s)]

LEMMA CatIs ==
  ASSUME NEW U, NEW s \in Seq(U), NEW t \in Seq(U)
  PROVE  Behind(Cat(s, t), s, t)
<1>1. s \in Seq(U) /\ t \in Seq(U)
  OBVIOUS
<1>2. /\ Len(s \o t) = Len(s) + Len(t)
      /\ \A i \in 1 .. Len(s) + Len(t) :
           (s \o t)[i] = IF i <= Len(s) THEN s[i] ELSE t[i - Len(s)]
  BY ONLY <1>1
<1>3. QED
  BY <1>2 DEF Behind, Cat

LEMMA CellsAre ==
  ASSUME NEW x \in Packets
  PROVE  Len(Cells(x)) = Extent(x) /\ \A k \in 0 .. Extent(x) - 1 : Cells(x)[k + 1] = Cell(x, k)
<1> DEFINE t == <<Tagged!HL + Len(x.data), x.stamp, x.id>>
           z == x.data
           n == Len(z)
<1>1. /\ x.stamp \in Nat /\ x.id \in Nat /\ z \in Seq(Nat) /\ n \in Nat
      /\ Extent(x) \in Nat /\ Extent(x) = 3 + n
  BY PacketIs
<1>2. t \in Seq(Nat) /\ Len(t) = 3 /\ t[1] = Extent(x) /\ t[2] = x.stamp /\ t[3] = x.id
  <2>1. Tagged!HL + Len(x.data) = Extent(x)
    BY DEF Extent
  <2>2. QED
    BY <1>1, <2>1
<1>3. \A k \in 0 .. Extent(x) - 1 : Cell(x, k)
        = IF k = 0 THEN Extent(x) ELSE IF k = 1 THEN x.stamp ELSE IF k = 2 THEN x.id ELSE z[k - 2]
  BY DEF Cell
<1>4. Cells(x) = Cat(t, z)
  BY DEF Cells, Cat
<1> HIDE DEF t, z, n
<1> DEFINE y == Cat(t, z)
<1>5. /\ Len(y) = Len(t) + Len(z)
      /\ \A i \in 1 .. Len(t) + Len(z) : y[i] = IF i <= Len(t) THEN t[i] ELSE z[i - Len(t)]
  <2>1. Behind(y, t, z)
    BY <1>1, <1>2, CatIs
  <2>2. QED
    BY <2>1, Zenon DEF Behind
<1> HIDE DEF y
<1>6. Len(y) = 3 + n /\ \A i \in 1 .. 3 + n : y[i] = IF i <= 3 THEN t[i] ELSE z[i - 3]
  BY <1>2, <1>5 DEF n
<1>7. ASSUME NEW k \in 0 .. Extent(x) - 1 PROVE y[k + 1] = Cell(x, k)
  <2>1. k \in Nat /\ k + 1 \in 1 .. 3 + n /\ (k + 1) - 3 = k - 2
    BY <1>1
  <2>2. y[k + 1] = IF k + 1 <= 3 THEN t[k + 1] ELSE z[(k + 1) - 3]
    BY <1>6, <2>1
  <2>3. CASE k = 0
    BY <1>2, <1>3, <2>2, <2>3
  <2>4. CASE k = 1
    BY <1>2, <1>3, <2>2, <2>4
  <2>5. CASE k = 2
    BY <1>2, <1>3, <2>2, <2>5
  <2>6. CASE k # 0 /\ k # 1 /\ k # 2
    <3>1. ~(k + 1 <= 3)
      BY <2>1, <2>6
    <3>2. y[k + 1] = z[k - 2]
      BY <2>1, <2>2, <3>1
    <3>3. QED
      BY <1>3, <2>6, <3>2
  <2>7. QED
    BY <2>3, <2>4, <2>5, <2>6
<1>8. Cells(x) = y
  BY <1>4 DEF y
<1>9. QED
  BY <1>1, <1>6, <1>7, <1>8

LEMMA GrownEnds ==
  ASSUME NEW v, NEW g, Ends(v, g), NEW x \in Packets
  PROVE  /\ Ends(Append(v, x), Grown(v, g, x))
         /\ Grown(v, g, x)[Len(v) + 1] = g[Len(v)] + Extent(x)
         /\ \A m \in 0 .. Len(v) : Grown(v, g, x)[m] = g[m]
<1> DEFINE L == Len(v)
           X == Extent(x)
           c == Append(v, x)
           e == Grown(v, g, x)
<1>1. /\ v \in Seq(Packets) /\ L \in Nat /\ g \in [0 .. L -> Nat] /\ g[0] = 0
      /\ \A m \in 1 .. L : g[m] = g[m - 1] + Extent(v[m])
  BY DEF Ends
<1>2. X \in Nat
  BY PacketIs
<1>3. /\ c \in Seq(Packets) /\ Len(c) = L + 1
      /\ \A m \in 1 .. L : c[m] = v[m]
      /\ c[L + 1] = x
  BY <1>1, AppendIs
<1>4. /\ \A m \in 0 .. L + 1 : e[m] = IF m <= L THEN g[m] ELSE g[L] + X
      /\ e = [m \in 0 .. L + 1 |-> e[m]]
  BY DEF Grown
<1> HIDE DEF L, X, c, e
<1>5. \A m \in 0 .. L : m \in 0 .. L + 1 /\ m <= L /\ g[m] \in Nat
  BY <1>1
<1>6. \A m \in 0 .. L : e[m] = g[m]
  BY <1>4, <1>5
<1>7. L + 1 \in 0 .. L + 1 /\ ~(L + 1 <= L) /\ L \in 0 .. L /\ 0 \in 0 .. L
  BY <1>1
<1>8. e[L + 1] = g[L] + X
  BY <1>4, <1>7
<1>9. \A m \in 0 .. L + 1 : m \in 0 .. L \/ m = L + 1
  BY <1>1
<1>10. e \in [0 .. L + 1 -> Nat]
  <2>1. \A m \in 0 .. L : e[m] \in Nat
    BY <1>5, <1>6
  <2>2. g[L] + X \in Nat
    BY <1>2, <1>5, <1>7
  <2>3. \A m \in 0 .. L + 1 : e[m] \in Nat
    BY <1>8, <1>9, <2>1, <2>2
  <2>4. QED
    BY <1>4, <2>3
<1>11. ASSUME NEW m \in 1 .. L + 1 PROVE e[m] = e[m - 1] + Extent(c[m])
  <2>1. m - 1 \in 0 .. L
    BY <1>1
  <2>2. CASE m = L + 1
    <3>1. m - 1 = L
      BY <1>1, <2>2
    <3>2. e[m - 1] = g[L]
      BY <1>6, <1>7, <3>1
    <3>3. QED
      BY <1>3, <1>8, <2>2, <3>2 DEF X
  <2>3. CASE m # L + 1
    <3>1. m \in 1 .. L /\ m \in 0 .. L
      BY <1>1, <2>3
    <3>2. QED
      BY <1>1, <1>3, <1>6, <2>1, <3>1
  <2>4. QED
    BY <2>2, <2>3
<1>12. e[0] = 0
  BY <1>1, <1>6, <1>7
<1>13. Ends(c, e)
  BY <1>3, <1>10, <1>11, <1>12 DEF Ends
<1>14. QED
  BY <1>6, <1>8, <1>13 DEF L, X, c, e

LEMMA Pushed ==
  ASSUME NEW mem, NEW top, NEW v, NEW g, Stacked(mem, top, v, g),
         NEW x \in Packets, top + Extent(x) <= Room
  PROVE  Stacked(Tagged!memcpy(mem, top, Cells(x)), top + Extent(x), Append(v, x), Grown(v, g, x))
<1> DEFINE L == Len(v)
           X == Extent(x)
           c == Append(v, x)
           f == Grown(v, g, x)
           y == Cells(x)
           e == [i \in DOMAIN mem |-> IF i \in top .. (top + Len(y) - 1) THEN y[i - top + 1] ELSE mem[i]]
<1>1. /\ L \in Nat /\ top \in Nat /\ top <= Room /\ Room \in Nat
      /\ \A m \in 0 .. L : g[m] \in Nat /\ g[m] <= top
      /\ \A m \in 1 .. L : /\ v[m] \in Packets /\ Extent(v[m]) \in Nat
                           /\ g[m] = g[m - 1] + Extent(v[m])
                           /\ g[m - 1] \in Nat /\ g[m] <= top
  BY StackIs
<1>2. /\ Ends(v, g) /\ g[L] = top /\ mem \in Memories /\ v \in Seq(Packets)
      /\ \A m \in 1 .. L : Stored(mem, g[m - 1], v[m])
  BY DEF Stacked, Ends
<1>3. /\ Ends(c, f) /\ f[L + 1] = g[L] + X /\ \A m \in 0 .. L : f[m] = g[m]
  BY <1>2, GrownEnds
<1>4. /\ c \in Seq(Packets) /\ Len(c) = L + 1
      /\ \A m \in 1 .. L : c[m] = v[m]
      /\ c[L + 1] = x
  <2>1. v \in Seq(Packets) /\ x \in Packets
    BY <1>2
  <2> HIDE DEF f, y, e, X
  <2>2. QED
    BY <2>1, AppendIs
<1>5. Len(y) = X /\ \A k \in 0 .. X - 1 : y[k + 1] = Cell(x, k)
  BY CellsAre
<1>6. X \in Nat /\ X >= 3 /\ \A k \in 0 .. X - 1 : Cell(x, k) \in Nat
  BY PacketIs
<1>7. DOMAIN mem = 0 .. Room - 1 /\ \A k \in 0 .. Room - 1 : mem[k] \in Nat
  BY <1>2 DEF Memories
<1>8. Tagged!memcpy(mem, top, y) = e
  BY DEF Tagged!memcpy
<1>9. top + X <= Room
  OBVIOUS
<1>10. /\ \A i \in 0 .. Room - 1 :
            e[i] = IF i \in top .. (top + Len(y) - 1) THEN y[i - top + 1] ELSE mem[i]
       /\ e = [i \in 0 .. Room - 1 |-> e[i]]
  BY <1>7
<1> HIDE DEF L, X, c, f, y, e
<1>11. ASSUME NEW i \in 0 .. Room - 1, i < top PROVE e[i] = mem[i]
  <2>1. i \notin top .. (top + Len(y) - 1)
    BY <1>1, <1>5, <1>6, <1>11
  <2>2. QED
    BY <1>10, <2>1
<1>12. ASSUME NEW k \in 0 .. X - 1 PROVE e[top + k] = Cell(x, k)
  <2>1. top + k \in 0 .. Room - 1 /\ top + k \in top .. (top + Len(y) - 1) /\ (top + k) - top + 1 = k + 1
    BY <1>1, <1>5, <1>6, <1>9
  <2>2. e[top + k] = y[k + 1]
    BY <1>10, <2>1
  <2>3. QED
    BY <1>5, <2>2
<1>13. e \in Memories
  <2>1. ASSUME NEW i \in 0 .. Room - 1 PROVE e[i] \in Nat
    <3>1. CASE i \in top .. (top + Len(y) - 1)
      <4> DEFINE k == i - top
      <4>1. k \in 0 .. X - 1 /\ i = top + k
        BY <1>1, <1>5, <1>6, <3>1
      <4> HIDE DEF k
      <4>2. QED
        BY <1>6, <1>12, <4>1
    <3>2. CASE i \notin top .. (top + Len(y) - 1)
      BY <1>7, <1>10, <3>2
    <3>3. QED
      BY <3>1, <3>2
  <2>2. QED
    BY <1>10, <2>1 DEF Memories
<1>14. ASSUME NEW m \in 1 .. L + 1 PROVE Stored(e, f[m - 1], c[m])
  <2>1. CASE m = L + 1
    <3>1. m - 1 = L /\ L \in 0 .. L
      BY <1>1, <2>1
    <3>2. f[m - 1] = top /\ c[m] = x
      BY <1>2, <1>3, <1>4, <2>1, <3>1
    <3>3. Stored(e, top, x)
      BY <1>12 DEF Stored, X
    <3>4. QED
      BY <3>2, <3>3
  <2>2. CASE m # L + 1
    <3>1. m \in 1 .. L /\ m - 1 \in 0 .. L
      BY <1>1, <2>2
    <3>2. f[m - 1] = g[m - 1] /\ c[m] = v[m]
      BY <1>3, <1>4, <3>1
    <3>3. Stored(mem, g[m - 1], v[m])
      BY <1>2, <3>1
    <3>4. /\ g[m] = g[m - 1] + Extent(v[m]) /\ Extent(v[m]) \in Nat
          /\ g[m - 1] \in Nat /\ g[m] <= top
      BY <1>1, <3>1
    <3> DEFINE a == g[m - 1]
               n == Extent(v[m])
    <3>5. a \in Nat /\ n \in Nat /\ a + n <= top
      BY <3>4
    <3>6. \A k \in 0 .. n - 1 : mem[a + k] = Cell(v[m], k)
      BY <3>3 DEF Stored
    <3> HIDE DEF a, n
    <3>7. ASSUME NEW k \in 0 .. n - 1 PROVE e[a + k] = Cell(v[m], k)
      <4>1. a + k \in 0 .. Room - 1 /\ a + k < top
        BY <1>1, <3>5
      <4>2. QED
        BY <1>11, <3>6, <4>1
    <3>8. Stored(e, a, v[m])
      BY <3>7 DEF Stored, n
    <3>9. QED
      BY <3>2, <3>8 DEF a
  <2>3. QED
    BY <2>1, <2>2
<1>15. f[Len(c)] = top + X
  BY <1>2, <1>3, <1>4
<1>16. Stacked(e, top + X, c, f)
  BY <1>3, <1>4, <1>9, <1>13, <1>14, <1>15 DEF Stacked
<1>17. QED
  BY <1>8, <1>16 DEF X, c, f, y

-----------------------------------------------------------------------------
(* What OrderedList says of the packets.                                    *)

TagInv == \E v, g : Stacked(bytes, spaceUsed, v, g)

LEMMA ContentsNext ==
  ASSUME NEW v, NEW g
  PROVE  Stacked(bytes', spaceUsed', v, g) => TagInv' /\ Tagged!Contents' = v
<1>1. Stacked(bytes, spaceUsed, v, g) => Tagged!Contents = v
  BY ContentsAre
<1>2. (Stacked(bytes, spaceUsed, v, g) => Tagged!Contents = v)'
  BY <1>1, PTL
<1>3. Stacked(bytes', spaceUsed', v, g) => TagInv'
  BY DEF TagInv
<1>4. QED
  BY <1>2, <1>3

Sums_(v, f) == f = [n \in 0 .. Len(v) |-> IF n = 0 THEN 0 ELSE f[n - 1] + Extent(v[n])]

LEMMA SumIs ==
  ASSUME NEW v, NEW g, Ends(v, g)
  PROVE  (CHOOSE f : Sums_(v, f))[Len(v)] = g[Len(v)]
<1> DEFINE L == Len(v)
           s == CHOOSE f : Sums_(v, f)
           T == {n \in Nat : n <= L => s[n] = g[n]}
<1>1. /\ L \in Nat /\ g \in [0 .. L -> Nat] /\ g[0] = 0
      /\ \A m \in 1 .. L : g[m] = g[m - 1] + Extent(v[m])
  BY DEF Ends
<1>2. Sums_(v, g)
  <2> DEFINE e == [n \in 0 .. L |-> IF n = 0 THEN 0 ELSE g[n - 1] + Extent(v[n])]
  <2>1. \A n \in 0 .. L : n # 0 => n \in 1 .. L
    BY <1>1
  <2>2. \A n \in 0 .. L : g[n] = e[n]
    BY <1>1, <2>1
  <2>3. g = e
    BY <1>1, <2>2
  <2>4. QED
    BY <2>3 DEF Sums_
<1>3. Sums_(v, s)
  BY <1>2, Zenon
<1> HIDE DEF s
<1>4. \A n \in 0 .. L : s[n] = IF n = 0 THEN 0 ELSE s[n - 1] + Extent(v[n])
  BY <1>3, Zenon DEF Sums_
<1> HIDE DEF L
<1>5. 0 \in T
  BY <1>1, <1>4
<1>6. ASSUME NEW n \in Nat, n \in T PROVE n + 1 \in T
  <2> SUFFICES ASSUME n + 1 <= L PROVE s[n + 1] = g[n + 1]
    OBVIOUS
  <2>1. n + 1 \in 0 .. L /\ n + 1 \in 1 .. L /\ n + 1 # 0 /\ (n + 1) - 1 = n /\ n <= L
    BY <1>1
  <2>2. s[n] = g[n]
    BY <1>6, <2>1
  <2>3. QED
    BY <1>1, <1>4, <2>1, <2>2
<1>7. L \in T
  <2> HIDE DEF T
  <2>1. Nat \subseteq T
    BY <1>5, <1>6, Induct
  <2>2. QED
    BY <1>1, <2>1
<1>8. s[L] = g[L]
  BY <1>1, <1>7
<1>9. QED
  BY <1>8 DEF s, L

LEMMA TagUsed ==
  ASSUME NEW v, NEW g, Stacked(bytes, spaceUsed, v, g)
  PROVE  Tagged!Arrival!Used = spaceUsed
<1>1. Tagged!Contents = v /\ Ends(v, g) /\ g[Len(v)] = spaceUsed
  BY ContentsAre DEF Stacked
<1>2. Tagged!Arrival!Weights = CHOOSE f : Sums_(v, f)
  BY <1>1 DEF Tagged!Arrival!Weights, Sums_, Extent
<1>3. QED
  BY <1>1, <1>2, SumIs DEF Tagged!Arrival!Used

LEMMA TagPlace ==
  ASSUME NEW v, NEW g, Stacked(bytes, spaceUsed, v, g), NEW x
  PROVE  Tagged!Arrival!Place(x) = Len(v) + 1
<1> DEFINE L == Len(v)
<1>1. Tagged!Contents = v /\ L \in Nat
  BY ContentsAre, StackIs
<1>2. Tagged!Arrival!Place(x)
        = CHOOSE p \in 1 .. L + 1 : /\ \A i \in 1 .. p - 1 : ~FALSE
                                    /\ p <= L => FALSE
  BY <1>1 DEF Tagged!Arrival!Place
<1> HIDE DEF L
<1>3. QED
  BY <1>1, <1>2 DEF L

LEMMA TagInit ==
  ASSUME Tagged!Init
  PROVE  TagInv /\ Tagged!Arrival!Init
<1> DEFINE v == <<>>
           g == [m \in 0 .. 0 |-> 0]
<1>1. bytes = [i \in 0 .. Room - 1 |-> 0] /\ spaceUsed = 0 /\ given = <<"none">>
  BY DEF Tagged!Init
<1>2. bytes \in Memories
  BY <1>1 DEF Memories
<1>3. v \in Seq(Packets) /\ Len(v) = 0 /\ g[0] = 0 /\ g \in [0 .. 0 -> Nat] /\ 1 .. 0 = {}
  OBVIOUS
<1> HIDE DEF v, g
<1>4. Ends(v, g)
  BY <1>3 DEF Ends
<1>5. Stacked(bytes, spaceUsed, v, g)
  BY <1>1, <1>2, <1>3, <1>4, RoomIs DEF Stacked
<1>6. Tagged!Contents = v
  BY <1>5, ContentsAre
<1>7. QED
  BY <1>1, <1>5, <1>6 DEF TagInv, Tagged!Arrival!Init, v

LEMMA TagPush ==
  ASSUME TagInv, NEW x \in Packets, Tagged!push(x)
  PROVE  TagInv' /\ Tagged!Arrival!Insert(x)
<1>1. PICK v, g : Stacked(bytes, spaceUsed, v, g)
  BY DEF TagInv
<1>2. /\ Tagged!Contents = v /\ Tagged!Arrival!Used = spaceUsed
      /\ Tagged!Arrival!Place(x) = Len(v) + 1
  BY <1>1, ContentsAre, TagUsed, TagPlace
<1>3. spaceUsed \in Nat /\ Room \in Nat /\ Len(v) \in Nat /\ v \in Seq(Packets)
  BY <1>1, StackIs DEF Stacked, Ends
<1>4. Extent(x) \in Nat /\ Extent(x) = 3 + Len(x.data) /\ Len(x.data) \in Nat
  BY PacketIs
<1>5. Tagged!HL + Len(x.data) = Extent(x)
  BY DEF Extent
<1>6. spaceUsed + Tagged!HL + Len(x.data) = spaceUsed + Extent(x)
  <2> DEFINE a == spaceUsed
             b == Len(x.data)
  <2>1. a \in Nat /\ b \in Nat /\ Extent(x) = 3 + b
    BY ONLY <1>3, <1>4
  <2> HIDE DEF a, b
  <2>2. a + 3 + b = a + Extent(x)
    BY ONLY <2>1
  <2>3. QED
    BY <2>2 DEF a, b, Tagged!HL
<1>7. Tagged!Fits(x) <=> spaceUsed + Extent(x) <= Room
  BY <1>6 DEF Tagged!Fits
<1>8. CASE ~Tagged!Fits(x)
  <2>1. bytes' = bytes /\ spaceUsed' = spaceUsed /\ given' = <<"refused">>
    BY <1>8 DEF Tagged!push
  <2>2. Stacked(bytes', spaceUsed', v, g)
    BY <1>1, <2>1
  <2>3. TagInv' /\ Tagged!Contents' = v
    BY <2>2, ContentsNext
  <2>4. ~(Tagged!Arrival!Used + (Tagged!HL + Len(x.data)) <= Room)
    BY <1>2, <1>5, <1>7, <1>8
  <2>5. QED
    BY <1>2, <2>1, <2>3, <2>4 DEF Tagged!Arrival!Insert
<1>9. CASE Tagged!Fits(x)
  <2>1. /\ bytes' = Tagged!memcpy(bytes, spaceUsed, Cells(x))
        /\ spaceUsed' = spaceUsed + Tagged!HL + Len(x.data) /\ given' = <<"inserted">>
    BY <1>9 DEF Tagged!push, Cells
  <2>2. spaceUsed' = spaceUsed + Extent(x)
    BY <1>6, <2>1
  <2>3. Stacked(bytes', spaceUsed', Append(v, x), Grown(v, g, x))
    BY <1>1, <1>7, <1>9, <2>1, <2>2, Pushed
  <2>4. TagInv' /\ Tagged!Contents' = Append(v, x)
    BY <2>3, ContentsNext
  <2>5. Append(v, x) = PutIn(v, Len(v) + 1, x)
    <3> DEFINE c == Append(v, x)
               L == Len(v)
    <3>1. /\ c \in Seq(Packets) /\ Len(c) = L + 1
          /\ \A m \in 1 .. L : c[m] = v[m]
          /\ c[L + 1] = x
      BY <1>3, AppendIs
    <3> HIDE DEF c, L
    <3>2. L \in Nat
      BY <1>3 DEF L
    <3>3. \A i \in 1 .. L + 1 : c[i] = IF i < L + 1 THEN v[i] ELSE IF i = L + 1 THEN x ELSE v[i - 1]
      <4>1. \A i \in 1 .. L + 1 : (i < L + 1 /\ i \in 1 .. L) \/ (~(i < L + 1) /\ i = L + 1)
        BY <3>2
      <4>2. QED
        BY <3>1, <4>1
    <3>4. L + 1 \in 1 .. L + 1
      BY <3>2
    <3>5. Splices(c, Packets, v, L + 1, x)
      BY <1>3, <3>1, <3>3, <3>4 DEF Splices, L
    <3>6. QED
      BY <3>5, Spliced DEF c, L
  <2>6. Tagged!Arrival!Used + (Tagged!HL + Len(x.data)) <= Room
    BY <1>2, <1>5, <1>7, <1>9
  <2>7. Tagged!Contents' = SubSeq(v, 1, (Len(v) + 1) - 1) \o <<x>> \o SubSeq(v, Len(v) + 1, Len(v))
    BY <2>4, <2>5, Zenon DEF PutIn
  <2>8. QED
    BY <1>2, <2>1, <2>4, <2>6, <2>7 DEF Tagged!Arrival!Insert
<1>10. QED
  BY <1>8, <1>9

LEMMA TagPop ==
  ASSUME TagInv, NEW room, Tagged!tryPop(room)
  PROVE  TagInv' /\ Tagged!Arrival!Pop(room)
<1> DEFINE q == Tagged!Buffer
<1>1. PICK v, g : Stacked(bytes, spaceUsed, v, g)
  BY DEF TagInv
<1>2. /\ Tagged!Contents = v /\ spaceUsed \in Nat /\ Len(v) \in Nat
      /\ v \in Seq(Packets) /\ g[0] = 0 /\ g[Len(v)] = spaceUsed
      /\ \A i \in 1 .. Len(v) : v[i] \in Packets /\ Stored(bytes, g[i - 1], v[i])
  BY <1>1, ContentsAre, StackIs DEF Stacked, Ends
<1>3. /\ spaceUsed # 0 /\ given' = <<"first", Tagged!Truncated(Tagged!PacketAt(q, 0), room)>>
      /\ bytes' = Tagged!Without(q, 0).space /\ spaceUsed' = Tagged!Without(q, 0).used
  BY DEF Tagged!tryPop
<1>4. q.space = bytes /\ q.used = spaceUsed
  BY DEF Tagged!Buffer
<1> HIDE DEF q
<1>5. Len(v) # 0 /\ 1 \in 1 .. Len(v) /\ 1 - 1 = 0
  BY <1>2, <1>3
<1>6. Tagged!PacketAt(q, 0) = v[1]
  <2>1. v[1] \in Packets /\ Stored(q.space, 0, v[1]) /\ 0 \in Nat
    BY <1>2, <1>4, <1>5
  <2>2. QED
    BY <2>1, ReadsBack
<1>7. Stacked(bytes', spaceUsed', Cut(v, 1), Closed(v, g, 1))
  <2>1. Stacked(q.space, q.used, v, g)
    BY <1>1, <1>4
  <2>2. Stacked(Tagged!Without(q, g[1 - 1]).space, Tagged!Without(q, g[1 - 1]).used,
                Cut(v, 1), Closed(v, g, 1))
    BY <1>5, <2>1, Removed
  <2>3. g[1 - 1] = 0
    BY <1>2, <1>5
  <2>4. QED
    BY <1>3, <2>2, <2>3
<1>8. TagInv' /\ Tagged!Contents' = Cut(v, 1)
  BY <1>7, ContentsNext
<1>9. Cut(v, 1) = Tail(v) /\ v # <<>> /\ Head(v) = v[1]
  <2>1. /\ Cut(v, 1) \in Seq(Packets) /\ Len(Cut(v, 1)) = Len(v) - 1
        /\ \A m \in 1 .. Len(v) - 1 : Cut(v, 1)[m] = IF m < 1 THEN v[m] ELSE v[m + 1]
    BY <1>2, <1>5, CutIs
  <2>2. Tail(v) \in Seq(Packets) /\ Len(Tail(v)) = Len(v) - 1
        /\ \A m \in 1 .. Len(v) - 1 : Tail(v)[m] = v[m + 1]
    BY <1>2, <1>5
  <2>3. \A m \in 1 .. Len(v) - 1 : ~(m < 1)
    OBVIOUS
  <2>4. \A m \in 1 .. Len(Cut(v, 1)) : Cut(v, 1)[m] = Tail(v)[m]
    BY <2>1, <2>2, <2>3
  <2>5. Cut(v, 1) = Tail(v)
    BY <2>1, <2>2, <2>4, SameSeq
  <2>6. QED
    BY <1>2, <1>5, <2>5
<1>10. QED
  BY <1>2, <1>3, <1>6, <1>8, <1>9 DEF Tagged!Arrival!Pop

-----------------------------------------------------------------------------
(* The loop of removeIf().                                                  *)

TagTurns == [space : Memories, used : Nat, pos : Nat, left : Nat, seen : Seq(Packets)]

TagStep(P, b) ==
  IF b.pos >= b.used \/ b.left = 0 THEN b ELSE Tagged!Turn(P, b)
Rounds(P, start, N, f) ==
  f = [i \in 0 .. N |-> IF i = 0 THEN start ELSE TagStep(P, f[i - 1])]
TagLoop(P, start) == CHOOSE f : Rounds(P, start, Room, f)

LEMMA TagLoopIs ==
  ASSUME NEW P, NEW start
  PROVE  /\ Tagged!Loop(P, start) = TagLoop(P, start)[Room]
         /\ TagLoop(P, start)[0] = start
         /\ \A i \in 1 .. Room : TagLoop(P, start)[i] = TagStep(P, TagLoop(P, start)[i - 1])
<1> DEFINE T == {N \in Nat : \E f : Rounds(P, start, N, f)}
<1>1. 0 \in T
  <2>1. Rounds(P, start, 0, [i \in 0 .. 0 |-> start])
    BY DEF Rounds
  <2>2. QED
    BY <2>1
<1>2. ASSUME NEW N \in Nat, N \in T PROVE N + 1 \in T
  <2>1. PICK f : Rounds(P, start, N, f)
    BY <1>2
  <2> DEFINE g == [i \in 0 .. N + 1 |-> IF i = N + 1 THEN TagStep(P, f[N]) ELSE f[i]]
  <2>2. ASSUME NEW i \in 0 .. N + 1
        PROVE  g[i] = IF i = 0 THEN start ELSE TagStep(P, g[i - 1])
    <3>1. CASE i = N + 1
      <4>1. i # 0 /\ i - 1 = N /\ N \in 0 .. N + 1 /\ N # N + 1
        BY <3>1
      <4>2. g[i - 1] = f[N]
        BY <4>1
      <4>3. QED
        BY <3>1, <4>1, <4>2
    <3>2. CASE i # N + 1
      <4>1. i \in 0 .. N /\ (i # 0 => i - 1 \in 0 .. N + 1 /\ i - 1 # N + 1)
        BY <3>2
      <4>2. f[i] = IF i = 0 THEN start ELSE TagStep(P, f[i - 1])
        BY <2>1, <4>1, Zenon DEF Rounds
      <4>3. i # 0 => g[i - 1] = f[i - 1]
        BY <4>1
      <4>4. QED
        BY <3>2, <4>2, <4>3
    <3>3. QED
      BY <3>1, <3>2
  <2>3. Rounds(P, start, N + 1, g)
    <3> DEFINE h == [i \in 0 .. N + 1 |-> IF i = 0 THEN start ELSE TagStep(P, g[i - 1])]
    <3>1. \A i \in 0 .. N + 1 : g[i] = h[i]
      BY <2>2
    <3>2. g = h
      BY <3>1
    <3>3. QED
      BY <3>2 DEF Rounds
  <2>4. QED
    BY <2>3
<1>3. \E f : Rounds(P, start, Room, f)
  <2>1. Nat \subseteq T
    <3> HIDE DEF T
    <3>1. QED
      BY <1>1, <1>2, Induct
  <2>2. QED
    BY <2>1, RoomIs
<1>4. Rounds(P, start, Room, TagLoop(P, start))
  BY <1>3, Zenon DEF TagLoop
<1>5. \A i \in 0 .. Room : TagLoop(P, start)[i]
        = IF i = 0 THEN start ELSE TagStep(P, TagLoop(P, start)[i - 1])
  BY <1>4, Zenon DEF Rounds
<1>6. 0 \in 0 .. Room /\ \A i \in 1 .. Room : i \in 0 .. Room /\ i # 0
  BY RoomIs
<1>7. Tagged!Loop(P, start) = TagLoop(P, start)[Room]
  BY DEF Tagged!Loop, TagLoop, Rounds, TagStep
<1>8. QED
  BY <1>5, <1>6, <1>7

\* The loop after it has asked about the first j packets of l: the memory holds
\* what it kept and, behind its place, the rest.
Holds(q, l, b, n, j, v, g) ==
  /\ q \in TagTurns
  /\ q.seen = b.seen /\ q.left = n - Len(b.seen)
  /\ Stacked(q.space, q.used, v, g) /\ q.pos = g[Len(b.kept)]
  /\ Joined(v, b.kept, l, j)

LEMMA TurnFields ==
  ASSUME NEW q \in TagTurns, NEW P
  PROVE  Tagged!Turn(P, q)
           = IF Tagged!PacketAt(q, q.pos) \in P
               THEN [space |-> Tagged!Without(q, q.pos).space, used |-> Tagged!Without(q, q.pos).used,
                     pos |-> q.pos, left |-> q.left - 1,
                     seen |-> Append(q.seen, Tagged!PacketAt(q, q.pos))]
               ELSE [space |-> q.space, used |-> q.used, pos |-> q.pos + Tagged!len(q, q.pos),
                     left |-> q.left, seen |-> q.seen]
<1> DEFINE a == Tagged!Without(q, q.pos).space
           b == Tagged!Without(q, q.pos).used
           x == Tagged!PacketAt(q, q.pos)
           y == q.pos + Tagged!len(q, q.pos)
           z == Append(q.seen, x)
<1>1. Tagged!Turn(P, q)
        = IF x \in P
            THEN [q EXCEPT !.space = a, !.used = b, !.left = q.left - 1, !.seen = z]
            ELSE [q EXCEPT !.pos = y]
  BY DEF Tagged!Turn
<1>2. q = [space |-> q.space, used |-> q.used, pos |-> q.pos, left |-> q.left, seen |-> q.seen]
  BY DEF TagTurns
<1> DEFINE s == q.space
           u2 == q.used
           p == q.pos
           m == q.left
           t == q.seen
           n == q.left - 1
<1>3. q = [space |-> s, used |-> u2, pos |-> p, left |-> m, seen |-> t]
  BY <1>2
<1>4. [q EXCEPT !.space = a, !.used = b, !.left = n, !.seen = z]
        = [space |-> a, used |-> b, pos |-> p, left |-> n, seen |-> z]
  <2> HIDE DEF a, b, x, y, z, s, u2, p, m, t, n
  <2> DEFINE e == [q EXCEPT !.space = a, !.used = b, !.left = n, !.seen = z]
  <2>1. q \in [space : {s}, used : {u2}, pos : {p}, left : {m}, seen : {t}]
    BY <1>3
  <2>2. e \in [space : {a}, used : {b}, pos : {p}, left : {n}, seen : {z}]
    BY <2>1
  <2> HIDE DEF e
  <2>3. e = [space |-> a, used |-> b, pos |-> p, left |-> n, seen |-> z]
    BY <2>2
  <2>4. QED
    BY <2>3 DEF e
<1>5. [q EXCEPT !.pos = y] = [space |-> s, used |-> u2, pos |-> y, left |-> m, seen |-> t]
  <2> HIDE DEF a, b, x, y, z, s, u2, p, m, t, n
  <2>1. QED
    BY <1>3
<1>6. QED
  BY <1>1, <1>4, <1>5

\* Joined, when the next item is kept or dropped.
LEMMA JoinedKept ==
  ASSUME NEW U, NEW v \in Seq(U), NEW a \in Seq(U), NEW l \in Seq(U), NEW j \in 0 .. Len(l) - 1,
         Joined(v, a, l, j)
  PROVE  /\ Len(a) + 1 \in 1 .. Len(v) /\ v[Len(a) + 1] = l[j + 1] /\ l[j + 1] \in U
         /\ Joined(v, Append(a, l[j + 1]), l, j + 1)
<1> DEFINE K == Len(a)
           L == Len(l)
           x == l[j + 1]
           t == Append(a, x)
<1>1. K \in Nat /\ L \in Nat /\ j \in Nat /\ j + 1 <= L /\ j + 1 \in 1 .. L
  OBVIOUS
<1>2. x \in U
  BY <1>1
<1>3. Len(t) = K + 1 /\ (\A i \in 1 .. K : t[i] = a[i]) /\ t[K + 1] = x
  <2>1. a \in Seq(U) /\ x \in U
    BY <1>2
  <2> HIDE DEF x
  <2>2. QED
    BY <2>1, AppendIs
<1>4. /\ Len(v) = K + (L - j)
      /\ \A i \in 1 .. K : v[i] = a[i]
      /\ \A i \in 1 .. L - j : v[K + i] = l[j + i]
  BY DEF Joined
<1> HIDE DEF K, L, x, t
<1>5. K + 1 \in 1 .. Len(v)
  BY <1>1, <1>4
<1>6. v[K + 1] = x
  <2>1. 1 \in 1 .. L - j
    BY <1>1
  <2>2. v[K + 1] = l[j + 1]
    BY <1>4, <2>1
  <2>3. QED
    BY <2>2 DEF x
<1>7. Len(v) = Len(t) + (L - (j + 1))
  BY <1>1, <1>3, <1>4
<1>8. \A i \in 1 .. Len(t) : v[i] = t[i]
  <2>1. \A i \in 1 .. Len(t) : i \in 1 .. K \/ i = K + 1
    BY <1>1, <1>3
  <2>2. QED
    BY <1>3, <1>4, <1>6, <2>1
<1>9. \A i \in 1 .. L - (j + 1) : v[Len(t) + i] = l[(j + 1) + i]
  <2> SUFFICES ASSUME NEW i \in 1 .. L - (j + 1) PROVE v[Len(t) + i] = l[(j + 1) + i]
    OBVIOUS
  <2>1. i + 1 \in 1 .. L - j /\ K + (i + 1) = (K + 1) + i /\ j + (i + 1) = (j + 1) + i
    BY <1>1
  <2>2. v[K + (i + 1)] = l[j + (i + 1)]
    BY <1>4, <2>1
  <2>3. QED
    BY <1>3, <2>1, <2>2
<1>10. Joined(v, t, l, j + 1)
  BY <1>7, <1>8, <1>9 DEF Joined, L
<1>11. QED
  BY <1>2, <1>5, <1>6, <1>10 DEF K, x, t

LEMMA JoinedCut ==
  ASSUME NEW U, NEW v \in Seq(U), NEW a \in Seq(U), NEW l \in Seq(U), NEW j \in 0 .. Len(l) - 1,
         Joined(v, a, l, j)
  PROVE  Joined(Cut(v, Len(a) + 1), a, l, j + 1)
<1> DEFINE K == Len(a)
           L == Len(l)
           c == Cut(v, K + 1)
<1>1. K \in Nat /\ L \in Nat /\ j \in Nat /\ j + 1 <= L
  OBVIOUS
<1>2. K + 1 \in 1 .. Len(v)
  BY JoinedKept
<1>3. Len(c) = Len(v) - 1 /\ \A m \in 1 .. Len(v) - 1 : c[m] = IF m < K + 1 THEN v[m] ELSE v[m + 1]
  BY <1>2, CutIs
<1>4. /\ Len(v) = K + (L - j)
      /\ \A i \in 1 .. K : v[i] = a[i]
      /\ \A i \in 1 .. L - j : v[K + i] = l[j + i]
  BY DEF Joined
<1> HIDE DEF K, L, c
<1>5. Len(c) = K + (L - (j + 1))
  BY <1>1, <1>3, <1>4
<1>6. \A i \in 1 .. K : c[i] = a[i]
  <2>1. \A i \in 1 .. K : i \in 1 .. Len(v) - 1 /\ i < K + 1
    BY <1>1, <1>4
  <2>2. QED
    BY <1>3, <1>4, <2>1
<1>7. \A i \in 1 .. L - (j + 1) : c[K + i] = l[(j + 1) + i]
  <2> SUFFICES ASSUME NEW i \in 1 .. L - (j + 1) PROVE c[K + i] = l[(j + 1) + i]
    OBVIOUS
  <2>1. /\ i + 1 \in 1 .. L - j /\ K + (i + 1) = (K + i) + 1 /\ j + (i + 1) = (j + 1) + i
        /\ K + i \in 1 .. Len(v) - 1 /\ ~(K + i < K + 1)
    BY <1>1, <1>4
  <2>2. v[K + (i + 1)] = l[j + (i + 1)]
    BY <1>4, <2>1
  <2>3. c[K + i] = v[(K + i) + 1]
    BY <1>3, <2>1
  <2>4. QED
    BY <2>1, <2>2, <2>3
<1>8. QED
  BY <1>5, <1>6, <1>7 DEF Joined, K, L, c

LEMMA JoinedOnce ==
  ASSUME NEW U, NEW v \in Seq(U), NEW c \in Seq(U), NEW a \in Seq(U), NEW l \in Seq(U),
         NEW j \in 0 .. Len(l), Joined(v, a, l, j), Joined(c, a, l, j)
  PROVE  v = c
<1> DEFINE K == Len(a)
           L == Len(l)
<1>1. K \in Nat /\ L \in Nat /\ j \in Nat /\ j <= L
  OBVIOUS
<1>2. /\ Len(v) = K + (L - j) /\ Len(c) = K + (L - j)
      /\ \A i \in 1 .. K : v[i] = a[i] /\ c[i] = a[i]
      /\ \A i \in 1 .. L - j : v[K + i] = l[j + i] /\ c[K + i] = l[j + i]
  BY DEF Joined
<1> HIDE DEF K, L
<1>3. ASSUME NEW i \in 1 .. Len(v) PROVE v[i] = c[i]
  <2>1. CASE i \in 1 .. K
    BY <1>2, <2>1
  <2>2. CASE i \notin 1 .. K
    <3> DEFINE m == i - K
    <3>1. m \in 1 .. L - j /\ i = K + m
      BY <1>1, <1>2, <2>2
    <3> HIDE DEF m
    <3>2. QED
      BY <1>2, <3>1
  <2>3. QED
    BY <2>1, <2>2
<1>4. QED
  BY <1>2, <1>3, SameSeq

LEMMA TagTurn ==
  ASSUME NEW l \in Seq(Packets), NEW P, NEW n \in Nat, NEW j \in 0 .. Len(l) - 1,
         NEW q, NEW v, NEW g, Holds(q, l, Walk(l, P, n)[j], n, j, v, g), q.left # 0
  PROVE  \E e, h : Holds(Tagged!Turn(P, q), l, Walk(l, P, n)[j + 1], n, j + 1, e, h)
<1>0. \A m \in 0 .. Len(l) : Dealt(Packets, Walk(l, P, n)[m], m)
  BY WalkType
<1> DEFINE L == Len(l)
           x == l[j + 1]
           b == Walk(l, P, n)[j]
           s == b.seen
           k == b.kept
           i == Len(k) + 1
           t == Tagged!Turn(P, q)
<1>1. L \in Nat /\ j \in 0 .. L /\ j + 1 \in 1 .. L /\ (j + 1) - 1 = j
  OBVIOUS
<1>2. s \in Seq(Packets) /\ k \in Seq(Packets)
  BY <1>0, <1>1, Zenon DEF Dealt
<1>3. Walk(l, P, n)[j + 1] = Asked(l, P, n, b, j + 1)
  BY <1>1, WalkIs
<1>4. /\ q \in TagTurns /\ q.seen = s /\ q.left = n - Len(s)
      /\ Stacked(q.space, q.used, v, g) /\ q.pos = g[Len(k)] /\ Joined(v, k, l, j)
  BY DEF Holds
<1>5. v \in Seq(Packets)
  BY <1>4 DEF Stacked, Ends
<1>6. /\ i \in 1 .. Len(v) /\ v[i] = x /\ x \in Packets
      /\ Joined(v, Append(k, x), l, j + 1)
  BY <1>2, <1>4, <1>5, JoinedKept
<1>7. Joined(Cut(v, i), k, l, j + 1)
  BY <1>2, <1>4, <1>5, JoinedCut
<1>8. Len(k) \in Nat /\ i - 1 = Len(k) /\ Len(s) \in Nat
  BY <1>2
<1>9. q.left \in Nat /\ q.pos \in Nat
  BY <1>4 DEF TagTurns
<1>10. Len(s) < n /\ q.left - 1 \in Nat
  BY <1>4, <1>8, <1>9
<1>11. /\ Stored(q.space, g[i - 1], v[i]) /\ g[i] = g[i - 1] + Extent(v[i])
       /\ g[i - 1] \in Nat /\ g[i] \in Nat
  <2>1. /\ \A m \in 1 .. Len(v) : g[m] = g[m - 1] + Extent(v[m]) /\ g[m - 1] \in Nat /\ g[m] \in Nat
    BY <1>4, StackIs
  <2>2. \A m \in 1 .. Len(v) : Stored(q.space, g[m - 1], v[m])
    BY <1>4 DEF Stacked
  <2> HIDE DEF i
  <2>3. QED
    BY <1>6, <2>1, <2>2
<1> HIDE DEF i
<1>12. q.pos = g[i - 1]
  BY <1>4, <1>8
<1>13. Tagged!PacketAt(q, q.pos) = x /\ Tagged!len(q, q.pos) = Extent(x)
  <2>1. Stored(q.space, q.pos, x) /\ q.pos \in Nat
    BY <1>6, <1>9, <1>11, <1>12
  <2>2. QED
    BY <1>6, <2>1, ReadsBack
<1> HIDE DEF b, x, s, k, t
<1>14. CASE x \in P
  <2> DEFINE a == Tagged!Without(q, q.pos).space
             top == Tagged!Without(q, q.pos).used
             z == Append(s, x)
             e == Cut(v, i)
             h == Closed(v, g, i)
             y == [seen |-> z, kept |-> k]
             p == q.pos
             m == q.left - 1
  <2>1. t = [space |-> a, used |-> top, pos |-> p, left |-> m, seen |-> z]
    BY <1>4, <1>13, <1>14, TurnFields DEF t
  <2>2. Stacked(a, top, e, h) /\ h[i - 1] = g[i - 1]
    BY <1>4, <1>6, <1>12, Removed
  <2>3. Walk(l, P, n)[j + 1] = y
    BY <1>3, <1>10, <1>14 DEF Asked, s, k, x
  <2>4. z \in Seq(Packets) /\ Len(z) = Len(s) + 1
    BY <1>2, <1>6, AppendIs
  <2>5. a \in Memories /\ top \in Nat
    <3>1. a \in Memories
      BY <2>2 DEF Stacked
    <3>2. top \in Nat
      BY <2>2, StackIs
    <3>3. QED
      BY <3>1, <3>2
  <2>6. p = h[Len(k)] /\ p \in Nat /\ m \in Nat /\ m = n - Len(z)
    BY <1>4, <1>8, <1>9, <1>10, <1>12, <2>2, <2>4
  <2>7. Joined(e, k, l, j + 1)
    BY <1>7
  <2> HIDE DEF a, top, z, e, h, p, m
  <2>8. t \in TagTurns
    BY <2>1, <2>4, <2>5, <2>6 DEF TagTurns
  <2>9. t.space = a /\ t.used = top /\ t.pos = p /\ t.left = m /\ t.seen = z
    BY <2>1
  <2>10. y.seen = z /\ y.kept = k
    OBVIOUS
  <2> HIDE DEF y
  <2>11. Holds(t, l, y, n, j + 1, e, h)
    BY <2>2, <2>6, <2>7, <2>8, <2>9, <2>10 DEF Holds
  <2>12. QED
    BY <2>3, <2>11 DEF t
<1>15. CASE x \notin P
  <2> DEFINE a == q.space
             top == q.used
             z == Append(k, x)
             y == [seen |-> s, kept |-> z]
             p == q.pos + Extent(x)
             m == q.left
  <2>1. t = [space |-> a, used |-> top, pos |-> p, left |-> m, seen |-> s]
    BY <1>4, <1>13, <1>15, TurnFields DEF t
  <2>2. Stacked(a, top, v, g)
    BY <1>4
  <2>3. Walk(l, P, n)[j + 1] = y
    BY <1>3, <1>15 DEF Asked, s, k, x
  <2>4. Len(z) = Len(k) + 1
    BY <1>2, <1>6, AppendIs
  <2>5. a \in Memories /\ top \in Nat
    BY <1>4 DEF TagTurns
  <2>6. p = g[Len(z)] /\ p \in Nat /\ m \in Nat /\ m = n - Len(s)
    <3>1. p = g[i] /\ p \in Nat
      BY <1>6, <1>11, <1>12
    <3>2. i = Len(z)
      BY <2>4 DEF i
    <3>3. QED
      BY <1>4, <1>9, <3>1, <3>2
  <2>7. Joined(v, z, l, j + 1)
    BY <1>6
  <2> HIDE DEF a, top, z, p, m
  <2>8. t \in TagTurns
    BY <1>2, <2>1, <2>5, <2>6 DEF TagTurns
  <2>9. t.space = a /\ t.used = top /\ t.pos = p /\ t.left = m /\ t.seen = s
    BY <2>1
  <2>10. y.seen = s /\ y.kept = z
    OBVIOUS
  <2> HIDE DEF y
  <2>11. Holds(t, l, y, n, j + 1, v, g)
    BY <2>2, <2>6, <2>7, <2>8, <2>9, <2>10 DEF Holds
  <2>12. QED
    BY <2>3, <2>11 DEF t
<1>16. QED
  BY <1>14, <1>15

TagStart(n) == [space |-> bytes, used |-> spaceUsed, pos |-> 0, left |-> n, seen |-> <<>>]

\* What the loop leaves in the memory is what the walk along the packets keeps.
LEMMA TagLoopEnds ==
  ASSUME NEW l, NEW start, Stacked(bytes, spaceUsed, l, start), NEW P, NEW n \in Nat
  PROVE  LET end  == Tagged!Loop(P, TagStart(n))
             walk == Walk(l, P, n)[Len(l)]
         IN  end.seen = walk.seen /\ \E g : Stacked(end.space, end.used, walk.kept, g)
<1> DEFINE L == Len(l)
           W == Walk(l, P, n)
           first == TagStart(n)
           q == TagLoop(P, first)
           Now(i) == \E j \in 0 .. L : /\ \E v, g : Holds(q[i], l, W[j], n, j, v, g)
                                       /\ j = i \/ q[i].left = 0 \/ j = L
           T == {i \in Nat : i <= Room => Now(i)}
<1>1. /\ L \in Nat /\ Room \in Nat /\ L <= Room /\ l \in Seq(Packets)
      /\ bytes \in Memories /\ spaceUsed \in Nat /\ start[0] = 0
  <2>1. /\ L \in Nat /\ spaceUsed \in Nat /\ spaceUsed <= Room /\ L <= spaceUsed /\ Room \in Nat
    BY StackIs
  <2>2. l \in Seq(Packets) /\ bytes \in Memories /\ start[0] = 0
    BY DEF Stacked, Ends
  <2>3. QED
    BY <2>1, <2>2
<1>2. /\ Tagged!Loop(P, first) = q[Room] /\ q[0] = first
      /\ \A i \in 1 .. Room : q[i] = TagStep(P, q[i - 1])
  BY TagLoopIs
<1>3. \A j \in 0 .. L : Dealt(Packets, W[j], j)
  BY <1>1, WalkType
<1>4. W[0] = Start
  BY <1>1, WalkIs
<1>5. ASSUME NEW q2, NEW j \in 0 .. L - 1, NEW v, NEW g, Holds(q2, l, W[j], n, j, v, g), q2.left # 0
      PROVE  \E e, h : Holds(Tagged!Turn(P, q2), l, W[j + 1], n, j + 1, e, h)
  BY <1>1, <1>5, TagTurn
<1>6. ASSUME NEW j \in 0 .. L, ~(Len(W[j].seen) < n)
      PROVE  W[L].seen = W[j].seen /\ Joined(W[L].kept, W[j].kept, l, j)
  BY <1>1, <1>6, WalkStops
<1>7. Stacked(bytes, spaceUsed, l, start)
  OBVIOUS
<1>8. ASSUME NEW q2, NEW j \in 0 .. L, NEW v, NEW g, Holds(q2, l, W[j], n, j, v, g)
      PROVE  q2.pos >= q2.used <=> j = L
  <2> DEFINE K == Len(W[j].kept)
             M == Len(v)
  <2>1. Stacked(q2.space, q2.used, v, g) /\ q2.pos = g[K] /\ M = K + (L - j)
    BY <1>8 DEF Holds, Joined
  <2>2. K \in Nat
    <3>1. W[j].kept \in Seq(Packets)
      BY <1>3, Zenon DEF Dealt
    <3>2. QED
      BY <3>1
  <2>3. Ends(v, g) /\ g[M] = q2.used
    BY <2>1 DEF Stacked
  <2>4. \A m \in 0 .. M : g[m] \in Nat
    BY <2>1, StackIs
  <2> HIDE DEF K, M, L
  <2>5. K \in 0 .. M /\ M \in K .. M /\ M \in 0 .. M /\ M - K = L - j
    BY <1>1, <2>1, <2>2
  <2>6. g[K] + (M - K) <= g[M]
    BY <2>3, <2>5, Rising DEF M
  <2>7. g[K] \in Nat /\ g[M] \in Nat
    BY <2>4, <2>5
  <2>8. CASE j = L
    <3>1. M = K
      BY <1>1, <2>1, <2>2, <2>8
    <3>2. QED
      BY <2>1, <2>3, <2>7, <2>8, <3>1
  <2>9. CASE j # L
    <3>1. L - j >= 1 /\ L - j \in Nat
      BY <1>1, <2>9
    <3>2. QED
      BY <2>1, <2>3, <2>5, <2>6, <2>7, <2>9, <3>1
  <2>10. QED
    BY <2>8, <2>9
<1> HIDE DEF L, W, q, T
<1>9. 0 \in T
  <2>1. Holds(first, l, W[0], n, 0, l, start)
    <3>1. first \in TagTurns
      BY <1>1 DEF TagStart, TagTurns
    <3>2. /\ first.pos = 0 /\ first.used = spaceUsed /\ first.left = n /\ first.seen = <<>>
          /\ first.space = bytes
      BY DEF TagStart
    <3>3. W[0].seen = <<>> /\ W[0].kept = <<>>
      BY <1>4 DEF Start
    <3> HIDE DEF first
    <3>4. Len(<<>>) = 0 /\ n - 0 = n
      OBVIOUS
    <3>5. Joined(l, <<>>, l, 0)
      <4>1. 0 + (L - 0) = L /\ (\A i \in 1 .. L - 0 : 0 + i = i) /\ 1 .. 0 = {}
        BY <1>1
      <4>2. QED
        BY <3>4, <4>1 DEF Joined, L
    <3>6. QED
      BY <1>1, <1>7, <3>1, <3>2, <3>3, <3>4, <3>5 DEF Holds
  <2>2. 0 \in 0 .. L
    BY <1>1
  <2>3. Now(0)
    BY <1>2, <2>1, <2>2
  <2>4. QED
    BY <2>3 DEF T
<1>10. ASSUME NEW i \in Nat, i \in T PROVE i + 1 \in T
  <2> SUFFICES ASSUME i + 1 <= Room PROVE Now(i + 1)
    BY DEF T
  <2>1. i + 1 \in 1 .. Room /\ (i + 1) - 1 = i /\ i <= Room
    BY <1>1
  <2>2. Now(i)
    BY <1>10, <2>1 DEF T
  <2>3. PICK j \in 0 .. L : /\ \E v, g : Holds(q[i], l, W[j], n, j, v, g)
                            /\ j = i \/ q[i].left = 0 \/ j = L
    BY <2>2
  <2>4. q[i + 1] = TagStep(P, q[i])
    BY <1>2, <2>1
  <2>5. PICK v, g : Holds(q[i], l, W[j], n, j, v, g)
    BY <2>3
  <2>6. q[i].pos >= q[i].used <=> j = L
    BY <1>8, <2>5
  <2>7. CASE q[i].pos >= q[i].used \/ q[i].left = 0
    <3>1. q[i + 1] = q[i] /\ (q[i].left = 0 \/ j = L)
      BY <2>4, <2>6, <2>7 DEF TagStep
    <3>2. QED
      BY <2>3, <3>1
  <2>8. CASE ~(q[i].pos >= q[i].used \/ q[i].left = 0)
    <3>1. q[i + 1] = Tagged!Turn(P, q[i]) /\ j = i /\ j # L /\ q[i].left # 0
      BY <2>3, <2>4, <2>6, <2>8 DEF TagStep
    <3>2. j \in 0 .. L - 1 /\ j + 1 \in 0 .. L
      BY <1>1, <3>1
    <3>3. PICK e, h : Holds(Tagged!Turn(P, q[i]), l, W[j + 1], n, j + 1, e, h)
      BY <1>5, <2>5, <3>1, <3>2
    <3>4. Holds(q[i + 1], l, W[j + 1], n, j + 1, e, h) /\ j + 1 = i + 1
      BY <3>1, <3>3
    <3>5. QED
      BY <3>2, <3>4
  <2>9. QED
    BY <2>7, <2>8
<1>11. Now(Room)
  <2>1. Nat \subseteq T
    BY <1>9, <1>10, Induct
  <2>2. Room \in T /\ Room <= Room
    BY <1>1, <2>1
  <2> HIDE DEF Now
  <2>3. QED
    BY <2>2 DEF T
<1> DEFINE end == q[Room]
           b == W[L]
<1>12. PICK j \in 0 .. L : /\ \E v, g : Holds(end, l, W[j], n, j, v, g)
                           /\ j = Room \/ end.left = 0 \/ j = L
  BY <1>11
<1> PICK v, g : Holds(end, l, W[j], n, j, v, g)
  BY <1>12
<1>13. /\ end.seen = W[j].seen /\ end.left = n - Len(W[j].seen)
       /\ Stacked(end.space, end.used, v, g) /\ Joined(v, W[j].kept, l, j)
  BY DEF Holds
<1>14. W[j].seen \in Seq(Packets) /\ W[j].kept \in Seq(Packets)
  BY <1>3, Zenon DEF Dealt
<1>15. b.kept \in Seq(Packets)
  <2>1. L \in 0 .. L
    BY <1>1
  <2>2. Dealt(Packets, W[L], L)
    BY <1>3, <2>1
  <2>3. QED
    BY <2>2, Zenon DEF Dealt
<1>16. b.seen = W[j].seen /\ Joined(b.kept, W[j].kept, l, j)
  <2>1. CASE j = L
    <3>1. L - j = 0 /\ 1 .. (L - j) = {} /\ Len(W[j].kept) + 0 = Len(W[j].kept)
      BY <1>1, <1>14, <2>1
    <3>2. QED
      BY <2>1, <3>1 DEF Joined, L
  <2>2. CASE j # L
    <3>1. end.left = 0
      BY <1>1, <1>12, <2>2
    <3>2. Len(W[j].seen) \in Nat
      BY <1>14
    <3>3. ~(Len(W[j].seen) < n)
      BY <1>13, <3>1, <3>2
    <3>4. QED
      BY <1>6, <3>3
  <2>3. QED
    BY <2>1, <2>2
<1>17. v = b.kept
  <2>1. v \in Seq(Packets)
    BY <1>13 DEF Stacked, Ends
  <2>2. j \in 0 .. Len(l)
    BY DEF L
  <2> HIDE DEF b
  <2>3. QED
    BY <1>1, <1>13, <1>14, <1>15, <1>16, <2>1, <2>2, JoinedOnce
<1> HIDE DEF end, b
<1>18. end.seen = b.seen /\ Stacked(end.space, end.used, b.kept, g)
  BY <1>13, <1>16, <1>17
<1>19. Tagged!Loop(P, TagStart(n)) = end /\ Walk(l, P, n)[Len(l)] = b
  BY <1>2 DEF end, b, W, L
<1>20. QED
  BY <1>18, <1>19

LEMMA TagRemoves ==
  ASSUME TagInv, NEW P, NEW n \in Nat, Tagged!removeIf(P, n)
  PROVE  TagInv' /\ Tagged!Arrival!RemoveIf(P, n)
<1>1. PICK l, h : Stacked(bytes, spaceUsed, l, h)
  BY DEF TagInv
<1>2. Tagged!Contents = l
  BY <1>1, ContentsAre
<1> DEFINE end == Tagged!Loop(P, TagStart(n))
           b == Walk(l, P, n)[Len(l)]
<1>3. end.seen = b.seen /\ \E g : Stacked(end.space, end.used, b.kept, g)
  BY <1>1, TagLoopEnds
<1>4. bytes' = end.space /\ spaceUsed' = end.used /\ given' = <<"visited", end.seen>>
  BY DEF Tagged!removeIf, TagStart
<1> HIDE DEF end
<1>5. PICK g : Stacked(end.space, end.used, b.kept, g)
  BY <1>3
<1>6. Stacked(bytes', spaceUsed', b.kept, g)
  BY <1>4, <1>5
<1>7. TagInv' /\ Tagged!Contents' = b.kept
  BY <1>6, ContentsNext
<1>8. given' = <<"visited", b.seen>>
  BY <1>3, <1>4
<1>9. Tagged!Arrival!RemoveIf(P, n)
  <2>1. Tagged!Contents' = Walk(Tagged!Contents, P, n)[Len(Tagged!Contents)].kept
        /\ given' = <<"visited", Walk(Tagged!Contents, P, n)[Len(Tagged!Contents)].seen>>
    BY <1>2, <1>7, <1>8
  <2>2. QED
    BY ONLY <2>1, Zenon DEF Tagged!Arrival!RemoveIf, Walk, Walks, Asked, Start
<1>10. QED
  BY <1>7, <1>9

LEMMA TagSteps ==
  ASSUME TagInv, [Tagged!Next]_(Tagged!vars)
  PROVE  TagInv' /\ [Tagged!Arrival!Next]_(Tagged!Arrival!vars)
<1>1. PICK v, g : Stacked(bytes, spaceUsed, v, g)
  BY DEF TagInv
<1>2. /\ Tagged!Contents = v /\ spaceUsed \in Nat /\ Len(v) \in Nat
      /\ v \in Seq(Packets) /\ g[0] = 0 /\ g[Len(v)] = spaceUsed
      /\ \A i \in 1 .. Len(v) : v[i] \in Packets /\ Stored(bytes, g[i - 1], v[i])
  BY <1>1, ContentsAre, StackIs DEF Stacked, Ends
<1>3. bytes' = bytes /\ spaceUsed' = spaceUsed => TagInv' /\ Tagged!Contents' = v
  <2>1. bytes' = bytes /\ spaceUsed' = spaceUsed => Stacked(bytes', spaceUsed', v, g)
    BY <1>1
  <2>2. QED
    BY <2>1, ContentsNext
<1>4. ASSUME NEW x \in Packets, Tagged!push(x)
      PROVE  TagInv' /\ Tagged!Arrival!Next
  BY <1>4, TagPush DEF Tagged!Arrival!Next
<1>5. ASSUME NEW room \in {0, 1, 2}, Tagged!tryPop(room)
      PROVE  TagInv' /\ Tagged!Arrival!Next
  BY <1>5, TagPop DEF Tagged!Arrival!Next
<1>6. ASSUME NEW room \in {0, 1, 2}, Tagged!tryPeek(room)
      PROVE  TagInv' /\ Tagged!Arrival!Next
  <2>1. /\ spaceUsed # 0 /\ bytes' = bytes /\ spaceUsed' = spaceUsed
        /\ given' = <<"first", Tagged!Truncated(Tagged!PacketAt(Tagged!Buffer, 0), room)>>
    BY <1>6 DEF Tagged!tryPeek
  <2>2. Len(v) # 0 /\ 1 \in 1 .. Len(v) /\ 1 - 1 = 0
    BY <1>2, <2>1
  <2>3. Tagged!PacketAt(Tagged!Buffer, 0) = v[1]
    <3>1. v[1] \in Packets /\ Stored(Tagged!Buffer.space, 0, v[1]) /\ 0 \in Nat
      BY <1>2, <2>2 DEF Tagged!Buffer
    <3>2. QED
      BY <3>1, ReadsBack
  <2>4. v # <<>> /\ Head(v) = v[1]
    BY <1>2, <2>2
  <2>5. Tagged!Arrival!Peek(room)
    BY <1>2, <1>3, <2>1, <2>3, <2>4 DEF Tagged!Arrival!Peek
  <2>6. QED
    BY <1>3, <1>6, <2>1, <2>5 DEF Tagged!Arrival!Next
<1>7. ASSUME NEW P \in SUBSET Packets, NEW n \in {1, Room}, Tagged!removeIf(P, n)
      PROVE  TagInv' /\ Tagged!Arrival!Next
  <2>1. n \in Nat
    BY RoomIs
  <2>2. QED
    BY <1>7, <2>1, TagRemoves DEF Tagged!Arrival!Next, Tagged!Limits
<1>8. CASE Tagged!visitAll
  <2>1. bytes' = bytes /\ spaceUsed' = spaceUsed /\ given' = <<"visited", v>>
    BY <1>2, <1>8 DEF Tagged!visitAll
  <2>2. QED
    BY <1>2, <1>3, <2>1 DEF Tagged!Arrival!VisitAll, Tagged!Arrival!Next
<1>9. CASE Tagged!clear
  <2> DEFINE e == <<>>
             h == [m \in 0 .. 0 |-> 0]
  <2>1. bytes' = bytes /\ spaceUsed' = 0 /\ given' = <<"none">>
    BY <1>9 DEF Tagged!clear
  <2>2. bytes \in Memories
    BY <1>1 DEF Stacked
  <2>3. e \in Seq(Packets) /\ Len(e) = 0 /\ h[0] = 0 /\ h \in [0 .. 0 -> Nat] /\ 1 .. 0 = {}
    OBVIOUS
  <2> HIDE DEF e, h
  <2>4. Ends(e, h)
    BY <2>3 DEF Ends
  <2>5. Stacked(bytes', spaceUsed', e, h)
    BY <2>1, <2>2, <2>3, <2>4, RoomIs DEF Stacked
  <2>6. TagInv' /\ Tagged!Contents' = e
    BY <2>5, ContentsNext
  <2>7. QED
    BY <2>1, <2>6 DEF Tagged!Arrival!Clear, Tagged!Arrival!Next, e
<1>10. CASE UNCHANGED <<bytes, spaceUsed, given>>
  BY <1>2, <1>3, <1>10 DEF Tagged!Arrival!vars
<1>11. QED
  BY <1>4, <1>5, <1>6, <1>7, <1>8, <1>9, <1>10 DEF Tagged!Next, Tagged!vars, Tagged!Limits

LEMMA TagInvariant == Tagged!Spec => []TagInv
<1>1. TagInv /\ [Tagged!Next]_(Tagged!vars) => TagInv'
  BY TagSteps
<1>2. QED
  BY <1>1, TagInit, PTL DEF Tagged!Spec

\* The packed memory of TaggedBuffer is a list of packets: none is torn, lost or
\* reordered, whichever are removed and however often the rest has been shifted
\* under the loop; a packet is refused only when it does not fit.
THEOREM PacketListTheorem == Tagged!Spec => ImplementsPacketList
<1>1. TagInv /\ [Tagged!Next]_(Tagged!vars) => [Tagged!Arrival!Next]_(Tagged!Arrival!vars)
  BY TagSteps
<1>2. QED
  BY <1>1, TagInit, TagInvariant, PTL
  DEF Tagged!Spec, ImplementsPacketList, Tagged!ImplementsPacketList, Tagged!Arrival!Spec
=============================================================================
