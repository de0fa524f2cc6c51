------------------------- MODULE MCChannels_proofs -------------------------
(***************************************************************************)
(* What holds of both directions of the UART for every width of the        *)
(* counters: for every size of the two buffers as long as no counter runs  *)
(* over, and for the sizes that divide 2^Width also where they do.  The    *)
(* receive side needs that its counter does not run over while the main    *)
(* program is inside read() or bytesReadable() (where it does, see         *)
(* MCPicoUartChannelWrap).                                                 *)
(*                                                                         *)
(* And what holds of the message ring for every size, every set of         *)
(* messages and every reader's buffer: it is a queue of whole messages.    *)
(*                                                                         *)
(* And the queue between threads neither strands an item with everyone     *)
(* asleep nor hands one out twice or out of order, for any number of       *)
(* threads and items.  NoLostWakeup is inductive once it is known that a   *)
(* thread that was notified is not counted as waiting any more;            *)
(* EachOnceInOrder once the order is spelled out in its four parts: among  *)
(* the items taken, on the queue, between the two, and up to the count of  *)
(* the pushes.                                                             *)
(***************************************************************************)
EXTENDS MCChannels, SequenceTheorems, WellFoundedInduction, TLAPS

-----------------------------------------------------------------------------
(* Arithmetic of counters that are slots modulo a size.                     *)

LEMMA Division ==
  ASSUME NEW x \in Int, NEW n \in Nat \ {0}
  PROVE  x = n * (x \div n) + (x % n) /\ x % n \in 0 .. n - 1 /\ x \div n \in Int
OBVIOUS

LEMMA Apart ==
  ASSUME NEW n \in Nat \ {0}, NEW q \in Int, NEW p \in Int, q > p
  PROVE  n * q >= n * p + n
<1>1. n * (q - (p + 1)) >= 0
  OBVIOUS
<1>2. n * (q - (p + 1)) = n * q - n * (p + 1) /\ n * (p + 1) = n * p + n
  OBVIOUS
<1>3. n * p \in Int /\ n * q \in Int
  OBVIOUS
<1>4. QED
  BY <1>1, <1>2, <1>3

\* A multiple of the size leaves the slot as it was.
LEMMA SameSlot ==
  ASSUME NEW x \in Int, NEW n \in Nat \ {0}, NEW k \in Int
  PROVE  (x + n * k) % n = x % n
<1> DEFINE y == x + n * k
           d == x \div n
           p == y \div n
           r == x % n
           s == y % n
<1>1. y \in Int
  OBVIOUS
<1>2. x = n * d + r /\ r \in 0 .. n - 1 /\ d \in Int
  BY Division
<1> HIDE DEF y, d, p, r, s
<1>3. y = n * p + s /\ s \in 0 .. n - 1 /\ p \in Int
  BY <1>1, Division DEF p, s
<1>4. n * (d + k) = n * d + n * k
  BY <1>2
<1>5. n * (d + k) \in Int /\ n * p \in Int /\ n * d \in Int /\ n * k \in Int
  BY <1>2, <1>3
<1>6. y = n * (d + k) + r
  BY <1>2, <1>4, <1>5 DEF y
<1>7. ~(d + k > p) /\ ~(p > d + k)
  BY <1>2, <1>3, <1>5, <1>6, Apart
<1>8. d + k = p
  BY <1>2, <1>3, <1>7
<1>9. s = r
  BY <1>2, <1>3, <1>5, <1>6, <1>8
<1>10. QED
  BY <1>9 DEF y, r, s

\* Counters less than a buffer apart are different slots.
LEMMA OtherSlot ==
  ASSUME NEW n \in Nat \ {0}, NEW x \in Int, NEW y \in Int, x < y, y < x + n
  PROVE  x % n # y % n
<1> SUFFICES ASSUME x % n = y % n PROVE FALSE
  OBVIOUS
<1> DEFINE q == x \div n
           p == y \div n
           r == x % n
<1>1. x = n * q + r /\ y = n * p + r /\ r \in 0 .. n - 1 /\ p \in Int /\ q \in Int
  BY Division
<1> HIDE DEF q, p, r
<1>2. n * p \in Int /\ n * q \in Int
  BY <1>1
<1>3. ~(q > p) /\ ~(p > q)
  BY <1>1, <1>2, Apart
<1>4. QED
  BY <1>1, <1>2, <1>3

M == Uart!Modulus

LEMMA UartConstants ==
  /\ M \in Nat \ {0} /\ MaxBlock \in Nat \ {0}
  /\ RxSize \in Nat \ {0} /\ 2 * RxSize < M /\ 3 * RxSize <= M
  /\ TxSize \in Nat \ {0} /\ 2 * TxSize < M /\ 3 * TxSize <= M
<1>1. /\ Width \in Nat /\ RxSize \in Nat \ {0} /\ TxSize \in Nat \ {0}
      /\ MaxBlock \in Nat \ {0} /\ 3 * RxSize <= M /\ 3 * TxSize <= M
  BY ChannelsAssumption DEF Uart!UartAssumption, M
<1>2. M = 2 ^ Width
  BY DEF Uart!Modulus, M
<1>3. 2 ^ Width \in Int
  BY <1>1
<1> HIDE DEF M
<1>4. QED
  BY <1>1, <1>2, <1>3

LEMMA Divides ==
  ASSUME RunOver # "never"
  PROVE  M % RxSize = 0 /\ M % TxSize = 0
BY ChannelsAssumption DEF Uart!UartAssumption, M

LEMMA MinusMeans ==
  ASSUME NEW c \in 0 .. M - 1, NEW d \in 0 .. M - 1
  PROVE  Uart!Minus(c, d) = IF c >= d THEN c - d ELSE c - d + M
<1>1. M \in Nat \ {0}
  BY UartConstants
<1>2. Uart!Minus(c, d) = (c - d + M) % M
  BY DEF Uart!Minus, M
<1> HIDE DEF M
<1>3. CASE c >= d
  BY <1>1, <1>2, <1>3
<1>4. CASE c < d
  BY <1>1, <1>2, <1>4
<1>5. QED
  BY <1>1, <1>3, <1>4

LEMMA PlusMeans ==
  ASSUME NEW c \in 0 .. M - 1, NEW n \in 0 .. M
  PROVE  Uart!Plus(c, n) = IF c + n < M THEN c + n ELSE c + n - M
<1>1. M \in Nat \ {0}
  BY UartConstants
<1>2. Uart!Plus(c, n) = (c + n) % M
  BY DEF Uart!Plus, M
<1> HIDE DEF M
<1>3. CASE c + n < M
  BY <1>1, <1>2, <1>3
<1>4. CASE c + n >= M
  BY <1>1, <1>2, <1>4
<1>5. QED
  BY <1>1, <1>3, <1>4

\* Moving a counter that ran over up by twice the size keeps its slot.
LEMMA ShiftKeepsSlot ==
  ASSUME NEW x \in Int, NEW n \in Nat \ {0}, M % n = 0
  PROVE  (x - M + 2 * n) % n = x % n
<1> DEFINE q == M \div n
<1>1. M = n * q /\ q \in Int /\ M \in Nat
  BY UartConstants, Division
<1> DEFINE k == 2 - q
<1>2. n * (2 - q) = n * 2 - n * q
  BY <1>1
<1> HIDE DEF q
<1>3. x - M + 2 * n = x + n * k /\ k \in Int
  BY <1>1, <1>2
<1> HIDE DEF k
<1>4. (x + n * k) % n = x % n
  BY <1>3, SameSlot
<1>5. QED
  BY <1>3, <1>4

-----------------------------------------------------------------------------
(* The counters of both directions.                                         *)

Value == Bytes \cup {NoByte}

\* What read() has looked at, and the byte it is about to count, are in the
\* buffer.
Reading ==
  /\ pc \in {"idle", "loop", "count", "readable"}
  /\ pc # "idle" => start \in readCount .. recvCount
  /\ pc = "count" => /\ start > readCount /\ loaded = readCount
                     /\ byte = rxBuffer[readCount % RxSize]

RxInv ==
  /\ recvCount \in 0 .. M - 1 /\ readCount \in 0 .. recvCount
  /\ recvCount - readCount < RxSize
  /\ rxBuffer \in [0 .. RxSize - 1 -> Value]
  /\ Reading

TxInv ==
  /\ writeCount \in 0 .. M - 1 /\ sentCount \in 0 .. writeCount
  /\ writeCount - sentCount < TxSize
  /\ txBuffer \in [0 .. TxSize - 1 -> Value]

UartInv == ~panicked /\ RxInv /\ TxInv

LEMMA RxFill ==
  ASSUME RxInv
  PROVE  Uart!Minus(recvCount, readCount) = recvCount - readCount
<1>1. M \in Nat
  BY UartConstants
<1>2. recvCount \in 0 .. M - 1 /\ readCount \in 0 .. M - 1 /\ recvCount >= readCount
  BY <1>1 DEF RxInv
<1>3. QED
  BY <1>2, MinusMeans

LEMMA TxFill ==
  ASSUME TxInv
  PROVE  Uart!TxUsed = writeCount - sentCount
<1>1. M \in Nat
  BY UartConstants
<1>2. writeCount \in 0 .. M - 1 /\ sentCount \in 0 .. M - 1 /\ writeCount >= sentCount
  BY <1>1 DEF TxInv
<1>3. QED
  BY <1>2, MinusMeans DEF Uart!TxUsed

\* What an interrupt does to the counters and the buffer: nothing, or one byte
\* more, in the slot after the others.
LEMMA Arrival ==
  ASSUME RunOver # "anywhere", RxInv, NEW b \in Bytes, Uart!_readISR(b)
  PROVE  /\ UNCHANGED <<panicked, pc, start, left, loaded, byte, Uart!txVars>>
         /\ rxLast' = <<"put", <<b>>>>
         /\ \/ /\ recvCount - readCount = RxSize - 1
               /\ UNCHANGED <<rxBuffer, recvCount, readCount>>
            \/ /\ recvCount - readCount < RxSize - 1
               /\ rxBuffer' = [rxBuffer EXCEPT ![recvCount % RxSize] = b]
               /\ \/ /\ recvCount + 1 < M
                     /\ recvCount' = recvCount + 1 /\ readCount' = readCount
                  \/ /\ recvCount = M - 1 /\ pc = "idle" /\ RunOver # "never"
                     /\ recvCount' = recvCount + 1 - M + 2 * RxSize
                     /\ readCount' = readCount - M + 2 * RxSize
<1>1. M \in Nat \ {0} /\ RxSize \in Nat \ {0} /\ 2 * RxSize < M
  BY UartConstants
<1>2. /\ recvCount \in 0 .. M - 1 /\ readCount \in 0 .. M - 1
      /\ readCount <= recvCount /\ recvCount - readCount < RxSize
  BY <1>1 DEF RxInv
<1>3. Uart!Minus(recvCount, readCount) = recvCount - readCount
  BY RxFill
<1>4. Uart!RxFull <=> recvCount - readCount = RxSize - 1
  BY <1>3 DEF Uart!RxFull
<1>5. UNCHANGED <<pc, start, left, loaded, byte, Uart!txVars>>
  BY DEF Uart!_readISR
<1>6. Uart!MayWrap => (pc = "idle" /\ RunOver # "never") \/ recvCount # M - 1
  BY DEF Uart!MayWrap, M
<1>7. Uart!Plus(recvCount, 1) = 0 <=> recvCount = M - 1
  BY <1>1, <1>2, PlusMeans
<1>8. recvCount = M - 1 => Uart!Plus(readCount, 2 * RxSize) = readCount - M + 2 * RxSize
  BY <1>1, <1>2, PlusMeans
<1>9. ~(recvCount - readCount >= RxSize)
  BY <1>1, <1>2
<1>10. CASE Uart!RxFull
  <2>1. UNCHANGED <<rxBuffer, recvCount, readCount, panicked>> /\ rxLast' = <<"put", <<b>>>>
    BY <1>3, <1>9, <1>10 DEF Uart!_readISR
  <2>2. QED
    BY <1>4, <1>5, <1>10, <2>1
<1>11. CASE ~Uart!RxFull
  <2>1. /\ rxBuffer' = [rxBuffer EXCEPT ![recvCount % RxSize] = b]
        /\ IF Uart!Plus(recvCount, 1) = 0
             THEN /\ recvCount' = 2 * RxSize
                  /\ readCount' = Uart!Plus(readCount, 2 * RxSize)
             ELSE recvCount' = recvCount + 1 /\ UNCHANGED readCount
        /\ rxLast' = <<"put", <<b>>>> /\ UNCHANGED panicked /\ Uart!MayWrap
    BY <1>3, <1>9, <1>11 DEF Uart!_readISR
  <2>2. recvCount - readCount < RxSize - 1
    BY <1>1, <1>2, <1>4, <1>11
  <2>3. CASE recvCount = M - 1
    <3>1. recvCount' = recvCount + 1 - M + 2 * RxSize
      BY <1>1, <1>7, <2>1, <2>3
    <3>2. QED
      BY <1>1, <1>5, <1>6, <1>7, <1>8, <2>1, <2>2, <2>3, <3>1
  <2>4. CASE recvCount # M - 1
    <3>1. recvCount + 1 < M
      BY <1>1, <1>2, <2>4
    <3>2. QED
      BY <1>5, <1>7, <2>1, <2>2, <2>4, <3>1
  <2>5. QED
    BY <2>3, <2>4
<1>12. QED
  BY <1>10, <1>11

LEMMA ArrivalKeeps ==
  ASSUME RunOver # "anywhere", RxInv, NEW b \in Bytes, Uart!_readISR(b)
  PROVE  RxInv'
<1>1. M \in Nat \ {0} /\ RxSize \in Nat \ {0} /\ 2 * RxSize < M /\ 3 * RxSize <= M
  BY UartConstants
<1>2. /\ recvCount \in 0 .. M - 1 /\ readCount \in 0 .. M - 1
      /\ readCount <= recvCount /\ recvCount - readCount < RxSize
      /\ rxBuffer \in [0 .. RxSize - 1 -> Value] /\ Reading
  BY <1>1 DEF RxInv
<1>3. /\ UNCHANGED <<pc, start, left, loaded, byte>>
      /\ \/ UNCHANGED <<rxBuffer, recvCount, readCount>>
         \/ /\ recvCount - readCount < RxSize - 1
            /\ rxBuffer' = [rxBuffer EXCEPT ![recvCount % RxSize] = b]
            /\ \/ /\ recvCount + 1 < M
                  /\ recvCount' = recvCount + 1 /\ readCount' = readCount
               \/ /\ recvCount = M - 1 /\ pc = "idle"
                  /\ recvCount' = recvCount + 1 - M + 2 * RxSize
                  /\ readCount' = readCount - M + 2 * RxSize
  BY Arrival
<1>4. CASE UNCHANGED <<rxBuffer, recvCount, readCount>>
  BY <1>3, <1>4 DEF RxInv, Reading
<1>5. ASSUME recvCount - readCount < RxSize - 1,
             rxBuffer' = [rxBuffer EXCEPT ![recvCount % RxSize] = b]
      PROVE  /\ rxBuffer' \in [0 .. RxSize - 1 -> Value]
             /\ recvCount > readCount
                  => rxBuffer'[readCount % RxSize] = rxBuffer[readCount % RxSize]
  <2>1. b \in Value /\ readCount % RxSize \in 0 .. RxSize - 1
    BY <1>1, <1>2, Division DEF Value
  <2>2. /\ readCount \in Int /\ recvCount \in Int /\ recvCount < readCount + RxSize
        /\ recvCount > readCount <=> readCount < recvCount
    BY <1>1, <1>2
  <2>3. recvCount > readCount => readCount % RxSize # recvCount % RxSize
    BY <1>1, <2>2, OtherSlot
  <2>4. QED
    BY <1>2, <1>5, <2>1, <2>3
<1>6. CASE /\ recvCount - readCount < RxSize - 1
           /\ rxBuffer' = [rxBuffer EXCEPT ![recvCount % RxSize] = b]
           /\ recvCount + 1 < M
           /\ recvCount' = recvCount + 1 /\ readCount' = readCount
  <2>1. recvCount' \in 0 .. M - 1 /\ readCount' \in 0 .. recvCount' /\ recvCount' - readCount' < RxSize
    BY <1>1, <1>2, <1>6
  <2>2. start' \in readCount .. recvCount => start' \in readCount' .. recvCount'
    BY <1>2, <1>6
  <2>3. pc = "count" => recvCount > readCount
    BY <1>2 DEF Reading
  <2>4. Reading'
    BY <1>2, <1>3, <1>5, <1>6, <2>2, <2>3 DEF Reading
  <2>5. QED
    BY <1>5, <1>6, <2>1, <2>4 DEF RxInv
<1>7. CASE /\ recvCount - readCount < RxSize - 1
           /\ rxBuffer' = [rxBuffer EXCEPT ![recvCount % RxSize] = b]
           /\ recvCount = M - 1 /\ pc = "idle"
           /\ recvCount' = recvCount + 1 - M + 2 * RxSize
           /\ readCount' = readCount - M + 2 * RxSize
  <2>1. recvCount' \in 0 .. M - 1 /\ readCount' \in 0 .. recvCount' /\ recvCount' - readCount' < RxSize
    BY <1>1, <1>2, <1>7
  <2>2. Reading'
    BY <1>3, <1>7 DEF Reading
  <2>3. QED
    BY <1>5, <1>7, <2>1, <2>2 DEF RxInv
<1>8. QED
  BY <1>3, <1>4, <1>6, <1>7

\* read() and bytesReadable() find nothing wrong, and take one byte at a time.
LEMMA ReadKeeps ==
  ASSUME RxInv, Uart!read \/ Uart!bytesReadable
  PROVE  RxInv' /\ (panicked' => panicked) /\ UNCHANGED Uart!txVars
<1>1. M \in Nat \ {0} /\ RxSize \in Nat \ {0} /\ 2 * RxSize < M
  BY UartConstants
<1>2. /\ recvCount \in 0 .. M - 1 /\ readCount \in 0 .. M - 1
      /\ readCount <= recvCount /\ recvCount - readCount < RxSize
      /\ rxBuffer \in [0 .. RxSize - 1 -> Value] /\ Reading
  BY <1>1 DEF RxInv
<1>3. ASSUME NEW cap, Uart!read_begin(cap)
      PROVE  RxInv' /\ (panicked' => panicked) /\ UNCHANGED Uart!txVars
  BY <1>2, <1>3 DEF Uart!read_begin, RxInv, Reading
<1>4. CASE Uart!read_copy
  BY <1>2, <1>4 DEF Uart!read_copy, RxInv, Reading
<1>5. CASE Uart!read_count
  <2>1. start \in readCount .. recvCount /\ start > readCount /\ loaded = readCount
    BY <1>2, <1>5 DEF Uart!read_count, Reading
  <2>2. Uart!Plus(loaded, 1) # 0
    <3>1. loaded \in 0 .. M - 1 /\ 1 \in 0 .. M /\ loaded + 1 < M /\ loaded + 1 # 0
      BY <1>1, <1>2, <2>1
    <3>2. QED
      BY <3>1, PlusMeans
  <2>3. readCount' = readCount + 1 /\ UNCHANGED <<recvCount, rxBuffer, start, panicked, Uart!txVars>>
        /\ pc' = "loop"
    BY <1>5, <2>1, <2>2 DEF Uart!read_count
  <2>4. start' \in readCount' .. recvCount' /\ readCount' \in 0 .. recvCount' /\ recvCount' - readCount' < RxSize
    BY <1>1, <1>2, <2>1, <2>3
  <2>5. QED
    BY <1>2, <2>3, <2>4 DEF RxInv, Reading
<1>6. CASE Uart!read_end
  BY <1>2, <1>6 DEF Uart!read_end, RxInv, Reading
<1>7. CASE Uart!bytesReadable_load
  BY <1>2, <1>7 DEF Uart!bytesReadable_load, RxInv, Reading
<1>8. CASE Uart!bytesReadable_check
  <2>1. start \in 0 .. M - 1 /\ start >= readCount /\ start - readCount < RxSize
    BY <1>1, <1>2, <1>8 DEF Uart!bytesReadable_check, Reading
  <2>2. ~(Uart!Minus(start, readCount) >= RxSize)
    BY <1>1, <1>2, <2>1, MinusMeans
  <2>3. ~panicked'
    BY <1>8, <2>2 DEF Uart!bytesReadable_check
  <2>4. QED
    BY <1>2, <1>8, <2>3 DEF Uart!bytesReadable_check, RxInv, Reading
<1>9. QED
  BY <1>3, <1>4, <1>5, <1>6, <1>7, <1>8 DEF Uart!read, Uart!bytesReadable

\* The counter has room for n more, or may run over.
MayMove(c, n) == c + n < M \/ RunOver # "never"

\* What n more bytes make of a counter, and of the other one.
LEMMA LaterMeans ==
  ASSUME NEW c \in 0 .. M - 1, NEW n \in 0 .. TxSize, MayMove(c, n)
  PROVE  /\ Uart!Later(c, n) = IF c + n < M THEN c + n ELSE c + n - M + 2 * TxSize
         /\ Uart!Later(c, n) % TxSize = (c + n) % TxSize
<1>1. M \in Nat \ {0} /\ TxSize \in Nat \ {0} /\ 2 * TxSize < M /\ 3 * TxSize <= M
  BY UartConstants
<1>2. CASE c + n < M
  <2>1. Uart!Shift(c, n) = 0 /\ n + 0 = n /\ n \in 0 .. M
    BY <1>1, <1>2 DEF Uart!Shift, M
  <2>2. Uart!Later(c, n) = Uart!Plus(c, n)
    BY <2>1 DEF Uart!Later
  <2>3. Uart!Later(c, n) = c + n
    BY <1>2, <2>1, <2>2, PlusMeans
  <2>4. QED
    BY <1>2, <2>3
<1>3. CASE ~(c + n < M)
  <2>1. Uart!Shift(c, n) = 2 * TxSize
    BY <1>3 DEF Uart!Shift, M
  <2>2. Uart!Later(c, n) = Uart!Plus(c, n + 2 * TxSize)
    BY <2>1 DEF Uart!Later
  <2>3. n + 2 * TxSize \in 0 .. M /\ ~(c + (n + 2 * TxSize) < M)
    BY <1>1, <1>3
  <2>4. Uart!Later(c, n) = c + (n + 2 * TxSize) - M
    BY <2>2, <2>3, PlusMeans
  <2>5. Uart!Later(c, n) = (c + n) - M + 2 * TxSize
    BY <1>1, <2>4
  <2>6. c + n \in Int
    BY <1>1
  <2>7. ((c + n) - M + 2 * TxSize) % TxSize = (c + n) % TxSize
    <3>1. M % TxSize = 0
      BY <1>3, Divides DEF MayMove
    <3>2. QED
      BY <1>1, <2>6, <3>1, ShiftKeepsSlot
  <2>8. Uart!Later(c, n) % TxSize = (c + n) % TxSize
    BY <2>5, <2>7, Zenon
  <2>9. QED
    BY <1>1, <1>3, <2>5, <2>8
<1>4. QED
  BY <1>2, <1>3

\* The bytes that a call of write() takes.
Taken(block) == Uart!Min({Len(block), TxSize - Uart!TxUsed - 1})

LEMMA TakenMeans ==
  ASSUME TxInv, NEW n \in Nat
  PROVE  LET free == TxSize - Uart!TxUsed - 1
         IN  /\ free = TxSize - 1 - (writeCount - sentCount) /\ free \in Nat
             /\ Uart!Min({n, free}) = IF n <= free THEN n ELSE free
<1> DEFINE free == TxSize - Uart!TxUsed - 1
<1>1. TxSize \in Nat \ {0} /\ M \in Nat
  BY UartConstants
<1>2. free = TxSize - 1 - (writeCount - sentCount) /\ free \in Nat
  BY <1>1, TxFill DEF TxInv
<1> HIDE DEF free
<1>3. Uart!Min({n, free}) \in {n, free} /\ Uart!Min({n, free}) <= n /\ Uart!Min({n, free}) <= free
  <2>1. \E x \in {n, free} : \A y \in {n, free} : x <= y
    BY <1>2
  <2>2. QED
    BY <2>1 DEF Uart!Min
<1>4. QED
  BY <1>2, <1>3 DEF free

\* The bytes of a block of n that go into slot i.
Onto(n, i) == {k \in 1 .. n : (writeCount + (k - 1)) % TxSize = i}

\* What write() does to the counters and the buffer: n bytes more, in the
\* slots after the others.
LEMMA Writing ==
  ASSUME TxInv, NEW block \in Seq(Bytes), Uart!write(block)
  PROVE  LET n == Taken(block) IN
           /\ UNCHANGED <<panicked, Uart!rxVars>>
           /\ txLast' = <<"put", block>>
           /\ n \in Nat /\ n <= Len(block) /\ writeCount - sentCount + n < TxSize
           /\ n = Len(block) \/ n = TxSize - 1 - (writeCount - sentCount)
           /\ \A i \in 0 .. TxSize - 1 :
                txBuffer'[i] = IF Onto(n, i) = {} THEN txBuffer[i]
                               ELSE block[Uart!Max(Onto(n, i))]
           /\ txBuffer' = [i \in 0 .. TxSize - 1 |-> txBuffer'[i]]
           /\ \/ /\ writeCount + n < M
                 /\ writeCount' = writeCount + n /\ sentCount' = sentCount
              \/ /\ writeCount + n >= M /\ RunOver # "never"
                 /\ writeCount' = writeCount + n - M + 2 * TxSize
                 /\ sentCount' = sentCount - M + 2 * TxSize
<1> DEFINE n == Taken(block)
<1>1. M \in Nat \ {0} /\ TxSize \in Nat \ {0} /\ 2 * TxSize < M
  BY UartConstants
<1>2. /\ writeCount \in 0 .. M - 1 /\ sentCount \in 0 .. M - 1
      /\ sentCount <= writeCount /\ writeCount - sentCount < TxSize
  BY <1>1 DEF TxInv
<1>3. Len(block) \in Nat
  OBVIOUS
<1>4. /\ n \in Nat /\ n <= Len(block) /\ writeCount - sentCount + n < TxSize
      /\ n = Len(block) \/ n = TxSize - 1 - (writeCount - sentCount)
  BY <1>1, <1>2, <1>3, TakenMeans DEF Taken
<1> HIDE DEF n
<1>5. ~Uart!TxInsane
  BY <1>1, <1>2, TxFill DEF Uart!TxInsane
<1>6. /\ txBuffer' = Uart!Written(block, n)
      /\ writeCount' = Uart!Later(writeCount, n)
      /\ sentCount' = Uart!Carried(sentCount, writeCount, n)
      /\ txLast' = <<"put", block>>
      /\ UNCHANGED <<panicked, Uart!rxVars>>
      /\ RunOver # "never" \/ writeCount + n < M
  BY <1>5 DEF Uart!write, n, Taken, M
<1>7. /\ writeCount + n < M => writeCount' = writeCount + n
      /\ ~(writeCount + n < M) => writeCount' = writeCount + n - M + 2 * TxSize
  <2>1. n \in 0 .. TxSize
    BY <1>1, <1>2, <1>4
  <2>2. Uart!Later(writeCount, n)
          = IF writeCount + n < M THEN writeCount + n ELSE writeCount + n - M + 2 * TxSize
    BY <1>2, <1>6, <2>1, LaterMeans DEF MayMove
  <2>3. QED
    BY <1>6, <2>2
<1>8. writeCount + n < M => sentCount' = sentCount
  <2> SUFFICES ASSUME writeCount + n < M PROVE sentCount' = sentCount
    OBVIOUS
  <2>1. Uart!Shift(writeCount, n) = 0
    BY DEF Uart!Shift, M
  <2>2. sentCount' = Uart!Plus(sentCount, 0)
    BY <1>6, <2>1 DEF Uart!Carried
  <2>3. QED
    BY <1>1, <1>2, <2>2, PlusMeans
<1>9. writeCount + n >= M => sentCount' = sentCount - M + 2 * TxSize
  <2> SUFFICES ASSUME writeCount + n >= M PROVE sentCount' = sentCount - M + 2 * TxSize
    OBVIOUS
  <2>1. Uart!Shift(writeCount, n) = 2 * TxSize
    BY <1>1, <1>2, <1>4 DEF Uart!Shift, M
  <2>2. sentCount' = Uart!Plus(sentCount, 2 * TxSize)
    BY <1>6, <2>1 DEF Uart!Carried
  <2>3. 2 * TxSize \in 0 .. M /\ ~(sentCount + 2 * TxSize < M)
    BY <1>1, <1>2, <1>4
  <2>4. QED
    BY <1>1, <1>2, <2>2, <2>3, PlusMeans
<1>10. ASSUME NEW i \in 0 .. TxSize - 1
       PROVE  txBuffer'[i] = IF Onto(n, i) = {} THEN txBuffer[i]
                             ELSE block[Uart!Max(Onto(n, i))]
  <2>1. \A k \in 1 .. n : Uart!Later(writeCount, k - 1) % TxSize = (writeCount + (k - 1)) % TxSize
    <3> TAKE k \in 1 .. n
    <3>1. k - 1 \in 0 .. TxSize /\ (writeCount + n < M => writeCount + (k - 1) < M)
      BY <1>1, <1>2, <1>4
    <3>2. QED
      BY <1>2, <1>6, <3>1, LaterMeans DEF MayMove
  <2>2. {k \in 1 .. n : Uart!Later(writeCount, k - 1) % TxSize = i} = Onto(n, i)
    BY <2>1 DEF Onto
  <2>3. QED
    BY <1>6, <2>2 DEF Uart!Written
<1>11. txBuffer' = [i \in 0 .. TxSize - 1 |-> txBuffer'[i]]
  BY <1>6 DEF Uart!Written
<1>12. writeCount + n < M \/ writeCount + n >= M
  BY <1>1, <1>2, <1>4
<1>13. QED
  BY <1>1, <1>2, <1>4, <1>6, <1>7, <1>8, <1>9, <1>10, <1>11, <1>12 DEF n

\* A slot takes at most one byte of a block that fits.
LEMMA OneByteEach ==
  ASSUME NEW n \in Nat, n < TxSize, writeCount \in Int, NEW i, NEW k \in Onto(n, i)
  PROVE  Uart!Max(Onto(n, i)) = k
<1>1. TxSize \in Nat \ {0}
  BY UartConstants
<1>2. ASSUME NEW j \in Onto(n, i) PROVE j = k
  <2>1. /\ k \in 1 .. n /\ j \in 1 .. n
        /\ (writeCount + (k - 1)) % TxSize = (writeCount + (j - 1)) % TxSize
    BY DEF Onto
  <2>2. ~(j < k)
    <3> SUFFICES ASSUME j < k PROVE FALSE
      OBVIOUS
    <3>1. /\ writeCount + (j - 1) \in Int /\ writeCount + (k - 1) \in Int
          /\ writeCount + (j - 1) < writeCount + (k - 1)
          /\ writeCount + (k - 1) < writeCount + (j - 1) + TxSize
      BY <1>1, <2>1
    <3>2. QED
      BY <1>1, <2>1, <3>1, OtherSlot
  <2>3. ~(k < j)
    <3> SUFFICES ASSUME k < j PROVE FALSE
      OBVIOUS
    <3>1. /\ writeCount + (j - 1) \in Int /\ writeCount + (k - 1) \in Int
          /\ writeCount + (k - 1) < writeCount + (j - 1)
          /\ writeCount + (j - 1) < writeCount + (k - 1) + TxSize
      BY <1>1, <2>1
    <3>2. QED
      BY <1>1, <2>1, <3>1, OtherSlot
  <2>4. QED
    BY <2>1, <2>2, <2>3
<1>3. Onto(n, i) = {k} /\ k \in Int
  <2>1. k \in 1 .. n
    BY DEF Onto
  <2>2. Onto(n, i) = {k}
    BY <1>2, Zenon
  <2>3. QED
    BY ONLY <2>1, <2>2, n \in Nat
<1>4. Uart!Max({k}) = k
  BY <1>3 DEF Uart!Max
<1>5. QED
  BY <1>3, <1>4

\* The bytes that were waiting stay, and those of the block come behind them.
LEMMA Waiting ==
  ASSUME TxInv, NEW block \in Seq(Bytes), Uart!write(block),
         NEW i \in 1 .. writeCount - sentCount + Taken(block)
  PROVE  txBuffer'[(sentCount + (i - 1)) % TxSize]
           = IF i <= writeCount - sentCount THEN txBuffer[(sentCount + (i - 1)) % TxSize]
             ELSE block[i - (writeCount - sentCount)]
<1> DEFINE n == Taken(block)
           j == (sentCount + (i - 1)) % TxSize
<1>1. M \in Nat \ {0} /\ TxSize \in Nat \ {0}
  BY UartConstants
<1>2. /\ writeCount \in Int /\ sentCount \in Int
      /\ sentCount <= writeCount /\ writeCount - sentCount < TxSize
  BY <1>1 DEF TxInv
<1>3. n \in Nat /\ n < TxSize /\ writeCount - sentCount + n < TxSize
  <2>1. n \in Nat /\ writeCount - sentCount + n < TxSize
    BY Writing
  <2>2. QED
    BY <1>1, <1>2, <2>1
<1>4. i \in 1 .. writeCount - sentCount + n
  OBVIOUS
<1>5. \A h \in 0 .. TxSize - 1 :
        txBuffer'[h] = IF Onto(n, h) = {} THEN txBuffer[h] ELSE block[Uart!Max(Onto(n, h))]
  BY Writing
<1> HIDE DEF n
<1>6. sentCount + (i - 1) \in Int
  BY <1>2, <1>3, <1>4
<1>7. j \in 0 .. TxSize - 1
  BY <1>1, <1>6, Division
<1>8. CASE i <= writeCount - sentCount
  <2>1. ASSUME NEW k \in Onto(n, j) PROVE FALSE
    <3>1. k \in 1 .. n /\ (writeCount + (k - 1)) % TxSize = (sentCount + (i - 1)) % TxSize
      BY DEF Onto
    <3>2. /\ writeCount + (k - 1) \in Int
          /\ sentCount + (i - 1) < writeCount + (k - 1)
          /\ writeCount + (k - 1) < sentCount + (i - 1) + TxSize
      BY <1>1, <1>2, <1>3, <1>4, <1>8, <3>1
    <3>3. QED
      BY <1>1, <1>6, <3>1, <3>2, OtherSlot
  <2>2. QED
    BY <1>5, <1>7, <1>8, <2>1
<1>9. CASE i > writeCount - sentCount
  <2> DEFINE k == i - (writeCount - sentCount)
  <2>1. k \in 1 .. n /\ writeCount + (k - 1) = sentCount + (i - 1)
    BY <1>2, <1>3, <1>4, <1>9
  <2>2. k \in Onto(n, j)
    BY <2>1 DEF Onto
  <2>3. Uart!Max(Onto(n, j)) = k
    BY <1>2, <1>3, <2>2, OneByteEach
  <2>4. QED
    BY <1>2, <1>4, <1>5, <1>7, <1>9, <2>2, <2>3
<1>10. QED
  BY <1>2, <1>4, <1>8, <1>9

LEMMA WritingKeeps ==
  ASSUME TxInv, NEW block \in Seq(Bytes), Uart!write(block)
  PROVE  TxInv'
<1> DEFINE n == Taken(block)
<1>1. M \in Nat \ {0} /\ TxSize \in Nat \ {0} /\ 2 * TxSize < M /\ 3 * TxSize <= M
  BY UartConstants
<1>2. /\ writeCount \in 0 .. M - 1 /\ sentCount \in 0 .. M - 1
      /\ sentCount <= writeCount /\ writeCount - sentCount < TxSize
      /\ txBuffer \in [0 .. TxSize - 1 -> Value]
  BY <1>1 DEF TxInv
<1>3. /\ n \in Nat /\ n <= Len(block) /\ writeCount - sentCount + n < TxSize
      /\ \A i \in 0 .. TxSize - 1 :
           txBuffer'[i] = IF Onto(n, i) = {} THEN txBuffer[i] ELSE block[Uart!Max(Onto(n, i))]
      /\ txBuffer' = [i \in 0 .. TxSize - 1 |-> txBuffer'[i]]
      /\ \/ /\ writeCount + n < M
            /\ writeCount' = writeCount + n /\ sentCount' = sentCount
         \/ /\ writeCount + n >= M
            /\ writeCount' = writeCount + n - M + 2 * TxSize
            /\ sentCount' = sentCount - M + 2 * TxSize
  BY Writing
<1> HIDE DEF n
<1>4. n < TxSize
  BY <1>1, <1>2, <1>3
<1>5. ASSUME NEW i \in 0 .. TxSize - 1 PROVE txBuffer'[i] \in Value
  <2>1. CASE Onto(n, i) = {}
    BY <1>2, <1>3, <2>1
  <2>2. CASE Onto(n, i) # {}
    <3>1. PICK k \in Onto(n, i) : TRUE
      BY <2>2
    <3>2. k \in 1 .. Len(block)
      BY <1>3 DEF Onto
    <3>3. Uart!Max(Onto(n, i)) = k
      BY <1>2, <1>3, <1>4, OneByteEach
    <3>4. QED
      BY <1>3, <2>2, <3>2, <3>3 DEF Value
  <2>3. QED
    BY <2>1, <2>2
<1>6. txBuffer' \in [0 .. TxSize - 1 -> Value]
  BY <1>3, <1>5
<1>7. writeCount' \in 0 .. M - 1 /\ sentCount' \in 0 .. writeCount' /\ writeCount' - sentCount' < TxSize
  <2>1. CASE writeCount + n < M /\ writeCount' = writeCount + n /\ sentCount' = sentCount
    <3>1. n \in Nat /\ writeCount - sentCount + n < TxSize
      BY ONLY <1>3
    <3>2. QED
      BY ONLY <1>1, <1>2, <2>1, <3>1
  <2>2. CASE /\ writeCount + n >= M
             /\ writeCount' = writeCount + n - M + 2 * TxSize
             /\ sentCount' = sentCount - M + 2 * TxSize
    <3>1. n \in Nat /\ writeCount - sentCount + n < TxSize
      BY <1>3
    <3>2. sentCount > M - TxSize /\ writeCount + n < M + TxSize
      BY <1>1, <1>2, <1>4, <2>2, <3>1
    <3>3. QED
      BY <1>1, <1>2, <2>2, <3>1, <3>2
  <2>3. QED
    BY <1>3, <2>1, <2>2
<1>8. QED
  BY <1>6, <1>7 DEF TxInv

\* What run() does: the first n of the bytes waiting go out, and no counter
\* runs over, for the one that moves stays behind the other.
LEMMA Sending ==
  ASSUME TxInv, Uart!run
  PROVE  \E n \in 1 .. writeCount - sentCount :
           /\ UNCHANGED <<panicked, txBuffer, writeCount, Uart!rxVars>>
           /\ sentCount' = sentCount + n
           /\ txLast' = <<"take", [k \in 1 .. n |-> txBuffer[(sentCount + (k - 1)) % TxSize]]>>
<1>1. M \in Nat \ {0} /\ TxSize \in Nat \ {0} /\ 2 * TxSize < M
  BY UartConstants
<1>2. /\ writeCount \in 0 .. M - 1 /\ sentCount \in 0 .. M - 1
      /\ sentCount <= writeCount /\ writeCount - sentCount < TxSize
  BY <1>1 DEF TxInv
<1>3. ~(writeCount < sentCount)
  BY <1>1, <1>2
<1>4. PICK n \in 1 .. writeCount - sentCount :
        /\ sentCount' = Uart!Later(sentCount, n)
        /\ writeCount' = Uart!Carried(writeCount, sentCount, n)
        /\ txLast' = <<"take", Uart!Sent(n)>>
        /\ UNCHANGED <<txBuffer, Uart!rxVars, panicked>>
  BY <1>3, TxFill DEF Uart!run
<1>5. n \in 0 .. TxSize /\ sentCount + n < M
  BY <1>1, <1>2
<1>6. sentCount' = sentCount + n
  BY <1>2, <1>4, <1>5, LaterMeans DEF MayMove
<1>7. writeCount' = writeCount
  <2>1. Uart!Shift(sentCount, n) = 0
    BY <1>5 DEF Uart!Shift, M
  <2>2. writeCount' = Uart!Plus(writeCount, 0)
    BY <1>4, <2>1 DEF Uart!Carried
  <2>3. QED
    BY <1>1, <1>2, <2>2, PlusMeans
<1>8. Uart!Sent(n) = [k \in 1 .. n |-> txBuffer[(sentCount + (k - 1)) % TxSize]]
  <2>1. ASSUME NEW k \in 1 .. n
        PROVE  Uart!Later(sentCount, k - 1) % TxSize = (sentCount + (k - 1)) % TxSize
    <3>1. k - 1 \in 0 .. TxSize /\ sentCount + (k - 1) < M
      BY <1>1, <1>2, <1>5
    <3>2. QED
      BY <1>2, <3>1, LaterMeans DEF MayMove
  <2>2. QED
    BY <2>1 DEF Uart!Sent
<1>9. QED
  BY <1>4, <1>6, <1>7, <1>8

LEMMA SendingKeeps ==
  ASSUME TxInv, Uart!run
  PROVE  TxInv'
<1>1. M \in Nat \ {0} /\ TxSize \in Nat \ {0}
  BY UartConstants
<1>2. PICK n \in 1 .. writeCount - sentCount :
           UNCHANGED <<txBuffer, writeCount>> /\ sentCount' = sentCount + n
  BY Sending
<1>3. QED
  BY <1>1, <1>2 DEF TxInv

\* Every step of the channel is one of the four that were looked at.
LEMMA UartSteps ==
  ASSUME Uart!Next
  PROVE  /\ ~panicked
         /\ \/ \E b \in Bytes : Uart!_readISR(b)
            \/ Uart!read \/ Uart!bytesReadable
            \/ (\E block \in Seq(Bytes) :
                  Len(block) \in 1 .. MaxBlock /\ Uart!write(block))
            \/ Uart!run
<1>1. ASSUME NEW block \in Uart!Blocks PROVE block \in Seq(Bytes) /\ Len(block) \in 1 .. MaxBlock
  <2>1. PICK n \in 1 .. MaxBlock : block \in [1 .. n -> Bytes]
    BY DEF Uart!Blocks
  <2>2. QED
    BY <2>1, UartConstants
<1>2. QED
  BY <1>1 DEF Uart!Next, Uart!Receive, Uart!Transmit

LEMMA UartInvInit == Uart!Init => UartInv
<1> SUFFICES ASSUME Uart!Init PROVE UartInv
  OBVIOUS
<1>1. M \in Nat \ {0} /\ RxSize \in Nat \ {0} /\ TxSize \in Nat \ {0}
  BY UartConstants
<1>2. RxInv
  BY <1>1 DEF Uart!Init, RxInv, Reading, Value
<1>3. TxInv
  BY <1>1 DEF Uart!Init, TxInv, Value
<1>4. QED
  BY <1>2, <1>3 DEF Uart!Init, UartInv

LEMMA UartInvStep ==
  ASSUME RunOver # "anywhere", UartInv, [Uart!Next]_(Uart!vars)
  PROVE  UartInv'
<1>1. ~panicked /\ RxInv /\ TxInv
  BY DEF UartInv
<1>2. ASSUME UNCHANGED Uart!txVars PROVE TxInv'
  BY <1>1, <1>2 DEF Uart!txVars, TxInv
<1>3. ASSUME UNCHANGED Uart!rxVars PROVE RxInv'
  BY <1>1, <1>3 DEF Uart!rxVars, RxInv, Reading
<1>4. ASSUME NEW b \in Bytes, Uart!_readISR(b) PROVE UartInv'
  <2>1. RxInv' /\ ~panicked' /\ UNCHANGED Uart!txVars
    BY <1>1, <1>4, Arrival, ArrivalKeeps
  <2>2. QED
    BY <1>2, <2>1 DEF UartInv
<1>5. CASE Uart!read \/ Uart!bytesReadable
  <2>1. RxInv' /\ (panicked' => panicked) /\ UNCHANGED Uart!txVars
    BY <1>1, <1>5, ReadKeeps
  <2>2. QED
    BY <1>1, <1>2, <2>1 DEF UartInv
<1>6. ASSUME NEW block \in Seq(Bytes), Uart!write(block) PROVE UartInv'
  <2>1. TxInv' /\ UNCHANGED <<panicked, Uart!rxVars>>
    BY <1>1, <1>6, Writing, WritingKeeps
  <2>2. QED
    BY <1>1, <1>3, <2>1 DEF UartInv
<1>7. CASE Uart!run
  <2>1. TxInv' /\ UNCHANGED <<panicked, Uart!rxVars>>
    BY <1>1, <1>7, Sending, SendingKeeps
  <2>2. QED
    BY <1>1, <1>3, <2>1 DEF UartInv
<1>8. CASE UNCHANGED Uart!vars
  <2>1. UNCHANGED <<Uart!rxVars, Uart!txVars, panicked>>
    BY <1>8 DEF Uart!vars
  <2>2. QED
    BY <1>1, <1>2, <1>3, <2>1 DEF UartInv
<1>9. QED
  BY <1>4, <1>5, <1>6, <1>7, <1>8, UartSteps

LEMMA UartInvHolds ==
  ASSUME RunOver # "anywhere"
  PROVE  Uart!Spec => []UartInv
BY UartInvInit, UartInvStep, PTL DEF Uart!Spec

\* No sanity check of the channel fails (the panic(LOGIC_ERROR) of
\* bytesReadable(), write(), run() and _readISR()), for every width of the
\* counters: for every size of the buffers before a counter runs over, and for
\* sizes that divide 2^Width across that point too, as long as the receive
\* counter does not run over inside read() or bytesReadable().
THEOREM NoPanicTheorem ==
  ASSUME RunOver # "anywhere"
  PROVE  Uart!Spec => []NoPanic
<1>1. UartInv => NoPanic
  BY DEF UartInv, NoPanic, Uart!NoPanic
<1>2. QED
  BY <1>1, UartInvHolds, PTL

-----------------------------------------------------------------------------
(* Both directions as queues.                                               *)

LEMMA AsSeq ==
  ASSUME NEW n \in Nat, NEW V, NEW f \in [1 .. n -> V]
  PROVE  f \in Seq(V) /\ Len(f) = n /\ DOMAIN f = 1 .. n
BY SeqDef

\* u is s with k items of a block behind it.
Extended(u, s, block, k) ==
  /\ Len(u) = Len(s) + k
  /\ \A i \in 1 .. Len(u) : u[i] = IF i <= Len(s) THEN s[i] ELSE block[i - Len(s)]

LEMMA Longer ==
  ASSUME NEW s \in Seq(Value), NEW u \in Seq(Value), NEW block \in Seq(Value),
         NEW k \in 0 .. Len(block), Extended(u, s, block, k)
  PROVE  u = s \o SubSeq(block, 1, k)
<1> DEFINE b == SubSeq(block, 1, k)
           m == Len(s)
<1>1. \A i \in 1 .. k : block[i] \in Value
  BY LenProperties
<1>2. b \in Seq(Value) /\ Len(b) = k /\ \A i \in 1 .. k : b[i] = block[i]
  <2>1. \A i \in 1 .. k - 1 + 1 : b[i] = block[1 + i - 1]
    BY <1>1, SubSeqProperties
  <2>2. b \in Seq(Value) /\ Len(b) = IF 1 <= k THEN k - 1 + 1 ELSE 0
    BY <1>1, SubSeqProperties
  <2>3. QED
    BY <2>1, <2>2
<1> HIDE DEF b
<1>3. /\ s \o b \in Seq(Value) /\ Len(s \o b) = Len(s) + k
      /\ \A i \in 1 .. Len(s) + k : (s \o b)[i] = IF i <= Len(s) THEN s[i] ELSE b[i - Len(s)]
  BY <1>2, ConcatProperties
<1>4. \A i \in 1 .. Len(u) : u[i] = (s \o b)[i]
  <2> TAKE i \in 1 .. Len(u)
  <2>1. Len(s) \in Nat /\ k \in Nat
    OBVIOUS
  <2>2. ~(i <= Len(s)) => i - Len(s) \in 1 .. k
    BY <2>1 DEF Extended
  <2>3. QED
    BY <1>2, <1>3, <2>1, <2>2 DEF Extended
<1>5. QED
  BY <1>3, <1>4, SeqEqual DEF b, Extended

\* A queue that lost its first k items.
LEMMA Shorter ==
  ASSUME NEW s \in Seq(Value), NEW u \in Seq(Value),
         NEW k \in 0 .. Len(s), Len(u) = Len(s) - k,
         \A i \in 1 .. Len(u) : u[i] = s[i + k]
  PROVE  u = SubSeq(s, k + 1, Len(s))
<1> DEFINE b == SubSeq(s, k + 1, Len(s))
<1>1. Len(s) \in Nat /\ k \in Nat /\ \A i \in k + 1 .. Len(s) : s[i] \in Value
  BY LenProperties
<1>2. /\ b \in Seq(Value) /\ Len(b) = IF k + 1 <= Len(s) THEN Len(s) - (k + 1) + 1 ELSE 0
      /\ \A i \in 1 .. Len(s) - (k + 1) + 1 : b[i] = s[k + 1 + i - 1]
  BY <1>1, SubSeqProperties
<1> HIDE DEF b
<1>3. Len(b) = Len(u)
  BY <1>1, <1>2
<1>4. \A i \in 1 .. Len(u) : u[i] = b[i]
  <2> TAKE i \in 1 .. Len(u)
  <2>1. i \in 1 .. Len(s) - (k + 1) + 1 /\ k + 1 + i - 1 = i + k
    BY <1>1
  <2>2. QED
    BY <1>2, <2>1
<1>5. QED
  BY <1>2, <1>3, <1>4, SeqEqual DEF b

\* s lists the n bytes from a counter on.
Lists(s, b, size, from, n) ==
  /\ s \in Seq(Value) /\ Len(s) = n
  /\ \A i \in 1 .. n : s[i] = b[(from + (i - 1)) % size]

LEMMA HeldMeans ==
  ASSUME NEW size \in Nat \ {0}, NEW b \in [0 .. size - 1 -> Value],
         NEW n \in Nat, NEW from \in 0 .. M - 1, from + n < M
  PROVE  Lists(Uart!Held(b, size, from, n), b, size, from, n)
<1> DEFINE h == Uart!Held(b, size, from, n)
<1>1. M \in Nat \ {0}
  BY UartConstants
<1>2. ASSUME NEW i \in 1 .. n
      PROVE  /\ Uart!Plus(from, i - 1) = from + (i - 1)
             /\ (from + (i - 1)) % size \in 0 .. size - 1
  <2>1. i - 1 \in 0 .. M /\ from + (i - 1) < M /\ from + (i - 1) \in Int
    BY <1>1
  <2>2. QED
    BY <2>1, PlusMeans, Division
<1>3. h = [i \in 1 .. n |-> b[(from + (i - 1)) % size]]
  BY <1>2 DEF Uart!Held
<1> HIDE DEF h
<1>4. h \in [1 .. n -> Value]
  BY <1>2, <1>3
<1>5. QED
  BY <1>3, <1>4, AsSeq DEF h, Lists

LEMMA Between ==
  ASSUME NEW size \in Nat \ {0}, NEW b \in [0 .. size - 1 -> Value],
         NEW to \in 0 .. M - 1, NEW from \in 0 .. M - 1, from <= to
  PROVE  Lists(Uart!Held(b, size, from, Uart!Minus(to, from)), b, size, from, to - from)
<1> DEFINE n == to - from
<1>1. M \in Nat \ {0}
  BY UartConstants
<1>2. n \in Nat /\ from + n < M
  BY <1>1
<1>3. Uart!Minus(to, from) = n
  BY MinusMeans
<1> HIDE DEF n
<1>4. Lists(Uart!Held(b, size, from, n), b, size, from, n)
  BY <1>2, HeldMeans
<1>5. QED
  BY <1>3, <1>4 DEF n

\* Buffer c is buffer b after its counters moved from (to, from) to (later,
\* first), and the first k bytes of a block came behind those it held.
Appended(size, b, c, to, from, later, first, block, k) ==
  /\ size \in Nat \ {0}
  /\ b \in [0 .. size - 1 -> Value] /\ c \in [0 .. size - 1 -> Value]
  /\ to \in 0 .. M - 1 /\ from \in 0 .. M - 1 /\ from <= to
  /\ later \in 0 .. M - 1 /\ first \in 0 .. M - 1 /\ first <= later
  /\ first = from \/ (first = from - M + 2 * size /\ M % size = 0)
  /\ block \in Seq(Value) /\ k \in 0 .. Len(block)
  /\ later - first = to - from + k
  /\ \A i \in 1 .. to - from + k :
       c[(from + (i - 1)) % size] = IF i <= to - from THEN b[(from + (i - 1)) % size]
                                    ELSE block[i - (to - from)]

Joined(u, s, block, k) == u = s \o SubSeq(block, 1, k)

LEMMA Behind ==
  ASSUME NEW size, NEW b, NEW c, NEW to, NEW from, NEW later, NEW first, NEW block, NEW k,
         Appended(size, b, c, to, from, later, first, block, k)
  PROVE  Joined(Uart!Held(c, size, first, Uart!Minus(later, first)),
                Uart!Held(b, size, from, Uart!Minus(to, from)), block, k)
<1>0. /\ size \in Nat \ {0}
      /\ b \in [0 .. size - 1 -> Value] /\ c \in [0 .. size - 1 -> Value]
      /\ to \in 0 .. M - 1 /\ from \in 0 .. M - 1 /\ from <= to
      /\ later \in 0 .. M - 1 /\ first \in 0 .. M - 1 /\ first <= later
      /\ first = from \/ (first = from - M + 2 * size /\ M % size = 0)
      /\ block \in Seq(Value) /\ k \in 0 .. Len(block)
  BY DEF Appended
<1> DEFINE s == Uart!Held(b, size, from, Uart!Minus(to, from))
           u == Uart!Held(c, size, first, Uart!Minus(later, first))
           n == to - from
<1>1. M \in Nat \ {0} /\ n \in Nat /\ k \in Nat
  BY <1>0, UartConstants
<1>2. Lists(s, b, size, from, n)
  BY <1>0, Between
<1>3. Lists(u, c, size, first, later - first)
  BY <1>0, Between
<1>4. later - first = n + k
  BY DEF Appended
<1>5. \A i \in 1 .. n + k :
        c[(from + (i - 1)) % size] = IF i <= n THEN b[(from + (i - 1)) % size] ELSE block[i - n]
  BY DEF Appended
<1> HIDE DEF s, u, n
<1>6. ASSUME NEW i \in 1 .. n + k
      PROVE  (first + (i - 1)) % size = (from + (i - 1)) % size
  <2> DEFINE x == from + (i - 1)
             y == first + (i - 1)
  <2>1. x \in Int /\ (y = x \/ (y = x - M + 2 * size /\ M % size = 0))
    BY <1>0, <1>1
  <2>2. x \in Int
    BY <1>0, <1>1
  <2> HIDE DEF x, y
  <2>3. M % size = 0 => (x - M + 2 * size) % size = x % size
    BY <1>0, <2>2, ShiftKeepsSlot
  <2>4. y % size = x % size
    BY <2>1, <2>3
  <2>5. QED
    BY <2>4 DEF x, y
<1>7. ASSUME NEW i \in 1 .. Len(u)
      PROVE  u[i] = IF i <= Len(s) THEN s[i] ELSE block[i - Len(s)]
  <2>1. i \in 1 .. n + k /\ i \in 1 .. later - first
    BY <1>3, <1>4 DEF Lists
  <2>2. u[i] = c[(from + (i - 1)) % size]
    BY <1>3, <1>6, <2>1 DEF Lists
  <2>3. u[i] = IF i <= n THEN b[(from + (i - 1)) % size] ELSE block[i - n]
    BY <1>5, <2>1, <2>2
  <2>4. i <= n => i \in 1 .. n
    BY <1>1, <2>1
  <2>5. QED
    BY <1>2, <2>3, <2>4 DEF Lists
<1>8. u = s \o SubSeq(block, 1, k)
  <2>1. s \in Seq(Value) /\ u \in Seq(Value) /\ Len(u) = Len(s) + k
    BY <1>2, <1>3, <1>4 DEF Lists
  <2>2. Extended(u, s, block, k)
    BY <1>7, <2>1 DEF Extended
  <2>3. block \in Seq(Value) /\ k \in 0 .. Len(block)
    BY <1>0
  <2>4. QED
    BY ONLY <2>1, <2>2, <2>3, Longer
<1>9. QED
  BY <1>8 DEF s, u, Joined

\* s falls into t, its first k items, and u.
Cut(s, k, t, u) == t = SubSeq(s, 1, k) /\ u = SubSeq(s, k + 1, Len(s))

\* A buffer whose reading counter moved k on.
LEMMA Ahead ==
  ASSUME NEW size \in Nat \ {0}, NEW b \in [0 .. size - 1 -> Value],
         NEW to \in 0 .. M - 1, NEW from \in 0 .. M - 1, from <= to,
         NEW k \in 0 .. to - from
  PROVE  Cut(Uart!Held(b, size, from, Uart!Minus(to, from)), k,
             [i \in 1 .. k |-> b[(from + (i - 1)) % size]],
             Uart!Held(b, size, from + k, Uart!Minus(to, from + k)))
<1> DEFINE s == Uart!Held(b, size, from, Uart!Minus(to, from))
           next == from + k
           u == Uart!Held(b, size, next, Uart!Minus(to, next))
           n == to - from
           t == [i \in 1 .. k |-> b[(from + (i - 1)) % size]]
<1>1. M \in Nat \ {0} /\ n \in Nat /\ k \in Nat /\ k \in 0 .. n
      /\ next \in 0 .. M - 1 /\ next <= to /\ to - next = n - k
  BY UartConstants
<1>2. Lists(s, b, size, from, n)
  BY Between
<1> HIDE DEF next
<1>3. Lists(u, b, size, next, to - next)
  BY <1>1, Between
<1> HIDE DEF s, u, n
<1>4. ASSUME NEW i \in 1 .. Len(u) PROVE u[i] = s[i + k]
  <2>1. i \in 1 .. to - next /\ i + k \in 1 .. n
    BY <1>1, <1>3 DEF Lists
  <2>2. next + (i - 1) = from + ((i + k) - 1)
    BY <1>1 DEF next
  <2>3. u[i] = b[(next + (i - 1)) % size]
    BY <1>3, <2>1 DEF Lists
  <2>4. s[i + k] = b[(from + ((i + k) - 1)) % size]
    BY <1>2, <2>1 DEF Lists
  <2>5. QED
    BY <2>2, <2>3, <2>4, Zenon
<1>5. u = SubSeq(s, k + 1, Len(s))
  <2>1. k \in 0 .. Len(s) /\ Len(u) = Len(s) - k
    BY <1>1, <1>2, <1>3 DEF Lists
  <2>2. s \in Seq(Value) /\ u \in Seq(Value)
    BY <1>2, <1>3 DEF Lists
  <2>3. QED
    BY <1>4, <2>1, <2>2, Shorter
<1>6. t = SubSeq(s, 1, k)
  <2> DEFINE p == SubSeq(s, 1, k)
  <2>1. \A i \in 1 .. k : s[i] \in Value
    BY <1>1, <1>2 DEF Lists
  <2>2. /\ p \in Seq(Value) /\ Len(p) = IF 1 <= k THEN k - 1 + 1 ELSE 0
        /\ \A i \in 1 .. k - 1 + 1 : p[i] = s[1 + i - 1]
    BY <1>1, <1>2, <2>1, SubSeqProperties DEF Lists
  <2> HIDE DEF p
  <2>3. ASSUME NEW i \in 1 .. k PROVE p[i] = t[i] /\ t[i] \in Value
    <3>1. i \in 1 .. n /\ 1 + i - 1 = i /\ i \in 1 .. k - 1 + 1
      BY <1>1
    <3>2. p[i] = s[i]
      BY <2>2, <3>1
    <3>3. QED
      BY <1>2, <2>1, <3>1, <3>2 DEF Lists
  <2>4. t \in [1 .. k -> Value]
    BY <2>3
  <2> HIDE DEF t
  <2>5. t \in Seq(Value) /\ Len(t) = k /\ Len(p) = k
    BY <1>1, <2>2, <2>4, AsSeq
  <2>6. t = p
    BY <2>2, <2>3, <2>5, SeqEqual
  <2>7. QED
    BY <2>6 DEF p
<1>7. QED
  BY <1>5, <1>6 DEF s, u, next, t, Cut

RxItems == Uart!Held(rxBuffer, RxSize, readCount, Uart!Minus(recvCount, readCount))
TxItems == Uart!Held(txBuffer, TxSize, sentCount, Uart!Minus(writeCount, sentCount))

\* The slots of the receive buffer after an interrupt.
LEMMA Arrived ==
  ASSUME RunOver # "anywhere", RxInv, NEW b \in Bytes, Uart!_readISR(b),
         NEW i \in 1 .. recvCount' - readCount'
  PROVE  rxBuffer'[(readCount + (i - 1)) % RxSize]
           = IF i <= recvCount - readCount THEN rxBuffer[(readCount + (i - 1)) % RxSize]
             ELSE <<b>>[i - (recvCount - readCount)]
<1> DEFINE n == recvCount - readCount
           x == readCount + (i - 1)
<1>1. M \in Nat \ {0} /\ RxSize \in Nat \ {0}
  BY UartConstants
<1>2. /\ recvCount \in 0 .. M - 1 /\ readCount \in 0 .. recvCount /\ n < RxSize
      /\ rxBuffer \in [0 .. RxSize - 1 -> Value]
  BY DEF RxInv
<1>3. \/ UNCHANGED <<rxBuffer, recvCount, readCount>>
      \/ /\ n < RxSize - 1
         /\ rxBuffer' = [rxBuffer EXCEPT ![recvCount % RxSize] = b]
         /\ recvCount' - readCount' = n + 1
  <2>1. \/ UNCHANGED <<rxBuffer, recvCount, readCount>>
        \/ /\ n < RxSize - 1
           /\ rxBuffer' = [rxBuffer EXCEPT ![recvCount % RxSize] = b]
           /\ \/ recvCount' = recvCount + 1 /\ readCount' = readCount
              \/ /\ recvCount' = recvCount + 1 - M + 2 * RxSize
                 /\ readCount' = readCount - M + 2 * RxSize
    BY Arrival
  <2>2. QED
    BY <1>1, <1>2, <2>1
<1>4. i \in Int /\ i >= 1 /\ x \in Int /\ n \in Nat
  BY <1>1, <1>2
<1>5. CASE UNCHANGED <<rxBuffer, recvCount, readCount>>
  BY <1>5
<1>6. CASE /\ n < RxSize - 1
           /\ rxBuffer' = [rxBuffer EXCEPT ![recvCount % RxSize] = b]
           /\ recvCount' - readCount' = n + 1
  <2>1. i <= n + 1
    BY <1>1, <1>2, <1>6
  <2>2. recvCount % RxSize \in 0 .. RxSize - 1 /\ recvCount \in Int
    <3>1. recvCount \in Int
      BY <1>1, <1>2
    <3>2. QED
      BY <1>1, <3>1, Division
  <2>3. CASE i <= n
    <3>1. x < recvCount /\ recvCount < x + RxSize
      BY <1>1, <1>2, <1>4, <2>3
    <3> HIDE DEF x
    <3>2. x % RxSize # recvCount % RxSize /\ x % RxSize \in 0 .. RxSize - 1
      BY <1>1, <1>4, <2>2, <3>1, OtherSlot, Division
    <3>3. rxBuffer'[x % RxSize] = rxBuffer[x % RxSize]
      BY <1>2, <1>6, <3>2
    <3>4. QED
      BY <2>3, <3>3 DEF x
  <2>4. CASE ~(i <= n)
    <3>1. x = recvCount /\ i - n = 1
      BY <1>1, <1>2, <1>4, <2>1, <2>4
    <3>2. rxBuffer'[recvCount % RxSize] = b
      BY <1>2, <1>6, <2>2
    <3>3. <<b>>[i - n] = b
      BY <3>1
    <3>4. QED
      BY <2>4, <3>1, <3>2, <3>3
  <2>5. QED
    BY <2>3, <2>4
<1>7. QED
  BY <1>3, <1>5, <1>6

\* A byte that arrives is put behind the others, or lost if there is no room.
LEMMA ArrivalPuts ==
  ASSUME RunOver # "anywhere", RxInv, RxInv', NEW b \in Bytes, Uart!_readISR(b)
  PROVE  Uart!RxQueue!Put(<<b>>)
<1> DEFINE n == recvCount - readCount
           k == IF n < RxSize - 1 THEN 1 ELSE 0
           block == <<b>>
<1>1. M \in Nat \ {0} /\ RxSize \in Nat \ {0} /\ (RunOver # "never" => M % RxSize = 0)
  BY UartConstants, Divides
<1>2. /\ recvCount \in 0 .. M - 1 /\ readCount \in 0 .. M - 1 /\ readCount <= recvCount
      /\ n < RxSize /\ n \in Nat
      /\ rxBuffer \in [0 .. RxSize - 1 -> Value]
      /\ recvCount' \in 0 .. M - 1 /\ readCount' \in 0 .. M - 1 /\ readCount' <= recvCount'
      /\ rxBuffer' \in [0 .. RxSize - 1 -> Value]
  BY <1>1 DEF RxInv
<1>3. /\ rxLast' = <<"put", <<b>>>>
      /\ \/ readCount' = readCount
         \/ readCount' = readCount - M + 2 * RxSize /\ M % RxSize = 0
      /\ recvCount' - readCount' = n + k
  <2>1. /\ rxLast' = <<"put", <<b>>>>
        /\ \/ n = RxSize - 1 /\ UNCHANGED <<rxBuffer, recvCount, readCount>>
           \/ /\ n < RxSize - 1
              /\ \/ recvCount' = recvCount + 1 /\ readCount' = readCount
                 \/ /\ recvCount' = recvCount + 1 - M + 2 * RxSize
                    /\ readCount' = readCount - M + 2 * RxSize
                    /\ RunOver # "never"
    BY Arrival
  <2>2. CASE n = RxSize - 1 /\ UNCHANGED <<rxBuffer, recvCount, readCount>>
    BY <1>2, <2>1, <2>2
  <2>3. CASE n < RxSize - 1 /\ recvCount' = recvCount + 1 /\ readCount' = readCount
    BY <1>2, <2>1, <2>3
  <2>4. CASE /\ n < RxSize - 1 /\ recvCount' = recvCount + 1 - M + 2 * RxSize
             /\ readCount' = readCount - M + 2 * RxSize /\ RunOver # "never"
    BY <1>1, <1>2, <2>1, <2>4
  <2>5. QED
    BY <2>1, <2>2, <2>3, <2>4
<1>4. block \in Seq(Value) /\ Len(block) = 1 /\ k \in 0 .. Len(block)
  BY <1>1, <1>2 DEF Value
<1>5. \A i \in 1 .. n + k :
        rxBuffer'[(readCount + (i - 1)) % RxSize]
          = IF i <= n THEN rxBuffer[(readCount + (i - 1)) % RxSize] ELSE block[i - n]
  BY <1>3, Arrived
<1>6. Appended(RxSize, rxBuffer, rxBuffer', recvCount, readCount, recvCount', readCount', block, k)
  <2> HIDE DEF block, k
  <2>1. QED
    BY <1>1, <1>2, <1>3, <1>4, <1>5 DEF Appended
<1>7. RxItems' = RxItems \o SubSeq(block, 1, k)
  <2>1. RxItems' = Uart!Held(rxBuffer', RxSize, readCount', Uart!Minus(recvCount', readCount'))
    BY DEF RxItems
  <2> HIDE DEF block, k
  <2>2. Joined(RxItems', RxItems, block, k)
    BY <1>6, <2>1, Behind DEF RxItems
  <2>3. QED
    BY <2>2, Zenon DEF Joined
<1>8. Lists(RxItems, rxBuffer, RxSize, readCount, n)
  BY <1>1, <1>2, Between DEF RxItems
<1>9. Len(RxItems) = n
  BY <1>8 DEF Lists
<1>10. (IF RxSize - 1 - n < 1 THEN RxSize - 1 - n ELSE 1) = k
  BY <1>1, <1>2
<1>11. QED
  BY <1>3, <1>4, <1>7, <1>9, <1>10
  DEF Uart!RxQueue!Put, Uart!RxQueue!Prefix, Uart!RxQueue!Free, RxItems

\* read() takes the oldest byte.
LEMMA ReadTakes ==
  ASSUME RxInv, Uart!read_count
  PROVE  Uart!RxQueue!Take(1)
<1> DEFINE t == [i \in 1 .. 1 |-> rxBuffer[(readCount + (i - 1)) % RxSize]]
<1>1. M \in Nat \ {0} /\ RxSize \in Nat \ {0}
  BY UartConstants
<1>2. /\ recvCount \in 0 .. M - 1 /\ readCount \in 0 .. M - 1 /\ readCount <= recvCount
      /\ rxBuffer \in [0 .. RxSize - 1 -> Value] /\ Reading
  BY <1>1 DEF RxInv
<1>3. /\ start \in readCount .. recvCount /\ start > readCount /\ loaded = readCount
      /\ byte = rxBuffer[readCount % RxSize]
  BY <1>2 DEF Uart!read_count, Reading
<1>4. 1 \in 0 .. recvCount - readCount
  BY <1>1, <1>2, <1>3
<1>5. readCount' = readCount + 1 /\ UNCHANGED <<recvCount, rxBuffer>> /\ rxLast' = <<"take", <<byte>>>>
  <2>1. Uart!Plus(loaded, 1) # 0
    <3>1. loaded \in 0 .. M - 1 /\ 1 \in 0 .. M /\ loaded + 1 < M /\ loaded + 1 # 0
      BY <1>1, <1>2, <1>3
    <3>2. QED
      BY <3>1, PlusMeans
  <2>2. QED
    BY <1>3, <2>1 DEF Uart!read_count
<1>6. t = <<byte>>
  <2>1. readCount + (1 - 1) = readCount
    BY <1>1, <1>2
  <2>2. \A i \in 1 .. 1 : rxBuffer[(readCount + (i - 1)) % RxSize] = byte
    <3> TAKE i \in 1 .. 1
    <3>1. i = 1
      OBVIOUS
    <3>2. QED
      BY <1>3, <2>1, <3>1
  <2>3. QED
    BY <2>2
<1>7. Cut(RxItems, 1, t, Uart!Held(rxBuffer, RxSize, readCount + 1, Uart!Minus(recvCount, readCount + 1)))
  <2> HIDE DEF t
  <2>1. Cut(RxItems, 1, [i \in 1 .. 1 |-> rxBuffer[(readCount + (i - 1)) % RxSize]],
            Uart!Held(rxBuffer, RxSize, readCount + 1, Uart!Minus(recvCount, readCount + 1)))
    BY <1>1, <1>2, <1>4, Ahead DEF RxItems
  <2>2. QED
    BY <2>1 DEF t
<1>8. RxItems' = Uart!Held(rxBuffer, RxSize, readCount + 1, Uart!Minus(recvCount, readCount + 1))
  BY <1>5 DEF RxItems
<1> HIDE DEF t
<1>9. Cut(RxItems, 1, <<byte>>, RxItems')
  BY <1>6, <1>7, <1>8
<1>10. Len(RxItems) = recvCount - readCount
  BY <1>1, <1>2, Between DEF RxItems, Lists
<1>11. 1 <= Len(RxItems) /\ (IF 1 < Len(RxItems) THEN 1 ELSE Len(RxItems)) = 1
  BY <1>1, <1>2, <1>4, <1>10
<1>12. RxItems' = SubSeq(RxItems, 1 + 1, Len(RxItems)) /\ <<byte>> = SubSeq(RxItems, 1, 1)
  BY <1>9, Zenon DEF Cut
<1>13. QED
  BY <1>5, <1>11, <1>12 DEF Uart!RxQueue!Take, Uart!RxQueue!Prefix, RxItems

LEMMA ReceivesStep ==
  ASSUME RunOver # "anywhere", UartInv, UartInv', [Uart!Next]_(Uart!vars)
  PROVE  [Uart!RxQueue!Next]_(Uart!RxQueue!vars)
<1>1. RxInv /\ RxInv'
  BY DEF UartInv
<1>2. MaxBlock \in Nat \ {0}
  BY UartConstants
<1>3. ASSUME UNCHANGED <<rxBuffer, recvCount, readCount, rxLast>>
      PROVE  UNCHANGED Uart!RxQueue!vars
  BY <1>3 DEF Uart!RxQueue!vars
<1>4. ASSUME UNCHANGED Uart!rxVars PROVE UNCHANGED Uart!RxQueue!vars
  BY <1>3, <1>4 DEF Uart!rxVars
<1>5. ASSUME NEW b \in Bytes, Uart!_readISR(b) PROVE Uart!RxQueue!Next
  <2>1. Uart!RxQueue!Put(<<b>>)
    BY <1>1, <1>5, ArrivalPuts
  <2>2. <<b>> \in [1 .. 1 -> Bytes] /\ 1 \in 1 .. MaxBlock
    BY <1>2
  <2>3. QED
    BY <2>1, <2>2 DEF Uart!RxQueue!Next
<1>6. CASE Uart!read_count
  <2>1. Uart!RxQueue!Take(1) /\ 1 \in 1 .. MaxBlock
    BY <1>1, <1>2, <1>6, ReadTakes
  <2>2. QED
    BY <2>1 DEF Uart!RxQueue!Next
<1>7. CASE Uart!read
  <2>1. ASSUME NEW cap, Uart!read_begin(cap) PROVE UNCHANGED Uart!RxQueue!vars
    BY <1>3, <2>1 DEF Uart!read_begin
  <2>2. CASE Uart!read_copy
    BY <1>3, <2>2 DEF Uart!read_copy
  <2>3. CASE Uart!read_end
    BY <1>3, <2>3 DEF Uart!read_end
  <2>4. QED
    BY <1>6, <1>7, <2>1, <2>2, <2>3 DEF Uart!read
<1>8. CASE Uart!bytesReadable
  <2>1. UNCHANGED <<rxBuffer, recvCount, readCount, rxLast>>
    BY <1>8 DEF Uart!bytesReadable, Uart!bytesReadable_load, Uart!bytesReadable_check
  <2>2. QED
    BY <1>3, <2>1
<1>9. ASSUME NEW block, Uart!write(block) PROVE UNCHANGED Uart!RxQueue!vars
  BY <1>4, <1>9 DEF Uart!write
<1>10. CASE Uart!run
  BY <1>4, <1>10 DEF Uart!run
<1>11. CASE UNCHANGED Uart!vars
  BY <1>4, <1>11 DEF Uart!vars
<1>12. QED
  BY <1>5, <1>7, <1>8, <1>9, <1>10, <1>11, UartSteps

LEMMA ReceivesInit == Uart!Init => Uart!RxQueue!Init
<1> SUFFICES ASSUME Uart!Init PROVE Uart!RxQueue!Init
  OBVIOUS
<1>1. M \in Nat \ {0} /\ RxSize \in Nat \ {0}
  BY UartConstants
<1>2. recvCount = 0 /\ readCount = 0 /\ rxLast = <<>> /\ RxInv
  BY UartInvInit DEF Uart!Init, UartInv
<1>3. Lists(RxItems, rxBuffer, RxSize, 0, 0)
  <2>1. 0 \in 0 .. M - 1 /\ 0 <= 0 /\ 0 - 0 = 0 /\ rxBuffer \in [0 .. RxSize - 1 -> Value]
    BY <1>1, <1>2 DEF RxInv
  <2>2. Lists(Uart!Held(rxBuffer, RxSize, 0, Uart!Minus(0, 0)), rxBuffer, RxSize, 0, 0 - 0)
    BY <1>1, <2>1, Between
  <2>3. QED
    BY <1>2, <2>1, <2>2 DEF RxItems
<1>4. RxItems = <<>>
  BY <1>3 DEF Lists
<1>5. QED
  BY <1>2, <1>4 DEF Uart!RxQueue!Init, RxItems

\* What read() hands out is what arrived, once each and in order, however the
\* interrupt handler interleaves with the main program and for every width of
\* the counters: for every size of the buffer before a counter runs over, and
\* for a size that divides 2^Width across that point too, as long as the
\* receive counter does not run over inside read() or bytesReadable().
THEOREM ReceivesTheorem ==
  ASSUME RunOver # "anywhere"
  PROVE  Uart!Spec => ReceivesInOrder
<1>1. UartInv /\ UartInv' /\ [Uart!Next]_(Uart!vars) => [Uart!RxQueue!Next]_(Uart!RxQueue!vars)
  BY ReceivesStep
<1>2. QED
  BY <1>1, ReceivesInit, UartInvHolds, PTL
  DEF Uart!Spec, ReceivesInOrder, Uart!ReceivesInOrder, Uart!RxQueue!Spec

-----------------------------------------------------------------------------
(* Sending.                                                                 *)

\* A call moves one block, or at most what the buffer holds.
LEMMA BlockBound ==
  ASSUME NEW n \in Nat \ {0}, n <= MaxBlock \/ n <= TxSize - 1
  PROVE  n \in 1 .. Uart!Max({MaxBlock, TxSize - 1})
<1> DEFINE bounds == {MaxBlock, TxSize - 1}
<1>1. MaxBlock \in Int /\ TxSize - 1 \in Int
  BY UartConstants
<1>2. \E x \in bounds : \A y \in bounds : x >= y
  BY <1>1
<1>3. Uart!Max(bounds) \in bounds /\ \A y \in bounds : Uart!Max(bounds) >= y
  BY <1>2 DEF Uart!Max
<1>4. Uart!Max(bounds) \in Int /\ Uart!Max(bounds) >= MaxBlock /\ Uart!Max(bounds) >= TxSize - 1
  BY <1>1, <1>3
<1> HIDE DEF bounds
<1>5. n \in 1 .. Uart!Max(bounds)
  BY <1>1, <1>4
<1>6. QED
  BY <1>5 DEF bounds

\* write() puts a block behind the others, as much of it as there is room for.
LEMMA WritePuts ==
  ASSUME TxInv, TxInv', NEW block \in Seq(Bytes), Uart!write(block)
  PROVE  Uart!TxQueue!Put(block)
<1> DEFINE n == writeCount - sentCount
           k == Taken(block)
<1>1. M \in Nat \ {0} /\ TxSize \in Nat \ {0} /\ (RunOver # "never" => M % TxSize = 0)
  BY UartConstants, Divides
<1>2. /\ writeCount \in 0 .. M - 1 /\ sentCount \in 0 .. M - 1 /\ sentCount <= writeCount
      /\ n < TxSize /\ n \in Nat
      /\ txBuffer \in [0 .. TxSize - 1 -> Value]
      /\ writeCount' \in 0 .. M - 1 /\ sentCount' \in 0 .. M - 1 /\ sentCount' <= writeCount'
      /\ txBuffer' \in [0 .. TxSize - 1 -> Value]
  BY <1>1 DEF TxInv
<1>3. /\ txLast' = <<"put", block>>
      /\ k \in Nat /\ k <= Len(block) /\ n + k < TxSize
      /\ k = Len(block) \/ k = TxSize - 1 - n
      /\ \/ writeCount' = writeCount + k /\ sentCount' = sentCount
         \/ /\ writeCount' = writeCount + k - M + 2 * TxSize
            /\ sentCount' = sentCount - M + 2 * TxSize
            /\ M % TxSize = 0
  BY <1>1, Writing
<1>4. \A i \in 1 .. n + k :
        txBuffer'[(sentCount + (i - 1)) % TxSize]
          = IF i <= n THEN txBuffer[(sentCount + (i - 1)) % TxSize] ELSE block[i - n]
  BY Waiting
<1>5. block \in Seq(Value)
  BY DEF Value
<1> HIDE DEF k
<1>6. /\ \/ sentCount' = sentCount
         \/ sentCount' = sentCount - M + 2 * TxSize /\ M % TxSize = 0
      /\ writeCount' - sentCount' = n + k
  <2>1. CASE writeCount' = writeCount + k /\ sentCount' = sentCount
    BY <1>2, <1>3, <2>1
  <2>2. CASE /\ writeCount' = writeCount + k - M + 2 * TxSize
             /\ sentCount' = sentCount - M + 2 * TxSize /\ M % TxSize = 0
    BY <1>1, <1>2, <1>3, <2>2
  <2>3. QED
    BY <1>3, <2>1, <2>2
<1>7. Appended(TxSize, txBuffer, txBuffer', writeCount, sentCount, writeCount', sentCount', block, k)
  <2>1. k \in 0 .. Len(block) /\ writeCount' - sentCount' = writeCount - sentCount + k
    BY <1>3, <1>5, <1>6
  <2>2. \A i \in 1 .. writeCount - sentCount + k :
          txBuffer'[(sentCount + (i - 1)) % TxSize]
            = IF i <= writeCount - sentCount THEN txBuffer[(sentCount + (i - 1)) % TxSize]
              ELSE block[i - (writeCount - sentCount)]
    BY <1>4
  <2>3. QED
    BY <1>1, <1>2, <1>5, <1>6, <2>1, <2>2, Zenon DEF Appended
<1>8. TxItems' = TxItems \o SubSeq(block, 1, k)
  <2>1. TxItems' = Uart!Held(txBuffer', TxSize, sentCount', Uart!Minus(writeCount', sentCount'))
    BY DEF TxItems
  <2>2. Joined(TxItems', TxItems, block, k)
    BY <1>7, <2>1, Behind DEF TxItems
  <2>3. QED
    BY <2>2, Zenon DEF Joined
<1>9. Len(TxItems) = n
  <2>1. Lists(TxItems, txBuffer, TxSize, sentCount, writeCount - sentCount)
    BY <1>1, <1>2, Between DEF TxItems
  <2>2. QED
    BY <2>1 DEF Lists
<1>10. (IF TxSize - 1 - n < Len(block) THEN TxSize - 1 - n ELSE Len(block)) = k
  BY <1>1, <1>2, <1>3
<1>11. QED
  BY <1>3, <1>8, <1>9, <1>10
  DEF Uart!TxQueue!Put, Uart!TxQueue!Prefix, Uart!TxQueue!Free, TxItems

\* run() takes the oldest bytes.
LEMMA RunTakes ==
  ASSUME TxInv, Uart!run
  PROVE  \E n \in 1 .. Uart!Max({MaxBlock, TxSize - 1}) : Uart!TxQueue!Take(n)
<1>1. M \in Nat \ {0} /\ TxSize \in Nat \ {0}
  BY UartConstants
<1>2. /\ writeCount \in 0 .. M - 1 /\ sentCount \in 0 .. M - 1 /\ sentCount <= writeCount
      /\ writeCount - sentCount < TxSize
      /\ txBuffer \in [0 .. TxSize - 1 -> Value]
  BY <1>1 DEF TxInv
<1>3. PICK n \in 1 .. writeCount - sentCount :
        /\ UNCHANGED <<txBuffer, writeCount>> /\ sentCount' = sentCount + n
        /\ txLast' = <<"take", [k \in 1 .. n |-> txBuffer[(sentCount + (k - 1)) % TxSize]]>>
  BY Sending
<1> DEFINE t == [k \in 1 .. n |-> txBuffer[(sentCount + (k - 1)) % TxSize]]
<1>4. n \in Nat \ {0} /\ n <= TxSize - 1 /\ n \in 0 .. writeCount - sentCount
  BY <1>1, <1>2
<1>5. Cut(TxItems, n, t, Uart!Held(txBuffer, TxSize, sentCount + n, Uart!Minus(writeCount, sentCount + n)))
  BY <1>1, <1>2, <1>4, Ahead DEF TxItems
<1>6. TxItems' = Uart!Held(txBuffer, TxSize, sentCount + n, Uart!Minus(writeCount, sentCount + n))
  BY <1>3 DEF TxItems
<1>7. txLast' = <<"take", t>>
  BY <1>3
<1> HIDE DEF t
<1>8. TxItems' = SubSeq(TxItems, n + 1, Len(TxItems)) /\ t = SubSeq(TxItems, 1, n)
  BY <1>5, <1>6, Zenon DEF Cut
<1>9. Len(TxItems) = writeCount - sentCount
  BY <1>1, <1>2, Between DEF TxItems, Lists
<1>10. n <= Len(TxItems) /\ (IF n < Len(TxItems) THEN n ELSE Len(TxItems)) = n
  BY <1>1, <1>2, <1>4, <1>9
<1>11. Uart!TxQueue!Take(n)
  BY <1>7, <1>8, <1>10 DEF Uart!TxQueue!Take, Uart!TxQueue!Prefix, TxItems
<1>12. QED
  BY <1>4, <1>11, BlockBound

\* The receive side leaves the transmit side alone.
LEMMA ReceiveIsApart ==
  ASSUME (\E b \in Bytes : Uart!_readISR(b)) \/ Uart!read \/ Uart!bytesReadable
  PROVE  UNCHANGED Uart!txVars
<1>1. ASSUME NEW b, Uart!_readISR(b) PROVE UNCHANGED Uart!txVars
  BY <1>1 DEF Uart!_readISR
<1>2. ASSUME Uart!read PROVE UNCHANGED Uart!txVars
  BY <1>2 DEF Uart!read, Uart!read_begin, Uart!read_copy, Uart!read_count, Uart!read_end
<1>3. ASSUME Uart!bytesReadable PROVE UNCHANGED Uart!txVars
  BY <1>3 DEF Uart!bytesReadable, Uart!bytesReadable_load, Uart!bytesReadable_check
<1>4. QED
  BY <1>1, <1>2, <1>3

\* The transmit side needs nothing of the receive side.
LEMMA TxInvHolds == Uart!Spec => []TxInv
<1>1. Uart!Init => TxInv
  BY UartInvInit DEF UartInv
<1>2. ASSUME TxInv, [Uart!Next]_(Uart!vars) PROVE TxInv'
  <2>1. ASSUME UNCHANGED Uart!txVars PROVE TxInv'
    BY <1>2, <2>1 DEF Uart!txVars, TxInv
  <2>2. CASE UNCHANGED Uart!vars
    BY <2>1, <2>2 DEF Uart!vars
  <2>3. QED
    BY <1>2, <2>1, <2>2, UartSteps, ReceiveIsApart, WritingKeeps, SendingKeeps
<1>3. QED
  BY <1>1, <1>2, PTL DEF Uart!Spec

LEMMA SendsStep ==
  ASSUME TxInv, TxInv', [Uart!Next]_(Uart!vars)
  PROVE  [Uart!TxQueue!Next]_(Uart!TxQueue!vars)
<1>1. ASSUME UNCHANGED Uart!txVars PROVE UNCHANGED Uart!TxQueue!vars
  BY <1>1 DEF Uart!txVars, Uart!TxQueue!vars
<1>2. ASSUME NEW block \in Seq(Bytes), Len(block) \in 1 .. MaxBlock, Uart!write(block)
      PROVE  Uart!TxQueue!Next
  <2>1. Uart!TxQueue!Put(block)
    BY <1>2, WritePuts
  <2>2. Len(block) \in Nat \ {0} /\ (Len(block) <= MaxBlock \/ Len(block) <= TxSize - 1)
    BY <1>2, UartConstants
  <2> DEFINE l == Len(block)
  <2> HIDE DEF l
  <2>3. l \in 1 .. Uart!Max({MaxBlock, TxSize - 1})
    BY ONLY <2>2, BlockBound DEF l
  <2>4. block \in [1 .. Len(block) -> Bytes]
    BY LenProperties
  <2>5. QED
    BY <2>1, <2>3, <2>4 DEF l, Uart!TxQueue!Next
<1>3. CASE Uart!run
  BY <1>3, RunTakes DEF Uart!TxQueue!Next
<1>4. CASE UNCHANGED Uart!vars
  BY <1>1, <1>4 DEF Uart!vars
<1>5. QED
  BY <1>1, <1>2, <1>3, <1>4, UartSteps, ReceiveIsApart

LEMMA SendsInit == Uart!Init => Uart!TxQueue!Init
<1> SUFFICES ASSUME Uart!Init PROVE Uart!TxQueue!Init
  OBVIOUS
<1>1. M \in Nat \ {0} /\ TxSize \in Nat \ {0}
  BY UartConstants
<1>2. writeCount = 0 /\ sentCount = 0 /\ txLast = <<>> /\ TxInv
  BY UartInvInit DEF Uart!Init, UartInv
<1>3. Lists(TxItems, txBuffer, TxSize, 0, 0)
  <2>1. 0 \in 0 .. M - 1 /\ 0 <= 0 /\ 0 - 0 = 0 /\ txBuffer \in [0 .. TxSize - 1 -> Value]
    BY <1>1, <1>2 DEF TxInv
  <2>2. Lists(Uart!Held(txBuffer, TxSize, 0, Uart!Minus(0, 0)), txBuffer, TxSize, 0, 0 - 0)
    BY <1>1, <2>1, Between
  <2>3. QED
    BY <1>2, <2>1, <2>2 DEF TxItems
<1>4. TxItems = <<>>
  BY <1>3 DEF Lists
<1>5. QED
  BY <1>2, <1>4 DEF Uart!TxQueue!Init, TxItems

\* What run() sends is what write() accepted, once each and in order, for every
\* width of the counters: for every size of the buffer before a counter runs
\* over, and for a size that divides 2^Width wherever it does.
THEOREM SendsTheorem == Uart!Spec => SendsInOrder
<1>1. TxInv /\ TxInv' /\ [Uart!Next]_(Uart!vars) => [Uart!TxQueue!Next]_(Uart!TxQueue!vars)
  BY SendsStep
<1>2. QED
  BY <1>1, SendsInit, TxInvHolds, PTL
  DEF Uart!Spec, SendsInOrder, Uart!SendsInOrder, Uart!TxQueue!Spec

-----------------------------------------------------------------------------
(* CircularBuffer.  Its messages are found by recursion over the ring, so   *)
(* the proofs need induction: a set of naturals that holds 0 and, with n,   *)
(* n + 1 is all of them, because every set of naturals has a least element. *)

LEMMA Least ==
  ASSUME NEW T \in SUBSET Nat, T # {}
  PROVE  \E x \in T : \A y \in T : x <= y
<1> DEFINE Less == {ss \in Nat \X Nat : ss[1] < ss[2]}
<1>1. IsWellFoundedOn(Less, Nat)
  BY NatLessThanWellFounded, Zenon DEF OpToRel
<1> HIDE DEF Less
<1>2. PICK x \in T : \A y \in T : <<y, x>> \notin Less
  BY <1>1, WFMin
<1>3. ASSUME NEW y \in T PROVE x <= y
  <2>1. ~(y < x)
    BY <1>2 DEF Less
  <2>2. QED
    BY <2>1
<1>4. QED
  BY <1>2, <1>3
LEMMA Induct ==
  ASSUME NEW T, 0 \in T, \A n \in Nat : n \in T => n + 1 \in T
  PROVE  Nat \subseteq T
<1> SUFFICES ASSUME Nat \ T # {} PROVE FALSE
  OBVIOUS
<1>1. PICK x \in Nat \ T : \A y \in Nat \ T : x <= y
  BY Least
<1>2. x # 0 /\ x - 1 \in Nat
  BY <1>1
<1>3. x - 1 \in T
  BY <1>1, <1>2
<1>4. x - 1 + 1 \in T
  BY <1>2, <1>3
<1>5. QED
  BY <1>1, <1>4


LEMMA RingConstants ==
  S \in Nat /\ S > 0 /\ OobLen \in Nat /\ Ring!Slot = 0 .. S - 1
BY ChannelsAssumption DEF Ring!RingAssumption, Ring!Slot

LEMMA BytesAre == \A b \in Ring!Byte : b \in Nat /\ b < 256
BY DEF Ring!Byte

LEMMA MessagesAre ==
  /\ Caps \subseteq Nat
  /\ \A m \in Messages :
       /\ m \in [oob : Seq(Ring!Byte), body : Seq(Ring!Byte)]
       /\ Len(m.oob) = OobLen /\ OobLen + Len(m.body) < 65536
BY ChannelsAssumption DEF Ring!RingAssumption

LEMMA AfterIs ==
  ASSUME NEW p \in Ring!Slot, NEW n \in 0 .. S
  PROVE  /\ Ring!After(p, n) = IF p + n >= S THEN p + n - S ELSE p + n
         /\ Ring!After(p, n) \in Ring!Slot
<1>1. S \in Nat /\ S > 0 /\ p \in Nat /\ p < S /\ n \in Nat /\ n <= S
  BY RingConstants
<1>2. (p + n) % S = IF p + n >= S THEN p + n - S ELSE p + n
  <2>1. CASE p + n < S
    BY <1>1, <2>1
  <2>2. CASE p + n >= S /\ p + n < S + S
    BY <1>1, <2>2
  <2>3. QED
    BY <1>1, <2>1, <2>2
<1>3. QED
  BY <1>1, <1>2, RingConstants DEF Ring!After

LEMMA EntrySizeIs ==
  ASSUME Ring!TypeOK, NEW p \in Ring!Slot
  PROVE  Ring!EntrySize(p) \in Nat
<1>1. Ring!_incAndWrap(p) \in Ring!Slot
  BY RingConstants, AfterIs DEF Ring!_incAndWrap, Ring!After
<1>2. buf[p] \in Nat /\ buf[Ring!_incAndWrap(p)] \in Nat
  BY <1>1, BytesAre DEF Ring!TypeOK
<1>3. QED
  BY <1>2 DEF Ring!EntrySize

\* Entries as it refers to itself.
EntryOf(f, n) ==
  IF n = 0 THEN <<>>
  ELSE LET p == Ring!After(back, S - n)
           size == 2 + Ring!EntrySize(p)
       IN  IF size > n \/ size < 2 + OobLen THEN <<"broken">>
           ELSE <<[oob |-> Ring!Oob(p), body |-> Ring!Body(p, size - 2 - OobLen)]>>
                  \o f[n - size]

LEMMA EntryOfLess ==
  ASSUME Ring!TypeOK, NEW n \in 0 .. S, NEW f, NEW g, \A k \in 0 .. n - 1 : f[k] = g[k]
  PROVE  EntryOf(f, n) = EntryOf(g, n)
<1>1. CASE n = 0
  BY <1>1 DEF EntryOf
<1>2. CASE n # 0
  <2> DEFINE p == Ring!After(back, S - n)
             size == 2 + Ring!EntrySize(p)
  <2>1. n \in Nat /\ S - n \in 0 .. S
    BY RingConstants
  <2>2. p \in Ring!Slot
    BY <2>1, AfterIs DEF Ring!TypeOK
  <2>3. size \in Nat /\ size > 0
    BY <2>2, EntrySizeIs
  <2> HIDE DEF p, size
  <2>4. ~(size > n) => f[n - size] = g[n - size]
    BY <2>1, <2>3
  <2>5. QED
    BY <1>2, <2>4 DEF EntryOf, p, size
<1>3. QED
  BY <1>1, <1>2

LEMMA EntriesUnfold ==
  ASSUME Ring!TypeOK
  PROVE  \A n \in 0 .. S : Ring!Entries[n] = EntryOf(Ring!Entries, n)
<1> DEFINE Defines(f, N) == f = [n \in 0 .. N |-> EntryOf(f, n)]
           T == {N \in Nat : N <= S => \E f : Defines(f, N)}
<1>1. 0 \in T
  <2> DEFINE f == [n \in 0 .. 0 |-> <<>>]
  <2>1. \A n \in 0 .. 0 : EntryOf(f, n) = <<>>
    BY DEF EntryOf
  <2>2. Defines(f, 0)
    BY <2>1
  <2> HIDE DEF f
  <2>3. QED
    BY <2>2
<1>2. ASSUME NEW N \in Nat, N \in T PROVE N + 1 \in T
  <2> SUFFICES ASSUME N + 1 <= S PROVE \E f : Defines(f, N + 1)
    OBVIOUS
  <2>1. PICK f : Defines(f, N)
    BY <1>2, RingConstants
  <2> DEFINE g == [n \in 0 .. N + 1 |-> IF n = N + 1 THEN EntryOf(f, n) ELSE f[n]]
  <2>2. ASSUME NEW n \in 0 .. N + 1 PROVE g[n] = EntryOf(g, n)
    <3>1. \A k \in 0 .. n - 1 : k \in 0 .. N + 1 /\ k # N + 1
      OBVIOUS
    <3>2. \A k \in 0 .. n - 1 : f[k] = g[k]
      BY <3>1
    <3>3. EntryOf(f, n) = EntryOf(g, n) /\ n \in 0 .. S
      BY <3>2, EntryOfLess, RingConstants
    <3>4. CASE n = N + 1
      BY <3>3, <3>4
    <3>5. CASE n # N + 1
      <4>1. n \in 0 .. N
        BY <3>5
      <4>2. f[n] = EntryOf(f, n)
        BY <2>1, <4>1, Zenon
      <4>3. QED
        BY <3>3, <3>5, <4>2
    <3>6. QED
      BY <3>4, <3>5
  <2>3. g = [n \in 0 .. N + 1 |-> EntryOf(g, n)]
    <3> DEFINE h == [n \in 0 .. N + 1 |-> EntryOf(g, n)]
    <3>1. \A n \in 0 .. N + 1 : g[n] = h[n]
      BY <2>2
    <3>2. QED
      BY <3>1
  <2> HIDE DEF g
  <2>4. QED
    BY <2>3
<1>3. S \in T
  <2> HIDE DEF T
  <2>1. Nat \subseteq T
    BY <1>1, <1>2, Induct
  <2>2. QED
    BY <2>1, RingConstants
<1>4. \E f : f = [n \in 0 .. S |-> EntryOf(f, n)]
  BY <1>3, RingConstants
<1>5. Ring!Entries = [n \in 0 .. S |-> EntryOf(Ring!Entries, n)]
  <2>1. Ring!Entries = CHOOSE f : f = [n \in 0 .. S |-> EntryOf(f, n)]
    BY DEF Ring!Entries, EntryOf
  <2>2. QED
    BY <1>4, <2>1, Zenon
<1>6. QED
  BY <1>5, Zenon

\* Going round the ring.
LEMMA AfterAfter ==
  ASSUME NEW p \in Ring!Slot, NEW a \in Nat, NEW b \in Nat, a + b <= S
  PROVE  Ring!After(Ring!After(p, a), b) = Ring!After(p, a + b)
<1>1. a \in 0 .. S /\ b \in 0 .. S /\ a + b \in 0 .. S
  BY RingConstants
<1>2. /\ Ring!After(p, a) = (IF p + a >= S THEN p + a - S ELSE p + a)
      /\ Ring!After(p, a) \in Ring!Slot
      /\ Ring!After(p, a + b) = (IF p + (a + b) >= S THEN p + (a + b) - S ELSE p + (a + b))
  BY <1>1, AfterIs
<1>3. Ring!After(Ring!After(p, a), b)
        = IF Ring!After(p, a) + b >= S THEN Ring!After(p, a) + b - S ELSE Ring!After(p, a) + b
  BY <1>1, <1>2, AfterIs
<1>4. p \in Nat /\ p < S /\ S \in Nat
  BY RingConstants
<1>5. QED
  BY <1>2, <1>3, <1>4

LEMMA AfterZero ==
  ASSUME NEW p \in Ring!Slot
  PROVE  Ring!After(p, 0) = p
<1>1. p \in Nat /\ p < S /\ S \in Nat
  BY RingConstants
<1>2. QED
  BY <1>1 DEF Ring!After

LEMMA Distance ==
  ASSUME NEW p \in Ring!Slot, NEW n \in 0 .. S - 1
  PROVE  /\ Ring!After(p, n) \in Ring!Slot
         /\ Ring!After(Ring!After(p, n), S - p) = n
<1>1. n \in 0 .. S /\ S - p \in 0 .. S /\ p \in Nat /\ p < S /\ S \in Nat
  BY RingConstants
<1>2. /\ Ring!After(p, n) = (IF p + n >= S THEN p + n - S ELSE p + n)
      /\ Ring!After(p, n) \in Ring!Slot
  BY <1>1, AfterIs
<1>3. Ring!After(Ring!After(p, n), S - p)
        = IF Ring!After(p, n) + (S - p) >= S THEN Ring!After(p, n) + (S - p) - S
          ELSE Ring!After(p, n) + (S - p)
  BY <1>1, <1>2, AfterIs
<1>4. QED
  BY <1>1, <1>2, <1>3

-----------------------------------------------------------------------------
(* Where the messages lie.                                                  *)

Length(m) == Ring!Queue!Size(m)
Encoded(m) == Ring!Header(OobLen + Len(m.body)) \o m.oob \o m.body

\* The bytes of m are in the ring from the slot p on.
Stored(p, m) == \A k \in 1 .. Length(m) : buf[Ring!After(p, k - 1)] = Encoded(m)[k]

\* The messages of q begin st[1], st[2], ... bytes behind the front, and end
\* at the back.
Laid(q, st) ==
  /\ q \in Seq(Messages) /\ st \in [1 .. Len(q) + 1 -> 0 .. S - 1]
  /\ st[1] = 0
  /\ \A i \in 1 .. Len(q) :
       st[i + 1] = st[i] + Length(q[i]) /\ st[i + 1] <= st[Len(q) + 1]
  /\ back = Ring!After(front, st[Len(q) + 1])
  /\ \A i \in 1 .. Len(q) : Stored(Ring!After(front, st[i]), q[i])

RingInv == Ring!TypeOK /\ \E q, st : Laid(q, st)

LEMMA HeaderIs ==
  ASSUME NEW n \in Nat, n < 65536
  PROVE  /\ Ring!Header(n) \in Seq(Ring!Byte) /\ Len(Ring!Header(n)) = 2
         /\ 256 * Ring!Header(n)[1] + Ring!Header(n)[2] = n
<1>1. n \div 256 \in Nat /\ n \div 256 < 256 /\ n % 256 \in Nat /\ n % 256 < 256
      /\ 256 * (n \div 256) + (n % 256) = n
  OBVIOUS
<1>2. (n \div 256) % 256 = n \div 256
  BY <1>1
<1>3. \A b \in Nat : b < 256 => b \in Ring!Byte
  BY DEF Ring!Byte
<1>4. n \div 256 \in Ring!Byte /\ n % 256 \in Ring!Byte
  BY <1>1, <1>3
<1>5. QED
  BY <1>1, <1>2, <1>4 DEF Ring!Header

LEMMA Concat ==
  ASSUME NEW T, NEW s \in Seq(T), NEW t \in Seq(T)
  PROVE  /\ s \o t \in Seq(T) /\ Len(s \o t) = Len(s) + Len(t)
         /\ \A i \in 1 .. Len(s) : (s \o t)[i] = s[i]
         /\ \A i \in 1 .. Len(t) : (s \o t)[Len(s) + i] = t[i]
OBVIOUS

LEMMA Concat3 ==
  ASSUME NEW T, NEW h \in Seq(T), NEW o \in Seq(T), NEW b \in Seq(T), NEW e,
         e = h \o o \o b
  PROVE  /\ e \in Seq(T) /\ Len(e) = Len(h) + Len(o) + Len(b)
         /\ \A j \in 1 .. Len(h) : e[j] = h[j]
         /\ \A j \in 1 .. Len(o) : e[Len(h) + j] = o[j]
         /\ \A j \in 1 .. Len(b) : e[Len(h) + Len(o) + j] = b[j]
<1> DEFINE ho == h \o o
<1>1. /\ ho \in Seq(T) /\ Len(ho) = Len(h) + Len(o)
      /\ \A i \in 1 .. Len(h) : ho[i] = h[i]
      /\ \A i \in 1 .. Len(o) : ho[Len(h) + i] = o[i]
  BY Concat
<1>2. e = ho \o b
  OBVIOUS
<1> HIDE DEF ho
<1>3. /\ e \in Seq(T) /\ Len(e) = Len(ho) + Len(b)
      /\ \A i \in 1 .. Len(ho) : e[i] = ho[i]
      /\ \A i \in 1 .. Len(b) : e[Len(ho) + i] = b[i]
  <2> SUFFICES /\ ho \o b \in Seq(T) /\ Len(ho \o b) = Len(ho) + Len(b)
               /\ \A i \in 1 .. Len(ho) : (ho \o b)[i] = ho[i]
               /\ \A i \in 1 .. Len(b) : (ho \o b)[Len(ho) + i] = b[i]
    BY <1>2
  <2>1. ho \in Seq(T) /\ b \in Seq(T)
    BY <1>1
  <2>2. QED
    BY <2>1, Concat
<1>4. Len(h) \in Nat /\ Len(o) \in Nat /\ Len(b) \in Nat
  OBVIOUS
<1>5. \A j \in 1 .. Len(h) : j \in 1 .. Len(ho) /\ e[j] = h[j]
  BY ONLY <1>1, <1>3, <1>4
<1>6. \A j \in 1 .. Len(o) : e[Len(h) + j] = o[j]
  <2>1. \A j \in 1 .. Len(o) : Len(h) + j \in 1 .. Len(ho)
    BY ONLY <1>1, <1>4
  <2>2. QED
    BY ONLY <1>1, <1>3, <2>1
<1>7. \A j \in 1 .. Len(b) : e[Len(h) + Len(o) + j] = b[j]
  BY ONLY <1>1, <1>3, <1>4
<1>8. e \in Seq(T) /\ Len(e) = Len(h) + Len(o) + Len(b)
  BY ONLY <1>1, <1>3
<1>9. QED
  BY ONLY <1>5, <1>6, <1>7, <1>8

LEMMA EncodedIs ==
  ASSUME NEW m \in Messages
  PROVE  /\ Length(m) \in Nat /\ Length(m) = 2 + OobLen + Len(m.body)
         /\ Encoded(m) \in Seq(Ring!Byte) /\ Len(Encoded(m)) = Length(m)
         /\ 256 * Encoded(m)[1] + Encoded(m)[2] = Length(m) - 2
         /\ \A j \in 1 .. OobLen : Encoded(m)[2 + j] = m.oob[j]
         /\ \A j \in 1 .. Len(m.body) : Encoded(m)[2 + OobLen + j] = m.body[j]
<1> DEFINE n == OobLen + Len(m.body)
           h == Ring!Header(n)
           o == m.oob
           b == m.body
           e == Encoded(m)
           Pair(x, y) == 256 * x + y
<1>1. m \in [oob : Seq(Ring!Byte), body : Seq(Ring!Byte)] /\ Len(o) = OobLen
  BY MessagesAre
<1>2. o \in Seq(Ring!Byte) /\ b \in Seq(Ring!Byte)
  BY <1>1
<1>3. Len(b) \in Nat /\ OobLen \in Nat /\ n \in Nat
  BY <1>2, RingConstants
<1>4. h \in Seq(Ring!Byte) /\ Len(h) = 2 /\ Pair(h[1], h[2]) = n
  <2>1. n < 65536
    BY MessagesAre
  <2> HIDE DEF n
  <2>2. QED
    BY <1>3, <2>1, HeaderIs
<1>5. Length(m) = 2 + Len(o) + Len(b)
  BY DEF Length, Ring!Queue!Size
<1>6. e = h \o o \o b
  BY DEF Encoded
<1>7. n = OobLen + Len(b)
  OBVIOUS
<1> HIDE DEF n, h, o, b, e, Pair
<1>8. /\ e \in Seq(Ring!Byte) /\ Len(e) = Len(h) + Len(o) + Len(b)
      /\ \A j \in 1 .. Len(h) : e[j] = h[j]
      /\ \A j \in 1 .. Len(o) : e[Len(h) + j] = o[j]
      /\ \A j \in 1 .. Len(b) : e[Len(h) + Len(o) + j] = b[j]
  <2>1. h \in Seq(Ring!Byte) /\ o \in Seq(Ring!Byte) /\ b \in Seq(Ring!Byte)
    BY <1>2, <1>4
  <2>2. QED
    BY <1>6, <2>1, Concat3
<1>9. e[1] = h[1] /\ e[2] = h[2] /\ \A j \in 1 .. OobLen : e[2 + j] = o[j]
  BY <1>1, <1>4, <1>8
<1>10. \A j \in 1 .. Len(b) : e[2 + OobLen + j] = b[j]
  BY <1>1, <1>4, <1>8
<1>11. Pair(e[1], e[2]) = Length(m) - 2
  <2>1. Length(m) - 2 = n
    BY <1>1, <1>3, <1>5, <1>7
  <2>2. QED
    BY <1>4, <1>9, <2>1
<1>12. /\ Length(m) \in Nat /\ Length(m) = 2 + OobLen + Len(b)
       /\ Len(e) = Length(m)
  BY <1>1, <1>3, <1>4, <1>5, <1>8
<1>13. QED
  BY <1>8, <1>9, <1>10, <1>11, <1>12, Zenon DEF o, b, e, Pair

\* Back from the end of n bytes to their start, by going on round the ring.
LEMMA AfterRound ==
  ASSUME NEW p \in Ring!Slot, NEW d \in 0 .. S - 1, NEW a \in 0 .. d
  PROVE  Ring!After(Ring!After(p, d), S - (d - a)) = Ring!After(p, a)
<1>1. /\ d \in 0 .. S /\ a \in 0 .. S /\ S - (d - a) \in 0 .. S
      /\ p \in Nat /\ p < S /\ S \in Nat /\ a <= d
  BY RingConstants
<1>2. /\ Ring!After(p, d) = (IF p + d >= S THEN p + d - S ELSE p + d)
      /\ Ring!After(p, d) \in Ring!Slot
      /\ Ring!After(p, a) = (IF p + a >= S THEN p + a - S ELSE p + a)
  BY <1>1, AfterIs
<1>3. Ring!After(Ring!After(p, d), S - (d - a))
        = IF Ring!After(p, d) + (S - (d - a)) >= S THEN Ring!After(p, d) + (S - (d - a)) - S
          ELSE Ring!After(p, d) + (S - (d - a))
  BY <1>1, <1>2, AfterIs
<1>4. QED
  BY <1>1, <1>2, <1>3

LEMMA SeqExt ==
  ASSUME NEW T, NEW s \in Seq(T), NEW n \in 0 .. Len(s), NEW f,
         f = [i \in 1 .. n |-> s[i]]
  PROVE  f = SubSeq(s, 1, n) /\ (n = Len(s) => f = s)
OBVIOUS

\* What a reader finds where m is stored.
LEMMA StoredReads ==
  ASSUME Ring!TypeOK, NEW p \in Ring!Slot, NEW m \in Messages, Length(m) < S, Stored(p, m)
  PROVE  /\ Ring!EntrySize(p) = Length(m) - 2
         /\ Ring!Oob(p) = m.oob
         /\ \A n \in 0 .. Len(m.body) : Ring!Body(p, n) = SubSeq(m.body, 1, n)
         /\ Ring!Body(p, Len(m.body)) = m.body
<1> DEFINE e == Encoded(m)
           Pair(x, y) == 256 * x + y
<1>1. /\ Length(m) \in Nat /\ Length(m) = 2 + OobLen + Len(m.body)
      /\ Pair(e[1], e[2]) = Length(m) - 2
      /\ \A j \in 1 .. OobLen : e[2 + j] = m.oob[j]
      /\ \A j \in 1 .. Len(m.body) : e[2 + OobLen + j] = m.body[j]
  BY EncodedIs
<1>2. m.oob \in Seq(Ring!Byte) /\ m.body \in Seq(Ring!Byte) /\ Len(m.oob) = OobLen
  BY MessagesAre
<1> DEFINE L == Len(m.body)
           Z == Length(m)
<1>3. /\ OobLen \in Nat /\ L \in Nat /\ S \in Nat /\ p \in Nat /\ p < S
      /\ Z \in Nat /\ Z < S /\ Z = 2 + OobLen + L
  <2>1. Z \in Nat /\ Z < S /\ Z = 2 + OobLen + L
    BY <1>1
  <2>2. L \in Nat
    BY <1>2
  <2> HIDE DEF Z, L
  <2>3. QED
    BY <2>1, <2>2, RingConstants
<1> HIDE DEF e, L, Z
<1>4. \A j \in 0 .. Z - 1 : buf[Ring!After(p, j)] = e[j + 1]
  <2> SUFFICES ASSUME NEW j \in 0 .. Z - 1
               PROVE  buf[Ring!After(p, j)] = e[j + 1]
    OBVIOUS
  <2>1. j + 1 \in 1 .. Z /\ (j + 1) - 1 = j
    BY <1>3
  <2>2. buf[Ring!After(p, (j + 1) - 1)] = e[j + 1]
    BY <2>1 DEF Stored, e, Z
  <2>3. QED
    BY <2>1, <2>2
<1>5. Ring!EntrySize(p) = Length(m) - 2
  <2>1. Ring!After(p, 0) = p
    BY <1>3, AfterIs
  <2>2. Ring!_incAndWrap(p) = Ring!After(p, 1)
    BY DEF Ring!_incAndWrap, Ring!After
  <2>3. 0 \in 0 .. Z - 1 /\ 1 \in 0 .. Z - 1
    BY <1>3
  <2>4. buf[p] = e[1] /\ buf[Ring!_incAndWrap(p)] = e[2]
    BY <1>4, <2>1, <2>2, <2>3
  <2>5. Ring!EntrySize(p) = Pair(buf[p], buf[Ring!_incAndWrap(p)])
    BY DEF Ring!EntrySize
  <2> HIDE DEF Pair
  <2>6. QED
    BY <1>1, <2>4, <2>5
<1> HIDE DEF Pair
<1>6. \A a, i \in Nat : a + i < Z =>
        buf[Ring!After(Ring!After(p, a), i)] = e[a + i + 1]
  <2> SUFFICES ASSUME NEW a \in Nat, NEW i \in Nat, a + i < Z
               PROVE  buf[Ring!After(Ring!After(p, a), i)] = e[a + i + 1]
    OBVIOUS
  <2>1. Ring!After(Ring!After(p, a), i) = Ring!After(p, a + i)
    <3>1. a + i <= S
      BY <1>3
    <3>2. QED
      BY <3>1, AfterAfter
  <2>2. a + i \in 0 .. Z - 1
    BY <1>3
  <2>3. QED
    BY <1>4, <2>1, <2>2
<1>7. Ring!Oob(p) = m.oob
  <2>1. \A i \in 1 .. OobLen : buf[Ring!After(Ring!After(p, 2), i - 1)] = m.oob[i]
    <3> SUFFICES ASSUME NEW i \in 1 .. OobLen
                 PROVE  buf[Ring!After(Ring!After(p, 2), i - 1)] = m.oob[i]
      OBVIOUS
    <3>1. i - 1 \in Nat /\ 2 + (i - 1) < Z /\ 2 + (i - 1) + 1 = 2 + i
      BY <1>3
    <3>2. buf[Ring!After(Ring!After(p, 2), i - 1)] = e[2 + i]
      BY <1>6, <3>1
    <3>3. QED
      BY <1>1, <3>2
  <2>2. Ring!Oob(p) = [i \in 1 .. OobLen |-> m.oob[i]]
    BY <2>1 DEF Ring!Oob, Ring!Run
  <2>3. OobLen \in 0 .. Len(m.oob)
    BY <1>2, <1>3
  <2>4. QED
    BY <1>2, <2>2, <2>3, SeqExt
<1>8. ASSUME NEW n \in 0 .. Len(m.body)
      PROVE  Ring!Body(p, n) = SubSeq(m.body, 1, n) /\ (n = Len(m.body) => Ring!Body(p, n) = m.body)
  <2>1. \A i \in 1 .. n : buf[Ring!After(Ring!After(p, 2 + OobLen), i - 1)] = m.body[i]
    <3> SUFFICES ASSUME NEW i \in 1 .. n
                 PROVE  buf[Ring!After(Ring!After(p, 2 + OobLen), i - 1)] = m.body[i]
      OBVIOUS
    <3> n \in Nat /\ n <= L
      BY <1>3 DEF L
    <3>1. /\ i - 1 \in Nat /\ 2 + OobLen \in Nat /\ (2 + OobLen) + (i - 1) < Z
          /\ (2 + OobLen) + (i - 1) + 1 = 2 + OobLen + i /\ i \in 1 .. L
      BY <1>3
    <3>2. buf[Ring!After(Ring!After(p, 2 + OobLen), i - 1)] = e[2 + OobLen + i]
      BY <1>6, <3>1
    <3>3. QED
      BY <1>1, <3>1, <3>2 DEF L
  <2>2. Ring!Body(p, n) = [i \in 1 .. n |-> m.body[i]]
    BY <2>1 DEF Ring!Body, Ring!Run
  <2>3. QED
    BY <1>2, <2>2, SeqExt
<1>9. Len(m.body) \in 0 .. Len(m.body)
  BY <1>3 DEF L
<1>10. QED
  BY <1>5, <1>7, <1>8, <1>9

\* What Laid gives of the i-th message.
LEMMA LaidEntry ==
  ASSUME Ring!TypeOK, NEW q, NEW st, Laid(q, st), NEW i \in 1 .. Len(q)
  PROVE  /\ q[i] \in Messages
         /\ st[i] \in 0 .. S - 1 /\ st[i + 1] \in 0 .. S - 1
         /\ st[Len(q) + 1] \in 0 .. S - 1
         /\ st[i + 1] = st[i] + Length(q[i]) /\ st[i + 1] <= st[Len(q) + 1]
         /\ Length(q[i]) \in Nat /\ Length(q[i]) < S /\ Length(q[i]) >= 2 + OobLen
         /\ Ring!After(front, st[i]) \in Ring!Slot
         /\ Ring!EntrySize(Ring!After(front, st[i])) = Length(q[i]) - 2
         /\ Ring!Oob(Ring!After(front, st[i])) = q[i].oob
         /\ \A n \in 0 .. Len(q[i].body) :
              Ring!Body(Ring!After(front, st[i]), n) = SubSeq(q[i].body, 1, n)
         /\ Ring!Body(Ring!After(front, st[i]), Len(q[i].body)) = q[i].body
         /\ Len(q[i].body) = Length(q[i]) - 2 - OobLen
         /\ q[i] = [oob |-> q[i].oob, body |-> q[i].body]
<1>1. q \in Seq(Messages) /\ st \in [1 .. Len(q) + 1 -> 0 .. S - 1]
  BY DEF Laid
<1>2. q[i] \in Messages
  BY <1>1
<1>3. Len(q) \in Nat /\ i \in 1 .. Len(q) + 1 /\ i + 1 \in 1 .. Len(q) + 1
      /\ Len(q) + 1 \in 1 .. Len(q) + 1
  BY <1>1
<1>4. st[i] \in 0 .. S - 1 /\ st[i + 1] \in 0 .. S - 1 /\ st[Len(q) + 1] \in 0 .. S - 1
  BY <1>1, <1>3
<1>5. st[i + 1] = st[i] + Length(q[i]) /\ st[i + 1] <= st[Len(q) + 1]
      /\ Stored(Ring!After(front, st[i]), q[i])
  BY DEF Laid
<1>6. /\ q[i].body \in Seq(Ring!Byte)
      /\ q[i] = [oob |-> q[i].oob, body |-> q[i].body]
  BY <1>2, MessagesAre
<1> DEFINE Z == Length(q[i])
           B == Len(q[i].body)
<1>7. Z \in Nat /\ Z = 2 + OobLen + B /\ B \in Nat
  BY <1>2, <1>6, EncodedIs
<1> HIDE DEF Z, B
<1>8. st[i + 1] = st[i] + Z
  BY <1>5 DEF Z
<1>9. Z < S /\ Z >= 2 + OobLen /\ B = Z - 2 - OobLen /\ st[i] \in 0 .. S
  BY <1>4, <1>7, <1>8, RingConstants
<1>10. Ring!After(front, st[i]) \in Ring!Slot
  BY <1>9, AfterIs DEF Ring!TypeOK
<1>11. /\ Ring!EntrySize(Ring!After(front, st[i])) = Length(q[i]) - 2
       /\ Ring!Oob(Ring!After(front, st[i])) = q[i].oob
       /\ \A n \in 0 .. Len(q[i].body) :
            Ring!Body(Ring!After(front, st[i]), n) = SubSeq(q[i].body, 1, n)
       /\ Ring!Body(Ring!After(front, st[i]), Len(q[i].body)) = q[i].body
  BY <1>2, <1>5, <1>9, <1>10, StoredReads DEF Z
<1>12. QED
  BY <1>2, <1>4, <1>5, <1>6, <1>7, <1>9, <1>10, <1>11 DEF Z, B

\* The bytes that are stored before back meets front.
Room == IF Ring!isEmpty THEN S ELSE Ring!After(front, S - back)

\* The room taken, in both pointers' terms.
LEMMA LaidEnds ==
  ASSUME Ring!TypeOK, NEW q, NEW st, Laid(q, st)
  PROVE  /\ Len(q) \in Nat /\ st[1] = 0
         /\ st[Len(q) + 1] \in 0 .. S - 1
         /\ back = Ring!After(front, st[Len(q) + 1])
         /\ Ring!After(back, S - front) = st[Len(q) + 1]
         /\ Ring!isEmpty <=> q = <<>>
         /\ Room = S - st[Len(q) + 1]
<1> DEFINE D == st[Len(q) + 1]
<1>1. /\ Len(q) \in Nat /\ st[1] = 0 /\ D \in 0 .. S - 1 /\ back = Ring!After(front, D)
      /\ q \in Seq(Messages)
  <2>1. /\ q \in Seq(Messages) /\ st \in [1 .. Len(q) + 1 -> 0 .. S - 1] /\ st[1] = 0
        /\ back = Ring!After(front, D)
    BY DEF Laid
  <2>2. Len(q) \in Nat /\ Len(q) + 1 \in 1 .. Len(q) + 1
    BY <2>1
  <2>3. QED
    BY <2>1, <2>2
<1> HIDE DEF D
<1>2. front \in Nat /\ front < S /\ S \in Nat /\ front \in Ring!Slot /\ S - front \in 0 .. S
  BY RingConstants DEF Ring!TypeOK
<1>3. Ring!After(back, S - front) = D
  BY <1>1, <1>2, Distance
<1>4. /\ back = (IF front + D >= S THEN front + D - S ELSE front + D)
      /\ back \in Ring!Slot
  <2>1. D \in 0 .. S
    BY <1>1, RingConstants
  <2>2. QED
    BY <1>1, <1>2, <2>1, AfterIs
<1>5. front = back <=> D = 0
  BY <1>1, <1>2, <1>4
<1>6. Room = S - D
  <2>1. CASE D = 0
    BY <1>2, <1>5, <2>1 DEF Room, Ring!isEmpty
  <2>2. CASE D # 0
    <3>1. S - back \in 0 .. S
      BY <1>1, <1>2, <1>4
    <3>2. Ring!After(front, S - back)
            = IF front + (S - back) >= S THEN front + (S - back) - S ELSE front + (S - back)
      BY <1>2, <3>1, AfterIs
    <3>3. Ring!After(front, S - back) = S - D
      BY <1>1, <1>2, <1>4, <2>2, <3>2
    <3>4. QED
      BY <1>5, <2>2, <3>3 DEF Room, Ring!isEmpty
  <2>3. QED
    BY <2>1, <2>2
<1>7. D = 0 <=> q = <<>>
  <2>1. q = <<>> => D = 0
    BY <1>1 DEF D
  <2>2. ASSUME q # <<>> PROVE D # 0
    <3>1. Len(q) \in 1 .. Len(q)
      BY <1>1, <2>2
    <3>2. /\ st[Len(q)] \in 0 .. S - 1 /\ D = st[Len(q)] + Length(q[Len(q)])
          /\ Length(q[Len(q)]) \in Nat /\ Length(q[Len(q)]) >= 2 + OobLen
      BY <3>1, LaidEntry DEF D
    <3>3. QED
      BY <3>2, RingConstants
  <2>3. QED
    BY <2>1, <2>2
<1>8. QED
  BY <1>1, <1>3, <1>5, <1>6, <1>7 DEF D, Ring!isEmpty

\* Reading entry by entry from front gives the messages as they were laid.
LEMMA ContentsAre ==
  ASSUME Ring!TypeOK, NEW q, NEW st, Laid(q, st)
  PROVE  Ring!Contents = q
<1> DEFINE L == Len(q)
           D == st[L + 1]
           Suffix(k) == Ring!Entries[D - st[(L + 1) - k]] = SubSeq(q, (L + 1) - k, L)
           T == {k \in Nat : k <= L => Suffix(k)}
<1>1. /\ L \in Nat /\ st[1] = 0 /\ D \in 0 .. S - 1
      /\ back = Ring!After(front, D) /\ Ring!After(back, S - front) = D
  BY LaidEnds
<1>2. q \in Seq(Messages)
  BY DEF Laid
<1>3. 0 \in T
  <2>1. (L + 1) - 0 = L + 1 /\ D - D = 0
    BY <1>1
  <2>2. Ring!Entries[0] = <<>>
    <3>1. 0 \in 0 .. S
      BY RingConstants
    <3>2. QED
      BY <3>1, EntriesUnfold DEF EntryOf
  <2>3. SubSeq(q, L + 1, L) = <<>>
    BY <1>1, <1>2
  <2>4. QED
    BY <2>1, <2>2, <2>3
<1>4. ASSUME NEW k \in Nat, k \in T PROVE k + 1 \in T
  <2> SUFFICES ASSUME k + 1 <= L PROVE Suffix(k + 1)
    OBVIOUS
  <2> DEFINE i == L - k
             p == Ring!After(front, st[i])
             n == D - st[i]
             Z == Length(q[i])
  <2>1. i \in 1 .. L /\ (L + 1) - (k + 1) = i /\ (L + 1) - k = i + 1 /\ k <= L
    BY <1>1
  <2>2. Ring!Entries[D - st[i + 1]] = SubSeq(q, i + 1, L)
    BY <1>4, <2>1
  <2> HIDE DEF i
  <2>3. /\ st[i] \in 0 .. S - 1 /\ st[i + 1] = st[i] + Z /\ st[i + 1] <= D
        /\ Z \in Nat /\ Z >= 2 + OobLen
        /\ Ring!EntrySize(p) = Z - 2 /\ Ring!Oob(p) = q[i].oob
        /\ Ring!Body(p, Len(q[i].body)) = q[i].body /\ Len(q[i].body) = Z - 2 - OobLen
        /\ q[i] = [oob |-> q[i].oob, body |-> q[i].body]
    BY <2>1, LaidEntry
  <2>4. Ring!After(back, S - n) = p
    <3>1. st[i] \in 0 .. D /\ front \in Ring!Slot
      BY <1>1, <2>3 DEF Ring!TypeOK
    <3> HIDE DEF D
    <3>2. QED
      BY <1>1, <3>1, AfterRound
  <2> HIDE DEF p, Z, D
  <2>5. n \in 0 .. S /\ n # 0 /\ n - Z = D - st[i + 1] /\ ~(Z > n) /\ ~(Z < 2 + OobLen)
    <3> DEFINE a == st[i]
               b == st[i + 1]
    <3>1. /\ a \in Nat /\ b = a + Z /\ b <= D /\ D \in Nat /\ D <= S - 1
          /\ Z \in Nat /\ Z >= 2 + OobLen /\ OobLen \in Nat /\ S \in Nat
      BY <1>1, <2>3, RingConstants
    <3> HIDE DEF a, b
    <3>2. /\ D - a \in 0 .. S /\ D - a # 0 /\ (D - a) - Z = D - b
          /\ ~(Z > D - a) /\ ~(Z < 2 + OobLen)
      BY <3>1
    <3>3. QED
      BY <3>2 DEF a, b
  <2> HIDE DEF n
  <2>6. 2 + Ring!EntrySize(p) = Z
    BY <2>3
  <2>7. Ring!Entries[n] = <<[oob |-> Ring!Oob(p), body |-> Ring!Body(p, Z - 2 - OobLen)]>>
                            \o Ring!Entries[n - Z]
    <3>1. Ring!Entries[n] = EntryOf(Ring!Entries, n)
      BY <2>5, EntriesUnfold
    <3>2. QED
      BY <2>4, <2>5, <2>6, <3>1 DEF EntryOf
  <2>8. Ring!Entries[n] = <<q[i]>> \o SubSeq(q, i + 1, L)
    BY <2>2, <2>3, <2>5, <2>7
  <2>9. <<q[i]>> \o SubSeq(q, i + 1, L) = SubSeq(q, i, L)
    BY <1>1, <1>2, <2>1
  <2>10. QED
    BY <2>1, <2>8, <2>9 DEF n
<1>5. L \in T
  <2> HIDE DEF T
  <2>1. Nat \subseteq T
    BY <1>3, <1>4, Induct
  <2>2. QED
    BY <1>1, <2>1
<1>6. Suffix(L)
  BY <1>1, <1>5
<1>7. (L + 1) - L = 1 /\ D - 0 = D /\ SubSeq(q, 1, L) = q
  BY <1>1, <1>2
<1>8. QED
  BY <1>1, <1>6, <1>7 DEF Ring!Contents

\* The queue's room is taken up to where the last message ends.
LEMMA UsedIs ==
  ASSUME Ring!TypeOK, NEW q, NEW st, Laid(q, st)
  PROVE  Ring!Queue!Used = st[Len(q) + 1]
<1> DEFINE L == Len(q)
           Sums(f) == f = [n \in 0 .. L |-> IF n = 0 THEN 0 ELSE f[n - 1] + Length(q[n])]
           g == [n \in 0 .. L |-> st[n + 1]]
<1>1. L \in Nat /\ st[1] = 0
  BY LaidEnds
<1>2. \A n \in 1 .. L : st[n + 1] = st[n] + Length(q[n])
  BY LaidEntry
<1>3. \A n \in 1 .. L : n - 1 \in 0 .. L /\ n \in 0 .. L /\ n # 0 /\ (n - 1) + 1 = n
  BY <1>1
<1>4. Sums(g)
  <2>1. \A n \in 0 .. L : n # 0 => n \in 1 .. L
    BY <1>1
  <2> HIDE DEF L
  <2>2. \A n \in 0 .. L : st[n + 1] = IF n = 0 THEN 0 ELSE g[n - 1] + Length(q[n])
    <3> SUFFICES ASSUME NEW n \in 0 .. L
                 PROVE  st[n + 1] = IF n = 0 THEN 0 ELSE g[n - 1] + Length(q[n])
      OBVIOUS
    <3>1. CASE n = 0
      BY <1>1, <3>1
    <3>2. CASE n # 0
      <4>1. n \in 1 .. L
        BY <2>1, <3>2
      <4>2. g[n - 1] = st[n]
        BY <1>3, <4>1
      <4>3. QED
        BY <1>2, <3>2, <4>1, <4>2
    <3>3. QED
      BY <3>1, <3>2
  <2>3. QED
    BY <2>2
<1>5. Ring!Queue!Sizes = CHOOSE f : Sums(f)
  <2>1. Ring!Contents = q
    BY ContentsAre
  <2>2. QED
    BY <2>1 DEF Ring!Queue!Sizes, Length
<1>6. Sums(Ring!Queue!Sizes)
  BY <1>4, <1>5, Zenon
<1> DEFINE s == Ring!Queue!Sizes
<1>7. s[0] = 0 /\ \A n \in 1 .. L : s[n] = s[n - 1] + Length(q[n])
  <2> HIDE DEF s, L
  <2>1. s = [n \in 0 .. L |-> IF n = 0 THEN 0 ELSE s[n - 1] + Length(q[n])]
    BY <1>6 DEF s
  <2>2. 0 \in 0 .. L
    BY <1>1
  <2>3. \A n \in 0 .. L : s[n] = IF n = 0 THEN 0 ELSE s[n - 1] + Length(q[n])
    BY <2>1, Zenon
  <2>4. QED
    BY <1>3, <2>2, <2>3
<1> DEFINE T == {n \in Nat : n <= L => s[n] = st[n + 1]}
<1> HIDE DEF s
<1>8. 0 \in T
  BY <1>1, <1>7
<1>9. ASSUME NEW n \in Nat, n \in T PROVE n + 1 \in T
  <2> SUFFICES ASSUME n + 1 <= L PROVE s[n + 1] = st[(n + 1) + 1]
    OBVIOUS
  <2>1. n + 1 \in 1 .. L /\ (n + 1) - 1 = n /\ n <= L
    BY <1>1
  <2>2. s[n] = st[n + 1]
    BY <1>9, <2>1
  <2>3. s[n + 1] = s[n] + Length(q[n + 1])
    BY <1>7, <2>1
  <2>4. st[(n + 1) + 1] = st[n + 1] + Length(q[n + 1])
    BY <1>2, <2>1
  <2>5. QED
    BY <2>2, <2>3, <2>4
<1>10. L \in T
  <2> HIDE DEF T
  <2>1. Nat \subseteq T
    BY <1>8, <1>9, Induct
  <2>2. QED
    BY <1>1, <2>1
<1>11. s[L] = st[L + 1]
  BY <1>1, <1>10
<1>12. Ring!Queue!Used = s[L]
  BY ContentsAre DEF Ring!Queue!Used, s
<1>13. QED
  BY <1>11, <1>12

-----------------------------------------------------------------------------
(* push.                                                                    *)

\* The first n bytes stored: a byte at a time up to the one that fills the ring.
Kth(i) == Ring!After(i, S - back) + 1
Stores(n) == Ring!Lesser(n, Room)
Pushed(bytes, n) ==
  [buf |-> [i \in Ring!Slot |-> IF Kth(i) <= Stores(n) THEN bytes[Kth(i)] ELSE buf[i]],
   back |-> Ring!After(back, Stores(n)),
   ok |-> n < Room]

\* The n-th slot after back, and no other, is n slots after it.
LEMMA KthIs ==
  ASSUME Ring!TypeOK
  PROVE  /\ \A i \in Ring!Slot : Kth(i) \in 1 .. S
         /\ \A i \in Ring!Slot, n \in 0 .. S - 1 : i = Ring!After(back, n) <=> Kth(i) = n + 1
<1>1. S \in Nat /\ back \in Ring!Slot /\ back \in Nat /\ back < S
  BY RingConstants DEF Ring!TypeOK
<1>2. ASSUME NEW i \in Ring!Slot
      PROVE  /\ i \in Nat /\ i < S
             /\ Kth(i) = (IF i + (S - back) >= S THEN i + (S - back) - S ELSE i + (S - back)) + 1
  <2>1. S - back \in 0 .. S
    BY <1>1
  <2>2. i \in Nat /\ i < S
    BY RingConstants
  <2>3. QED
    BY <2>1, <2>2, AfterIs DEF Kth
<1>3. ASSUME NEW n \in 0 .. S - 1
      PROVE  Ring!After(back, n) = IF back + n >= S THEN back + n - S ELSE back + n
  <2>1. n \in 0 .. S
    BY <1>1
  <2>2. QED
    BY <1>1, <2>1, AfterIs
<1>4. \A i \in Ring!Slot : Kth(i) \in 1 .. S
  BY <1>1, <1>2
<1>5. ASSUME NEW i \in Ring!Slot, NEW n \in 0 .. S - 1
      PROVE  i = Ring!After(back, n) <=> Kth(i) = n + 1
  <2>1. n \in Nat /\ n < S
    BY <1>1
  <2>2. QED
    BY <1>1, <1>2, <1>3, <2>1
<1>6. QED
  BY <1>4, <1>5

LEMMA PushByteIs ==
  ASSUME Ring!TypeOK, NEW q, NEW st, Laid(q, st), NEW bytes, NEW n \in Nat
  PROVE  Ring!PushByte(Pushed(bytes, n), bytes[n + 1]) = Pushed(bytes, n + 1)
<1> DEFINE D == st[Len(q) + 1]
           r == Pushed(bytes, n)
<1>1. D \in 0 .. S - 1 /\ back = Ring!After(front, D) /\ Room = S - D
  BY LaidEnds
<1> HIDE DEF D
<1>2. S \in Nat /\ back \in Ring!Slot /\ front \in Ring!Slot /\ front \in Nat /\ front < S
      /\ Room \in Nat /\ Room <= S
  BY <1>1, RingConstants DEF Ring!TypeOK
<1>3. r.ok = (n < Room)
  BY DEF Pushed
<1>4. CASE ~(n < Room)
  <2>1. ~(n + 1 < Room) /\ Stores(n + 1) = Stores(n)
    BY <1>2, <1>4 DEF Stores, Ring!Lesser
  <2>2. (n < Room) = FALSE /\ (n + 1 < Room) = FALSE
    BY <1>4, <2>1
  <2>3. Pushed(bytes, n + 1) = r
    BY <2>1, <2>2, Zenon DEF Pushed
  <2>4. Ring!PushByte(r, bytes[n + 1]) = r
    BY <1>3, <1>4 DEF Ring!PushByte
  <2>5. QED
    BY <2>3, <2>4
<1>5. CASE n < Room
  <2>1. /\ Stores(n) = n /\ Stores(n + 1) = n + 1 /\ n \in 0 .. S - 1 /\ n + 1 <= S /\ n \in 0 .. S
        /\ n + 1 \in 0 .. S
    <3>1. Stores(n) = n
      BY <1>2, <1>5 DEF Stores, Ring!Lesser
    <3>2. Stores(n + 1) = n + 1
      <4>1. n + 1 = Room \/ n + 1 < Room
        BY <1>2, <1>5
      <4>2. QED
        BY <4>1 DEF Stores, Ring!Lesser
    <3>3. QED
      BY <1>2, <1>5, <3>1, <3>2
  <2>2. /\ r.buf = [i \in Ring!Slot |-> IF Kth(i) <= n THEN bytes[Kth(i)] ELSE buf[i]]
        /\ r.back = Ring!After(back, n)
    BY <2>1 DEF Pushed
  <2>3. Ring!_incAndWrap(r.back) = Ring!After(back, n + 1)
    <3>1. Ring!After(Ring!After(back, n), 1) = Ring!After(back, n + 1)
      BY <1>2, <2>1, AfterAfter
    <3>2. QED
      BY <2>2, <3>1 DEF Ring!_incAndWrap, Ring!After
  <2>4. (Ring!After(back, n + 1) # front) = (n + 1 < Room)
    <3>1. /\ D + (n + 1) <= S /\ D + (n + 1) \in 0 .. S /\ D \in Nat /\ n + 1 \in Nat
          /\ D + (n + 1) # 0 /\ (n + 1 < Room <=> D + (n + 1) < S)
      BY <1>1, <1>2, <1>5
    <3>2. Ring!After(back, n + 1) = Ring!After(front, D + (n + 1))
      BY <1>1, <1>2, <3>1, AfterAfter
    <3> DEFINE x == D + (n + 1)
    <3>3. Ring!After(front, x) = IF front + x >= S THEN front + x - S ELSE front + x
      BY <1>2, <3>1, AfterIs
    <3>4. x \in Nat /\ x # 0 /\ x <= S
      BY <3>1
    <3> HIDE DEF x
    <3>5. Ring!After(front, x) # front <=> x < S
      BY <1>2, <3>3, <3>4
    <3>6. QED
      BY <3>1, <3>2, <3>5 DEF x
  <2>5. [r.buf EXCEPT ![r.back] = bytes[n + 1]]
          = [i \in Ring!Slot |-> IF Kth(i) <= n + 1 THEN bytes[Kth(i)] ELSE buf[i]]
    <3>1. \A i \in Ring!Slot : /\ Kth(i) \in Nat
                               /\ i = Ring!After(back, n) <=> Kth(i) = n + 1
      BY <1>2, <2>1, KthIs
    <3>2. ASSUME NEW i \in Ring!Slot
          PROVE  (IF i = Ring!After(back, n) THEN bytes[n + 1]
                  ELSE IF Kth(i) <= n THEN bytes[Kth(i)] ELSE buf[i])
                   = IF Kth(i) <= n + 1 THEN bytes[Kth(i)] ELSE buf[i]
      <4>1. CASE i = Ring!After(back, n)
        BY <3>1, <4>1
      <4>2. CASE i # Ring!After(back, n)
        <5>1. Kth(i) <= n <=> Kth(i) <= n + 1
          BY <3>1, <4>2
        <5>2. QED
          BY <4>2, <5>1
      <4>3. QED
        BY <4>1, <4>2
    <3>3. [r.buf EXCEPT ![r.back] = bytes[n + 1]]
            = [i \in Ring!Slot |-> IF i = Ring!After(back, n) THEN bytes[n + 1]
                                   ELSE IF Kth(i) <= n THEN bytes[Kth(i)] ELSE buf[i]]
      BY <2>2
    <3>4. QED
      BY <3>2, <3>3
  <2>6. Ring!PushByte(r, bytes[n + 1])
          = [buf |-> [i \in Ring!Slot |-> IF Kth(i) <= n + 1 THEN bytes[Kth(i)] ELSE buf[i]],
             back |-> Ring!After(back, n + 1), ok |-> n + 1 < Room]
    <3>1. r.ok
      BY <1>3, <1>5
    <3>2. Ring!PushByte(r, bytes[n + 1])
            = [buf |-> [r.buf EXCEPT ![r.back] = bytes[n + 1]],
               back |-> Ring!_incAndWrap(r.back), ok |-> Ring!_incAndWrap(r.back) # front]
      BY <3>1, Zenon DEF Ring!PushByte
    <3>3. QED
      BY <2>3, <2>4, <2>5, <3>2, Zenon
  <2>7. QED
    BY <2>1, <2>6, Zenon DEF Pushed
<1>6. QED
  BY <1>4, <1>5

LEMMA PushedAll ==
  ASSUME Ring!TypeOK, NEW q, NEW st, Laid(q, st), NEW bytes \in Seq(Ring!Byte)
  PROVE  Ring!_pushRaw(bytes) = Pushed(bytes, Len(bytes))
<1> DEFINE N == Len(bytes)
           none == [buf |-> buf, back |-> back, ok |-> TRUE]
           Steps(f) == f = [n \in 0 .. N |-> IF n = 0 THEN none
                                             ELSE Ring!PushByte(f[n - 1], bytes[n])]
           g == [n \in 0 .. N |-> Pushed(bytes, n)]
           s == CHOOSE f : Steps(f)
<1>1. Ring!_pushRaw(bytes) = s[N]
  BY DEF Ring!_pushRaw
<1>2. N \in Nat
  OBVIOUS
<1>3. Pushed(bytes, 0) = none
  <2> DEFINE D == st[Len(q) + 1]
  <2>1. D \in 0 .. S - 1 /\ Room = S - D
    BY LaidEnds
  <2> HIDE DEF D
  <2>2. Room \in Nat /\ 0 < Room
    BY <2>1, RingConstants
  <2>3. Stores(0) = 0
    BY <2>2 DEF Stores, Ring!Lesser
  <2>4. Ring!After(back, 0) = back
    BY AfterZero DEF Ring!TypeOK
  <2>5. \A i \in Ring!Slot : ~(Kth(i) <= 0)
    BY KthIs, RingConstants
  <2>6. [i \in Ring!Slot |-> IF Kth(i) <= 0 THEN bytes[Kth(i)] ELSE buf[i]] = buf
    BY <2>5 DEF Ring!TypeOK
  <2>7. (0 < Room) = TRUE
    BY <2>2
  <2>8. QED
    BY <2>3, <2>4, <2>6, <2>7, Zenon DEF Pushed
<1> HIDE DEF none, N
<1>4. \A n \in 0 .. N : n # 0 => /\ n - 1 \in 0 .. N /\ n - 1 \in Nat /\ (n - 1) + 1 = n
  BY <1>2
<1>5. Steps(g)
  <2>1. ASSUME NEW n \in 0 .. N
        PROVE  Pushed(bytes, n) = IF n = 0 THEN none ELSE Ring!PushByte(g[n - 1], bytes[n])
    <3>1. CASE n = 0
      BY <1>3, <3>1
    <3>2. CASE n # 0
      <4>1. g[n - 1] = Pushed(bytes, n - 1)
        BY <1>4, <3>2
      <4>2. Ring!PushByte(Pushed(bytes, n - 1), bytes[(n - 1) + 1]) = Pushed(bytes, (n - 1) + 1)
        BY <1>4, <3>2, PushByteIs
      <4>3. QED
        BY <1>4, <3>2, <4>1, <4>2
    <3>3. QED
      BY <3>1, <3>2
  <2>2. QED
    BY <2>1
<1>6. Steps(s)
  BY <1>5, Zenon
<1> HIDE DEF s
<1>7. \A n \in 0 .. N : s[n] = IF n = 0 THEN none ELSE Ring!PushByte(s[n - 1], bytes[n])
  BY <1>6, Zenon
<1> DEFINE T == {n \in Nat : n <= N => s[n] = Pushed(bytes, n)}
<1>8. 0 \in T
  <2>1. 0 \in 0 .. N
    BY <1>2
  <2>2. QED
    BY <1>3, <1>7, <2>1
<1>9. ASSUME NEW n \in Nat, n \in T PROVE n + 1 \in T
  <2> SUFFICES ASSUME n + 1 <= N PROVE s[n + 1] = Pushed(bytes, n + 1)
    OBVIOUS
  <2>1. n + 1 \in 0 .. N /\ n + 1 # 0 /\ (n + 1) - 1 = n /\ n <= N
    BY <1>2
  <2>2. s[n] = Pushed(bytes, n)
    BY <1>9, <2>1
  <2>3. s[n + 1] = Ring!PushByte(s[n], bytes[n + 1])
    BY <1>7, <2>1
  <2>4. QED
    BY <2>2, <2>3, PushByteIs
<1>10. N \in T
  <2> HIDE DEF T
  <2>1. Nat \subseteq T
    BY <1>8, <1>9, Induct
  <2>2. QED
    BY <1>2, <2>1
<1>11. QED
  BY <1>1, <1>2, <1>10 DEF N

\* A push writes only behind the last message: what lies up to D bytes from
\* the front stays, and what was stored is the start of the bytes.
LEMMA PushRawIs ==
  ASSUME Ring!TypeOK, NEW q, NEW st, Laid(q, st),
         NEW bytes \in Seq(Ring!Byte)
  PROVE  /\ Ring!_pushRaw(bytes).buf \in [Ring!Slot -> Ring!Byte]
         /\ Ring!_pushRaw(bytes).ok = (Len(bytes) < S - st[Len(q) + 1])
         /\ \A d \in 0 .. S - 1 : d < st[Len(q) + 1] =>
              Ring!_pushRaw(bytes).buf[Ring!After(front, d)] = buf[Ring!After(front, d)]
         /\ Len(bytes) < S - st[Len(q) + 1] =>
              /\ Ring!_pushRaw(bytes).back = Ring!After(back, Len(bytes))
              /\ \A k \in 1 .. Len(bytes) :
                   Ring!_pushRaw(bytes).buf[Ring!After(back, k - 1)] = bytes[k]
<1> DEFINE D == st[Len(q) + 1]
           N == Len(bytes)
           stored == Stores(N)
           r == Ring!_pushRaw(bytes)
<1>1. /\ D \in 0 .. S - 1 /\ back = Ring!After(front, D) /\ Room = S - D
  BY LaidEnds
<1>2. N \in Nat /\ \A k \in 1 .. N : bytes[k] \in Ring!Byte
  OBVIOUS
<1>3. r.buf = [i \in Ring!Slot |-> IF Kth(i) <= stored THEN bytes[Kth(i)] ELSE buf[i]]
      /\ r.back = Ring!After(back, stored) /\ r.ok = (N < Room)
  BY PushedAll DEF Pushed
<1> HIDE DEF D, N, r
<1>4. S \in Nat /\ back \in Ring!Slot /\ front \in Ring!Slot /\ back \in Nat /\ back < S
      /\ front \in Nat /\ front < S
  BY RingConstants DEF Ring!TypeOK
<1>5. stored = (IF N < S - D THEN N ELSE S - D) /\ stored \in Nat /\ stored <= N /\ stored <= S - D
  <2>1. stored = IF N < S - D THEN N ELSE S - D
    BY <1>1 DEF Stores, Ring!Lesser
  <2> HIDE DEF stored
  <2>2. QED
    BY <1>1, <1>2, <1>4, <2>1
<1> HIDE DEF stored
<1>6. \A i \in Ring!Slot : Kth(i) \in Nat /\ Kth(i) >= 1
  BY <1>4, KthIs
<1>7. \A i \in Ring!Slot : r.buf[i] \in Ring!Byte
  <2> SUFFICES ASSUME NEW i \in Ring!Slot PROVE r.buf[i] \in Ring!Byte
    OBVIOUS
  <2>1. r.buf[i] = IF Kth(i) <= stored THEN bytes[Kth(i)] ELSE buf[i]
    BY <1>3
  <2>2. Kth(i) \in Nat /\ Kth(i) >= 1
    BY <1>6
  <2>3. Kth(i) <= stored => Kth(i) \in 1 .. N
    BY <1>2, <1>5, <2>2
  <2>4. QED
    BY <1>2, <2>1, <2>3 DEF Ring!TypeOK
<1>8. ASSUME NEW d \in 0 .. S - 1, d < D
      PROVE  r.buf[Ring!After(front, d)] = buf[Ring!After(front, d)]
  <2> DEFINE i == Ring!After(front, d)
  <2>1. i \in Ring!Slot /\ i = (IF front + d >= S THEN front + d - S ELSE front + d)
    <3>1. d \in 0 .. S
      BY <1>4
    <3>2. QED
      BY <1>4, <3>1, AfterIs
  <2>2. back = (IF front + D >= S THEN front + D - S ELSE front + D)
    <3>1. D \in 0 .. S
      BY <1>1, <1>4
    <3>2. QED
      BY <1>1, <1>4, <3>1, AfterIs
  <2>3. Ring!After(i, S - back) = IF i + (S - back) >= S THEN i + (S - back) - S ELSE i + (S - back)
    <3>1. S - back \in 0 .. S
      BY <1>4
    <3> HIDE DEF i
    <3>2. QED
      BY <2>1, <3>1, AfterIs
  <2> HIDE DEF i
  <2>4. Ring!After(i, S - back) = S - D + d
    BY <1>1, <1>4, <1>8, <2>1, <2>2, <2>3
  <2>5. ~(Kth(i) <= stored)
    BY <1>1, <1>4, <1>5, <1>8, <2>4 DEF Kth
  <2>6. QED
    BY <1>3, <2>1, <2>5 DEF i
<1>9. ASSUME N < S - D, NEW k \in 1 .. N
      PROVE  r.buf[Ring!After(back, k - 1)] = bytes[k]
  <2>1. k - 1 \in 0 .. S - 1 /\ (k - 1) + 1 = k /\ k <= N
    BY <1>1, <1>2, <1>4, <1>9
  <2>2. Ring!After(back, k - 1) \in Ring!Slot /\ Ring!After(Ring!After(back, k - 1), S - back) = k - 1
    BY <1>4, <2>1, Distance
  <2>3. stored = N
    BY <1>5, <1>9
  <2>4. QED
    BY <1>3, <2>1, <2>2, <2>3 DEF Kth
<1>10. r.buf \in [Ring!Slot -> Ring!Byte]
  BY <1>3, <1>7
<1>11. N < S - D => r.back = Ring!After(back, N)
  BY <1>3, <1>5
<1>12. r.ok = (N < S - D)
  BY <1>1, <1>3
<1>13. QED
  BY <1>8, <1>9, <1>10, <1>11, <1>12 DEF D, N, r

LEMMA PushEffect ==
  ASSUME Ring!TypeOK, NEW q, NEW st, Laid(q, st), NEW m \in Messages, Ring!push(m)
  PROVE  /\ Ring!TypeOK'
         /\ result' = <<"push", m, Length(m) < S - st[Len(q) + 1]>>
         /\ IF Length(m) < S - st[Len(q) + 1] THEN \E nst : Laid(Append(q, m), nst)'
            ELSE Laid(q, st)'
<1> DEFINE D == st[Len(q) + 1]
           L == Len(q)
           N == Length(m)
           e == Encoded(m)
           r == Ring!_pushRaw(e)
<1>1. e \in Seq(Ring!Byte) /\ Len(e) = N /\ N \in Nat /\ N >= 2
  <2>1. /\ e \in Seq(Ring!Byte) /\ Len(e) = N /\ N \in Nat /\ N = 2 + OobLen + Len(m.body)
    BY EncodedIs
  <2> DEFINE B == Len(m.body)
  <2>2. B \in Nat
    BY MessagesAre
  <2>3. N = 2 + OobLen + B
    BY <2>1
  <2> HIDE DEF e, N, B
  <2>4. N >= 2
    BY <2>2, <2>3, RingConstants
  <2>5. QED
    BY <2>1, <2>4
<1>2. /\ buf' = r.buf /\ front' = front
      /\ back' = (IF r.ok THEN r.back ELSE back)
      /\ result' = <<"push", m, r.ok>>
  BY DEF Ring!push, Encoded
<1> HIDE DEF e, N
<1>3. /\ r.buf \in [Ring!Slot -> Ring!Byte]
      /\ r.ok = (N < S - D)
      /\ \A d \in 0 .. S - 1 : d < D => r.buf[Ring!After(front, d)] = buf[Ring!After(front, d)]
      /\ N < S - D => /\ r.back = Ring!After(back, N)
                      /\ \A k \in 1 .. N : r.buf[Ring!After(back, k - 1)] = e[k]
  BY <1>1, PushRawIs
<1> HIDE DEF r
<1>4. /\ L \in Nat /\ D \in 0 .. S - 1 /\ back = Ring!After(front, D)
  BY LaidEnds
<1>5. /\ q \in Seq(Messages) /\ st \in [1 .. L + 1 -> 0 .. S - 1] /\ st[1] = 0
      /\ \A i \in 1 .. L : st[i + 1] = st[i] + Length(q[i]) /\ st[i + 1] <= D
      /\ \A i \in 1 .. L : Stored(Ring!After(front, st[i]), q[i])
  BY DEF Laid
<1>6. S \in Nat /\ front \in Ring!Slot /\ back \in Ring!Slot
  BY RingConstants DEF Ring!TypeOK
\* the messages that were there are not touched
<1>7. ASSUME NEW i \in 1 .. L
      PROVE  Stored(Ring!After(front, st[i]), q[i])'
  <2> DEFINE p == Ring!After(front, st[i])
             Z == Length(q[i])
             a == st[i]
  <2>1. a \in 0 .. S - 1 /\ st[i + 1] = a + Z /\ a + Z <= D /\ Z \in Nat /\ Z < S
    BY <1>5, LaidEntry
  <2>2. \A k \in 1 .. Z : buf[Ring!After(p, k - 1)] = Encoded(q[i])[k]
    BY <1>5 DEF Stored
  <2>3. ASSUME NEW k \in 1 .. Z PROVE buf'[Ring!After(p, k - 1)] = Encoded(q[i])[k]
    <3> HIDE DEF p, a, Z, D, L
    <3>1. a + (k - 1) \in 0 .. S - 1 /\ a + (k - 1) < D /\ a + (k - 1) <= S
          /\ a \in Nat /\ k - 1 \in Nat
      BY <1>4, <1>6, <2>1
    <3>2. Ring!After(p, k - 1) = Ring!After(front, a + (k - 1))
      BY <1>6, <3>1, AfterAfter DEF p, a
    <3>3. buf'[Ring!After(p, k - 1)] = buf[Ring!After(p, k - 1)]
      BY <1>2, <1>3, <3>1, <3>2
    <3>4. QED
      BY <2>2, <3>3
  <2>4. \A k \in 1 .. Z : buf'[Ring!After(p, k - 1)] = Encoded(q[i])[k]
    BY <2>3
  <2>5. QED
    BY <1>2, <2>4 DEF Stored, Ring!After, p, Z
<1>8. CASE ~(N < S - D)
  <2>1. back' = back /\ front' = front /\ buf' \in [Ring!Slot -> Ring!Byte]
    BY <1>2, <1>3, <1>8
  <2>2. Ring!TypeOK'
    BY <1>6, <2>1 DEF Ring!TypeOK
  <2>3. Laid(q, st)'
    <3>1. back' = Ring!After(front', st[L + 1])
      BY <1>4, <2>1
    <3>2. QED
      BY <1>5, <1>7, <2>1, <3>1 DEF Laid
  <2>4. QED
    BY <1>2, <1>3, <1>8, <2>2, <2>3 DEF N
<1>9. CASE N < S - D
  <2>1. /\ back' = Ring!After(back, N) /\ front' = front /\ buf' \in [Ring!Slot -> Ring!Byte]
        /\ \A k \in 1 .. N : buf'[Ring!After(back, k - 1)] = e[k]
    BY <1>2, <1>3, <1>9
  <2>2. D \in Nat /\ N \in Nat /\ D + N \in 0 .. S - 1 /\ D + N <= S /\ D <= D + N /\ N \in 0 .. S
    <3> HIDE DEF D
    <3>1. QED
      BY <1>1, <1>4, <1>6, <1>9
  <2>3. back' = Ring!After(front, D + N) /\ back' \in Ring!Slot
    <3> HIDE DEF D
    <3>1. Ring!After(back, N) = Ring!After(front, D + N)
      BY <1>4, <1>6, <2>2, AfterAfter
    <3>2. Ring!After(back, N) \in Ring!Slot
      BY <1>6, <2>2, AfterIs
    <3>3. QED
      BY <2>1, <3>1, <3>2
  <2>4. Ring!TypeOK'
    BY <1>6, <2>1, <2>3 DEF Ring!TypeOK
  <2> DEFINE nq == Append(q, m)
             nst == [i \in 1 .. L + 2 |-> IF i = L + 2 THEN D + N ELSE st[i]]
  <2>5. /\ nq \in Seq(Messages) /\ Len(nq) = L + 1 /\ nq[L + 1] = m
        /\ \A i \in 1 .. L : nq[i] = q[i]
    BY <1>5
  <2>6. /\ nst \in [1 .. (L + 1) + 1 -> 0 .. S - 1] /\ nst[1] = 0
        /\ nst[(L + 1) + 1] = D + N /\ nst[L + 1] = D
        /\ \A i \in 1 .. L : nst[i] = st[i] /\ nst[i + 1] = st[i + 1]
    <3>1. (L + 1) + 1 = L + 2 /\ \A i \in 1 .. L + 2 : i # L + 2 => i \in 1 .. L + 1
      BY <1>4
    <3>2. /\ 1 \in 1 .. L + 2 /\ 1 # L + 2 /\ L + 2 \in 1 .. L + 2
          /\ L + 1 \in 1 .. L + 2 /\ L + 1 # L + 2
          /\ \A i \in 1 .. L : i \in 1 .. L + 2 /\ i # L + 2 /\ i + 1 \in 1 .. L + 2 /\ i + 1 # L + 2
      BY <1>4
    <3>3. nst \in [1 .. L + 2 -> 0 .. S - 1]
      BY <1>5, <2>2, <3>1
    <3>4. nst[1] = 0 /\ nst[L + 2] = D + N /\ nst[L + 1] = D
      BY <1>5, <3>2
    <3>5. QED
      BY <3>1, <3>2, <3>3, <3>4
  <2> HIDE DEF nq, nst
  <2>7. ASSUME NEW i \in 1 .. L + 1
        PROVE  nst[i + 1] = nst[i] + Length(nq[i]) /\ nst[i + 1] <= D + N
    <3>1. CASE i = L + 1
      BY <2>2, <2>5, <2>6, <3>1 DEF N
    <3>2. CASE i # L + 1
      <4>1. i \in 1 .. L
        BY <1>4, <3>2
      <4>2. st[i + 1] = st[i] + Length(q[i]) /\ st[i + 1] <= D /\ st[i + 1] \in 0 .. S - 1
        BY <1>5, <4>1, LaidEntry
      <4>3. nst[i + 1] = nst[i] + Length(nq[i]) /\ nst[i + 1] = st[i + 1]
        BY <2>5, <2>6, <4>1, <4>2
      <4> DEFINE x == st[i + 1]
      <4>4. x <= D /\ x \in Nat
        BY <4>2, RingConstants
      <4> HIDE DEF x, D
      <4>5. x <= D + N
        BY <2>2, <4>4
      <4>6. QED
        BY <4>3, <4>5 DEF x
    <3>3. QED
      BY <3>1, <3>2
  <2>8. ASSUME NEW i \in 1 .. L + 1
        PROVE  Stored(Ring!After(front, nst[i]), nq[i])'
    <3>1. CASE i = L + 1
      <4>1. Ring!After(front, nst[i]) = back /\ nq[i] = m
        BY <1>4, <2>5, <2>6, <3>1
      <4>2. \A k \in 1 .. Length(m) : buf'[Ring!After(back, k - 1)] = Encoded(m)[k]
        BY <2>1 DEF N, e
      <4>3. QED
        BY <1>2, <4>1, <4>2 DEF Stored, Ring!After
    <3>2. CASE i # L + 1
      <4>1. i \in 1 .. L
        BY <1>4, <3>2
      <4>2. nst[i] = st[i] /\ nq[i] = q[i]
        BY <2>5, <2>6, <4>1
      <4>3. QED
        BY <1>7, <4>1, <4>2
    <3>3. QED
      BY <3>1, <3>2
  <2>9. Laid(nq, nst)'
    <3>1. back' = Ring!After(front', nst[(L + 1) + 1])
      BY <2>1, <2>3, <2>6
    <3>2. QED
      BY <2>5, <2>6, <2>7, <2>8, <3>1 DEF Laid
  <2>10. result' = <<"push", m, N < S - D>>
    BY <1>2, <1>3
  <2>11. \E x : Laid(nq, x)'
    BY <2>9
  <2>12. QED
    BY <1>9, <2>4, <2>10, <2>11 DEF N, nq
<1>10. QED
  BY <1>8, <1>9

-----------------------------------------------------------------------------
(* pop, peek and discard.                                                   *)

LEMMA WithBody ==
  ASSUME NEW X, NEW Y, NEW m \in [oob : X, body : Y], NEW b \in Y
  PROVE  [m EXCEPT !.body = b] = [oob |-> m.oob, body |-> b]
OBVIOUS

\* A reader is given the first message, cut to its buffer.
LEMMA PeekIs ==
  ASSUME Ring!TypeOK, NEW q, NEW st, Laid(q, st), NEW cap \in Caps, ~Ring!isEmpty
  PROVE  Ring!_peek(cap) = Ring!Queue!Truncated(Head(q), cap)
<1>1. q # <<>> /\ q \in Seq(Messages) /\ st[1] = 0
  BY LaidEnds DEF Laid
<1>2. 1 \in 1 .. Len(q) /\ Head(q) = q[1]
  BY <1>1
<1> DEFINE m == q[1]
           B == Len(m.body)
           Z == Length(m)
<1>3. Ring!After(front, st[1]) = front
  BY <1>1, AfterZero DEF Ring!TypeOK
<1>4. /\ m \in Messages /\ Z \in Nat /\ Z >= 2 + OobLen
      /\ Ring!EntrySize(front) = Z - 2
      /\ Ring!Oob(front) = m.oob
      /\ \A n \in 0 .. B : Ring!Body(front, n) = SubSeq(m.body, 1, n)
      /\ B = Z - 2 - OobLen
      /\ m = [oob |-> m.oob, body |-> m.body]
  BY <1>2, <1>3, LaidEntry
<1> HIDE DEF m, B, Z
<1>5. Ring!EntrySize(front) - OobLen = B /\ B \in Nat
  BY <1>4, RingConstants
<1> DEFINE n == Ring!Lesser(cap, B)
<1>6. n \in 0 .. B /\ n = (IF cap < B THEN cap ELSE B)
  <2>1. cap \in Nat
    BY MessagesAre
  <2>2. QED
    BY <1>5, <2>1 DEF Ring!Lesser
<1> HIDE DEF n
<1>7. Ring!_peek(cap) = [oob |-> m.oob, body |-> SubSeq(m.body, 1, n)]
  BY <1>4, <1>5, <1>6 DEF Ring!_peek, n
<1>8. Ring!Queue!Truncated(m, cap) = [m EXCEPT !.body = SubSeq(m.body, 1, n)]
  BY <1>6 DEF Ring!Queue!Truncated, B
<1>9. [m EXCEPT !.body = SubSeq(m.body, 1, n)] = [oob |-> m.oob, body |-> SubSeq(m.body, 1, n)]
  <2>1. m \in [oob : Seq(Ring!Byte), body : Seq(Ring!Byte)]
    BY <1>4, MessagesAre
  <2>2. SubSeq(m.body, 1, n) \in Seq(Ring!Byte)
    BY <1>6, <2>1 DEF B
  <2>3. QED
    BY <2>1, <2>2, WithBody
<1>10. QED
  BY <1>2, <1>7, <1>8, <1>9 DEF m

\* The front goes to where the second message starts.
LEMMA DropEffect ==
  ASSUME Ring!TypeOK, NEW q, NEW st, Laid(q, st), ~Ring!isEmpty,
         front' = Ring!NewFront, back' = back, buf' = buf
  PROVE  /\ q # <<>> /\ Ring!TypeOK'
         /\ \E nst : Laid(Tail(q), nst)'
<1> DEFINE L == Len(q)
           D == st[L + 1]
           Z == Length(q[1])
<1>1. /\ q # <<>> /\ L \in Nat /\ st[1] = 0 /\ D \in 0 .. S - 1
      /\ back = Ring!After(front, D)
  BY LaidEnds
<1>2. /\ q \in Seq(Messages) /\ st \in [1 .. L + 1 -> 0 .. S - 1]
      /\ \A i \in 1 .. L : Stored(Ring!After(front, st[i]), q[i])
  BY DEF Laid
<1>3. S \in Nat /\ front \in Nat /\ front < S /\ front \in Ring!Slot
  BY RingConstants DEF Ring!TypeOK
<1>4. 1 \in 1 .. L /\ L # 0
  BY <1>1, <1>2
<1>5. /\ \A i \in 1 .. L : /\ st[i] \in 0 .. S - 1 /\ st[i + 1] \in 0 .. S - 1
                           /\ st[i + 1] = st[i] + Length(q[i]) /\ st[i + 1] <= D
                           /\ Length(q[i]) \in Nat
  BY LaidEntry
<1>6. st[2] = Z /\ Z \in Nat /\ Z <= D /\ Z \in 0 .. S - 1
  <2>1. st[1 + 1] = st[1] + Z /\ st[1 + 1] <= D /\ Z \in Nat /\ st[1 + 1] \in 0 .. S - 1
    BY <1>4, <1>5
  <2> HIDE DEF Z, D
  <2>2. st[1 + 1] = Z
    BY <1>1, <2>1
  <2>3. QED
    BY <2>1, <2>2
<1>7. front' = Ring!After(front, Z) /\ front' \in Ring!Slot
  <2>1. Ring!After(front, st[1]) = front
    BY <1>1, <1>3, AfterZero
  <2>2. Ring!EntrySize(front) = Z - 2
    <3>1. 1 \in 1 .. Len(q)
      BY <1>4
    <3>2. \A i \in 1 .. Len(q) : Ring!EntrySize(Ring!After(front, st[i])) = Length(q[i]) - 2
      BY LaidEntry
    <3>3. Ring!EntrySize(Ring!After(front, st[1])) = Length(q[1]) - 2
      BY ONLY <3>1, <3>2
    <3>4. QED
      BY <2>1, <3>3
  <2> HIDE DEF Z
  <2>3. 2 + Ring!EntrySize(front) = Z /\ Z \in 0 .. S
    BY <1>3, <1>6, <2>2
  <2>4. Ring!NewFront = Ring!After(front, Z)
    BY <2>3 DEF Ring!NewFront
  <2>5. QED
    BY <1>3, <2>3, <2>4, AfterIs
<1>8. Ring!TypeOK'
  BY <1>7 DEF Ring!TypeOK
\* st is ascending from its second entry on
<1>9. \A i \in 2 .. L + 1 : Z <= st[i]
  <2> DEFINE T == {k \in Nat : k + 2 <= L + 1 => Z <= st[k + 2]}
  <2>1. 0 \in T
    BY <1>6
  <2>2. ASSUME NEW k \in Nat, k \in T PROVE k + 1 \in T
    <3> SUFFICES ASSUME (k + 1) + 2 <= L + 1 PROVE Z <= st[(k + 1) + 2]
      OBVIOUS
    <3> DEFINE i == k + 2
    <3>1. i \in 1 .. L /\ (k + 1) + 2 = i + 1 /\ k + 2 <= L + 1
      BY <1>1
    <3>2. Z <= st[i]
      BY <2>2, <3>1
    <3>3. st[i + 1] = st[i] + Length(q[i]) /\ Length(q[i]) \in Nat /\ st[i] \in 0 .. S - 1
      BY <1>5, <3>1
    <3> DEFINE a == st[i]
               z == Length(q[i])
    <3>4. st[i + 1] = a + z /\ z \in Nat /\ a \in Nat /\ Z <= a
      BY <3>2, <3>3
    <3> HIDE DEF a, z, i, Z
    <3>5. Z <= a + z
      BY <1>6, <3>4
    <3>6. QED
      BY <3>1, <3>4, <3>5
  <2> HIDE DEF T
  <2>3. Nat \subseteq T
    BY <2>1, <2>2, Induct
  <2>4. \A i \in 2 .. L + 1 : i - 2 \in T /\ (i - 2) + 2 = i /\ i <= L + 1
    BY <1>1, <2>3
  <2>5. QED
    BY <2>4 DEF T
<1> DEFINE nq == Tail(q)
           nst == [i \in 1 .. L |-> st[i + 1] - Z]
<1>10. /\ nq \in Seq(Messages) /\ Len(nq) = L - 1
       /\ \A i \in 1 .. L - 1 : nq[i] = q[i + 1]
  BY <1>1, <1>2
<1>11. ASSUME NEW i \in 1 .. L
       PROVE  nst[i] \in 0 .. S - 1 /\ nst[i] <= D - Z
  <2>1. i + 1 \in 2 .. L + 1
    BY <1>1
  <2>2. Z <= st[i + 1] /\ st[i + 1] \in 0 .. S - 1 /\ st[i + 1] <= D
    BY <1>5, <1>9, <2>1
  <2> DEFINE a == st[i + 1]
  <2>3. Z <= a /\ a \in Nat /\ a <= S - 1 /\ a <= D
    BY <1>3, <2>2
  <2> HIDE DEF a, Z, D
  <2>4. a - Z \in 0 .. S - 1 /\ a - Z <= D - Z
    BY <1>1, <1>3, <1>6, <2>3
  <2>5. QED
    BY <2>4 DEF a
<1>12. nst \in [1 .. (L - 1) + 1 -> 0 .. S - 1] /\ nst[(L - 1) + 1] = D - Z /\ nst[1] = 0
  <2>1. (L - 1) + 1 = L /\ L \in 1 .. L
    BY <1>1, <1>4
  <2>2. nst[L] = D - Z
    BY <2>1
  <2>3. nst[1] = Z - Z
    BY <1>4, <1>6
  <2>4. Z - Z = 0
    <3> HIDE DEF Z
    <3>1. QED
      BY <1>6
  <2>5. nst \in [1 .. L -> 0 .. S - 1]
    BY <1>11
  <2>6. QED
    BY <2>1, <2>2, <2>3, <2>4, <2>5
<1>13. ASSUME NEW i \in 1 .. L - 1
       PROVE  nst[i + 1] = nst[i] + Length(nq[i]) /\ nst[i + 1] <= D - Z
  <2>1. i \in 1 .. L /\ i + 1 \in 1 .. L
    BY <1>1
  <2>2. st[(i + 1) + 1] = st[i + 1] + Length(q[i + 1]) /\ Length(q[i + 1]) \in Nat
        /\ st[i + 1] \in 0 .. S - 1
    BY <1>5, <2>1
  <2>3. nst[i + 1] = st[(i + 1) + 1] - Z /\ nst[i] = st[i + 1] - Z
    BY <2>1
  <2>4. nst[i + 1] <= D - Z
    BY <1>11, <2>1
  <2>5. nq[i] = q[i + 1]
    BY <1>10
  <2> DEFINE a == st[i + 1]
             z == Length(q[i + 1])
  <2>6. a \in Int /\ z \in Int /\ Z \in Int /\ st[(i + 1) + 1] = a + z
    BY <1>6, <2>2
  <2>7. nst[i + 1] = st[(i + 1) + 1] - Z /\ nst[i] = a - Z
    BY <2>3
  <2> HIDE DEF a, z, Z, nst
  <2>8. nst[i + 1] = nst[i] + z
    BY <2>6, <2>7
  <2>9. QED
    BY <2>4, <2>5, <2>8 DEF z
<1>14. ASSUME NEW i \in 1 .. L
       PROVE  Ring!After(front', nst[i]) = Ring!After(front, st[i + 1])
  <2>1. nst[i] = st[i + 1] - Z /\ nst[i] \in 0 .. S - 1 /\ st[i + 1] \in 0 .. S - 1
    BY <1>5, <1>11
  <2> DEFINE a == st[i + 1]
             b == nst[i]
  <2>2. b = a - Z /\ b \in Nat /\ a \in Nat /\ a <= S - 1
    BY <1>3, <2>1
  <2> HIDE DEF a, b, Z, nst
  <2>3. Z + b = a /\ Z + b <= S
    BY <1>3, <1>6, <2>2
  <2>4. Ring!After(Ring!After(front, Z), b) = Ring!After(front, Z + b)
    BY <1>3, <1>6, <2>2, <2>3, AfterAfter
  <2>5. QED
    BY <1>7, <2>3, <2>4 DEF a, b
<1>15. back' = Ring!After(front', nst[(L - 1) + 1])
  <2>1. (L - 1) + 1 = L /\ L \in 1 .. L
    BY <1>1, <1>4
  <2>2. QED
    BY <1>1, <1>14, <2>1
<1> HIDE DEF nst, nq
<1>16. ASSUME NEW i \in 1 .. L - 1
       PROVE  Stored(Ring!After(front, nst[i]), nq[i])'
  <2>1. i \in 1 .. L /\ i + 1 \in 1 .. L
    BY <1>1
  <2>2. nq[i] = q[i + 1] /\ Ring!After(front', nst[i]) = Ring!After(front, st[i + 1])
    BY <1>10, <1>14, <2>1
  <2>3. Stored(Ring!After(front, st[i + 1]), q[i + 1])
    BY <1>2, <2>1
  <2>4. QED
    BY <2>2, <2>3 DEF Stored, Ring!After
<1>17. Laid(nq, nst)'
  BY <1>10, <1>12, <1>13, <1>15, <1>16 DEF Laid
<1>18. \E x : Laid(nq, x)'
  BY <1>17
<1>19. QED
  BY <1>1, <1>8, <1>18 DEF nq

-----------------------------------------------------------------------------
(* The ring as a queue.                                                     *)

LEMMA RingInitial ==
  ASSUME Ring!Init
  PROVE  RingInv /\ Ring!Queue!Init
<1>1. front = 0 /\ back = 0 /\ buf = [i \in Ring!Slot |-> 0] /\ result = <<"none">>
  BY DEF Ring!Init
<1>2. 0 \in Ring!Slot /\ 0 \in Ring!Byte /\ 0 \in 0 .. S - 1
  BY RingConstants DEF Ring!Byte
<1>3. Ring!TypeOK
  BY <1>1, <1>2 DEF Ring!TypeOK
<1> DEFINE st == [i \in 1 .. 1 |-> 0]
<1>4. Laid(<<>>, st)
  <2>1. <<>> \in Seq(Messages) /\ Len(<<>>) = 0 /\ 1 .. 0 = {}
    OBVIOUS
  <2>2. st \in [1 .. 0 + 1 -> 0 .. S - 1] /\ st[1] = 0 /\ st[0 + 1] = 0
    BY <1>2
  <2>3. Ring!After(front, 0) = 0
    BY <1>1, <1>2, AfterZero
  <2> HIDE DEF st
  <2>4. QED
    BY <1>1, <2>1, <2>2, <2>3 DEF Laid
<1>5. Ring!Contents = <<>>
  BY <1>3, <1>4, ContentsAre
<1>6. QED
  BY <1>1, <1>3, <1>4, <1>5 DEF RingInv, Ring!Queue!Init

LEMMA ContentsNext ==
  (Ring!TypeOK => \A q, st : Laid(q, st) => Ring!Contents = q)'
<1>1. Ring!TypeOK => \A q, st : Laid(q, st) => Ring!Contents = q
  BY ContentsAre
<1>2. QED
  BY <1>1, PTL

LEMMA PushIsPush ==
  ASSUME Ring!TypeOK, NEW q, NEW st, Laid(q, st), NEW m \in Messages, Ring!push(m)
  PROVE  RingInv' /\ Ring!Queue!Push(m)
<1> DEFINE D == st[Len(q) + 1]
           ok == Length(m) < S - D
<1>1. /\ Ring!TypeOK'
      /\ result' = <<"push", m, ok>>
      /\ IF ok THEN \E nst : Laid(Append(q, m), nst)' ELSE Laid(q, st)'
  BY PushEffect
<1>2. Ring!Queue!Fits(m) <=> ok
  <2>1. Ring!Queue!Used = D /\ D \in 0 .. S - 1
    BY UsedIs, LaidEnds
  <2>2. Length(m) \in Nat
    BY EncodedIs
  <2> DEFINE Z == Length(m)
  <2> HIDE DEF Z, D
  <2>3. (D + Z < S) <=> (Z < S - D)
    BY <2>1, <2>2, RingConstants DEF Z
  <2>4. QED
    BY <2>1, <2>3 DEF Ring!Queue!Fits, Length, Z
<1> HIDE DEF ok
<1>3. Ring!Contents = q
  BY ContentsAre
<1>4. RingInv' /\ Ring!Contents' = IF ok THEN Append(q, m) ELSE q
  <2>1. CASE ok
    <3>1. PICK nst : Laid(Append(q, m), nst)'
      BY <1>1, <2>1
    <3>2. QED
      BY <1>1, <2>1, <3>1, ContentsNext DEF RingInv
  <2>2. CASE ~ok
    BY <1>1, <2>2, ContentsNext DEF RingInv
  <2>3. QED
    BY <2>1, <2>2
<1>5. Ring!Contents' = IF Ring!Queue!Fits(m) THEN Append(Ring!Contents, m) ELSE Ring!Contents
  BY <1>2, <1>3, <1>4
<1>6. result' = <<"push", m, Ring!Queue!Fits(m)>>
  <2>1. CASE ok
    <3>1. ok = TRUE /\ Ring!Queue!Fits(m) = TRUE
      BY <1>2, <2>1 DEF Ring!Queue!Fits, ok
    <3>2. QED
      BY <1>1, <3>1, Zenon
  <2>2. CASE ~ok
    <3>1. ok = FALSE /\ Ring!Queue!Fits(m) = FALSE
      BY <1>2, <2>2 DEF Ring!Queue!Fits, ok
    <3>2. QED
      BY <1>1, <3>1, Zenon
  <2>3. QED
    BY <2>1, <2>2
<1>7. QED
  BY <1>4, <1>5, <1>6 DEF Ring!Queue!Push

LEMMA DropIsTail ==
  ASSUME Ring!TypeOK, NEW q, NEW st, Laid(q, st), ~Ring!isEmpty,
         front' = Ring!NewFront, back' = back, buf' = buf
  PROVE  /\ RingInv' /\ Ring!Contents = q /\ q # <<>>
         /\ Ring!Contents' = Tail(q)
<1>1. q # <<>> /\ Ring!TypeOK' /\ \E nst : Laid(Tail(q), nst)'
  BY DropEffect
<1>2. PICK nst : Laid(Tail(q), nst)'
  BY <1>1
<1>3. QED
  BY <1>1, <1>2, ContentsAre, ContentsNext DEF RingInv

LEMMA Untouched ==
  ASSUME RingInv, front' = front, back' = back, buf' = buf
  PROVE  RingInv' /\ Ring!Contents' = Ring!Contents
<1>1. PICK q, st : Laid(q, st)
  BY DEF RingInv
<1>2. Ring!TypeOK'
  BY DEF RingInv, Ring!TypeOK
<1>3. Laid(q, st)'
  BY <1>1 DEF Laid, Stored, Ring!After
<1>4. QED
  BY <1>1, <1>2, <1>3, ContentsAre, ContentsNext DEF RingInv

\* Every call on the ring is that call on the queue.
LEMMA RingStep ==
  ASSUME RingInv, [Ring!Next]_(Ring!vars)
  PROVE  RingInv' /\ [Ring!Queue!Next]_(Ring!Queue!vars)
<1>1. Ring!TypeOK
  BY DEF RingInv
<1>2. PICK q, st : Laid(q, st)
  BY DEF RingInv
<1>3. Ring!Contents = q /\ (Ring!isEmpty <=> q = <<>>)
  BY <1>1, <1>2, ContentsAre, LaidEnds
<1>4. ASSUME NEW m \in Messages, Ring!push(m) PROVE RingInv' /\ Ring!Queue!Next
  BY <1>1, <1>2, <1>4, PushIsPush DEF Ring!Queue!Next
<1>5. ASSUME NEW cap \in Caps, Ring!popIfNotEmpty(cap) PROVE RingInv' /\ Ring!Queue!Next
  <2>1. /\ ~Ring!isEmpty /\ front' = Ring!NewFront /\ back' = back /\ buf' = buf
        /\ result' = <<"pop", Ring!_peek(cap)>>
    BY <1>5 DEF Ring!popIfNotEmpty
  <2>2. RingInv' /\ q # <<>> /\ Ring!Contents' = Tail(q)
    BY <1>1, <1>2, <2>1, DropIsTail
  <2>3. Ring!_peek(cap) = Ring!Queue!Truncated(Head(q), cap)
    BY <1>1, <1>2, <2>1, PeekIs
  <2>4. Ring!Queue!Pop(cap)
    BY <1>3, <2>1, <2>2, <2>3 DEF Ring!Queue!Pop
  <2>5. QED
    BY <2>2, <2>4 DEF Ring!Queue!Next
<1>6. ASSUME NEW cap \in Caps, Ring!peek(cap) PROVE RingInv' /\ Ring!Queue!Next
  <2>1. /\ ~Ring!isEmpty /\ front' = front /\ back' = back /\ buf' = buf
        /\ result' = <<"peek", Ring!_peek(cap)>>
    BY <1>6 DEF Ring!peek
  <2>2. RingInv' /\ Ring!Contents' = Ring!Contents
    BY <2>1, Untouched
  <2>3. Ring!_peek(cap) = Ring!Queue!Truncated(Head(q), cap)
    BY <1>1, <1>2, <2>1, PeekIs
  <2>4. Ring!Queue!Peek(cap)
    BY <1>3, <2>1, <2>2, <2>3 DEF Ring!Queue!Peek
  <2>5. QED
    BY <2>2, <2>4 DEF Ring!Queue!Next
<1>7. ASSUME Ring!popAndDiscard PROVE RingInv' /\ Ring!Queue!Next
  <2>1. /\ ~Ring!isEmpty /\ front' = Ring!NewFront /\ back' = back /\ buf' = buf
        /\ result' = <<"discard">>
    BY <1>7 DEF Ring!popAndDiscard
  <2>2. RingInv' /\ q # <<>> /\ Ring!Contents' = Tail(q)
    BY <1>1, <1>2, <2>1, DropIsTail
  <2>3. Ring!Queue!Discard
    BY <1>3, <2>1, <2>2 DEF Ring!Queue!Discard
  <2>4. QED
    BY <2>2, <2>3 DEF Ring!Queue!Next
<1>8. CASE UNCHANGED Ring!vars
  <2>1. front' = front /\ back' = back /\ buf' = buf /\ result' = result
    BY <1>8 DEF Ring!vars
  <2>2. RingInv' /\ Ring!Contents' = Ring!Contents
    BY <2>1, Untouched
  <2>3. QED
    BY <2>1, <2>2 DEF Ring!Queue!vars
<1>9. QED
  BY <1>4, <1>5, <1>6, <1>7, <1>8 DEF Ring!Next

\* Neither pointer ever leaves the ring and no slot holds more than a byte,
\* whatever was pushed, refused and read.
THEOREM RingTypeTheorem == Ring!Spec => []Ring!TypeOK
<1>1. Ring!Init => RingInv
  BY RingInitial
<1>2. RingInv /\ [Ring!Next]_(Ring!vars) => RingInv'
  BY RingStep
<1>3. RingInv => Ring!TypeOK
  BY DEF RingInv
<1>4. QED
  BY <1>1, <1>2, <1>3, PTL DEF Ring!Spec

(* CircularBuffer.h is a message queue: whatever it is asked, in whatever   *)
(* order, and wherever its messages wrap, a push that fits appends one whole *)
(* message, a refused one changes nothing, and pop, peek and discard see the *)
(* oldest message, cut only to the reader's buffer.                          *)
THEOREM RingQueueTheorem == Ring!Spec => ImplementsQueue
<1>1. Ring!Init => RingInv /\ Ring!Queue!Init
  BY RingInitial
<1>2. RingInv /\ [Ring!Next]_(Ring!vars) => RingInv' /\ [Ring!Queue!Next]_(Ring!Queue!vars)
  BY RingStep
<1>3. QED
  BY <1>1, <1>2, PTL DEF Ring!Spec, ImplementsQueue, Ring!ImplementsQueue, Ring!Queue!Spec
-----------------------------------------------------------------------------
(* The queue between threads.                                               *)

ThreadsOK ==
  waiting \subseteq Threads /\ notified \subseteq Threads /\ waiting \cap notified = {}

WInv == ThreadsOK /\ NoLostWakeup

LEMMA NotifyKeeps ==
  ASSUME Threads # {}, WInv, queue = <<>>, notify_one
  PROVE  ThreadsOK' /\ waiting' # Threads
<1>1. CASE waiting = {}
  BY <1>1 DEF notify_one, WInv, ThreadsOK
<1>2. CASE waiting # {}
  <2>1. PICK t \in waiting : waiting' = waiting \ {t} /\ notified' = notified \cup {t}
    BY <1>2 DEF notify_one
  <2>2. QED
    BY <2>1 DEF WInv, ThreadsOK
<1>3. QED
  BY <1>1, <1>2

LEMMA PushWakes ==
  ASSUME Threads # {}, WInv, push
  PROVE  WInv'
<1>1. CASE WasEmpty
  BY <1>1, NotifyKeeps DEF push, WasEmpty, WInv, NoLostWakeup
<1>2. CASE ~WasEmpty
  BY <1>2 DEF push, WasEmpty, WInv, ThreadsOK, NoLostWakeup
<1>3. QED
  BY <1>1, <1>2

LEMMA WakeStep ==
  ASSUME Threads # {}, WInv, [Next]_vars
  PROVE  WInv'
<1>1. CASE push
  BY <1>1, PushWakes
<1>2. CASE clear
  BY <1>2 DEF clear, WInv, ThreadsOK, NoLostWakeup
<1>3. ASSUME NEW t \in Threads, try_pop(t) PROVE WInv'
  BY <1>3 DEF try_pop, Take, WInv, ThreadsOK, NoLostWakeup
<1>4. ASSUME NEW t \in Threads, wake(t) PROVE WInv'
  BY <1>4 DEF wake, Take, WInv, ThreadsOK, NoLostWakeup
<1>5. ASSUME NEW t \in Threads, timeout(t) PROVE WInv'
  BY <1>5 DEF timeout, WInv, ThreadsOK, NoLostWakeup
<1>6. CASE UNCHANGED vars
  BY <1>6 DEF vars, WInv, ThreadsOK, NoLostWakeup
<1>7. QED
  BY <1>1, <1>2, <1>3, <1>4, <1>5, <1>6 DEF Next

\* push() notifies one thread and only when the queue was empty
\* (threadsafequeue2.h:31-38); even so there are never items on the queue
\* while every thread is blocked and none has been told.
THEOREM WakeupTheorem == QueueAssumption => (Spec => []NoLostWakeup)
<1> SUFFICES ASSUME Threads # {} PROVE Spec => []NoLostWakeup
  BY DEF QueueAssumption
<1>1. Init => WInv
  BY DEF Init, WInv, ThreadsOK, NoLostWakeup
<1>2. WInv /\ [Next]_vars => WInv'
  BY WakeStep
<1>3. WInv => NoLostWakeup
  BY DEF WInv
<1>4. QED
  BY <1>1, <1>2, <1>3, PTL DEF Spec

-----------------------------------------------------------------------------
ItemsOK ==
  /\ pushed \in Nat /\ queue \in Seq(Nat) /\ taken \in Seq([item : Nat, by : Threads])

\* The order, in its parts.
InOrder ==
  /\ \A i, j \in 1..Len(taken) : i < j => taken[i].item < taken[j].item
  /\ \A i, j \in 1..Len(queue) : i < j => queue[i] < queue[j]
  /\ \A i \in 1..Len(taken), j \in 1..Len(queue) : taken[i].item < queue[j]
  /\ \A i \in 1..Len(taken) : taken[i].item <= pushed
  /\ \A j \in 1..Len(queue) : queue[j] <= pushed

OInv == ItemsOK /\ InOrder

LEMMA ItemsAreNumbers ==
  ASSUME ItemsOK
  PROVE  \A i \in 1..Len(taken) : taken[i].item \in Nat
<1> SUFFICES ASSUME NEW i \in 1..Len(taken) PROVE taken[i].item \in Nat
  OBVIOUS
<1>1. taken \in Seq([item : Nat, by : Threads])
  BY DEF ItemsOK
<1>2. taken[i] \in [item : Nat, by : Threads]
  BY <1>1, ElementOfSeq
<1>3. QED
  BY <1>2

LEMMA PushOrder ==
  ASSUME OInv, push
  PROVE  OInv'
<1>1. /\ pushed' = pushed + 1 /\ queue' = Append(queue, pushed + 1) /\ taken' = taken
      /\ pushed \in Nat /\ queue \in Seq(Nat)
  BY DEF push, OInv, ItemsOK
<1>2. ItemsOK'
  BY <1>1 DEF OInv, ItemsOK
<1>3. /\ Len(queue') = Len(queue) + 1 /\ Len(queue) \in Nat
      /\ \A j \in 1..Len(queue) : queue'[j] = queue[j] /\ queue[j] \in Nat
      /\ queue'[Len(queue) + 1] = pushed + 1
  BY <1>1
<1>4. \A j \in 1..Len(queue') :
        j \in 1..Len(queue) \/ (j = Len(queue) + 1 /\ queue'[j] = pushed + 1)
  BY <1>3
<1>5. \A j \in 1..Len(queue) : queue[j] <= pushed
  BY DEF OInv, InOrder
<1>6. \A i, j \in 1..Len(queue') : i < j => queue'[i] < queue'[j]
  <2> SUFFICES ASSUME NEW i \in 1..Len(queue'), NEW j \in 1..Len(queue'), i < j
               PROVE  queue'[i] < queue'[j]
    OBVIOUS
  <2>1. i \in 1..Len(queue)
    BY <1>3
  <2>2. CASE j \in 1..Len(queue)
    BY <1>3, <2>1, <2>2 DEF OInv, InOrder
  <2>3. CASE j = Len(queue) + 1
    BY <1>1, <1>3, <1>5, <2>1, <2>3
  <2>4. QED
    BY <1>4, <2>2, <2>3
<1>7. \A i \in 1..Len(taken'), j \in 1..Len(queue') : taken'[i].item < queue'[j]
  <2> SUFFICES ASSUME NEW i \in 1..Len(taken), NEW j \in 1..Len(queue')
               PROVE  taken[i].item < queue'[j]
    BY <1>1
  <2>1. CASE j \in 1..Len(queue)
    BY <1>3, <2>1 DEF OInv, InOrder
  <2>2. CASE j = Len(queue) + 1
    <3>1. taken[i].item <= pushed /\ taken[i].item \in Nat
      BY ItemsAreNumbers DEF OInv, InOrder
    <3>2. QED
      BY <1>1, <1>3, <2>2, <3>1
  <2>3. QED
    BY <1>4, <2>1, <2>2
<1>8. \A i \in 1..Len(taken') : taken'[i].item <= pushed'
  <2>1. \A i \in 1..Len(taken) : taken[i].item <= pushed /\ taken[i].item \in Nat
    BY ItemsAreNumbers DEF OInv, InOrder
  <2>2. QED
    BY <1>1, <2>1
<1>9. \A j \in 1..Len(queue') : queue'[j] <= pushed'
  BY <1>1, <1>3, <1>4, <1>5
<1>10. \A i, j \in 1..Len(taken') : i < j => taken'[i].item < taken'[j].item
  BY <1>1 DEF OInv, InOrder
<1>11. QED
  BY <1>2, <1>6, <1>7, <1>8, <1>9, <1>10 DEF OInv, InOrder

LEMMA TakeOrder ==
  ASSUME OInv, NEW t \in Threads, Take(t)
  PROVE  OInv'
<1>1. /\ queue # <<>> /\ queue' = Tail(queue) /\ pushed' = pushed
      /\ taken' = Append(taken, [item |-> Head(queue), by |-> t])
      /\ pushed \in Nat /\ queue \in Seq(Nat) /\ taken \in Seq([item : Nat, by : Threads])
  BY DEF Take, OInv, ItemsOK
<1>2. Len(queue) > 0 /\ Head(queue) = queue[1] /\ Head(queue) \in Nat
  BY <1>1
<1>3. ItemsOK'
  BY <1>1, <1>2 DEF ItemsOK
<1>4. /\ Len(queue') = Len(queue) - 1 /\ Len(queue) \in Nat
      /\ \A j \in 1..Len(queue') : j + 1 \in 1..Len(queue) /\ queue'[j] = queue[j + 1]
      /\ 1 \in 1..Len(queue)
  BY <1>1, <1>2
<1>5. /\ Len(taken') = Len(taken) + 1 /\ Len(taken) \in Nat
      /\ \A i \in 1..Len(taken) : taken'[i] = taken[i]
      /\ taken'[Len(taken) + 1].item = queue[1]
  BY <1>1, <1>2
<1>6. \A i \in 1..Len(taken') :
        i \in 1..Len(taken) \/ (i = Len(taken) + 1 /\ taken'[i].item = queue[1])
  BY <1>5
<1>7. \A i, j \in 1..Len(taken') : i < j => taken'[i].item < taken'[j].item
  <2> SUFFICES ASSUME NEW i \in 1..Len(taken'), NEW j \in 1..Len(taken'), i < j
               PROVE  taken'[i].item < taken'[j].item
    OBVIOUS
  <2>1. i \in 1..Len(taken)
    BY <1>5
  <2>2. CASE j \in 1..Len(taken)
    BY <1>5, <2>1, <2>2 DEF OInv, InOrder
  <2>3. CASE j = Len(taken) + 1
    BY <1>4, <1>5, <2>1, <2>3 DEF OInv, InOrder
  <2>4. QED
    BY <1>6, <2>2, <2>3
<1>8. \A i, j \in 1..Len(queue') : i < j => queue'[i] < queue'[j]
  BY <1>4 DEF OInv, InOrder
<1>9. \A i \in 1..Len(taken'), j \in 1..Len(queue') : taken'[i].item < queue'[j]
  <2> SUFFICES ASSUME NEW i \in 1..Len(taken'), NEW j \in 1..Len(queue')
               PROVE  taken'[i].item < queue'[j]
    OBVIOUS
  <2>1. j + 1 \in 1..Len(queue) /\ queue'[j] = queue[j + 1] /\ 1 < j + 1
    BY <1>4
  <2>2. CASE i \in 1..Len(taken)
    BY <1>5, <2>1, <2>2 DEF OInv, InOrder
  <2>3. CASE i = Len(taken) + 1
    BY <1>4, <1>5, <2>1, <2>3 DEF OInv, InOrder
  <2>4. QED
    BY <1>6, <2>2, <2>3
<1>10. /\ \A i \in 1..Len(taken') : taken'[i].item <= pushed'
       /\ \A j \in 1..Len(queue') : queue'[j] <= pushed'
  BY <1>1, <1>4, <1>5, <1>6 DEF OInv, InOrder
<1>11. QED
  BY <1>3, <1>7, <1>8, <1>9, <1>10 DEF OInv, InOrder

LEMMA OrderStep == OInv /\ [Next]_vars => OInv'
<1> SUFFICES ASSUME OInv, [Next]_vars PROVE OInv'
  OBVIOUS
<1>1. CASE push
  BY <1>1, PushOrder
<1>2. CASE clear
  BY <1>2 DEF clear, OInv, ItemsOK, InOrder
<1>3. CASE \E t \in Threads : Take(t)
  BY <1>3, TakeOrder
<1>4. CASE UNCHANGED <<queue, pushed, taken>>
  BY <1>4 DEF OInv, ItemsOK, InOrder
<1>5. QED
  BY <1>1, <1>2, <1>3, <1>4 DEF Next, vars, try_pop, wake, timeout

\* An item leaves once, and after every item pushed before it, whichever
\* threads wait, are woken or give up (try_pop(), push(), clear()).
THEOREM OrderTheorem == Spec => []EachOnceInOrder
<1>1. Init => OInv
  BY DEF Init, OInv, ItemsOK, InOrder
<1>2. OInv => EachOnceInOrder
  <2> SUFFICES ASSUME OInv PROVE EachOnceInOrder
    OBVIOUS
  <2> DEFINE gone == [i \in DOMAIN taken |-> taken[i].item]
             n == Len(taken)
             m == Len(queue)
  <2>1. taken \in Seq([item : Nat, by : Threads]) /\ queue \in Seq(Nat)
    BY DEF OInv, ItemsOK
  <2>2. n \in Nat /\ m \in Nat /\ DOMAIN taken = 1..n
    BY <2>1
  <2>3. gone \in Seq(Nat) /\ Len(gone) = n /\ \A i \in 1..n : gone[i] = taken[i].item
    <3>1. \A i \in 1..n : gone[i] = taken[i].item /\ gone[i] \in Nat
      BY <2>2, ItemsAreNumbers DEF OInv
    <3>2. gone \in [1..n -> Nat]
      BY <2>2, <3>1
    <3>3. gone \in Seq(Nat)
      BY <2>2, <3>2, SeqDef
    <3>4. QED
      BY <2>2, <3>1, <3>2, <3>3, LenProperties
  <2>4. /\ \A i, j \in 1..n : i < j => taken[i].item < taken[j].item
        /\ \A i, j \in 1..m : i < j => queue[i] < queue[j]
        /\ \A i \in 1..n, j \in 1..m : taken[i].item < queue[j]
    BY DEF OInv, InOrder
  <2> HIDE DEF gone
  <2>5. /\ DOMAIN (gone \o queue) = 1..(n + m)
        /\ \A i \in 1..(n + m) :
             (gone \o queue)[i] = IF i <= n THEN gone[i] ELSE queue[i - n]
    <3>1. /\ gone \o queue \in Seq(Nat)
          /\ Len(gone \o queue) = Len(gone) + Len(queue)
          /\ \A i \in 1..(Len(gone) + Len(queue)) :
               (gone \o queue)[i] = IF i <= Len(gone) THEN gone[i] ELSE queue[i - Len(gone)]
      BY <2>1, <2>3, ConcatProperties, Zenon
    <3>2. DOMAIN (gone \o queue) = 1..Len(gone \o queue)
      BY <3>1, LenProperties, Zenon
    <3>3. QED
      BY <2>3, <3>1, <3>2
  <2> DEFINE items == gone \o queue
  <2> HIDE DEF items, n, m
  <2>6. ASSUME NEW i \in 1..(n + m), NEW j \in 1..(n + m), i < j
        PROVE  items[i] < items[j]
    <3>1. CASE j <= n
      <4>1. i \in 1..n /\ j \in 1..n
        BY <2>2, <2>6, <3>1
      <4>2. QED
        BY <2>2, <2>3, <2>4, <2>5, <2>6, <4>1 DEF items
    <3>2. CASE i > n
      <4>1. i - n \in 1..m /\ j - n \in 1..m /\ i - n < j - n
        BY <2>2, <2>6, <3>2
      <4>2. items[i] = queue[i - n] /\ items[j] = queue[j - n]
        BY <2>2, <2>5, <2>6, <3>2 DEF items
      <4>3. QED
        BY <2>4, <4>1, <4>2
    <3>3. CASE i <= n /\ j > n
      <4>1. i \in 1..n /\ j - n \in 1..m
        BY <2>2, <2>6, <3>3
      <4>2. items[i] = taken[i].item /\ items[j] = queue[j - n]
        BY <2>2, <2>3, <2>5, <2>6, <3>3, <4>1 DEF items
      <4>3. QED
        BY <2>4, <4>1, <4>2
    <3>4. QED
      BY <2>2, <2>6, <3>1, <3>2, <3>3
  <2>7. QED
    BY <2>5, <2>6 DEF EachOnceInOrder, items, gone
<1>3. QED
  BY <1>1, <1>2, OrderStep, PTL DEF Spec
=============================================================================
