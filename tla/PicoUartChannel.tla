-------------------------- MODULE PicoUartChannel --------------------------
(***************************************************************************)
(* The buffered UART of the RP2040 (src/src/rp2040/PicoUartChannel.cpp).   *)
(*                                                                         *)
(* Both directions keep two running counters in a w-bit unsigned integer,  *)
(* (bytes in, bytes out); a counter modulo the buffer size is the slot,    *)
(* the difference is the fill.  When a counter runs over to 0 both move    *)
(* up by twice the size, "to get away from this tricky edge case".         *)
(*                                                                         *)
(* The receive side is shared: the interrupt handler _readISR() runs       *)
(* between any two memory accesses of the main program's read() and        *)
(* bytesReadable().  The transmit side belongs to the main program alone,  *)
(* so write() and run() are single steps.                                  *)
(***************************************************************************)
EXTENDS Integers, Sequences, FiniteSetsExt

CONSTANTS
  Width,       \* bits of a counter (32 in the code)
  RxSize, TxSize,
  Bytes,       \* the byte values carried
  NoByte,      \* a value that is no byte: what a slot holds at first
  MaxBlock,    \* bound: largest block that read() or write() is asked for
  RunOver      \* when a counter may run over: "never", "between calls" (the
               \* receive counter not while the main program is inside read()
               \* or bytesReadable()) or "anywhere"

Modulus == 2 ^ Width

\* The buffers may have any size, as the constructor takes it, if no counter
\* runs over.  Where one does, the bytes held keep their slots only if the
\* size divides the modulus: the code moves the counters up by twice the
\* size from 0, not from the slot they had reached.
UartAssumption ==
  /\ Width \in Nat /\ RxSize \in Nat \ {0} /\ TxSize \in Nat \ {0}
  /\ 3 * RxSize <= Modulus /\ 3 * TxSize <= Modulus
  /\ RunOver \in {"never", "between calls", "anywhere"}
  /\ RunOver # "never" => Modulus % RxSize = 0 /\ Modulus % TxSize = 0
  /\ MaxBlock \in Nat \ {0} /\ NoByte \notin Bytes

VARIABLES
  rxBuffer, recvCount, readCount,   \* _rxBuffer, _rxBufferRecvCount, _rxBufferReadCount
  pc,          \* where read() or bytesReadable() is
  start,       \* read()'s startRxBufferRecvCount, or the count loaded first
  left,        \* how much of read()'s bufCapacity is left
  loaded,      \* the counter value loaded by _rxBufferReadCount++
  byte,        \* the byte just copied
  rxLast,      \* the last byte that arrived or left the buffer
  txBuffer, writeCount, sentCount,  \* _txBuffer, _txBufferWriteCount, _txBufferSentCount
  txLast,      \* the last block given to write() or sent by run()
  panicked     \* panic(LOGIC_ERROR) was called

rxVars == <<rxBuffer, recvCount, readCount, pc, start, left, loaded, byte, rxLast>>
txVars == <<txBuffer, writeCount, sentCount, txLast>>
vars == <<rxVars, txVars, panicked>>

Count == 0..(Modulus - 1)
Plus(c, n) == (c + n) % Modulus
Minus(c, d) == (c - d + Modulus) % Modulus

Init ==
  /\ rxBuffer = [i \in 0..(RxSize - 1) |-> NoByte] /\ recvCount = 0 /\ readCount = 0
  /\ pc = "idle" /\ start = 0 /\ left = 0 /\ loaded = 0 /\ byte = NoByte
  /\ rxLast = <<>>
  /\ txBuffer = [i \in 0..(TxSize - 1) |-> NoByte] /\ writeCount = 0 /\ sentCount = 0
  /\ txLast = <<>>
  /\ panicked = FALSE

-----------------------------------------------------------------------------
(* Receiving.                                                               *)

RxFull == Minus(recvCount, readCount) = RxSize - 1

\* Whether the counter has room, or may run over now.
MayWrap ==
  \/ recvCount # Modulus - 1
  \/ RunOver = "anywhere"
  \/ RunOver = "between calls" /\ pc = "idle"

_readISR(b) ==
  /\ MayWrap
  /\ \/ /\ Minus(recvCount, readCount) >= RxSize
        /\ panicked' = TRUE
        /\ UNCHANGED <<rxBuffer, recvCount, readCount, rxLast>>
     \/ /\ RxFull                              \* the byte is lost
        /\ rxLast' = <<"put", <<b>>>>
        /\ UNCHANGED <<rxBuffer, recvCount, readCount, panicked>>
     \/ /\ ~RxFull /\ Minus(recvCount, readCount) < RxSize
        /\ rxBuffer' = [rxBuffer EXCEPT ![recvCount % RxSize] = b]
        /\ IF Plus(recvCount, 1) = 0
             THEN /\ recvCount' = 2 * RxSize
                  /\ readCount' = Plus(readCount, 2 * RxSize)
             ELSE recvCount' = recvCount + 1 /\ UNCHANGED readCount
        /\ rxLast' = <<"put", <<b>>>>
        /\ UNCHANGED panicked
  /\ UNCHANGED <<pc, start, left, loaded, byte, txVars>>

\* read(): the receive counter is looked at once, before the loop.
read_begin(cap) ==
  /\ pc = "idle"
  /\ pc' = "loop" /\ start' = recvCount /\ left' = cap
  /\ UNCHANGED <<rxBuffer, recvCount, readCount, loaded, byte, rxLast, txVars, panicked>>

\* Takes one byte more than there are.
read_copy_Bug ==
  /\ pc = "loop" /\ left > 0 /\ start >= readCount
  /\ byte' = rxBuffer[readCount % RxSize]
  /\ loaded' = readCount
  /\ left' = left - 1
  /\ pc' = "count"
  /\ UNCHANGED <<rxBuffer, recvCount, readCount, start, rxLast, txVars, panicked>>

\* Copies the byte, and loads the counter that is to be incremented.
read_copy ==
  /\ pc = "loop" /\ left > 0 /\ start > readCount
  /\ byte' = rxBuffer[readCount % RxSize]
  /\ loaded' = readCount
  /\ left' = left - 1
  /\ pc' = "count"
  /\ UNCHANGED <<rxBuffer, recvCount, readCount, start, rxLast, txVars, panicked>>

\* Stores the incremented counter; if it ran over, moves both up.
read_count ==
  /\ pc = "count"
  /\ pc' = "loop"
  /\ rxLast' = <<"take", <<byte>>>>
  /\ IF Plus(loaded, 1) = 0
       THEN readCount' = 2 * RxSize /\ recvCount' = Plus(recvCount, 2 * RxSize)
       ELSE readCount' = loaded + 1 /\ UNCHANGED recvCount
  /\ UNCHANGED <<rxBuffer, start, left, loaded, byte, txVars, panicked>>

read_end ==
  /\ pc = "loop" /\ (left = 0 \/ start <= readCount)
  /\ pc' = "idle" /\ start' = 0 /\ left' = 0 /\ loaded' = 0 /\ byte' = NoByte
  /\ UNCHANGED <<rxBuffer, recvCount, readCount, rxLast, txVars, panicked>>

\* bytesReadable() (and isReadable(), which calls it) loads one counter, then
\* the other.
bytesReadable_load ==
  /\ pc = "idle"
  /\ pc' = "readable" /\ start' = recvCount
  /\ UNCHANGED <<rxBuffer, recvCount, readCount, left, loaded, byte, rxLast, txVars, panicked>>

bytesReadable_check ==
  /\ pc = "readable"
  /\ panicked' = (Minus(start, readCount) >= RxSize)
  /\ pc' = "idle" /\ start' = 0
  /\ UNCHANGED <<rxBuffer, recvCount, readCount, left, loaded, byte, rxLast, txVars>>

-----------------------------------------------------------------------------
(* Transmitting: what the loops of write() and run() come to after n bytes. *)

TxUsed == Minus(writeCount, sentCount)

\* How far both counters have been moved up after n bytes counted on c: twice
\* the size if c ran over on the way, which within one buffer it does at most
\* once.
Shift(c, n) == IF c + n < Modulus THEN 0 ELSE 2 * TxSize

\* A counter, n bytes on.
Later(c, n) == Plus(c, n + Shift(c, n))

\* Forgets the other counter.
Carried_Bug(other, c, n) == other

\* The other counter, when n bytes have been counted on c.
Carried(other, c, n) == Plus(other, Shift(c, n))

\* Computes the slot after counting.
Written_Bug(block, n) ==
  [i \in 0..(TxSize - 1) |->
     LET bytes == {k \in 1..n : Later(writeCount, k) % TxSize = i}
     IN  IF bytes = {} THEN txBuffer[i] ELSE block[Max(bytes)]]

\* The buffer, with the first n bytes of the block.
Written(block, n) ==
  [i \in 0..(TxSize - 1) |->
     LET bytes == {k \in 1..n : Later(writeCount, k - 1) % TxSize = i}
     IN  IF bytes = {} THEN txBuffer[i] ELSE block[Max(bytes)]]

\* The next n bytes to go out.
Sent(n) == [k \in 1..n |-> txBuffer[Later(sentCount, k - 1) % TxSize]]

\* The sanity checks at the start of write().
TxInsane == writeCount < sentCount \/ TxUsed >= TxSize

write(block) ==
  /\ \/ /\ TxInsane
        /\ panicked' = TRUE
        /\ UNCHANGED txVars
     \/ /\ ~TxInsane
        /\ LET n == Min({Len(block), TxSize - TxUsed - 1})
           IN  /\ RunOver # "never" \/ writeCount + n < Modulus
               /\ txBuffer' = Written(block, n)
               /\ writeCount' = Later(writeCount, n)
               /\ sentCount' = Carried(sentCount, writeCount, n)
        /\ txLast' = <<"put", block>>
        /\ UNCHANGED panicked
  /\ UNCHANGED rxVars

\* run() sends for as long as the UART takes bytes: n of those waiting.
run ==
  \/ /\ writeCount < sentCount
     /\ panicked' = TRUE
     /\ UNCHANGED <<rxVars, txVars>>
  \/ /\ writeCount > sentCount
     /\ \E n \in 1..TxUsed :
          /\ sentCount' = Later(sentCount, n)
          /\ writeCount' = Carried(writeCount, sentCount, n)
          /\ txLast' = <<"take", Sent(n)>>
     /\ UNCHANGED <<txBuffer, rxVars, panicked>>

-----------------------------------------------------------------------------
Blocks == UNION {[1..n -> Bytes] : n \in 1..MaxBlock}

read ==
  \/ \E cap \in 1..MaxBlock : read_begin(cap)
  \/ read_copy
  \/ read_count
  \/ read_end

bytesReadable == bytesReadable_load \/ bytesReadable_check

\* panic() does not return.
Receive  == ~panicked /\ ((\E b \in Bytes : _readISR(b)) \/ read \/ bytesReadable)
Transmit == ~panicked /\ ((\E block \in Blocks : write(block)) \/ run)

Next == Receive \/ Transmit

Spec == Init /\ [][Next]_vars

-----------------------------------------------------------------------------
\* The types, and each direction's counters at most one buffer less one byte
\* apart.
TypeOK ==
  /\ rxBuffer \in [0..(RxSize - 1) -> Bytes \cup {NoByte}]
  /\ txBuffer \in [0..(TxSize - 1) -> Bytes \cup {NoByte}]
  /\ {recvCount, readCount, writeCount, sentCount, start, loaded} \subseteq Count
  /\ Minus(recvCount, readCount) < RxSize
  /\ Minus(writeCount, sentCount) < TxSize
  /\ pc \in {"idle", "loop", "count", "readable"}
  /\ left \in 0..MaxBlock /\ panicked \in BOOLEAN

\* No sanity check fails (panic(LOGIC_ERROR)): the counters of each direction
\* stay within one buffer of each other, also across the point where they run
\* over, of which bytesReadable() says "Wrap-around case is addressed on each
\* increment".
NoPanic == ~panicked

\* The bytes from one count to another, by their slots.
Held(buf, size, from, n) == [i \in 1..n |-> buf[Plus(from, i - 1) % size]]

RxQueue ==
  INSTANCE BlockQueue WITH
    Items <- Bytes, Capacity <- RxSize - 1, last <- rxLast,
    queue <- Held(rxBuffer, RxSize, readCount, Minus(recvCount, readCount))

TxQueue ==
  INSTANCE BlockQueue WITH
    Items <- Bytes, Capacity <- TxSize - 1, last <- txLast,
    MaxBlock <- Max({MaxBlock, TxSize - 1}),
    queue <- Held(txBuffer, TxSize, sentCount, Minus(writeCount, sentCount))

\* What read() hands out is what arrived, once each and in order, however the
\* interrupt handler interleaves with it and wherever the counters run over;
\* only bytes that arrive while the buffer is full are lost.
ReceivesInOrder == RxQueue!Spec

\* What run() sends is what write() accepted, once each and in order.
SendsInOrder == TxQueue!Spec
=============================================================================
