----------------------------- MODULE MCChannels -----------------------------
(***************************************************************************)
(* The queues that carry bytes, messages and items between two parties,    *)
(* side by side: a behaviour uses one of them (or one direction of the     *)
(* UART), so that their states add up instead of multiplying.              *)
(*                                                                         *)
(* The ring has 8 bytes with a one-byte OOB part.  Its messages take 3 to  *)
(* 8 bytes: the empty body, one that just fits the empty ring (7 of 8      *)
(* bytes) and one that never fits; every slot of a stored body tells which *)
(* message it belongs to, so a torn message cannot pass for another one.   *)
(***************************************************************************)
EXTENDS ThreadSafeQueue2

CONSTANTS Width, RxSize, TxSize, Bytes, NoByte, MaxBlock, RunOver, S, OobLen, Messages, Caps

VARIABLES
  user,
  rxBuffer, recvCount, readCount, pc, start, left, loaded, byte, rxLast,
  txBuffer, writeCount, sentCount, txLast, panicked, direction,
  front, back, buf, result

uartVars ==
  <<rxBuffer, recvCount, readCount, pc, start, left, loaded, byte, rxLast,
    txBuffer, writeCount, sentCount, txLast, panicked, direction>>
ringVars == <<front, back, buf, result>>

MCMessages ==
  [oob : {<<1>>, <<2>>},
   body : {<<>>, <<3>>, <<4, 5>>, <<6, 7, 6>>, <<8, 9, 8, 9>>, <<3, 4, 5, 6, 7>>}]

Uart == INSTANCE MCPicoUartChannel
Ring == INSTANCE CircularBuffer

ASSUME ChannelsAssumption == Uart!UartAssumption /\ Ring!RingAssumption /\ QueueAssumption

all == <<user, uartVars, ringVars, vars>>

\* The unused parts start in one state each.
ChannelsInit ==
  /\ user \in {"uart", "ring", "threads"}
  /\ Uart!MCInit /\ Ring!Init /\ Init
  /\ user = "uart" \/ direction = "in"

Channel(A) == user = "uart" /\ A /\ UNCHANGED <<user, ringVars, vars>>
Message(A) == user = "ring" /\ A /\ UNCHANGED <<user, uartVars, vars>>
Thread(A) == user = "threads" /\ A /\ UNCHANGED <<user, uartVars, ringVars>>

ChannelsNext == Channel(Uart!MCNext) \/ Message(Ring!Next) \/ Thread(Next)

ChannelsSpec ==
  /\ ChannelsInit /\ [][ChannelsNext]_all
  /\ \A t \in Threads : WF_all(Thread(try_pop(t))) /\ WF_all(Thread(wake(t)))

NoPanic == Uart!NoPanic
ReceivesInOrder == Uart!ReceivesInOrder
SendsInOrder == Uart!SendsInOrder
ImplementsQueue == Ring!ImplementsQueue
=============================================================================
