---------------------------- MODULE SX1276Driver ----------------------------
(***************************************************************************)
(* The LoRa radio driver (src/src/rp2040/SX1276Driver.cpp) together with   *)
(* what it drives: the SX1276 chip, its DIO0 interrupt line and the radio  *)
(* channel.                                                                *)
(*                                                                         *)
(* Three actors interleave.  The main loop calls event_poll() "as          *)
(* quickly/often as possible", event_tick() "every 50-100ms", send() and   *)
(* popReceiveIfNotEmpty().  The chip ends receptions, transmissions and    *)
(* channel checks whenever it likes and raises DIO0, whose interrupt       *)
(* handler event_int() only sets _isrHit.  The application queues          *)
(* messages.                                                               *)
(*                                                                         *)
(* event_tick() talks to the chip in several SPI transfers, and the chip   *)
(* works on between them: a start_ function remaps DIO0 and then changes   *)
(* the mode, and what the chip ends in between is seen by no interrupt of  *)
(* the new mapping.  Each mode change is a step of its own (set_mode).     *)
(*                                                                         *)
(* Time is counted in units of the shortest tick period (50ms).  The       *)
(* driver keeps one start time per state and only ever looks at the one    *)
(* of the state it is in, so `age' (time since that state was entered, 0   *)
(* where no timeout runs) stands for clock minus start time.               *)
(*                                                                         *)
(* An operator whose name ends in _Bug is a plausible mistake in the one   *)
(* that follows it; it is part of no action.                               *)
(***************************************************************************)
EXTENDS Naturals, Sequences

CONSTANTS
  CadTimeout,   \* 2 * CAD_TIMEOUT_MS, in tick units
  TxTimeout,    \* TX_TIMEOUT_MS
  RxTimeout,    \* RX_TIMEOUT_MS
  MaxTickGap,   \* longest gap between two ticks (100ms is 2 units)
  TxSlots,      \* messages that fit in _txBuffer
  RxSlots,      \* messages that fit in _rxBuffer
  MaxSends,     \* bound: messages the application queues
  MaxPackets,   \* bound: packets that arrive over the air
  MaxGlitches   \* bound: times the chip loses its configuration

ASSUME RadioAssumption ==
  /\ CadTimeout \in Nat /\ TxTimeout \in Nat /\ RxTimeout \in Nat
  /\ MaxTickGap \in Nat \ {0}
  /\ TxSlots \in Nat /\ RxSlots \in Nat
  /\ MaxSends \in Nat /\ MaxPackets \in Nat /\ MaxGlitches \in Nat

VARIABLES
  \* the driver object
  state,      \* _state
  initGood,   \* _radioInitGood
  isrHit,     \* _isrHit
  age,        \* _mainClock.time() minus the start time of the state
  txq,        \* _txBuffer, as message numbers
  rxq,        \* _rxBuffer, as packet numbers (0: bytes of no packet)
  \* the main loop
  pc,         \* where event_poll() or event_tick() is
  irq,        \* its local irq_flags
  polled,     \* event_poll() completed since the last event_tick()
  \* the chip
  mode,       \* operating mode, register 0x01
  lora,       \* in LoRa mode and configured
  flags,      \* IRQ flags, register 0x12
  dio0,       \* the flag mapped onto DIO0, register 0x40
  fifo,       \* packet in the chip's FIFO, 0 if it was overwritten
  rxBytes,    \* length of the last packet is not zero, register 0x13
  outgoing,   \* message in the chip's FIFO
  \* the channel, the application, and what has happened so far
  busy,       \* somebody else is transmitting
  heard,      \* the last channel check detected somebody
  sent,       \* messages that went out, in order
  got,        \* packets the application popped, in order
  nextMsg, nextPkt, glitches

driverVars  == <<state, initGood, isrHit, age, txq, rxq>>
loopVars    == <<pc, irq, polled>>
fifoVars    == <<fifo, rxBytes, outgoing>>
chipVars    == <<mode, lora, flags, dio0, fifoVars>>
historyVars == <<busy, heard, sent, got, nextMsg, nextPkt, glitches>>
vars == <<driverVars, loopVars, chipVars, historyVars>>

State == {"RESTART", "IDLE", "RX", "TX", "CAD"}
Mode  == {"STDBY", "TX", "RX", "CAD"}
Event == {"Rx", "Tx", "Cad"}                \* what DIO0 can be mapped to
Flag  == Event \cup {"CadDetected", "Crc"}

Init ==
  /\ state = "RESTART" /\ initGood = FALSE /\ isrHit = FALSE /\ age = 0
  /\ txq = <<>> /\ rxq = <<>>
  /\ pc = "loop" /\ irq = {} /\ polled = FALSE
  /\ mode = "STDBY" /\ lora = FALSE /\ flags = {} /\ dio0 = "Rx"
  /\ fifo = 0 /\ rxBytes = FALSE /\ outgoing = 0
  /\ busy = FALSE /\ heard = FALSE /\ sent = <<>> /\ got = <<>>
  /\ nextMsg = 1 /\ nextPkt = 1 /\ glitches = 0

-----------------------------------------------------------------------------
(* The interrupt line.  event_int() runs on a rising edge of DIO0: a mapped *)
(* flag that was not up comes up, or DIO0 is remapped to a flag already up. *)

event_int == isrHit' = TRUE

Edge(newDio0, newFlags) == newDio0 \in newFlags /\ dio0 \notin flags

Interrupt(newDio0, newFlags) ==
  IF Edge(newDio0, newFlags) THEN event_int ELSE UNCHANGED isrHit

Raise(fs) == flags' = flags \cup fs /\ Interrupt(dio0, flags \cup fs)

MapDio0(e) == dio0' = e /\ Interrupt(e, flags)

-----------------------------------------------------------------------------
(* The start_ functions, up to their last SPI transfer: `pc' says which mode *)
(* set_mode() is to enter.                                                  *)

SetMode == {"set_TX", "set_RX", "set_CAD", "set_CAD_late"}

\* Stand-by, the message, and DIO0: nothing but a reset of the chip can fall
\* between them.  The message goes to the start of the FIFO, where the last
\* packet may or may not be.
start_Tx ==
  /\ state' = "TX" /\ age' = 0 /\ mode' = "STDBY" /\ pc' = "set_TX"
  /\ MapDio0("Tx")
  /\ outgoing' = Head(txq) /\ txq' = Tail(txq)
  /\ fifo' \in {fifo, 0} /\ UNCHANGED rxBytes

start_Rx ==
  /\ state' = "RX" /\ age' = 0 /\ MapDio0("Rx") /\ pc' = "set_RX"
  /\ UNCHANGED mode

start_Cad(then) ==
  /\ state' = "CAD" /\ age' = 0 /\ MapDio0("Cad") /\ pc' = then
  /\ UNCHANGED mode

start_Idle == state' = "IDLE" /\ age' = 0 /\ mode' = "STDBY"

start_Restart == state' = "RESTART" /\ age' = 0

-----------------------------------------------------------------------------
(* event_tick().  The main loop polls all the time and ticks rarely: it has *)
(* polled since the previous tick, and the end of a channel check, which    *)
(* comes milliseconds after the tick that began it, has been handled.       *)

TickDue == pc = "loop" /\ polled /\ "Cad" \notin flags

\* Does not look at the LoRa bit.
RadioAsExpected_Bug == mode = "STDBY"

RadioAsExpected == mode = "STDBY" /\ lora    \* register 0x01 reads 0x81

event_tick_Idle ==
  /\ state = "IDLE"
  /\ \/ /\ ~RadioAsExpected
        /\ start_Restart
        /\ UNCHANGED <<pc, isrHit, mode, dio0>>
     \/ /\ RadioAsExpected
        /\ IF txq # <<>> THEN start_Cad("set_CAD") ELSE start_Rx
  /\ UNCHANGED <<initGood, txq, rxq, lora, flags, fifoVars>>

\* Measures a transmission by the timeout of a channel check.
TxExpired_Bug(d) == age + d > CadTimeout

TxExpired(d) == age + d > TxTimeout

event_tick_Tx(d) ==
  /\ state = "TX"
  /\ IF TxExpired(d)
       THEN start_Idle
       ELSE age' = age + d /\ UNCHANGED <<state, mode>>
  /\ UNCHANGED <<pc, initGood, isrHit, txq, rxq, lora, flags, dio0, fifoVars>>

\* A pending message starts a channel check; a receive timeout, looked at in
\* the same call, ends it again (the chip may have completed it by then).
event_tick_Rx(d) ==
  /\ state = "RX"
  /\ \/ /\ txq # <<>>
        /\ start_Cad(IF age + d > RxTimeout THEN "set_CAD_late" ELSE "set_CAD")
     \/ /\ txq = <<>>
        /\ IF age + d > RxTimeout THEN start_Idle
           ELSE age' = age + d /\ UNCHANGED <<state, mode>>
        /\ UNCHANGED <<pc, isrHit, dio0>>
  /\ UNCHANGED <<initGood, txq, rxq, lora, flags, fifoVars>>

CadExpired(d) == age + d > CadTimeout

\* Gives up instead of transmitting.
event_tick_Cad_Bug(d) ==
  /\ state = "CAD"
  /\ IF CadExpired(d) THEN start_Idle
                      ELSE age' = age + d /\ UNCHANGED <<state, mode>>
  /\ UNCHANGED <<pc, initGood, isrHit, txq, rxq, lora, flags, dio0, fifoVars>>

event_tick_Cad(d) ==
  /\ state = "CAD"
  /\ \/ /\ CadExpired(d) /\ txq # <<>>
        /\ start_Tx
     \/ /\ CadExpired(d) /\ txq = <<>>
        /\ start_Idle
        /\ UNCHANGED <<pc, isrHit, txq, dio0, fifoVars>>
     \/ /\ ~CadExpired(d)
        /\ age' = age + d
        /\ UNCHANGED <<pc, state, isrHit, txq, mode, dio0, fifoVars>>
  /\ UNCHANGED <<initGood, rxq, lora, flags>>

\* reset_radio() pulses the reset pin, then checks the version register and
\* that sleep mode is reached; only then is the chip configured.
HardReset ==
  /\ flags' = {} /\ dio0' = "Rx" /\ mode' = "STDBY"
  /\ fifo' = 0 /\ rxBytes' = FALSE /\ outgoing' = 0

reset_radio_ok ==
  /\ state = "RESTART"
  /\ HardReset /\ start_Idle
  /\ lora' = TRUE /\ initGood' = TRUE
  /\ UNCHANGED <<pc, isrHit, txq, rxq>>

reset_radio_failed ==
  /\ state = "RESTART"
  /\ HardReset
  /\ lora' = FALSE /\ initGood' = FALSE
  /\ UNCHANGED <<pc, state, age, isrHit, txq, rxq>>

event_tick ==
  /\ TickDue
  /\ polled' = FALSE
  /\ \/ event_tick_Idle
     \/ \E d \in 1..MaxTickGap :
           event_tick_Tx(d) \/ event_tick_Rx(d) \/ event_tick_Cad(d)
     \/ reset_radio_ok
     \/ reset_radio_failed
  /\ heard' = (heard /\ ~(state # "CAD" /\ state' = "CAD"))
  /\ UNCHANGED <<irq, busy, sent, got, nextMsg, nextPkt, glitches>>

\* The mode change at the end of a start_ function.
set_mode ==
  /\ pc \in SetMode
  /\ mode' = CASE pc = "set_TX" -> "TX" [] pc = "set_RX" -> "RX" [] OTHER -> "CAD"
  /\ pc' = IF pc = "set_CAD_late" THEN "late" ELSE "loop"
  /\ UNCHANGED <<driverVars, irq, polled, lora, flags, dio0, fifoVars,
                 historyVars>>

\* The end of event_tick_Rx() when the receive timeout has run out.
tick_Rx_late ==
  /\ pc = "late"
  /\ start_Idle /\ pc' = "loop"
  /\ UNCHANGED <<initGood, isrHit, txq, rxq, irq, polled, lora, flags, dio0,
                 fifoVars, historyVars>>

-----------------------------------------------------------------------------
(* event_poll(), in the steps between which an interrupt can fall.          *)

poll_nothing ==
  /\ pc = "loop" /\ ~isrHit
  /\ polled' = TRUE
  /\ UNCHANGED <<driverVars, chipVars, historyVars, pc, irq>>

poll_begin ==
  /\ pc = "loop" /\ isrHit
  /\ isrHit' = FALSE /\ irq' = {} /\ pc' = "read1"
  /\ UNCHANGED <<state, initGood, age, txq, rxq, polled, chipVars, historyVars>>

\* Clears _isrHit once more after the flags have been read.
poll_read_Bug ==
  /\ pc \in {"read1", "read2"}
  /\ pc' = IF pc = "read1" THEN "read2" ELSE "dispatch"
  /\ irq' = irq \cup flags
  /\ flags' = IF pc = "read1" THEN {} ELSE flags
  /\ isrHit' = FALSE
  /\ UNCHANGED <<state, initGood, age, txq, rxq, polled, mode, lora, dio0,
                 fifoVars, historyVars>>

\* Reads the IRQ register and clears it in the same SPI transfer, twice.
poll_read ==
  /\ pc \in {"read1", "read2"}
  /\ pc' = IF pc = "read1" THEN "read2" ELSE "dispatch"
  /\ irq' = irq \cup flags
  /\ flags' = {}
  /\ UNCHANGED <<driverVars, polled, mode, lora, dio0, fifoVars, historyVars>>

\* The three handlers, run in this order on whatever flags were read; each
\* takes and returns the driver state and the chip mode.
IdleD == [state |-> "IDLE", mode |-> "STDBY"]

\* Leaves the chip in whatever mode it is.
event_RxDone_Bug(d) == [d EXCEPT !.state = IF @ = "RX" THEN @ ELSE "IDLE"]

event_RxDone(d) == IF d.state = "RX" THEN d ELSE IdleD

event_TxDone(d) == IF d.state = "TX" THEN [d EXCEPT !.state = "IDLE"] ELSE IdleD

\* Takes any end of the check for a clear channel.
event_CadDone_Bug(d) == IF d.state # "CAD" THEN IdleD ELSE d

event_CadDone(d) ==
  IF d.state # "CAD" THEN IdleD
  ELSE IF "CadDetected" \in irq THEN [d EXCEPT !.state = "IDLE"] ELSE d

Dispatched ==
  LET d0 == [state |-> state, mode |-> mode]
      d1 == IF "Rx"  \in irq THEN event_RxDone(d0)  ELSE d0
      d2 == IF "Tx"  \in irq THEN event_TxDone(d1)  ELSE d1
  IN        IF "Cad" \in irq THEN event_CadDone(d2) ELSE d2

\* An intact, non-empty packet goes to the receive queue if it fits: whatever
\* is in the FIFO by now.
Accepted ==
  /\ "Rx" \in irq /\ "Crc" \notin irq
  /\ state = "RX" /\ rxBytes /\ Len(rxq) < RxSlots

poll_dispatch ==
  /\ pc = "dispatch"
  /\ state' = Dispatched.state /\ mode' = Dispatched.mode
  /\ age' = IF Dispatched.state = state THEN age ELSE 0
  /\ rxq' = IF Accepted THEN Append(rxq, fifo) ELSE rxq
  /\ pc' = "loop" /\ polled' = TRUE /\ irq' = {}
  /\ UNCHANGED <<initGood, isrHit, txq, lora, flags, dio0, fifoVars, historyVars>>

event_poll == poll_nothing \/ poll_begin \/ poll_read \/ poll_dispatch

-----------------------------------------------------------------------------
(* The application's calls, from the main loop.                             *)

send ==
  /\ pc = "loop" /\ nextMsg <= MaxSends
  /\ nextMsg' = nextMsg + 1
  /\ txq' = IF Len(txq) < TxSlots THEN Append(txq, nextMsg) ELSE txq
  /\ UNCHANGED <<state, initGood, isrHit, age, rxq, loopVars, chipVars,
                 busy, heard, sent, got, nextPkt, glitches>>

\* Hands out the packet that came last.
popReceiveIfNotEmpty_Bug ==
  /\ pc = "loop" /\ rxq # <<>>
  /\ rxq' = SubSeq(rxq, 1, Len(rxq) - 1) /\ got' = Append(got, rxq[Len(rxq)])
  /\ UNCHANGED <<state, initGood, isrHit, age, txq, loopVars, chipVars,
                 busy, heard, sent, nextMsg, nextPkt, glitches>>

popReceiveIfNotEmpty ==
  /\ pc = "loop" /\ rxq # <<>>
  /\ rxq' = Tail(rxq) /\ got' = Append(got, Head(rxq))
  /\ UNCHANGED <<state, initGood, isrHit, age, txq, loopVars, chipVars,
                 busy, heard, sent, nextMsg, nextPkt, glitches>>

-----------------------------------------------------------------------------
(* The chip and the channel.                                                *)

channel ==
  /\ busy' = ~busy
  /\ UNCHANGED <<driverVars, loopVars, chipVars, heard, sent, got, nextMsg,
                 nextPkt, glitches>>

packet_in(kind) ==
  /\ mode = "RX" /\ lora /\ busy /\ nextPkt <= MaxPackets
  /\ nextPkt' = nextPkt + 1
  /\ fifo' = nextPkt /\ rxBytes' = (kind # "empty")
  /\ Raise(IF kind = "crc" THEN {"Rx", "Crc"} ELSE {"Rx"})
  /\ UNCHANGED <<state, initGood, age, txq, rxq, loopVars, mode, lora, dio0,
                 outgoing, busy, heard, sent, got, nextMsg, glitches>>

message_out ==
  /\ mode = "TX" /\ lora
  /\ mode' = "STDBY"
  /\ sent' = Append(sent, outgoing)
  /\ Raise({"Tx"})
  /\ UNCHANGED <<state, initGood, age, txq, rxq, loopVars, lora, dio0,
                 fifoVars, busy, heard, got, nextMsg, nextPkt, glitches>>

\* A channel check takes a few symbols, less than one tick.  Detection is
\* reported; "It appears that we don't get the CadDone interrupt under normal
\* (inactive) circumstances" (start_Cad), so without detection it may be.
check_end(detected) ==
  /\ mode = "CAD" /\ lora /\ age = 0
  /\ detected => busy
  /\ mode' = "STDBY" /\ heard' = detected
  /\ Raise(IF detected THEN {"Cad", "CadDetected"} ELSE {"Cad"})
  /\ UNCHANGED <<state, initGood, age, txq, rxq, loopVars, lora, dio0,
                 fifoVars, busy, sent, got, nextMsg, nextPkt, glitches>>

\* The chip resets itself (brown-out) and forgets its configuration.
glitch ==
  /\ glitches < MaxGlitches
  /\ glitches' = glitches + 1
  /\ lora' = FALSE /\ HardReset
  /\ UNCHANGED <<driverVars, loopVars, busy, heard, sent, got, nextMsg,
                 nextPkt>>

chip ==
  \/ \E kind \in {"good", "crc", "empty"} : packet_in(kind)
  \/ message_out
  \/ \E detected \in BOOLEAN : check_end(detected)
  \/ glitch

Next == event_tick \/ set_mode \/ tick_Rx_late \/ event_poll
          \/ send \/ popReceiveIfNotEmpty \/ channel \/ chip

\* The main loop keeps ticking and polling, and a reset that is tried over
\* and over succeeds in the end.  Nothing is assumed of the chip or channel.
Fairness ==
  /\ SF_vars(event_tick)
  /\ WF_vars(set_mode \/ tick_Rx_late \/ event_poll)
  /\ SF_vars(event_tick /\ reset_radio_ok)

Spec == Init /\ [][Next]_vars /\ Fairness

-----------------------------------------------------------------------------
(* Properties.                                                              *)

\* The values the variables take: no state outlives its timeout, and neither
\* queue holds more messages than fit in its buffer.
TypeOK ==
  /\ state \in State /\ initGood \in BOOLEAN /\ isrHit \in BOOLEAN
  /\ age \in Nat
  /\ state = "CAD" => age <= CadTimeout
  /\ state = "TX"  => age <= TxTimeout
  /\ state = "RX"  => age <= RxTimeout
  /\ txq \in Seq(Nat) /\ Len(txq) <= TxSlots
  /\ rxq \in Seq(Nat) /\ Len(rxq) <= RxSlots
  /\ pc \in {"loop", "read1", "read2", "dispatch", "late"} \cup SetMode
  /\ irq \subseteq Flag /\ polled \in BOOLEAN
  /\ mode \in Mode /\ lora \in BOOLEAN /\ flags \subseteq Flag
  /\ dio0 \in Event
  /\ fifo \in Nat /\ rxBytes \in BOOLEAN /\ outgoing \in Nat
  /\ busy \in BOOLEAN /\ heard \in BOOLEAN
  /\ sent \in Seq(Nat) /\ got \in Seq(Nat)
  /\ nextMsg \in Nat /\ nextPkt \in Nat /\ glitches \in Nat

Noticed == isrHit \/ pc \in {"read1", "read2"}

\* While the chip holds the end of a transmission or of a channel check that
\* nobody has read, _isrHit is set or event_poll() is still to read the
\* register; so it is while the chip holds any event that DIO0 is mapped to.
\* This is what the critical section of event_poll() is for, without disabling
\* interrupts.  A reception may be overlooked: it can end between the two SPI
\* transfers of start_Cad(), when DIO0 is mapped away from it already.  Not
\* for ever: once the driver listens again, it is noticed.
NoLostInterrupt ==
  /\ flags \cap {"Tx", "Cad"} # {} => Noticed
  /\ dio0 \in flags => Noticed
  /\ "Rx" \in flags /\ state = "RX" => Noticed

\* The driver's state and the chip's mode agree whenever the chip keeps its
\* configuration, up to a mode change event_tick() is about to make and an
\* event that is on its way; so the driver never finds the chip in an
\* unexpected state, and never resets it, without a cause.  Configured or not,
\* the chip never transmits outside TX_STATE, where the transmit timeout
\* watches it.
RadioAgreement ==
  /\ mode = "TX" => state = "TX"
  /\ lora =>
       /\ state # "RESTART"
       /\ state = "IDLE" => mode = "STDBY"
       /\ state = "RX"   => mode = IF pc = "set_RX" THEN "STDBY" ELSE "RX"
       /\ state = "CAD"  => mode = "STDBY" \/ mode =
            IF pc \in {"set_CAD", "set_CAD_late"} THEN "RX" ELSE "CAD"
       /\ state = "TX"   =>
            pc = "set_TX" \/ mode = "TX" \/ "Tx" \in flags \cup irq

\* A configured chip never starts to transmit after a channel check that
\* detected activity (event_tick_Rx: "A successful CAD check (with no
\* detection) will trigger the transmission"), although a clear channel is
\* only known by the absence of an event, and left-over events of other modes
\* arrive in between.
ListenBeforeTalk ==
  [][lora /\ state = "CAD" /\ state' = "TX" => ~heard]_vars

\* Once a message has been taken off the queue and handed to the chip, the
\* driver leaves TX_STATE because the chip said TxDone or because the transmit
\* timeout ran out: no left-over event of an earlier mode cuts it short.
TxAbandonedOnlyOnTimeout ==
  [][state = "TX" /\ state' # "TX"
       => "Tx" \in irq \/ age + MaxTickGap > TxTimeout]_vars

\* Messages go out in the order they were queued and at most once, and those
\* on the queue come after those that went out.  Packets reach the application
\* in the order they arrived: those it has popped, then those it will pop.
\* (One can reach it twice: the bytes event_RxDone() reads may be a packet
\* later than its event.  And bytes that are no packet can reach it, numbered
\* 0: a reception overlooked before a transmission that times out is read
\* after it, when the message may have overwritten the packet.)
DeliveryOrder ==
  /\ \A i, j \in 1..Len(sent) : i < j => sent[i] < sent[j]
  /\ \A i \in 1..Len(sent), j \in 1..Len(txq) : sent[i] < txq[j]
  /\ LET packets == got \o rxq
     IN  \A i, j \in 1..Len(packets) :
           i < j => packets[j] = 0 \/ packets[i] <= packets[j]

\* If the channel falls silent for good, every queued message is handed to the
\* chip: no combination of states, left-over events and chip failures makes
\* the driver sit on its queue.
QueueDrains == <>[](~busy) => []<>(txq = <<>>)

\* A chip that has lost its configuration is found out and set up again,
\* whatever the driver was doing at the time.
RadioRecovers == ~lora ~> lora /\ initGood
=============================================================================
