------------------------- MODULE SX1276Driver_proofs -------------------------
(***************************************************************************)
(* What holds of the LoRa driver for every choice of timeouts, tick gap    *)
(* and queue sizes.  The argument follows the events: which state the      *)
(* driver can be in while an event of each kind is unread or unhandled     *)
(* (Leftovers).  An event outlives the state it belongs to only until the  *)
(* next event_poll(), and the main loop polls between two ticks.           *)
(***************************************************************************)
EXTENDS SX1276Driver, SequenceTheorems, TLAPS

USE RadioAssumption

\* Events that the chip has raised and no handler has seen yet.
Pending == flags \cup irq

\* A chip that has lost its configuration raises nothing.
Unconfigured == ~lora => flags = {}

\* Within event_tick(): what the mode was, and that nothing is on its way that
\* belongs to the mode to come.
MidTick ==
  pc \in SetMode \cup {"late"} =>
    /\ ~polled /\ irq = {}
    /\ {"Tx", "Cad"} \cap flags # {} => pc = "late"
    /\ pc = "set_TX" => state = "TX" /\ mode = "STDBY"
    /\ pc = "set_RX" => state = "RX" /\ mode = "STDBY"
    /\ pc \in {"set_CAD", "set_CAD_late"} => state = "CAD" /\ mode \in {"RX", "STDBY"}
    /\ pc = "late" => state = "CAD" /\ mode \in {"CAD", "STDBY"} /\ "Tx" \notin flags
    /\ lora => dio0 = CASE pc = "set_TX" -> "Tx" [] pc = "set_RX" -> "Rx" [] OTHER -> "Cad"

\* DIO0 is mapped to the event that ends the mode the chip is in.
DioMatchesMode ==
  lora /\ pc \notin SetMode =>
    /\ mode = "RX"  => dio0 = "Rx"
    /\ mode = "TX"  => dio0 = "Tx"
    /\ mode = "CAD" => dio0 = "Cad"

\* A chip that does anything does what the driver's state says.
ModeIsState ==
  mode # "STDBY" /\ pc \notin {"set_CAD", "set_CAD_late"} => state = mode

\* event_poll()'s local variable is empty outside it.
IrqIsLocal == pc \notin {"read2", "dispatch"} => irq = {}

\* Where an unhandled event can find the driver.  A reception may have been
\* overlooked: it is read together with the next event.
Leftovers ==
  /\ "Rx" \in flags =>
       \/ state = "RX" \/ (~polled /\ state \in {"IDLE", "CAD"})
       \/ /\ state \in {"IDLE", "CAD", "TX"}
          /\ Noticed => {"Tx", "Cad"} \cap flags # {}
  /\ "Rx" \in irq =>
       \/ state = "RX" \/ (~polled /\ state \in {"IDLE", "CAD"})
       \/ state \in {"IDLE", "CAD", "TX"} /\ {"Tx", "Cad"} \cap irq # {}
  /\ "Tx" \in Pending =>
       mode = "STDBY" /\ (state = "TX" \/ (~polled /\ state = "IDLE"))
  /\ "Cad" \in Pending => mode = "STDBY" /\ state \in {"IDLE", "CAD"}

\* What comes up after event_poll() has read the register belongs to the
\* state the driver is in, and ends its transmission only once.
FreshEvents ==
  pc = "dispatch" =>
    /\ "Rx" \in flags => state = "RX"
    /\ "Tx" \in flags => state = "TX" /\ "Tx" \notin irq

Control == /\ Unconfigured /\ MidTick /\ DioMatchesMode /\ ModeIsState
           /\ IrqIsLocal /\ Leftovers /\ FreshEvents
           /\ NoLostInterrupt /\ RadioAgreement

\* What a channel check heard is still on its way to event_CadDone().
HeardIsPending ==
  lora /\ state = "CAD" /\ heard =>
    \/ {"Cad", "CadDetected"} \subseteq flags
    \/ {"Cad", "CadDetected"} \subseteq irq

IInv == TypeOK /\ Control /\ HeardIsPending

-----------------------------------------------------------------------------
(* Types.                                                                   *)

\* The places of the main loop.
Where == {"loop", "read1", "read2", "dispatch", "late"} \cup SetMode

\* What event_tick() may change, and what it never does.
TickedType ==
  /\ state \in State /\ initGood \in BOOLEAN /\ isrHit \in BOOLEAN
  /\ age \in Nat
  /\ state = "CAD" => age <= CadTimeout
  /\ state = "TX"  => age <= TxTimeout
  /\ state = "RX"  => age <= RxTimeout
  /\ txq \in Seq(Nat) /\ Len(txq) <= TxSlots
  /\ rxq \in Seq(Nat) /\ Len(rxq) <= RxSlots
  /\ mode \in Mode /\ lora \in BOOLEAN /\ flags \subseteq Flag
  /\ dio0 \in Event /\ pc \in Where
  /\ fifo \in Nat /\ rxBytes \in BOOLEAN /\ outgoing \in Nat

OtherType ==
  /\ irq \subseteq Flag /\ polled \in BOOLEAN
  /\ busy \in BOOLEAN /\ heard \in BOOLEAN
  /\ sent \in Seq(Nat) /\ got \in Seq(Nat)
  /\ nextMsg \in Nat /\ nextPkt \in Nat /\ glitches \in Nat

LEMMA TypeParts == TypeOK <=> TickedType /\ OtherType
BY DEF TypeOK, TickedType, OtherType, Where

LEMMA TypePartsNext == TickedType' /\ OtherType' => TypeOK'
BY DEF TypeOK, TickedType, OtherType, Where

\* Taking a message off a queue leaves a queue no longer than it was.
LEMMA TakenOff ==
  ASSUME NEW q \in Seq(Nat), q # <<>>
  PROVE  Head(q) \in Nat /\ Tail(q) \in Seq(Nat) /\ Len(Tail(q)) = Len(q) - 1
OBVIOUS

LEMMA PutOn ==
  ASSUME NEW q \in Seq(Nat), NEW n \in Nat
  PROVE  Append(q, n) \in Seq(Nat) /\ Len(Append(q, n)) = Len(q) + 1
OBVIOUS

LEMMA MapDio0Type ==
  ASSUME TickedType, NEW e \in Event, MapDio0(e)
  PROVE  dio0' \in Event /\ isrHit' \in BOOLEAN
BY DEF TickedType, MapDio0, Interrupt, event_int

LEMMA RaiseType ==
  ASSUME TickedType, NEW fs \in SUBSET Flag, Raise(fs)
  PROVE  flags' \in SUBSET Flag /\ isrHit' \in BOOLEAN
BY DEF TickedType, Raise, Interrupt, event_int

LEMMA DispatchedType ==
  ASSUME TickedType
  PROVE  /\ Dispatched.state \in {state, "IDLE"}
         /\ Dispatched.mode \in {mode, "STDBY"}
BY DEF Dispatched, event_RxDone, event_TxDone, event_CadDone, IdleD, TickedType

LEMMA TickType == TypeOK /\ event_tick => TypeOK'
<1> SUFFICES ASSUME TypeOK, event_tick PROVE TypeOK'
  OBVIOUS
<1>1. TickedType /\ OtherType
  BY TypeParts
<1>2. OtherType'
  BY <1>1 DEF event_tick, OtherType
<1>3. TickedType'
  <2> USE DEF State, Mode, Event, Flag, Where, SetMode, fifoVars
  <2>1. CASE event_tick_Idle
    BY <2>1, <1>1, MapDio0Type DEF event_tick_Idle, start_Restart, start_Cad,
                                  start_Rx, TickedType
  <2>2. ASSUME NEW d \in 1..MaxTickGap, event_tick_Tx(d) PROVE TickedType'
    BY <2>2, <1>1 DEF event_tick_Tx, TxExpired, start_Idle, TickedType
  <2>3. ASSUME NEW d \in 1..MaxTickGap, event_tick_Rx(d) PROVE TickedType'
    <3>1. ASSUME NEW then \in {"set_CAD", "set_CAD_late"}, start_Cad(then)
          PROVE  TickedType'
      BY <3>1, <2>3, <1>1, MapDio0Type DEF event_tick_Rx, start_Cad, TickedType
    <3>2. CASE UNCHANGED <<pc, isrHit, dio0>>
      BY <3>2, <2>3, <1>1 DEF event_tick_Rx, start_Cad, start_Idle, TickedType
    <3>3. QED
      BY <3>1, <3>2, <2>3 DEF event_tick_Rx
  <2>4. ASSUME NEW d \in 1..MaxTickGap, event_tick_Cad(d) PROVE TickedType'
    <3>1. CASE CadExpired(d) /\ txq # <<>> /\ start_Tx
      <4>1. dio0' \in Event /\ isrHit' \in BOOLEAN
        BY <3>1, <1>1, MapDio0Type DEF start_Tx
      <4>2. /\ fifo' \in Nat /\ rxBytes' \in BOOLEAN /\ outgoing' \in Nat
            /\ txq' \in Seq(Nat) /\ Len(txq') <= TxSlots
        BY <3>1, <1>1, TakenOff DEF start_Tx, TickedType
      <4>3. QED
        BY <4>1, <4>2, <3>1, <2>4, <1>1 DEF event_tick_Cad, start_Tx, TickedType
    <3>2. CASE ~(CadExpired(d) /\ txq # <<>>)
      BY <3>2, <2>4, <1>1 DEF event_tick_Cad, CadExpired, start_Idle, TickedType
    <3>3. QED
      BY <3>1, <3>2, <2>4 DEF event_tick_Cad
  <2>5. CASE reset_radio_ok
    BY <2>5, <1>1 DEF reset_radio_ok, HardReset, start_Idle, TickedType
  <2>6. CASE reset_radio_failed
    BY <2>6, <1>1 DEF reset_radio_failed, HardReset, TickedType
  <2>7. QED
    BY <2>1, <2>2, <2>3, <2>4, <2>5, <2>6 DEF event_tick
<1>4. QED
  BY <1>2, <1>3, TypePartsNext

LEMMA TickRestType == TypeOK /\ (set_mode \/ tick_Rx_late) => TypeOK'
<1> SUFFICES ASSUME TypeOK, set_mode \/ tick_Rx_late PROVE TypeOK'
  OBVIOUS
<1>1. TickedType /\ OtherType
  BY TypeParts
<1>2. OtherType'
  BY <1>1 DEF set_mode, tick_Rx_late, historyVars, OtherType
<1>3. TickedType'
  <2> USE DEF State, Mode, Where, SetMode, driverVars, fifoVars
  <2>1. CASE set_mode
    BY <2>1, <1>1 DEF set_mode, TickedType
  <2>2. CASE tick_Rx_late
    BY <2>2, <1>1 DEF tick_Rx_late, start_Idle, TickedType
  <2>3. QED
    BY <2>1, <2>2
<1>4. QED
  BY <1>2, <1>3, TypePartsNext

LEMMA PollType == TypeOK /\ event_poll => TypeOK'
<1> SUFFICES ASSUME TypeOK, event_poll PROVE TypeOK'
  OBVIOUS
<1>1. TickedType /\ OtherType
  BY TypeParts
<1> USE DEF driverVars, chipVars, fifoVars, historyVars, Where
<1>2. CASE poll_nothing
  <2>1. TickedType' /\ OtherType'
    BY <1>1, <1>2 DEF poll_nothing, TickedType, OtherType
  <2>2. QED
    BY <2>1, TypePartsNext
<1>3. CASE poll_begin
  <2>1. TickedType' /\ OtherType'
    BY <1>1, <1>3 DEF poll_begin, TickedType, OtherType
  <2>2. QED
    BY <2>1, TypePartsNext
<1>4. CASE poll_read
  <2>1. TickedType' /\ OtherType'
    BY <1>1, <1>4 DEF poll_read, TickedType, OtherType
  <2>2. QED
    BY <2>1, TypePartsNext
<1>5. CASE poll_dispatch
  <2>1. OtherType'
    BY <1>1, <1>5 DEF poll_dispatch, OtherType
  <2>2. rxq' \in Seq(Nat) /\ Len(rxq') <= RxSlots
    BY <1>1, <1>5, PutOn DEF poll_dispatch, Accepted, TickedType
  <2>3. TickedType'
    BY <1>1, <1>5, <2>2, DispatchedType DEF poll_dispatch, TickedType, State, Mode
  <2>4. QED
    BY <2>1, <2>3, TypePartsNext
<1>6. QED
  BY <1>2, <1>3, <1>4, <1>5 DEF event_poll

LEMMA CallsType == TypeOK /\ (send \/ popReceiveIfNotEmpty) => TypeOK'
<1> SUFFICES ASSUME TypeOK, send \/ popReceiveIfNotEmpty PROVE TypeOK'
  OBVIOUS
<1>1. TickedType /\ OtherType
  BY TypeParts
<1> USE DEF fifoVars
<1>2. CASE send
  <2>1. txq' \in Seq(Nat) /\ Len(txq') <= TxSlots
    BY <1>1, <1>2, PutOn DEF send, TickedType, OtherType
  <2>2. TickedType' /\ OtherType'
    BY <1>1, <1>2, <2>1 DEF send, loopVars, chipVars, TickedType, OtherType
  <2>3. QED
    BY <2>2, TypePartsNext
<1>3. CASE popReceiveIfNotEmpty
  <2>1. rxq' \in Seq(Nat) /\ Len(rxq') <= RxSlots /\ got' \in Seq(Nat)
    BY <1>1, <1>3, TakenOff, PutOn
       DEF popReceiveIfNotEmpty, TickedType, OtherType
  <2>2. TickedType' /\ OtherType'
    BY <1>1, <1>3, <2>1 DEF popReceiveIfNotEmpty, loopVars, chipVars,
                            TickedType, OtherType
  <2>3. QED
    BY <2>2, TypePartsNext
<1>4. QED
  BY <1>2, <1>3

LEMMA ChipType == TypeOK /\ (channel \/ chip) => TypeOK'
<1> SUFFICES ASSUME TypeOK, channel \/ chip PROVE TypeOK'
  OBVIOUS
<1>1. TickedType /\ OtherType
  BY TypeParts
<1> USE DEF Flag, Event, loopVars, fifoVars
<1>2. CASE channel
  <2>1. TickedType' /\ OtherType'
    BY <1>1, <1>2 DEF channel, driverVars, chipVars, TickedType, OtherType
  <2>2. QED
    BY <2>1, TypePartsNext
<1>3. ASSUME NEW kind \in {"good", "crc", "empty"}, packet_in(kind)
      PROVE  TypeOK'
  <2>1. flags' \in SUBSET Flag /\ isrHit' \in BOOLEAN
    BY <1>1, <1>3, RaiseType DEF packet_in
  <2>2. TickedType' /\ OtherType'
    BY <1>1, <1>3, <2>1 DEF packet_in, TickedType, OtherType
  <2>3. QED
    BY <2>2, TypePartsNext
<1>4. CASE message_out
  <2>1. flags' \in SUBSET Flag /\ isrHit' \in BOOLEAN
    BY <1>1, <1>4, RaiseType DEF message_out
  <2>2. sent' \in Seq(Nat)
    BY <1>1, <1>4, PutOn DEF message_out, TickedType, OtherType
  <2>3. TickedType' /\ OtherType'
    BY <1>1, <1>4, <2>1, <2>2 DEF message_out, TickedType, OtherType, Mode
  <2>4. QED
    BY <2>3, TypePartsNext
<1>5. ASSUME NEW detected \in BOOLEAN, check_end(detected)
      PROVE  TypeOK'
  <2>1. flags' \in SUBSET Flag /\ isrHit' \in BOOLEAN
    BY <1>1, <1>5, RaiseType DEF check_end
  <2>2. TickedType' /\ OtherType'
    BY <1>1, <1>5, <2>1 DEF check_end, TickedType, OtherType, Mode
  <2>3. QED
    BY <2>2, TypePartsNext
<1>6. CASE glitch
  <2>1. TickedType'
    BY <1>1, <1>6 DEF glitch, HardReset, driverVars, TickedType, Mode
  <2>2. OtherType'
    BY <1>1, <1>6 DEF glitch, OtherType
  <2>3. QED
    BY <2>1, <2>2, TypePartsNext
<1>7. QED
  BY <1>2, <1>3, <1>4, <1>5, <1>6 DEF chip

LEMMA InitType == Init => TypeOK
<1>0. <<>> \in Seq(Nat) /\ Len(<<>>) = 0
  OBVIOUS
<1>1. Init => OtherType
  <2>1. Init => sent \in Seq(Nat) /\ got \in Seq(Nat)
    BY <1>0 DEF Init
  <2>2. Init => /\ polled \in BOOLEAN /\ busy \in BOOLEAN /\ heard \in BOOLEAN
    BY DEF Init
  <2>3. Init => nextMsg \in Nat /\ nextPkt \in Nat /\ glitches \in Nat
    BY DEF Init
  <2>4. Init => irq \subseteq Flag
    BY DEF Init
  <2>5. QED
    BY <2>1, <2>2, <2>3, <2>4 DEF OtherType
<1>2. ASSUME Init PROVE TickedType
  <2>1. Len(txq) <= TxSlots /\ Len(rxq) <= RxSlots
    BY <1>0, <1>2 DEF Init
  <2>2. txq \in Seq(Nat) /\ rxq \in Seq(Nat)
    BY <1>0, <1>2 DEF Init
  <2>3. /\ state \in State /\ initGood \in BOOLEAN /\ isrHit \in BOOLEAN
        /\ age \in Nat /\ mode \in Mode /\ lora \in BOOLEAN
        /\ flags \subseteq Flag /\ dio0 \in Event /\ pc \in Where
        /\ fifo \in Nat /\ rxBytes \in BOOLEAN /\ outgoing \in Nat
    BY <1>2 DEF Init, State, Mode, Event, Where
  <2>4. QED
    BY <1>2, <2>1, <2>2, <2>3 DEF Init, TickedType
<1>3. QED
  BY <1>1, <1>2, TypeParts

LEMMA NextType == TypeOK /\ [Next]_vars => TypeOK'
<1>1. ASSUME TypeOK, UNCHANGED vars PROVE TypeOK'
  BY <1>1 DEF vars, driverVars, loopVars, chipVars, fifoVars, historyVars, TypeOK
<1>2. QED
  BY <1>1, TickType, TickRestType, PollType, CallsType, ChipType DEF Next

\* The variables keep to their values: no state outlives its timeout, and no
\* queue outgrows its buffer (event_tick_*, send() and event_RxDone() in
\* SX1276Driver.cpp), for all timeouts, tick gaps and buffer sizes.
THEOREM TypeTheorem == Spec => []TypeOK
BY InitType, NextType, PTL DEF Spec

-----------------------------------------------------------------------------
(* Events and states.                                                       *)

\* An event that DIO0 is mapped to is noticed when it comes up, or was noticed
\* when an earlier one came up.
LEMMA RaiseIsNoticed ==
  ASSUME TypeOK, NoLostInterrupt, NEW fs \in SUBSET Flag, dio0 \in fs, Raise(fs)
  PROVE  isrHit' \/ pc \in {"read1", "read2"}
BY DEF TypeOK, NoLostInterrupt, Noticed, Raise, Interrupt, Edge, event_int

\* Remapping DIO0 never makes an event unnoticed.
LEMMA MapKeepsNotice ==
  ASSUME NEW e, MapDio0(e), isrHit
  PROVE  isrHit'
BY DEF MapDio0, Interrupt, event_int

\* A remapping onto an event that is up is noticed.
LEMMA MapIsNoticed ==
  ASSUME NoLostInterrupt, pc = "loop", NEW e, e \in flags, MapDio0(e)
  PROVE  isrHit'
BY DEF MapDio0, Interrupt, Edge, event_int, NoLostInterrupt, Noticed

\* A remapping onto an event that is not up raises nothing.
LEMMA MapIsQuiet ==
  ASSUME NEW e, e \notin flags, MapDio0(e)
  PROVE  isrHit' = isrHit
BY DEF MapDio0, Interrupt, Edge

\* At a tick, every event left over belongs to the driver's state, or is a
\* reception that nothing has announced.
LEMMA TickFinds ==
  ASSUME TypeOK, Control, TickDue
  PROVE  /\ irq = {} /\ "Cad" \notin flags
         /\ "Rx" \in flags => state = "RX" \/ "Tx" \in flags \/ ~isrHit
         /\ "Rx" \in flags => lora /\ state # "RESTART"
         /\ "Tx" \in flags => state = "TX" /\ mode = "STDBY" /\ isrHit
         /\ state = "RX" /\ "Rx" \in flags => isrHit
BY DEF Control, TickDue, IrqIsLocal, Leftovers, Pending, NoLostInterrupt, Noticed,
       Unconfigured, RadioAgreement

LEMMA TickControl == TypeOK /\ Control /\ event_tick => Control'
<1> SUFFICES ASSUME TypeOK, Control, event_tick PROVE Control'
  OBVIOUS
<1>0. /\ TickDue /\ pc = "loop" /\ irq' = {} /\ polled' = FALSE
      /\ irq = {} /\ "Cad" \notin flags
      /\ "Rx" \in flags => state = "RX" \/ "Tx" \in flags \/ ~isrHit
      /\ "Rx" \in flags => lora /\ state # "RESTART"
      /\ "Tx" \in flags => state = "TX" /\ mode = "STDBY" /\ isrHit
      /\ state = "RX" /\ "Rx" \in flags => isrHit
  BY TickFinds DEF event_tick, TickDue
<1> USE DEF Control, Unconfigured, MidTick, DioMatchesMode, ModeIsState,
            IrqIsLocal, Leftovers, Pending, FreshEvents, NoLostInterrupt, Noticed,
            RadioAgreement, SetMode
<1>1. CASE event_tick_Idle
  <2>1. state = "IDLE" /\ "Tx" \notin flags /\ UNCHANGED <<lora, flags>>
    BY <1>1, <1>0 DEF event_tick_Idle
  <2>2. CASE RadioAsExpected /\ start_Cad("set_CAD")
    BY <2>1, <2>2, <1>0, MapIsQuiet DEF start_Cad, MapDio0, RadioAsExpected
  <2>3. CASE RadioAsExpected /\ start_Rx
    BY <2>1, <2>3, <1>0, MapIsNoticed DEF start_Rx, MapDio0, RadioAsExpected
  <2>4. CASE ~RadioAsExpected
    <3>1. state' = "RESTART" /\ mode = "STDBY" /\ ~lora
      BY <2>1, <2>4, <1>1 DEF event_tick_Idle, start_Restart, RadioAsExpected, TypeOK, Mode
    <3>2. UNCHANGED <<pc, isrHit, mode, dio0>>
      BY <2>4, <1>1 DEF event_tick_Idle
    <3>3. QED
      BY <2>1, <3>1, <3>2, <1>0
  <2>5. QED
    BY <2>2, <2>3, <2>4, <1>1 DEF event_tick_Idle
<1>2. ASSUME NEW d \in 1..MaxTickGap, event_tick_Tx(d) PROVE Control'
  BY <1>2, <1>0 DEF event_tick_Tx, TxExpired, start_Idle
<1>3. ASSUME NEW d \in 1..MaxTickGap, event_tick_Rx(d) PROVE Control'
  <2>1. state = "RX" /\ "Tx" \notin flags /\ UNCHANGED <<lora, flags>>
    BY <1>3, <1>0 DEF event_tick_Rx
  <2>2. ASSUME NEW then \in {"set_CAD", "set_CAD_late"}, start_Cad(then)
        PROVE  Control'
    BY <2>1, <2>2, <1>0, MapIsQuiet DEF start_Cad, MapDio0, TypeOK, Mode
  <2>3. CASE UNCHANGED <<pc, isrHit, dio0>>
    BY <2>1, <2>3, <1>3, <1>0 DEF event_tick_Rx, start_Cad, start_Idle
  <2>4. QED
    BY <2>2, <2>3, <1>3 DEF event_tick_Rx
<1>4. ASSUME NEW d \in 1..MaxTickGap, event_tick_Cad(d) PROVE Control'
  <2>1. state = "CAD" /\ "Tx" \notin flags /\ UNCHANGED <<lora, flags>>
    BY <1>4, <1>0 DEF event_tick_Cad
  <2>2. CASE start_Tx
    BY <2>1, <2>2, <1>0, MapIsQuiet DEF start_Tx, MapDio0
  <2>3. CASE ~start_Tx
    BY <2>1, <2>3, <1>4, <1>0 DEF event_tick_Cad, start_Idle
  <2>4. QED
    BY <2>2, <2>3
<1>5. CASE reset_radio_ok
  BY <1>5, <1>0 DEF reset_radio_ok, HardReset, start_Idle
<1>6. CASE reset_radio_failed
  BY <1>6, <1>0 DEF reset_radio_failed, HardReset
<1>7. QED
  BY <1>1, <1>2, <1>3, <1>4, <1>5, <1>6 DEF event_tick

LEMMA TickRestControl == TypeOK /\ Control /\ (set_mode \/ tick_Rx_late) => Control'
<1> SUFFICES ASSUME TypeOK, Control, set_mode \/ tick_Rx_late PROVE Control'
  OBVIOUS
<1> USE DEF Control, Unconfigured, MidTick, DioMatchesMode, ModeIsState,
            IrqIsLocal, Leftovers, Pending, FreshEvents, NoLostInterrupt, Noticed,
            RadioAgreement, SetMode, driverVars
<1>1. CASE set_mode
  BY <1>1 DEF set_mode
<1>2. CASE tick_Rx_late
  BY <1>2 DEF tick_Rx_late, start_Idle
<1>3. QED
  BY <1>1, <1>2

LEMMA PollControl == TypeOK /\ Control /\ event_poll => Control'
<1> SUFFICES ASSUME TypeOK, Control, event_poll PROVE Control'
  OBVIOUS
<1> USE DEF Control, Unconfigured, MidTick, DioMatchesMode, ModeIsState,
            IrqIsLocal, Leftovers, Pending, FreshEvents, NoLostInterrupt, Noticed,
            RadioAgreement, SetMode, driverVars, chipVars, historyVars
<1>1. CASE poll_nothing
  BY <1>1 DEF poll_nothing
<1>2. CASE poll_begin
  BY <1>2 DEF poll_begin
<1>3. CASE poll_read
  BY <1>3 DEF poll_read
<1>4. CASE poll_dispatch
  <2>1. /\ pc = "dispatch" /\ pc' = "loop" /\ irq' = {} /\ polled' = TRUE
        /\ state' = Dispatched.state /\ mode' = Dispatched.mode
        /\ UNCHANGED <<lora, flags, dio0, isrHit>>
    BY <1>4 DEF poll_dispatch
  <2>2. CASE "Rx" \notin irq /\ "Tx" \notin irq /\ "Cad" \notin irq
    <3>1. state' = state /\ mode' = mode
      BY <2>1, <2>2 DEF Dispatched
    <3>2. QED
      BY <2>1, <2>2, <3>1
  <2>3. CASE "Rx" \in irq /\ state = "RX"
    <3>1. "Tx" \notin irq /\ "Cad" \notin irq
      BY <2>3
    <3>2. state' = state /\ mode' = mode
      BY <2>1, <2>3, <3>1 DEF Dispatched, event_RxDone
    <3>3. QED
      BY <2>1, <2>3, <3>1, <3>2
  <2>4. CASE "Rx" \in irq /\ state # "RX"
    <3>1. state' = "IDLE" /\ mode' = "STDBY"
      BY <2>1, <2>4 DEF Dispatched, event_RxDone, event_TxDone, event_CadDone, IdleD
    <3>2. "Rx" \notin flags /\ "Tx" \notin flags
      BY <2>1, <2>4
    <3>3. QED
      BY <2>1, <3>1, <3>2
  <2>5. CASE "Rx" \notin irq /\ "Tx" \in irq
    <3>1. state' = "IDLE" /\ mode' = "STDBY"
      BY <2>1, <2>5 DEF Dispatched, event_TxDone, event_CadDone, IdleD
    <3>2. "Rx" \notin flags /\ "Tx" \notin flags
      BY <2>1, <2>5
    <3>3. QED
      BY <2>1, <3>1, <3>2
  <2>6. CASE "Rx" \notin irq /\ "Tx" \notin irq /\ "Cad" \in irq
    <3>1. state' \in {state, "IDLE"} /\ mode' = "STDBY"
      BY <2>1, <2>6 DEF Dispatched, event_CadDone, IdleD
    <3>2. "Rx" \notin flags /\ "Tx" \notin flags
      BY <2>1, <2>6
    <3>3. QED
      BY <2>1, <2>6, <3>1, <3>2
  <2>7. QED
    BY <2>2, <2>3, <2>4, <2>5, <2>6
<1>5. QED
  BY <1>1, <1>2, <1>3, <1>4 DEF event_poll

LEMMA ChipControl == TypeOK /\ Control /\ chip => Control'
<1> SUFFICES ASSUME TypeOK, Control, chip PROVE Control'
  OBVIOUS
<1> USE DEF Control, Unconfigured, MidTick, DioMatchesMode, ModeIsState,
            IrqIsLocal, Leftovers, Pending, FreshEvents, NoLostInterrupt, Noticed,
            RadioAgreement, SetMode, loopVars, driverVars
<1>1. ASSUME NEW kind \in {"good", "crc", "empty"}, packet_in(kind)
      PROVE  Control'
  <2> DEFINE fs == IF kind = "crc" THEN {"Rx", "Crc"} ELSE {"Rx"}
  <2>1. /\ mode = "RX" /\ lora /\ flags' = flags \cup fs
        /\ UNCHANGED <<state, pc, irq, polled, mode, lora, dio0>>
        /\ isrHit => isrHit'
    BY <1>1 DEF packet_in, Raise, Interrupt, event_int
  <2>2. pc \notin {"set_CAD", "set_CAD_late"}
          => isrHit' \/ pc \in {"read1", "read2"}
    BY <1>1, RaiseIsNoticed DEF packet_in, Flag, Event
  <2>3. CASE pc \in {"set_CAD", "set_CAD_late"}
    <3>1. /\ state = "CAD" /\ ~polled /\ irq = {} /\ dio0 = "Cad"
          /\ {"Tx", "Cad"} \cap flags = {}
      BY <2>1, <2>3
    <3>2. QED
      BY <2>1, <2>3, <3>1
  <2>4. CASE pc \notin {"set_CAD", "set_CAD_late"}
    <3>1. state = "RX" /\ pc \notin SetMode /\ pc # "late"
      BY <2>1, <2>4
    <3>2. QED
      BY <2>1, <2>2, <2>4, <3>1
  <2>5. QED
    BY <2>3, <2>4
<1>2. CASE message_out
  <2>1. /\ mode = "TX" /\ mode' = "STDBY" /\ flags' = flags \cup {"Tx"}
        /\ UNCHANGED <<state, pc, irq, polled, lora, dio0>>
    BY <1>2 DEF message_out, Raise
  <2>2. isrHit' \/ pc \in {"read1", "read2"}
    BY <1>2, RaiseIsNoticed DEF message_out, Flag, Event
  <2>3. /\ state = "TX" /\ lora /\ pc \notin SetMode \cup {"late"}
        /\ "Tx" \notin Pending /\ "Cad" \notin Pending /\ "Rx" \notin irq
    BY <1>2, <2>1 DEF message_out
  <2>4. Leftovers' /\ FreshEvents'
    BY <2>1, <2>2, <2>3
  <2>5. QED
    BY <2>1, <2>2, <2>3, <2>4
<1>3. ASSUME NEW detected \in BOOLEAN, check_end(detected)
      PROVE  Control'
  <2> DEFINE fs == IF detected THEN {"Cad", "CadDetected"} ELSE {"Cad"}
  <2>1. /\ mode = "CAD" /\ mode' = "STDBY" /\ flags' = flags \cup fs
        /\ UNCHANGED <<state, pc, irq, polled, lora, dio0>>
    BY <1>3 DEF check_end, Raise
  <2>2. isrHit' \/ pc \in {"read1", "read2"}
    BY <1>3, RaiseIsNoticed DEF check_end, Flag, Event
  <2>3. /\ state = "CAD" /\ lora /\ pc \notin SetMode
        /\ "Tx" \notin Pending /\ "Cad" \notin Pending
    BY <1>3, <2>1 DEF check_end
  <2>4. MidTick' /\ Leftovers' /\ FreshEvents'
    BY <2>1, <2>2, <2>3
  <2>5. QED
    BY <2>1, <2>2, <2>3, <2>4
<1>4. CASE glitch
  BY <1>4 DEF glitch, HardReset
<1>5. QED
  BY <1>1, <1>2, <1>3, <1>4 DEF chip

LEMMA OthersControl ==
  TypeOK /\ Control /\ (send \/ popReceiveIfNotEmpty \/ channel \/ UNCHANGED vars)
    => Control'
BY DEF send, popReceiveIfNotEmpty, channel, vars, driverVars, loopVars, chipVars,
       historyVars, Control, Unconfigured, MidTick, DioMatchesMode, ModeIsState,
       IrqIsLocal, Leftovers, Pending, FreshEvents, NoLostInterrupt, Noticed,
       RadioAgreement, SetMode

LEMMA ControlInvariant == Spec => [](TypeOK /\ Control)
<1>1. Init => TypeOK /\ Control
  BY InitType DEF Init, Control, Unconfigured, MidTick, DioMatchesMode,
       ModeIsState, IrqIsLocal, Leftovers, Pending, FreshEvents, NoLostInterrupt,
       Noticed, RadioAgreement, SetMode
<1>2. TypeOK /\ Control /\ [Next]_vars => (TypeOK /\ Control)'
  BY NextType, TickControl, TickRestControl, PollControl, ChipControl,
     OthersControl DEF Next
<1>3. QED
  BY <1>1, <1>2, PTL DEF Spec

\* The driver never forgets the end of a transmission or of a channel check,
\* nor a reception once it listens (event_int() and the critical section of
\* event_poll(), SX1276Driver.cpp:63-71 and :250-267), whatever the timeouts
\* and whatever the chip ends between the two SPI transfers of a start_
\* function.
THEOREM InterruptTheorem == Spec => []NoLostInterrupt
<1>1. Control => NoLostInterrupt
  BY DEF Control
<1>2. QED
  BY <1>1, ControlInvariant, PTL

\* The driver's state and the chip's mode stay in agreement: no interleaving of
\* ticks, polls and left-over events makes event_tick_Idle() reset a healthy
\* chip or leaves the chip transmitting unwatched.
THEOREM AgreementTheorem == Spec => []RadioAgreement
<1>1. Control => RadioAgreement
  BY DEF Control
<1>2. QED
  BY <1>1, ControlInvariant, PTL

-----------------------------------------------------------------------------
(* What a step may never do.                                                *)

LEMMA HeardInit == Init => HeardIsPending
BY DEF Init, HeardIsPending

LEMMA HeardNext ==
  ASSUME TypeOK, Control, HeardIsPending, [Next]_vars
  PROVE  HeardIsPending'
<1> USE DEF HeardIsPending, driverVars, loopVars, chipVars, historyVars
<1>1. CASE event_tick
  <2>1. "Cad" \notin flags /\ irq = {}
    BY <1>1, TickFinds DEF event_tick
  <2>2. lora /\ state = "CAD" => ~heard
    BY <2>1
  <2>3. heard' => heard /\ ~(state # "CAD" /\ state' = "CAD")
    BY <1>1 DEF event_tick
  <2>4. lora' /\ state' = "CAD" => lora
    <3>1. ASSUME NEW d \in 1..MaxTickGap, event_tick_Tx(d) \/ event_tick_Rx(d) \/ event_tick_Cad(d)
          PROVE  lora' = lora
      BY <3>1 DEF event_tick_Tx, event_tick_Rx, event_tick_Cad
    <3>2. reset_radio_ok => state' # "CAD"
      BY DEF reset_radio_ok, start_Idle
    <3>3. QED
      BY <1>1, <3>1, <3>2 DEF event_tick, event_tick_Idle, reset_radio_failed
  <2>5. QED
    BY <2>2, <2>3, <2>4
<1>2. CASE event_poll
  <2>1. CASE poll_nothing
    BY <2>1 DEF poll_nothing
  <2>2. CASE poll_begin
    <3>1. irq = {}
      BY <2>2 DEF poll_begin, Control, IrqIsLocal
    <3>2. QED
      BY <2>2, <3>1 DEF poll_begin
  <2>3. CASE poll_read
    BY <2>3 DEF poll_read
  <2>4. CASE poll_dispatch
    <3>1. CASE {"Cad", "CadDetected"} \subseteq irq
      <4>1. state' # "CAD"
        BY <2>4, <3>1 DEF poll_dispatch, Dispatched, event_RxDone, event_TxDone,
                          event_CadDone, IdleD
      <4>2. QED
        BY <4>1
    <3>2. CASE ~({"Cad", "CadDetected"} \subseteq irq)
      <4>1. state' \in {state, "IDLE"}
        BY <2>4, DispatchedType, TypeParts DEF poll_dispatch
      <4>2. QED
        BY <2>4, <3>2, <4>1 DEF poll_dispatch
    <3>3. QED
      BY <3>1, <3>2
  <2>5. QED
    BY <1>2, <2>1, <2>2, <2>3, <2>4 DEF event_poll
<1>3. CASE chip
  <2>1. ASSUME NEW kind \in {"good", "crc", "empty"}, packet_in(kind)
        PROVE  HeardIsPending'
    <3>1. flags \subseteq flags' /\ UNCHANGED <<lora, state, heard, irq>>
      BY <2>1 DEF packet_in, Raise
    <3>2. QED
      BY <3>1
  <2>2. CASE message_out
    <3>1. state = "TX" /\ state' = state
      BY <2>2 DEF message_out, Control, RadioAgreement
    <3>2. QED
      BY <3>1
  <2>3. ASSUME NEW detected \in BOOLEAN, check_end(detected)
        PROVE  HeardIsPending'
    BY <2>3 DEF check_end, Raise
  <2>4. CASE glitch
    BY <2>4 DEF glitch
  <2>5. QED
    BY <1>3, <2>1, <2>2, <2>3, <2>4 DEF chip
<1>4. CASE send \/ popReceiveIfNotEmpty \/ channel \/ UNCHANGED vars
  BY <1>4 DEF send, popReceiveIfNotEmpty, channel, vars
<1>5. CASE set_mode \/ tick_Rx_late
  BY <1>5 DEF set_mode, tick_Rx_late, start_Idle
<1>6. QED
  BY <1>1, <1>2, <1>3, <1>4, <1>5 DEF Next

LEMMA RadioInvariant == Spec => []IInv
<1>1. Init => HeardIsPending
  BY HeardInit
<1>2. TypeOK /\ Control /\ HeardIsPending /\ [Next]_vars => HeardIsPending'
  BY HeardNext
<1>3. TypeOK /\ Control /\ HeardIsPending => IInv
  BY DEF IInv
<1>4. QED
  BY <1>1, <1>2, <1>3, ControlInvariant, PTL DEF Spec

\* What may take the driver out of TX_STATE or into it: a step from one state
\* to another is a tick, the end of one, or the dispatch of an event.
LEMMA WhoChangesState ==
  ASSUME IInv, [Next]_vars, state' # state
  PROVE  event_tick \/ poll_dispatch \/ (tick_Rx_late /\ state = "CAD" /\ state' = "IDLE")
BY DEF Next, event_poll, poll_nothing, poll_begin, poll_read, send,
       popReceiveIfNotEmpty, channel, chip, packet_in, message_out, check_end,
       glitch, vars, driverVars, set_mode, tick_Rx_late, start_Idle, IInv,
       Control, MidTick

\* A configured chip never starts to transmit after a channel check that heard
\* somebody (event_tick_Cad() takes silence for a clear channel,
\* SX1276Driver.cpp:329-343).
THEOREM ListenTheorem == Spec => ListenBeforeTalk
<1>1. IInv /\ [Next]_vars
        => [lora /\ state = "CAD" /\ state' = "TX" => ~heard]_vars
  <2> SUFFICES ASSUME IInv, [Next]_vars, lora, state = "CAD", state' = "TX"
               PROVE  ~heard
    OBVIOUS
  <2>1. CASE event_tick
    BY <2>1, TickFinds DEF event_tick, IInv, HeardIsPending
  <2>2. CASE poll_dispatch
    BY <2>2, DispatchedType, TypeParts DEF poll_dispatch, IInv
  <2>3. QED
    BY <2>1, <2>2, WhoChangesState
<1>2. QED
  BY <1>1, RadioInvariant, PTL DEF Spec, ListenBeforeTalk

\* Nothing but TxDone or the transmit timeout ends a transmission: a stale
\* RxDone or CadDone can not reach the handlers in TX_STATE, where each of
\* them would put the chip into standby (SX1276Driver.cpp:206-210, :229-233).
THEOREM AbandonTheorem == Spec => TxAbandonedOnlyOnTimeout
<1>1. IInv /\ [Next]_vars
        => [state = "TX" /\ state' # "TX"
              => "Tx" \in irq \/ age + MaxTickGap > TxTimeout]_vars
  <2> SUFFICES ASSUME IInv, [Next]_vars, state = "TX", state' # "TX"
               PROVE  "Tx" \in irq \/ age + MaxTickGap > TxTimeout
    OBVIOUS
  <2>1. CASE event_tick
    <3>1. PICK d \in 1..MaxTickGap : event_tick_Tx(d)
      BY <2>1 DEF event_tick, event_tick_Idle, event_tick_Rx, event_tick_Cad,
                  reset_radio_ok, reset_radio_failed
    <3>2. age + d > TxTimeout
      BY <3>1 DEF event_tick_Tx, TxExpired
    <3>3. age \in Nat
      BY DEF IInv, TypeOK
    <3>4. QED
      BY <3>2, <3>3
  <2>2. CASE poll_dispatch
    <3>1. "Cad" \notin irq /\ ("Rx" \in irq => "Tx" \in irq)
      BY DEF IInv, Control, Leftovers, Pending
    <3>2. QED
      BY <2>2, <3>1 DEF poll_dispatch, Dispatched
  <2>3. QED
    BY <2>1, <2>2, WhoChangesState
<1>2. QED
  BY <1>1, RadioInvariant, PTL DEF Spec, TxAbandonedOnlyOnTimeout

-----------------------------------------------------------------------------
(***************************************************************************)
(* The LoRa driver delivers in order, both ways, for every choice of       *)
(* timeouts, tick gap and queue sizes.  The message in the chip's FIFO     *)
(* lies between those that went out and those on the queue, from the time  *)
(* it is put there until the chip has sent it.  The packet in the FIFO, if *)
(* it is still there, is the last that arrived, whenever event_RxDone()    *)
(* reads it.                                                               *)
(***************************************************************************)

Increasing(s) == \A i, j \in 1..Len(s) : i < j => s[i] < s[j]
Rising(s) == \A i, j \in 1..Len(s) : i < j => s[j] = 0 \/ s[i] <= s[j]
Below(s, n) == \A i \in 1..Len(s) : s[i] < n
UpTo(s, n) == \A i \in 1..Len(s) : s[i] <= n
Above(n, s) == \A i \in 1..Len(s) : n < s[i]
Before(s, t) == \A i \in 1..Len(s), j \in 1..Len(t) : s[i] < t[j]

\* What went out, what is on the air, what waits, what is yet to be queued.
OutInOrder ==
  /\ Increasing(sent) /\ Increasing(txq) /\ Before(sent, txq)
  /\ Below(sent, nextMsg) /\ Below(txq, nextMsg)
  /\ lora /\ (mode = "TX" \/ pc = "set_TX") =>
       Below(sent, outgoing) /\ Above(outgoing, txq) /\ outgoing < nextMsg

\* What the application has popped, what it will pop, what is in the FIFO.
InInOrder ==
  /\ Rising(got \o rxq) /\ Below(got \o rxq, nextPkt) /\ nextPkt > 0
  /\ fifo = 0 \/ fifo + 1 = nextPkt

-----------------------------------------------------------------------------
(* Sequences of numbers.                                                   *)

LEMMA Appended ==
  ASSUME NEW s \in Seq(Nat), NEW n \in Nat
  PROVE  /\ Append(s, n) \in Seq(Nat) /\ Len(s) \in Nat /\ Len(Append(s, n)) = Len(s) + 1
         /\ \A i \in 1..Len(s) : Append(s, n)[i] = s[i] /\ s[i] \in Nat
         /\ \A i \in 1..Len(Append(s, n)) :
              i \in 1..Len(s) \/ (i = Len(s) + 1 /\ Append(s, n)[i] = n)
OBVIOUS

LEMMA Tailed ==
  ASSUME NEW s \in Seq(Nat), s # <<>>
  PROVE  /\ Tail(s) \in Seq(Nat) /\ Len(s) \in Nat \ {0} /\ Len(Tail(s)) = Len(s) - 1
         /\ \A i \in 1..Len(Tail(s)) : i + 1 \in 1..Len(s) /\ Tail(s)[i] = s[i + 1]
         /\ \A i \in 1..Len(s) : s[i] \in Nat
         /\ 1 \in 1..Len(s) /\ Head(s) = s[1] /\ Head(s) \in Nat
OBVIOUS

\* A number above all others may be added at the end.
LEMMA AppendInOrder ==
  ASSUME NEW s \in Seq(Nat), NEW n \in Nat, Increasing(s), Below(s, n)
  PROVE  Increasing(Append(s, n))
<1> SUFFICES ASSUME NEW i \in 1..Len(Append(s, n)), NEW j \in 1..Len(Append(s, n)), i < j
             PROVE  Append(s, n)[i] < Append(s, n)[j]
  BY DEF Increasing
<1>1. i \in 1..Len(s)
  BY Appended
<1>2. Append(s, n)[i] = s[i]
  BY <1>1, Appended
<1>3. CASE j \in 1..Len(s)
  BY <1>1, <1>2, <1>3, Appended DEF Increasing
<1>4. CASE j = Len(s) + 1 /\ Append(s, n)[j] = n
  BY <1>1, <1>2, <1>4 DEF Below
<1>5. QED
  BY <1>3, <1>4, Appended

LEMMA AppendRising ==
  ASSUME NEW s \in Seq(Nat), NEW n \in Nat, Rising(s), n = 0 \/ UpTo(s, n)
  PROVE  Rising(Append(s, n))
<1> SUFFICES ASSUME NEW i \in 1..Len(Append(s, n)), NEW j \in 1..Len(Append(s, n)), i < j
             PROVE  Append(s, n)[j] = 0 \/ Append(s, n)[i] <= Append(s, n)[j]
  BY DEF Rising
<1>1. i \in 1..Len(s) /\ Append(s, n)[i] = s[i]
  BY Appended
<1>2. CASE j \in 1..Len(s)
  BY <1>1, <1>2, Appended DEF Rising
<1>3. CASE j = Len(s) + 1 /\ Append(s, n)[j] = n
  BY <1>1, <1>3 DEF UpTo
<1>4. QED
  BY <1>2, <1>3, Appended

LEMMA ConcatLen ==
  ASSUME NEW s \in Seq(Nat), NEW t \in Seq(Nat)
  PROVE  s \o t \in Seq(Nat) /\ Len(s \o t) = Len(s) + Len(t)
BY ConcatProperties

LEMMA SameNumbers ==
  ASSUME NEW s \in Seq(Nat), NEW t \in Seq(Nat), Len(s) = Len(t),
         \A i \in 1..Len(s) : s[i] = t[i]
  PROVE  s = t
OBVIOUS

LEMMA AppendBelow ==
  ASSUME NEW s \in Seq(Nat), NEW n \in Nat, NEW m \in Nat, Below(s, m)
  PROVE  Below(s, m + 1) /\ (n < m => Below(Append(s, n), m))
<1>1. \A i \in 1..Len(s) : s[i] \in Nat
  OBVIOUS
<1>2. QED
  BY <1>1, Appended DEF Below

\* A packet that moves from the queue to the application leaves the order of
\* the whole as it is; one that is queued goes to its end.
LEMMA MovedOn ==
  ASSUME NEW s \in Seq(Nat), NEW t \in Seq(Nat), t # <<>>
  PROVE  Append(s, Head(t)) \o Tail(t) = s \o t
<1> DEFINE u == Append(s, Head(t))
<1>1. /\ u \in Seq(Nat) /\ Len(u) = Len(s) + 1 /\ u[Len(s) + 1] = t[1]
      /\ \A i \in 1..Len(s) : u[i] = s[i]
      /\ Len(s) \in Nat /\ Len(t) \in Nat \ {0}
      /\ Tail(t) \in Seq(Nat) /\ Len(Tail(t)) = Len(t) - 1
  BY Appended, Tailed
<1>2. \A i \in 1..Len(Tail(t)) : Tail(t)[i] = t[i + 1]
  BY Tailed
<1> HIDE DEF u
<1>3. /\ u \o Tail(t) \in Seq(Nat) /\ s \o t \in Seq(Nat)
      /\ Len(u \o Tail(t)) = Len(s) + Len(t) /\ Len(s \o t) = Len(s) + Len(t)
  <2>1. u \o Tail(t) \in Seq(Nat) /\ Len(u \o Tail(t)) = Len(u) + Len(Tail(t))
    BY <1>1, ConcatLen
  <2>2. s \o t \in Seq(Nat) /\ Len(s \o t) = Len(s) + Len(t)
    BY ConcatLen
  <2>3. QED
    BY <1>1, <2>1, <2>2
<1>4. ASSUME NEW i \in 1..Len(s \o t) PROVE (u \o Tail(t))[i] = (s \o t)[i]
  <2>1. CASE i \in 1..Len(s)
    BY <1>1, <2>1
  <2>2. CASE i = Len(s) + 1
    BY <1>1, <2>2
  <2>3. CASE i > Len(s) + 1
    <3>1. (u \o Tail(t))[i] = Tail(t)[i - Len(u)]
      BY <1>1, <2>3
    <3>2. (s \o t)[i] = t[i - Len(s)]
      BY <1>1, <2>3
    <3>3. i - Len(u) \in 1..Len(Tail(t)) /\ (i - Len(u)) + 1 = i - Len(s)
      BY <1>1, <2>3
    <3>4. QED
      BY <1>2, <3>1, <3>2, <3>3
  <2>4. QED
    <3>1. i \in Nat /\ (i <= Len(s) \/ i = Len(s) + 1 \/ i > Len(s) + 1) /\ i >= 1
      BY <1>1, <1>3
    <3>2. QED
      BY <1>1, <2>1, <2>2, <2>3, <3>1
<1>5. QED
  BY <1>3, <1>4, SameNumbers DEF u

LEMMA QueuedLast ==
  ASSUME NEW s \in Seq(Nat), NEW t \in Seq(Nat), NEW n \in Nat
  PROVE  s \o Append(t, n) = Append(s \o t, n) /\ s \o t \in Seq(Nat)
OBVIOUS

\* What is true of each element stays true when the first is taken off.
LEMMA TailInOrder ==
  ASSUME NEW s \in Seq(Nat), s # <<>>
  PROVE  /\ Increasing(s) => Increasing(Tail(s)) /\ Above(Head(s), Tail(s))
         /\ \A n : Below(s, n) => Below(Tail(s), n) /\ Head(s) < n
         /\ \A n : Above(n, s) => Above(n, Tail(s))
<1>1. Increasing(s) => Increasing(Tail(s))
  BY Tailed DEF Increasing
<1>2. Increasing(s) => Above(Head(s), Tail(s))
  BY Tailed DEF Increasing, Above
<1>3. \A n : Below(s, n) => Below(Tail(s), n) /\ Head(s) < n
  BY Tailed DEF Below
<1>4. \A n : Above(n, s) => Above(n, Tail(s))
  BY Tailed DEF Above
<1>5. QED
  BY <1>1, <1>2, <1>3, <1>4

-----------------------------------------------------------------------------
(* The way out.                                                            *)

Loaded == lora /\ (mode = "TX" \/ pc = "set_TX")

QuietOut ==
  /\ UNCHANGED <<sent, txq, nextMsg>>
  /\ Loaded' => Loaded /\ outgoing' = outgoing

LEMMA QuietKeepsOut ==
  ASSUME OutInOrder, QuietOut
  PROVE  OutInOrder'
BY DEF OutInOrder, QuietOut, Loaded, Increasing, Before, Below, Above

LEMMA StartTxOut ==
  ASSUME TypeOK, OutInOrder, txq # <<>>, start_Tx, UNCHANGED <<sent, nextMsg>>
  PROVE  OutInOrder'
<1>1. /\ txq \in Seq(Nat) /\ txq' = Tail(txq) /\ outgoing' = Head(txq)
      /\ sent' = sent /\ nextMsg' = nextMsg
  BY DEF TypeOK, start_Tx
<1>2. /\ Increasing(txq') /\ Below(txq', nextMsg) /\ Above(outgoing', txq')
      /\ outgoing' < nextMsg
  BY <1>1, TailInOrder DEF OutInOrder
<1>3. Before(sent, txq') /\ Below(sent, outgoing')
  BY <1>1, Tailed DEF OutInOrder, Before, Below
<1>4. QED
  BY <1>1, <1>2, <1>3 DEF OutInOrder, Increasing, Before, Below, Above

LEMMA MessageOut ==
  ASSUME TypeOK, Control, OutInOrder, message_out
  PROVE  OutInOrder'
<1>1. /\ sent \in Seq(Nat) /\ outgoing \in Nat /\ mode' = "STDBY" /\ pc' = pc
      /\ sent' = Append(sent, outgoing) /\ txq' = txq /\ nextMsg' = nextMsg
      /\ Below(sent, outgoing) /\ Above(outgoing, txq) /\ outgoing < nextMsg
  BY DEF TypeOK, message_out, OutInOrder, loopVars
<1>2. Increasing(sent')
  BY <1>1, AppendInOrder DEF OutInOrder
<1>3. Below(sent', nextMsg) /\ Before(sent', txq)
  BY <1>1, Appended DEF OutInOrder, Below, Before, Above
<1>4. pc # "set_TX"
  BY DEF message_out, Control, MidTick, SetMode
<1>5. QED
  BY <1>1, <1>2, <1>3, <1>4 DEF OutInOrder, Increasing, Before, Below, Above

LEMMA SendOut ==
  ASSUME TypeOK, OutInOrder, send
  PROVE  OutInOrder'
<1>1. /\ txq \in Seq(Nat) /\ sent \in Seq(Nat) /\ nextMsg \in Nat /\ nextMsg' = nextMsg + 1
      /\ UNCHANGED <<lora, mode, pc, outgoing, sent>> /\ outgoing \in Nat
  BY DEF TypeOK, send, chipVars, fifoVars, loopVars
<1>2. /\ Increasing(txq) /\ Below(txq, nextMsg) /\ Below(sent, nextMsg) /\ Before(sent, txq)
      /\ Increasing(sent)
  BY DEF OutInOrder
<1>3. \A i \in 1..Len(sent) : sent[i] \in Nat
  BY <1>1
<1>4. Below(sent, nextMsg')
  BY <1>1, <1>2, <1>3 DEF Below
<1>5. CASE txq' = Append(txq, nextMsg)
  <2>1. Increasing(txq')
    BY <1>1, <1>2, <1>5, AppendInOrder
  <2>2. Below(txq', nextMsg')
    BY <1>1, <1>2, <1>5, Appended DEF Below
  <2>3. Before(sent, txq')
    BY <1>1, <1>2, <1>5, Appended DEF Below, Before
  <2>4. Loaded => /\ Below(sent, outgoing) /\ Above(outgoing, txq')
                   /\ outgoing < nextMsg'
    BY <1>1, <1>2, <1>5, Appended DEF OutInOrder, Loaded, Above
  <2>5. QED
    BY <1>1, <1>2, <1>4, <2>1, <2>2, <2>3, <2>4 DEF OutInOrder, Loaded, Increasing, Before, Below, Above
<1>6. CASE txq' = txq
  <2>1. Below(txq, nextMsg')
    <3>1. \A i \in 1..Len(txq) : txq[i] \in Nat
      BY <1>1
    <3>2. QED
      BY <1>1, <1>2, <3>1 DEF Below
  <2>2. Loaded => outgoing < nextMsg'
    BY <1>1 DEF OutInOrder, Loaded
  <2>3. QED
    BY <1>1, <1>2, <1>4, <1>6, <2>1, <2>2 DEF OutInOrder, Loaded, Increasing, Before, Below, Above
<1>7. QED
  BY <1>5, <1>6 DEF send

\* Only the end of a channel check puts a message into the FIFO.
LEMMA TickOut ==
  ASSUME TypeOK, Control, OutInOrder, event_tick
  PROVE  OutInOrder'
<1>1. UNCHANGED <<sent, nextMsg>> /\ pc = "loop"
  BY DEF event_tick, TickDue
<1> USE DEF fifoVars
<1>2. CASE event_tick_Idle
  <2>1. /\ pc' # "set_TX" /\ UNCHANGED <<lora, mode, outgoing, txq>>
    BY <1>1, <1>2 DEF event_tick_Idle, start_Restart, start_Cad, start_Rx
  <2>2. QED
    BY <1>1, <2>1, QuietKeepsOut DEF QuietOut, Loaded
<1>3. ASSUME NEW d \in 1..MaxTickGap, event_tick_Tx(d) PROVE OutInOrder'
  BY <1>1, <1>3, QuietKeepsOut DEF event_tick_Tx, start_Idle, QuietOut, Loaded
<1>4. ASSUME NEW d \in 1..MaxTickGap, event_tick_Rx(d) PROVE OutInOrder'
  <2>1. /\ pc' # "set_TX" /\ mode' \in {mode, "STDBY"}
        /\ UNCHANGED <<lora, outgoing, txq>>
    BY <1>1, <1>4 DEF event_tick_Rx, start_Cad, start_Idle
  <2>2. QED
    BY <1>1, <2>1, QuietKeepsOut DEF QuietOut, Loaded
<1>5. ASSUME NEW d \in 1..MaxTickGap, event_tick_Cad(d) PROVE OutInOrder'
  <2>1. CASE txq # <<>> /\ start_Tx
    BY <1>1, <2>1, StartTxOut
  <2>2. CASE UNCHANGED <<pc, txq, fifoVars>> /\ mode' \in {mode, "STDBY"}
    BY <1>1, <1>5, <2>2, QuietKeepsOut DEF event_tick_Cad, QuietOut, Loaded
  <2>3. QED
    BY <1>5, <2>1, <2>2 DEF event_tick_Cad, start_Idle
<1>6. CASE reset_radio_ok \/ reset_radio_failed
  BY <1>1, <1>6, QuietKeepsOut
     DEF reset_radio_ok, reset_radio_failed, HardReset, QuietOut, Loaded
<1>7. QED
  BY <1>2, <1>3, <1>4, <1>5, <1>6 DEF event_tick

LEMMA OutStep ==
  ASSUME TypeOK, Control, OutInOrder, [Next]_vars
  PROVE  OutInOrder'
<1> USE DEF driverVars, loopVars, chipVars, fifoVars, historyVars, QuietOut, Loaded
<1>1. CASE event_poll
  <2>1. UNCHANGED <<sent, txq, nextMsg, lora, outgoing>> /\ pc' # "set_TX"
    BY <1>1 DEF event_poll, poll_nothing, poll_begin, poll_read, poll_dispatch
  <2>2. mode' \in {mode, "STDBY"}
    BY <1>1, DispatchedType, TypeParts
       DEF event_poll, poll_nothing, poll_begin, poll_read, poll_dispatch
  <2>3. QED
    BY <2>1, <2>2, QuietKeepsOut
<1>2. ASSUME NEW kind \in {"good", "crc", "empty"}, packet_in(kind) PROVE OutInOrder'
  BY <1>2, QuietKeepsOut DEF packet_in
<1>3. ASSUME NEW detected \in BOOLEAN, check_end(detected) PROVE OutInOrder'
  BY <1>3, QuietKeepsOut DEF check_end
<1>4. CASE glitch
  BY <1>4, QuietKeepsOut DEF glitch, HardReset
<1>5. CASE popReceiveIfNotEmpty \/ channel \/ UNCHANGED vars
  BY <1>5, QuietKeepsOut DEF popReceiveIfNotEmpty, channel, vars
<1>6. CASE set_mode \/ tick_Rx_late
  BY <1>6, QuietKeepsOut DEF set_mode, tick_Rx_late, start_Idle
<1>7. QED
  BY <1>1, <1>2, <1>3, <1>4, <1>5, <1>6, TickOut, SendOut, MessageOut DEF Next, chip

-----------------------------------------------------------------------------
(* The way in.                                                             *)

QuietIn == UNCHANGED <<got, rxq, nextPkt>> /\ fifo' \in {0, fifo}

LEMMA QuietKeepsIn ==
  ASSUME InInOrder, QuietIn
  PROVE  InInOrder'
BY DEF InInOrder, QuietIn, Rising, Below

LEMMA TickIn ==
  ASSUME InInOrder, event_tick
  PROVE  InInOrder'
<1> USE DEF fifoVars
<1>1. UNCHANGED <<got, nextPkt, rxq>>
  BY DEF event_tick, event_tick_Idle, event_tick_Tx, event_tick_Rx, event_tick_Cad,
         reset_radio_ok, reset_radio_failed
<1>2. fifo' \in {0, fifo}
  BY DEF event_tick, event_tick_Idle, event_tick_Tx, event_tick_Rx, event_tick_Cad,
         start_Tx, reset_radio_ok, reset_radio_failed, HardReset
<1>3. QED
  BY <1>1, <1>2, QuietKeepsIn DEF QuietIn

LEMMA PacketIn ==
  ASSUME TypeOK, InInOrder, NEW kind \in {"good", "crc", "empty"}, packet_in(kind)
  PROVE  InInOrder'
<1>1. /\ nextPkt \in Nat /\ nextPkt' = nextPkt + 1 /\ fifo' = nextPkt
      /\ UNCHANGED <<got, rxq>> /\ got \o rxq \in Seq(Nat)
  BY QueuedLast DEF TypeOK, packet_in
<1>2. Rising(got \o rxq) /\ Below(got \o rxq, nextPkt)
  BY DEF InInOrder
<1>3. Below(got \o rxq, nextPkt + 1)
  BY <1>1, <1>2, AppendBelow
<1>4. QED
  BY <1>1, <1>2, <1>3 DEF InInOrder, Rising, Below

LEMMA DispatchIn ==
  ASSUME TypeOK, InInOrder, poll_dispatch
  PROVE  InInOrder'
<1>1. /\ UNCHANGED <<got, nextPkt, fifo>>
      /\ got \in Seq(Nat) /\ rxq \in Seq(Nat) /\ fifo \in Nat /\ nextPkt \in Nat
  BY DEF TypeOK, poll_dispatch, historyVars, fifoVars
<1>2. CASE Accepted
  <2> DEFINE s == got \o rxq
  <2>1. s \in Seq(Nat) /\ got' \o rxq' = Append(s, fifo)
    BY <1>1, <1>2, QueuedLast DEF poll_dispatch
  <2>2. Rising(s) /\ Below(s, nextPkt) /\ fifo < nextPkt /\ nextPkt > 0
    BY <1>1 DEF InInOrder
  <2>3. fifo = 0 \/ UpTo(s, fifo)
    <3>1. \A i \in 1..Len(s) : s[i] \in Nat
      BY <2>1
    <3>2. QED
      BY <1>1, <2>2, <3>1 DEF InInOrder, Below, UpTo
  <2>4. Rising(Append(s, fifo))
    BY <1>1, <2>1, <2>2, <2>3, AppendRising
  <2>5. Below(Append(s, fifo), nextPkt)
    BY <1>1, <2>1, <2>2, AppendBelow
  <2>6. QED
    BY <1>1, <2>1, <2>2, <2>4, <2>5 DEF InInOrder, Rising, Below
<1>3. CASE ~Accepted
  BY <1>1, <1>3, QuietKeepsIn DEF poll_dispatch, QuietIn
<1>4. QED
  BY <1>2, <1>3

LEMMA PopIn ==
  ASSUME TypeOK, InInOrder, popReceiveIfNotEmpty
  PROVE  InInOrder'
<1>1. /\ got \in Seq(Nat) /\ rxq \in Seq(Nat) /\ rxq # <<>>
      /\ got' = Append(got, Head(rxq)) /\ rxq' = Tail(rxq)
      /\ UNCHANGED <<nextPkt, fifo>>
  BY DEF TypeOK, popReceiveIfNotEmpty, chipVars, fifoVars
<1>2. got' \o rxq' = got \o rxq
  BY <1>1, MovedOn
<1>3. QED
  BY <1>1, <1>2 DEF InInOrder, Rising, Below

LEMMA InStep ==
  ASSUME TypeOK, InInOrder, [Next]_vars
  PROVE  InInOrder'
<1> USE DEF driverVars, loopVars, chipVars, fifoVars, historyVars, QuietIn
<1>1. CASE poll_nothing \/ poll_begin \/ poll_read
  BY <1>1, QuietKeepsIn DEF poll_nothing, poll_begin, poll_read
<1>2. CASE message_out
  BY <1>2, QuietKeepsIn DEF message_out
<1>3. ASSUME NEW detected \in BOOLEAN, check_end(detected) PROVE InInOrder'
  BY <1>3, QuietKeepsIn DEF check_end
<1>4. CASE glitch
  BY <1>4, QuietKeepsIn DEF glitch, HardReset
<1>5. CASE send \/ channel \/ set_mode \/ tick_Rx_late \/ UNCHANGED vars
  BY <1>5, QuietKeepsIn DEF send, channel, set_mode, tick_Rx_late, vars
<1>6. QED
  BY <1>1, <1>2, <1>3, <1>4, <1>5, TickIn, PacketIn, DispatchIn, PopIn DEF Next, event_poll, chip

-----------------------------------------------------------------------------
\* Messages go out once and in the order of send(), and the packets the
\* application has popped and will pop are in the order they arrived, whatever
\* times out, fails or is left over in between (start_Tx(), event_RxDone(),
\* event_tick_Cad()).
THEOREM DeliveryTheorem == Spec => []DeliveryOrder
<1>1. Init => OutInOrder /\ InInOrder
  <2>1. <<>> \o <<>> = <<>> /\ Len(<<>>) = 0
    OBVIOUS
  <2>2. QED
    BY <2>1 DEF Init, OutInOrder, InInOrder, Increasing, Rising, Below, Above, Before
<1>2. TypeOK /\ Control /\ OutInOrder /\ InInOrder /\ [Next]_vars
        => OutInOrder' /\ InInOrder'
  BY OutStep, InStep
<1>3. OutInOrder /\ InInOrder => DeliveryOrder
  BY DEF OutInOrder, InInOrder, DeliveryOrder, Increasing, Before, Rising
<1>4. QED
  BY <1>1, <1>2, <1>3, ControlInvariant, PTL DEF Spec
=============================================================================
