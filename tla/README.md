# TLA+ models of kc1fsz-tools

kc1fsz-tools is a C++ library for small radio and network devices: an RP2040
(Pico) or a Linux host drives a LoRa radio, a UART, audio and a few network
protocols with it. There is no dynamic memory on the small targets, so much of
the library is queues, lists and buffers over fixed arrays; much of the rest is
drivers and detectors that are advanced by a main loop calling `event_tick()`,
`event_poll()`, `poll()`, `run()` or `get()`, and functions that build and read
packets in a caller's buffer.

This directory models the parts that keep state, the parts that talk to
something at the other end of a link, and the functions whose boundaries are
easy to get wrong. Each module is translated from the source it names;
`PROJECT.json` maps every definition to its lines. TLC checks the models on
small instances, TLAPS proves the main results for every value of the
constants. Paths below are relative to `src/`.

Run one check with `tlc -config X.cfg M`, the proofs of one module with
`tlapm X_proofs.tla`.

## 1. The system

### 1.1 Components

| Component | State it keeps | Operations | What makes it correct |
|---|---|---|---|
| `SX1276Driver` (src/rp2040, LoRa radio) | driver state, start times, `_isrHit`, two message rings; the chip's mode, IRQ flags, DIO0 mapping, FIFO | `send`, `popReceiveIfNotEmpty`, `event_tick`, `event_poll`, `event_int` | no event lost or left unnoticed; driver state and chip mode agree; listens before it talks; messages leave in order; recovers from a chip that forgot its set-up |
| `CircularBuffer` | byte ring, two indices | `push`, `pop`, `peek`, `popAndDiscard`, `popIfNotEmpty` | a FIFO of whole messages; a refused push leaves no trace |
| `PicoUartChannel` (src/rp2040) | two rings with two running counters each, shared with an interrupt | `read`, `write`, `run`, `bytesReadable`, `bytesWritable`, `_readISR` | bytes in order, newest dropped when full, sanity checks hold over counter run-over |
| `CircularQueuePointers`, `CircularQueueWithTrigger` | two pointers, a depth, fault counters; a fill trigger | single and block push/pop, reset | depth equals distance; full and empty are told apart; blocks in order; the reader waits for the fill |
| `CircularQueuePtr` | two pointers, overflow counter | read, write pointer | an overflow is noticed |
| `fixedsortedlist`, `fixedqueue`, `TaggedBuffer` | fixed arrays of items, links or packets | insert/push, pop, visit-and-remove, clear | order kept, nothing lost, doubled or leaked |
| `threadsafequeue2` | a queue under a mutex and a condition variable | `push`, `try_pop` with time-out, `clear` | no item left behind with everyone asleep |
| `StateMachine` | state, time-out, its start | `setState` (two), `inState`, `reset`, `init` | a time-out belongs to the state it was set with and does fire |
| `Clock` | a 32-bit millisecond counter | `time`, `timeUs`, `timeMs`, `isPastWindow` | derived times follow the counter |
| `StdPollTimer` | interval and last boundary | `setIntervalUs`, `reset`, `poll` | no tick lost or doubled when the loop is late |
| `TimeDebouncer` | debounced value, last stable time | `get` | a change takes the configured time, and gets through |
| `DTMFDetector2`, `DTMFDetector` | detection state, counters, block history, results | `processBlock`/`play`, `popDetection`/`pullResult`, `reset` | one report per key press |
| `SWDDriver` (src/rp2040, debug link) | direction of the data pin, the AP's identity; at the target SELECT, TAR, RDBUFF, a pending error | `connect`, single and block writes, word and half-word reads | one side drives the line; writes land where they should, reads return what was asked for, or an error is returned |
| `SWDUtils` | nothing of its own; the target's core, ROM, RAM and flash | `reset_into_debug`, `flash_and_verify`, `reset` | each ROM routine runs with its own arguments; only erased pages are programmed; a bad page is reported |
| `MicroDNS`, `DHCPUtils`, `ARPUtils` | none; the caller keeps the results | make and parse questions, answers, leases, frames | what a call extracts is what the owner of the name or address said |
| `NetUtils`, checksums, `Common`, `fixed_math`, `NTPUtils` | none (`Common`: a clock that can be set) | addresses, information elements, URLs, tokens, modular comparison, saturating arithmetic, NTP time | equal to a reference definition, at the boundaries too |
| `SerialLog`, `MTLog`, `Log`, `circularqueue`, `threadsafequeue`, strings and vectors, `CommandShell`, audio filters, platform glue, md5, crc | see "Not modelled" | | |

### 1.2 How they interact

* The radio driver owns two `CircularBuffer`s. The application's `send()` pushes
  into one; `event_tick()` takes from it; `event_poll()` pushes received packets
  into the other; the application pops them. The chip raises DIO0, whose
  interrupt handler only sets `_isrHit`.
* `PicoUartChannel::_readISR()` runs as an interrupt over the main program's
  `read()` and `bytesReadable()`. It and `CommandShell` meet at `Channel`.
* `StateMachine`, `StdPollTimer`, `TimeDebouncer`, the radio driver and
  `DTMFDetector2` ask a `Clock`. `PicoClock` inherits the default `timeUs()`;
  `PicoClock2` and `StdClock` replace it with a 64-bit one.
* `threadsafequeue2` connects threads on a host.
* `SWDUtils` calls `SWDDriver` access by access; beside the two, the target's
  core runs at its own pace. The host can only poll for the end of a register
  transfer or of a ROM routine.
* `MicroDNS`, `DHCPUtils` and `ARPUtils` are called with packets the network
  delivered: late, twice, reordered, cut, or somebody else's. `DHCPUtils` reads
  and writes options with `NetUtils`' information elements and checksums.

### 1.3 What is hard here

* **Interrupts**: two places (DIO0, UART receive) where a handler runs between
  two memory accesses of the main program, with no lock.
* **Threads**: a condition variable that is notified only on some pushes.
* **A second processor**: a core that takes registers and runs routines while
  the host goes on, with one data register between them.
* **One wire, two drivers**: a transaction that fails leaves host and target
  with different ideas of what comes next.
* **Events that come late**: the radio's events are read long after the chip
  raised them, when the driver may have moved on to another mode.
* **Networks**: replies of two servers and of other clients; packets cut at any
  byte, in which a name, an option or a record must still not be misread.
* **Rings at their limits**: full against empty, wrap-around inside a block,
  pushes that fail half way, counters that run over.
* **Lazy time**: time-outs and windows are noticed only when somebody asks.
* **Clock run-over**: 32-bit milliseconds, and a microsecond time that runs over
  a thousand times earlier.
* **In-place removal** during a walk over a list.
* **Ends of ranges**: sums that saturate, differences that wrap, buffers that
  are exactly full.

`PROJECT.json` lists the places, with the property that watches each, or why
none does.

## 2. Modules

| Module | Models | Specification of the same thing |
|---|---|---|
| `SX1276Driver` | driver, DIO0, chip, channel, main loop | - |
| `CircularBuffer` | `CircularBufferImpl` | `MessageQueue` |
| `PicoUartChannel` | UART | `BlockQueue` (one per direction) |
| `CircularQueuePointers` | pointers | - |
| `CircularQueueWithTrigger` | extends the pointers by a space and the trigger | `BlockQueue` |
| `CircularQueuePtr` | older pointers | - |
| `FixedSortedList`, `FixedQueue`, `TaggedBuffer` | containers | `OrderedList` (three instances) |
| `ThreadSafeQueue2` | queue between threads | - |
| `Clock` | clock | - |
| `StateMachine` | extends `Clock` | `TimedState` |
| `TimeDebouncer` | extends `Clock` | - |
| `StdPollTimer` | poll timer | - |
| `DTMFDetector2`, `DTMFDetector` | detectors | - |
| `SWDDriver` | debug link: host, line, debug port | - |
| `SWDUtils` | flashing over the link: host, core, ROM, flash | - |
| `MicroDNS` | names: client, server, network | - |
| `DHCPUtils` | leases: client, two servers, network; extends `NetUtils` | - |
| `ARPUtils` | address resolution on a segment | - |
| `NetUtils`, `Common`, `FixedMath`, `NTPUtils` | functions without state | reference definitions in `Calls` |
| `Calls` | a call of each of those functions | |
| `Documented` | extends `Calls` by what headers say of six functions | |
| `MCChannels` | `PicoUartChannel`, `CircularBuffer`, `ThreadSafeQueue2` for TLC | |
| `MCStorage` | `CircularQueue...`, containers for TLC | |
| `MCSignals` | timers and detectors for TLC | |
| `MCLinks` | debug link, flashing, network, functions for TLC | |
| `MCPicoUartChannel`, `MCSWDDriver` | one component for TLC | |
| `X_proofs` | theorems about the components in `X`; `MicroDNS_proofs` builds on `MCLinks_proofs` | |

Names of actions are the names of the methods. An operator `X_Bug` is a
plausible mistake in the `X` after it; no action uses it. Substituting it for
`X` must break the property `PROJECT.json` pairs it with, which shows that the
property depends on that line of the code.

**`SX1276Driver`.** `state`, `initGood`, `isrHit`, `txq`, `rxq` are the object's
fields; the rings are sequences of numbers here (that a ring is a sequence is
what `CircularBuffer` shows). `age` is the current time minus the start time of
the current state: the code keeps one start time per state and reads only that
of the state it is in. The code computes it as an unsigned difference of 32-bit
milliseconds; the model counts it directly, since no state lasts for half of the
49 days of a lap. `event_tick()` has one disjunct per state and is not atomic: a
`start_` function remaps DIO0 in one SPI transfer and changes the mode in a later
one (`set_mode`), and the chip works on in between. In `event_tick_Rx()` the
receive time-out may follow in the same call, behind a channel check that has
begun and may have ended by then (`tick_Rx_late`). `event_poll()` is not atomic
either: the flag is cleared, the IRQ register read twice, and the events
dispatched in separate steps with the chip in between. `TickDue` states what the
main loop does: it polls between two ticks, and a channel check started by a tick,
which takes a few milliseconds, has been polled for before the next tick 50 ms
later. A loop that stalls for longer than that is not in the model, so that
`ListenBeforeTalk` says nothing of it. The chip (`packet_in`, `message_out`,
`check_end`, `glitch`) is modelled from what the driver relies on. A packet's
bytes are read in the step that handles its event, whichever packet is in the FIFO
by then. `got` remembers the packets that the application has popped.

**`CircularBuffer`.** Bytes, lengths and both indices as in the code. `push` has
the outcomes of the code: everything fits, or one of the three parts does not and
`_back` is put back while the bytes already written stay.

**`PicoUartChannel`.** Main-program steps are separated at each access to a
counter the interrupt handler changes; `_readISR()` can run at every one of
these points. `Width` is the width of the counters. `RunOver` says when they may run
over: never, while the main program is outside `read()` and `bytesReadable()` (of
the receive counter), or anywhere. The reader's `_rxBufferReadCount++` is a load
and a store. Nothing runs after a panic. The constructor takes buffers of any
size. The shift at run-over keeps a byte's slot, its count modulo the size, only
if the size divides the counters' modulus, as every power of two does; with
another size a byte that waits across the run-over is read from a wrong slot.
`UartAssumption` asks for such sizes where the counters may run over, and for no
more than room for the shift where they may not.

**`CircularQueuePointers`, `CircularQueueWithTrigger`.** One action per method;
the block push is two copies around the end of the space. The fields are
`volatile`, but nothing in the repository calls the class from two contexts, so
a method is one step.

**Containers.** Both chains of the linked list are in the state, as are the
shifted array and the packed bytes with their headers. A visitor is the set of
items it answers true for. `visited` and `given` are what the caller was handed,
so that the refinement covers the return values. A loop that removes is a function
of the number of turns it has made (`Turn`, `Loop`), and the list behind the
pointers or headers is read the way the code walks along it; neither takes it for
granted that the pointers, or the lengths in the headers, are in order.
`comparator`, the items, the queue's size and the packets are constants.

**`ThreadSafeQueue2`.** A method is one critical section; `try_pop()` is one up
to its wait and one from each wake-up. Notification is a set of waiting threads
of which one is chosen; a notification with nobody waiting is gone.

**`Clock`, `StateMachine`, `TimeDebouncer`.** `ms` is the hardware counter modulo
`Modulus` (2^32 scaled), and `timeUs` is computed modulo the same number, which
is what the code does. `StateMachine` does nothing by itself; `inState` is the
time-out check and its effect, and asking for the state without a due time-out
changes nothing. `init()` sets the state to return to, not the state.
`TimeDebouncer` measures with unsigned differences. `lasted`, `gap` and `agreed`
remember how long the input was really seen different.

**`StdPollTimer`.** Over a clock with a 64-bit `timeUs()`; `due` counts the
boundaries passed and not reported. An interval is cut to the 32 bits
(`Word`) that `setIntervalUs()` takes, the constructor's 64-bit one too.

**`DTMFDetector2`, `DTMFDetector`.** The symbol a block seems to hold is an
arbitrary input, which stands for everything the filters could find. The counter
of silence stops at the threshold it is compared with. `history` and `since`
remember the blocks themselves.

**`SWDDriver`.** A call is a script of transactions, `op` and `pc` say which one
is under way, and `phase` where in it: request, acknowledgement, data. `held` is
the pin's direction, set where the code calls `_holdDIO()` and `_releaseDIO()`.
A word of 32 bits stands as two halves of one bit, so that half-word reads,
parity and one inverted bit have room to be right or wrong. `target` is the debug
port, written from the ARM documentation that the driver's comments refer to: it answers
nothing before it has been selected, refuses all but the status, the identity
and ABORT with an error pending, holds back an AP read for RDBUFF, and increments
the TAR within a range. It may answer WAIT, and one bit of a data phase
may be inverted; what an undriven request or an unfinished data phase does to it
is left open. A line that nobody drives reads as ones, which the model takes from the
target's pull-up. The block write's comment says that the TAR is written only
where the increment does not reach; `Rewrite` is the code's test, which comes out
so that it is written for every word. `pollREGRDY` belongs to `SWDUtils`.

**`SWDUtils`.** `job` is the function, `stage` its part (a ROM call, the copy of
a page, the compare of a page), `at` the driver access of it that comes next, each
with the code it returns if it fails. An access works or fails as a whole. The core
(`core_transfer`, `run_serial`, `run_erase`, `run_program`, `run_mapped`,
`core_reset`) moves beside them: it takes a register from the one data register
when it gets to it, and a routine does what its arguments say and stops at the
breakpoint. Of the ROM's table the pointer, and each entry's code and address, are
accesses of their own (`TableAccess`). `mode` is whether the flash can be programmed, is mapped, or is
mapped behind an old cache. A page is programmed in one step. Flash pages hold
the number of an image's page, `Blank`, `Bad` or `Old`.

**`MicroDNS`, `DHCPUtils`, `ARPUtils`.** Byte sequences as in the code, with its
offsets and its order of checks; offsets count from 0. Around them stand the
other parties: a server that may write any name in full or with a pointer, whose
hosts are a label in front of the name asked for, and a network that cuts the
answer at every byte or returns the question (`MicroDNS`);
two servers, other clients' exchanges, and a network from which any packet sent
so far may come, any number of times, or never, whole or cut (`DHCPUtils`);
hosts that answer for their own address among frames of others (`ARPUtils`).
They are written from the protocol, not from the code under test, and read the
code's packets with their own eyes: the servers check the sums. In these
networks bytes are lost, not altered, and nobody lies.

**`NetUtils`, `Common`, `FixedMath`, `NTPUtils`, `Calls`.** The functions as
operators. Texts are sequences of characters before the null, where a digit
stands for its value; integers have a scaled width. A step of `Calls` is one call
with any arguments of small sets, `ret` what came out of it, and the properties
hold it against another definition: the counter that a sequence number is the
rest of, exact sums, the runs between separators, the address that was formatted.
Times become doubles in `calcOffset()` and `calcDelay()`: multiples of a `Grain`.
`Documented` calls the same functions and holds six of them against what their
headers say of them; `refuted` are those of which a call has shown that it is not so.

## 3. What is checked

| Run | Bounds | Shows |
|---|---|---|
| `radio` | 2 messages, 2 packets, 1 loss of configuration; queues of 2 and 2; tick gap 1-2 units of 50 ms; time-outs 2, 3, 3 units | `NoLostInterrupt`, `RadioAgreement`, `DeliveryOrder`, `ListenBeforeTalk`, `TxAbandonedOnlyOnTimeout`; `QueueDrains` and `RadioRecovers` under fairness |
| `channels` | UART: counters of 4 bits, rings of 4, blocks up to 3; message ring: 8 bytes, bodies of six lengths, out-of-band part of 1; threads: 3 threads, 4 items | no sanity check of the UART fails and both directions implement `BlockQueue`, as long as the receive counter does not run over inside a call; the ring implements `MessageQueue` (roll-back, wrap inside the length, short reader); no lost wake-up, each item once and in order, items leave |
| `uart_wrap` | the UART with run-over anywhere | violation of `NoPanic` |
| `storage` | capacity 4, trigger 3, frames up to 3, 2 refused calls; 3 slots, 10 cells, two keys with two names each | depth, pointers and block lengths agree; the frame queue implements `BlockQueue`; the reader waits for the fill; `OrderedList` three times |
| `queue_contiguous` | pointers of capacity 4 | violation of `ContiguousPushFits` |
| `ptr_overflow` | 3 slots, 6 writes | violation of `EmptyMeansEmpty` |
| `signals` | clock of 32 units, 3 "microseconds" per unit; time-outs 1 and 3, two `setState` calls; windows 4 and 3, sampled at gaps up to 2; intervals 3, 5 and 18, the last cut to 2, up to 24; 2 symbols | the state machine implements `TimedState`; time-outs fire; the debouncer keeps its window and settles; no tick lost; one report per press, twice |
| `clock_wrap` | the same clock, windows allowed to reach over a lap | violation of `TimeoutsFire` |
| `debounce_bounce` | one unit between samples | violation of `ChangesAfterWindow` |
| `links` | debug link: 4 words in 2 increment ranges, blocks of 1 and 3 words, 3 operations, 2 faults; flashing: image of 2 pages in a flash of 4, two ROM tables, 2 faults; names: 3 names, of 2 and 3 labels and one that ends with a dot, 3 kinds of record, buffers of 64 bytes; leases: 2 servers, one other exchange, 3 packets on the net, buffers of 305, 306 and 590 bytes; 3 hosts, 5 frames; functions at small widths | `LineOwnership`, `WritesAPrefix`, `ReadIsTrue`, `ReconnectWorks` of the link; `RunsAsAsked`, `OnlyErasedPages`, `ReportsBadPages`, `FlashReturns` of flashing; `AnswersAreServers`, `KnownIsOwners`, `LeaseIsOneServers` of the network; `FunctionsAgree` of the functions and of the sums in a request |
| `swd_parity` | the debug link with 1 fault | violation of `ParityDetects` |
| `headers` | the functions at the widths of `links` | violation of `SomeClaimStands`: a call against each of six claims of the headers |

**Why the bounds are enough.** Each ring is large enough to hold one more item
than the smallest that wraps, small enough to be full and to wrap in a few steps;
counter widths are small so that run-over happens. Two messages and two packets
give the radio a second message waiting while the first is on the air and a
second packet arriving while the first is handled or waits on the queue; the
messages fill theirs. The time-outs are a few ticks, so that a state can be left before,
at and after its time-out. Three threads are a woken one, a sleeping one and one
that gives up. Two symbols are the one being heard and another. `Modulus` is no
multiple of `UsPerMs`, as 2^32 is no multiple of 1000.

On the debug link three operations are a connect, one that fails, and one that
comes after it, or the connect that mends it; the block of three different words
crosses from one increment range to the other. An image of two pages in the
middle of the flash has a page before, after and beside each of its own; one ROM
table holds an entry the program does not know and has the last one it needs at
the end, the other lacks the routine that programs. Names of two and three labels
have a suffix to point at. 306 bytes are exactly what a REQUEST takes, 305 are one
too few for it and enough for a DISCOVER. The
functions are called with every argument of a small width, or around each
boundary they test for.

**Runs side by side.** The `MC` modules hold components that share nothing; a
behaviour picks one at the start. This checks each alone, in one run.

**Restrictions of passing runs.** `RunOver = "between calls"` and
`WrapInWindow = FALSE` leave out the run-over cases that fail; the runs `uart_wrap`
and `clock_wrap` let them in and show what happens. `ReadIsTrue` leaves out reads
of which a bit was inverted, `swd_parity` shows what becomes of those.
`FunctionsAgree` says nothing of the calls in which a function does not do what its
header says (IPv6 addresses with a zero byte, the sum of twice the least number, an
element of the wrong length, a dotted address with a length, numbers apart by half
a lap less one, plain text that fills a URL's buffer): `headers` shows one of each.
`AnswersAreServers` and `TimesAgree` name the cases in which the code does something
else than its callers may expect, so that anything beyond them would be found;
section 5 lists them. Nothing else is weakened.

**Fairness.**

* `radio`: `WF(set_mode \/ tick_Rx_late \/ event_poll)` and `SF(event_tick)`,
  because a call that has begun ends and the main loop calls both for ever (`event_tick` is not always due, hence strong); `SF` on a
  successful reset, since a chip that never answers cannot be recovered from. The
  chip and the channel are not fair: a transmission may never end, a packet never
  come, and the channel stay busy. `QueueDrains` says so where it matters.
* `channels`: weak fairness of each thread's `try_pop` and of its waking up once
  it was notified; none for a time-out or for pushing, and none in the UART or
  the ring, whose properties are about order.
* `signals`: time goes on, and the application keeps calling `get()` and
  `inState()`, all weakly fair: there a time-out that is due stays due.
* `clock_wrap`: `SF(inState)`, which is stronger, since over a lap a time-out is due
  only part of the time, and the application asks every few milliseconds while a
  lap takes 71 minutes. The time-out still does not fire.
* `links`: weak fairness of the flashing host, whose accesses return, and of the
  core, which transfers a register and finishes a ROM routine in the end: the
  host's polls have no time-out, so that nothing less will do. A core that was
  sent to the wrong place never stops, which is how `FlashReturns` can fail. The
  model also takes it from the 10 ms wait in `reset_into_debug()` that the reset
  is over when the next function starts.

## 4. What is proved

`SX1276Driver_proofs` proves for all time-outs, tick gaps, queue sizes and
numbers of messages, packets and losses of configuration: `TypeTheorem`,
`InterruptTheorem` (`NoLostInterrupt`), `AgreementTheorem` (`RadioAgreement`),
`ListenTheorem` (`ListenBeforeTalk`), `AbandonTheorem`
(`TxAbandonedOnlyOnTimeout`). None of them is inductive. The invariant `IInv`
adds:

* `DioMatchesMode` and `ModeIsState`: outside a mode change that is under way, a
  chip that is doing something does what the driver's state says, and its pin is
  mapped to the event that ends it; `MidTick` says the same of the steps within
  `event_tick()`, and that nothing of the mode to come is on its way yet;
* `Unconfigured` and `IrqIsLocal`: a chip without its configuration raises
  nothing, and the poll's local variable is empty outside `event_poll()`;
* `Leftovers`: for each kind of event, the states an unhandled one can find the
  driver in. The end of a transmission or check outlives its mode only until the
  next `event_poll()`, and the loop polls between two ticks; so by the time the
  driver transmits, none is left that could cut the transmission short. A
  reception may have been overlooked, in the middle of `start_Cad()`: it stays in
  the register until another event is read, and comes with that;
* `FreshEvents`: what the chip raises after the register was read belongs to the
  state the driver is in now;
* `HeardIsPending`: what a channel check heard is in the chip's flags or in the
  poll's local variable until it is handled. `ListenBeforeTalk` follows with
  `TickDue`.

`DeliveryTheorem` (`DeliveryOrder`) holds under the same assumptions. One FIFO
serves both directions, so the invariant has to say whose bytes it holds: while
the chip transmits, the message that lies between those
sent and those still queued (`OutInOrder`); and what it has received
is the packet that arrived last, or no packet (`InInOrder`).

The assumptions are `RadioAssumption` (the constants are numbers, a tick gap is
positive) and the environment the model gives the driver.

`CircularQueuePointers_proofs` proves `PointersTheorem` (`PointersAgree`) for
every capacity, every set of block lengths and every sequence of operations, from
`DepthTheorem` (the depth is the distance) and `PtrTypeTheorem`, which together
are the inductive invariant, and `BlocksTheorem`: a contiguous block never
reaches past the end of the space.

`MCSignals_proofs` proves of the newer detector `PressTheorem` (`ReportsEachPress`) for every set of
symbols and every sequence of blocks. The invariant reads the counters and the
state off the last few blocks: the silence counter is the length of the silence
at the end (`SilenceCounted`); `PRE_DSC` is where, and only where, one to three
blocks of a symbol follow four of silence (`PressUnderWay`); three blocks of
silence have ended any press (`SilenceEnds`).

Of the older one it proves `OneResultTheorem` (`OneResultPerPress`) and
`RecognisedTheorem` (`PressIsRecognised`) for every set of symbols and size of the
result queue. The invariant says where in the history the last block of the
symbol being heard is (`AwayCounted`), and what the detector may be hearing while
a press is under way (`PressesSeen`); a reset in the middle of a symbol, which
clears the history and not the state, is why the two are needed.

Of the timers the same module proves, for all intervals, windows and widths:
`TimerTheorem` (`NoTickLost`), from where the last boundary reported lies below
the clock (`TimerInv`); `DebounceTheorem` (`ConfirmedChangesAfterWindow`), whose
`DebouncerInv` bounds how far the last sample that agreed lies back, first by the
gap between two samples, then by that and the time the input has been seen
different; and `TimedStateTheorem`: `StateMachine` implements `TimedState`. The
last has `~WrapInWindow` as a hypothesis, as the run does: `clock_wrap` shows
what happens without it.

`MCChannels_proofs` proves of the UART, for every width of the counters,
`NoPanicTheorem` (`NoPanic`), `ReceivesTheorem` (`ReceivesInOrder`) and
`SendsTheorem` (`SendsInOrder`): with `RunOver = "never"` for every size of the two
buffers, with `"between calls"` for every size that divides the counters' modulus.
`UartInv` says how far
the two counters of a direction are apart, across the point where they run over,
and, for each step inside `read()` and `bytesReadable()`, what the values that
were loaded have to do with the counters as the interrupt may have moved them
since. The first two have `RunOver # "anywhere"` as a hypothesis, without which
`uart_wrap` is a counterexample; the transmit side needs none. That the size divides
the modulus is used where the counters run over, and nowhere else.

Of the message ring it proves `RingTypeTheorem` and `RingQueueTheorem`
(`ImplementsQueue`), for every size of the ring, every length of the out-of-band
part, every set of messages and every reader's buffer. The invariant (`RingInv`)
is that some sequence of messages is laid out between front and back (`Laid`),
each one's bytes in place wherever they wrap (`Stored`). `PushedAll` is what the
loop over the bytes of a push amounts to, refused ones included: the k-th slot
after the back gets the k-th byte, up to the one that fills the ring, and none
between front and back. `StoredReads` is what a reader finds there, and
`ContentsAre` that reading entry by entry gives that sequence back. `push`, and
reading the ring, are recursive in the model; `Induct`, which these two lemmas and
the room taken (`UsedIs`) rest on, is derived from the fact that a set of naturals
has a least element. `RingAssumption` says that a message's length fits its two bytes.

`MCStorage_proofs` proves `BlockQueueTheorem` (`CircularQueueWithTrigger`
implements `BlockQueue`) and `WaitsForFillTheorem` (`WaitsForFill`) for every
capacity, threshold, set of items and length of frames. Both ways to push are
shown to do the same (`Appends`): the item by item one overwrites the slot held
back, the block one stores in two copies around the end of the space and may move
more than it counts, and neither touches an item that is queued. `CapacityAssumption`
and `TriggerAssumption` are used, which say that these are numbers.

The same module proves that the three containers implement `OrderedList`, for
every size, set of items and predicate: `ArrivalOrderTheorem` (`FixedQueue`),
`SortedListTheorem` (`FixedSortedList`, with any comparator) and
`PacketListTheorem` (`TaggedBuffer`, with packets of any length).

* What a visitor is shown and what stays is the same walk along a list for all
  three (`Walk`). Once it has stopped, the rest stays as it is (`WalkStops`). The
  loop of the code is related to that walk turn by turn (`Shape`, `Chained`,
  `Holds`): after it has asked about j items, its storage holds those kept so far
  and behind them, moved up, the rest of the list (`Joined`).
* In the linked list one arrangement of all slots, without repetition, is behind
  its pointers: the slots in use, then the free ones, chained in this order
  (`Layout`). Inserting and removing a slot are a rotation of a part of it
  (`Shuffled`). That no slot is lost, or on both chains, is part of this invariant.
* In the packed memory some sequence of packets lies from the bottom on, each
  with the header and bytes it was stored with (`Stacked`). `Removed` is what the
  `memmove` makes of it, `Pushed` what the `memcpy` does, and `ContentsAre` that
  going from header to header finds just these packets.

The assumptions are that the sizes are numbers, positive ones for the list and the
queue, and that packets have a stamp, an identifier and bytes.

`SWDDriver_proofs` proves `LineTheorem` (`LineOwnership`) for every memory,
increment range, set of blocks and number of operations and faults. What has to
be added is who holds the line in the two phases in which the target may drive it
(`HostHolds`): nobody at the host's end while the acknowledgement comes, and in
the data phase the host exactly if the word is its own.

The other three properties of the link build on it, for the same constants:
`PrefixTheorem` (`WritesAPrefix`), `ReadTheorem` (`ReadIsTrue`) and
`ReconnectTheorem` (`ReconnectWorks`). The host never learns
whether a word it sent was taken; that the next access is acknowledged is what
tells it (`NoErrorPending`). So `Reading` and `Writing` say of every transaction
that the one before it was carried out or an error is pending, and a write that
returns 0 is short of at most its last word. `AfterIsNext` is where the block
write's test comes in: two addresses in a row differ modulo the increment range,
so that the address is written for each (`NextDiffers`), and neither proof needs
the target's increment to work. `SWDDriverAssumption` is used for that and for the
shape of the blocks.

`MCLinks_proofs` proves the safety properties of flashing, `RunsAsAskedTheorem`
(`RunsAsAsked`), `OnlyErasedPagesTheorem` (`OnlyErasedPages`) and
`ReportsBadPagesTheorem` (`ReportsBadPages`), for any flash, any image that fits,
any set of ROM tables and any number of failing accesses. Host and core meet in
few places, and `FlasherInv` is about these: the core runs in one access of a call
only (`Inside`); the registers before that access hold the call's values, and the
one under way is in DCRDR until the core has taken it (`Calling`); what was found
in the ROM is what the table says as far as it has been read (`Search`), so that
the routine that runs is the one asked for; and what the stages done so far have
left in the flash: its mode, the pages not yet programmed still blank, and
`mismatch` true exactly if a page compared so far differs (`Behind`). Whether a
stage is done changes when the core stops, not when the host notices (`Done`).
`SWDUtilsAssumption` says that the image fits, that a ROM has one entry for a
code, and that no two routines begin at the same place.

It also proves `KnownIsOwnersTheorem` (`KnownIsOwners`) for any hosts on the
segment, any of them asking, and any frames of other protocols. The invariant is
`ArpInv`: every frame that passes `isValid4` names as its sender a host with its
own MAC. An answer copies the asker's addresses, so it must be known of a question
that passes that they are six and four bytes (`SenderBlocks`); where the fields of
a built frame then stand follows piece by piece (`SentByHost`), and a frame that
was cut and still passes says what the whole one said (`CutSaysTheSame`).
`ARPUtilsAssumption` says that hosts have addresses of six and four bytes, no two
the same IP address, and that the other frames are not ARP.

The same module proves `LeaseIsOneServersTheorem` (`LeaseIsOneServers`) for any
servers with different addresses, any transaction numbers, any buffer sizes and
any number of packets on the net. `LeaseInv` says that whatever is on the net is a
server's answer, to the client or to somebody else (`OnNet`); that an
acknowledgement for the client is there only once it has a lease, and comes from
the server whose address that is; and that a client with a lease was offered it.
The second is why the parts of a lease cannot be mixed: it rests on a server
acknowledging only what it offered, which it reads from the client's REQUEST.

The lemmas are about bytes. `PacketLayout` and `BootpLayout` say where the fields
of a packet stand, `OptionBytes` what the chain of options of `makeReq()` amounts
to in a buffer of any size. `SkipElement` and `TakeElement` say where
`extractIE_raw()` stands behind an element it does not want, and what it returns
of the one it wants; from them, an answer's type, router and mask, and a request's
address, are read as they were written (`TypeIsRead`, `RouterIsRead`, `MaskIsRead`,
`AddressIsRead`). A packet that was cut gives either what the whole one gives or an
error (`CutShows`, `TakenFor`). The scan is a recursive function of the number of
bytes, so that these go by `Induct`, as in `MCChannels_proofs`. That a server finds
the checksums right is a condition of its answering; nothing is assumed of it here,
and `SumsComeOutRight`, which `FunctionsAgree` includes, has TLC check it for every
request and buffer of the run.
`DHCPUtilsAssumption` says that numbers fit their bytes, that addresses have six
and four, that no two servers offer the same one, and that no other exchange uses
the client's number.

`MicroDNS_proofs` proves `AnswersAreServersTheorem` (`AnswersAreServers`) for any
names of less than 64 characters without zeros, any data a server has for them, and
any buffer of more than 12 bytes. A name is spelt label by label (`Spells`): that
is what `writeDomainName()` writes (`NameWritten`) and what the loop of
`parseDomainName()` reads, in full or through a pointer to the question
(`ReadsName`, `ReadsOwner`). Of a packet that may have been cut, `QuestionIn`,
`RecordIn` and `DataOf` say what its bytes are as far as it goes, so that one
statement covers the whole answer and every beginning of it: a parser returns the
data, or the packet was too short for them and it returns an error. The invariant,
`NamesInv`, is that what was sent is the question (`Sent`), and what comes back
responds to it (`Responds`) or is the question itself. `MicroDNSAssumption` says
what names and data are.

`MCChannels_proofs` also proves of the queue between threads, for any set of
threads and any number of items,
`WakeupTheorem` (`NoLostWakeup`), which is inductive once a thread that was
notified is known not to be counted as waiting (`ThreadsOK`), and `OrderTheorem`
(`EachOnceInOrder`), whose invariant `InOrder` spells the order out in five parts:
among the items taken, on the queue, between the two, and up to the count of the
pushes. The first needs that there is a thread; the second nothing.

Only model-checked: every liveness property (TLAPS does not do fairness), and
`FunctionsAgree`, which is about what loops over texts and numbers return.

`OneResultTheorem` and `RecognisedTheorem` have `DTMFDetectorAssumption` as a
hypothesis, because `signals` takes `DTMFDetector` by `INSTANCE`; the other
assumptions on constants are `ASSUME`s, which the runs evaluate.

## 5. Where the code and its comments disagree

Shown by a run:

* `PicoUartChannel::bytesReadable()` panics on a healthy buffer when the receive
  counter runs over between its two loads (`uart_wrap`).
* `CircularQueuePointers::getMaxContiguousPushLength()` returns one too many when
  the reader is at slot 0 (`queue_contiguous`); a unit test expects that value.
* `CircularQueuePtr`'s overflow check compares the write pointer with itself and
  never fires (`ptr_overflow`).
* `Clock::timeUs()` multiplies in 32 bits: with `PicoClock`, a `StateMachine`
  time-out set in the last moments of a 71-minute lap never fires
  (`clock_wrap`).
* `TimeDebouncer` measures the sample right after a change from before the
  change, so that it can flip back at once (`debounce_bounce`).
* `SWDDriver::_read()` accepts every word with an even number of ones, whatever
  its parity bit is (`swd_parity`).
* Six functions do something else than their headers say, and `headers` shows a
  call of each: `equalIPAddr()` compares IPv6 addresses up to their first zero byte;
  `L_add()` of twice the least number is 0, and not the least number;
  `extractIE_uint16()`, as its sisters, hands on the positive length of an element
  of another length; `parseIP4Address()` with a length drops the last character;
  `GT_MOD32()` and `GT_MOD8()` hold in both orders for numbers apart by half a lap
  less one; and `urlDecode()` does not return when plain text fills its buffer.

Part of a passing model, and named in its properties or comments:

* A reception that ends between the two SPI transfers of `start_Cad()` raises no
  interrupt, because DIO0 is mapped away from it already. It is read with the next
  event, or noticed when the driver listens again (`NoLostInterrupt`).
* A packet can be delivered twice, when it completes between the event of the one
  before it and the reading of the FIFO; and an overlooked reception that is read
  after a transmission has timed out delivers whatever the message left in the
  FIFO (`DeliveryOrder`).
* The UART's counters keep their bytes across run-over only if the buffer's size
  divides 2^32 (src/rp2040/PicoUartChannel.cpp:161-168 and 245-250); the constructor
  takes any size.
* After a parity error `_read()` leaves the data pin an input. The next call
  fails, whatever it is, and the one after it finds the line in order
  (`ReconnectWorks`).
* The last word of a write can be lost on the line although 0 is returned: the
  target keeps the error pending and refuses the next access (`WritesAPrefix`).
* `flash_and_verify()` prints a page that differs and returns 0
  (src/SWDUtils.cpp:367-377).
* `call_function()` says that the core is halted when it returns
  (src/SWDUtils.cpp:22-23); where an access fails after the resume it is running.
* `pollREGRDY()` ignores its `timeoutUs` and polls for ever.
* The block write says that the TAR is written where the increment ends
  (src/rp2040/SWDDriver.cpp:283-285), and writes it for every word.
* `connect()` is said to return -1 on an error
  (include/kc1fsz-tools/rp2040/SWDDriver.h:40) and returns -1 to -12.
* `parseDNSAnswer_A()` takes an address that was cut off from beyond the end of
  the packet (`AnswersAreServers`). None of the parsers compares the identifier of
  the answer, and a loop of compression pointers without a label between them would
  never end; the servers of the model do not send one.
* `writeDomainName()` tests its limit after it has written and never meets it when
  it is given no room at all, as `makeDNSQuery()` does with a buffer of 12 bytes.
* `makeDNSQuery()` and the skipping of questions refuse a buffer that fits exactly.
* `parseACK()` stores the router before it fails for want of a mask; a `makeReq()`
  of less than 282 bytes computes its room below zero; the hardware address in a
  reply is not compared.
* `extractQueryParam()` gives an empty value the text of the pair before it.
* `parseIP4Address()` collects a part in eight bytes without a test; the parts here
  have fewer. `parseIPAddrAndPort()` returns -3 where its documentation knows -1
  and -2.
* `usToNtpTime()` and back lose an era in 2036.

Seen, and harmless as the code stands: `SX1276Driver::_lastActivityTime` is
written and never read, although its comment says it delays transmission;
`StateMachine::init()` leaves the state alone; `DTMFDetector::reset()` forgets the
history but not that a symbol is being recognised.

## 6. Not modelled

* **`SerialLog`**: a ring that one context writes and empties in turn. It has no
  overrun check, so that its only promise is that the log is short enough; a
  hazard says what happens otherwise.
* **`circularqueue`**: marked incomplete in its header and used nowhere.
* **`threadsafequeue`, `copyableatomic`, `raiiholder`**: every method is one
  critical section or one atomic operation; `threadsafequeue2` has all that is
  interesting of them.
* **`MTLog`, `MTLog2`, `Log`**: output under a mutex.
* **Fixed strings and vectors, `HostName`, `CallSign`, `IPAddress`**: value types
  without behaviour over time.
* **`CommandShell`, `Channel`, `AsyncChannel`, `IPLib`, `Runnable`**: a line editor
  whose meaning is its output, and interfaces implemented elsewhere.
* **`ToneSynthesizer`, `AudioAnalyzer`, `WindowAverage`** and the filters of the
  DTMF detectors: floating point, of which a finite model says nothing.
* **Of `Common`**: hex dump, ISO time and frequency formatting, which are layout.
* **Platform glue** (clocks of the operating system, serial ports, performance
  timers, one NMEA checksum), and the vendored **md5** and **crc**.

## 7. Plan

Done, in this order: radio, its ring, UART, queues, containers, thread queue,
timers and detectors; then the debug link and flashing over it, names, leases,
address resolution, and the functions without state; proofs beside them.

What would come next:

1. Proofs: the modular comparisons and saturating sums for every width.
2. A composition of the radio driver with two rings, in place of sequences.
3. The debug link under the flasher, access by access and transaction by
   transaction, in place of accesses that work or fail as a whole.
