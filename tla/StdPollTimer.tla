---------------------------- MODULE StdPollTimer ----------------------------
(***************************************************************************)
(* StdPollTimer (StdPollTimer.cpp): a timer that is polled, by a loop that *)
(* may be late.  The clock is one with a 64-bit timeUs() (StdClock,        *)
(* PicoClock2).                                                            *)
(***************************************************************************)
EXTENDS Naturals

CONSTANTS
  Word,        \* 2^32: an interval's length is kept as an uint32_t
  Intervals,   \* the interval lengths asked for
  Steps,       \* by how much time goes on
  MaxUs        \* bound: how far

\* Whoever asks for nothing, or for a multiple of the word, divides by zero.
StdPollTimerAssumption ==
  /\ Word \in Nat \ {0} /\ Steps \subseteq Nat /\ MaxUs \in Nat
  /\ Intervals \subseteq Nat /\ \A i \in Intervals : i % Word # 0

VARIABLES
  now,         \* _clock.timeUs()
  intervalUs, lastPointUs,
  due          \* interval boundaries passed since the start or the last
               \* reset() and not yet reported by poll()

vars == <<now, intervalUs, lastPointUs, due>>

\* Starts an interval at once instead of on a boundary.
Rounded_Bug(t, i) == t

\* "all intervals will be on an even 20,000 uS boundary"
Rounded(t, i) == (t \div i) * i

Init ==
  /\ now \in 0..MaxUs /\ \E us \in Intervals : intervalUs = us % Word
  /\ lastPointUs = Rounded(now, intervalUs) /\ due = 0

Restart(i) ==
  /\ intervalUs' = i /\ lastPointUs' = Rounded(now, i) /\ due' = 0
  /\ UNCHANGED now

setIntervalUs(us) == Restart(us % Word)

reset == Restart(intervalUs)

nextPointUs == lastPointUs + intervalUs

\* poll() when it returns true; otherwise it changes nothing.
poll ==
  /\ now >= nextPointUs
  /\ lastPointUs' = lastPointUs + intervalUs
  /\ due' = due - 1
  /\ UNCHANGED <<now, intervalUs>>

Passes(d) ==
  /\ now + d <= MaxUs
  /\ now' = now + d
  /\ due' = due + (now' \div intervalUs - now \div intervalUs)
  /\ UNCHANGED <<intervalUs, lastPointUs>>

Next ==
  \/ \E us \in Intervals : setIntervalUs(us)
  \/ reset \/ poll
  \/ \E d \in Steps : Passes(d)

Spec == Init /\ [][Next]_vars

-----------------------------------------------------------------------------
\* "No ticks should be lost" (poll()), and none is reported twice or early:
\* poll() is true exactly while interval boundaries of the clock are
\* unreported, and the interval it gives is the next of them, however late
\* the loop comes and however the interval is changed.
NoTickLost ==
  /\ now >= nextPointUs <=> due > 0
  /\ lastPointUs = Rounded(now, intervalUs) - due * intervalUs
=============================================================================
