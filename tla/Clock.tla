------------------------------- MODULE Clock -------------------------------
(***************************************************************************)
(* The Clock interface (Clock.h), with the default timeUs() and timeMs()   *)
(* that PicoClock inherits.  time() is a 32-bit count of milliseconds;     *)
(* timeUs() multiplies it in 32 bits and only then widens the result, so   *)
(* that it and timeMs() start again from 0 long before time() does.        *)
(***************************************************************************)
EXTENDS Integers

CONSTANTS
  Modulus,   \* 2^32, scaled down
  UsPerMs    \* 1000, scaled down; not a divisor of the modulus

VARIABLE ms  \* what the hardware counts, modulo Modulus

time == ms

timeUs == (time * UsPerMs) % Modulus

timeMs == timeUs \div UsPerMs

isPastWindow(refMs, windowMs) == timeMs > refMs + windowMs

\* Every lap of timeMs gets at least this far.
LapEnd == Modulus \div UsPerMs - 1

tick == ms' = (ms + 1) % Modulus

\* An unsigned difference of two times.
Elapsed(since) == (time - since + Modulus) % Modulus
=============================================================================
