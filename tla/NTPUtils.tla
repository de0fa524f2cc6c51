------------------------------ MODULE NTPUtils ------------------------------
(***************************************************************************)
(* NTP time (NTPUtils.cpp): seconds since 1900 in the upper half of a long *)
(* word, a binary fraction in the lower one.  The widths are parameters.   *)
(***************************************************************************)
EXTENDS Integers

CONSTANTS
  Million,          \* microseconds in a second
  EpochAdjustment,  \* seconds from 1900 to 1970
  Era,              \* 2^32: the seconds the upper half holds
  Fraction,         \* 2^32: the fractions the lower half tells apart
  Grain             \* 2^11: what doubles of this size are multiples of

NTPUtilsAssumption ==
  /\ Million \in Nat /\ EpochAdjustment \in Nat /\ EpochAdjustment < Era
  /\ Grain \in Nat \ {0}
  /\ Million < Fraction /\ Era * Million < Era * Fraction

Wide(v) == v % (Era * Fraction)

usToNtpTime(us) ==
  LET adjusted == us + EpochAdjustment * Million
  IN Wide((adjusted \div Million) * Fraction + ((adjusted % Million) * Fraction) \div Million)

ntpTimeToUs(ntp) ==
  Wide((ntp \div Fraction) * Million + ((ntp % Fraction) * Million) \div Fraction
       - EpochAdjustment * Million)

\* What a double makes of a time: the nearest multiple of the grain, the even
\* one of two.
Double(t) ==
  LET g == t \div Grain
      rest == 2 * (t % Grain)
  IN Grain * (IF rest < Grain \/ (rest = Grain /\ g % 2 = 0) THEN g ELSE g + 1)

\* The packet has the times at which the question left, came in, and the
\* answer left.  The differences of doubles so close together are exact, and
\* twice the offset is a whole number.
TwiceOffset(packet, now) ==
  (Double(packet[2]) - Double(packet[1])) + (Double(packet[3]) - Double(now))
calcDelay(packet, now) ==
  (Double(now) - Double(packet[1])) - (Double(packet[3]) - Double(packet[2]))
=============================================================================
