------------------------------- MODULE Common -------------------------------
(***************************************************************************)
(* The helpers of Common.cpp as operators: bounded text, tokens, byte      *)
(* order, bit masks, sequence numbers that wrap, the clock that can be     *)
(* fixed.  Integers have a scaled width, given as their modulus; a text is *)
(* the sequence of the characters before its null.                         *)
(***************************************************************************)
EXTENDS Integers, SequencesExt

CONSTANTS
  Byte,      \* 2^8: the values of a byte
  Modulus,   \* 2^8 or 2^32: the values of a sequence number, or of an int
  MaxToken   \* characters a fixedstring holds

CommonAssumption ==
  /\ Byte \in Nat /\ Byte > 1 /\ Byte % 2 = 0
  /\ Modulus \in Nat /\ Modulus > 3 /\ Modulus % 2 = 0 /\ MaxToken \in Nat \ {0}

Lesser(a, b) == IF a < b THEN a ELSE b
First(s, n) == SubSeq(s, 1, Lesser(n, Len(s)))

\* An unsigned number as a signed one of the same width m.
Signed(v, m) == IF v % m < m \div 2 THEN v % m ELSE (v % m) - m
-----------------------------------------------------------------------------
(* Text.                                                                   *)

\* With room for the null only, nothing is written, not even the null.
strcpyLimited(target, source, limit) ==
  IF limit > 1 THEN First(source, limit - 1) ELSE target

strcatLimited(target, source, targetLimit) ==
  IF Len(target) < targetLimit
  THEN target \o strcpyLimited(<<>>, source, targetLimit - Len(target)) ELSE target

memcpyLimited(target, source, targetLimit) ==
  [i \in DOMAIN target |-> IF i <= Lesser(targetLimit, Len(source)) THEN source[i] ELSE target[i]]

isNullTerminated(source, null) == \E i \in DOMAIN source : source[i] = null

ltrim(s, space) ==
  LET kept == {i \in DOMAIN s : s[i] # space}
  IN IF kept = {} THEN <<>> ELSE SubSeq(s, Min(kept), Len(s))
rtrim(s, space) ==
  LET kept == {i \in DOMAIN s : s[i] # space}
  IN IF kept = {} THEN <<>> ELSE SubSeq(s, 1, Max(kept))
trim(s, space) == rtrim(ltrim(s, space), space)

\* The queue of tokens holds room of them, and the call fails at the first
\* that does not fit; a token's characters past MaxToken are dropped.
PushToken(t, room) ==
  IF t.acc = <<>> \/ t.rc # 0 THEN t
  ELSE IF Len(t.out) = room THEN [t EXCEPT !.rc = -1]
  ELSE [t EXCEPT !.out = Append(@, t.acc), !.acc = <<>>]

tokenize(data, delim, room) ==
  PushToken(FoldLeft(
    LAMBDA t, c : IF t.rc # 0 THEN t
                  ELSE IF c = delim THEN PushToken(t, room)
                  ELSE [t EXCEPT !.acc = First(Append(@, c), MaxToken)],
    [acc |-> <<>>, out |-> <<>>, rc |-> 0], data), room)
-----------------------------------------------------------------------------
(* Bytes and bits.                                                         *)

PackBE(v, n) == [i \in 1 .. n |-> (v \div (Byte ^ (n - i))) % Byte]
UnpackBE(b) == FoldLeft(LAMBDA v, x : v * Byte + x, 0, b)

pack_uint16_be(v) == PackBE(v, 2)
pack_uint32_be(v) == PackBE(v, 4)
pack_int16_be(v) == PackBE(v, 2)
pack_int16_le(v) == Reverse(PackBE(v, 2))
unpack_uint16_be(b) == UnpackBE(b)
unpack_uint32_be(b) == UnpackBE(b)
unpack_int16_be(b) == Signed(UnpackBE(b), Byte ^ 2)
unpack_int16_le(b) == Signed(UnpackBE(Reverse(b)), Byte ^ 2)

\* A 64-bit number is its two halves of 32 bits: here ms and ls.
pack_uint64_be(ms, ls) == pack_uint32_be(ms) \o pack_uint32_be(ls)
unpack_uint64_be(b) == <<unpack_uint32_be(SubSeq(b, 1, 4)), unpack_uint32_be(SubSeq(b, 5, 8))>>

\* Hex digits stand for their value, -1 for any other character: strtol()
\* stops there.
HexPair(a, b) == IF a = -1 THEN 0 ELSE IF b = -1 THEN a ELSE a * 16 + b
asciiHexToBin(hex) == [i \in 1 .. Len(hex) \div 2 |-> HexPair(hex[2 * i - 1], hex[2 * i])]
binToAsciiHex(bin) ==
  [i \in 1 .. 2 * Len(bin) |->
     LET b == bin[(i + 1) \div 2] IN IF i % 2 = 1 THEN b \div 16 ELSE b % 16]

\* As many ones as the size has zeros below its lowest one, of width bits.
sizeToBitMask(s, width) ==
  LET mask[i \in 0 .. width] ==
        IF i < width /\ (s \div (2 ^ i)) % 2 = 0 THEN 2 ^ i + mask[i + 1] ELSE 0
  IN mask[0]
-----------------------------------------------------------------------------
(* Sequence numbers: lhs is less where rhs is ahead by less than half.     *)

Half == Modulus \div 2 - 1
SUB_MOD(lhs, rhs) == (lhs - rhs) % Modulus
\* Compares the numbers as they are.
LT_MOD_Bug(lhs, rhs) == lhs < rhs

LT_MOD(lhs, rhs) == lhs # rhs /\ SUB_MOD(rhs, lhs) < Half
GT_MOD(lhs, rhs) == SUB_MOD(rhs, lhs) >= Half
LE_MOD(lhs, rhs) == SUB_MOD(rhs, lhs) < Half
GE_MOD(lhs, rhs) == rhs = lhs \/ SUB_MOD(rhs, lhs) >= Half

(* The clock, which runs until it is set or advanced: then it stands.      *)

FreeClock == [timeFixed |-> FALSE, fakeTime |-> 0]
time_ms(clock, now) == IF clock.timeFixed THEN clock.fakeTime ELSE now
set_time(t) == [timeFixed |-> TRUE, fakeTime |-> t]
advance_time_ms(clock, ms) == [timeFixed |-> TRUE, fakeTime |-> clock.fakeTime + ms]
ms_between(first, second) == Signed(second - first, Modulus)
ms_since(clock, now, point) == ms_between(point, time_ms(clock, now))
=============================================================================
