------------------------------ MODULE FixedMath ------------------------------
(***************************************************************************)
(* The GSM arithmetic of fixed_math.cpp, at a width of W bits where the    *)
(* code has 16 and 2 W where it has 32.  A number of W bits is a fraction  *)
(* with W - 1 bits behind the point.                                       *)
(***************************************************************************)
EXTENDS Integers

CONSTANT W

FixedMathAssumption == W \in Nat /\ W > 2

Top(bits) == 2 ^ (bits - 1) - 1
Bottom(bits) == -(2 ^ (bits - 1))
Numbers(bits) == Bottom(bits) .. Top(bits)

\* What is left of a number in so many bits, and a shift to the right.
Wrapped(v, bits) == ((v - Bottom(bits)) % (2 ^ bits)) + Bottom(bits)
Shr(v, n) == v \div (2 ^ n)

Saturated(res) ==
  IF res > Top(W) THEN Top(W) ELSE IF res < Bottom(W) THEN Bottom(W) ELSE res

add_sat(var1, var2) == Saturated(var1 + var2)
sub_sat(var1, var2) == Saturated(var1 - var2)

MinusOnes(var1, var2) == var1 = Bottom(W) /\ var2 = Bottom(W)

\* Forgets that the product of -1 and -1 does not fit.
mult_Bug(var1, var2) == Wrapped(Shr(var1 * var2, W - 1), W)

mult(var1, var2) ==
  IF MinusOnes(var1, var2) THEN Top(W) ELSE Wrapped(Shr(var1 * var2, W - 1), W)

mult_r(var1, var2) ==
  IF MinusOnes(var1, var2) THEN Top(W)
  ELSE Wrapped(Shr(var1 * var2 + 2 ^ (W - 2), W - 1), W)

s_abs(var1) ==
  IF var1 = Bottom(W) THEN Top(W) ELSE IF var1 < 0 THEN -var1 ELSE var1

\* The overflow is told by the sign of the wrapped result; where that is 0,
\* as it is for twice the least number, so is what is returned.
SaturatedLong(exact) ==
  LET res == Wrapped(exact, 2 * W) IN
    IF exact = res THEN res
    ELSE IF res < 0 THEN Top(2 * W) ELSE IF res > 0 THEN Bottom(2 * W) ELSE 0

L_add(var1, var2) == SaturatedLong(var1 + var2)
L_sub(var1, var2) == SaturatedLong(var1 - var2)
L_mult(var1, var2) == Wrapped(2 * var1 * var2, 2 * W)

\* Long division, one bit of the quotient at a time.
div(num, denum) ==
  LET bit[k \in 0 .. W - 1] ==
        IF k = 0 THEN [num |-> num, div |-> 0]
        ELSE LET b == bit[k - 1] IN
             IF 2 * b.num >= denum
             THEN [num |-> L_sub(2 * b.num, denum), div |-> add_sat(Wrapped(2 * b.div, W), 1)]
             ELSE [num |-> 2 * b.num, div |-> Wrapped(2 * b.div, W)]
  IN IF num = denum THEN Top(W) ELSE bit[W - 1].div

\* The number is shifted until the bit below its sign differs from the sign.
NormBit(v) == (v \div (2 ^ (2 * W - 2))) % 2
norm(v) ==
  LET steps[n \in 0 .. 2 * W] ==
        LET at == Wrapped(v * 2 ^ n, 2 * W) IN
          IF NormBit(at) = (IF v > 0 THEN 1 ELSE 0) THEN n ELSE steps[n + 1]
  IN IF v \in {0, Bottom(2 * W), -(2 ^ (2 * W - 2))} THEN 0 ELSE steps[0]
=============================================================================
