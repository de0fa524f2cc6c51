----------------------------- MODULE Documented -----------------------------
(***************************************************************************)
(* What headers of the library say of six of its functions, each held      *)
(* against calls of that function.  `refuted' are the functions of which a *)
(* call has shown that it is not so.                                       *)
(***************************************************************************)
EXTENDS Calls

Claims == {"equal", "long", "elements", "dotted", "compare", "url"}

VARIABLE refuted

\* What is said of a call of f with arguments a that returned r.
Stands(f, a, r) ==
  CASE f = "equal" -> \* "true if the addresses are the same" (NetUtils.h:87)
         r[1] => a[1].family = a[2].family /\ a[1].addr = a[2].addr
    [] f = "long" -> \* "-2147483648 when underflow occurs" (fixed_math.h:74)
         r[1] = Clipped(a[1] + a[2], 2 * W)
    [] f = "elements" -> \* "-2 if not found, otherwise 0" (NetUtils.h:147)
         \A i \in 2 .. 4 : r[i].rc \in {-2, 0}
    [] f = "dotted" -> \* "only this many characters are processed" (NetUtils.h:46)
         Len(N!Dotted(a[1])) < a[2] => r[2] = a[1]
    [] f = "compare" -> \* "lhs > rhs modulo 2^32" (Common.h:171)
         (a[2] - a[1]) % Modulus \in 1 .. Modulus \div 2 - 1 => ~r[2]
    [] f = "url" -> \* "Undoes the URL encoding" (NetUtils.h:164)
         ~r.hangs

\* A call that shows what is not so, and the next one.
Refute ==
  /\ fn = "none"
  /\ equal \/ long \/ elements \/ dotted \/ compare \/ url
  /\ fn' \notin refuted /\ ~Stands(fn', arg', ret')
  /\ refuted' = refuted \cup {fn'}

Again == fn # "none" /\ Did("none", <<>>, <<>>) /\ UNCHANGED refuted

Spec ==
  /\ Init /\ refuted = {}
  /\ [][Refute \/ Again]_<<fn, arg, ret, refuted>>

\* Each of the six says of every call what some call does not do; the run shows
\* one for each (equalIPAddr(), L_add(), extractIE_uint16(), parseIP4Address(),
\* GT_MOD32(), urlDecode()).  They fail one by one, so that the trace ends with
\* the last.
SomeClaimStands == refuted # Claims
=============================================================================
