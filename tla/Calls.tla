------------------------------- MODULE Calls -------------------------------
(***************************************************************************)
(* The functions of the library that keep no state, called with every      *)
(* argument of small sets.  A step is a call; what it returned is held     *)
(* against a definition of what it should be that is made in another way.  *)
(***************************************************************************)
EXTENDS Integers, SequencesExt

CONSTANTS
  Byte, Modulus, MaxToken,                     \* Common
  W,                                           \* FixedMath
  Octet, Port, MaxAddr, MaxPort, MaxParam,     \* NetUtils
  Million, EpochAdjustment, Era, Fraction, Grain  \* NTPUtils

C == INSTANCE Common
M == INSTANCE FixedMath
N == INSTANCE NetUtils WITH Byte <- Octet
T == INSTANCE NTPUtils

CallsAssumption ==
  /\ C!CommonAssumption /\ M!FixedMathAssumption
  /\ N!NetUtilsAssumption /\ T!NTPUtilsAssumption

VARIABLES fn, arg, ret

Init == fn = "none" /\ arg = <<>> /\ ret = <<>>

Did(f, a, r) == fn' = f /\ arg' = a /\ ret' = r

Texts(chars, n) == UNION {[1 .. k -> chars] : k \in 0 .. n}
Sep == 17
Letters == {1, 2}
-----------------------------------------------------------------------------
(* Common.                                                                 *)

\* Two counters, of which the numbers compared are what the width keeps.
compare ==
  \E a, b \in 0 .. 3 * Modulus :
    LET l == a % Modulus
        r == b % Modulus
    IN Did("compare", <<a, b>>, <<C!LT_MOD(l, r), C!GT_MOD(l, r), C!LE_MOD(l, r),
                                  C!GE_MOD(l, r), C!SUB_MOD(r, l)>>)

token ==
  \E data \in Texts({1, 2, Sep}, 5), room \in 0 .. 2 :
    Did("token", <<data, room>>, C!tokenize(data, Sep, room))

text ==
  \E target, source \in Texts(Letters, 3), limit \in 0 .. 5 :
    /\ Len(target) < 3
    /\ Did("text", <<target, source, limit>>,
           <<C!strcpyLimited(target, source, limit), C!strcatLimited(target, source, limit),
             C!memcpyLimited(target, source, limit)>>)

trim ==
  \E s \in Texts({1, Sep}, 4) : Did("trim", s, <<C!trim(s, Sep), C!isNullTerminated(s, Sep)>>)

pack ==
  \/ \E v \in 0 .. Byte ^ 2 - 1, w \in {0, 1, Byte ^ 2 - 1, Byte ^ 4 - 1} :
       Did("pack", <<v, w>>,
           <<C!unpack_uint16_be(C!pack_uint16_be(v)), C!unpack_uint32_be(C!pack_uint32_be(w)),
             C!unpack_uint64_be(C!pack_uint64_be(v, w))>>)
  \/ \E v \in -(Byte ^ 2 \div 2) .. Byte ^ 2 \div 2 - 1 :
       Did("signed", v, <<C!unpack_int16_be(C!pack_int16_be(v)),
                          C!unpack_int16_le(C!pack_int16_le(v)),
                          Reverse(C!pack_int16_le(v)) = C!pack_int16_be(v)>>)

hex ==
  \E bin \in Texts({0, 9, 16, 175, 255}, 2) :
    Did("hex", bin, C!asciiHexToBin(C!binToAsciiHex(bin)))

mask == \E k, s \in 0 .. 5 : Did("mask", <<k, s>>, C!sizeToBitMask((2 * s + 1) * 2 ^ k, 8))

\* A clock set to t, advanced and compared with a point before it.
clock ==
  \E t, now \in 0 .. Modulus, ms \in 0 .. Modulus - 1 :
    LET set == C!set_time(t) IN
      Did("clock", <<t, now, ms>>,
          <<C!time_ms(C!FreeClock, now), C!ms_since(C!advance_time_ms(set, ms), now, t)>>)
-----------------------------------------------------------------------------
(* FixedMath.                                                              *)

math ==
  \E a, b \in M!Numbers(W) :
    Did("math", <<a, b>>,
        <<M!add_sat(a, b), M!sub_sat(a, b), M!mult(a, b), M!mult_r(a, b), M!L_mult(a, b),
          IF 0 <= a /\ a <= b THEN M!div(a, b) ELSE 0, M!s_abs(a)>>)

long ==
  \E a, b \in M!Numbers(2 * W) : Did("long", <<a, b>>, <<M!L_add(a, b), M!L_sub(a, b), M!norm(a)>>)
-----------------------------------------------------------------------------
(* NTPUtils.                                                               *)

ntp ==
  \/ \E us \in 0 .. Era * Million - 1 : Did("time", us, T!ntpTimeToUs(T!usToNtpTime(us)))
  \/ \E there, back, hold \in {0, 5, 14}, offset \in {-18, 0, 23} :
       LET left == 41
           came == left + there + offset
           now == left + there + hold + back
           packet == <<left, came, came + hold>>
       IN Did("ntp", <<there, back, offset>>, <<T!TwiceOffset(packet, now), T!calcDelay(packet, now)>>)
-----------------------------------------------------------------------------
(* NetUtils.                                                               *)

Octets == {0, 7, 10, 99, 100, 255}
Addrs == {<<a, 0, b, c>> : a, b, c \in Octets}
SixAddrs == [1 .. 3 -> 0 .. 2]
Sockets == [family : {N!Inet}, addr : {<<10, 0, 7, 255>>, <<0, 0, 0, 0>>}, port : {0, 80, Port - 1}]
           \cup [family : {N!Inet6}, addr : SixAddrs, port : {0, 80, Port - 1}]
Stale == [family |-> "AF_INET", addr |-> <<1, 2, 3, 4>>, port |-> 9]

dotted ==
  \E a \in Addrs, size \in {16, 9} :
    LET shown == N!formatIP4Address(a, size) IN
      Did("dotted", <<a, size>>,
          <<N!parseIP4Address(shown, 0), N!parseIP4Address(shown \o <<N!Space>>, Len(shown)),
            N!getIPAddrFamily(shown)>>)

socket ==
  \E s \in Sockets :
    LET shown == N!formatIPAddrAndPort(s, 65) IN
      Did("socket", s, [N!parseIPAddrAndPort(shown, Stale) EXCEPT !.rc = <<@, N!getIPPort(s)>>])

\* A text that is too long somewhere, or lacks the colon.
long_socket ==
  \E n \in {MaxAddr, MaxAddr + 1}, m \in {MaxPort, MaxPort + 1}, six, colon \in BOOLEAN :
    LET a == [i \in 1 .. n |-> 1]
        p == IF colon THEN <<N!Colon>> \o [i \in 1 .. m |-> 0] ELSE <<N!Dot>>
    IN Did("long_socket", <<n, m, six, colon>>,
           N!parseIPAddrAndPort(IF six THEN <<N!Open>> \o a \o <<N!Close>> \o p ELSE a \o p, Stale))

equal ==
  \E s, t \in Sockets : Did("equal", <<s, t>>, <<N!equalIPAddr(s, t), N!equalIPAddrAndPort(s, t)>>)

element ==
  \E packet \in Texts(0 .. 2, 6), id \in {1, 2}, max \in 0 .. 2 :
    Did("element", <<packet, id, max>>, N!extractIE_raw(packet, id, max))

\* A packet of three elements, the last for want of room or not.
elements ==
  \E v \in {0, 1, 65535}, room \in {3, 4, 5, 6} :
    LET packet == N!addIE_uint8(1, v % Octet, 3) \o N!addIE_uint16(2, v, 4) \o N!addIE_uint32(3, v, room)
    IN Did("elements", <<v, room>>,
           <<N!extractIE_uint8(packet, 1), N!extractIE_uint16(packet, 2), N!extractIE_uint32(packet, 3),
             N!extractIE_uint16(packet, 1)>>)

\* Text with one character in each of the ways it can be encoded in.
Encoded(c, how) == IF how = "hex" THEN <<N!Percent, c \div 16, c % 16>>
                   ELSE IF c = N!Space THEN <<N!Plus>> ELSE <<c>>
EncodedText(s, how) == FlattenSeq([i \in DOMAIN s |-> Encoded(s[i], how)])

url ==
  \E s \in Texts({1, 2, N!Space}, 3), how \in {"hex", "plain"}, capacity \in 1 .. 5 :
    Did("url", <<s, how, capacity>>, N!urlDecode(EncodedText(s, how), <<9>>, capacity))

Param(name, value) == name \o <<N!Equals>> \o value
query ==
  \E n1, n2 \in {<<1>>, <<2>>, <<1, 2>>}, v1, v2 \in {<<3>>, <<4, N!Space>>, <<1, 2, 3, 4>>},
     name \in {<<1>>, <<1, 2>>} :
    Did("query", <<n1, v1, n2, v2, name>>,
        N!extractQueryParam(Param(n1, EncodedText(v1, "plain")) \o <<N!Amp>>
                            \o Param(n2, EncodedText(v2, "hex")), name, <<9>>, 16))

checksum ==
  \E a \in {<<>>} \cup [1 .. 2 -> {0, 1, 128, 255}], b \in Texts({1, 254, 255}, 3) :
    LET sum == N!ipChecksum3(a, b, <<>>) IN
      Did("checksum", <<a, b>>, <<N!ipChecksum3(a, b, <<sum \div Octet, sum % Octet>>),
                                  sum = N!ipChecksum3(a \o b, <<>>, <<>>)>>)
-----------------------------------------------------------------------------
Next ==
  \/ compare \/ token \/ text \/ trim \/ pack \/ hex \/ mask \/ clock \/ math \/ long \/ ntp
  \/ dotted \/ socket \/ long_socket \/ equal \/ element \/ elements \/ url \/ query \/ checksum
-----------------------------------------------------------------------------
(* Properties.                                                             *)

If(f, P) == fn = f => P

\* Sequence numbers compare as the counters they stand for while these are
\* apart by less than half a lap less one; wherever they are, one of less and
\* not less holds, and one of greater and not greater.  A difference of times
\* has the sign of the shorter way round (LT_MOD32(), GT_MOD8(), ms_between()).
NumbersCompare ==
  /\ If("compare", LET a == arg[1]
                       b == arg[2]
                   IN /\ ret[1] = ~ret[4] /\ ret[2] = ~ret[3]
                      /\ (a - b) \in (1 - C!Half) .. C!Half - 1 =>
                           /\ ret = <<a < b, a > b, a <= b, a >= b, IF a <= b THEN b - a ELSE ret[5]>>)
  /\ If("clock", ret = <<arg[2], IF arg[3] <= C!Half THEN arg[3] ELSE arg[3] - Modulus>>)

\* The runs of characters other than the separator.
Runs(d) ==
  LET from == {i \in DOMAIN d : d[i] # Sep /\ (i = 1 \/ d[i - 1] = Sep)}
      to(i) == Min({j \in i .. Len(d) : j = Len(d) \/ d[j + 1] = Sep})
  IN [k \in 1 .. Cardinality(from) |->
        LET i == SetToSortSeq(from, <)[k] IN SubSeq(d, i, to(i))]

\* Copies stay inside their limit and are prefixes of what was to be copied;
\* tokens are the runs between separators, and are refused, not dropped, where
\* the queue is full; numbers come back from their bytes, with their sign
\* (strcpyLimited(), strcatLimited(), tokenize(), pack_ and unpack_).
TextAndBytesKept ==
  /\ If("token", LET runs == Runs(arg[1])
                     n == Min({Len(runs), arg[2]})
                 IN /\ ret.rc = IF Len(runs) > arg[2] THEN -1 ELSE 0
                    /\ ret.out = [k \in 1 .. n |-> C!First(runs[k], MaxToken)])
  /\ If("text", LET whole == arg[1] \o arg[2] IN
          /\ arg[3] > 1 => Len(ret[1]) < arg[3] /\ IsPrefix(ret[1], arg[2])
          /\ Len(arg[1]) < arg[3] => Len(ret[2]) < arg[3]
          /\ IsPrefix(ret[2], whole) /\ (Len(whole) < arg[3] => ret[2] = whole)
          /\ Len(ret[3]) = Len(arg[1])
          /\ \A i \in DOMAIN arg[1] :
               ret[3][i] = IF i <= arg[3] /\ i <= Len(arg[2]) THEN arg[2][i] ELSE arg[1][i])
  /\ If("trim", \E i, j \in 0 .. Len(arg) :
          /\ arg = [k \in 1 .. i |-> Sep] \o ret[1] \o [k \in 1 .. j |-> Sep]
          /\ ret[1] # <<>> => ret[1][1] # Sep /\ Last(ret[1]) # Sep
          /\ ret[2] = Contains(arg, Sep))
  /\ If("pack", ret = <<arg[1], arg[2], arg>>)
  /\ If("signed", ret = <<arg, arg, TRUE>>)
  /\ If("hex", ret = arg)
  /\ If("mask", ret = 2 ^ arg[1] - 1)

Clipped(v, bits) == Max({M!Bottom(bits), Min({M!Top(bits), v})})

\* Sums, products and quotients are the exact ones, rounded as said and held
\* at the ends of the range: never a number of the other sign.  Nothing is
\* said of the product of -1 and -1 that L_mult() is not made for, and of the
\* sum of twice the least number (see Documented).
Saturates ==
  /\ If("math", LET a == arg[1]
                    b == arg[2]
                    one == 2 ^ (W - 1)
                IN ret = << Clipped(a + b, W), Clipped(a - b, W), Clipped((a * b) \div one, W),
                            Clipped((2 * a * b + one) \div (2 * one), W),
                            IF a = -one /\ b = -one THEN ret[5] ELSE 2 * a * b,
                            IF 0 <= a /\ a < b THEN (a * one) \div b
                              ELSE IF a = b /\ a >= 0 THEN one - 1 ELSE 0,
                            Clipped(IF a < 0 THEN -a ELSE a, W) >>)
  /\ If("long", LET a == arg[1]
                    b == arg[2]
                    least == M!Bottom(2 * W)
                    half == 2 ^ (2 * W - 2)
                    shifted == a * 2 ^ ret[3]
                IN /\ a # least \/ b # least => ret[1] = Clipped(a + b, 2 * W)
                   /\ ret[2] = Clipped(a - b, 2 * W)
                   /\ a # 0 => shifted \in (half .. 2 * half - 1) \cup (least .. -half))

\* A time survives its conversion to the NTP format and back within one
\* microsecond until the era ends, and is an era early after that.  Twice the
\* offset is right but for the difference of the two ways, and the delay is,
\* within half a grain for each of the four times.
TimesAgree ==
  /\ If("time", \E e \in {0, 1} :
          ret = T!Wide(arg - e - (IF arg + EpochAdjustment * Million < Era * Million THEN 0
                                  ELSE Era * Million)))
  /\ If("ntp", /\ ret[1] - 2 * arg[3] - (arg[1] - arg[2]) \in -(2 * Grain) .. 2 * Grain
               /\ ret[2] - (arg[1] + arg[2]) \in -(2 * Grain) .. 2 * Grain)

ArithmeticAgrees == NumbersCompare /\ TextAndBytesKept /\ Saturates /\ TimesAgree
-----------------------------------------------------------------------------
\* Where the element with an identifier begins, if elements follow each other
\* from i on, and what there is of it.
Element(p, id, max) ==
  LET at[i \in Nat] ==
        IF i >= Len(p) THEN 0 ELSE IF p[i] = id THEN i ELSE at[i + 2 + p[i + 1]]
      i == at[1]
      there == Len(p) - i - 1
      len == p[i + 1]
  IN IF i = 0 THEN [rc |-> -2, buf |-> <<>>]
     ELSE [rc |-> IF len <= there /\ len <= max THEN len
                  ELSE IF len > max /\ there > max THEN -1 ELSE -2,
           buf |-> SubSeq(p, i + 2, i + 1 + Min({len, there, max}))]

\* What is formatted is parsed back as it was, for both families and with
\* every port; a text that is too long is refused and changes nothing; an
\* element and a parameter come out as they were put in, and so does an
\* encoded text where the call returns; and a checksum over data with its
\* checksum is zero however the data is split.  Documented has the calls of
\* which the headers say what is not so.
NetAgrees ==
  /\ If("dotted", Len(N!Dotted(arg[1])) < arg[2] => ret[1] = arg[1] /\ ret[3] = N!Inet)
  /\ If("socket", ret = [rc |-> <<0, arg.port>>, sa |-> arg])
  /\ If("long_socket", LET n == arg[1]
                           m == arg[2]
                       IN /\ n > MaxAddr => ret.rc = -1
                          /\ n <= MaxAddr /\ arg[4] => ret.rc = IF m > MaxPort THEN -2 ELSE 0
                          /\ ~arg[4] => ret.rc < 0
                          /\ ret.rc < 0 => ret.sa = Stale
                          /\ ret.sa.addr = Stale.addr)
  /\ If("equal", LET s == arg[1]
                     t == arg[2]
                 IN /\ s = t => ret[1] /\ ret[2]
                    /\ s.family = N!Inet \/ ~Contains(s.addr, 0) =>
                         ret = << s.family = t.family /\ s.addr = t.addr, s = t >>)
  /\ If("element", ret = Element(arg[1], arg[2], arg[3]))
  /\ If("elements", LET v == arg[1]
                        good(n) == [rc |-> 0, value |-> n]
                    IN /\ ret[1] = good(v % Octet) /\ ret[2] = good(v)
                       /\ IF arg[2] < 6 THEN ret[3].rc = -2 ELSE ret[3] = good(v))
  /\ If("url", LET s == arg[1]
                   fits == Len(s) < arg[3]
               IN /\ fits => ~ret.hangs /\ (s # <<>> => ret.text = s)
                  /\ ~fits /\ ~ret.hangs /\ arg[3] > 1 => ret.text = SubSeq(s, 1, arg[3] - 1))
  /\ If("query", LET first == IF arg[1] = arg[5] THEN arg[2] ELSE IF arg[3] = arg[5] THEN arg[4] ELSE <<>>
                 IN IF first = <<>> THEN ret.rc = -1 ELSE ret.rc = 0 /\ ret.text = first)
  /\ If("checksum", ret = <<0, TRUE>>)
=============================================================================
