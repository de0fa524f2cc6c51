------------------------------ MODULE NetUtils ------------------------------
(***************************************************************************)
(* Addresses, information elements, query strings and the IP checksum:     *)
(* NetUtils.cpp and ipchecksum.c as operators.                             *)
(*                                                                         *)
(* A text is the sequence of the characters before its null; a digit       *)
(* stands for its value, every other character has a code above 15.  An    *)
(* address is the sequence of its bytes: four for IPv4, any other number,  *)
(* in place of sixteen, for IPv6.                                          *)
(***************************************************************************)
EXTENDS Integers, SequencesExt

CONSTANTS
  Byte,      \* 2^8
  Port,      \* 2^16
  MaxAddr,   \* 63: characters an address text may have
  MaxPort,   \* 7: characters a port text may have
  MaxParam   \* 63: characters a query name or value may have

NetUtilsAssumption ==
  /\ Byte \in Nat /\ Byte > 1 /\ Port \in Nat /\ Port > 0
  /\ MaxAddr \in Nat /\ MaxPort \in Nat /\ MaxParam \in Nat

Dot == 16
Colon == 17
Open == 18    \* [
Close == 19   \* ]
Equals == 20
Amp == 21
Percent == 22
Plus == 23
Space == 24

Head1(s, n) == SubSeq(s, 1, IF n < Len(s) THEN n ELSE Len(s))
-----------------------------------------------------------------------------
(* Numbers and addresses as text.                                          *)

Decimal(n) ==
  LET k == CHOOSE j \in 1 .. 6 : n < 10 ^ j /\ (j = 1 \/ n >= 10 ^ (j - 1))
  IN [i \in 1 .. k |-> (n \div (10 ^ (k - i))) % 10]

\* atoi(): the digits up to the first other character, 0 if there are none.
atoi(s) ==
  FoldLeft(LAMBDA v, c : IF v.on /\ c < 10 THEN [n |-> v.n * 10 + c, on |-> TRUE]
                         ELSE [v EXCEPT !.on = FALSE],
           [n |-> 0, on |-> TRUE], s).n

Dotted(a) == FlattenSeq([i \in DOMAIN a |->
  IF i = Len(a) THEN Decimal(a[i]) ELSE Append(Decimal(a[i]), Dot)])

formatIP4Address(addr, size) == Head1(Dotted(addr), size - 1)

\* The parts between dots, each taken as a byte; the last four stand.  With a
\* length, the last character it counts is where the text ends.
\* The code collects a part in eight bytes, its null included; a part of more
\* than seven characters would overrun them, and none here is as long.
parseIP4Address(text, len) ==
  LET stop == IF len = 0 \/ len > Len(text) THEN Len(text) ELSE len - 1
      shift(r, acc) == Append(Tail(r), atoi(acc) % Byte)
      read == FoldLeft(LAMBDA r, c :
                IF c = Dot THEN [addr |-> shift(r.addr, r.acc), acc |-> <<>>]
                           ELSE [r EXCEPT !.acc = Append(@, c)],
                [addr |-> <<0, 0, 0, 0>>, acc |-> <<>>], SubSeq(text, 1, stop))
  IN shift(read.addr, read.acc)

Inet == "AF_INET"
Inet6 == "AF_INET6"

getIPAddrFamily(text) ==
  IF Contains(text, Dot) THEN Inet ELSE IF Contains(text, Colon) THEN Inet6 ELSE "none"

\* The system's conversions.  A text that is no address changes nothing.
inet_ntop(family, addr) ==
  IF family = Inet THEN Dotted(addr)
  ELSE FlattenSeq([i \in DOMAIN addr |-> IF i = Len(addr) THEN <<addr[i]>> ELSE <<addr[i], Colon>>])

inet_pton(family, text, old) ==
  LET odd == [i \in 1 .. (Len(text) + 1) \div 2 |-> text[2 * i - 1]]
      value == IF family = Inet6 THEN odd
               ELSE IF Len(text) < 16 THEN parseIP4Address(text, 0) ELSE old
  IN IF text # <<>> /\ text = inet_ntop(family, value) THEN value ELSE old

setIPAddr(sa, text) == [sa EXCEPT !.addr = inet_pton(sa.family, text, sa.addr)]
setIPPort(sa, port) == [sa EXCEPT !.port = port % Port]
getIPPort(sa) == sa.port

formatIPAddr(sa) == inet_ntop(sa.family, sa.addr)

formatIPAddrAndPort(sa, size) ==
  LET text == formatIPAddr(sa)
      shown == IF sa.family = Inet THEN text ELSE <<Open>> \o text \o <<Close>>
  IN Head1(shown \o <<Colon>> \o Decimal(sa.port), size - 1)

\* One character of an address and port: part 0 is the address, 1 the colon
\* that must follow the bracket, 2 the port.
ReadChar(p, c, end) ==
  IF p.rc # 0 THEN p ELSE
  CASE p.part = 0 /\ c = end -> [p EXCEPT !.part = IF end = Close THEN 1 ELSE 2]
    [] p.part = 0 /\ c # end ->
         IF Len(p.addr) < MaxAddr THEN [p EXCEPT !.addr = Append(@, c)] ELSE [p EXCEPT !.rc = -1]
    [] p.part = 1 -> IF c = Colon THEN [p EXCEPT !.part = 2] ELSE [p EXCEPT !.rc = -3]
    [] p.part = 2 ->
         IF Len(p.port) < MaxPort THEN [p EXCEPT !.port = Append(@, c)] ELSE [p EXCEPT !.rc = -2]

\* An address that does not convert is no error: sa keeps the one it had.
parseIPAddrAndPort(ap, sa) ==
  LET six == ap # <<>> /\ ap[1] = Open
      empty == [part |-> 0, addr |-> <<>>, port |-> <<>>, rc |-> 0]
      read == FoldLeft(LAMBDA p, c : ReadChar(p, c, IF six THEN Close ELSE Colon),
                       empty, IF six THEN Tail(ap) ELSE ap)
      family == IF six THEN Inet6 ELSE Inet
  IN IF read.rc # 0 THEN [rc |-> read.rc, sa |-> sa]
     ELSE [rc |-> 0, sa |-> setIPPort(setIPAddr([sa EXCEPT !.family = family], read.addr),
                                      atoi(read.port))]

\* strcmp() on two byte arrays: they are equal up to the first zero.  Past
\* an array without one comes the scope, which is zero.
BeforeZero(a) ==
  Head1(a, Min({Len(a)} \cup {i - 1 : i \in {j \in DOMAIN a : a[j] = 0}}))
strEqual(a, b) == BeforeZero(a) = BeforeZero(b)

equalIPAddr(a0, a1) ==
  /\ a0.family = a1.family
  /\ IF a0.family = Inet THEN a0.addr = a1.addr ELSE strEqual(a0.addr, a1.addr)

equalIPAddrAndPort(a0, a1) ==
  /\ a0.family = a1.family
  /\ IF a0.family = Inet THEN a0.addr = a1.addr ELSE strEqual(a0.addr, a1.addr)
  /\ a0.port = a1.port
-----------------------------------------------------------------------------
(* Information elements: an identifier, a length, and so many bytes.       *)

None == <<>>
addIE_str(id, value, capacity) ==
  IF capacity < 2 + Len(value) \/ Len(value) >= Byte - 1 THEN None
  ELSE <<id, Len(value)>> \o value

addIE_uint8(id, value, capacity) == IF capacity < 3 THEN None ELSE <<id, 1, value>>
\* The low byte first.
addIE_uint16_Bug(id, value, capacity) ==
  IF capacity < 4 THEN None ELSE <<id, 2, value % Byte, value \div Byte>>

addIE_uint16(id, value, capacity) ==
  IF capacity < 4 THEN None ELSE <<id, 2, value \div Byte, value % Byte>>
addIE_uint32(id, value, capacity) ==
  IF capacity < 6 THEN None
  ELSE <<id, 4>> \o [i \in 1 .. 4 |-> (value \div (Byte ^ (4 - i))) % Byte]

\* One byte of a packet; rc stays at Going until something is returned.
Going == -3
ExtractByte(e, byte, id, max) ==
  IF e.rc # Going THEN e ELSE
  CASE e.state = "id" -> [e EXCEPT !.state = IF byte = id THEN "len" ELSE "other"]
    [] e.state = "len" ->
         IF byte = 0 THEN [e EXCEPT !.rc = 0] ELSE [e EXCEPT !.len = byte, !.state = "take"]
    [] e.state = "other" ->
         [e EXCEPT !.len = byte, !.j = 0, !.state = IF byte = 0 THEN "id" ELSE "skip"]
    [] e.state = "take" ->
         IF Len(e.buf) = max THEN [e EXCEPT !.rc = -1]
         ELSE [e EXCEPT !.buf = Append(@, byte),
                        !.rc = IF Len(e.buf) + 1 = e.len THEN e.len ELSE Going]
    [] e.state = "skip" ->
         [e EXCEPT !.j = @ + 1, !.state = IF e.j + 1 = e.len THEN "id" ELSE "skip"]

extractIE_raw(packet, id, max) ==
  LET scan[i \in 0 .. Len(packet)] ==
        IF i = 0 THEN [state |-> "id", len |-> 0, j |-> 0, buf |-> <<>>, rc |-> Going]
        ELSE ExtractByte(scan[i - 1], packet[i], id, max)
      e == scan[Len(packet)]
  IN [rc |-> IF e.rc = Going THEN -2 ELSE e.rc, buf |-> e.buf]

\* A number of n bytes; any other length is returned as it is, as if it were
\* a return code.
ExtractNumber(e, n, value) == IF e.rc = n THEN [rc |-> 0, value |-> value] ELSE [rc |-> e.rc, value |-> 0]

extractIE_uint32(packet, id) ==
  LET e == extractIE_raw(packet, id, 4)
      b == e.buf
  IN ExtractNumber(e, 4, ((b[1] * Byte + b[2]) * Byte + b[3]) * Byte + b[4])
extractIE_uint16(packet, id) ==
  LET e == extractIE_raw(packet, id, 2) IN ExtractNumber(e, 2, e.buf[1] * Byte + e.buf[2])
extractIE_uint8(packet, id) ==
  LET e == extractIE_raw(packet, id, 1) IN ExtractNumber(e, 1, e.buf[1])
-----------------------------------------------------------------------------
(* Query strings.                                                          *)

\* Decodes src from its character i into dst.  A plain character that does
\* not fit is tried again for ever.
urlDecode(src, dst, capacity) ==
  LET room(text) == Len(text) < capacity - 1
      put(text, c) == IF room(text) THEN Append(text, c) ELSE text
      decode[i \in 1 .. Len(src) + 1, text \in Seq(0 .. Byte * 8)] ==
        IF i > Len(src)
        THEN [hangs |-> FALSE, text |-> IF text = <<>> THEN dst ELSE text]
        ELSE IF src[i] = Percent /\ i + 2 <= Len(src) /\ src[i + 1] < 16 /\ src[i + 2] < 16
        THEN decode[i + 3, put(text, 16 * src[i + 1] + src[i + 2])]
        ELSE IF src[i] = Plus THEN decode[i + 1, put(text, Space)]
        ELSE IF room(text) THEN decode[i + 1, put(text, src[i])]
        ELSE [hangs |-> TRUE, text |-> text]
  IN decode[1, <<>>]

\* One character of a query, 0 for its end.  A name or a value that is empty
\* leaves the text of the one before it in place.
QueryChar(q, c, name) ==
  CASE q.found -> q
    [] ~q.found /\ ~q.inValue ->
         IF c = Equals THEN [q EXCEPT !.inValue = TRUE, !.ptr = 0]
         ELSE IF c = -1 \/ q.ptr = MaxParam THEN q
         ELSE [q EXCEPT !.name = Append(Head1(@, q.ptr), c), !.ptr = @ + 1]
    [] ~q.found /\ q.inValue ->
         IF c \in {Amp, -1}
         THEN IF q.name = name THEN [q EXCEPT !.found = TRUE]
              ELSE [q EXCEPT !.inValue = FALSE, !.ptr = 0]
         ELSE IF q.ptr = MaxParam THEN q
         ELSE [q EXCEPT !.value = Append(Head1(@, q.ptr), c), !.ptr = @ + 1]

extractQueryParam(query, name, dst, capacity) ==
  LET q == FoldLeft(LAMBDA s, c : QueryChar(s, c, name),
             [found |-> FALSE, inValue |-> FALSE, ptr |-> 0, name |-> <<>>, value |-> <<>>],
             Append(query, -1))
  IN IF q.found THEN [rc |-> 0] @@ urlDecode(q.value, dst, capacity)
     ELSE [rc |-> -1, hangs |-> FALSE, text |-> dst]
-----------------------------------------------------------------------------
(* The checksum: words of two bytes, each part padded to whole words.      *)

accumulateChecksum(data) ==
  MapThenSumSet(LAMBDA i : data[i] * (IF i % 2 = 1 THEN Byte ELSE 1),
                {i \in DOMAIN data : data[i] # 0})

ipChecksum3(data0, data1, data2) ==
  LET word == Byte ^ 2
      Fold[s \in Nat] == IF s < word THEN s ELSE Fold[(s % word) + (s \div word)]
  IN word - 1 - Fold[accumulateChecksum(data0) + accumulateChecksum(data1)
                     + accumulateChecksum(data2)]
=============================================================================
