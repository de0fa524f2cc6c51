------------------------------ MODULE MicroDNS ------------------------------
(***************************************************************************)
(* DNS questions and answers (MicroDNS.cpp): a name is asked for, a server *)
(* answers with one record, of which the network may cut the end off, and  *)
(* what arrives is parsed.  Packets are sequences of bytes; offsets into   *)
(* them count from 0.  A name is the text before its null.                 *)
(***************************************************************************)
EXTENDS Integers, SequencesExt

CONSTANTS
  Questions,   \* <<type, name>>: what is asked for
  Data,        \* the record data a server has, by type and name
  Capacity     \* room of the buffers for packet, host name and text

VARIABLES asked, query, answer, packet, result

vars == <<asked, query, answer, packet, result>>

Dot == 46
SRV == 33
A == 1
TXT == 16
In == 1
Nothing == <<>>
Outside == -1    \* a byte read past the end of a packet: it may be anything

\* What stands before a name at the end of a longer one, and its dot.
FirstLabel(host, name) == SubSeq(host, 1, Len(host) - Len(name) - 1)

Number == {v \in Nat : v < 65536}

\* Three numbers, and a host: a label in front of the name that was asked for.
ServiceOf(d, label, name) ==
  /\ d \in Number \X Number \X Number \X {label \o <<Dot>> \o name}
  /\ label \in Seq((1 .. 255) \ {Dot}) /\ Len(label) \in 1 .. 63 /\ Len(d[4]) < Capacity

IsService(d, name) == ServiceOf(d, FirstLabel(d[4], name), name)

\* Names and texts have no zeros, and names fit the buffers they are skipped in;
\* a buffer has room for a name behind the 12 bytes of the header.
MicroDNSAssumption ==
  /\ Capacity \in Nat /\ Capacity > 12 /\ Questions \subseteq {SRV, A, TXT} \X Seq(1 .. 255)
  /\ \A q \in Questions : Len(q[2]) < 64
  /\ \A q \in Questions : q[1] = SRV => IsService(Data[q], q[2])
  /\ \A q \in Questions : q[1] = A => Data[q] \in Seq(0 .. 255) /\ Len(Data[q]) = 4
  /\ \A q \in Questions : q[1] = TXT =>
       Data[q] \in Seq(1 .. 255) /\ Len(Data[q]) < 256 /\ Len(Data[q]) < Capacity

U16(v) == <<v \div 256, v % 256>>
At(p, i) == IF i < Len(p) THEN p[i + 1] ELSE Outside
AtU16(p, i) == p[i + 1] * 256 + p[i + 2]
Fits(p, i, n) == i + n <= Len(p)
-----------------------------------------------------------------------------
(* Questions.  Every one returns [rc, out]: a count of bytes or an error,  *)
(* and the bytes.                                                          *)

Wrote(bytes) == [rc |-> Len(bytes), out |-> bytes]
Failed(rc) == [rc |-> rc, out |-> Nothing]

makeDNSHeader(id, size) ==
  IF size < 12 THEN Failed(-1)
  ELSE Wrote(U16(id) \o <<1, 0, 0, 1, 0, 0, 0, 0, 0, 0>>)

\* One character of a name: a label goes behind its length, which is filled in
\* where the label ends.  The buffer must have a byte left when a character is
\* written: the null.  The code tests its limit, i == packetSize, after it has
\* written: given no byte at all it would never meet it (MicroDNSAssumption).
WriteChar(w, c, size) ==
  IF w.rc # 0 THEN w
  ELSE IF c = Dot
  THEN IF w.label = <<>> THEN [w EXCEPT !.rc = -2]
       ELSE [w EXCEPT !.out = @ \o <<Len(w.label)>> \o w.label, !.label = <<>>]
  ELSE IF Len(w.out) + Len(w.label) + 2 >= size THEN [w EXCEPT !.rc = -1]
  ELSE [w EXCEPT !.label = Append(@, c)]

writeDomainName(name, size) ==
  LET write[j \in 0 .. Len(name)] ==
        IF j = 0 THEN [out |-> <<>>, label |-> <<>>, rc |-> 0]
        ELSE WriteChar(write[j - 1], name[j], size)
      w == write[Len(name)]
  IN IF w.rc # 0 THEN Failed(w.rc) ELSE IF w.label = <<>> THEN Failed(-3)
     ELSE Wrote(w.out \o <<Len(w.label)>> \o w.label \o <<0>>)

makeDNSQuery(id, qtype, name, size) ==
  LET header == makeDNSHeader(id, size)
      written == writeDomainName(name, size - 12)
  IN IF header.rc < 0 THEN header ELSE IF written.rc < 0 THEN written
     ELSE IF header.rc + written.rc + 4 >= size THEN Failed(-1)
     ELSE Wrote(header.out \o written.out \o U16(qtype) \o U16(In))
-----------------------------------------------------------------------------
(* Answers.                                                                *)

Skip == -1      \* no buffer for the name: it is only skipped
Going == -100   \* nothing is returned yet, or ever: pointers that form a loop
Nowhere == -1   \* no pointer was followed

\* Goes on behind the labels that the pointer leads to.
AfterPointer_Bug(r) == Nowhere

\* A name ends with its first pointer.
AfterPointer(r) == IF r.back = Nowhere THEN r.i + 2 ELSE r.back

\* One turn of the loop: the end, a pointer, which is followed, or a label.
ReadLabel(p, r, size) ==
  LET full(text, n) == size # Skip /\ Len(text) + n > size
      len == At(p, r.i)
      to == (len % 64) * 256 + At(p, r.i + 1)
      dotted == IF r.first THEN r.text ELSE Append(r.text, Dot)
      end == r.i + 1 + len
  IN IF r.rc # Going THEN r
     ELSE IF len = Outside THEN [r EXCEPT !.rc = -1]
     ELSE IF len = 0
     THEN [r EXCEPT !.rc = IF full(r.text, 1) THEN -2
                           ELSE IF r.back = Nowhere THEN end ELSE r.back]
     ELSE IF ~r.first /\ full(r.text, 1) THEN [r EXCEPT !.rc = -2]
     ELSE IF len >= 192
     THEN IF r.i + 1 = Len(p) THEN [r EXCEPT !.rc = -1]
          ELSE IF to >= Len(p) THEN [r EXCEPT !.rc = -3]
          ELSE [r EXCEPT !.i = to, !.text = dotted, !.first = TRUE, !.back = AfterPointer(r)]
     ELSE IF end >= Len(p) THEN [r EXCEPT !.rc = -1]
     ELSE IF full(dotted, len + 1) THEN [r EXCEPT !.rc = -2]
     ELSE [r EXCEPT !.i = end, !.text = dotted \o SubSeq(p, r.i + 2, end), !.first = FALSE]

\* The labels from offset on.  After as many turns as there are bytes it has
\* been somewhere twice.
parseDomainName(p, offset, size) ==
  LET read[t \in 0 .. Len(p)] ==
        IF t = 0 THEN [i |-> offset, text |-> <<>>, first |-> TRUE, back |-> Nowhere, rc |-> Going]
        ELSE ReadLabel(p, read[t - 1], size)
  IN read[Len(p)]

\* A packet that ends with its last question is refused: >= for >.
QuestionEnd(p, i) == IF i < 0 THEN i ELSE IF i + 4 >= Len(p) THEN -1 ELSE i + 4

skipQuestions(p) ==
  LET after[q \in 0 .. AtU16(p, 4)] ==
        IF q = 0 THEN 12 ELSE IF after[q - 1] < 0 THEN after[q - 1]
        ELSE QuestionEnd(p, parseDomainName(p, after[q - 1], 65).rc)
  IN IF Len(p) < 12 THEN -1 ELSE after[AtU16(p, 4)]

\* Behind a record's name, its type, class, time to live and length.
AfterName(p, i, type) ==
  CASE i < 0 -> [rc |-> i, len |-> 0]
    [] i >= 0 /\ ~Fits(p, i, 2) -> [rc |-> -1, len |-> 0]
    [] i >= 0 /\ Fits(p, i, 2) /\ AtU16(p, i) # type -> [rc |-> -3, len |-> 0]
    [] OTHER -> IF ~Fits(p, i, 4) THEN [rc |-> -1, len |-> 0]
                ELSE IF AtU16(p, i + 2) # In THEN [rc |-> -4, len |-> 0]
                ELSE IF ~Fits(p, i, 10) THEN [rc |-> -1, len |-> 0]
                ELSE [rc |-> i + 10, len |-> AtU16(p, i + 8)]

NameAt(p, q, size) == IF q < 0 THEN q ELSE parseDomainName(p, q, size).rc

\* Where the data of the first record begins, and its length.
RecordHead(p, type, nameSize) ==
  AfterName(p, NameAt(p, skipQuestions(p), nameSize), type)

Got(rc, data) == [rc |-> rc, data |-> data]

ServiceAt(p, head, host) ==
  CASE head.rc < 0 -> Got(head.rc, Nothing)
    [] head.rc >= 0 /\ ~(Fits(p, head.rc, head.len) /\ Fits(p, head.rc, 6)) -> Got(-1, Nothing)
    [] OTHER -> IF host.rc < 0 THEN Got(host.rc, Nothing)
                ELSE Got(host.rc, <<AtU16(p, head.rc), AtU16(p, head.rc + 2),
                                    AtU16(p, head.rc + 4), host.text>>)

\* The only answer whose flags are looked at: it must be one, without error.
parseDNSAnswer_SRV(p) ==
  LET head == RecordHead(p, SRV, 64) IN
    IF Len(p) < 4 THEN Got(-1, Nothing)
    ELSE IF p[3] < 128 THEN Got(-8, Nothing)
    ELSE IF p[4] % 16 # 0 THEN Got(-9, Nothing)
    ELSE ServiceAt(p, head, parseDomainName(p, head.rc + 6, Capacity))

\* The four bytes are taken without a look at the end of the packet.
AddressAt(p, head) ==
  IF head.rc < 0 THEN Got(head.rc, Nothing)
  ELSE IF head.len # 4 THEN Got(-4, Nothing)
  ELSE Got(head.rc + 4, [k \in 1 .. 4 |-> At(p, head.rc + k - 1)])

parseDNSAnswer_A(p) == AddressAt(p, RecordHead(p, A, Skip))

\* The data must fit in the packet; the length inside it is then believed.
TextAt(p, head, len) ==
  IF head.rc < 0 THEN Got(head.rc, Nothing)
  ELSE IF ~Fits(p, head.rc, head.len) THEN Got(-5, Nothing)
  ELSE IF len + 1 > Capacity THEN Got(-6, Nothing)
  ELSE Got(head.rc + 1 + len, [k \in 1 .. len |-> At(p, head.rc + k)])

parseDNSAnswer_TXT(p) ==
  LET head == RecordHead(p, TXT, Skip) IN TextAt(p, head, At(p, head.rc))
-----------------------------------------------------------------------------
(* The caller, the server and the network.                                 *)

Pending == [rc |-> 0, data |-> Nothing]

Init ==
  /\ asked = Nothing /\ query = Nothing /\ answer = Nothing /\ packet = Nothing
  /\ result = Pending

\* A buffer exactly as long as the question is refused: then nothing is sent.
Ask(type) ==
  /\ asked = Nothing
  /\ \E q \in Questions : \E room \in {Capacity, Len(q[2]) + 18} :
       q[1] = type /\ asked' = q /\ query' = makeDNSQuery(1, type, q[2], room).out
  /\ UNCHANGED <<answer, packet, result>>

makeDNSQuery_SRV == Ask(SRV)
makeDNSQuery_A == Ask(A)
makeDNSQuery_TXT == Ask(TXT)

\* The server reads the question and repeats it before its record.  It writes
\* the name asked for in full or as a pointer into the question, and so the end
\* of a host's name, which is a label in front of it.
Pointer(offset) == <<192 + offset \div 256, offset % 256>>

ServiceData(d, label, owner) ==
  U16(d[1]) \o U16(d[2]) \o U16(d[3]) \o <<Len(label)>> \o label \o owner

Rdata(type, data, name, owner) ==
  CASE type = SRV -> ServiceData(data, FirstLabel(data[4], name), owner)
    [] type = A -> data
    [] type = TXT -> <<Len(data)>> \o data

Answered(short, rcode) ==
  LET name == parseDomainName(query, 12, Capacity).text
      type == AtU16(query, Len(query) - 4)
      owner == IF short THEN Pointer(12) ELSE writeDomainName(name, Capacity).out
      rdata == Rdata(type, Data[<<type, name>>], name, owner)
      flags == <<129, 128 + rcode, 0, 1, 0, IF rcode = 0 THEN 1 ELSE 0, 0, 0, 0, 0>>
  IN SubSeq(query, 1, 2) \o flags \o SubSeq(query, 13, Len(query)) \o
       (IF rcode # 0 THEN <<>>
        ELSE owner \o U16(type) \o U16(In) \o <<0, 0, 0, 60>> \o U16(Len(rdata)) \o rdata)

Answer ==
  /\ query # Nothing /\ answer = Nothing
  /\ \E short \in BOOLEAN, rcode \in {0, 3} : answer' = Answered(short, rcode)
  /\ UNCHANGED <<asked, query, packet, result>>

\* A packet that arrives, in full, cut, or the question itself coming back.
Deliver ==
  /\ answer # Nothing /\ packet = Nothing
  /\ packet' \in {query} \cup {SubSeq(answer, 1, n) : n \in 1 .. Len(answer)}
  /\ UNCHANGED <<asked, query, answer, result>>

Parse(type, Parsed(_)) ==
  /\ packet # Nothing /\ result = Pending /\ asked[1] = type
  /\ result' = Parsed(packet)
  /\ UNCHANGED <<asked, query, answer, packet>>

Next ==
  \/ makeDNSQuery_SRV \/ makeDNSQuery_A \/ makeDNSQuery_TXT
  \/ Answer \/ Deliver
  \/ Parse(SRV, parseDNSAnswer_SRV) \/ Parse(A, parseDNSAnswer_A) \/ Parse(TXT, parseDNSAnswer_TXT)

Spec == Init /\ [][Next]_vars
-----------------------------------------------------------------------------
(* Properties.                                                             *)

\* A whole answer gives the data the server has for the name and type asked
\* for, however its names are written, and ends where the packet ends; one
\* that was cut, carries an error, or is the question itself is refused.  But
\* an address that was cut off is not: it is read past the end of the packet
\* (the three parseDNSAnswer functions, parseDomainName(), makeDNSQuery()).
AnswersAreServers ==
  result # Pending =>
    IF packet = answer /\ answer[4] % 16 = 0
    THEN result = Got(Len(answer), Data[asked])
    ELSE \/ result.rc < 0
         \/ asked[1] = A /\ packet # query /\ answer[4] % 16 = 0 /\ Len(answer) - Len(packet) <= 4
=============================================================================
