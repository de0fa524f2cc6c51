--------------------------- MODULE MicroDNS_proofs ---------------------------
(***************************************************************************)
(* What TLAPS proves of DNS (MicroDNS), for any names, any data a server   *)
(* has and any buffer: whichever way the server writes its names, and      *)
(* wherever a packet is cut.  A name is spelt label by label (Spells):     *)
(* writeDomainName() writes it so, and the loop of parseDomainName() reads *)
(* it, in full or through a pointer to the question (NameWritten,          *)
(* ReadsOwner).  Of a packet that may be cut, the lemmas say what its      *)
(* bytes are as far as it goes (QuestionIn, RecordIn, DataOf): so one      *)
(* statement covers the whole answer and every beginning of it.  The       *)
(* inductive invariant NamesInv says that what was sent is the question    *)
(* asked for and that what comes back responds to it.                      *)
(***************************************************************************)
EXTENDS MCLinks_proofs

-----------------------------------------------------------------------------
(* Names: what writeDomainName() writes and parseDomainName() reads.         *)

Char == 1 .. 255
Period == 46

WriteStart == [out |-> <<>>, label |-> <<>>, rc |-> 0]
Writes(name, size, N, f) ==
  f = [k \in 0 .. N |-> IF k = 0 THEN WriteStart ELSE Names!WriteChar(f[k - 1], name[k], size)]
Write(name, size) == CHOOSE f : Writes(name, size, Len(name), f)

\* The loop over the characters of a name is well defined.
LEMMA WriteIs ==
  ASSUME NEW name, Len(name) \in Nat, NEW size
  PROVE  /\ Write(name, size)[0] = WriteStart
         /\ \A k \in 1 .. Len(name) :
              Write(name, size)[k] = Names!WriteChar(Write(name, size)[k - 1], name[k], size)
<1> DEFINE T == {N \in Nat : \E f : Writes(name, size, N, f)}
           L == Len(name)
<1>1. 0 \in T
  <2>1. Writes(name, size, 0, [k \in 0 .. 0 |-> WriteStart])
    BY DEF Writes
  <2>2. QED
    BY <2>1
<1>2. ASSUME NEW N \in Nat, N \in T PROVE N + 1 \in T
  <2>1. PICK f : Writes(name, size, N, f)
    BY <1>2
  <2> DEFINE g == [k \in 0 .. N + 1 |-> IF k = N + 1 THEN Names!WriteChar(f[N], name[N + 1], size) ELSE f[k]]
  <2>2. ASSUME NEW k \in 0 .. N + 1
        PROVE  g[k] = IF k = 0 THEN WriteStart ELSE Names!WriteChar(g[k - 1], name[k], size)
    <3>1. CASE k = N + 1
      <4>1. k # 0 /\ k - 1 = N /\ N \in 0 .. N + 1 /\ N # N + 1
        BY <3>1
      <4>2. g[k - 1] = f[N]
        BY <4>1
      <4>3. QED
        BY <3>1, <4>1, <4>2
    <3>2. CASE k # N + 1
      <4>1. k \in 0 .. N /\ (k # 0 => k - 1 \in 0 .. N + 1 /\ k - 1 # N + 1)
        BY <3>2
      <4>2. f[k] = IF k = 0 THEN WriteStart ELSE Names!WriteChar(f[k - 1], name[k], size)
        BY <2>1, <4>1, Zenon DEF Writes
      <4>3. k # 0 => g[k - 1] = f[k - 1]
        BY <4>1
      <4>4. QED
        BY <3>2, <4>2, <4>3
    <3>3. QED
      BY <3>1, <3>2
  <2>3. Writes(name, size, N + 1, g)
    <3> DEFINE h == [k \in 0 .. N + 1 |-> IF k = 0 THEN WriteStart ELSE Names!WriteChar(g[k - 1], name[k], size)]
    <3>1. \A k \in 0 .. N + 1 : g[k] = h[k]
      BY <2>2
    <3>2. g = h
      BY <3>1
    <3>3. QED
      BY <3>2 DEF Writes
  <2>4. QED
    BY <2>3
<1>3. \E f : Writes(name, size, L, f)
  <2>1. Nat \subseteq T
    <3> HIDE DEF T
    <3>1. QED
      BY <1>1, <1>2, Induct
  <2>2. QED
    BY <2>1
<1>4. Writes(name, size, L, Write(name, size))
  BY <1>3, Zenon DEF Write
<1>5. \A k \in 0 .. L : Write(name, size)[k] = IF k = 0 THEN WriteStart ELSE Names!WriteChar(Write(name, size)[k - 1], name[k], size)
  BY <1>4, Zenon DEF Writes
<1>6. 0 \in 0 .. L /\ \A k \in 1 .. L : k \in 0 .. L /\ k # 0
  OBVIOUS
<1>7. QED
  BY <1>5, <1>6

LEMMA WriteNameIs ==
  ASSUME NEW name, NEW size
  PROVE  LET w == Write(name, size)[Len(name)] IN
           Names!writeDomainName(name, size)
             = IF w.rc # 0 THEN Names!Failed(w.rc) ELSE IF w.label = <<>> THEN Names!Failed(-3)
               ELSE Names!Wrote(w.out \o <<Len(w.label)>> \o w.label \o <<0>>)
BY Zenon DEF Names!writeDomainName, Write, Writes, WriteStart

\* The loop of parseDomainName() at a byte, nothing returned yet.
Reading(i, text, first, back) ==
  [i |-> i, text |-> text, first |-> first, back |-> back, rc |-> Names!Going]
NameTurns(p, o, size, N, f) ==
  f = [k \in 0 .. N |-> IF k = 0 THEN Reading(o, <<>>, TRUE, -1) ELSE Names!ReadLabel(p, f[k - 1], size)]
NameRead(p, o, size) == CHOOSE f : NameTurns(p, o, size, Len(p), f)

\* The loop over the labels of a name is well defined.
LEMMA ReadIs ==
  ASSUME NEW p, Len(p) \in Nat, NEW o, NEW size
  PROVE  /\ NameRead(p, o, size)[0] = Reading(o, <<>>, TRUE, -1)
         /\ \A k \in 1 .. Len(p) :
              NameRead(p, o, size)[k] = Names!ReadLabel(p, NameRead(p, o, size)[k - 1], size)
<1> DEFINE T == {N \in Nat : \E f : NameTurns(p, o, size, N, f)}
           L == Len(p)
<1>1. 0 \in T
  <2>1. NameTurns(p, o, size, 0, [k \in 0 .. 0 |-> Reading(o, <<>>, TRUE, -1)])
    BY DEF NameTurns
  <2>2. QED
    BY <2>1
<1>2. ASSUME NEW N \in Nat, N \in T PROVE N + 1 \in T
  <2>1. PICK f : NameTurns(p, o, size, N, f)
    BY <1>2
  <2> DEFINE g == [k \in 0 .. N + 1 |-> IF k = N + 1 THEN Names!ReadLabel(p, f[N], size) ELSE f[k]]
  <2>2. ASSUME NEW k \in 0 .. N + 1
        PROVE  g[k] = IF k = 0 THEN Reading(o, <<>>, TRUE, -1) ELSE Names!ReadLabel(p, g[k - 1], size)
    <3>1. CASE k = N + 1
      <4>1. k # 0 /\ k - 1 = N /\ N \in 0 .. N + 1 /\ N # N + 1
        BY <3>1
      <4>2. g[k - 1] = f[N]
        BY <4>1
      <4>3. QED
        BY <3>1, <4>1, <4>2
    <3>2. CASE k # N + 1
      <4>1. k \in 0 .. N /\ (k # 0 => k - 1 \in 0 .. N + 1 /\ k - 1 # N + 1)
        BY <3>2
      <4>2. f[k] = IF k = 0 THEN Reading(o, <<>>, TRUE, -1) ELSE Names!ReadLabel(p, f[k - 1], size)
        BY <2>1, <4>1, Zenon DEF NameTurns
      <4>3. k # 0 => g[k - 1] = f[k - 1]
        BY <4>1
      <4>4. QED
        BY <3>2, <4>2, <4>3
    <3>3. QED
      BY <3>1, <3>2
  <2>3. NameTurns(p, o, size, N + 1, g)
    <3> DEFINE h == [k \in 0 .. N + 1 |-> IF k = 0 THEN Reading(o, <<>>, TRUE, -1) ELSE Names!ReadLabel(p, g[k - 1], size)]
    <3>1. \A k \in 0 .. N + 1 : g[k] = h[k]
      BY <2>2
    <3>2. g = h
      BY <3>1
    <3>3. QED
      BY <3>2 DEF NameTurns
  <2>4. QED
    BY <2>3
<1>3. \E f : NameTurns(p, o, size, L, f)
  <2>1. Nat \subseteq T
    <3> HIDE DEF T
    <3>1. QED
      BY <1>1, <1>2, Induct
  <2>2. QED
    BY <2>1
<1>4. NameTurns(p, o, size, L, NameRead(p, o, size))
  BY <1>3, Zenon DEF NameRead
<1>5. \A k \in 0 .. L : NameRead(p, o, size)[k] = IF k = 0 THEN Reading(o, <<>>, TRUE, -1) ELSE Names!ReadLabel(p, NameRead(p, o, size)[k - 1], size)
  BY <1>4, Zenon DEF NameTurns
<1>6. 0 \in 0 .. L /\ \A k \in 1 .. L : k \in 0 .. L /\ k # 0
  OBVIOUS
<1>7. QED
  BY <1>5, <1>6

LEMMA ParseNameIs ==
  ASSUME NEW p, NEW o, NEW size
  PROVE  Names!parseDomainName(p, o, size) = NameRead(p, o, size)[Len(p)]
BY Zenon DEF Names!parseDomainName, NameRead, NameTurns, Reading, Names!Nowhere

\* Behind its first k characters a name has a label of r.
LabelAt(name, k, r) ==
  /\ r \in Nat /\ 0 < r /\ k + r <= Len(name)
  /\ \A j \in k + 1 .. k + r : name[j] # Period
  /\ k + r = Len(name) \/ name[k + r + 1] = Period

\* The byte for the k-th character of a name: a dot, as the place before the
\* first, has the length of the label that follows; the null comes last.
Spelt(name, k, x) ==
  IF k = Len(name) + 1 THEN x = 0
  ELSE IF k = 0 \/ name[k] = Period THEN LabelAt(name, k, x) ELSE x = name[k]
SpeltTo(b, name, n) == \A k \in 0 .. n - 1 : Spelt(name, k, b[k + 1])

Naming(name) == name \in Seq(Char) /\ Len(name) < 64

\* After j characters, d are behind their lengths and the label has e.
Open(name, done, d, label, e) ==
  /\ d \in Nat /\ e \in Nat /\ Piece(Octet, done, d) /\ Piece(Char, label, e)
  /\ d + e <= Len(name) /\ (d = 0 \/ name[d] = Period) /\ SpeltTo(done, name, d)
  /\ \A m \in 1 .. e : label[m] = name[d + m] /\ name[d + m] # Period

LEMMA CloseLabel ==
  ASSUME NEW name, Naming(name), NEW done, NEW d, NEW label, NEW e, Open(name, done, d, label, e),
         e # 0, d + e = Len(name) \/ name[d + e + 1] = Period
  PROVE  LET b == (done \o <<Len(label)>>) \o label IN
           Piece(Octet, b, d + e + 1) /\ SpeltTo(b, name, d + e + 1)
<1> DEFINE c == done \o <<e>>
           b == c \o label
           L == Len(name)
<1>1. /\ d \in Nat /\ e \in Nat /\ Piece(Octet, done, d) /\ Piece(Char, label, e) /\ L \in Nat /\ L < 64
      /\ d + e <= L /\ (d = 0 \/ name[d] = Period) /\ SpeltTo(done, name, d) /\ Len(label) = e
  BY DEF Open, Naming, Piece
<1>2. \A m \in 1 .. e : label[m] = name[d + m] /\ name[d + m] # Period
  BY DEF Open
<1>3. Piece(Octet, <<e>>, 1) /\ <<e>>[1] = e
  BY <1>1 DEF Piece, Octet
<1>4. Piece(Octet, c, d + 1) /\ (\A k \in 1 .. d : c[k] = done[k]) /\ c[d + 1] = e
  <2>1. Piece(Octet, c, d + 1) /\ Joins(c, done, d, <<e>>, 1)
    BY <1>1, <1>3, Put
  <2>2. 1 \in 1 .. 1
    OBVIOUS
  <2>3. c[d + 1] = <<e>>[1]
    BY <2>1, <2>2, Zenon DEF Joins
  <2>4. QED
    BY <1>3, <2>1, <2>3 DEF Joins
<1>5. Piece(Octet, label, e)
  BY <1>1, Wider DEF Char, Octet
<1> HIDE DEF c
<1>6. /\ Piece(Octet, b, (d + 1) + e) /\ (\A k \in 1 .. d + 1 : b[k] = c[k])
      /\ \A m \in 1 .. e : b[(d + 1) + m] = label[m]
  <2>1. d + 1 \in Nat
    BY <1>1
  <2>2. Piece(Octet, b, (d + 1) + e) /\ Joins(b, c, d + 1, label, e)
    BY <1>1, <1>4, <1>5, <2>1, Put
  <2>3. QED
    BY <2>2 DEF Joins
<1> HIDE DEF b
<1>7. ASSUME NEW k \in 0 .. (d + e + 1) - 1 PROVE Spelt(name, k, b[k + 1])
  <2>1. CASE k < d
    <3>1. k \in 0 .. d - 1 /\ k + 1 \in 1 .. d /\ k + 1 \in 1 .. d + 1
      BY <1>1, <2>1
    <3>2. b[k + 1] = done[k + 1]
      BY <1>4, <1>6, <3>1
    <3>3. QED
      BY <1>1, <3>1, <3>2 DEF SpeltTo
  <2>2. CASE k = d
    <3>1. b[k + 1] = e
      BY <1>1, <1>4, <1>6, <2>2
    <3>2. LabelAt(name, d, e)
      <4>1. ASSUME NEW j \in d + 1 .. d + e PROVE name[j] # Period
        <5>1. j - d \in 1 .. e /\ d + (j - d) = j
          BY <1>1
        <5>2. QED
          BY <1>2, <5>1
      <4>2. QED
        BY <1>1, <4>1 DEF LabelAt
    <3>3. QED
      BY <1>1, <2>2, <3>1, <3>2 DEF Spelt
  <2>3. CASE k > d
    <3>1. k - d \in 1 .. e /\ d + (k - d) = k /\ (d + 1) + (k - d) = k + 1 /\ k # 0 /\ k # L + 1
      BY <1>1, <2>3
    <3>2. b[k + 1] = name[k] /\ name[k] # Period
      BY <1>2, <1>6, <3>1
    <3>3. QED
      BY <3>1, <3>2 DEF Spelt
  <2>4. QED
    BY <1>1, <2>1, <2>2, <2>3
<1>8. (d + 1) + e = d + e + 1
  BY <1>1
<1>9. QED
  BY <1>1, <1>6, <1>7, <1>8 DEF SpeltTo, b, c

\* What the loop holds after j characters, unless the name was refused.
WrittenTo(w, name, size, j) ==
  \E done, d, label, e :
    /\ w = [out |-> done, label |-> label, rc |-> 0] /\ Open(name, done, d, label, e)
    /\ d + e = j /\ (e # 0 => j + 1 < size)
Refused(w) == w.rc \in {-1, -2}

LEMMA WritesChar ==
  ASSUME NEW name, Naming(name), NEW size \in Int, NEW j \in Nat, j < Len(name), NEW w,
         WrittenTo(w, name, size, j)
  PROVE  LET v == Names!WriteChar(w, name[j + 1], size) IN WrittenTo(v, name, size, j + 1) \/ Refused(v)
<1> DEFINE c == name[j + 1]
           v == Names!WriteChar(w, c, size)
<1>1. PICK done, d, label, e :
        /\ w = [out |-> done, label |-> label, rc |-> 0] /\ Open(name, done, d, label, e)
        /\ d + e = j /\ (e # 0 => j + 1 < size)
  BY DEF WrittenTo
<1>2. /\ d \in Nat /\ e \in Nat /\ Piece(Octet, done, d) /\ Piece(Char, label, e) /\ Len(name) \in Nat
      /\ (d = 0 \/ name[d] = Period) /\ SpeltTo(done, name, d) /\ Len(label) = e /\ Len(done) = d
  BY <1>1 DEF Open, Naming, Piece
<1>3. \A m \in 1 .. e : label[m] = name[d + m] /\ name[d + m] # Period
  BY <1>1 DEF Open
<1>4. c \in Char
  BY DEF Naming
<1>5. w.rc = 0 /\ w.out = done /\ w.label = label
  BY <1>1
<1>6. (label = <<>>) <=> e = 0
  BY <1>2 DEF Piece
<1> HIDE DEF c
<1>7. CASE c = Period /\ e = 0
  <2>1. v.rc = -2
    BY <1>5, <1>6, <1>7, <1>1 DEF Names!WriteChar, Names!Dot, Period
  <2>2. QED
    BY <2>1 DEF Refused, v, c
<1>8. CASE c = Period /\ e # 0
  <2> DEFINE b == (done \o <<Len(label)>>) \o label
  <2>1. v = [out |-> b, label |-> <<>>, rc |-> 0]
    BY <1>1, <1>5, <1>6, <1>8 DEF Names!WriteChar, Names!Dot, Period
  <2>2. Piece(Octet, b, d + e + 1) /\ SpeltTo(b, name, d + e + 1)
    BY <1>1, <1>8, CloseLabel DEF c
  <2> HIDE DEF b
  <2>3. Piece(Char, <<>>, 0)
    BY DEF Piece
  <2>4. d + e + 1 = j + 1 /\ j + 1 \in Nat /\ (j + 1) + 0 = j + 1 /\ j + 1 <= Len(name)
    BY <1>1, <1>2
  <2>5. Open(name, b, j + 1, <<>>, 0)
    BY <1>8, <2>2, <2>3, <2>4 DEF Open, c
  <2>6. QED
    BY <2>1, <2>4, <2>5 DEF WrittenTo, v, c
<1>9. CASE c # Period /\ d + e + 2 >= size
  <2>1. v.rc = -1
    BY <1>1, <1>2, <1>5, <1>9 DEF Names!WriteChar, Names!Dot, Period
  <2>2. QED
    BY <2>1 DEF Refused, v, c
<1>10. CASE c # Period /\ ~(d + e + 2 >= size)
  <2> DEFINE l == Append(label, c)
  <2>1. v = [out |-> done, label |-> l, rc |-> 0]
    BY <1>1, <1>2, <1>5, <1>10 DEF Names!WriteChar, Names!Dot, Period
  <2>2. Piece(Char, l, e + 1) /\ l[e + 1] = c /\ \A k \in 1 .. e : l[k] = label[k]
    BY <1>2, <1>4, Appended
  <2> HIDE DEF l
  <2>3. /\ e + 1 \in Nat /\ d + (e + 1) = j + 1 /\ d + (e + 1) <= Len(name)
        /\ (j + 1) + 1 < size
    BY <1>1, <1>2, <1>10
  <2>4. ASSUME NEW m \in 1 .. e + 1 PROVE l[m] = name[d + m] /\ name[d + m] # Period
    <3>1. CASE m = e + 1
      BY <1>10, <2>2, <2>3, <3>1 DEF c
    <3>2. CASE m # e + 1
      <4>1. m \in 1 .. e
        BY <1>2, <3>2
      <4>2. QED
        BY <1>3, <2>2, <4>1
    <3>3. QED
      BY <3>1, <3>2
  <2>5. Open(name, done, d, l, e + 1)
    BY <1>2, <2>2, <2>3, <2>4 DEF Open
  <2>6. QED
    BY <2>1, <2>3, <2>5 DEF WrittenTo, v, c
<1>11. QED
  <2>1. d + e + 2 \in Nat
    BY <1>2
  <2>2. QED
    BY <1>7, <1>8, <1>9, <1>10

\* A name that was written, with its null.
Spells(b, o, name) == \A k \in 0 .. Len(name) + 1 : o + k < Len(b) => Spelt(name, k, b[o + k + 1])

LEMMA WriteStays ==
  ASSUME NEW w, Refused(w), NEW c, NEW size
  PROVE  Names!WriteChar(w, c, size) = w
<1>1. w.rc # 0
  BY DEF Refused
<1>2. QED
  BY <1>1, Zenon DEF Names!WriteChar

\* The loop over all characters.
LEMMA WritesAll ==
  ASSUME NEW name, Naming(name), NEW size \in Int
  PROVE  \A j \in 0 .. Len(name) :
           WrittenTo(Write(name, size)[j], name, size, j) \/ Refused(Write(name, size)[j])
<1> DEFINE f == Write(name, size)
           L == Len(name)
           T == {j \in Nat : j <= L => WrittenTo(f[j], name, size, j) \/ Refused(f[j])}
<1>1. L \in Nat /\ L < 64
  BY DEF Naming
<1>2. /\ f[0] = WriteStart
      /\ \A k \in 1 .. L : f[k] = Names!WriteChar(f[k - 1], name[k], size)
  BY <1>1, WriteIs, Zenon
<1> HIDE DEF f
<1>3. 0 \in T
  <2>1. Open(name, <<>>, 0, <<>>, 0)
    BY <1>1 DEF Open, Piece, SpeltTo
  <2>2. WrittenTo(f[0], name, size, 0)
    BY <1>2, <2>1 DEF WrittenTo, WriteStart
  <2>3. QED
    BY <2>2
<1>4. ASSUME NEW j \in Nat, j \in T PROVE j + 1 \in T
  <2> SUFFICES ASSUME j + 1 <= L PROVE WrittenTo(f[j + 1], name, size, j + 1) \/ Refused(f[j + 1])
    OBVIOUS
  <2>1. j + 1 \in 1 .. L /\ (j + 1) - 1 = j /\ j < L /\ j <= L
    BY <1>1
  <2>2. f[j + 1] = Names!WriteChar(f[j], name[j + 1], size)
    BY <1>2, <2>1
  <2>3. CASE WrittenTo(f[j], name, size, j)
    BY <2>1, <2>2, <2>3, WritesChar
  <2>4. CASE Refused(f[j])
    BY <2>2, <2>4, WriteStays
  <2>5. QED
    BY <1>4, <2>1, <2>3, <2>4
<1>5. Nat \subseteq T
  <2> HIDE DEF T
  <2>1. QED
    BY <1>3, <1>4, Induct
<1>6. QED
  BY <1>1, <1>5 DEF f

\* writeDomainName() refuses a name or writes all of it, label by label.
LEMMA NameWritten ==
  ASSUME NEW name, Naming(name), NEW size \in Int
  PROVE  LET r == Names!writeDomainName(name, size) IN
           \/ r.rc < 0 /\ r.out = <<>>
           \/ /\ r.rc = Len(name) + 2 /\ Piece(Octet, r.out, Len(name) + 2) /\ Spells(r.out, 0, name)
              /\ Len(name) + 2 <= size
<1> DEFINE f == Write(name, size)
           L == Len(name)
           r == Names!writeDomainName(name, size)
<1>1. L \in Nat /\ L < 64
  BY DEF Naming
<1>3. r = LET w == f[L] IN
            IF w.rc # 0 THEN Names!Failed(w.rc) ELSE IF w.label = <<>> THEN Names!Failed(-3)
            ELSE Names!Wrote(w.out \o <<Len(w.label)>> \o w.label \o <<0>>)
  BY WriteNameIs, Zenon
<1>6. WrittenTo(f[L], name, size, L) \/ Refused(f[L])
  BY <1>1, WritesAll
<1> HIDE DEF f, r
<1>7. CASE Refused(f[L])
  <2>1. r = Names!Failed(f[L].rc) /\ f[L].rc < 0
    BY <1>3, <1>7 DEF Refused
  <2>2. QED
    BY <2>1 DEF Names!Failed, Names!Nothing, r
<1>8. CASE WrittenTo(f[L], name, size, L)
  <2>1. PICK done, d, label, e :
          /\ f[L] = [out |-> done, label |-> label, rc |-> 0] /\ Open(name, done, d, label, e)
          /\ d + e = L /\ (e # 0 => L + 1 < size)
    BY <1>8 DEF WrittenTo
  <2>2. d \in Nat /\ e \in Nat /\ Len(label) = e /\ ((label = <<>>) <=> e = 0)
    BY <2>1 DEF Open, Piece
  <2>3. f[L].rc = 0 /\ f[L].label = label /\ f[L].out = done
    BY <2>1
  <2>4. CASE e = 0
    <3>1. r = Names!Failed(-3)
      BY <1>3, <2>2, <2>3, <2>4
    <3>2. QED
      BY <3>1 DEF Names!Failed, Names!Nothing, r
  <2>5. CASE e # 0
    <3> DEFINE b == (done \o <<Len(label)>>) \o label
               z == b \o <<0>>
    <3>1. r = Names!Wrote(z)
      BY <1>3, <2>2, <2>3, <2>5
    <3>2. Piece(Octet, b, L + 1) /\ SpeltTo(b, name, L + 1)
      BY <2>1, <2>5, CloseLabel
    <3> HIDE DEF b
    <3>3. Piece(Octet, <<0>>, 1) /\ <<0>>[1] = 0
      BY DEF Piece, Octet
    <3>4. L + 1 \in Nat /\ (L + 1) + 1 = L + 2
      BY <1>1
    <3>5. Piece(Octet, z, L + 2) /\ (\A i \in 1 .. L + 1 : z[i] = b[i]) /\ z[L + 2] = 0
      <4>1. Piece(Octet, z, (L + 1) + 1) /\ Joins(z, b, L + 1, <<0>>, 1)
        BY <3>2, <3>3, <3>4, Put
      <4>2. 1 \in 1 .. 1
        OBVIOUS
      <4>3. z[(L + 1) + 1] = <<0>>[1]
        BY <4>1, <4>2, Zenon DEF Joins
      <4>4. QED
        BY <3>3, <3>4, <4>1, <4>3 DEF Joins
    <3> HIDE DEF z
    <3>6. ASSUME NEW k \in 0 .. L + 1 PROVE Spelt(name, k, z[0 + k + 1])
      <4>1. CASE k = L + 1
        <5>1. z[0 + k + 1] = 0
          BY <1>1, <3>5, <4>1
        <5>2. QED
          BY <4>1, <5>1 DEF Spelt
      <4>2. CASE k # L + 1
        <5>1. k \in 0 .. (L + 1) - 1 /\ k + 1 \in 1 .. L + 1 /\ 0 + k + 1 = k + 1
          BY <1>1, <4>2
        <5>2. z[0 + k + 1] = b[k + 1]
          BY <3>5, <5>1
        <5>3. QED
          BY <3>2, <5>1, <5>2 DEF SpeltTo
      <4>3. QED
        BY <4>1, <4>2
    <3>7. Spells(z, 0, name)
      BY <3>6 DEF Spells
    <3>8. r.out = z /\ r.rc = L + 2 /\ L + 2 <= size
      BY <1>1, <2>1, <2>5, <3>1, <3>5 DEF Names!Wrote, Piece
    <3>9. QED
      BY <3>5, <3>7, <3>8 DEF r
  <2>6. QED
    BY <2>4, <2>5
<1>9. QED
  BY <1>6, <1>7, <1>8

\* A buffer with more room takes what a smaller one took.
LEMMA MoreRoom ==
  ASSUME NEW name, Naming(name), NEW size \in Int, NEW wide \in Int, size <= wide,
         ~(Names!writeDomainName(name, size).rc < 0)
  PROVE  Names!writeDomainName(name, wide) = Names!writeDomainName(name, size)
<1> DEFINE f == Write(name, size)
           g == Write(name, wide)
           L == Len(name)
           T == {j \in Nat : j <= L => Refused(f[j]) \/ g[j] = f[j]}
<1>1. L \in Nat
  BY DEF Naming
<1>2. /\ f[0] = WriteStart /\ g[0] = WriteStart
      /\ \A k \in 1 .. L : /\ f[k] = Names!WriteChar(f[k - 1], name[k], size)
                           /\ g[k] = Names!WriteChar(g[k - 1], name[k], wide)
  BY <1>1, WriteIs, Zenon
<1>3. \A j \in 0 .. L : WrittenTo(f[j], name, size, j) \/ Refused(f[j])
  BY WritesAll
<1>4. ~Refused(f[L])
  <2> SUFFICES ASSUME Refused(f[L]) PROVE FALSE
    OBVIOUS
  <2>1. f[L].rc # 0 /\ f[L].rc < 0
    BY DEF Refused
  <2>2. Names!writeDomainName(name, size) = Names!Failed(f[L].rc)
    BY <2>1, WriteNameIs, Zenon
  <2> HIDE DEF f
  <2>3. QED
    BY <2>1, <2>2 DEF Names!Failed
<1>5. g[L] = f[L] => Names!writeDomainName(name, wide) = Names!writeDomainName(name, size)
  BY WriteNameIs, Zenon
<1> HIDE DEF f, g
<1>6. 0 \in T
  BY <1>2
<1>7. ASSUME NEW j \in Nat, j \in T PROVE j + 1 \in T
  <2> SUFFICES ASSUME j + 1 <= L PROVE Refused(f[j + 1]) \/ g[j + 1] = f[j + 1]
    OBVIOUS
  <2>1. j + 1 \in 1 .. L /\ (j + 1) - 1 = j /\ j \in 0 .. L /\ j <= L
    BY <1>1
  <2>2. /\ f[j + 1] = Names!WriteChar(f[j], name[j + 1], size)
        /\ g[j + 1] = Names!WriteChar(g[j], name[j + 1], wide)
    BY <1>2, <2>1
  <2>3. CASE Refused(f[j])
    BY <2>2, <2>3, WriteStays
  <2>4. CASE ~Refused(f[j])
    <3>1. g[j] = f[j] /\ WrittenTo(f[j], name, size, j)
      BY <1>3, <1>7, <2>1, <2>4
    <3>2. PICK done, d, label, e :
            f[j] = [out |-> done, label |-> label, rc |-> 0] /\ Open(name, done, d, label, e)
      BY <3>1 DEF WrittenTo
    <3> DEFINE c == name[j + 1]
               m == Len(done) + Len(label) + 2
    <3>3. m \in Nat
      BY <3>2 DEF Open, Piece
    <3>4. f[j].rc = 0 /\ f[j].label = label /\ f[j].out = done
      BY <3>2
    <3> HIDE DEF m, c
    <3>5. CASE c = Period
      <4> DEFINE v == IF f[j].label = <<>> THEN [f[j] EXCEPT !.rc = -2]
                      ELSE [f[j] EXCEPT !.out = @ \o <<Len(f[j].label)>> \o f[j].label, !.label = <<>>]
      <4>1. f[j + 1] = v
        BY <2>2, <3>4, <3>5, Zenon DEF Names!WriteChar, Names!Dot, Period, c
      <4>2. g[j + 1] = v
        BY <2>2, <3>1, <3>4, <3>5, Zenon DEF Names!WriteChar, Names!Dot, Period, c
      <4>3. QED
        BY <4>1, <4>2
    <3>6. CASE c # Period /\ m >= size
      <4>1. f[j + 1] = [f[j] EXCEPT !.rc = -1]
        BY <2>2, <3>4, <3>6, Zenon DEF Names!WriteChar, Names!Dot, Period, c, m
      <4>2. f[j + 1].rc = -1
        BY <3>2, <4>1
      <4>3. QED
        BY <4>2 DEF Refused
    <3>7. CASE c # Period /\ ~(m >= size)
      <4>1. ~(m >= wide)
        BY <3>3, <3>7
      <4>2. QED
        BY <2>2, <3>1, <3>4, <3>7, <4>1, Zenon DEF Names!WriteChar, Names!Dot, Period, c, m
    <3>8. QED
      BY <3>5, <3>6, <3>7
  <2>5. QED
    BY <2>3, <2>4
<1>8. Nat \subseteq T
  <2> HIDE DEF T
  <2>1. QED
    BY <1>6, <1>7, Induct
<1>9. QED
  BY <1>1, <1>4, <1>5, <1>8

-----------------------------------------------------------------------------
(* A name that was written is read.                                         *)

LEMMA Prefix ==
  ASSUME NEW name \in Seq(Char), NEW k \in 0 .. Len(name)
  PROVE  Piece(Char, SubSeq(name, 1, k), k) /\ \A i \in 1 .. k : SubSeq(name, 1, k)[i] = name[i]
BY DEF Piece

LEMMA BehindLabel ==
  ASSUME NEW name \in Seq(Char), NEW T \in Seq(Char), NEW k \in 0 .. Len(name)
  PROVE  LET z == T \o SubSeq(name, 1, k) IN
           /\ Piece(Char, z, Len(T) + k)
           /\ \A i \in 1 .. Len(T) : z[i] = T[i]
           /\ \A i \in 1 .. k : z[Len(T) + i] = name[i]
<1>1. Piece(Char, T, Len(T)) /\ Len(T) \in Nat /\ k \in Nat
  BY DEF Piece
<1>2. Piece(Char, SubSeq(name, 1, k), k) /\ \A i \in 1 .. k : SubSeq(name, 1, k)[i] = name[i]
  BY Prefix
<1>3. /\ Piece(Char, T \o SubSeq(name, 1, k), Len(T) + k)
      /\ Joins(T \o SubSeq(name, 1, k), T, Len(T), SubSeq(name, 1, k), k)
  BY <1>1, <1>2, Put
<1>4. QED
  BY <1>2, <1>3 DEF Joins

\* One character more of a name behind T, and a label more.
LEMMA OneMore ==
  ASSUME NEW name \in Seq(Char), NEW T \in Seq(Char), NEW k \in 1 .. Len(name)
  PROVE  Append(T \o SubSeq(name, 1, k - 1), name[k]) = T \o SubSeq(name, 1, k)
<1> DEFINE y == T \o SubSeq(name, 1, k - 1)
           z == T \o SubSeq(name, 1, k)
           n == Len(T)
<1>1. k - 1 \in 0 .. Len(name) /\ k \in 0 .. Len(name) /\ k \in Nat /\ n \in Nat /\ name[k] \in Char
  OBVIOUS
<1>2. Piece(Char, y, n + (k - 1)) /\ (\A i \in 1 .. n : y[i] = T[i]) /\ \A i \in 1 .. k - 1 : y[n + i] = name[i]
  BY <1>1, BehindLabel
<1>3. Piece(Char, z, n + k) /\ (\A i \in 1 .. n : z[i] = T[i]) /\ \A i \in 1 .. k : z[n + i] = name[i]
  BY <1>1, BehindLabel
<1> HIDE DEF y, z
<1> DEFINE x == Append(y, name[k])
<1>4. n + (k - 1) \in Nat /\ (n + (k - 1)) + 1 = n + k /\ n + k \in Nat
  BY <1>1
<1>5. /\ Piece(Char, x, (n + (k - 1)) + 1) /\ x[(n + (k - 1)) + 1] = name[k]
      /\ \A i \in 1 .. n + (k - 1) : x[i] = y[i]
  <2> DEFINE d == n + (k - 1)
             c == name[k]
  <2>1. d \in Nat /\ c \in Char /\ Piece(Char, y, d)
    BY <1>1, <1>2, <1>4
  <2> HIDE DEF d, c
  <2>2. Piece(Char, Append(y, c), d + 1) /\ Append(y, c)[d + 1] = c /\ \A i \in 1 .. d : Append(y, c)[i] = y[i]
    <3>1. y \in Seq(Char) /\ Len(y) = d
      BY <2>1 DEF Piece
    <3>2. Append(y, c) \in Seq(Char) /\ Len(Append(y, c)) = d + 1 /\ Append(y, c)[d + 1] = c
      BY <2>1, <3>1
    <3>3. \A i \in 1 .. d : Append(y, c)[i] = y[i]
      BY <2>1, <3>1
    <3>4. QED
      BY <3>2, <3>3 DEF Piece
  <2>3. QED
    BY <2>2 DEF d, c
<1> HIDE DEF x
<1>6. ASSUME NEW i \in 1 .. n + k PROVE x[i] = z[i]
  <2>1. CASE i <= n
    <3>1. i \in 1 .. n /\ i \in 1 .. n + (k - 1)
      BY <1>1, <2>1
    <3>2. QED
      BY <1>2, <1>3, <1>5, <3>1
  <2>2. CASE n < i /\ i < n + k
    <3>1. i - n \in 1 .. k - 1 /\ i - n \in 1 .. k /\ n + (i - n) = i /\ i \in 1 .. n + (k - 1)
      BY <1>1, <2>2
    <3>2. y[i] = name[i - n] /\ z[i] = name[i - n]
      BY <1>2, <1>3, <3>1
    <3>3. QED
      BY <1>5, <3>1, <3>2
  <2>3. CASE i = n + k
    <3>1. k \in 1 .. k
      BY <1>1
    <3>2. QED
      BY <1>3, <1>4, <1>5, <2>3, <3>1
  <2>4. QED
    BY <1>1, <2>1, <2>2, <2>3
<1>7. x = z
  BY <1>3, <1>4, <1>5, <1>6, SameSeq
<1>8. QED
  BY <1>7 DEF x, y, z

\* The r bytes of p behind a are the characters of a name behind k.
Alike(p, a, name, k, r) == \A j \in 1 .. r : p[a + j] = name[k + j]

Continues(T, name, k, p, a, r) ==
  (T \o SubSeq(name, 1, k)) \o SubSeq(p, a + 1, a + r) = T \o SubSeq(name, 1, k + r)

LEMMA LabelMore ==
  ASSUME NEW name \in Seq(Char), NEW T \in Seq(Char), NEW k \in Nat, NEW r \in Nat, k + r <= Len(name),
         NEW p \in Seq(Octet), NEW a \in Nat, a + r <= Len(p), Alike(p, a, name, k, r)
  PROVE  Continues(T, name, k, p, a, r)
<1> DEFINE y == T \o SubSeq(name, 1, k)
           u == SubSeq(p, a + 1, a + r)
           z == T \o SubSeq(name, 1, k + r)
           n == Len(T)
<1>1. k \in 0 .. Len(name) /\ k + r \in 0 .. Len(name) /\ n \in Nat
  OBVIOUS
<1>0. \A j \in 1 .. r : p[a + j] = name[k + j]
  BY DEF Alike
<1>2. Piece(Char, y, n + k) /\ (\A i \in 1 .. n : y[i] = T[i]) /\ \A i \in 1 .. k : y[n + i] = name[i]
  BY <1>1, BehindLabel
<1>3. Piece(Char, z, n + (k + r)) /\ (\A i \in 1 .. n : z[i] = T[i]) /\ \A i \in 1 .. k + r : z[n + i] = name[i]
  BY <1>1, BehindLabel
<1>4. Len(u) = r /\ \A j \in 1 .. r : u[j] = p[a + j]
  <2>1. Len(u) = r
    <3>1. CASE r = 0
      <4>1. a + 1 > a + r
        BY <3>1
      <4>2. QED
        BY <3>1, <4>1
    <3>2. CASE r # 0
      <4>1. a + 1 <= a + r /\ (a + r) - (a + 1) + 1 = r /\ 1 <= a + 1
        BY <3>2
      <4>2. Len(u) = (a + r) - (a + 1) + 1
        BY <4>1
      <4>3. QED
        BY <4>1, <4>2
    <3>3. QED
      BY <3>1, <3>2
  <2>2. ASSUME NEW j \in 1 .. r PROVE u[j] = p[a + j]
    <3>1. j \in 1 .. (a + r) - (a + 1) + 1 /\ (a + 1) + j - 1 = a + j
      OBVIOUS
    <3>2. QED
      BY <3>1
  <2>3. QED
    BY <2>1, <2>2
<1>5. Piece(Char, u, r)
  <2>1. \A j \in 1 .. r : u[j] \in Char
    <3> SUFFICES ASSUME NEW j \in 1 .. r PROVE u[j] \in Char
      OBVIOUS
    <3>1. k + j \in 1 .. Len(name)
      OBVIOUS
    <3>2. u[j] = name[k + j]
      BY <1>0, <1>4
    <3>3. QED
      BY <3>1, <3>2
  <2>2. u \in Seq(Octet)
    OBVIOUS
  <2> HIDE DEF u
  <2>3. QED
    BY <1>4, <2>1, <2>2 DEF Piece
<1> HIDE DEF y, z, u
<1>6. n + k \in Nat /\ (n + k) + r = n + (k + r) /\ n + (k + r) \in Nat
  BY <1>1
<1> DEFINE x == y \o u
<1>7. /\ Piece(Char, x, (n + k) + r) /\ (\A i \in 1 .. n + k : x[i] = y[i])
      /\ \A i \in 1 .. r : x[(n + k) + i] = u[i]
  <2>1. Piece(Char, x, (n + k) + r) /\ Joins(x, y, n + k, u, r)
    BY <1>2, <1>5, <1>6, Put
  <2>2. QED
    BY <2>1 DEF Joins
<1> HIDE DEF x
<1>8. ASSUME NEW i \in 1 .. n + (k + r) PROVE x[i] = z[i]
  <2>1. CASE i <= n
    <3>1. i \in 1 .. n /\ i \in 1 .. n + k
      BY <1>1, <2>1
    <3>2. QED
      BY <1>2, <1>3, <1>7, <3>1
  <2>2. CASE n < i /\ i <= n + k
    <3>1. i - n \in 1 .. k /\ i - n \in 1 .. k + r /\ n + (i - n) = i /\ i \in 1 .. n + k
      BY <1>1, <2>2
    <3>2. y[i] = name[i - n] /\ z[i] = name[i - n]
      BY <1>2, <1>3, <3>1
    <3>3. QED
      BY <1>7, <3>1, <3>2
  <2>3. CASE n + k < i
    <3> DEFINE j == i - (n + k)
    <3>1. j \in 1 .. r /\ (n + k) + j = i /\ k + j \in 1 .. k + r /\ n + (k + j) = i
      BY <1>1, <2>3
    <3> HIDE DEF j
    <3>2. x[i] = u[j] /\ u[j] = p[a + j] /\ z[i] = name[k + j]
      BY <1>3, <1>4, <1>7, <3>1
    <3>3. QED
      BY <1>0, <3>1, <3>2
  <2>4. QED
    BY <1>1, <2>1, <2>2, <2>3
<1>9. x = z
  BY <1>3, <1>6, <1>7, <1>8, SameSeq
<1>10. QED
  BY <1>9, Zenon DEF x, y, z, u, Continues

\* What is read goes behind T: at the first label T0 is held, which is T, or T
\* without the dot that is still to be put behind it.
Ahead(T0, first, T) ==
  /\ T \in Seq(Char)
  /\ \/ first = TRUE /\ T0 = T
     \/ first = FALSE /\ T0 \in Seq(Char) /\ Append(T0, Period) = T

\* The loop where the k-th character of a name at o would be: a label begins.
Joint(name, k) == k = 0 \/ k = Len(name) + 1 \/ name[k] = Period
Come(o, T0, first, T, back, name, k) ==
  Reading(o + k, IF k = 0 THEN T0 ELSE T \o SubSeq(name, 1, k - 1), IF k = 0 THEN first ELSE FALSE, back)

\* It returns behind the name, or behind the first pointer: at an error, if
\* the packet ends before the name does.
NameEnd(back, e) == IF back = -1 THEN e ELSE back
ReadTo(v, p, text, back, e) ==
  \/ v.rc = -1 /\ Len(p) < e
  \/ v.rc = NameEnd(back, e) /\ v.text = text /\ e <= Len(p)

\* The buffer for the name has room, or there is none.
Roomy(size, n) == size = -1 \/ n <= size

LEMMA ReadsLabel ==
  ASSUME NEW name, Naming(name), NEW p \in Seq(Octet), NEW o \in Nat, Spells(p, o, name),
         NEW T0, NEW first, NEW T, Ahead(T0, first, T), NEW back \in Nat \cup {-1},
         NEW size \in Int, Roomy(size, Len(T) + Len(name) + 1),
         NEW k \in 0 .. Len(name) + 1, Joint(name, k)
  PROVE  LET v == Names!ReadLabel(p, Come(o, T0, first, T, back, name, k), size) IN
           \/ ReadTo(v, p, T \o name, back, o + Len(name) + 2)
           \/ \E m \in k + 1 .. Len(name) + 1 :
                Joint(name, m) /\ o + m < Len(p) /\ v = Come(o, T0, first, T, back, name, m)
<1> DEFINE L == Len(name)
           N == Len(p)
           s == Come(o, T0, first, T, back, name, k)
           v == Names!ReadLabel(p, s, size)
           len == Names!At(p, s.i)
           dotted == IF s.first THEN s.text ELSE Append(s.text, Period)
           end == s.i + 1 + len
           full(text, n) == size # -1 /\ Len(text) + n > size
           to == (len % 64) * 256 + Names!At(p, s.i + 1)
           before == IF k = 0 THEN T0 ELSE T \o SubSeq(name, 1, k - 1)
<1>1. L \in Nat /\ L < 64 /\ N \in Nat /\ name \in Seq(Char) /\ k \in Nat /\ k <= L + 1 /\ T \in Seq(Char)
  BY DEF Naming, Ahead
<1>2. /\ s.rc = Names!Going /\ s.i = o + k /\ s.text = before
      /\ s.first = (IF k = 0 THEN first ELSE FALSE) /\ s.back = back
      /\ s = [i |-> o + k, text |-> before, first |-> IF k = 0 THEN first ELSE FALSE,
              back |-> back, rc |-> Names!Going]
  BY DEF Come, Reading
<1>3. v = IF len = -1 THEN [s EXCEPT !.rc = -1]
          ELSE IF len = 0
          THEN [s EXCEPT !.rc = IF full(s.text, 1) THEN -2
                                ELSE IF s.back = -1 THEN end ELSE s.back]
          ELSE IF ~s.first /\ full(s.text, 1) THEN [s EXCEPT !.rc = -2]
          ELSE IF len >= 192
          THEN IF s.i + 1 = Len(p) THEN [s EXCEPT !.rc = -1]
               ELSE IF to >= Len(p) THEN [s EXCEPT !.rc = -3]
               ELSE [s EXCEPT !.i = to, !.text = dotted, !.first = TRUE, !.back = Names!AfterPointer(s)]
          ELSE IF end >= Len(p) THEN [s EXCEPT !.rc = -1]
          ELSE IF full(dotted, len + 1) THEN [s EXCEPT !.rc = -2]
          ELSE [s EXCEPT !.i = end, !.text = dotted \o SubSeq(p, s.i + 2, end), !.first = FALSE]
  BY <1>2, Zenon DEF Names!ReadLabel, Names!Outside, Names!Dot, Names!Skip, Names!Nowhere, Period
<1> HIDE DEF s, v, before
<1>4. /\ Len(before) \in Nat /\ (k > 0 => Len(before) = Len(T) + (k - 1)) /\ Len(before) <= Len(T) + L
      /\ Len(T) \in Nat
  <2>1. CASE k = 0
    <3>1. before = T0
      BY <2>1 DEF before
    <3>2. T0 \in Seq(Char) /\ Len(T0) <= Len(T)
      BY <1>1 DEF Ahead
    <3>3. QED
      BY <1>1, <2>1, <3>1, <3>2
  <2>2. CASE k # 0
    <3>1. k - 1 \in 0 .. L /\ before = T \o SubSeq(name, 1, k - 1)
      BY <1>1, <2>2, SMTT(20) DEF before
    <3>2. Piece(Char, before, Len(T) + (k - 1))
      BY <1>1, <3>1, BehindLabel
    <3>3. QED
      BY <1>1, <2>2, <3>1, <3>2 DEF Piece
  <2>3. QED
    BY <2>1, <2>2
<1>5. CASE o + k >= N
  <2>1. len = -1
    BY <1>2, <1>5 DEF Names!At, Names!Outside
  <2>2. v.rc = -1
    BY <1>2, <1>3, <2>1
  <2>3. N < o + L + 2
    BY <1>1, <1>5
  <2>4. QED
    BY <2>2, <2>3 DEF ReadTo, v, s
<1>6. CASE o + k < N /\ k = L + 1
  <2>1. len = 0
    <3>1. Spelt(name, k, p[o + k + 1])
      BY <1>1, <1>6 DEF Spells
    <3>2. QED
      BY <1>2, <1>6, <3>1 DEF Spelt, Names!At
  <2>2. before = T \o name
    <3>1. SubSeq(name, 1, L) = name
      BY <1>1
    <3>2. k # 0 /\ k - 1 = L
      BY <1>1, <1>6
    <3>3. QED
      BY <3>1, <3>2 DEF before
  <2>3. ~full(s.text, 1)
    <3>1. Len(before) = Len(T) + L
      BY <1>1, <1>4, <1>6
    <3>2. QED
      BY <1>1, <1>2, <1>4, <3>1 DEF Roomy
  <2>4. end = o + L + 2
    BY <1>1, <1>2, <1>6, <2>1
  <2>5. v = [s EXCEPT !.rc = IF s.back = -1 THEN end ELSE s.back]
    BY <1>3, <2>1, <2>3
  <2>6. v.rc = NameEnd(back, o + L + 2) /\ v.text = T \o name
    BY <1>2, <2>2, <2>4, <2>5 DEF NameEnd
  <2>7. o + L + 2 <= N
    BY <1>1, <1>6
  <2>8. QED
    BY <2>6, <2>7 DEF ReadTo, v, s
<1>7. CASE o + k < N /\ k # L + 1
  <2> DEFINE r == p[o + k + 1]
  <2>1. len = r /\ LabelAt(name, k, r)
    <3>1. Spelt(name, k, p[o + k + 1])
      BY <1>1, <1>7 DEF Spells
    <3>2. k = 0 \/ name[k] = Period
      BY <1>7 DEF Joint
    <3>3. QED
      BY <1>2, <1>7, <3>1, <3>2 DEF Spelt, Names!At
  <2> HIDE DEF r, len
  <2>2. /\ r \in Nat /\ 0 < r /\ k + r <= L /\ (k + r = L \/ name[k + r + 1] = Period)
        /\ \A j \in k + 1 .. k + r : name[j] # Period
    BY <2>1 DEF LabelAt
  <2>3. len # -1 /\ len # 0 /\ ~(len >= 192)
    BY <1>1, <2>1, <2>2
  <2>4. ~(~s.first /\ full(s.text, 1))
    <3>1. CASE k = 0
      <4>1. before = T0 /\ s.first = first
        BY <1>2, <3>1 DEF before
      <4>2. first = TRUE \/ Len(T0) + 1 <= Len(T) + L + 1
        BY <1>1, <1>4, <3>1, <4>1
      <4>3. QED
        BY <1>1, <1>2, <1>4, <4>1, <4>2 DEF Roomy
    <3>2. CASE k # 0
      <4>1. Len(before) + 1 <= Len(T) + L + 1
        BY <1>1, <1>4, <2>2, <3>2
      <4>2. QED
        BY <1>2, <1>4, <1>1, <4>1 DEF Roomy
    <3>3. QED
      BY <3>1, <3>2
  <2>5. dotted = T \o SubSeq(name, 1, k)
    <3>1. CASE k = 0
      <4>1. SubSeq(name, 1, k) = <<>>
        BY <1>1, <3>1
      <4>2. T \o <<>> = T
        BY <1>1
      <4>3. dotted = T
        BY <1>2, <3>1 DEF before, Ahead
      <4>4. QED
        BY <4>1, <4>2, <4>3
    <3>2. CASE k # 0
      <4>1. k \in 1 .. L /\ name[k] = Period /\ ~s.first
        BY <1>1, <1>2, <1>7, <3>2 DEF Joint
      <4>2. Append(T \o SubSeq(name, 1, k - 1), name[k]) = T \o SubSeq(name, 1, k)
        BY <1>1, <4>1, OneMore
      <4>3. QED
        BY <1>2, <3>2, <4>1, <4>2 DEF before
    <3>3. QED
      BY <3>1, <3>2
  <2>6. Len(dotted) = Len(T) + k
    <3>1. k \in 0 .. L
      BY <1>1, <1>7
    <3>2. Piece(Char, T \o SubSeq(name, 1, k), Len(T) + k)
      BY <1>1, <3>1, BehindLabel
    <3>3. QED
      BY <2>5, <3>2 DEF Piece
  <2>7. end = o + k + 1 + r
    BY <1>2, <2>1
  <2> HIDE DEF dotted, end
  <2>8. CASE end >= N
    <3>1. v.rc = -1
      BY <1>2, <1>3, <2>3, <2>4, <2>8
    <3>2. N < o + L + 2
      BY <1>1, <2>2, <2>7, <2>8
    <3>3. QED
      BY <3>1, <3>2 DEF ReadTo, v, s
  <2>9. CASE ~(end >= N)
    <3> DEFINE a == o + k + 1
               m == k + r + 1
    <3>1. ~full(dotted, len + 1)
      BY <1>1, <1>4, <2>1, <2>2, <2>6 DEF Roomy
    <3>2. v = [s EXCEPT !.i = end, !.text = dotted \o SubSeq(p, s.i + 2, end), !.first = FALSE]
      BY <1>3, <2>3, <2>4, <2>9, <3>1
    <3>3. /\ a \in Nat /\ a + r = end /\ a + 1 = s.i + 2 /\ a + r <= N
          /\ m \in k + 1 .. L + 1 /\ m # 0 /\ m - 1 = k + r /\ o + m = end /\ o + m < N
      BY <1>1, <1>2, <2>2, <2>7, <2>9
    <3>4. ASSUME NEW j \in 1 .. r PROVE p[a + j] = name[k + j]
      <4>1. k + j \in k + 1 .. k + r /\ k + j \in 0 .. L + 1 /\ k + j # L + 1 /\ k + j # 0
            /\ o + (k + j) < N /\ o + (k + j) + 1 = a + j
        BY <1>1, <2>2, <2>7, <2>9
      <4>2. Spelt(name, k + j, p[o + (k + j) + 1]) /\ name[k + j] # Period
        BY <2>2, <4>1 DEF Spells
      <4>3. QED
        BY <4>1, <4>2 DEF Spelt
    <3>5. dotted \o SubSeq(p, s.i + 2, end) = T \o SubSeq(name, 1, m - 1)
      <4>1. Alike(p, a, name, k, r)
        BY <3>4 DEF Alike
      <4>2. a \in Nat /\ a + r <= Len(p) /\ k + r <= Len(name) /\ r \in Nat /\ k \in Nat
        BY <1>1, <2>2, <3>3
      <4>3. s.i + 2 = a + 1 /\ end = a + r /\ m - 1 = k + r
        BY <3>3
      <4> HIDE DEF a, m
      <4>4. Continues(T, name, k, p, a, r)
        BY <1>1, <4>1, <4>2, LabelMore
      <4>5. QED
        BY <2>5, <4>3, <4>4, Zenon DEF Continues
    <3>6. Joint(name, m)
      BY <2>2, <3>3 DEF Joint
    <3>7. v = Come(o, T0, first, T, back, name, m)
      <4> DEFINE u == dotted \o SubSeq(p, s.i + 2, end)
      <4>1. v = [i |-> end, text |-> u, first |-> FALSE, back |-> back, rc |-> Names!Going]
        BY <1>2, <3>2
      <4>2. u = T \o SubSeq(name, 1, m - 1)
        BY <3>5
      <4> HIDE DEF u, m
      <4>3. QED
        BY <3>3, <4>1, <4>2 DEF Come, Reading
    <3>8. QED
      BY <3>3, <3>6, <3>7 DEF v, s
  <2>10. QED
    BY <1>1, <1>2, <2>2, <2>7, <2>8, <2>9
<1>8. QED
  BY <1>1, <1>5, <1>6, <1>7

\* The loop of parseDomainName() over the packet p.
Turning(f, p, size) == \A t \in 1 .. Len(p) : f[t] = Names!ReadLabel(p, f[t - 1], size)

\* What was returned stays.
LEMMA Returned ==
  ASSUME NEW p \in Seq(Octet), NEW size, NEW f, Turning(f, p, size), NEW a \in 0 .. Len(p),
         f[a].rc # Names!Going
  PROVE  \A t \in a .. Len(p) : f[t] = f[a]
<1> DEFINE T == {j \in Nat : a + j <= Len(p) => f[a + j] = f[a]}
<1>1. 0 \in T
  OBVIOUS
<1>2. ASSUME NEW j \in Nat, j \in T PROVE j + 1 \in T
  <2> SUFFICES ASSUME a + (j + 1) <= Len(p) PROVE f[a + (j + 1)] = f[a]
    OBVIOUS
  <2>1. a + (j + 1) \in 1 .. Len(p) /\ (a + (j + 1)) - 1 = a + j /\ a + j <= Len(p)
    OBVIOUS
  <2>2. f[a + (j + 1)] = Names!ReadLabel(p, f[a + j], size) /\ f[a + j] = f[a]
    BY <1>2, <2>1 DEF Turning
  <2>3. QED
    BY <2>2, Zenon DEF Names!ReadLabel
<1>3. Nat \subseteq T
  <2> HIDE DEF T
  <2>1. QED
    BY <1>1, <1>2, Induct
<1>4. ASSUME NEW t \in a .. Len(p) PROVE f[t] = f[a]
  <2>1. t - a \in Nat /\ a + (t - a) = t /\ t <= Len(p)
    OBVIOUS
  <2>2. t - a \in T
    BY <1>3, <2>1
  <2>3. QED
    BY <2>1, <2>2
<1>5. QED
  BY <1>4

\* From where a name begins, the loop reads it, or to where the packet ends.
LEMMA ReadsName ==
  ASSUME NEW name, Naming(name), NEW p \in Seq(Octet), NEW o \in Nat, Spells(p, o, name),
         NEW T0, NEW first, NEW T, Ahead(T0, first, T), NEW back \in Nat \cup {-1},
         NEW size \in Int, Roomy(size, Len(T) + Len(name) + 1),
         NEW f, Turning(f, p, size), NEW a \in 0 .. Len(p), f[a] = Reading(o, T0, first, back)
  PROVE  \A t \in a .. Len(p) :
           \/ ReadTo(f[t], p, T \o name, back, o + Len(name) + 2)
           \/ \E k \in t - a .. Len(name) + 1 :
                Joint(name, k) /\ (k = 0 \/ o + k < Len(p)) /\ f[t] = Come(o, T0, first, T, back, name, k)
<1> DEFINE e == o + Len(name) + 2
           Ready(t) == ReadTo(f[t], p, T \o name, back, e)
           Under(t, j) == \E k \in j .. Len(name) + 1 :
                            Joint(name, k) /\ (k = 0 \/ o + k < Len(p)) /\ f[t] = Come(o, T0, first, T, back, name, k)
           S == {j \in Nat : a + j <= Len(p) => Ready(a + j) \/ Under(a + j, j)}
<1>1. Len(name) \in Nat /\ Len(p) \in Nat /\ e \in Nat /\ 0 < e
  BY DEF Naming
<1>2. 0 \in S
  <2>1. f[a + 0] = Come(o, T0, first, T, back, name, 0) /\ Joint(name, 0)
    BY DEF Come, Joint
  <2>2. 0 \in 0 .. Len(name) + 1
    BY <1>1
  <2>3. QED
    BY <2>1, <2>2
<1>3. ASSUME NEW j \in Nat, j \in S PROVE j + 1 \in S
  <2> SUFFICES ASSUME a + (j + 1) <= Len(p) PROVE Ready(a + (j + 1)) \/ Under(a + (j + 1), j + 1)
    OBVIOUS
  <2>1. a + (j + 1) \in 1 .. Len(p) /\ (a + (j + 1)) - 1 = a + j /\ a + j <= Len(p)
        /\ a + j \in 0 .. Len(p) /\ a + (j + 1) \in a + j .. Len(p)
    BY <1>1
  <2>2. f[a + (j + 1)] = Names!ReadLabel(p, f[a + j], size)
    BY <2>1 DEF Turning
  <2>3. CASE Ready(a + j)
    <3>1. f[a + j].rc # Names!Going
      <4>1. f[a + j].rc = -1 \/ f[a + j].rc = NameEnd(back, e)
        BY <2>3, Zenon DEF ReadTo
      <4>2. NameEnd(back, e) \in Nat
        BY <1>1 DEF NameEnd
      <4>3. \A v : v = -1 \/ v \in Nat => v # Names!Going
        BY DEF Names!Going
      <4>4. QED
        BY <4>1, <4>2, <4>3, Zenon
    <3>2. f[a + (j + 1)] = f[a + j]
      BY <2>1, <3>1, Returned
    <3>3. QED
      BY <2>3, <3>2
  <2>4. CASE Under(a + j, j)
    <3>1. PICK k \in j .. Len(name) + 1 :
            Joint(name, k) /\ (k = 0 \/ o + k < Len(p)) /\ f[a + j] = Come(o, T0, first, T, back, name, k)
      BY <2>4
    <3>2. k \in 0 .. Len(name) + 1
      BY <1>1, <3>1
    <3>3. \/ ReadTo(f[a + (j + 1)], p, T \o name, back, e)
          \/ \E m \in k + 1 .. Len(name) + 1 :
               Joint(name, m) /\ o + m < Len(p) /\ f[a + (j + 1)] = Come(o, T0, first, T, back, name, m)
      BY <2>2, <3>1, <3>2, ReadsLabel
    <3>4. \A m \in k + 1 .. Len(name) + 1 : m \in j + 1 .. Len(name) + 1
      BY <1>1, <3>1
    <3>5. QED
      BY <3>3, <3>4
  <2>5. QED
    BY <1>3, <2>1, <2>3, <2>4
<1>4. Nat \subseteq S
  <2> HIDE DEF S
  <2>1. QED
    BY <1>2, <1>3, Induct
<1>5. ASSUME NEW t \in a .. Len(p) PROVE Ready(t) \/ Under(t, t - a)
  <2>1. t - a \in Nat /\ a + (t - a) = t /\ t <= Len(p)
    BY <1>1
  <2>2. t - a \in S
    BY <1>4, <2>1
  <2>3. QED
    BY <2>1, <2>2
<1>6. QED
  BY <1>5

\* The whole loop: as long as the packet is not read to its end, there are turns.
LEMMA LoopReadsName ==
  ASSUME NEW name, Naming(name), NEW p \in Seq(Octet), NEW o \in Nat, Spells(p, o, name),
         NEW T0, NEW first, NEW T, Ahead(T0, first, T), NEW back \in Nat \cup {-1},
         NEW size \in Int, Roomy(size, Len(T) + Len(name) + 1),
         NEW f, Turning(f, p, size), NEW a \in Nat, a < Len(p), a <= o,
         f[a] = Reading(o, T0, first, back)
  PROVE  ReadTo(f[Len(p)], p, T \o name, back, o + Len(name) + 2)
<1> DEFINE N == Len(p)
<1>1. N \in Nat /\ N \in a .. Len(p) /\ a \in 0 .. Len(p)
  OBVIOUS
<1>2. \/ ReadTo(f[N], p, T \o name, back, o + Len(name) + 2)
      \/ \E k \in N - a .. Len(name) + 1 :
           Joint(name, k) /\ (k = 0 \/ o + k < Len(p)) /\ f[N] = Come(o, T0, first, T, back, name, k)
  BY <1>1, ReadsName
<1>3. ASSUME NEW k \in N - a .. Len(name) + 1, k = 0 \/ o + k < Len(p) PROVE FALSE
  <2>1. Len(name) \in Nat
    BY DEF Naming
  <2>2. QED
    BY <1>1, <1>3, <2>1
<1>4. QED
  BY <1>2, <1>3

-----------------------------------------------------------------------------
(* What the parsers pass over in a packet that may be cut: of a byte behind  *)
(* its end nothing is said.                                                  *)

\* The question, for a name.
QuestionIn(p, name) ==
  p \in Seq(Octet) /\ Spells(p, 12, name) /\ (Len(p) >= 6 => p[5] = 0 /\ p[6] = 1)

\* The owner of the record at o: the name in m bytes, in full or as a pointer.
PointerAt(p, o) == (o < Len(p) => p[o + 1] = 192) /\ (o + 1 < Len(p) => p[o + 2] = 12)
OwnerIn(p, o, name, m) ==
  \/ m = 2 /\ PointerAt(p, o)
  \/ m = Len(name) + 2 /\ Spells(p, o, name)

Followed(v, p, o, T) ==
  \/ o + 1 = Len(p) /\ v.rc = -1
  \/ o + 1 < Len(p) /\ v = Reading(12, T, TRUE, o + 2)

\* The loop of parseDomainName() at a pointer to the question's name.
LEMMA FollowsPointer ==
  ASSUME NEW p \in Seq(Octet), NEW o \in Nat, o < Len(p), 12 < Len(p), PointerAt(p, o),
         NEW T0, NEW first, NEW T, Ahead(T0, first, T), NEW size \in Int, Roomy(size, Len(T))
  PROVE  Followed(Names!ReadLabel(p, Reading(o, T0, first, -1), size), p, o, T)
<1> DEFINE N == Len(p)
           s == Reading(o, T0, first, -1)
           v == Names!ReadLabel(p, s, size)
           len == Names!At(p, s.i)
           dotted == IF s.first THEN s.text ELSE Append(s.text, Period)
           end == s.i + 1 + len
           full(text, n) == size # -1 /\ Len(text) + n > size
           to == (len % 64) * 256 + Names!At(p, s.i + 1)
<1>1. N \in Nat /\ T \in Seq(Char) /\ Len(T) \in Nat
  BY DEF Ahead
<1>2. /\ s.rc = Names!Going /\ s.i = o /\ s.text = T0 /\ s.first = first /\ s.back = -1
      /\ s = [i |-> o, text |-> T0, first |-> first, back |-> -1, rc |-> Names!Going]
  BY DEF Reading
<1>3. v = IF len = -1 THEN [s EXCEPT !.rc = -1]
          ELSE IF len = 0
          THEN [s EXCEPT !.rc = IF full(s.text, 1) THEN -2
                                ELSE IF s.back = -1 THEN end ELSE s.back]
          ELSE IF ~s.first /\ full(s.text, 1) THEN [s EXCEPT !.rc = -2]
          ELSE IF len >= 192
          THEN IF s.i + 1 = Len(p) THEN [s EXCEPT !.rc = -1]
               ELSE IF to >= Len(p) THEN [s EXCEPT !.rc = -3]
               ELSE [s EXCEPT !.i = to, !.text = dotted, !.first = TRUE, !.back = Names!AfterPointer(s)]
          ELSE IF end >= Len(p) THEN [s EXCEPT !.rc = -1]
          ELSE IF full(dotted, len + 1) THEN [s EXCEPT !.rc = -2]
          ELSE [s EXCEPT !.i = end, !.text = dotted \o SubSeq(p, s.i + 2, end), !.first = FALSE]
  BY <1>2, Zenon DEF Names!ReadLabel, Names!Outside, Names!Dot, Names!Skip, Names!Nowhere, Period
<1>4. Names!AfterPointer(s) = o + 2
  BY <1>2 DEF Names!AfterPointer, Names!Nowhere
<1>5. dotted = T
  BY <1>2 DEF Ahead
<1>6. ~(~s.first /\ full(s.text, 1))
  BY <1>1, <1>2 DEF Ahead, Roomy
<1>7. len = 192
  BY <1>2 DEF Names!At, PointerAt
<1> HIDE DEF s, v, dotted
<1>8. CASE o + 1 = N
  <2>1. v = [s EXCEPT !.rc = -1]
    BY <1>2, <1>3, <1>6, <1>7, <1>8
  <2>2. QED
    BY <1>2, <1>8, <2>1 DEF v, s, Followed
<1>9. CASE o + 1 # N
  <2>1. o + 1 < N
    BY <1>1, <1>9
  <2>2. to = 12
    BY <1>2, <1>7, <2>1 DEF Names!At, PointerAt
  <2>3. v = [s EXCEPT !.i = to, !.text = dotted, !.first = TRUE, !.back = Names!AfterPointer(s)]
    BY <1>1, <1>2, <1>3, <1>6, <1>7, <1>9, <2>2
  <2>4. v = Reading(12, T, TRUE, o + 2)
    BY <1>2, <1>4, <1>5, <2>2, <2>3, ZenonT(40) DEF Reading
  <2>5. QED
    BY <2>1, <2>4 DEF v, s, Followed
<1>10. QED
  BY <1>8, <1>9

\* The name was read to the byte e, or the packet ends before.
NameHas(v, p, text, e) ==
  \/ Len(p) < e /\ v.rc = -1
  \/ e <= Len(p) /\ v.rc = e /\ v.text = text

\* The name at o behind what was read, in either form.
LEMMA ReadsOwner ==
  ASSUME NEW name, Naming(name), NEW p, QuestionIn(p, name), NEW o \in Nat, o >= Len(name) + 14,
         o < Len(p), NEW m, OwnerIn(p, o, name, m), NEW T0, NEW first, NEW T, Ahead(T0, first, T),
         NEW size \in Int, Roomy(size, Len(T) + Len(name) + 1), NEW f, Turning(f, p, size),
         NEW a \in Nat, a < 12, f[a] = Reading(o, T0, first, -1)
  PROVE  NameHas(f[Len(p)], p, T \o name, o + m)
<1> DEFINE L == Len(name)
           N == Len(p)
           v == f[N]
           text == T \o name
<1>1. L \in Nat /\ p \in Seq(Octet) /\ N \in Nat /\ Spells(p, 12, name) /\ 14 < N /\ T \in Seq(Char)
      /\ Len(T) \in Nat
  BY DEF Naming, QuestionIn, Ahead
<1>2. CASE m = L + 2 /\ Spells(p, o, name)
  <2>1. a < N /\ a <= o /\ -1 \in Nat \cup {-1}
    BY <1>1
  <2>2. ReadTo(v, p, T \o name, -1, o + L + 2)
    BY <1>1, <1>2, <2>1, LoopReadsName
  <2> HIDE DEF v, text
  <2>3. o + L + 2 = o + m
    BY <1>1, <1>2
  <2>4. QED
    <3>1. ReadTo(v, p, text, -1, o + L + 2)
      BY <2>2 DEF text
    <3>2. NameHas(v, p, text, o + m)
      BY <1>1, <2>3, <3>1 DEF ReadTo, NameEnd, NameHas
    <3>3. QED
      BY <3>2 DEF v, text
<1>3. CASE m = 2 /\ PointerAt(p, o)
  <2> DEFINE u == f[a + 1]
  <2>1. a + 1 \in 1 .. N /\ (a + 1) - 1 = a /\ a + 1 \in 0 .. N /\ 12 < N
    BY <1>1
  <2>2. u = Names!ReadLabel(p, Reading(o, T0, first, -1), size)
    BY <2>1 DEF Turning
  <2>3. Roomy(size, Len(T))
    BY <1>1 DEF Roomy
  <2>4. Followed(u, p, o, T)
    BY <1>1, <1>3, <2>1, <2>2, <2>3, FollowsPointer
  <2>5. CASE o + 1 = N /\ u.rc = -1
    <3>1. u.rc # Names!Going
      BY <2>5 DEF Names!Going
    <3>2. N \in a + 1 .. N
      BY <2>1
    <3>3. v = u
      BY <1>1, <2>1, <3>1, <3>2, Returned
    <3>4. N < o + m /\ u.rc = -1
      BY <1>1, <1>3, <2>5
    <3>5. QED
      BY <3>3, <3>4 DEF NameHas
  <2>6. CASE o + 1 < N /\ u = Reading(12, T, TRUE, o + 2)
    <3>1. Ahead(T, TRUE, T)
      BY <1>1 DEF Ahead
    <3>2. a + 1 < N /\ a + 1 <= 12 /\ a + 1 \in Nat /\ o + 2 \in Nat \cup {-1} /\ 12 \in Nat
      BY <1>1
    <3>3. ReadTo(v, p, T \o name, o + 2, 12 + L + 2)
      BY <1>1, <2>6, <3>1, <3>2, LoopReadsName
    <3> HIDE DEF v, text
    <3>4. ~(N < 12 + L + 2) /\ o + 2 # -1
      BY <1>1
    <3>5. ReadTo(v, p, text, o + 2, 12 + L + 2)
      BY <3>3 DEF text
    <3>6. v.rc = o + 2 /\ v.text = text
      BY <3>4, <3>5 DEF ReadTo, NameEnd
    <3>7. o + m <= N /\ o + 2 = o + m
      BY <1>1, <1>3, <2>6
    <3>8. NameHas(v, p, text, o + m)
      BY <3>6, <3>7 DEF NameHas
    <3>9. QED
      BY <3>8 DEF v, text
  <2>7. QED
    BY <2>4, <2>5, <2>6 DEF Followed
<1>4. QED
  BY <1>2, <1>3 DEF OwnerIn

\* parseDomainName() at o.
LEMMA ParsesOwner ==
  ASSUME NEW name, Naming(name), NEW p, QuestionIn(p, name), NEW o \in Nat, o >= Len(name) + 14,
         o < Len(p), NEW m, OwnerIn(p, o, name, m), NEW size \in Int, Roomy(size, Len(name) + 1)
  PROVE  LET v == Names!parseDomainName(p, o, size) IN
           (Len(p) < o + m /\ v.rc = -1) \/ (o + m <= Len(p) /\ v.rc = o + m)
<1> DEFINE f == NameRead(p, o, size)
<1>1. Len(p) \in Nat /\ Len(name) \in Nat
  BY DEF QuestionIn, Naming
<1>2. f[0] = Reading(o, <<>>, TRUE, -1) /\ Turning(f, p, size)
  BY <1>1, ReadIs, Zenon DEF Turning
<1>3. Names!parseDomainName(p, o, size) = f[Len(p)]
  BY ParseNameIs
<1> HIDE DEF f
<1>4. Ahead(<<>>, TRUE, <<>>)
  BY DEF Ahead
<1>5. Roomy(size, Len(<<>>) + Len(name) + 1)
  BY <1>1 DEF Roomy
<1>6. 0 < 12 /\ 0 \in Nat
  OBVIOUS
<1>7. NameHas(f[Len(p)], p, <<>> \o name, o + m)
  BY <1>2, <1>4, <1>5, <1>6, ReadsOwner
<1>8. QED
  BY <1>3, <1>7 DEF NameHas

\* parseDomainName() at the question.
LEMMA ParsesAsked ==
  ASSUME NEW name, Naming(name), NEW p \in Seq(Octet), Spells(p, 12, name), 0 < Len(p),
         NEW size \in Int, Roomy(size, Len(name) + 1)
  PROVE  ReadTo(Names!parseDomainName(p, 12, size), p, name, -1, Len(name) + 14)
<1> DEFINE f == NameRead(p, 12, size)
<1>1. Len(p) \in Nat /\ Len(name) \in Nat /\ name \in Seq(Char)
  BY DEF Naming
<1>2. f[0] = Reading(12, <<>>, TRUE, -1) /\ Turning(f, p, size)
  BY <1>1, ReadIs, Zenon DEF Turning
<1>3. Names!parseDomainName(p, 12, size) = f[Len(p)]
  BY ParseNameIs
<1> HIDE DEF f
<1>4. Ahead(<<>>, TRUE, <<>>)
  BY DEF Ahead
<1>5. Roomy(size, Len(<<>>) + Len(name) + 1)
  BY <1>1 DEF Roomy
<1>6. 0 <= 12 /\ 0 \in Nat /\ 12 \in Nat /\ -1 \in Nat \cup {-1}
  OBVIOUS
<1>7. ReadTo(f[Len(p)], p, <<>> \o name, -1, 12 + Len(name) + 2)
  BY <1>1, <1>2, <1>4, <1>5, <1>6, LoopReadsName
<1>8. <<>> \o name = name /\ 12 + Len(name) + 2 = Len(name) + 14
  BY <1>1
<1>9. QED
  BY <1>3, <1>7, <1>8

\* The loop over the questions, of which there is one.
Behind12(p, q) ==
  IF q < 0 THEN q ELSE Names!QuestionEnd(p, Names!parseDomainName(p, q, 65).rc)
Skips(p, n, f) == f = [q \in 0 .. n |-> IF q = 0 THEN 12 ELSE Behind12(p, f[q - 1])]
Skipped(p) == CHOOSE f : Skips(p, Names!AtU16(p, 4), f)

LEMMA SkipIs ==
  ASSUME NEW p
  PROVE  Names!skipQuestions(p) = IF Len(p) < 12 THEN -1 ELSE Skipped(p)[Names!AtU16(p, 4)]
BY Zenon DEF Names!skipQuestions, Skipped, Skips, Behind12

LEMMA SkipsOne ==
  ASSUME NEW p, Names!AtU16(p, 4) = 1
  PROVE  Skipped(p)[1] = Behind12(p, 12)
<1> DEFINE g == [q \in 0 .. 1 |-> IF q = 0 THEN 12 ELSE Behind12(p, 12)]
<1>1. g[0] = 12 /\ g[1] = Behind12(p, 12)
  OBVIOUS
<1>2. ASSUME NEW q \in 0 .. 1 PROVE g[q] = IF q = 0 THEN 12 ELSE Behind12(p, g[q - 1])
  <2>1. CASE q = 0
    BY <1>1, <2>1
  <2>2. CASE q = 1
    <3>1. q - 1 = 0
      BY <2>2
    <3>2. QED
      BY <1>1, <2>2, <3>1
  <2>3. QED
    BY <2>1, <2>2
<1>3. Skips(p, 1, g)
  <2> DEFINE h == [q \in 0 .. 1 |-> IF q = 0 THEN 12 ELSE Behind12(p, g[q - 1])]
  <2>1. \A q \in 0 .. 1 : g[q] = h[q]
    BY <1>2
  <2>2. g = h
    BY <2>1
  <2>3. QED
    BY <2>2 DEF Skips
<1>4. Skips(p, 1, Skipped(p))
  BY <1>3, Zenon DEF Skipped
<1> DEFINE f == Skipped(p)
<1>5. f = [q \in 0 .. 1 |-> IF q = 0 THEN 12 ELSE Behind12(p, f[q - 1])]
  BY <1>4, Zenon DEF Skips
<1> HIDE DEF f
<1>6. 0 \in 0 .. 1 /\ 1 \in 0 .. 1 /\ 1 - 1 = 0 /\ 1 # 0
  OBVIOUS
<1>7. f[0] = 12 /\ f[1] = Behind12(p, f[0])
  <2>1. \A q \in 0 .. 1 : f[q] = IF q = 0 THEN 12 ELSE Behind12(p, f[q - 1])
    BY <1>5, Zenon
  <2>2. QED
    BY <1>6, <2>1
<1>8. QED
  BY <1>7 DEF f

\* A question that something follows is passed over.
LEMMA SkipsQuestion ==
  ASSUME NEW name, Naming(name), NEW p, QuestionIn(p, name)
  PROVE  IF Len(name) + 18 < Len(p) THEN Names!skipQuestions(p) = Len(name) + 18
         ELSE Names!skipQuestions(p) = -1
<1> DEFINE L == Len(name)
           N == Len(p)
<1>1. L \in Nat /\ L < 64 /\ p \in Seq(Octet) /\ N \in Nat /\ Spells(p, 12, name)
      /\ (N >= 6 => p[5] = 0 /\ p[6] = 1)
  BY DEF Naming, QuestionIn
<1>2. CASE N < 12
  <2>1. Names!skipQuestions(p) = -1
    BY <1>2, SkipIs
  <2>2. QED
    BY <1>1, <1>2, <2>1
<1>3. CASE ~(N < 12)
  <2>1. Names!AtU16(p, 4) = 1
    BY <1>1, <1>3 DEF Names!AtU16
  <2> DEFINE r == Names!parseDomainName(p, 12, 65)
             s == Names!skipQuestions(p)
  <2>2. s = Behind12(p, 12)
    BY <1>3, <2>1, SkipIs, SkipsOne
  <2>3. s = Names!QuestionEnd(p, r.rc)
    BY <2>2 DEF Behind12
  <2>4. ReadTo(r, p, name, -1, L + 14)
    <3>1. Roomy(65, L + 1) /\ 0 < N /\ 65 \in Int
      BY <1>1, <1>3 DEF Roomy
    <3>2. QED
      BY <1>1, <3>1, ParsesAsked
  <2> HIDE DEF r, s
  <2>5. CASE r.rc = -1 /\ N < L + 14
    <3>1. s = -1
      BY <2>3, <2>5 DEF Names!QuestionEnd
    <3>2. QED
      BY <1>1, <2>5, <3>1 DEF s
  <2>6. CASE r.rc = L + 14 /\ L + 14 <= N
    <3>1. s = IF L + 18 >= N THEN -1 ELSE L + 18
      BY <1>1, <2>3, <2>6 DEF Names!QuestionEnd
    <3>2. QED
      BY <1>1, <3>1 DEF s
  <2>7. QED
    BY <2>4, <2>5, <2>6 DEF ReadTo, NameEnd
<1>4. QED
  BY <1>2, <1>3

\* The number v in the bytes behind the first i, and the head of a record
\* there, with n bytes of data.
ShortIn(p, i, v) == i + 2 <= Len(p) => Names!AtU16(p, i) = v
HeadIn(p, i, type, n) == ShortIn(p, i, type) /\ ShortIn(p, i + 2, 1) /\ ShortIn(p, i + 8, n)

\* Where the data of a record begins, behind an owner of m bytes.
DataFrom(name, m) == Len(name) + m + 28

\* The data begins at e, and are n bytes, or the packet ends before.
HeadHas(h, p, e, n) ==
  \/ Len(p) < e /\ h.rc = -1
  \/ e <= Len(p) /\ h.rc = e /\ h.len = n

LEMMA ReadsHead ==
  ASSUME NEW p \in Seq(Octet), NEW i \in Nat, i <= Len(p), NEW type, NEW n, HeadIn(p, i, type, n)
  PROVE  HeadHas(Names!AfterName(p, i, type), p, i + 10, n)
<1> DEFINE h == Names!AfterName(p, i, type)
           N == Len(p)
<1>1. N \in Nat
  OBVIOUS
<1>2. CASE N < i + 2
  <2>1. h = [rc |-> -1, len |-> 0]
    BY <1>1, <1>2 DEF Names!AfterName, Names!Fits
  <2>2. N < i + 10
    BY <1>1, <1>2
  <2>3. QED
    BY <2>1, <2>2 DEF HeadHas
<1>3. CASE i + 2 <= N
  <2>1. Names!AtU16(p, i) = type
    BY <1>3 DEF HeadIn, ShortIn
  <2>2. h = IF ~(i + 4 <= N) THEN [rc |-> -1, len |-> 0]
            ELSE IF Names!AtU16(p, i + 2) # 1 THEN [rc |-> -4, len |-> 0]
            ELSE IF ~(i + 10 <= N) THEN [rc |-> -1, len |-> 0]
            ELSE [rc |-> i + 10, len |-> Names!AtU16(p, i + 8)]
    BY <1>1, <1>3, <2>1 DEF Names!AfterName, Names!Fits, Names!In
  <2>3. i + 4 <= N => Names!AtU16(p, i + 2) = 1
    BY <1>1 DEF HeadIn, ShortIn
  <2>4. i + 10 <= N => Names!AtU16(p, i + 8) = n
    BY <1>1 DEF HeadIn, ShortIn
  <2> HIDE DEF h
  <2>5. CASE N < i + 10
    <3>1. h.rc = -1
      BY <1>1, <2>2, <2>3, <2>5
    <3>2. QED
      BY <2>5, <3>1 DEF HeadHas, h
  <2>6. CASE i + 10 <= N
    <3>1. h.rc = i + 10 /\ h.len = n
      BY <1>1, <2>2, <2>3, <2>4, <2>6
    <3>2. QED
      BY <2>6, <3>1 DEF HeadHas, h
  <2>7. QED
    BY <1>1, <2>5, <2>6
<1>4. QED
  BY <1>1, <1>2, <1>3

\* All that stands before the data of the record.
RecordIn(p, name, m, type, n) ==
  /\ QuestionIn(p, name) /\ OwnerIn(p, Len(name) + 18, name, m)
  /\ HeadIn(p, Len(name) + 18 + m, type, n)

LEMMA FindsRecord ==
  ASSUME NEW name, Naming(name), NEW p, NEW m \in Nat, NEW type, NEW n, RecordIn(p, name, m, type, n),
         NEW size \in Int, Roomy(size, Len(name) + 1)
  PROVE  HeadHas(Names!RecordHead(p, type, size), p, DataFrom(name, m), n)
<1> DEFINE L == Len(name)
           N == Len(p)
           i == Names!skipQuestions(p)
           o == L + 18
           e == Names!NameAt(p, i, size)
           h == Names!RecordHead(p, type, size)
<1>1. /\ L \in Nat /\ QuestionIn(p, name) /\ OwnerIn(p, o, name, m) /\ HeadIn(p, o + m, type, n)
      /\ p \in Seq(Octet) /\ N \in Nat
  BY DEF Naming, RecordIn, QuestionIn
<1>2. h = Names!AfterName(p, e, type)
  BY DEF Names!RecordHead
<1>3. IF L + 18 < N THEN i = L + 18 ELSE i = -1
  BY <1>1, SkipsQuestion
<1>4. e = -1 => h.rc = -1
  BY <1>2 DEF Names!AfterName
<1> HIDE DEF i, h
<1>5. CASE N <= L + 18
  <2>1. i = -1
    BY <1>1, <1>3, <1>5
  <2>2. e = -1
    BY <2>1 DEF Names!NameAt
  <2>3. N < DataFrom(name, m)
    BY <1>1, <1>5 DEF DataFrom
  <2>4. QED
    BY <1>4, <2>2, <2>3 DEF HeadHas, h
<1>6. CASE L + 18 < N
  <2>1. i = o /\ ~(i < 0)
    BY <1>1, <1>3, <1>6
  <2>2. e = Names!parseDomainName(p, o, size).rc
    BY <2>1 DEF Names!NameAt
  <2>3. o \in Nat /\ o >= L + 14 /\ o < N
    BY <1>1, <1>6
  <2>4. (N < o + m /\ e = -1) \/ (o + m <= N /\ e = o + m)
    <3> DEFINE v == Names!parseDomainName(p, o, size)
    <3>1. (N < o + m /\ v.rc = -1) \/ (o + m <= N /\ v.rc = o + m)
      BY <1>1, <2>3, ParsesOwner
    <3> HIDE DEF v, e, o
    <3>2. QED
      BY <2>2, <3>1 DEF v
  <2> HIDE DEF e
  <2>5. CASE N < o + m /\ e = -1
    <3>1. N < DataFrom(name, m)
      BY <1>1, <2>5 DEF DataFrom
    <3>2. QED
      BY <1>4, <2>5, <3>1 DEF HeadHas, h
  <2>6. CASE o + m <= N /\ e = o + m
    <3>1. o + m \in Nat /\ o + m + 10 = DataFrom(name, m)
      BY <1>1 DEF DataFrom
    <3>2. HeadHas(Names!AfterName(p, o + m, type), p, o + m + 10, n)
      BY <1>1, <2>6, <3>1, ReadsHead
    <3> HIDE DEF o
    <3>3. QED
      BY <1>2, <2>6, <3>1, <3>2 DEF h
  <2>7. QED
    BY <2>4, <2>5, <2>6
<1>7. QED
  BY <1>1, <1>5, <1>6

-----------------------------------------------------------------------------
(* What the three parsers return.                                           *)

\* n bytes of p behind the first h are d's.
DataIn(p, h, d, n) == \A k \in 1 .. n : h + k <= Len(p) => p[h + k] = d[k]

\* A packet that ends at or in its question has no record.
LEMMA NoRecord ==
  ASSUME NEW name, Naming(name), NEW p, QuestionIn(p, name), Len(p) <= Len(name) + 18
  PROVE  /\ Names!parseDNSAnswer_SRV(p).rc < 0 /\ Names!parseDNSAnswer_A(p).rc < 0
         /\ Names!parseDNSAnswer_TXT(p).rc < 0
<1>1. Len(p) \in Nat /\ Len(name) \in Nat /\ Len(name) < 64
  BY DEF Naming, QuestionIn
<1>2. ASSUME NEW type, NEW size \in Int, Roomy(size, Len(name) + 1)
      PROVE  Names!RecordHead(p, type, size).rc = -1
  <2>1. PointerAt(p, Len(name) + 18)
    BY <1>1 DEF PointerAt
  <2>2. HeadIn(p, Len(name) + 18 + 2, type, 0)
    BY <1>1 DEF HeadIn, ShortIn
  <2>3. RecordIn(p, name, 2, type, 0)
    BY <2>1, <2>2 DEF RecordIn, OwnerIn
  <2>4. HeadHas(Names!RecordHead(p, type, size), p, DataFrom(name, 2), 0)
    BY <1>2, <2>3, FindsRecord
  <2>5. ~(DataFrom(name, 2) <= Len(p))
    BY <1>1 DEF DataFrom
  <2>6. QED
    BY <2>4, <2>5 DEF HeadHas
<1>3. Roomy(64, Len(name) + 1) /\ Roomy(-1, Len(name) + 1) /\ 64 \in Int /\ -1 \in Int
  BY <1>1 DEF Roomy
<1>4. Names!parseDNSAnswer_SRV(p).rc < 0
  <2> DEFINE h == Names!RecordHead(p, 33, 64)
  <2>1. h.rc = -1
    BY <1>2, <1>3
  <2> HIDE DEF h
  <2>2. \A host : Names!ServiceAt(p, h, host) = Names!Got(h.rc, <<>>)
    BY <2>1 DEF Names!ServiceAt, Names!Nothing
  <2>3. QED
    BY <2>1, <2>2 DEF Names!parseDNSAnswer_SRV, Names!Got, Names!SRV, h
<1>5. Names!parseDNSAnswer_A(p).rc < 0
  <2> DEFINE h == Names!RecordHead(p, 1, -1)
  <2>1. h.rc = -1
    BY <1>2, <1>3
  <2> HIDE DEF h
  <2>2. Names!AddressAt(p, h) = Names!Got(h.rc, <<>>)
    BY <2>1 DEF Names!AddressAt, Names!Nothing
  <2>3. QED
    BY <2>1, <2>2 DEF Names!parseDNSAnswer_A, Names!Got, Names!A, Names!Skip, h
<1>6. Names!parseDNSAnswer_TXT(p).rc < 0
  <2> DEFINE h == Names!RecordHead(p, 16, -1)
  <2>1. h.rc = -1
    BY <1>2, <1>3
  <2> HIDE DEF h
  <2>2. \A len : Names!TextAt(p, h, len) = Names!Got(h.rc, <<>>)
    BY <2>1 DEF Names!TextAt, Names!Nothing
  <2>3. QED
    BY <2>1, <2>2 DEF Names!parseDNSAnswer_TXT, Names!Got, Names!TXT, Names!Skip, h
<1>7. QED
  BY <1>4, <1>5, <1>6

\* What is asked of a parser: a packet that ends at e gives the data, one that
\* ends before c is refused.
Parses(r, p, c, e, data) ==
  (Len(p) < c => r.rc < 0) /\ (Len(p) = e => r = Names!Got(e, data))

LEMMA InPiece ==
  ASSUME NEW U, NEW n \in Nat, NEW s, Piece(U, s, n)
  PROVE  \A k \in 1 .. n : s[k] \in U
BY DEF Piece

LEMMA ParsesAddress ==
  ASSUME NEW name, Naming(name), NEW p, NEW m \in Nat, RecordIn(p, name, m, 1, 4),
         NEW data, Piece(Octet, data, 4), DataIn(p, DataFrom(name, m), data, 4)
  PROVE  Parses(Names!parseDNSAnswer_A(p), p, DataFrom(name, m), DataFrom(name, m) + 4, data)
<1> DEFINE h == Names!RecordHead(p, 1, -1)
           H == DataFrom(name, m)
           N == Len(p)
           r == Names!parseDNSAnswer_A(p)
<1>1. N \in Nat /\ H \in Nat
  BY DEF Naming, DataFrom, RecordIn, QuestionIn
<1>7. \A k \in 1 .. 4 : data[k] \in Octet
  BY InPiece
<1>2. HeadHas(h, p, H, 4)
  <2>1. Roomy(-1, Len(name) + 1) /\ -1 \in Int
    BY DEF Roomy
  <2>2. QED
    BY <2>1, FindsRecord
<1>3. r = Names!AddressAt(p, h)
  BY DEF Names!parseDNSAnswer_A, Names!A, Names!Skip
<1> HIDE DEF h, H, r
<1>4. ASSUME N < H PROVE r.rc < 0
  BY <1>1, <1>2, <1>3, <1>4 DEF HeadHas, Names!AddressAt, Names!Got
<1>5. ASSUME N = H + 4 PROVE r = Names!Got(H + 4, data)
  <2>1. h.rc = H /\ h.len = 4 /\ ~(h.rc < 0)
    BY <1>1, <1>2, <1>5 DEF HeadHas
  <2>2. r = Names!Got(h.rc + 4, [k \in 1 .. 4 |-> Names!At(p, h.rc + k - 1)])
    BY <1>3, <2>1 DEF Names!AddressAt
  <2> DEFINE v == [k \in 1 .. 4 |-> Names!At(p, h.rc + k - 1)]
  <2>3. v = data
    <3>1. Piece(Octet, v, 4) /\ \A k \in 1 .. 4 : v[k] = data[k]
      <4>1. ASSUME NEW k \in 1 .. 4 PROVE v[k] = data[k] /\ data[k] \in Octet
        <5>1. v[k] = Names!At(p, h.rc + k - 1)
          OBVIOUS
        <5>2. h.rc + k - 1 < N /\ h.rc + k - 1 + 1 = H + k /\ H + k <= N
          BY <1>1, <1>5, <2>1
        <5>3. v[k] = p[H + k]
          BY <5>1, <5>2 DEF Names!At
        <5>4. p[H + k] = data[k]
          BY <5>2 DEF DataIn, H
        <5>5. QED
          BY <1>7, <5>3, <5>4
      <4>2. v \in Seq(Octet) /\ Len(v) = 4
        BY <4>1
      <4>3. QED
        BY <4>1, <4>2 DEF Piece
    <3> HIDE DEF v
    <3>2. QED
      BY <3>1, SameSeq
  <2> HIDE DEF v
  <2>4. QED
    BY <2>1, <2>2, <2>3 DEF v
<1>6. QED
  BY <1>4, <1>5 DEF Parses, h, H, r

LEMMA ParsesText ==
  ASSUME NEW name, Naming(name), NEW p, NEW m \in Nat, NEW n \in Nat, n + 1 <= NameRoom,
         NameRoom \in Nat, RecordIn(p, name, m, 16, n + 1),
         NEW data, Piece(Char, data, n), DataIn(p, DataFrom(name, m) + 1, data, n),
         DataFrom(name, m) < Len(p) => p[DataFrom(name, m) + 1] = n
  PROVE  LET e == DataFrom(name, m) + (n + 1) IN Parses(Names!parseDNSAnswer_TXT(p), p, e, e, data)
<1> DEFINE h == Names!RecordHead(p, 16, -1)
           H == DataFrom(name, m)
           N == Len(p)
           r == Names!parseDNSAnswer_TXT(p)
           len == Names!At(p, h.rc)
           v == [k \in 1 .. len |-> Names!At(p, h.rc + k)]
<1>1. N \in Nat /\ H \in Nat
  BY DEF Naming, DataFrom, RecordIn, QuestionIn
<1>2. HeadHas(h, p, H, n + 1)
  <2>1. Roomy(-1, Len(name) + 1) /\ -1 \in Int
    BY DEF Roomy
  <2>2. QED
    BY <2>1, FindsRecord
<1>3. r = IF h.rc < 0 THEN Names!Got(h.rc, <<>>)
          ELSE IF ~(h.rc + h.len <= N) THEN Names!Got(-5, <<>>)
          ELSE IF len + 1 > NameRoom THEN Names!Got(-6, <<>>)
          ELSE Names!Got(h.rc + 1 + len, v)
  BY DEF Names!parseDNSAnswer_TXT, Names!TextAt, Names!TXT, Names!Skip, Names!Nothing, Names!Fits
<1>4. \A i, d : Names!Got(i, d).rc = i
  BY DEF Names!Got
<1> HIDE DEF h, H, r, v, len
<1>5. ASSUME N < H + (n + 1) PROVE r.rc < 0
  <2>1. CASE N < H
    BY <1>1, <1>2, <1>3, <1>4, <2>1 DEF HeadHas
  <2>2. CASE H <= N
    <3>1. h.rc = H /\ h.len = n + 1 /\ ~(h.rc < 0)
      BY <1>1, <1>2, <2>2 DEF HeadHas
    <3>2. r = Names!Got(-5, <<>>)
      BY <1>1, <1>3, <1>5, <3>1
    <3>3. QED
      BY <1>4, <3>2
  <2>3. QED
    BY <1>1, <2>1, <2>2
<1>6. ASSUME N = H + (n + 1) PROVE r = Names!Got(H + (n + 1), data)
  <2>1. h.rc = H /\ h.len = n + 1 /\ ~(h.rc < 0) /\ h.rc + h.len <= N
    BY <1>1, <1>2, <1>6 DEF HeadHas
  <2>2. len = n
    <3>1. H < N
      BY <1>1, <1>6
    <3>2. p[H + 1] = n
      BY <3>1 DEF H
    <3>3. QED
      BY <1>1, <2>1, <3>1, <3>2 DEF len, Names!At
  <2>3. r = Names!Got(H + 1 + n, v)
    BY <1>3, <2>1, <2>2
  <2>4. v = data
    <3>1. Piece(Char, v, n) /\ \A k \in 1 .. n : v[k] = data[k]
      <4>1. v = [k \in 1 .. n |-> Names!At(p, H + k)]
        BY <2>1, <2>2 DEF v
      <4>2. ASSUME NEW k \in 1 .. n PROVE v[k] = data[k] /\ data[k] \in Char
        <5>1. v[k] = Names!At(p, H + k)
          BY <4>1
        <5>2. H + k < N /\ H + k + 1 = (H + 1) + k /\ (H + 1) + k <= N
          BY <1>1, <1>6
        <5>3. v[k] = p[(H + 1) + k]
          BY <5>1, <5>2 DEF Names!At
        <5>4. p[(H + 1) + k] = data[k]
          BY <5>2 DEF DataIn, H
        <5>5. QED
          BY <5>3, <5>4 DEF Piece
      <4>3. v \in Seq(Char) /\ Len(v) = n
        BY <4>1, <4>2
      <4>4. QED
        BY <4>2, <4>3 DEF Piece
    <3>2. QED
      BY <3>1, SameSeq
  <2>5. H + 1 + n = H + (n + 1)
    BY <1>1
  <2>6. QED
    BY <2>3, <2>4, <2>5
<1>7. QED
  BY <1>5, <1>6 DEF Parses, H, r

\* A label at o, its length first.
LabelIn(p, o, label) ==
  (o < Len(p) => p[o + 1] = Len(label)) /\ DataIn(p, o + 1, label, Len(label))

LEMMA ReadsHostLabel ==
  ASSUME NEW p \in Seq(Octet), NEW o \in Nat, NEW label \in Seq(Char), 0 < Len(label), Len(label) < 64,
         LabelIn(p, o, label), o + 1 + Len(label) < Len(p), NEW size \in Int, Len(label) + 1 <= size
  PROVE  Names!ReadLabel(p, Reading(o, <<>>, TRUE, -1), size) = Reading(o + 1 + Len(label), label, FALSE, -1)
<1> DEFINE N == Len(p)
           l == Len(label)
           s == Reading(o, <<>>, TRUE, -1)
           v == Names!ReadLabel(p, s, size)
           len == Names!At(p, s.i)
           dotted == IF s.first THEN s.text ELSE Append(s.text, Period)
           end == s.i + 1 + len
           full(text, n) == size # -1 /\ Len(text) + n > size
           to == (len % 64) * 256 + Names!At(p, s.i + 1)
           u == SubSeq(p, o + 2, o + 1 + l)
<1>1. /\ N \in Nat /\ l \in Nat /\ label \in Seq(Char) /\ o + 1 + l < N /\ 0 < l /\ l < 64
      /\ Len(label) = l /\ l + 1 <= size
  OBVIOUS
<1>2. /\ s.rc = Names!Going /\ s.i = o /\ s.text = <<>> /\ s.first = TRUE /\ s.back = -1
      /\ s = [i |-> o, text |-> <<>>, first |-> TRUE, back |-> -1, rc |-> Names!Going]
  BY DEF Reading
<1>3. v = IF len = -1 THEN [s EXCEPT !.rc = -1]
          ELSE IF len = 0
          THEN [s EXCEPT !.rc = IF full(s.text, 1) THEN -2
                                ELSE IF s.back = -1 THEN end ELSE s.back]
          ELSE IF ~s.first /\ full(s.text, 1) THEN [s EXCEPT !.rc = -2]
          ELSE IF len >= 192
          THEN IF s.i + 1 = Len(p) THEN [s EXCEPT !.rc = -1]
               ELSE IF to >= Len(p) THEN [s EXCEPT !.rc = -3]
               ELSE [s EXCEPT !.i = to, !.text = dotted, !.first = TRUE, !.back = Names!AfterPointer(s)]
          ELSE IF end >= Len(p) THEN [s EXCEPT !.rc = -1]
          ELSE IF full(dotted, len + 1) THEN [s EXCEPT !.rc = -2]
          ELSE [s EXCEPT !.i = end, !.text = dotted \o SubSeq(p, s.i + 2, end), !.first = FALSE]
  BY <1>2, Zenon DEF Names!ReadLabel, Names!Outside, Names!Dot, Names!Skip, Names!Nowhere, Period
<1>14. p[o + 1] = l /\ \A j \in 1 .. l : p[(o + 1) + j] = label[j]
  <2>1. o < N
    BY <1>1
  <2>2. p[o + 1] = l
    BY <1>1, <2>1 DEF LabelIn
  <2>3. ASSUME NEW j \in 1 .. l PROVE p[(o + 1) + j] = label[j]
    <3>1. (o + 1) + j <= N
      BY <1>1
    <3>2. QED
      BY <3>1 DEF LabelIn, DataIn
  <2>4. QED
    BY <2>2, <2>3
<1> HIDE DEF s, l
<1>4. len = l
  BY <1>1, <1>2, <1>14 DEF Names!At
<1>5. dotted = <<>>
  BY <1>2
<1>6. end = o + 1 + l /\ ~(end >= N)
  BY <1>1, <1>2, <1>4
<1>7. ~full(dotted, len + 1)
  <2>1. Len(dotted) = 0
    BY <1>5
  <2> HIDE DEF dotted, len
  <2>2. QED
    BY <1>1, <1>4, <2>1
<1>8. u = label
  <2>1. Piece(Octet, u, l)
    BY <1>1 DEF Piece
  <2>2. ASSUME NEW j \in 1 .. l PROVE u[j] = label[j]
    <3>1. u[j] = p[o + 2 + j - 1]
      BY <1>1
    <3>2. o + 2 + j - 1 = (o + 1) + j /\ (o + 1) + j <= N
      BY <1>1
    <3>3. QED
      BY <1>14, <3>1, <3>2
  <2>3. Piece(Octet, label, l)
    <3>1. Piece(Char, label, l)
      BY <1>1 DEF Piece
    <3>2. QED
      BY <1>1, <3>1, Wider DEF Char, Octet
  <2> HIDE DEF u
  <2>4. QED
    BY <1>1, <2>1, <2>2, <2>3, SameSeq
<1> HIDE DEF v, len, dotted, end
<1>9. v = [s EXCEPT !.i = end, !.text = dotted \o SubSeq(p, s.i + 2, end), !.first = FALSE]
  BY <1>1, <1>2, <1>3, <1>4, <1>6, <1>7
<1>10. dotted \o SubSeq(p, s.i + 2, end) = label
  <2>1. SubSeq(p, s.i + 2, end) = label
    BY <1>2, <1>6, <1>8
  <2>2. <<>> \o label = label
    BY <1>1
  <2>3. QED
    BY <1>5, <2>1, <2>2
<1> DEFINE w == dotted \o SubSeq(p, s.i + 2, end)
<1>11. w = label
  BY <1>10
<1>12. v = [i |-> end, text |-> w, first |-> FALSE, back |-> -1, rc |-> Names!Going]
  BY <1>2, <1>9
<1> HIDE DEF w
<1>13. QED
  BY <1>6, <1>11, <1>12 DEF v, s, l, Reading

\* A host's name: a label, and the name of the question behind it.
HostHas(v, p, label, name) == v.rc = Len(p) /\ v.text = Append(label, Period) \o name

LEMMA ParsesHost ==
  ASSUME NEW name, Naming(name), NEW p, QuestionIn(p, name), NEW o \in Nat, o >= Len(name) + 14,
         NEW label \in Seq(Char), 0 < Len(label), Len(label) < 64, LabelIn(p, o, label),
         NEW m \in Nat, 0 < m, OwnerIn(p, o + 1 + Len(label), name, m),
         Len(p) = o + 1 + Len(label) + m,
         NEW size \in Int, Len(label) + Len(name) + 2 <= size
  PROVE  HostHas(Names!parseDomainName(p, o, size), p, label, name)
<1> DEFINE f == NameRead(p, o, size)
           q == o + 1 + Len(label)
           T == Append(label, Period)
<1>1. Len(p) \in Nat /\ Len(name) \in Nat /\ p \in Seq(Octet) /\ q \in Nat /\ q < Len(p)
      /\ q >= Len(name) + 14 /\ q + m = Len(p) /\ Len(label) \in Nat
  BY DEF QuestionIn, Naming
<1>2. f[0] = Reading(o, <<>>, TRUE, -1) /\ Turning(f, p, size)
  BY <1>1, ReadIs, Zenon DEF Turning
<1>3. Names!parseDomainName(p, o, size) = f[Len(p)]
  BY ParseNameIs
<1> HIDE DEF f
<1>4. f[1] = Reading(q, label, FALSE, -1)
  <2>1. 1 \in 1 .. Len(p) /\ 1 - 1 = 0
    BY <1>1
  <2>2. f[1] = Names!ReadLabel(p, Reading(o, <<>>, TRUE, -1), size)
    BY <1>2, <2>1 DEF Turning
  <2>3. o + 1 + Len(label) < Len(p) /\ Len(label) + 1 <= size
    BY <1>1
  <2>4. Names!ReadLabel(p, Reading(o, <<>>, TRUE, -1), size) = Reading(o + 1 + Len(label), label, FALSE, -1)
    BY <1>1, <2>3, ReadsHostLabel
  <2>5. QED
    BY <2>2, <2>4
<1>5. T \in Seq(Char) /\ Len(T) = Len(label) + 1
  BY DEF Char, Period
<1>6. Ahead(label, FALSE, T)
  BY <1>5 DEF Ahead
<1>7. Roomy(size, Len(T) + Len(name) + 1)
  BY <1>1, <1>5 DEF Roomy
<1>8. OwnerIn(p, q, name, m) /\ 1 < 12 /\ 1 \in Nat
  OBVIOUS
<1> HIDE DEF q, T
<1>9. NameHas(f[Len(p)], p, T \o name, q + m)
  BY <1>1, <1>2, <1>4, <1>6, <1>7, <1>8, ReadsOwner
<1> DEFINE text == T \o name
<1>10. NameHas(f[Len(p)], p, text, q + m)
  BY <1>9
<1> HIDE DEF text
<1>11. f[Len(p)].rc = Len(p) /\ f[Len(p)].text = text
  BY <1>1, <1>10 DEF NameHas
<1>12. QED
  BY <1>3, <1>11 DEF text, T, HostHas

\* The data of a service: three numbers and a host.
ServiceIn(p, h, name, m, d, label) ==
  /\ ShortIn(p, h, d[1]) /\ ShortIn(p, h + 2, d[2]) /\ ShortIn(p, h + 4, d[3])
  /\ LabelIn(p, h + 6, label) /\ OwnerIn(p, h + 7 + Len(label), name, m)

ServiceOf(d, label, name) ==
  \E text : text = Append(label, Period) \o name /\ d = <<d[1], d[2], d[3], text>>

LEMMA ParsesService ==
  ASSUME NEW name, Naming(name), NEW label \in Seq(Char), 0 < Len(label), Len(label) < 64,
         NameRoom \in Nat, Len(label) + Len(name) + 2 <= NameRoom,
         NEW p, NEW m \in Nat, 0 < m, RecordIn(p, name, m, 33, Len(label) + m + 7),
         3 <= Len(p) => p[3] >= 128, 4 <= Len(p) => p[4] % 16 = 0,
         NEW d, ServiceIn(p, DataFrom(name, m), name, m, d, label),
         ServiceOf(d, label, name)
  PROVE  LET e == DataFrom(name, m) + (Len(label) + m + 7) IN
           Parses(Names!parseDNSAnswer_SRV(p), p, e, e, d)
<1> DEFINE h == Names!RecordHead(p, 33, 64)
           H == DataFrom(name, m)
           N == Len(p)
           l == Len(label)
           n == l + m + 7
           host == Names!parseDomainName(p, h.rc + 6, NameRoom)
           s == Names!ServiceAt(p, h, host)
           r == Names!parseDNSAnswer_SRV(p)
<1>1. /\ N \in Nat /\ H \in Nat /\ l \in Nat /\ n \in Nat /\ Len(name) \in Nat /\ QuestionIn(p, name)
      /\ H = Len(name) + m + 28 /\ n = l + m + 7 /\ n > 6
  <2>1. Len(name) \in Nat /\ QuestionIn(p, name) /\ l \in Nat
    BY DEF Naming, RecordIn
  <2>2. N \in Nat
    BY <2>1 DEF QuestionIn
  <2>3. H = Len(name) + m + 28
    BY DEF DataFrom
  <2>4. QED
    BY <2>1, <2>2, <2>3
<1>2. HeadHas(h, p, H, n)
  <2>1. Roomy(64, Len(name) + 1) /\ 64 \in Int
    BY DEF Roomy, Naming
  <2>2. QED
    BY <2>1, FindsRecord
<1>3. r = IF N < 4 THEN Names!Got(-1, <<>>) ELSE s
  <2>1. N >= 4 => p[3] >= 128 /\ p[4] % 16 = 0
    BY <1>1
  <2>2. N >= 4 => p[3] \in Octet
    BY <1>1 DEF QuestionIn
  <2>3. N >= 4 => ~(p[3] < 128)
    <3>1. \A b \in Octet : b >= 128 => ~(b < 128)
      BY DEF Octet
    <3>2. QED
      BY <2>1, <2>2, <3>1
  <2>4. ~(N < 4) => N >= 4
    BY <1>1
  <2>5. QED
    BY <2>1, <2>3, <2>4 DEF Names!parseDNSAnswer_SRV, Names!SRV, Names!Nothing
<1>4. \A i, x : Names!Got(i, x).rc = i
  BY DEF Names!Got
<1> HIDE DEF h, r, s, host, H, n, l
<1>5. ASSUME N < H + n PROVE r.rc < 0
  <2>1. CASE N < H
    <3>1. h.rc = -1
      BY <1>1, <1>2, <2>1 DEF HeadHas
    <3>2. s = Names!Got(-1, <<>>)
      BY <3>1 DEF s, Names!ServiceAt, Names!Nothing
    <3>3. QED
      BY <1>3, <1>4, <3>2
  <2>2. CASE H <= N
    <3>1. h.rc = H /\ h.len = n
      BY <1>1, <1>2, <2>2 DEF HeadHas
    <3>2. s = Names!Got(-1, <<>>)
      <4>1. ~(h.rc < 0) /\ h.rc >= 0 /\ ~(h.rc + h.len <= N)
        BY <1>1, <1>5, <3>1
      <4>2. QED
        BY <4>1 DEF s, Names!ServiceAt, Names!Nothing, Names!Fits
    <3>3. QED
      BY <1>3, <1>4, <3>2
  <2>3. QED
    BY <1>1, <2>1, <2>2
<1>6. ASSUME N = H + n PROVE r = Names!Got(H + n, d)
  <2>1. h.rc = H /\ h.len = n /\ N >= 4
    BY <1>1, <1>2, <1>6 DEF HeadHas
  <2>0. PICK text : text = Append(label, Period) \o name /\ <<d[1], d[2], d[3], text>> = d
    BY Zenon DEF ServiceOf
  <2>2. host.rc = N /\ host.text = text
    <3>1. host = Names!parseDomainName(p, H + 6, NameRoom)
      BY <2>1 DEF host
    <3>2. PICK o \in Nat : o = H + 6
      BY <1>1
    <3>3. LabelIn(p, o, label) /\ OwnerIn(p, o + 1 + Len(label), name, m)
      <4>1. H + 7 + Len(label) = o + 1 + Len(label)
        BY <1>1, <3>2
      <4>2. OwnerIn(p, H + 7 + Len(label), name, m) /\ LabelIn(p, H + 6, label)
        BY DEF ServiceIn, H
      <4>3. QED
        BY <3>2, <4>1, <4>2
    <3>4. o >= Len(name) + 14 /\ Len(p) = o + 1 + Len(label) + m /\ NameRoom \in Int
      BY <1>1, <1>6, <3>2 DEF l
    <3>5. HostHas(Names!parseDomainName(p, o, NameRoom), p, label, name)
      BY <1>1, <3>3, <3>4, ParsesHost
    <3>6. QED
      BY <2>0, <3>1, <3>2, <3>5, Zenon DEF HostHas
  <2>3. Names!AtU16(p, H) = d[1] /\ Names!AtU16(p, H + 2) = d[2] /\ Names!AtU16(p, H + 4) = d[3]
    <3>1. H + 2 <= N /\ H + 2 + 2 <= N /\ H + 4 + 2 <= N
      BY <1>1, <1>6
    <3>2. QED
      BY <3>1 DEF ServiceIn, ShortIn, H
  <2>4. s = Names!Got(host.rc, <<Names!AtU16(p, H), Names!AtU16(p, H + 2), Names!AtU16(p, H + 4), host.text>>)
    <3>1. ~(h.rc < 0) /\ h.rc + h.len <= N /\ h.rc + 6 <= N /\ ~(host.rc < 0)
      BY <1>1, <1>6, <2>1, <2>2
    <3>2. QED
      BY <2>1, <3>1 DEF s, Names!ServiceAt, Names!Fits
  <2>5. <<Names!AtU16(p, H), Names!AtU16(p, H + 2), Names!AtU16(p, H + 4), host.text>> = d
    BY <2>0, <2>2, <2>3, Zenon
  <2>6. ~(N < 4) /\ host.rc = H + n
    BY <1>1, <1>6, <2>1, <2>2
  <2>7. r = s
    BY <1>3, <2>6, Zenon
  <2>8. QED
    BY <2>4, <2>5, <2>6, <2>7, Zenon
<1>7. QED
  BY <1>5, <1>6 DEF Parses, H, r, n, l

-----------------------------------------------------------------------------
(* A packet that was cut.                                                    *)

\* p is the beginning of b.
Under(p, b) == p \in Seq(Octet) /\ Len(p) <= Len(b) /\ \A i \in 1 .. Len(p) : p[i] = b[i]

LEMMA CutIsUnder ==
  ASSUME NEW b \in Seq(Octet), NEW n \in 1 .. Len(b)
  PROVE  Under(SubSeq(b, 1, n), b) /\ Len(SubSeq(b, 1, n)) = n
BY DEF Under

LEMMA SpellsUnder ==
  ASSUME NEW p, NEW b, Under(p, b), NEW o \in Nat, NEW name, Len(name) \in Nat, Spells(b, o, name),
         Len(b) \in Nat
  PROVE  Spells(p, o, name)
<1>1. ASSUME NEW k \in 0 .. Len(name) + 1, o + k < Len(p) PROVE Spelt(name, k, p[o + k + 1])
  <2>1. o + k < Len(b) /\ o + k + 1 \in 1 .. Len(p)
    BY <1>1 DEF Under
  <2>2. Spelt(name, k, b[o + k + 1]) /\ p[o + k + 1] = b[o + k + 1]
    BY <2>1 DEF Spells, Under
  <2>3. QED
    BY <2>2
<1>2. QED
  BY <1>1 DEF Spells

LEMMA OwnerUnder ==
  ASSUME NEW p, NEW b, Under(p, b), NEW o \in Nat, NEW name, Len(name) \in Nat, NEW m, OwnerIn(b, o, name, m),
         Len(b) \in Nat
  PROVE  OwnerIn(p, o, name, m)
<1>1. CASE m = 2 /\ PointerAt(b, o)
  <2>1. PointerAt(p, o)
    <3>1. ASSUME o < Len(p) PROVE p[o + 1] = 192
      <4>1. o < Len(b) /\ o + 1 \in 1 .. Len(p)
        BY <3>1 DEF Under
      <4>2. QED
        BY <1>1, <4>1 DEF Under, PointerAt
    <3>2. ASSUME o + 1 < Len(p) PROVE p[o + 2] = 12
      <4>1. o + 1 < Len(b) /\ o + 2 \in 1 .. Len(p)
        BY <3>2 DEF Under
      <4>2. QED
        BY <1>1, <4>1 DEF Under, PointerAt
    <3>3. QED
      BY <3>1, <3>2 DEF PointerAt
  <2>2. QED
    BY <1>1, <2>1 DEF OwnerIn
<1>2. CASE m = Len(name) + 2 /\ Spells(b, o, name)
  BY <1>2, SpellsUnder DEF OwnerIn
<1>3. QED
  BY <1>1, <1>2 DEF OwnerIn

LEMMA ShortUnder ==
  ASSUME NEW p, NEW b, Under(p, b), Len(b) \in Nat, NEW i \in Nat, NEW v, ShortIn(b, i, v)
  PROVE  ShortIn(p, i, v)
<1>1. ASSUME i + 2 <= Len(p) PROVE Names!AtU16(p, i) = v
  <2>1. i + 2 <= Len(b) /\ i + 1 \in 1 .. Len(p) /\ i + 2 \in 1 .. Len(p)
    BY <1>1 DEF Under
  <2>2. p[i + 1] = b[i + 1] /\ p[i + 2] = b[i + 2] /\ Names!AtU16(b, i) = v
    BY <2>1 DEF Under, ShortIn
  <2>3. QED
    BY <2>2 DEF Names!AtU16
<1>2. QED
  BY <1>1 DEF ShortIn

LEMMA RecordUnder ==
  ASSUME NEW p, NEW b, Under(p, b), NEW name, Naming(name), NEW m \in Nat, NEW type, NEW n,
         RecordIn(b, name, m, type, n)
  PROVE  RecordIn(p, name, m, type, n)
<1>1. /\ Len(name) \in Nat /\ QuestionIn(b, name) /\ OwnerIn(b, Len(name) + 18, name, m)
      /\ HeadIn(b, Len(name) + 18 + m, type, n) /\ Len(b) \in Nat /\ p \in Seq(Octet) /\ Len(p) \in Nat
  BY DEF Naming, RecordIn, QuestionIn, Under
<1>2. QuestionIn(p, name)
  <2>1. Spells(b, 12, name) /\ (Len(b) >= 6 => b[5] = 0 /\ b[6] = 1)
    BY <1>1 DEF QuestionIn
  <2>2. Spells(p, 12, name)
    BY <1>1, <2>1, SpellsUnder
  <2>3. ASSUME Len(p) >= 6 PROVE p[5] = 0 /\ p[6] = 1
    <3>1. Len(b) >= 6 /\ 5 \in 1 .. Len(p) /\ 6 \in 1 .. Len(p)
      BY <1>1, <2>3 DEF Under
    <3>2. QED
      BY <2>1, <3>1 DEF Under
  <2>4. QED
    BY <1>1, <2>2, <2>3 DEF QuestionIn
<1>3. OwnerIn(p, Len(name) + 18, name, m)
  <2>1. Len(name) + 18 \in Nat
    BY <1>1
  <2>2. QED
    BY <1>1, <2>1, OwnerUnder
<1>4. HeadIn(p, Len(name) + 18 + m, type, n)
  <2>1. PICK i \in Nat : i = Len(name) + 18 + m /\ i + 2 \in Nat /\ i + 8 \in Nat
    BY <1>1
  <2>2. ShortIn(b, i, type) /\ ShortIn(b, i + 2, 1) /\ ShortIn(b, i + 8, n)
    BY <1>1, <2>1 DEF HeadIn
  <2>3. ShortIn(p, i, type) /\ ShortIn(p, i + 2, 1) /\ ShortIn(p, i + 8, n)
    BY <1>1, <2>1, <2>2, ShortUnder
  <2>4. QED
    BY <2>1, <2>3 DEF HeadIn
<1>5. QED
  BY <1>2, <1>3, <1>4 DEF RecordIn

LEMMA DataUnder ==
  ASSUME NEW p, NEW b, Under(p, b), Len(b) \in Nat, NEW h \in Nat, NEW d, NEW n \in Nat, DataIn(b, h, d, n)
  PROVE  DataIn(p, h, d, n)
<1>1. ASSUME NEW k \in 1 .. n, h + k <= Len(p) PROVE p[h + k] = d[k]
  <2>1. h + k <= Len(b) /\ h + k \in 1 .. Len(p)
    BY <1>1 DEF Under
  <2>2. QED
    BY <2>1 DEF Under, DataIn
<1>2. QED
  BY <1>1 DEF DataIn

LEMMA LabelUnder ==
  ASSUME NEW p, NEW b, Under(p, b), Len(b) \in Nat, NEW o \in Nat, NEW label, Len(label) \in Nat,
         LabelIn(b, o, label)
  PROVE  LabelIn(p, o, label)
<1>1. DataIn(p, o + 1, label, Len(label))
  <2>1. o + 1 \in Nat
    OBVIOUS
  <2>2. DataIn(b, o + 1, label, Len(label))
    BY DEF LabelIn
  <2>3. QED
    BY <2>1, <2>2, DataUnder
<1>2. ASSUME o < Len(p) PROVE p[o + 1] = Len(label)
  <2>1. o < Len(b) /\ o + 1 \in 1 .. Len(p)
    BY <1>2 DEF Under
  <2>2. QED
    BY <2>1 DEF Under, LabelIn
<1>3. QED
  BY <1>1, <1>2 DEF LabelIn

LEMMA ServiceUnder ==
  ASSUME NEW p, NEW b, Under(p, b), Len(b) \in Nat, NEW name, Naming(name), NEW m, NEW h \in Nat,
         NEW label, Len(label) \in Nat, NEW d, ServiceIn(b, h, name, m, d, label)
  PROVE  ServiceIn(p, h, name, m, d, label)
<1>1. Len(name) \in Nat
  BY DEF Naming
<1>2. h + 2 \in Nat /\ h + 4 \in Nat /\ h + 6 \in Nat /\ h + 7 + Len(label) \in Nat
  OBVIOUS
<1>3. ShortIn(p, h, d[1]) /\ ShortIn(p, h + 2, d[2]) /\ ShortIn(p, h + 4, d[3])
  <2>1. ShortIn(b, h, d[1]) /\ ShortIn(b, h + 2, d[2]) /\ ShortIn(b, h + 4, d[3])
    BY DEF ServiceIn
  <2>2. QED
    BY <1>2, <2>1, ShortUnder
<1>4. LabelIn(p, h + 6, label)
  BY <1>2, LabelUnder DEF ServiceIn
<1>5. OwnerIn(p, h + 7 + Len(label), name, m)
  BY <1>1, <1>2, OwnerUnder DEF ServiceIn
<1>6. QED
  BY <1>3, <1>4, <1>5 DEF ServiceIn

-----------------------------------------------------------------------------
(* Where things stand in a question and in an answer.                        *)

\* z goes on from x, which has n bytes.
Keeps(z, x, n) == \A i \in 1 .. n : z[i] = x[i]

LEMMA KeepsOn ==
  ASSUME NEW z, NEW y, NEW x, NEW n \in Nat, NEW k \in Nat, n <= k, Keeps(z, y, k), Keeps(y, x, n)
  PROVE  Keeps(z, x, n)
<1>1. ASSUME NEW i \in 1 .. n PROVE z[i] = x[i]
  <2>1. i \in 1 .. k
    OBVIOUS
  <2>2. QED
    BY <2>1 DEF Keeps
<1>2. QED
  BY <1>1 DEF Keeps

LEMMA KeepsShort ==
  ASSUME NEW z, NEW x, NEW n \in Nat, NEW i \in Nat, i + 2 <= n, Keeps(z, x, n)
  PROVE  Names!AtU16(z, i) = Names!AtU16(x, i)
<1>1. i + 1 \in 1 .. n /\ i + 2 \in 1 .. n
  OBVIOUS
<1>2. z[i + 1] = x[i + 1] /\ z[i + 2] = x[i + 2]
  BY <1>1 DEF Keeps
<1>3. QED
  BY <1>2 DEF Names!AtU16

\* m bytes of z behind the first n are y's.
Holds(z, n, y, m) == \A i \in 1 .. m : z[n + i] = y[i]

LEMMA HoldsShort ==
  ASSUME NEW z, NEW n \in Nat, NEW y, NEW m \in Nat, Holds(z, n, y, m), NEW i \in Nat, i + 2 <= m
  PROVE  Names!AtU16(z, n + i) = Names!AtU16(y, i)
<1>1. i + 1 \in 1 .. m /\ i + 2 \in 1 .. m /\ n + i + 1 = n + (i + 1) /\ n + i + 2 = n + (i + 2)
  OBVIOUS
<1>2. z[n + i + 1] = y[i + 1] /\ z[n + i + 2] = y[i + 2]
  BY <1>1 DEF Holds
<1>3. QED
  BY <1>2 DEF Names!AtU16

LEMMA HoldsOn ==
  ASSUME NEW z, NEW x, NEW n \in Nat, NEW o \in Nat, NEW y, NEW m \in Nat, o + m <= n,
         Keeps(z, x, n), Holds(x, o, y, m)
  PROVE  Holds(z, o, y, m)
<1>1. ASSUME NEW i \in 1 .. m PROVE z[o + i] = y[i]
  <2>1. o + i \in 1 .. n
    OBVIOUS
  <2>2. QED
    BY <2>1 DEF Keeps, Holds
<1>2. QED
  BY <1>1 DEF Holds

LEMMA HoldsIn ==
  ASSUME NEW z, NEW n \in Nat, NEW y, NEW m \in Nat, Holds(z, n, y, m),
         NEW o \in Nat, NEW x, NEW k \in Nat, o + k <= m, Holds(y, o, x, k)
  PROVE  Holds(z, n + o, x, k)
<1>1. ASSUME NEW i \in 1 .. k PROVE z[n + o + i] = x[i]
  <2>1. o + i \in 1 .. m /\ n + (o + i) = n + o + i
    OBVIOUS
  <2>2. z[n + (o + i)] = y[o + i] /\ y[o + i] = x[i]
    BY <2>1 DEF Holds
  <2>3. QED
    BY <2>1, <2>2
<1>2. QED
  BY <1>1 DEF Holds

LEMMA PutOn ==
  ASSUME NEW x, NEW n \in Nat, NEW y, NEW m \in Nat, Piece(Octet, x, n), Piece(Octet, y, m)
  PROVE  Piece(Octet, x \o y, n + m) /\ Keeps(x \o y, x, n) /\ Holds(x \o y, n, y, m)
<1>1. Piece(Octet, x \o y, n + m) /\ Joins(x \o y, x, n, y, m)
  BY Put
<1>2. QED
  BY <1>1 DEF Joins, Keeps, Holds

LEMMA ShortIs ==
  ASSUME NEW v \in Short
  PROVE  Piece(Octet, Names!U16(v), 2) /\ Names!AtU16(Names!U16(v), 0) = v
<1>1. /\ v \div 256 \in Octet /\ v % 256 \in Octet /\ (v \div 256) * 256 + (v % 256) = v
      /\ Piece(Octet, Leasing!U16(v), 2)
  BY ShortBytes
<1>2. Names!U16(v) = Leasing!U16(v)
  BY Zenon DEF Names!U16, Leasing!U16
<1> DEFINE u == Names!U16(v)
<1>3. u[1] = v \div 256 /\ u[2] = v % 256
  BY DEF Names!U16
<1> HIDE DEF u
<1>4. Names!AtU16(u, 0) = v
  <2>1. Names!AtU16(u, 0) = u[1] * 256 + u[2]
    BY DEF Names!AtU16
  <2>2. QED
    BY <1>1, <1>3, <2>1, Zenon
<1>5. QED
  BY <1>1, <1>2, <1>4 DEF u

LEMMA PutShort ==
  ASSUME NEW x, NEW n \in Nat, Piece(Octet, x, n), NEW v \in Short
  PROVE  LET z == x \o Names!U16(v) IN
           Piece(Octet, z, n + 2) /\ Keeps(z, x, n) /\ Names!AtU16(z, n) = v
<1> DEFINE u == Names!U16(v)
           z == x \o u
<1>1. Piece(Octet, u, 2) /\ Names!AtU16(u, 0) = v
  BY ShortIs
<1> HIDE DEF u
<1>2. Piece(Octet, z, n + 2) /\ Keeps(z, x, n) /\ Holds(z, n, u, 2)
  BY <1>1, PutOn
<1> HIDE DEF z
<1>3. z[n + 1] = u[1] /\ z[n + 2] = u[2]
  <2>1. 1 \in 1 .. 2 /\ 2 \in 1 .. 2
    OBVIOUS
  <2>2. QED
    BY <1>2, <2>1 DEF Holds
<1>4. Names!AtU16(z, n) = v
  BY <1>1, <1>3 DEF Names!AtU16
<1>5. QED
  BY <1>2, <1>4 DEF z, u

LEMMA Smalls == 0 \in Short /\ 1 \in Short /\ 16 \in Short /\ 33 \in Short
BY DEF Short

LEMMA KeepsSpelt ==
  ASSUME NEW z, NEW x, NEW n \in Nat, Piece(Octet, x, n), Keeps(z, x, n), NEW name, Len(name) \in Nat,
         NEW o \in Nat, o + Len(name) + 2 <= n, Spells(x, o, name)
  PROVE  Spells(z, o, name)
<1>1. ASSUME NEW k \in 0 .. Len(name) + 1 PROVE Spelt(name, k, z[o + k + 1])
  <2>1. o + k < Len(x) /\ o + k + 1 \in 1 .. n
    BY DEF Piece
  <2>2. z[o + k + 1] = x[o + k + 1] /\ Spelt(name, k, x[o + k + 1])
    BY <2>1 DEF Keeps, Spells
  <2>3. QED
    BY <2>2
<1>2. QED
  BY <1>1 DEF Spells

LEMMA HoldsSpelt ==
  ASSUME NEW z, NEW n \in Nat, NEW y, NEW m, NEW name, Len(name) \in Nat, m = Len(name) + 2,
         Piece(Octet, y, m), Holds(z, n, y, m), Spells(y, 0, name)
  PROVE  Spells(z, n, name)
<1>1. ASSUME NEW k \in 0 .. Len(name) + 1 PROVE Spelt(name, k, z[n + k + 1])
  <2>1. 0 + k < Len(y) /\ k + 1 \in 1 .. m /\ n + (k + 1) = n + k + 1 /\ 0 + k + 1 = k + 1
    BY DEF Piece
  <2>2. z[n + (k + 1)] = y[k + 1]
    BY <2>1 DEF Holds
  <2>3. Spelt(name, k, y[0 + k + 1])
    BY <2>1 DEF Spells
  <2>4. QED
    BY <2>1, <2>2, <2>3
<1>2. QED
  BY <1>1 DEF Spells

\* The header of a question.
LEMMA HeaderIs ==
  ASSUME NEW room
  PROVE  LET h == Names!makeDNSHeader(1, room) IN
           \/ h.rc < 0 /\ h.out = <<>>
           \/ h.rc = 12 /\ Piece(Octet, h.out, 12) /\ h.out[3] = 1 /\ h.out[5] = 0 /\ h.out[6] = 1
<1> DEFINE h == Names!makeDNSHeader(1, room)
           ten == <<1, 0, 0, 1, 0, 0, 0, 0, 0, 0>>
           u == Names!U16(1)
           z == u \o ten
<1>1. h = IF room < 12 THEN Names!Failed(-1) ELSE Names!Wrote(z)
  BY DEF Names!makeDNSHeader
<1>2. Piece(Octet, u, 2)
  BY ShortIs, Smalls
<1>3. Piece(Octet, ten, 10) /\ ten[1] = 1 /\ ten[3] = 0 /\ ten[4] = 1
  BY DEF Piece, Octet
<1> HIDE DEF u, ten
<1>4. Piece(Octet, z, 2 + 10) /\ Holds(z, 2, ten, 10)
  BY <1>2, <1>3, PutOn
<1> HIDE DEF z
<1>5. z[2 + 1] = 1 /\ z[2 + 3] = 0 /\ z[2 + 4] = 1
  <2>1. 1 \in 1 .. 10 /\ 3 \in 1 .. 10 /\ 4 \in 1 .. 10
    OBVIOUS
  <2>2. QED
    BY <1>3, <1>4, <2>1 DEF Holds
<1>6. Piece(Octet, z, 12) /\ z[3] = 1 /\ z[5] = 0 /\ z[6] = 1
  BY <1>4, <1>5
<1>7. CASE room < 12
  BY <1>1, <1>7 DEF Names!Failed, Names!Nothing
<1>8. CASE ~(room < 12)
  <2>1. h = Names!Wrote(z)
    BY <1>1, <1>8
  <2>2. h.out = z /\ h.rc = Len(z)
    BY <2>1 DEF Names!Wrote
  <2>3. Len(z) = 12
    BY <1>6 DEF Piece
  <2> HIDE DEF h
  <2>4. QED
    BY <1>6, <2>2, <2>3 DEF h
<1>9. QED
  BY <1>7, <1>8

\* A question of this type for this name.
Queries(q, type, name) ==
  /\ Piece(Octet, q, Len(name) + 18) /\ QuestionIn(q, name) /\ q[3] = 1
  /\ Names!AtU16(q, Len(name) + 14) = type

LEMMA QueryIs ==
  ASSUME NEW name, Naming(name), NEW type \in Short, NEW room \in Int,
         Names!makeDNSQuery(1, type, name, room).out # <<>>
  PROVE  /\ Queries(Names!makeDNSQuery(1, type, name, room).out, type, name)
         /\ Len(name) + 18 < room /\ ~(Names!writeDomainName(name, room - 12).rc < 0)
<1> DEFINE h == Names!makeDNSHeader(1, room)
           w == Names!writeDomainName(name, room - 12)
           r == Names!makeDNSQuery(1, type, name, room)
           x == h.out \o w.out
           y == x \o Names!U16(type)
           z == y \o Names!U16(1)
           L == Len(name)
<1>1. L \in Nat
  BY DEF Naming
<1>2. r = IF h.rc < 0 THEN h ELSE IF w.rc < 0 THEN w
          ELSE IF h.rc + w.rc + 4 >= room THEN Names!Failed(-1) ELSE Names!Wrote(z)
  BY Zenon DEF Names!makeDNSQuery, Names!In
<1>3. \/ h.rc < 0 /\ h.out = <<>>
      \/ h.rc = 12 /\ Piece(Octet, h.out, 12) /\ h.out[3] = 1 /\ h.out[5] = 0 /\ h.out[6] = 1
  BY HeaderIs
<1>4. \/ w.rc < 0 /\ w.out = <<>>
      \/ w.rc = L + 2 /\ Piece(Octet, w.out, L + 2) /\ Spells(w.out, 0, name)
  <2>1. room - 12 \in Int
    OBVIOUS
  <2>2. QED
    BY <2>1, NameWritten
<1>5. Names!Failed(-1).out = <<>> /\ \A b : Names!Wrote(b).out = b
  BY DEF Names!Failed, Names!Wrote, Names!Nothing
<1> HIDE DEF h, w, r
<1>6. r.out # <<>>
  BY DEF r
<1>7. ~(h.rc < 0) /\ ~(w.rc < 0)
  <2>1. CASE h.rc < 0
    BY <1>2, <1>3, <1>6, <2>1
  <2>2. CASE ~(h.rc < 0) /\ w.rc < 0
    BY <1>2, <1>4, <1>6, <1>1, <2>2
  <2>3. QED
    BY <2>1, <2>2
<1>8. h.rc + w.rc + 4 = L + 18
  BY <1>1, <1>3, <1>4, <1>7
<1>9. ~(L + 18 >= room)
  BY <1>2, <1>5, <1>6, <1>7, <1>8
<1>10. r.out = z
  BY <1>2, <1>5, <1>7, <1>8, <1>9
<1>11. /\ Piece(Octet, h.out, 12) /\ h.out[3] = 1 /\ h.out[5] = 0 /\ h.out[6] = 1
       /\ Piece(Octet, w.out, L + 2) /\ Spells(w.out, 0, name)
  BY <1>3, <1>4, <1>7
<1>12. Piece(Octet, x, L + 14) /\ Keeps(x, h.out, 12) /\ Holds(x, 12, w.out, L + 2)
  <2>1. 12 \in Nat /\ L + 2 \in Nat /\ 12 + (L + 2) = L + 14
    BY <1>1
  <2>2. Piece(Octet, x, 12 + (L + 2)) /\ Keeps(x, h.out, 12) /\ Holds(x, 12, w.out, L + 2)
    BY <1>11, <2>1, PutOn
  <2>3. QED
    BY <2>1, <2>2
<1>13. x[3] = 1 /\ x[5] = 0 /\ x[6] = 1 /\ Spells(x, 12, name)
  <2>1. 3 \in 1 .. 12 /\ 5 \in 1 .. 12 /\ 6 \in 1 .. 12
    OBVIOUS
  <2>2. x[3] = 1 /\ x[5] = 0 /\ x[6] = 1
    BY <1>11, <1>12, <2>1 DEF Keeps
  <2>3. Spells(x, 12, name)
    BY <1>1, <1>11, <1>12, HoldsSpelt
  <2>4. QED
    BY <2>2, <2>3
<1> HIDE DEF x
<1>14. Piece(Octet, y, L + 16) /\ Keeps(y, x, L + 14) /\ Names!AtU16(y, L + 14) = type
  <2>1. L + 14 \in Nat /\ (L + 14) + 2 = L + 16
    BY <1>1
  <2>2. Piece(Octet, y, (L + 14) + 2) /\ Keeps(y, x, L + 14) /\ Names!AtU16(y, L + 14) = type
    BY <1>12, <2>1, PutShort
  <2>3. QED
    BY <2>1, <2>2
<1> HIDE DEF y
<1>15. Piece(Octet, z, L + 18) /\ Keeps(z, y, L + 16)
  <2>1. L + 16 \in Nat /\ (L + 16) + 2 = L + 18
    BY <1>1
  <2>2. Piece(Octet, z, (L + 16) + 2) /\ Keeps(z, y, L + 16)
    BY <1>14, <2>1, PutShort, Smalls
  <2>3. QED
    BY <2>1, <2>2
<1> HIDE DEF z
<1>16. Keeps(z, x, L + 14)
  BY <1>1, <1>14, <1>15, KeepsOn
<1>17. Names!AtU16(z, L + 14) = type
  <2>1. L + 14 \in Nat /\ L + 16 \in Nat /\ L + 14 + 2 <= L + 16
    BY <1>1
  <2>2. QED
    BY <1>14, <1>15, <2>1, KeepsShort
<1>18. z[3] = 1 /\ z[5] = 0 /\ z[6] = 1 /\ Spells(z, 12, name)
  <2>1. 3 \in 1 .. L + 14 /\ 5 \in 1 .. L + 14 /\ 6 \in 1 .. L + 14
    BY <1>1
  <2>2. z[3] = 1 /\ z[5] = 0 /\ z[6] = 1
    BY <1>13, <1>16, <2>1 DEF Keeps
  <2>3. L + 14 \in Nat /\ 12 + L + 2 <= L + 14 /\ 12 \in Nat
    BY <1>1
  <2>4. Spells(z, 12, name)
    BY <1>1, <1>12, <1>13, <1>16, <2>3, KeepsSpelt
  <2>5. QED
    BY <2>2, <2>4
<1>19. Queries(z, type, name)
  <2>1. z \in Seq(Octet)
    BY <1>15 DEF Piece
  <2>2. QED
    BY <1>15, <1>17, <1>18, <2>1 DEF Queries, QuestionIn
<1>20. L + 18 < room
  BY <1>1, <1>9
<1>21. QED
  BY <1>7, <1>10, <1>19, <1>20 DEF r, w

\* The beginning of an answer, with the question in it.
FrontHas(f, name, c) ==
  Piece(Octet, f, Len(name) + 18) /\ QuestionIn(f, name) /\ f[3] = 129 /\ f[4] = c

LEMMA FrontIs ==
  ASSUME NEW name, Naming(name), NEW type, NEW q, Queries(q, type, name), NEW c \in Octet, NEW n \in {0, 1}
  PROVE  LET f == (SubSeq(q, 1, 2) \o <<129, c, 0, 1, 0, n, 0, 0, 0, 0>>) \o SubSeq(q, 13, Len(q)) IN
           FrontHas(f, name, c)
<1> DEFINE L == Len(name)
           id == SubSeq(q, 1, 2)
           flags == <<129, c, 0, 1, 0, n, 0, 0, 0, 0>>
           asking == SubSeq(q, 13, Len(q))
           x == id \o flags
           f == x \o asking
<1>1. L \in Nat /\ Piece(Octet, q, L + 18) /\ QuestionIn(q, name)
  BY DEF Naming, Queries
<1>2. Piece(Octet, id, 2)
  BY <1>1 DEF Piece
<1>3. Piece(Octet, flags, 10) /\ flags[1] = 129 /\ flags[2] = c /\ flags[3] = 0 /\ flags[4] = 1
  <2>1. 129 \in Octet /\ 0 \in Octet /\ 1 \in Octet /\ n \in Octet
    BY DEF Octet
  <2>2. QED
    BY <2>1 DEF Piece
<1>4. Piece(Octet, asking, L + 6) /\ \A i \in 1 .. L + 6 : asking[i] = q[12 + i]
  <2>1. q \in Seq(Octet) /\ Len(q) = L + 18 /\ Len(q) - 13 + 1 = L + 6 /\ 13 <= Len(q) + 1
    BY <1>1 DEF Piece
  <2>2. asking \in Seq(Octet) /\ Len(asking) = L + 6
    BY <1>1, <2>1
  <2>3. ASSUME NEW i \in 1 .. L + 6 PROVE asking[i] = q[12 + i]
    <3>1. asking[i] = q[13 + i - 1]
      BY <1>1, <2>1
    <3>2. 13 + i - 1 = 12 + i
      BY <1>1
    <3>3. QED
      BY <3>1, <3>2
  <2>4. QED
    BY <2>2, <2>3 DEF Piece
<1> HIDE DEF id, flags, asking
<1>5. Piece(Octet, x, 12) /\ Holds(x, 2, flags, 10)
  <2>1. Piece(Octet, x, 2 + 10) /\ Holds(x, 2, flags, 10)
    BY <1>2, <1>3, PutOn
  <2>2. QED
    BY <2>1
<1>6. x[3] = 129 /\ x[4] = c /\ x[5] = 0 /\ x[6] = 1
  <2>1. 1 \in 1 .. 10 /\ 2 \in 1 .. 10 /\ 3 \in 1 .. 10 /\ 4 \in 1 .. 10
    OBVIOUS
  <2>2. x[2 + 1] = flags[1] /\ x[2 + 2] = flags[2] /\ x[2 + 3] = flags[3] /\ x[2 + 4] = flags[4]
    BY <1>5, <2>1 DEF Holds
  <2>3. 2 + 1 = 3 /\ 2 + 2 = 4 /\ 2 + 3 = 5 /\ 2 + 4 = 6
    OBVIOUS
  <2>4. x[3] = flags[1] /\ x[4] = flags[2] /\ x[5] = flags[3] /\ x[6] = flags[4]
    BY <2>2, <2>3, Zenon
  <2>5. QED
    BY <1>3, <2>4, Zenon
<1> HIDE DEF x
<1>7. Piece(Octet, f, L + 18) /\ Keeps(f, x, 12) /\ Holds(f, 12, asking, L + 6)
  <2>1. 12 \in Nat /\ L + 6 \in Nat /\ 12 + (L + 6) = L + 18
    BY <1>1
  <2>2. Piece(Octet, f, 12 + (L + 6)) /\ Keeps(f, x, 12) /\ Holds(f, 12, asking, L + 6)
    BY <1>4, <1>5, <2>1, PutOn
  <2>3. QED
    BY <2>1, <2>2
<1> HIDE DEF f
<1>8. f[3] = 129 /\ f[4] = c /\ f[5] = 0 /\ f[6] = 1
  <2>1. 3 \in 1 .. 12 /\ 4 \in 1 .. 12 /\ 5 \in 1 .. 12 /\ 6 \in 1 .. 12
    OBVIOUS
  <2>2. QED
    BY <1>6, <1>7, <2>1 DEF Keeps
<1>9. Spells(f, 12, name)
  <2>1. ASSUME NEW k \in 0 .. L + 1 PROVE Spelt(name, k, f[12 + k + 1])
    <3>1. k + 1 \in 1 .. L + 6 /\ 12 + (k + 1) = 12 + k + 1 /\ 12 + k < Len(q)
      BY <1>1 DEF Piece
    <3>2. f[12 + (k + 1)] = q[12 + (k + 1)]
      BY <1>4, <1>7, <3>1 DEF Holds
    <3>3. Spelt(name, k, q[12 + k + 1])
      BY <1>1, <3>1 DEF QuestionIn, Spells
    <3>4. QED
      BY <3>1, <3>2, <3>3
  <2>2. QED
    BY <2>1 DEF Spells
<1>10. QED
  <2>1. f \in Seq(Octet)
    BY <1>7 DEF Piece
  <2>2. Piece(Octet, f, Len(name) + 18) /\ QuestionIn(f, name) /\ f[3] = 129 /\ f[4] = c
    BY <1>7, <1>8, <1>9, <2>1 DEF QuestionIn
  <2>3. QED
    BY <2>2 DEF f, x, id, flags, asking, FrontHas

\* A name as the server writes it.
OwnerOf(owner, name, m) ==
  /\ Piece(Octet, owner, m)
  /\ \/ m = 2 /\ owner[1] = 192 /\ owner[2] = 12
     \/ m = Len(name) + 2 /\ Spells(owner, 0, name)

LEMMA OwnerHeld ==
  ASSUME NEW name, Naming(name), NEW m \in Nat, NEW owner, OwnerOf(owner, name, m), NEW z, NEW o \in Nat,
         Holds(z, o, owner, m)
  PROVE  OwnerIn(z, o, name, m)
<1>1. CASE m = 2 /\ owner[1] = 192 /\ owner[2] = 12
  <2>1. 1 \in 1 .. m /\ 2 \in 1 .. m
    BY <1>1
  <2>2. z[o + 1] = 192 /\ z[o + 2] = 12
    BY <1>1, <2>1 DEF Holds
  <2>3. QED
    BY <1>1, <2>2 DEF OwnerIn, PointerAt
<1>2. CASE m = Len(name) + 2 /\ Spells(owner, 0, name)
  <2>1. Spells(z, o, name)
    BY <1>2, HoldsSpelt DEF OwnerOf, Naming
  <2>2. QED
    BY <1>2, <2>1 DEF OwnerIn
<1>3. QED
  BY <1>1, <1>2 DEF OwnerOf

\* A record, with n bytes of data.
RecordHas(t, owner, m, type, n, data) ==
  /\ Piece(Octet, t, m + 10 + n) /\ Keeps(t, owner, m) /\ Holds(t, m + 10, data, n)
  /\ Names!AtU16(t, m) = type /\ Names!AtU16(t, m + 2) = 1 /\ Names!AtU16(t, m + 8) = n

LEMMA RecordIs ==
  ASSUME NEW owner, NEW m \in Nat, Piece(Octet, owner, m), NEW type \in Short,
         NEW n \in Short, NEW data, Piece(Octet, data, n)
  PROVE  LET t == ((((owner \o Names!U16(type)) \o Names!U16(1)) \o <<0, 0, 0, 60>>) \o Names!U16(n)) \o data IN
           RecordHas(t, owner, m, type, n, data)
<1> DEFINE ttl == <<0, 0, 0, 60>>
           a == owner \o Names!U16(type)
           b == a \o Names!U16(1)
           c == b \o ttl
           d == c \o Names!U16(n)
           t == d \o data
<1>1. n \in Nat /\ m + 2 \in Nat /\ m + 4 \in Nat /\ m + 8 \in Nat /\ m + 10 \in Nat
      /\ (m + 2) + 2 = m + 4 /\ (m + 4) + 4 = m + 8 /\ (m + 8) + 2 = m + 10
  BY DEF Short
<1>2. Piece(Octet, a, m + 2) /\ Keeps(a, owner, m) /\ Names!AtU16(a, m) = type
  BY PutShort
<1> HIDE DEF a
<1>3. Piece(Octet, b, m + 4) /\ Keeps(b, a, m + 2) /\ Names!AtU16(b, m + 2) = 1
  <2>1. Piece(Octet, b, (m + 2) + 2) /\ Keeps(b, a, m + 2) /\ Names!AtU16(b, m + 2) = 1
    BY <1>1, <1>2, PutShort, Smalls
  <2>2. QED
    BY <1>1, <2>1
<1> HIDE DEF b
<1>4. Piece(Octet, c, m + 8) /\ Keeps(c, b, m + 4)
  <2>1. Piece(Octet, ttl, 4)
    BY DEF Piece, Octet
  <2> HIDE DEF ttl
  <2>2. Piece(Octet, c, (m + 4) + 4) /\ Keeps(c, b, m + 4)
    BY <1>1, <1>3, <2>1, PutOn
  <2>3. QED
    BY <1>1, <2>2
<1> HIDE DEF c
<1>5. Piece(Octet, d, m + 10) /\ Keeps(d, c, m + 8) /\ Names!AtU16(d, m + 8) = n
  <2>1. Piece(Octet, d, (m + 8) + 2) /\ Keeps(d, c, m + 8) /\ Names!AtU16(d, m + 8) = n
    BY <1>1, <1>4, PutShort
  <2>2. QED
    BY <1>1, <2>1
<1> HIDE DEF d
<1>6. Piece(Octet, t, m + 10 + n) /\ Keeps(t, d, m + 10) /\ Holds(t, m + 10, data, n)
  BY <1>1, <1>5, PutOn
<1> HIDE DEF t
<1>7. Keeps(t, c, m + 8)
  <2>1. m + 8 <= m + 10
    OBVIOUS
  <2>2. QED
    BY <1>1, <1>5, <1>6, <2>1, KeepsOn
<1>8. Keeps(t, b, m + 4)
  <2>1. m + 4 <= m + 8
    OBVIOUS
  <2>2. QED
    BY <1>1, <1>4, <1>7, <2>1, KeepsOn
<1>9. Keeps(t, a, m + 2)
  <2>1. m + 2 <= m + 4
    OBVIOUS
  <2>2. QED
    BY <1>1, <1>3, <1>8, <2>1, KeepsOn
<1>10. Keeps(t, owner, m)
  <2>1. m <= m + 2
    OBVIOUS
  <2>2. QED
    BY <1>1, <1>2, <1>9, <2>1, KeepsOn
<1>11. Names!AtU16(t, m) = Names!AtU16(a, m)
  <2>1. m + 2 <= m + 2
    OBVIOUS
  <2>2. QED
    BY <1>1, <1>9, <2>1, KeepsShort
<1>12. Names!AtU16(t, m + 2) = Names!AtU16(b, m + 2)
  <2>1. (m + 2) + 2 <= m + 4
    OBVIOUS
  <2>2. QED
    BY <1>1, <1>8, <2>1, KeepsShort
<1>13. Names!AtU16(t, m + 8) = Names!AtU16(d, m + 8)
  <2>1. (m + 8) + 2 <= m + 10
    OBVIOUS
  <2>2. QED
    BY <1>1, <1>6, <2>1, KeepsShort
<1>14. RecordHas(t, owner, m, type, n, data)
  BY <1>2, <1>3, <1>5, <1>6, <1>10, <1>11, <1>12, <1>13, Zenon DEF RecordHas
<1>15. QED
  BY <1>14 DEF t, d, c, b, a

\* The data of a service.
LEMMA ServiceIs ==
  ASSUME NEW name, Naming(name), NEW label \in Seq(Char), 0 < Len(label), Len(label) < 64,
         NEW m \in Nat, NEW owner, OwnerOf(owner, name, m),
         NEW v \in Short, NEW w \in Short, NEW x \in Short
  PROVE  LET r == ((((Names!U16(v) \o Names!U16(w)) \o Names!U16(x)) \o <<Len(label)>>) \o label) \o owner IN
           /\ Piece(Octet, r, Len(label) + m + 7)
           /\ Names!AtU16(r, 0) = v /\ Names!AtU16(r, 2) = w /\ Names!AtU16(r, 4) = x
           /\ r[7] = Len(label) /\ Holds(r, 7, label, Len(label)) /\ Holds(r, 7 + Len(label), owner, m)
<1> DEFINE l == Len(label)
           a == Names!U16(v)
           b == a \o Names!U16(w)
           c == b \o Names!U16(x)
           d == c \o <<l>>
           e == d \o label
           r == e \o owner
<1>1. l \in Nat /\ 0 < l /\ l < 64 /\ Piece(Octet, owner, m) /\ Piece(Octet, label, l)
  <2>1. Piece(Char, label, l) /\ l \in Nat
    BY DEF Piece
  <2>2. Char \subseteq Octet
    BY DEF Char, Octet
  <2>3. Piece(Octet, label, l)
    BY <2>1, <2>2, Wider
  <2>4. QED
    BY <2>1, <2>3 DEF OwnerOf
<1> HIDE DEF l
<1>2. Piece(Octet, a, 2) /\ Names!AtU16(a, 0) = v
  BY ShortIs
<1> HIDE DEF a
<1>3. Piece(Octet, b, 4) /\ Keeps(b, a, 2) /\ Names!AtU16(b, 2) = w
  <2>1. Piece(Octet, b, 2 + 2) /\ Keeps(b, a, 2) /\ Names!AtU16(b, 2) = w
    BY <1>2, PutShort
  <2>2. QED
    BY <2>1
<1> HIDE DEF b
<1>4. Piece(Octet, c, 6) /\ Keeps(c, b, 4) /\ Names!AtU16(c, 4) = x
  <2>1. Piece(Octet, c, 4 + 2) /\ Keeps(c, b, 4) /\ Names!AtU16(c, 4) = x
    BY <1>3, PutShort
  <2>2. QED
    BY <2>1
<1> HIDE DEF c
<1>5. Piece(Octet, d, 7) /\ Keeps(d, c, 6) /\ d[7] = l
  <2> DEFINE y == <<l>>
  <2>1. Piece(Octet, y, 1) /\ y[1] = l
    BY <1>1 DEF Piece, Octet
  <2> HIDE DEF y
  <2>2. Piece(Octet, c \o y, 6 + 1) /\ Keeps(c \o y, c, 6) /\ Holds(c \o y, 6, y, 1)
    BY <1>4, <2>1, PutOn
  <2>3. 1 \in 1 .. 1 /\ 6 + 1 = 7
    OBVIOUS
  <2>4. (c \o y)[6 + 1] = y[1]
    BY <2>2, <2>3, Zenon DEF Holds
  <2>5. QED
    BY <2>1, <2>2, <2>3, <2>4 DEF y
<1> HIDE DEF d
<1>6. Piece(Octet, e, 7 + l) /\ Keeps(e, d, 7) /\ Holds(e, 7, label, l)
  BY <1>1, <1>5, PutOn
<1> HIDE DEF e
<1>7. Piece(Octet, r, (7 + l) + m) /\ Keeps(r, e, 7 + l) /\ Holds(r, 7 + l, owner, m)
  <2>1. 7 + l \in Nat
    BY <1>1
  <2>2. QED
    BY <1>1, <1>6, <2>1, PutOn
<1> HIDE DEF r
<1>8. Holds(r, 7, label, l)
  <2>1. 7 + l \in Nat /\ 7 + l <= 7 + l
    BY <1>1
  <2>2. QED
    BY <1>1, <1>6, <1>7, <2>1, HoldsOn
<1>9. Keeps(r, d, 7)
  <2>1. 7 + l \in Nat /\ 7 <= 7 + l
    BY <1>1
  <2>2. QED
    BY <1>6, <1>7, <2>1, KeepsOn
<1>10. r[7] = l
  <2>1. 7 \in 1 .. 7
    OBVIOUS
  <2>2. QED
    BY <1>5, <1>9, <2>1 DEF Keeps
<1>11. Keeps(r, c, 6)
  BY <1>5, <1>9, KeepsOn
<1>12. Keeps(r, b, 4)
  BY <1>4, <1>11, KeepsOn
<1>13. Keeps(r, a, 2)
  BY <1>3, <1>12, KeepsOn
<1>14. Names!AtU16(r, 4) = x
  <2>1. 4 + 2 <= 6 /\ 4 \in Nat /\ 6 \in Nat
    OBVIOUS
  <2>2. Names!AtU16(r, 4) = Names!AtU16(c, 4)
    BY <1>11, <2>1, KeepsShort
  <2>3. QED
    BY <1>4, <2>2
<1>15. Names!AtU16(r, 2) = w
  <2>1. 2 + 2 <= 4 /\ 2 \in Nat /\ 4 \in Nat
    OBVIOUS
  <2>2. Names!AtU16(r, 2) = Names!AtU16(b, 2)
    BY <1>12, <2>1, KeepsShort
  <2>3. QED
    BY <1>3, <2>2
<1>16. Names!AtU16(r, 0) = v
  <2>1. 0 + 2 <= 2 /\ 0 \in Nat /\ 2 \in Nat
    OBVIOUS
  <2>2. Names!AtU16(r, 0) = Names!AtU16(a, 0)
    BY <1>13, <2>1, KeepsShort
  <2>3. QED
    BY <1>2, <2>2
<1>17. Piece(Octet, r, l + m + 7)
  <2>1. (7 + l) + m = l + m + 7
    BY <1>1
  <2>2. QED
    BY <1>7, <2>1
<1>18. QED
  BY <1>7, <1>8, <1>10, <1>14, <1>15, <1>16, <1>17 DEF r, e, d, c, b, a, l

-----------------------------------------------------------------------------
(* What a server answers.                                                    *)

\* The record data for the question q, and its host's first label.
LEMMA RecordsGiven ==
  ASSUME NEW q \in Asked
  PROVE  /\ Naming(q[2]) /\ q[1] \in {1, 16, 33} /\ NameRoom \in Nat
         /\ q[1] = 1 => Piece(Octet, Records[q], 4)
         /\ q[1] = 16 => /\ Piece(Char, Records[q], Len(Records[q])) /\ Len(Records[q]) \in Nat
                         /\ Len(Records[q]) < 256 /\ Len(Records[q]) + 1 <= NameRoom
<1>1. Names!MicroDNSAssumption
  BY LinksAssumption, Zenon
<1>2. NameRoom \in Nat /\ Asked \subseteq {33, 1, 16} \X Seq(Char) /\ Len(q[2]) < 64
  <2>1. Asked \subseteq {Names!SRV, Names!A, Names!TXT} \X Seq(1 .. 255)
    BY <1>1, Zenon DEF Names!MicroDNSAssumption
  <2>2. \A r \in Asked : Len(r[2]) < 64
    BY <1>1, Zenon DEF Names!MicroDNSAssumption
  <2>3. NameRoom \in Nat
    BY <1>1, Zenon DEF Names!MicroDNSAssumption
  <2>4. QED
    BY <2>1, <2>2, <2>3, Zenon DEF Names!SRV, Names!A, Names!TXT, Char
<1>3. q \in {33, 1, 16} \X Seq(Char)
  BY <1>2
<1>4. Naming(q[2]) /\ q[1] \in {1, 16, 33}
  BY <1>2, <1>3 DEF Naming
<1>5. q[1] = 1 => Records[q] \in Seq(Octet) /\ Len(Records[q]) = 4
  BY <1>1, Zenon DEF Names!MicroDNSAssumption, Names!A, Octet
<1>6. q[1] = 16 => Records[q] \in Seq(Char) /\ Len(Records[q]) < 256 /\ Len(Records[q]) < NameRoom
  BY <1>1, Zenon DEF Names!MicroDNSAssumption, Names!TXT, Char
<1>7. q[1] = 16 => Len(Records[q]) \in Nat /\ Len(Records[q]) + 1 <= NameRoom
  BY <1>2, <1>6
<1>8. QED
  BY <1>2, <1>4, <1>5, <1>6, <1>7 DEF Piece

\* The first label of the host in d, a service's data.
ServiceGiven(d, label, name) ==
  /\ label \in Seq(Char) /\ 0 < Len(label) /\ Len(label) < 64
  /\ Len(label) + Len(name) + 2 <= NameRoom /\ ServiceOf(d, label, name)
  /\ d[1] \in Short /\ d[2] \in Short /\ d[3] \in Short

\* A quadruple that ends with h.
Quadruple(d, h) == d = <<d[1], d[2], d[3], h>>

LEMMA Fourth ==
  ASSUME NEW S, NEW h, NEW d, d \in S \X S \X S \X {h}
  PROVE  Quadruple(d, h) /\ d[4] = h /\ d[1] \in S /\ d[2] \in S /\ d[3] \in S
<1>1. PICK a \in S, b \in S, c \in S : d = <<a, b, c, h>>
  OBVIOUS
<1>2. d[1] = a /\ d[2] = b /\ d[3] = c /\ d[4] = h
  BY <1>1
<1>3. Quadruple(d, h)
  BY <1>1, <1>2, Zenon DEF Quadruple
<1>4. QED
  BY <1>2, <1>3, Zenon

LEMMA ServiceIsGiven ==
  ASSUME NEW d, NEW name, Naming(name), NameRoom \in Nat, NEW label, Names!ServiceOf(d, label, name)
  PROVE  ServiceGiven(d, label, name)
<1> DEFINE host == (label \o <<46>>) \o name
           text == Append(label, Period) \o name
<1>1. d \in Short \X Short \X Short \X {host}
  <2>1. Names!Number = Short
    BY DEF Names!Number, Short
  <2>2. d \in Names!Number \X Names!Number \X Names!Number \X {host}
    BY Zenon DEF Names!ServiceOf, Names!Dot
  <2>3. QED
    BY <2>1, <2>2, Zenon
<1>2. label \in Seq((1 .. 255) \ {46}) /\ Len(d[4]) < NameRoom
  BY Zenon DEF Names!ServiceOf, Names!Dot
<1>0. 0 < Len(label) /\ Len(label) < 64 /\ Len(label) \in Nat
  <2>1. Len(label) \in 1 .. 63
    BY Zenon DEF Names!ServiceOf, Names!Dot
  <2>2. \A l \in 1 .. 63 : 0 < l /\ l < 64 /\ l \in Nat
    OBVIOUS
  <2>3. QED
    BY <2>1, <2>2, Zenon
<1>3. Quadruple(d, host) /\ d[4] = host /\ d[1] \in Short /\ d[2] \in Short /\ d[3] \in Short
  BY <1>1, Fourth, Zenon
<1>4. label \in Seq(Char) /\ 0 < Len(label) /\ Len(label) < 64 /\ Len(label) \in Nat
  <2>1. (1 .. 255) \ {46} \subseteq Char
    BY DEF Char
  <2>2. Piece((1 .. 255) \ {46}, label, Len(label))
    BY <1>2, Zenon DEF Piece
  <2>3. Piece(Char, label, Len(label))
    BY <1>0, <2>1, <2>2, Wider
  <2>4. QED
    BY <1>0, <2>3 DEF Piece
<1>5. Append(label, Period) = label \o <<46>>
  BY <1>4 DEF Period
<1>6. text = host
  BY <1>5, Zenon
<1>7. Len(label) + Len(name) + 2 <= NameRoom
  <2>1. name \in Seq(Char) /\ Len(name) \in Nat
    BY DEF Naming
  <2>2. Append(label, Period) \in Seq(Char) /\ Len(Append(label, Period)) = Len(label) + 1
    BY <1>4 DEF Char, Period
  <2>3. Len(text) = Len(label) + 1 + Len(name)
    BY <1>4, <2>1, <2>2
  <2>4. Len(d[4]) = Len(label) + 1 + Len(name)
    BY <1>3, <1>6, <2>3, Zenon
  <2>5. QED
    BY <1>2, <1>4, <2>1, <2>4
<1>8. ServiceOf(d, label, name)
  BY <1>3, <1>6, Zenon DEF ServiceOf, Quadruple
<1>9. QED
  BY <1>3, <1>4, <1>7, <1>8, Zenon DEF ServiceGiven

LEMMA ServicesGiven ==
  ASSUME NEW q \in Asked, q[1] = 33
  PROVE  ServiceGiven(Records[q], Names!FirstLabel(Records[q][4], q[2]), q[2])
<1>1. Names!MicroDNSAssumption /\ Naming(q[2]) /\ NameRoom \in Nat
  BY RecordsGiven, LinksAssumption, Zenon
<1>2. Names!IsService(Records[q], q[2])
  BY <1>1, Zenon DEF Names!MicroDNSAssumption, Names!SRV
<1>3. Names!ServiceOf(Records[q], Names!FirstLabel(Records[q][4], q[2]), q[2])
  BY <1>2, Zenon DEF Names!IsService
<1>4. QED
  BY <1>1, <1>3, ServiceIsGiven, Zenon

\* The data of the record for the question q, in n bytes behind h.
DataOf(b, h, q, m, n) ==
  \/ q[1] = 1 /\ n = 4 /\ DataIn(b, h, Records[q], 4)
  \/ /\ q[1] = 16 /\ n = Len(Records[q]) + 1 /\ (h < Len(b) => b[h + 1] = Len(Records[q]))
     /\ DataIn(b, h + 1, Records[q], Len(Records[q]))
  \/ /\ q[1] = 33
     /\ \E label : /\ ServiceGiven(Records[q], label, q[2]) /\ n = Len(label) + m + 7
                   /\ ServiceIn(b, h, q[2], m, Records[q], label)

\* What a server writes for q behind a name of m bytes.
LEMMA RdataIs ==
  ASSUME NEW q \in Asked, NEW m \in Nat, 0 < m, m < 66, NEW owner, OwnerOf(owner, q[2], m)
  PROVE  LET r == Names!Rdata(q[1], Records[q], q[2], owner) IN
           /\ Len(r) \in Short /\ Piece(Octet, r, Len(r))
           /\ \A b, h : b \in Seq(Octet) /\ h \in Nat /\ Holds(b, h, r, Len(r)) => DataOf(b, h, q, m, Len(r))
<1> DEFINE d == Records[q]
           name == q[2]
           r == Names!Rdata(q[1], d, name, owner)
<1>1. /\ Naming(name) /\ q[1] \in {1, 16, 33} /\ (q[1] = 1 => Piece(Octet, d, 4))
      /\ q[1] = 16 => /\ Piece(Char, d, Len(d)) /\ Len(d) \in Nat /\ Len(d) < 256
  BY RecordsGiven
<1>2. CASE q[1] = 1
  <2>1. r = d
    BY <1>2 DEF Names!Rdata, Names!SRV, Names!A, Names!TXT
  <2> HIDE DEF r, d
  <2>2. Piece(Octet, r, 4) /\ Len(r) = 4
    BY <1>1, <1>2, <2>1 DEF Piece
  <2>3. ASSUME NEW b, NEW h, Holds(b, h, r, 4) PROVE DataOf(b, h, q, m, 4)
    <3>1. DataIn(b, h, d, 4)
      BY <2>1, <2>3 DEF DataIn, Holds
    <3>2. QED
      BY <1>2, <3>1 DEF DataOf, d
  <2>4. 4 \in Short
    BY DEF Short
  <2>5. QED
    BY <2>2, <2>3, <2>4 DEF r, d
<1>3. CASE q[1] = 16
  <2> DEFINE l == Len(d)
             one == <<l>>
  <2>1. r = one \o d
    BY <1>3 DEF Names!Rdata, Names!SRV, Names!A, Names!TXT
  <2>2. Piece(Char, d, l) /\ l \in Nat /\ l < 256
    BY <1>1, <1>3
  <2> HIDE DEF r, d
  <2>3. Piece(Octet, d, l)
    <3>1. Char \subseteq Octet
      BY DEF Char, Octet
    <3>2. QED
      BY <2>2, <3>1, Wider
  <2>4. Piece(Octet, one, 1) /\ one[1] = l
    <3> HIDE DEF l
    <3>1. l \in Octet
      BY <2>2 DEF Octet
    <3>2. QED
      BY <3>1 DEF Piece
  <2> HIDE DEF one
  <2>5. Piece(Octet, r, 1 + l) /\ Keeps(r, one, 1) /\ Holds(r, 1, d, l)
    <3>1. 1 \in Nat
      OBVIOUS
    <3>2. QED
      BY <2>1, <2>2, <2>3, <2>4, <3>1, PutOn
  <2>6. r[1] = l
    <3>1. 1 \in 1 .. 1
      OBVIOUS
    <3>2. QED
      BY <2>4, <2>5, <3>1, Zenon DEF Keeps
  <2>7. Piece(Octet, r, Len(r)) /\ Len(r) = l + 1 /\ l + 1 \in Short /\ l + 1 \in Nat
    BY <2>2, <2>5 DEF Piece, Short
  <2>8. ASSUME NEW b, NEW h \in Nat, Holds(b, h, r, l + 1) PROVE DataOf(b, h, q, m, l + 1)
    <3>1. b[h + 1] = l
      <4>1. 1 \in 1 .. l + 1
        BY <2>2
      <4>2. QED
        BY <2>6, <2>8, <4>1 DEF Holds
    <3>2. Holds(b, h + 1, d, l)
      <4>1. 1 + l <= l + 1 /\ 1 \in Nat
        BY <2>2
      <4>2. QED
        BY <2>2, <2>5, <2>7, <2>8, <4>1, HoldsIn
    <3>3. DataIn(b, h + 1, d, l)
      BY <3>2 DEF DataIn, Holds
    <3>4. QED
      BY <1>3, <3>1, <3>3 DEF DataOf, d
  <2>9. QED
    BY <2>7, <2>8 DEF r, d
<1>4. CASE q[1] = 33
  <2> DEFINE label == Names!FirstLabel(d[4], name)
             l == Len(label)
             s == ((((Names!U16(d[1]) \o Names!U16(d[2])) \o Names!U16(d[3])) \o <<l>>) \o label) \o owner
  <2>1. r = s
    <3>1. r = Names!ServiceData(d, label, owner)
      BY <1>4 DEF Names!Rdata, Names!SRV, Names!A, Names!TXT
    <3>2. QED
      BY <3>1, Zenon DEF Names!ServiceData
  <2>2. ServiceGiven(d, label, name)
    BY <1>4, ServicesGiven
  <2> HIDE DEF r, d, label, s
  <2>3. /\ label \in Seq(Char) /\ 0 < l /\ l < 64 /\ l \in Nat
        /\ d[1] \in Short /\ d[2] \in Short /\ d[3] \in Short
    BY <2>2 DEF ServiceGiven
  <2>4. /\ Piece(Octet, s, l + m + 7)
        /\ Names!AtU16(s, 0) = d[1] /\ Names!AtU16(s, 2) = d[2] /\ Names!AtU16(s, 4) = d[3]
        /\ s[7] = l /\ Holds(s, 7, label, l) /\ Holds(s, 7 + l, owner, m)
    BY <1>1, <2>3, ServiceIs DEF s
  <2>5. Piece(Octet, r, Len(r)) /\ Len(r) = l + m + 7 /\ l + m + 7 \in Short /\ l + m + 7 \in Nat
    BY <2>1, <2>3, <2>4 DEF Piece, Short
  <2>6. ASSUME NEW b, NEW h \in Nat, Holds(b, h, r, l + m + 7) PROVE DataOf(b, h, q, m, l + m + 7)
    <3> DEFINE n == l + m + 7
    <3>1. n \in Nat /\ 7 + l + m <= n /\ 7 + l <= n /\ 0 + 2 <= n /\ 2 + 2 <= n /\ 4 + 2 <= n /\ 7 \in 1 .. n
          /\ l \in Nat
      BY <2>3
    <3>2. Holds(b, h, s, n)
      BY <2>1, <2>6
    <3> HIDE DEF n, l
    <3>3. Names!AtU16(b, h + 0) = d[1] /\ Names!AtU16(b, h + 2) = d[2] /\ Names!AtU16(b, h + 4) = d[3]
      <4>1. \A i \in Nat : i + 2 <= n => Names!AtU16(b, h + i) = Names!AtU16(s, i)
        BY <3>1, <3>2, HoldsShort
      <4>2. QED
        BY <2>4, <3>1, <4>1
    <3>4. b[h + 7] = l
      BY <2>4, <3>1, <3>2 DEF Holds
    <3>5. Holds(b, h + 7, label, l)
      BY <2>4, <3>1, <3>2, HoldsIn
    <3>6. Holds(b, h + (7 + l), owner, m)
      <4>1. 7 + l \in Nat /\ (7 + l) + m <= n
        BY <3>1
      <4>2. QED
        BY <2>4, <3>1, <3>2, <4>1, HoldsIn
    <3>7. h + 7 + l \in Nat /\ h + (7 + l) = h + 7 + l /\ h + 0 = h /\ h + 6 + 1 = h + 7
      BY <3>1
    <3>8. OwnerIn(b, h + 7 + l, name, m)
      BY <1>1, <3>6, <3>7, OwnerHeld
    <3>9. LabelIn(b, h + 6, label)
      BY <3>4, <3>5, <3>7 DEF LabelIn, DataIn, Holds, l
    <3>10. ServiceIn(b, h, name, m, d, label)
      BY <3>3, <3>7, <3>8, <3>9 DEF ServiceIn, ShortIn, l
    <3>11. n = Len(label) + m + 7
      BY DEF n, l
    <3>12. DataOf(b, h, q, m, n)
      BY <1>4, <2>2, <3>10, <3>11, Zenon DEF DataOf, d
    <3>13. QED
      BY <3>12 DEF n
  <2>7. QED
    BY <2>5, <2>6 DEF r, d
<1>5. QED
  BY <1>1, <1>2, <1>3, <1>4

-----------------------------------------------------------------------------
(* Answers.                                                                  *)

\* An answer to the question q: an error, or a record of n bytes of data.
ErrorTo(b, q) == Len(b) = Len(q[2]) + 18 /\ QuestionIn(b, q[2]) /\ b[4] % 16 # 0

RecordTo(b, q, m, n) ==
  /\ b[4] % 16 = 0 /\ 0 < m /\ RecordIn(b, q[2], m, q[1], n)
  /\ Len(b) = DataFrom(q[2], m) + n /\ DataOf(b, DataFrom(q[2], m), q, m, n)

Responds(b, q) ==
  b \in Seq(Octet) /\ b[3] = 129 /\ (ErrorTo(b, q) \/ \E m, n \in Nat : RecordTo(b, q, m, n))

\* A record behind the beginning f of an answer.
RecordBack(b, f, name, m, type, n, data) ==
  /\ b \in Seq(Octet) /\ b[3] = f[3] /\ b[4] = f[4] /\ RecordIn(b, name, m, type, n)
  /\ Len(b) = DataFrom(name, m) + n /\ Holds(b, DataFrom(name, m), data, n)

LEMMA RecordBehind ==
  ASSUME NEW name, Naming(name), NEW f, NEW c, FrontHas(f, name, c), NEW m \in Nat, NEW owner,
         OwnerOf(owner, name, m), NEW type, NEW n \in Nat, NEW data, NEW t, RecordHas(t, owner, m, type, n, data)
  PROVE  RecordBack(f \o t, f, name, m, type, n, data)
<1> DEFINE L == Len(name)
           b == f \o t
           e == L + 18
           k == m + 10 + n
<1>1. L \in Nat /\ e \in Nat /\ k \in Nat /\ L + 18 = e /\ m + 10 + n = k
  BY DEF Naming
<1>0. /\ Piece(Octet, f, e) /\ QuestionIn(f, name)
      /\ Piece(Octet, t, k) /\ Keeps(t, owner, m) /\ Holds(t, m + 10, data, n)
      /\ Names!AtU16(t, m) = type /\ Names!AtU16(t, m + 2) = 1 /\ Names!AtU16(t, m + 8) = n
  BY DEF FrontHas, RecordHas
<1>2. Piece(Octet, b, e + k) /\ Keeps(b, f, e) /\ Holds(b, e, t, k)
  BY <1>0, <1>1, PutOn
<1> HIDE DEF b, k, e, L
<1>3. b \in Seq(Octet) /\ Len(b) = e + k
  BY <1>2 DEF Piece
<1>4. b[3] = f[3] /\ b[4] = f[4] /\ b[5] = f[5] /\ b[6] = f[6]
  <2>1. 3 \in 1 .. e /\ 4 \in 1 .. e /\ 5 \in 1 .. e /\ 6 \in 1 .. e
    BY <1>1
  <2>2. QED
    BY <1>2, <2>1, Zenon DEF Keeps
<1>5. QuestionIn(b, name)
  <2>1. Spells(b, 12, name)
    <3>1. e \in Nat /\ 12 + Len(name) + 2 <= e /\ 12 \in Nat /\ Len(name) \in Nat
      BY <1>1 DEF L
    <3>2. Spells(f, 12, name) /\ Piece(Octet, f, e)
      BY <1>0 DEF QuestionIn
    <3>3. QED
      BY <1>2, <3>1, <3>2, KeepsSpelt
  <2>2. f[5] = 0 /\ f[6] = 1
    BY <1>0, <1>1 DEF Piece, QuestionIn
  <2>3. QED
    BY <1>3, <1>4, <2>1, <2>2 DEF QuestionIn
<1>6. OwnerIn(b, e, name, m)
  <2>1. ASSUME NEW i \in 1 .. m PROVE b[e + i] = owner[i]
    <3>1. i \in 1 .. k
      BY <1>1
    <3>2. QED
      BY <1>0, <1>2, <3>1 DEF Holds, Keeps
  <2>2. Holds(b, e, owner, m)
    BY <2>1 DEF Holds
  <2>3. QED
    BY <1>1, <2>2, OwnerHeld
<1>7. Names!AtU16(b, e + m) = type /\ Names!AtU16(b, e + (m + 2)) = 1 /\ Names!AtU16(b, e + (m + 8)) = n
  <2>1. ASSUME NEW i \in Nat, i + 2 <= k PROVE Names!AtU16(b, e + i) = Names!AtU16(t, i)
    <3>1. i + 1 \in 1 .. k /\ i + 2 \in 1 .. k /\ e + i + 1 = e + (i + 1) /\ e + i + 2 = e + (i + 2)
      BY <1>1, <2>1
    <3>2. b[e + i + 1] = t[i + 1] /\ b[e + i + 2] = t[i + 2]
      BY <1>2, <3>1 DEF Holds
    <3>3. QED
      BY <3>2 DEF Names!AtU16
  <2>2. m + 2 \in Nat /\ m + 8 \in Nat /\ m + 2 <= k /\ (m + 2) + 2 <= k /\ (m + 8) + 2 <= k
    BY <1>1
  <2>3. QED
    BY <1>0, <2>1, <2>2
<1>8. HeadIn(b, e + m, type, n)
  <2>1. e + (m + 2) = e + m + 2 /\ e + (m + 8) = e + m + 8
    BY <1>1
  <2>2. QED
    BY <1>7, <2>1 DEF HeadIn, ShortIn
<1>9. RecordIn(b, name, m, type, n)
  BY <1>5, <1>6, <1>8 DEF RecordIn, e, L
<1>10. DataFrom(name, m) = e + (m + 10) /\ Len(b) = DataFrom(name, m) + n
  BY <1>1, <1>3 DEF DataFrom, k, e, L
<1>11. Holds(b, e + (m + 10), data, n)
  <2>1. m + 10 \in Nat /\ (m + 10) + n <= k
    BY <1>1
  <2>2. QED
    BY <1>0, <1>1, <1>2, <2>1, HoldsIn
<1>12. Holds(b, DataFrom(name, m), data, n)
  BY <1>10, <1>11
<1>13. QED
  BY <1>3, <1>4, <1>9, <1>10, <1>12, Zenon DEF b, RecordBack

\* The name of the question as the server writes it.
LEMMA OwnersAre ==
  ASSUME NEW name, Naming(name), NameRoom \in Nat, NEW short,
         ~(Names!writeDomainName(name, NameRoom - 12).rc < 0)
  PROVE  \E m \in Nat : 0 < m /\ m < 66
           /\ OwnerOf(IF short THEN Names!Pointer(12) ELSE Names!writeDomainName(name, NameRoom).out, name, m)
<1> DEFINE L == Len(name)
           w == Names!writeDomainName(name, NameRoom - 12)
           wide == Names!writeDomainName(name, NameRoom)
           pointer == Names!Pointer(12)
<1>1. L \in Nat /\ L < 64
  BY DEF Naming
<1>2. OwnerOf(pointer, name, 2)
  <2>1. pointer = <<192 + 12 \div 256, 12 % 256>>
    BY DEF Names!Pointer
  <2>2. 192 + 12 \div 256 = 192 /\ 12 % 256 = 12
    OBVIOUS
  <2>3. pointer = <<192, 12>>
    BY <2>1, <2>2
  <2> HIDE DEF pointer
  <2>4. Piece(Octet, pointer, 2) /\ pointer[1] = 192 /\ pointer[2] = 12
    BY <2>3 DEF Piece, Octet
  <2>5. QED
    BY <2>4 DEF OwnerOf
<1>3. wide = w
  <2>1. NameRoom - 12 \in Int /\ NameRoom \in Int /\ NameRoom - 12 <= NameRoom
    OBVIOUS
  <2>2. QED
    BY <2>1, MoreRoom
<1>4. OwnerOf(wide.out, name, L + 2)
  <2>1. NameRoom - 12 \in Int
    OBVIOUS
  <2>2. Piece(Octet, w.out, L + 2) /\ Spells(w.out, 0, name)
    BY <2>1, NameWritten
  <2> HIDE DEF w, wide
  <2>3. QED
    BY <1>3, <2>2 DEF OwnerOf
<1>5. 2 \in Nat /\ 0 < 2 /\ 2 < 66 /\ L + 2 \in Nat /\ 0 < L + 2 /\ L + 2 < 66
  BY <1>1
<1> HIDE DEF wide, pointer, L
<1>6. \E m \in Nat : 0 < m /\ m < 66 /\ OwnerOf(IF short THEN pointer ELSE wide.out, name, m)
  BY <1>2, <1>4, <1>5
<1>7. QED
  BY <1>6 DEF wide, pointer

LEMMA RecordAnswers ==
  ASSUME NEW q \in Asked, NEW f, FrontHas(f, q[2], 128), NEW m \in Nat, 0 < m, m < 66, NEW owner, OwnerOf(owner, q[2], m)
  PROVE  LET r == Names!Rdata(q[1], Records[q], q[2], owner)
             t == ((((owner \o Names!U16(q[1])) \o Names!U16(1)) \o <<0, 0, 0, 60>>) \o Names!U16(Len(r))) \o r
         IN Responds(f \o t, q)
<1> DEFINE name == q[2]
           type == q[1]
           r == Names!Rdata(type, Records[q], name, owner)
           n == Len(r)
           t == ((((owner \o Names!U16(type)) \o Names!U16(1)) \o <<0, 0, 0, 60>>) \o Names!U16(n)) \o r
           b == f \o t
           h == DataFrom(name, m)
<1>1. Naming(name) /\ type \in {1, 16, 33}
  BY RecordsGiven, Zenon
<1>2. /\ n \in Short /\ Piece(Octet, r, n)
      /\ \A z, o : z \in Seq(Octet) /\ o \in Nat /\ Holds(z, o, r, n) => DataOf(z, o, q, m, n)
  BY RdataIs
<1>3. type \in Short /\ n \in Nat
  BY <1>1, <1>2, Smalls DEF Short
<1> HIDE DEF r, n
<1>4. RecordHas(t, owner, m, type, n, r)
  <2>1. Piece(Octet, owner, m)
    BY DEF OwnerOf
  <2>2. QED
    BY <1>2, <1>3, <2>1, RecordIs
<1> HIDE DEF t, name, type
<1>5. RecordBack(b, f, name, m, type, n, r)
  <2>1. FrontHas(f, name, 128) /\ OwnerOf(owner, name, m)
    BY DEF name
  <2>2. QED
    BY <1>1, <1>3, <1>4, <2>1, RecordBehind, Zenon
<1>51. /\ b \in Seq(Octet) /\ b[3] = f[3] /\ b[4] = f[4] /\ RecordIn(b, name, m, type, n)
      /\ Len(b) = h + n /\ Holds(b, h, r, n)
  BY <1>5, Zenon DEF RecordBack
<1> HIDE DEF b
<1>6. h \in Nat
  BY <1>1 DEF DataFrom, Naming
<1>7. DataOf(b, h, q, m, n)
  BY <1>2, <1>51, <1>6, Zenon
<1>8. b[4] % 16 = 0 /\ b[3] = 129
  <2>1. 128 % 16 = 0 /\ f[3] = 129 /\ f[4] = 128
    BY DEF FrontHas
  <2>2. QED
    BY <1>51, <2>1, Zenon
<1>9. RecordTo(b, q, m, n)
  BY <1>51, <1>7, <1>8, Zenon DEF RecordTo, name, type
<1>10. Responds(b, q)
  BY <1>3, <1>51, <1>8, <1>9, Zenon DEF Responds
<1>11. QED
  BY <1>10 DEF b, t, n, r, name, type

\* What the server sends, in whichever form.
LEMMA AnswerIs ==
  ASSUME NEW q \in Asked, Queries(query, q[1], q[2]), Len(q[2]) + 18 < NameRoom,
         ~(Names!writeDomainName(q[2], NameRoom - 12).rc < 0), NEW short \in BOOLEAN, NEW rcode \in {0, 3}
  PROVE  Responds(Names!Answered(short, rcode), q)
<1> DEFINE name == q[2]
           type == q[1]
           n == IF rcode = 0 THEN 1 ELSE 0
           f == (SubSeq(query, 1, 2) \o <<129, 128 + rcode, 0, 1, 0, n, 0, 0, 0, 0>>) \o SubSeq(query, 13, Len(query))
           owner == IF short THEN Names!Pointer(12) ELSE Names!writeDomainName(name, NameRoom).out
           r == Names!Rdata(type, Records[q], name, owner)
           t == ((((owner \o Names!U16(type)) \o Names!U16(1)) \o <<0, 0, 0, 60>>) \o Names!U16(Len(r))) \o r
           b == Names!Answered(short, rcode)
<1>1. Naming(name) /\ type \in {1, 16, 33} /\ NameRoom \in Nat /\ Len(name) \in Nat
  BY RecordsGiven DEF Naming
<1>2. Names!parseDomainName(query, 12, NameRoom).text = name
  <2>1. query \in Seq(Octet) /\ Spells(query, 12, name) /\ Len(query) = Len(name) + 18
    BY DEF Queries, QuestionIn, Piece
  <2>2. 0 < Len(query) /\ NameRoom \in Int /\ Roomy(NameRoom, Len(name) + 1) /\ ~(Len(query) < Len(name) + 14)
    BY <1>1, <2>1 DEF Roomy
  <2> HIDE DEF name
  <2>3. ReadTo(Names!parseDomainName(query, 12, NameRoom), query, name, -1, Len(name) + 14)
    BY <1>1, <2>1, <2>2, ParsesAsked
  <2>4. QED
    BY <2>2, <2>3 DEF ReadTo
<1>3. Names!AtU16(query, Len(query) - 4) = type
  <2>1. Len(query) - 4 = Len(name) + 14
    BY <1>1 DEF Queries, Piece
  <2>2. QED
    BY <2>1 DEF Queries
<1>4. <<type, name>> = q
  <2>1. q \in {33, 1, 16} \X Seq(Char)
    BY LinksAssumption, Zenon DEF Names!MicroDNSAssumption, Names!SRV, Names!A, Names!TXT, Char
  <2>2. QED
    BY <2>1
<1>5. b = f \o (IF rcode # 0 THEN <<>> ELSE t)
  BY <1>2, <1>3, <1>4, ZenonT(40) DEF Names!Answered, Names!In
<1>6. FrontHas(f, name, 128 + rcode)
  <2> DEFINE c == 128 + rcode
  <2>1. n \in {0, 1} /\ c \in Octet
    BY DEF Octet
  <2> HIDE DEF n, name, type, c
  <2>2. Queries(query, type, name)
    BY DEF name, type
  <2>3. FrontHas((SubSeq(query, 1, 2) \o <<129, c, 0, 1, 0, n, 0, 0, 0, 0>>) \o SubSeq(query, 13, Len(query)), name, c)
    BY <1>1, <2>1, <2>2, FrontIs
  <2>4. QED
    BY <2>3 DEF n, c
<1> HIDE DEF f, b
<1>7. CASE rcode = 0
  <2>1. PICK m \in Nat : 0 < m /\ m < 66 /\ OwnerOf(owner, name, m)
    BY <1>1, OwnersAre
  <2>2. FrontHas(f, name, 128)
    BY <1>6, <1>7
  <2>3. b = f \o t
    BY <1>5, <1>7, Zenon
  <2> HIDE DEF owner
  <2>4. Responds(f \o t, q)
    BY <2>1, <2>2, RecordAnswers, Zenon
  <2>5. QED
    BY <2>3, <2>4, Zenon DEF b
<1>8. CASE rcode = 3
  <2>1. f \in Seq(Octet) /\ Len(f) = Len(name) + 18 /\ f[4] % 16 # 0
    BY <1>6, <1>8 DEF Piece, FrontHas
  <2>2. b = f
    <3>1. f \o <<>> = f
      BY <2>1
    <3>2. rcode # 0
      BY <1>8
    <3>3. QED
      BY <1>5, <3>1, <3>2, Zenon
  <2>3. ErrorTo(f, q)
    BY <1>6, <2>1, Zenon DEF ErrorTo, FrontHas
  <2>4. Responds(f, q)
    BY <1>6, <2>1, <2>3, Zenon DEF Responds, FrontHas
  <2>5. QED
    BY <2>2, <2>4, Zenon DEF b
<1>9. QED
  BY <1>7, <1>8

-----------------------------------------------------------------------------
(* What becomes of a packet.                                                 *)

\* The parser for records of this type.
ParsedBy(type, p) ==
  IF type = 33 THEN Names!parseDNSAnswer_SRV(p)
  ELSE IF type = 1 THEN Names!parseDNSAnswer_A(p) ELSE Names!parseDNSAnswer_TXT(p)

LEMMA RefusesIt ==
  ASSUME NEW q \in Asked, NEW p, QuestionIn(p, q[2]), Len(p) <= Len(q[2]) + 18
  PROVE  ParsedBy(q[1], p).rc < 0
<1>1. Naming(q[2]) /\ q[1] \in {1, 16, 33}
  BY RecordsGiven
<1>2. /\ Names!parseDNSAnswer_SRV(p).rc < 0 /\ Names!parseDNSAnswer_A(p).rc < 0
      /\ Names!parseDNSAnswer_TXT(p).rc < 0
  BY <1>1, NoRecord
<1>3. QED
  BY <1>1, <1>2, Zenon DEF ParsedBy

\* An error is refused, in full or cut.
LEMMA ErrorParsed ==
  ASSUME NEW q \in Asked, NEW b \in Seq(Octet), ErrorTo(b, q), NEW p, Under(p, b)
  PROVE  ParsedBy(q[1], p).rc < 0
<1>1. Naming(q[2]) /\ Len(q[2]) \in Nat /\ Len(b) \in Nat /\ Len(p) \in Nat
  BY RecordsGiven DEF Naming, Under
<1>2. Spells(p, 12, q[2])
  <2>1. Spells(b, 12, q[2]) /\ 12 \in Nat
    BY DEF ErrorTo, QuestionIn
  <2>2. QED
    BY <1>1, <2>1, SpellsUnder
<1>3. Len(p) >= 6 => p[5] = 0 /\ p[6] = 1
  <2>1. ASSUME Len(p) >= 6 PROVE p[5] = 0 /\ p[6] = 1
    <3>1. 5 \in 1 .. Len(p) /\ 6 \in 1 .. Len(p) /\ Len(b) >= 6
      BY <1>1, <2>1 DEF Under
    <3>2. b[5] = 0 /\ b[6] = 1
      BY <3>1 DEF ErrorTo, QuestionIn
    <3>3. p[5] = b[5] /\ p[6] = b[6]
      BY <3>1 DEF Under
    <3>4. QED
      BY <3>2, <3>3
  <2>2. QED
    BY <2>1
<1>4. QuestionIn(p, q[2])
  BY <1>2, <1>3 DEF QuestionIn, Under
<1>5. Len(p) <= Len(q[2]) + 18
  BY <1>1 DEF ErrorTo, Under
<1>6. QED
  BY <1>4, <1>5, RefusesIt

\* The record, in full or cut.
LEMMA RecordParsed ==
  ASSUME NEW q \in Asked, NEW b \in Seq(Octet), b[3] = 129, NEW m \in Nat, NEW n \in Nat, RecordTo(b, q, m, n),
         NEW p, Under(p, b)
  PROVE  LET r == ParsedBy(q[1], p) IN
           IF Len(p) = Len(b) THEN r = Names!Got(Len(b), Records[q])
           ELSE r.rc < 0 \/ (q[1] = 1 /\ Len(b) - Len(p) <= 4)
<1> DEFINE name == q[2]
           d == Records[q]
           H == DataFrom(name, m)
           r == ParsedBy(q[1], p)
<1>1. /\ Naming(name) /\ q[1] \in {1, 16, 33} /\ NameRoom \in Nat
      /\ q[1] = 1 => Piece(Octet, Records[q], 4)
      /\ q[1] = 16 => /\ Piece(Char, Records[q], Len(Records[q])) /\ Len(Records[q]) \in Nat
                      /\ Len(Records[q]) < 256 /\ Len(Records[q]) + 1 <= NameRoom
  BY RecordsGiven
<1>2. Len(b) \in Nat /\ Len(p) \in Nat /\ Len(p) <= Len(b) /\ H \in Nat
  BY <1>1 DEF Under, DataFrom, Naming
<1>3. /\ b[4] % 16 = 0 /\ 0 < m /\ RecordIn(b, name, m, q[1], n)
      /\ Len(b) = H + n /\ DataOf(b, H, q, m, n)
  BY Zenon DEF RecordTo
<1> HIDE DEF name, H
<1>4. RecordIn(p, name, m, q[1], n)
  BY <1>1, <1>3, RecordUnder
<1>5. ASSUME Parses(r, p, Len(b), Len(b), d)
      PROVE  IF Len(p) = Len(b) THEN r = Names!Got(Len(b), d) ELSE r.rc < 0
  <2> HIDE DEF r, d
  <2>1. QED
    BY <1>2, <1>5 DEF Parses
<1>6. CASE q[1] = 1 /\ n = 4 /\ DataIn(b, H, d, 4)
  <2>1. Piece(Octet, d, 4) /\ 4 \in Nat
    BY <1>1, <1>6
  <2>2. DataIn(p, H, d, 4)
    BY <1>2, <1>6, <2>1, DataUnder
  <2>3. Parses(Names!parseDNSAnswer_A(p), p, DataFrom(name, m), DataFrom(name, m) + 4, d)
    <3>1. RecordIn(p, name, m, 1, 4) /\ DataIn(p, DataFrom(name, m), d, 4)
      BY <1>4, <1>6, <2>2 DEF H
    <3> HIDE DEF d
    <3>2. QED
      BY <1>1, <2>1, <3>1, ParsesAddress
  <2>4. r = Names!parseDNSAnswer_A(p)
    BY <1>6 DEF ParsedBy
  <2> HIDE DEF r, d
  <2>5. Parses(r, p, H, H + 4, d)
    BY <2>3, <2>4 DEF H
  <2>6. (Len(p) < H => r.rc < 0) /\ (Len(p) = H + 4 => r = Names!Got(H + 4, d))
    BY <2>5, Zenon DEF Parses
  <2>7. Len(b) = H + 4
    BY <1>3, <1>6
  <2>8. CASE Len(p) = Len(b)
    BY <2>6, <2>7, <2>8 DEF r, d
  <2>9. CASE Len(p) < H
    BY <1>2, <2>6, <2>7, <2>9 DEF r, d
  <2>10. CASE H <= Len(p) /\ Len(p) # Len(b)
    <3>1. Len(b) - Len(p) <= 4
      BY <1>2, <2>7, <2>10
    <3>2. QED
      BY <1>6, <2>10, <3>1 DEF r, d
  <2>11. QED
    BY <1>2, <2>8, <2>9, <2>10
<1>7. CASE /\ q[1] = 16 /\ n = Len(Records[q]) + 1 /\ (H < Len(b) => b[H + 1] = Len(Records[q]))
           /\ DataIn(b, H + 1, Records[q], Len(Records[q]))
  <2> DEFINE k == Len(d)
  <2>1. Piece(Char, d, k) /\ k \in Nat /\ k + 1 <= NameRoom
    BY <1>1, <1>7
  <2>2. n = k + 1 /\ (H < Len(b) => b[H + 1] = k) /\ DataIn(b, H + 1, d, k)
    BY <1>7
  <2>3. r = Names!parseDNSAnswer_TXT(p)
    BY <1>7 DEF ParsedBy
  <2> HIDE DEF k, d, r
  <2>4. H + 1 \in Nat
    BY <1>2
  <2>5. DataIn(p, H + 1, d, k)
    BY <1>2, <2>1, <2>2, <2>4, DataUnder
  <2>6. H < Len(p) => p[H + 1] = k
    <3>1. ASSUME H < Len(p) PROVE p[H + 1] = k
      <4>1. H + 1 \in 1 .. Len(p) /\ H < Len(b)
        BY <1>2, <3>1
      <4>2. p[H + 1] = b[H + 1]
        BY <4>1 DEF Under
      <4>3. QED
        BY <2>2, <4>1, <4>2
    <3>2. QED
      BY <3>1
  <2>7. Parses(Names!parseDNSAnswer_TXT(p), p, H + (k + 1), H + (k + 1), d)
    <3>1. RecordIn(p, name, m, 16, k + 1)
      BY <1>4, <1>7, <2>2
    <3>2. DataIn(p, DataFrom(name, m) + 1, d, k) /\ (DataFrom(name, m) < Len(p) => p[DataFrom(name, m) + 1] = k)
      BY <2>5, <2>6 DEF H
    <3>3. QED
      BY <1>1, <2>1, <3>1, <3>2, ParsesText DEF H
  <2>8. Parses(r, p, Len(b), Len(b), d)
    BY <1>3, <2>2, <2>3, <2>7
  <2>9. QED
    BY <1>5, <2>8 DEF d, r
<1>8. CASE /\ q[1] = 33
           /\ \E label : /\ ServiceGiven(Records[q], label, q[2]) /\ n = Len(label) + m + 7
                         /\ ServiceIn(b, H, q[2], m, Records[q], label)
  <2>1. PICK label : /\ ServiceGiven(d, label, name) /\ n = Len(label) + m + 7
                     /\ ServiceIn(b, H, name, m, d, label)
    BY <1>8 DEF name
  <2>2. r = Names!parseDNSAnswer_SRV(p)
    BY <1>8 DEF ParsedBy
  <2> HIDE DEF d, r
  <2>3. /\ label \in Seq(Char) /\ 0 < Len(label) /\ Len(label) < 64 /\ Len(label) \in Nat
        /\ Len(label) + Len(name) + 2 <= NameRoom /\ ServiceOf(d, label, name)
    BY <2>1 DEF ServiceGiven
  <2>4. ServiceIn(p, H, name, m, d, label)
    BY <1>1, <1>2, <2>1, <2>3, ServiceUnder
  <2>5. 3 <= Len(p) => p[3] >= 128
    <3>1. ASSUME 3 <= Len(p) PROVE p[3] = 129
      <4>1. 3 \in 1 .. Len(p)
        BY <1>2, <3>1
      <4>2. QED
        BY <4>1 DEF Under
    <3>2. QED
      BY <3>1
  <2>6. 4 <= Len(p) => p[4] % 16 = 0
    <3>1. ASSUME 4 <= Len(p) PROVE p[4] = b[4]
      <4>1. 4 \in 1 .. Len(p)
        BY <1>2, <3>1
      <4>2. QED
        BY <4>1 DEF Under
    <3>2. QED
      BY <1>3, <3>1
  <2>7. RecordIn(p, name, m, 33, Len(label) + m + 7)
    BY <1>4, <1>8, <2>1
  <2> DEFINE e == DataFrom(name, m) + (Len(label) + m + 7)
  <2>8. Parses(Names!parseDNSAnswer_SRV(p), p, e, e, d)
    <3>1. ServiceIn(p, DataFrom(name, m), name, m, d, label)
      BY <2>4 DEF H
    <3>2. QED
      BY <1>1, <1>3, <2>3, <2>5, <2>6, <2>7, <3>1, ParsesService
  <2>9. e = Len(b)
    BY <1>3, <2>1 DEF H
  <2>10. Parses(r, p, Len(b), Len(b), d)
    BY <2>2, <2>8, <2>9
  <2>11. QED
    BY <1>5, <2>10 DEF d, r
<1>9. QED
  BY <1>3, <1>6, <1>7, <1>8, Zenon DEF DataOf

\* What arrives is the answer or its beginning, or the question.
ComesIn(p, b) == p = query \/ \E n \in 1 .. Len(b) : p = SubSeq(b, 1, n)

LEMMA ArrivedParsed ==
  ASSUME NEW q \in Asked, NEW b, Responds(b, q), Queries(query, q[1], q[2]), NEW p, ComesIn(p, b)
  PROVE  LET r == ParsedBy(q[1], p) IN
           IF p = b /\ b[4] % 16 = 0
           THEN r = Names!Got(Len(b), Records[q])
           ELSE r.rc < 0 \/ (q[1] = 1 /\ p # query /\ b[4] % 16 = 0 /\ Len(b) - Len(p) <= 4)
<1> DEFINE r == ParsedBy(q[1], p)
<1>1. b \in Seq(Octet) /\ b[3] = 129 /\ Len(b) \in Nat
  BY DEF Responds
<1>2. CASE p = query
  <2>1. QuestionIn(p, q[2]) /\ Len(p) = Len(q[2]) + 18 /\ p[3] = 1
    BY <1>2 DEF Queries, Piece
  <2>2. Len(q[2]) \in Nat
    BY RecordsGiven DEF Naming
  <2>3. Len(p) <= Len(q[2]) + 18
    BY <2>1, <2>2
  <2>4. r.rc < 0
    BY <2>1, <2>3, RefusesIt
  <2>5. p # b
    BY <1>1, <2>1
  <2>6. QED
    BY <2>4, <2>5
<1>3. CASE p # query
  <2>1. PICK n \in 1 .. Len(b) : p = SubSeq(b, 1, n)
    BY <1>3 DEF ComesIn
  <2>2. Under(p, b) /\ Len(p) = n
    BY <1>1, <2>1, CutIsUnder
  <2>3. n = Len(b) => p = b
    BY <1>1, <2>1
  <2>4. p = b <=> Len(p) = Len(b)
    BY <1>1, <2>2, <2>3
  <2>5. CASE ErrorTo(b, q)
    <3>1. r.rc < 0
      BY <1>1, <2>2, <2>5, ErrorParsed
    <3>2. ~(b[4] % 16 = 0)
      BY <2>5 DEF ErrorTo
    <3>3. QED
      BY <3>1, <3>2
  <2>6. ASSUME NEW m \in Nat, NEW k \in Nat, RecordTo(b, q, m, k)
        PROVE  IF p = b /\ b[4] % 16 = 0
               THEN r = Names!Got(Len(b), Records[q])
               ELSE r.rc < 0 \/ (q[1] = 1 /\ p # query /\ b[4] % 16 = 0 /\ Len(b) - Len(p) <= 4)
    <3>1. IF Len(p) = Len(b) THEN r = Names!Got(Len(b), Records[q])
          ELSE r.rc < 0 \/ (q[1] = 1 /\ Len(b) - Len(p) <= 4)
      BY <1>1, <2>2, <2>6, RecordParsed
    <3>2. b[4] % 16 = 0
      BY <2>6 DEF RecordTo
    <3> HIDE DEF r
    <3>3. QED
      BY <1>3, <2>4, <3>1, <3>2
  <2>7. QED
    BY <2>5, <2>6 DEF Responds
<1>4. QED
  BY <1>2, <1>3

-----------------------------------------------------------------------------
(* The caller, the server and the network.                                   *)

\* The question that was sent: it had room, and so its name has when the
\* server writes it again.
Sent(q, b) ==
  /\ q \in Asked /\ Queries(b, q[1], q[2]) /\ Len(q[2]) + 18 < NameRoom
  /\ ~(Names!writeDomainName(q[2], NameRoom - 12).rc < 0)

\* What was sent, and what may come back, as bytes.
NamesInv ==
  /\ asked = <<>> => query = <<>>
  /\ query = <<>> => answer = <<>>
  /\ answer = <<>> => packet = <<>>
  /\ packet = <<>> => parsed = Names!Pending
  /\ query # <<>> => Sent(asked, query)
  /\ answer # <<>> => Responds(answer, asked)
  /\ packet # <<>> => ComesIn(packet, answer)
  /\ AnswersAreServers

LEMMA NamesStart ==
  Names!Init => NamesInv
BY DEF Names!Init, NamesInv, Names!Nothing, AnswersAreServers, Names!AnswersAreServers

LEMMA NamesSame ==
  ASSUME NamesInv, UNCHANGED Names!vars
  PROVE  NamesInv'
<1>1. UNCHANGED <<asked, query, answer, packet, parsed>>
  BY DEF Names!vars
<1>2. QED
  BY <1>1 DEF NamesInv, Sent, Responds, ErrorTo, RecordTo, ComesIn, AnswersAreServers, Names!AnswersAreServers

LEMMA AsksFor ==
  ASSUME NamesInv, NEW type \in {33, 1, 16}, Names!Ask(type)
  PROVE  NamesInv'
<1>1. asked = <<>> /\ query = <<>> /\ answer = <<>> /\ packet = <<>> /\ parsed = Names!Pending
  BY DEF NamesInv, Names!Ask, Names!Nothing
<1>2. PICK q \in Asked :
        \E room \in {NameRoom, Len(q[2]) + 18} :
          q[1] = type /\ asked' = q /\ query' = Names!makeDNSQuery(1, type, q[2], room).out
  BY DEF Names!Ask
<1>9. PICK room \in {NameRoom, Len(q[2]) + 18} :
        q[1] = type /\ asked' = q /\ query' = Names!makeDNSQuery(1, type, q[2], room).out
  BY <1>2
<1>3. UNCHANGED <<answer, packet, parsed>>
  BY DEF Names!Ask
<1>4. Naming(q[2]) /\ NameRoom \in Nat /\ Len(q[2]) \in Nat
  BY RecordsGiven DEF Naming
<1>5. ASSUME query' # <<>> PROVE Sent(asked', query')
  <2>1. room \in Int /\ type \in Short
    BY <1>4, Smalls
  <2>2. Names!makeDNSQuery(1, type, q[2], room).out # <<>>
    BY <1>9, <1>5
  <2>3. /\ Queries(Names!makeDNSQuery(1, type, q[2], room).out, type, q[2])
        /\ Len(q[2]) + 18 < room /\ ~(Names!writeDomainName(q[2], room - 12).rc < 0)
    BY <1>4, <2>1, <2>2, QueryIs
  <2>4. room = NameRoom
    BY <1>4, <2>3
  <2>5. QED
    BY <1>9, <2>3, <2>4 DEF Sent
<1>6. AnswersAreServers'
  BY <1>1, <1>3 DEF AnswersAreServers, Names!AnswersAreServers
<1>7. asked' # <<>>
  <2>1. q \in {33, 1, 16} \X Seq(Char)
    BY LinksAssumption, Zenon DEF Names!MicroDNSAssumption, Names!SRV, Names!A, Names!TXT, Char
  <2>2. PICK v \in {33, 1, 16}, n \in Seq(Char) : q = <<v, n>>
    BY <2>1
  <2>3. <<v, n>> # <<>>
    OBVIOUS
  <2>4. QED
    BY <1>9, <2>2, <2>3, Zenon
<1>8. QED
  BY <1>1, <1>3, <1>5, <1>6, <1>7 DEF NamesInv

LEMMA AnswersIt ==
  ASSUME NamesInv, Names!Answer
  PROVE  NamesInv'
<1>1. query # <<>> /\ answer = <<>> /\ packet = <<>> /\ parsed = Names!Pending
  BY DEF NamesInv, Names!Answer, Names!Nothing
<1>2. PICK short \in BOOLEAN, rcode \in {0, 3} : answer' = Names!Answered(short, rcode)
  BY DEF Names!Answer
<1>3. UNCHANGED <<asked, query, packet, parsed>>
  BY DEF Names!Answer
<1>4. Sent(asked, query)
  BY <1>1 DEF NamesInv
<1>5. Responds(answer', asked)
  <2>1. Responds(Names!Answered(short, rcode), asked)
    BY <1>4, AnswerIs DEF Sent
  <2>2. QED
    BY <1>2, <2>1
<1>6. AnswersAreServers'
  BY <1>1, <1>3 DEF AnswersAreServers, Names!AnswersAreServers
<1>7. asked # <<>> /\ Sent(asked, query)' /\ Responds(answer, asked)'
  <2>1. asked # <<>>
    BY <1>1 DEF NamesInv
  <2>2. Sent(asked', query') /\ Responds(answer', asked')
    BY <1>3, <1>4, <1>5
  <2>3. QED
    BY <2>1, <2>2 DEF Sent, Responds, ErrorTo, RecordTo
<1>8. QED
  BY <1>1, <1>3, <1>6, <1>7 DEF NamesInv

LEMMA DeliversIt ==
  ASSUME NamesInv, Names!Deliver
  PROVE  NamesInv'
<1>1. answer # <<>> /\ packet = <<>> /\ parsed = Names!Pending
  BY DEF NamesInv, Names!Deliver, Names!Nothing
<1>2. packet' \in {query} \cup {SubSeq(answer, 1, n) : n \in 1 .. Len(answer)}
  BY DEF Names!Deliver
<1>3. UNCHANGED <<asked, query, answer, parsed>>
  BY DEF Names!Deliver
<1>4. ComesIn(packet, answer)'
  BY <1>2, <1>3 DEF ComesIn
<1>5. AnswersAreServers'
  BY <1>1, <1>3 DEF AnswersAreServers, Names!AnswersAreServers
<1>6. (query # <<>> => Sent(asked, query))' /\ (answer # <<>> => Responds(answer, asked))'
  BY <1>3 DEF NamesInv, Sent, Responds, ErrorTo, RecordTo
<1>7. QED
  BY <1>1, <1>3, <1>4, <1>5, <1>6 DEF NamesInv

LEMMA ParsesIt ==
  ASSUME NamesInv, packet # <<>>, parsed' = ParsedBy(asked[1], packet), UNCHANGED <<asked, query, answer, packet>>
  PROVE  NamesInv'
<1>1. query # <<>> /\ answer # <<>>
  BY DEF NamesInv
<1>2. Sent(asked, query) /\ Responds(answer, asked) /\ ComesIn(packet, answer)
  BY <1>1 DEF NamesInv
<1>3. IF packet = answer /\ answer[4] % 16 = 0
      THEN parsed' = Names!Got(Len(answer), Records[asked])
      ELSE parsed'.rc < 0
           \/ (asked[1] = 1 /\ packet # query /\ answer[4] % 16 = 0 /\ Len(answer) - Len(packet) <= 4)
  BY <1>2, ArrivedParsed DEF Sent
<1>4. AnswersAreServers'
  BY <1>3 DEF AnswersAreServers, Names!AnswersAreServers, Names!A
<1>5. /\ (query # <<>> => Sent(asked, query))' /\ (answer # <<>> => Responds(answer, asked))'
      /\ (packet # <<>> => ComesIn(packet, answer))'
  BY <1>2 DEF Sent, Responds, ErrorTo, RecordTo, ComesIn
<1>6. QED
  BY <1>1, <1>4, <1>5 DEF NamesInv

\* NamesInv is inductive.
LEMMA NamesInductive ==
  NamesInv /\ [Names!Next]_(Names!vars) => NamesInv'
<1> SUFFICES ASSUME NamesInv, [Names!Next]_(Names!vars) PROVE NamesInv'
  OBVIOUS
<1>1. CASE UNCHANGED Names!vars
  BY <1>1, NamesSame
<1>2. CASE Names!Ask(33) \/ Names!Ask(1) \/ Names!Ask(16)
  BY <1>2, AsksFor
<1>3. CASE Names!Answer
  BY <1>3, AnswersIt
<1>4. CASE Names!Deliver
  BY <1>4, DeliversIt
<1>5. CASE Names!Parse(33, Names!parseDNSAnswer_SRV)
  <2>1. /\ packet # <<>> /\ parsed' = ParsedBy(asked[1], packet)
        /\ UNCHANGED <<asked, query, answer, packet>>
    BY <1>5, Zenon DEF Names!Parse, ParsedBy, Names!Nothing
  <2>2. QED
    BY <2>1, ParsesIt
<1>6. CASE Names!Parse(1, Names!parseDNSAnswer_A)
  <2>1. /\ packet # <<>> /\ parsed' = ParsedBy(asked[1], packet) /\ UNCHANGED <<asked, query, answer, packet>>
    BY <1>6 DEF Names!Parse, ParsedBy, Names!Nothing
  <2>2. QED
    BY <2>1, ParsesIt
<1>7. CASE Names!Parse(16, Names!parseDNSAnswer_TXT)
  <2>1. /\ packet # <<>> /\ parsed' = ParsedBy(asked[1], packet) /\ UNCHANGED <<asked, query, answer, packet>>
    BY <1>7 DEF Names!Parse, ParsedBy, Names!Nothing
  <2>2. QED
    BY <2>1, ParsesIt
<1>8. QED
  BY <1>1, <1>2, <1>3, <1>4, <1>5, <1>6, <1>7
     DEF Names!Next, Names!makeDNSQuery_SRV, Names!makeDNSQuery_A, Names!makeDNSQuery_TXT, Names!SRV, Names!A, Names!TXT

\* A whole answer gives the data the server has for the name and type asked
\* for; what was cut, carries an error or is the question itself is refused,
\* but an address with its end cut off (the three parseDNSAnswer functions,
\* parseDomainName(), makeDNSQuery()): for any names, any data and any buffer.
THEOREM AnswersAreServersTheorem ==
  Names!Spec => []AnswersAreServers
<1>1. NamesInv => AnswersAreServers
  BY DEF NamesInv
<1>2. QED
  BY NamesStart, NamesInductive, <1>1, PTL DEF Names!Spec
=============================================================================
