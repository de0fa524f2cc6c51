--------------------------- MODULE MCLinks_proofs ---------------------------
(***************************************************************************)
(* What TLAPS proves of flashing (SWDUtils), for any number of pages, any  *)
(* image that fits and any ROM table.  The inductive invariant FlasherInv  *)
(* ties the host's place in flash_and_verify() to the core: which          *)
(* registers of the call hold their values, which entries of the ROM's     *)
(* table have been read, which mode the flash is in, and which pages are   *)
(* still blank or already compared.                                        *)
(* Then of address resolution (ARPUtils), for any hosts on the segment and *)
(* any frames of other protocols: every frame that passes for ARP names as *)
(* its sender a host with its own MAC (ArpInv).                            *)
(* Then of DHCP (DHCPUtils): a lease is one server's, for any servers,     *)
(* transaction numbers, buffer sizes and number of packets on the net.     *)
(* The lemmas are about bytes: where makeReq() and a server put what they  *)
(* send, where extractIE_raw() stands in its scan behind one element and   *)
(* the next, and what it finds in a packet that was cut.  With them the    *)
(* invariant LeaseInv needs only say whose answers are on the net.         *)
(***************************************************************************)
EXTENDS MCLinks, WellFoundedInduction, TLAPS

\* The number of stages of flash_and_verify().
Last == 8 + 4 * ImagePages

LEMMA Sizes ==
  /\ NPages \in Nat /\ Offset \in Nat /\ ImagePages \in Nat /\ Offset + ImagePages <= NPages
  /\ MaxFaults \in Nat
BY LinksAssumption DEF Flasher!SWDUtilsAssumption

LEMMA PageStages ==
  ASSUME NEW S \in {Flasher!EachPage(Flasher!Program), Flasher!EachPage(Flasher!Compare)}
  PROVE  S \in Seq({S[i] : i \in 1 .. 2 * ImagePages}) /\ Len(S) = 2 * ImagePages
BY Sizes DEF Flasher!EachPage

LEMMA Programs ==
  ASSUME NEW p \in 1 .. ImagePages
  PROVE  /\ Flasher!EachPage(Flasher!Program)[2 * p - 1] = Flasher!Copy(p)
         /\ Flasher!EachPage(Flasher!Program)[2 * p] = Flasher!Program(p)
         /\ Flasher!EachPage(Flasher!Compare)[2 * p - 1] = Flasher!Copy(p)
         /\ Flasher!EachPage(Flasher!Compare)[2 * p] = Flasher!Compare(p)
BY Sizes DEF Flasher!EachPage

\* r is the n elements of s and then the m elements of t.
Chain(r, s, n, t, m) ==
  Len(r) = n + m /\ (\A i \in 1 .. n : r[i] = s[i]) /\ (\A i \in 1 .. m : r[n + i] = t[i])

LEMMA Joined ==
  ASSUME NEW S, NEW T, NEW s \in Seq(S), NEW t \in Seq(T)
  PROVE  s \o t \in Seq(S \cup T) /\ Chain(s \o t, s, Len(s), t, Len(t))
<1>1. s \in Seq(S \cup T)
  OBVIOUS
<1>2. t \in Seq(S \cup T)
  OBVIOUS
<1>3. QED
  BY <1>1, <1>2 DEF Chain

LEMMA Six ==
  ASSUME NEW a, NEW b, NEW c, NEW d, NEW e, NEW f
  PROVE  <<a, b, c, d, e, f>> \in Seq({a, b, c, d, e, f})
OBVIOUS

LEMMA Two ==
  ASSUME NEW a, NEW b PROVE <<a, b>> \in Seq({a, b})
OBVIOUS

\* Where a stage of flash_and_verify() is.
StageAt(n, s) == n \in 1 .. Len(Flasher!flash_and_verify) /\ Flasher!flash_and_verify[n] = s

LEMMA Stages ==
  /\ Len(Flasher!flash_and_verify) = Last
  /\ StageAt(1, Flasher!Stage("vtor", "none", 0)) /\ StageAt(2, Flasher!Stage("table", "none", 0))
  /\ StageAt(3, Flasher!Plain("IF")) /\ StageAt(4, Flasher!Plain("EX"))
  /\ StageAt(5, Flasher!Erase) /\ StageAt(6, Flasher!Plain("FC"))
  /\ \A p \in 1 .. ImagePages :
       StageAt(5 + 2 * p, Flasher!Copy(p)) /\ StageAt(6 + 2 * p, Flasher!Program(p))
  /\ StageAt(7 + 2 * ImagePages, Flasher!Plain("FC"))
  /\ StageAt(8 + 2 * ImagePages, Flasher!Plain("CX"))
  /\ \A p \in 1 .. ImagePages :
       /\ StageAt(7 + 2 * ImagePages + 2 * p, Flasher!Copy(p))
       /\ StageAt(8 + 2 * ImagePages + 2 * p, Flasher!Compare(p))
<1> DEFINE P == Flasher!EachPage(Flasher!Program)
           C == Flasher!EachPage(Flasher!Compare)
<1>1. Len(P) = 2 * ImagePages /\ Len(C) = 2 * ImagePages /\ ImagePages \in Nat
  BY PageStages, Sizes
<1>2. \A p \in 1 .. ImagePages :
        /\ P[2 * p - 1] = Flasher!Copy(p) /\ P[2 * p] = Flasher!Program(p)
        /\ C[2 * p - 1] = Flasher!Copy(p) /\ C[2 * p] = Flasher!Compare(p)
  BY Programs
<1> DEFINE A == << Flasher!Stage("vtor", "none", 0), Flasher!Stage("table", "none", 0),
                   Flasher!Plain("IF"), Flasher!Plain("EX"), Flasher!Erase, Flasher!Plain("FC") >>
           B == << Flasher!Plain("FC"), Flasher!Plain("CX") >>
<1>3. Flasher!flash_and_verify = A \o P \o B \o C
  BY DEF Flasher!flash_and_verify, Flasher!Remap
<1>4. PICK TA, TB, TP, TC : A \in Seq(TA) /\ B \in Seq(TB) /\ P \in Seq(TP) /\ C \in Seq(TC)
  BY PageStages, Six, Two
<1>5. Len(A) = 6 /\ Len(B) = 2
  OBVIOUS
<1> DEFINE AP == A \o P
           APB == AP \o B
           F == APB \o C
<1> HIDE DEF P, C, A, B
<1>6. AP \in Seq(TA \cup TP) /\ Chain(AP, A, Len(A), P, Len(P))
  BY <1>4, Joined
<1> HIDE DEF AP
<1>7. APB \in Seq(TA \cup TP \cup TB) /\ Chain(APB, AP, Len(AP), B, Len(B))
  BY <1>4, <1>6, Joined
<1> HIDE DEF APB
<1>8. Chain(F, APB, Len(APB), C, Len(C))
  BY <1>4, <1>7, Joined
<1>9. Flasher!flash_and_verify = F
  BY <1>3 DEF AP, APB
<1> HIDE DEF F
<1>10. /\ Len(F) = 8 + 4 * ImagePages
       /\ \A i \in 1 .. 6 : F[i] = A[i]
       /\ \A i \in 1 .. 2 * ImagePages : F[6 + i] = P[i] /\ F[8 + 2 * ImagePages + i] = C[i]
       /\ \A i \in 1 .. 2 : F[6 + 2 * ImagePages + i] = B[i]
  <2>1. /\ Len(AP) = 6 + 2 * ImagePages /\ \A i \in 1 .. 6 : AP[i] = A[i]
        /\ \A i \in 1 .. 2 * ImagePages : AP[6 + i] = P[i]
    BY <1>1, <1>5, <1>6 DEF Chain
  <2>2. /\ Len(APB) = 8 + 2 * ImagePages /\ \A i \in 1 .. 6 + 2 * ImagePages : APB[i] = AP[i]
        /\ \A i \in 1 .. 2 : APB[6 + 2 * ImagePages + i] = B[i]
    BY <1>1, <1>5, <1>7, <2>1 DEF Chain
  <2>3. /\ Len(F) = 8 + 4 * ImagePages /\ \A i \in 1 .. 8 + 2 * ImagePages : F[i] = APB[i]
        /\ \A i \in 1 .. 2 * ImagePages : F[8 + 2 * ImagePages + i] = C[i]
    BY <1>1, <1>8, <2>2 DEF Chain
  <2>4. QED
    BY <1>1, <2>1, <2>2, <2>3
<1>11. /\ \A i \in 1 .. 6 : StageAt(i, A[i])
       /\ \A i \in 1 .. 2 * ImagePages :
            StageAt(6 + i, P[i]) /\ StageAt(8 + 2 * ImagePages + i, C[i])
       /\ \A i \in 1 .. 2 : StageAt(6 + 2 * ImagePages + i, B[i])
  BY <1>1, <1>9, <1>10 DEF StageAt
<1>12. StageAt(7 + 2 * ImagePages, B[1]) /\ StageAt(8 + 2 * ImagePages, B[2])
  BY <1>1, <1>11
<1>13. ASSUME NEW p \in 1 .. ImagePages
       PROVE  /\ StageAt(5 + 2 * p, P[2 * p - 1]) /\ StageAt(6 + 2 * p, P[2 * p])
              /\ StageAt(7 + 2 * ImagePages + 2 * p, C[2 * p - 1])
              /\ StageAt(8 + 2 * ImagePages + 2 * p, C[2 * p])
  <2>1. /\ 2 * p \in 1 .. 2 * ImagePages /\ 2 * p - 1 \in 1 .. 2 * ImagePages
        /\ 6 + (2 * p - 1) = 5 + 2 * p
        /\ 8 + 2 * ImagePages + (2 * p - 1) = 7 + 2 * ImagePages + 2 * p
    BY <1>1
  <2>2. QED
    BY <1>11, <2>1
<1>14. Len(Flasher!flash_and_verify) = Last
  BY <1>9, <1>10 DEF Last
<1>15. /\ A[1] = Flasher!Stage("vtor", "none", 0) /\ A[2] = Flasher!Stage("table", "none", 0)
       /\ A[3] = Flasher!Plain("IF") /\ A[4] = Flasher!Plain("EX") /\ A[5] = Flasher!Erase
       /\ A[6] = Flasher!Plain("FC") /\ B[1] = Flasher!Plain("FC") /\ B[2] = Flasher!Plain("CX")
  BY DEF A, B
<1>16. \A i \in {1, 2, 3, 4, 5, 6} : StageAt(i, A[i])
  BY <1>11
<1>17. QED
  BY <1>2, <1>12, <1>13, <1>14, <1>15, <1>16, Zenon

LEMMA StageCases ==
  ASSUME NEW n \in 1 .. Last
  PROVE  \/ n = 1 /\ StageAt(n, Flasher!Stage("vtor", "none", 0))
         \/ n = 2 /\ StageAt(n, Flasher!Stage("table", "none", 0))
         \/ n = 3 /\ StageAt(n, Flasher!Plain("IF"))
         \/ n = 4 /\ StageAt(n, Flasher!Plain("EX"))
         \/ n = 5 /\ StageAt(n, Flasher!Erase)
         \/ n = 6 /\ StageAt(n, Flasher!Plain("FC"))
         \/ \E p \in Flasher!Image : n = 5 + 2 * p /\ StageAt(n, Flasher!Copy(p))
         \/ \E p \in Flasher!Image : n = 6 + 2 * p /\ StageAt(n, Flasher!Program(p))
         \/ n = 7 + 2 * ImagePages /\ StageAt(n, Flasher!Plain("FC"))
         \/ n = 8 + 2 * ImagePages /\ StageAt(n, Flasher!Plain("CX"))
         \/ \E p \in Flasher!Image :
              n = 7 + 2 * ImagePages + 2 * p /\ StageAt(n, Flasher!Copy(p))
         \/ \E p \in Flasher!Image :
              n = 8 + 2 * ImagePages + 2 * p /\ StageAt(n, Flasher!Compare(p))
<1>1. \/ n \in {1, 2, 3, 4, 5, 6, 7 + 2 * ImagePages, 8 + 2 * ImagePages}
      \/ \E p \in 1 .. ImagePages : n = 5 + 2 * p \/ n = 6 + 2 * p
      \/ \E p \in 1 .. ImagePages : n = 7 + 2 * ImagePages + 2 * p \/ n = 8 + 2 * ImagePages + 2 * p
  <2>1. CASE n \in 7 .. 6 + 2 * ImagePages
    <3>1. (n - 5) \div 2 \in 1 .. ImagePages /\ (n = 5 + 2 * ((n - 5) \div 2) \/ n = 6 + 2 * ((n - 5) \div 2))
      BY <2>1, Sizes
    <3>2. QED
      BY <3>1
  <2>2. CASE n \in 9 + 2 * ImagePages .. 8 + 4 * ImagePages
    <3> DEFINE q == (n - 7 - 2 * ImagePages) \div 2
    <3>1. q \in 1 .. ImagePages /\ (n = 7 + 2 * ImagePages + 2 * q \/ n = 8 + 2 * ImagePages + 2 * q)
      BY <2>2, Sizes
    <3>2. QED
      BY <3>1
  <2>3. QED
    BY <2>1, <2>2, Sizes DEF Last
<1>2. QED
  BY <1>1, Stages DEF Flasher!Image

\* What the stage s tells of its number.
StageFact(n, s) ==
  /\ s.kind \in {"vtor", "table", "call", "copy", "compare"}
  /\ s.kind = "vtor" <=> n = 1
  /\ s.kind = "table" <=> n = 2
  /\ s.kind = "call" =>
       /\ s.code \in {"IF", "EX", "RE", "FC", "RP", "CX"}
       /\ \A i \in 1 .. 4 : s.a[i] \in Int
       /\ s.code \in {"IF", "EX"} => n \in {3, 4}
       /\ s.code = "RE" => n = 5 /\ s.a[1] = Offset /\ s.a[2] = ImagePages
       /\ s.code = "FC" => n \in {6, 7 + 2 * ImagePages}
       /\ s.code = "CX" => n = 8 + 2 * ImagePages
       /\ s.code = "RP" => \E p \in Flasher!Image : n = 6 + 2 * p /\ s.a[1] = Offset + p - 1
  /\ s.kind = "copy" =>
       \E p \in Flasher!Image : s.a = p /\ n \in {5 + 2 * p, 7 + 2 * ImagePages + 2 * p}
  /\ s.kind = "compare" =>
       \E p \in Flasher!Image : s.a = p /\ n = 8 + 2 * ImagePages + 2 * p

LEMMA StageFacts ==
  ASSUME NEW n \in 1 .. Last
  PROVE  StageFact(n, Flasher!flash_and_verify[n])
<1> USE Sizes DEF StageAt, Flasher!Plain, Flasher!Call, Flasher!Stage, Flasher!Image
<1> DEFINE s == Flasher!flash_and_verify[n]
<1>1. CASE n = 1 /\ StageAt(n, Flasher!Stage("vtor", "none", 0))
  <2>1. s.kind = "vtor"
    BY <1>1
  <2>2. QED
    BY ONLY <1>1, <2>1 DEF StageFact
<1>2. CASE n = 2 /\ StageAt(n, Flasher!Stage("table", "none", 0))
  <2>1. s.kind = "table"
    BY <1>2
  <2>2. QED
    BY ONLY <1>2, <2>1 DEF StageFact
<1>3. CASE n = 3 /\ StageAt(n, Flasher!Plain("IF"))
  BY <1>3 DEF StageFact
<1>4. CASE n = 4 /\ StageAt(n, Flasher!Plain("EX"))
  BY <1>4 DEF StageFact
<1>5. CASE n = 5 /\ StageAt(n, Flasher!Erase)
  BY <1>5 DEF StageFact, Flasher!Erase
<1>6. CASE n \in {6, 7 + 2 * ImagePages} /\ StageAt(n, Flasher!Plain("FC"))
  BY <1>6 DEF StageFact
<1>7. ASSUME NEW p \in Flasher!Image, n \in {5 + 2 * p, 7 + 2 * ImagePages + 2 * p},
             StageAt(n, Flasher!Copy(p))
      PROVE  StageFact(n, s)
  <2>1. s.kind = "copy" /\ s.a = p
    BY <1>7 DEF Flasher!Copy
  <2>2. n # 1 /\ n # 2
    BY <1>7
  <2> HIDE DEF s
  <2>3. QED
    BY ONLY <1>7, <2>1, <2>2 DEF StageFact
<1>8. ASSUME NEW p \in Flasher!Image, n = 6 + 2 * p, StageAt(n, Flasher!Program(p))
      PROVE  StageFact(n, s)
  <2> DEFINE to == Offset + p - 1
  <2>1. to \in Int
    OBVIOUS
  <2>2. s.kind = "call" /\ s.code = "RP" /\ s.a = <<to, 0, 1, 0>>
    BY <1>8 DEF Flasher!Program
  <2>3. s.a[1] = to /\ \A i \in 1 .. 4 : s.a[i] \in Int
    BY <2>1, <2>2
  <2>4. n # 1 /\ n # 2
    BY <1>8
  <2> HIDE DEF s
  <2>5. s.a[1] = Offset + p - 1
    BY <2>3
  <2>6. QED
    BY ONLY <1>8, <2>2, <2>3, <2>4, <2>5 DEF StageFact
<1>9. CASE n = 8 + 2 * ImagePages /\ StageAt(n, Flasher!Plain("CX"))
  BY <1>9 DEF StageFact
<1>10. ASSUME NEW p \in Flasher!Image, n = 8 + 2 * ImagePages + 2 * p, StageAt(n, Flasher!Compare(p))
       PROVE  StageFact(n, s)
  <2>1. s.kind = "compare" /\ s.a = p
    BY <1>10 DEF Flasher!Compare
  <2>2. n # 1 /\ n # 2
    BY <1>10
  <2> HIDE DEF s
  <2>3. QED
    BY ONLY <1>10, <2>1, <2>2 DEF StageFact
<1> HIDE Sizes DEF StageAt, Flasher!Plain, Flasher!Call, Flasher!Stage, Flasher!Image
<1>11. QED
  BY <1>1, <1>2, <1>3, <1>4, <1>5, <1>6, <1>7, <1>8, <1>9, <1>10, StageCases
-----------------------------------------------------------------------------
(* The accesses of a call.                                                  *)

Reg(c, j) == Flasher!Registers(c)[j][1]
Val(c, j) == Flasher!Registers(c)[j][2]

\* What the i-th access of the call c is.
CallFact(c, i, a) ==
  /\ \A j \in 1 .. 8 :
       /\ i = 3 * j - 2 => a.kind = "data" /\ a.val = Val(c, j)
       /\ i = 3 * j - 1 => a.kind = "write" /\ a.reg = Reg(c, j)
       /\ i = 3 * j => a.kind = "poll"
  /\ i \in {25, 26} => a.kind = "dfsr"
  /\ i = 27 => a.kind = "resume"
  /\ i = 28 => a.kind = "wait"
  /\ i = 29 => a.kind = "ask" /\ a.reg = "r0"
  /\ i = 30 => a.kind = "poll"
  /\ i = 31 => a.kind = "get"

LEMMA Transfers ==
  ASSUME NEW c, NEW j \in 1 .. 8
  PROVE  LET S == Flasher!SetRegs(Flasher!Registers(c)) IN
         /\ S \in Seq({S[i] : i \in 1 .. 24}) /\ Len(S) = 24
         /\ S[3 * j - 2].kind = "data" /\ S[3 * j - 2].val = Val(c, j)
         /\ S[3 * j - 1].kind = "write" /\ S[3 * j - 1].reg = Reg(c, j)
         /\ S[3 * j].kind = "poll"
<1> DEFINE R == Flasher!Registers(c)
           S == Flasher!SetRegs(R)
<1>1. Len(R) = 8
  BY DEF Flasher!Registers
<1>2. Reg(c, j) = R[j][1] /\ Val(c, j) = R[j][2]
  BY DEF Reg, Val
<1> HIDE DEF R
<1>3. S \in Seq({S[i] : i \in 1 .. 24}) /\ Len(S) = 24
  BY <1>1 DEF Flasher!SetRegs
<1>4. /\ S[3 * j - 2].kind = "data" /\ S[3 * j - 2].val = R[j][2]
      /\ S[3 * j - 1].kind = "write" /\ S[3 * j - 1].reg = R[j][1]
      /\ S[3 * j].kind = "poll"
  <2>1. /\ 3 * j - 2 \in 1 .. 24 /\ (3 * j - 2 + 2) \div 3 = j /\ (3 * j - 2 - 1) % 3 = 0
        /\ 3 * j - 1 \in 1 .. 24 /\ (3 * j - 1 + 2) \div 3 = j /\ (3 * j - 1 - 1) % 3 = 1
        /\ 3 * j \in 1 .. 24 /\ (3 * j + 2) \div 3 = j /\ (3 * j - 1) % 3 = 2
    OBVIOUS
  <2>2. S[3 * j - 2].kind = "data" /\ S[3 * j - 2].val = R[j][2]
    BY <1>1, <2>1 DEF Flasher!SetRegs, Flasher!Do
  <2>3. S[3 * j - 1].kind = "write" /\ S[3 * j - 1].reg = R[j][1]
    BY <1>1, <2>1 DEF Flasher!SetRegs, Flasher!Do
  <2>4. S[3 * j].kind = "poll"
    BY <1>1, <2>1 DEF Flasher!SetRegs, Flasher!Do
  <2>5. QED
    BY <2>2, <2>3, <2>4
<1>5. QED
  BY <1>2, <1>3, <1>4 DEF R

LEMMA Seven ==
  ASSUME NEW a, NEW b, NEW c, NEW d, NEW e, NEW f, NEW g
  PROVE  <<a, b, c, d, e, f, g>> \in Seq({a, b, c, d, e, f, g})
OBVIOUS

LEMMA CallAccesses ==
  ASSUME NEW c
  PROVE  /\ Len(Flasher!call_function(c)) = 31
         /\ \A i \in 1 .. 31 : CallFact(c, i, Flasher!call_function(c)[i])
<1> DEFINE S == Flasher!SetRegs(Flasher!Registers(c))
           T == << Flasher!Do("dfsr", "none", 0, -17), Flasher!Do("dfsr", "none", 0, -13),
                   Flasher!Do("resume", "none", 0, -13), Flasher!Do("wait", "none", 0, -14),
                   Flasher!Do("ask", "r0", 0, -15), Flasher!Do("poll", "r0", 0, -16),
                   Flasher!Do("get", "r0", 0, -17) >>
           F == S \o T
<1>1. Flasher!call_function(c) = F
  BY DEF Flasher!call_function
<1>2. /\ T[1].kind = "dfsr" /\ T[2].kind = "dfsr" /\ T[3].kind = "resume" /\ T[4].kind = "wait"
      /\ T[5].kind = "ask" /\ T[5].reg = "r0" /\ T[6].kind = "poll" /\ T[7].kind = "get"
  BY DEF Flasher!Do
<1>3. PICK A, B : S \in Seq(A) /\ T \in Seq(B)
  <2>1. 1 \in 1 .. 8
    OBVIOUS
  <2>2. S \in Seq({S[i] : i \in 1 .. 24})
    BY <2>1, Transfers
  <2> HIDE DEF S
  <2>3. \E B : T \in Seq(B)
    BY Seven
  <2> HIDE DEF T
  <2>4. QED
    BY <2>2, <2>3
<1>4. Len(S) = 24 /\ Len(T) = 7
  <2>1. 1 \in 1 .. 8
    OBVIOUS
  <2>2. QED
    BY <2>1, Transfers
<1>5. \A j \in 1 .. 8 :
         /\ S[3 * j - 2].kind = "data" /\ S[3 * j - 2].val = Val(c, j)
         /\ S[3 * j - 1].kind = "write" /\ S[3 * j - 1].reg = Reg(c, j)
         /\ S[3 * j].kind = "poll"
  BY Transfers
<1> HIDE DEF S, T
<1>6. Chain(F, S, Len(S), T, Len(T))
  BY <1>3, Joined
<1> HIDE DEF F
<1>7. Len(F) = 31 /\ \A i \in 1 .. 24 : F[i] = S[i]
  BY <1>4, <1>6 DEF Chain
<1>8. /\ F[25] = T[1] /\ F[26] = T[2] /\ F[27] = T[3] /\ F[28] = T[4] /\ F[29] = T[5]
      /\ F[30] = T[6] /\ F[31] = T[7]
  BY <1>4, <1>6 DEF Chain
<1>9. ASSUME NEW i \in 1 .. 31
      PROVE  CallFact(c, i, F[i])
  <2>1. CASE i \in 1 .. 24
    BY <1>5, <1>7, <2>1 DEF CallFact
  <2>2. CASE i \in 25 .. 31
    BY <1>2, <1>8, <2>2 DEF CallFact
  <2>3. QED
    BY <2>1, <2>2
<1>10. QED
  BY <1>1, <1>7, <1>9

\* The registers of the call, and what is put into them.
LEMMA RegisterNames ==
  ASSUME NEW c
  PROVE  /\ Reg(c, 1) = "r7" /\ Val(c, 1) = found[c.code]
         /\ Reg(c, 2) = "r0" /\ Val(c, 2) = c.a[1]
         /\ Reg(c, 3) = "r1" /\ Val(c, 3) = c.a[2]
         /\ Reg(c, 4) = "r2" /\ Val(c, 4) = c.a[3]
         /\ Reg(c, 5) = "r3" /\ Val(c, 5) = c.a[4]
         /\ Reg(c, 6) = "msp" /\ Val(c, 6) = Flasher!MSP
         /\ Reg(c, 7) = "xpsr" /\ Val(c, 7) = Flasher!EPSR
         /\ Reg(c, 8) = "pc" /\ Val(c, 8) = found["DT"]
BY DEF Reg, Val, Flasher!Registers
-----------------------------------------------------------------------------
(* The inductive invariant.  A stage is done when its routine has run, or   *)
(* when the host has left it.                                               *)

CoreType ==
  [run : BOOLEAN, debug : BOOLEAN, vc : BOOLEAN, rst : BOOLEAN, dcrdr : Int,
   xfer : [reg : Flasher!Regs \cup {"none"}, dir : {"none", "read", "write"}],
   regs : [Flasher!Regs -> Int]]

FlashType ==
  /\ job \in {"reset_into_debug", "flash_and_verify", "reset"}
  /\ stage \in 1 .. Last /\ at \in 1 .. Len(Flasher!Accesses) /\ result \in Int
  /\ found \in [Flasher!Codes -> Int] /\ mismatch \in BOOLEAN
  /\ core \in CoreType /\ flash \in [Flasher!Page -> Int] /\ ram \in Int /\ table \in Tables /\ failures \in Nat

Idle == core.xfer = Flasher!NoTransfer

\* Before and after the program talks to the ROM, none of its routines can run.
Outside ==
  /\ job # "flash_and_verify" => Idle
  /\ job = "reset_into_debug" =>
       /\ found = Flasher!Missing /\ ~mismatch
       /\ at = 1 => ~core.debug
       /\ at > 1 => core.debug /\ ~core.run
       /\ at > 2 => core.vc
       /\ core.rst => result = 0
       /\ result = 0 => at = 3
  /\ job = "reset" =>
       /\ at < 3 => ~core.run /\ ~core.rst
       /\ at = 3 => ~core.debug

\* The core runs only while the host waits for the routine of a call.
Inside ==
  job = "flash_and_verify" =>
    /\ core.debug /\ ~core.rst
    /\ core.run => Flasher!now.kind = "call" /\ at = 28
    /\ Flasher!now.kind # "call" => Idle
    /\ result = 0 => stage = Last /\ at = Len(Flasher!Accesses)

\* Of the ROM's table, what is read before the k-th access has been read; the
\* (2 i + 1)-th is that of the address of entry i.
FoundUpTo(k) ==
  /\ \A i \in DOMAIN table : table[i][1] \in Flasher!Codes =>
       found[table[i][1]] = IF 2 * i + 1 < k THEN table[i][2] ELSE 0
  /\ \A c \in Flasher!Codes : ~Flasher!Has(table, c) => found[c] = 0

Search ==
  job = "flash_and_verify" =>
    FoundUpTo(IF stage = 1 THEN 0 ELSE IF stage = 2 THEN at ELSE 2 * Len(table) + 3)

\* A call's registers are written one after the other through DCRDR.
Planted(c) ==
  /\ \A j \in 1 .. 8 :
       /\ (3 * j < at \/ (3 * j = at /\ Idle)) => core.regs[Reg(c, j)] = Val(c, j)
       /\ (3 * j - 1 = at \/ (3 * j = at /\ ~Idle)) => core.dcrdr = Val(c, j)
  /\ \/ Idle
     \/ \E j \in 1 .. 8 : 3 * j = at /\ core.xfer = [reg |-> Reg(c, j), dir |-> "write"]
     \/ at = 30 /\ core.xfer = [reg |-> "r0", dir |-> "read"]

Calling ==
  job = "flash_and_verify" /\ Flasher!now.kind = "call" => Planted(Flasher!now)

Done ==
  IF result = 0 \/ (Flasher!now.kind = "call" /\ (at > 28 \/ (at = 28 /\ ~core.run)))
  THEN stage ELSE stage - 1

\* What the stages that are done have left behind.
FlashMode(n) ==
  /\ n \in 3 .. 5 => mode = "serial"
  /\ n \in 6 .. 6 + 2 * ImagePages => mode \in {"serial", "flushed"}
  /\ n = 7 + 2 * ImagePages => mode = "flushed"
  /\ n >= 8 + 2 * ImagePages => mode = "xip"

BlankAhead(n) ==
  n >= 5 => \A p \in Flasher!Image : 6 + 2 * p > n => flash[Offset + p - 1] = Flasher!Blank

Compared(n) ==
  mismatch <=> \E p \in Flasher!Image :
                 8 + 2 * ImagePages + 2 * p <= n /\ flash[Offset + p - 1] # p

Behind ==
  job = "flash_and_verify" => FlashMode(Done) /\ BlankAhead(Done) /\ Compared(Done)

Copied ==
  job = "flash_and_verify" /\ Flasher!now.kind = "compare" => ram = Flasher!now.a

FlasherInv ==
  FlashType /\ Outside /\ Inside /\ Search /\ Calling /\ Behind /\ Copied

-----------------------------------------------------------------------------
(* What the invariant says of the three properties.                         *)

LEMMA AccessesOf ==
  /\ job = "reset_into_debug" => Flasher!Accesses = Flasher!reset_into_debug
  /\ job = "reset" => Flasher!Accesses = Flasher!reset
  /\ job = "flash_and_verify" =>
       /\ Flasher!now.kind = "vtor" =>
            Flasher!Accesses = << Flasher!Do("vtor", "none", 0, -12) >>
       /\ Flasher!now.kind = "table" =>
            Flasher!Accesses = [i \in 1 .. 2 * Len(table) + 3 |-> Flasher!TableAccess(i)]
       /\ Flasher!now.kind = "call" => Flasher!Accesses = Flasher!call_function(Flasher!now)
       /\ Flasher!now.kind \in {"copy", "compare"} =>
            Flasher!Accesses = << Flasher!Do(Flasher!now.kind, "none", Flasher!now.a, -1) >>
BY DEF Flasher!Accesses

LEMMA RunsAsAskedHolds ==
  FlasherInv => RunsAsAsked
<1> SUFFICES ASSUME FlasherInv, job = "flash_and_verify", core.run
             PROVE  /\ Flasher!now.kind = "call"
                    /\ core.regs.r7 = found[Flasher!now.code] /\ core.regs.pc = found["DT"]
                    /\ core.regs.r0 = Flasher!now.a[1] /\ core.regs.r1 = Flasher!now.a[2]
                    /\ core.regs.r2 = Flasher!now.a[3] /\ core.regs.r3 = Flasher!now.a[4]
                    /\ core.regs.msp = Flasher!MSP /\ core.regs.xpsr = Flasher!EPSR
  BY DEF RunsAsAsked, Flasher!RunsAsAsked
<1>1. Flasher!now.kind = "call" /\ at = 28
  BY DEF FlasherInv, Inside
<1>2. \A j \in 1 .. 8 : core.regs[Reg(Flasher!now, j)] = Val(Flasher!now, j)
  BY <1>1 DEF FlasherInv, Calling, Planted
<1>3. QED
  BY <1>1, <1>2, RegisterNames

LEMMA ReportsBadPagesHolds ==
  FlasherInv => ReportsBadPages
<1> SUFFICES ASSUME FlasherInv, job = "flash_and_verify", result = 0
             PROVE  mismatch <=> ~Flasher!Flashed
  BY DEF ReportsBadPages, Flasher!ReportsBadPages
<1>1. stage = Last /\ Done = Last
  BY DEF FlasherInv, Inside, Done
<1>2. Compared(Last)
  BY <1>1 DEF FlasherInv, Behind
<1>3. \A p \in Flasher!Image : 8 + 2 * ImagePages + 2 * p <= Last
  BY Sizes DEF Flasher!Image, Last
<1>4. QED
  BY <1>2, <1>3 DEF Compared, Flasher!Flashed

LEMMA Starts ==
  Flasher!Init => FlasherInv
<1> SUFFICES ASSUME Flasher!Init PROVE FlasherInv
  OBVIOUS
<1> USE DEF Flasher!Init
<1>1. Flasher!Accesses = Flasher!reset_into_debug /\ Len(Flasher!reset_into_debug) = 3
  BY AccessesOf DEF Flasher!reset_into_debug
<1>2. FlashType
  <2>1. stage \in 1 .. Last
    BY Sizes DEF Last
  <2>2. found \in [Flasher!Codes -> Int]
    BY DEF Flasher!Missing
  <2>3. flash \in [Flasher!Page -> Int]
    BY DEF Flasher!Old
  <2>4. core \in CoreType
    BY DEF CoreType, Flasher!NoTransfer
  <2>5. mismatch \in BOOLEAN
    BY Zenon
  <2> HIDE DEF Flasher!Init
  <2>6. /\ job = "reset_into_debug" /\ at = 1 /\ result = 1 /\ ram = -2 /\ table \in Tables
        /\ failures = 0
    BY DEF Flasher!Init, Flasher!NotYet, Flasher!Old
  <2>7. QED
    BY <1>1, <2>1, <2>2, <2>3, <2>4, <2>5, <2>6 DEF FlashType
<1>3. Outside
  BY DEF Outside, Idle, Flasher!NotYet
<1>4. QED
  BY <1>2, <1>3 DEF FlasherInv, Inside, Search, Calling, Behind, Copied
-----------------------------------------------------------------------------
(* The core's steps.                                                        *)

LEMMA HostKept ==
  ASSUME UNCHANGED <<Flasher!hostVars, table>>
  PROVE  /\ job' = job /\ stage' = stage /\ at' = at /\ found' = found
         /\ (mismatch' <=> mismatch) /\ (mismatch \in BOOLEAN => mismatch' \in BOOLEAN)
         /\ result' = result
         /\ Flasher!now' = Flasher!now /\ Flasher!Accesses' = Flasher!Accesses
         /\ \A c, j : Reg(c, j)' = Reg(c, j) /\ Val(c, j)' = Val(c, j)
<1>1. UNCHANGED <<job, stage, at, found, result, table>>
  BY DEF Flasher!hostVars
<1>2. mismatch' = mismatch
  BY DEF Flasher!hostVars
<1>3. (mismatch' <=> mismatch) /\ (mismatch \in BOOLEAN => mismatch' \in BOOLEAN)
  BY <1>2, Zenon
<1>4. Flasher!now' = Flasher!now
  BY <1>1 DEF Flasher!now
<1>5. Flasher!Accesses' = Flasher!Accesses
  BY <1>1, <1>4 DEF Flasher!Accesses, Flasher!call_function, Flasher!Registers
<1>6. \A c, j : Reg(c, j)' = Reg(c, j) /\ Val(c, j)' = Val(c, j)
  BY <1>1 DEF Reg, Val, Flasher!Registers
<1>7. QED
  BY <1>1, <1>3, <1>4, <1>5, <1>6

LEMMA RegisterFacts ==
  ASSUME NEW c, NEW j \in 1 .. 8
  PROVE  Reg(c, j) \in Flasher!Regs /\ \A i \in 1 .. 8 : Reg(c, i) = Reg(c, j) => i = j
BY RegisterNames DEF Flasher!Regs

\* A transfer ends: the register of the call that it was for is written.
LEMMA TransferStep ==
  ASSUME FlasherInv, Flasher!core_transfer
  PROVE  FlasherInv'
<1> USE DEF Flasher!core_transfer
<1>1. job = "flash_and_verify" /\ Flasher!now.kind = "call" /\ ~Idle /\ ~core.run
  BY DEF FlasherInv, Outside, Inside, Idle
<1>2. UNCHANGED <<Flasher!hostVars, table>> /\ UNCHANGED <<flash, mode, ram, table, failures>>
  OBVIOUS
<1>3. /\ core' \in CoreType /\ (core'.run <=> core.run) /\ (core'.debug <=> core.debug)
      /\ (core'.rst <=> core.rst) /\ core'.xfer = Flasher!NoTransfer
  <2>1. core \in CoreType /\ Planted(Flasher!now)
    BY <1>1 DEF FlasherInv, FlashType, Calling
  <2>2. core.xfer.reg \in Flasher!Regs
    <3>1. ASSUME NEW k \in 1 .. 8, core.xfer = [reg |-> Reg(Flasher!now, k), dir |-> "write"]
          PROVE  core.xfer.reg \in Flasher!Regs
      BY <3>1, RegisterFacts
    <3>2. CASE core.xfer = [reg |-> "r0", dir |-> "read"]
      BY <3>2 DEF Flasher!Regs
    <3>3. QED
      BY <1>1, <2>1, <3>1, <3>2 DEF Planted
  <2>3. core.dcrdr \in Int /\ core.regs \in [Flasher!Regs -> Int]
    BY <2>1 DEF CoreType
  <2>4. [core.regs EXCEPT ![core.xfer.reg] = core.dcrdr] \in [Flasher!Regs -> Int]
    BY <2>2, <2>3
  <2>5. core.regs[core.xfer.reg] \in Int
    BY <2>2, <2>3
  <2>6. CASE core.xfer.dir = "write"
    BY <2>1, <2>4, <2>6 DEF CoreType, Flasher!NoTransfer
  <2>7. CASE core.xfer.dir # "write"
    BY <2>1, <2>5, <2>7 DEF CoreType, Flasher!NoTransfer
  <2>8. QED
    BY <2>6, <2>7
<1>4. Planted(Flasher!now)'
  <2> DEFINE c == Flasher!now
  <2>1. Planted(c) /\ core \in CoreType
    BY <1>1 DEF FlasherInv, Calling, FlashType
  <2> HIDE DEF c
  <2>2. c' = c /\ at' = at /\ \A j : Reg(c, j)' = Reg(c, j) /\ Val(c, j)' = Val(c, j)
    BY <1>2, HostKept DEF c
  <2>3. ASSUME NEW k \in 1 .. 8, 3 * k = at, core.xfer = [reg |-> Reg(c, k), dir |-> "write"]
        PROVE  Planted(c)'
    <3>1. core'.regs = [core.regs EXCEPT ![Reg(c, k)] = core.dcrdr] /\ core'.dcrdr = core.dcrdr
      BY <2>1, <2>3 DEF CoreType
    <3>2. core.dcrdr = Val(c, k)
      BY <1>1, <2>1, <2>3 DEF Planted
    <3>3. \A j \in 1 .. 8 : j # k => core'.regs[Reg(c, j)] = core.regs[Reg(c, j)]
      BY <2>1, <3>1, RegisterFacts DEF CoreType
    <3>4. core'.regs[Reg(c, k)] = Val(c, k)
      BY <2>1, <3>1, <3>2, RegisterFacts DEF CoreType
    <3>5. QED
      BY <1>1, <1>3, <2>1, <2>2, <2>3, <3>2, <3>3, <3>4 DEF Planted, Idle
  <2>4. ASSUME at = 30, core.xfer = [reg |-> "r0", dir |-> "read"]
        PROVE  Planted(c)'
    <3>1. core'.regs = core.regs
      BY <2>1, <2>4 DEF CoreType
    <3>2. QED
      BY <1>3, <2>1, <2>2, <2>4, <3>1 DEF Planted, Idle
  <2>5. QED
    BY <1>1, <2>1, <2>2, <2>3, <2>4 DEF Planted, c
<1>5. Done' = Done
  BY <1>2, <1>3, HostKept DEF Done
<1>6. (FlashMode(Done) /\ BlankAhead(Done) /\ Compared(Done))'
  BY <1>1, <1>2, <1>5, HostKept DEF FlasherInv, Behind, FlashMode, BlankAhead, Compared
<1>7. FlashType'
  BY <1>2, <1>3, HostKept DEF FlasherInv, FlashType
<1>8. Outside' /\ Inside'
  BY <1>1, <1>2, <1>3, HostKept DEF FlasherInv, Outside, Inside, Idle
<1>9. Search' /\ Copied'
  BY <1>1, <1>2, HostKept DEF FlasherInv, Search, FoundUpTo, Copied
<1>10. QED
  BY <1>4, <1>6, <1>7, <1>8, <1>9 DEF FlasherInv, Calling, Behind

LEMMA TableFacts ==
  ASSUME NEW t \in Tables
  PROVE  /\ Len(t) \in Nat /\ DOMAIN t = 1 .. Len(t)
         /\ \A i \in DOMAIN t : t[i][2] \in Nat \ {0}
         /\ \A i, j \in DOMAIN t : i # j => t[i][1] # t[j][1] /\ t[i][2] # t[j][2]
<1>1. /\ t \in Seq(STRING \X (Nat \ {0}))
      /\ \A i, j \in DOMAIN t : i # j => t[i][1] # t[j][1] /\ t[i][2] # t[j][2]
  BY LinksAssumption DEF Flasher!SWDUtilsAssumption
<1>2. \A i \in DOMAIN t : t[i] \in STRING \X (Nat \ {0})
  BY <1>1
<1>3. QED
  BY <1>1, <1>2

\* A routine that runs is the one that the call in progress asked for.
LEMMA RoutineIs ==
  ASSUME FlasherInv, NEW c \in {"IF", "EX", "RE", "FC", "RP", "CX"}, Flasher!Routine(c)
  PROVE  /\ job = "flash_and_verify" /\ Flasher!now.kind = "call" /\ Flasher!now.code = c
         /\ at = 28 /\ core.run /\ ~core'.run /\ result # 0
         /\ core.regs.r0 = Flasher!now.a[1] /\ core.regs.r1 = Flasher!now.a[2]
<1> USE DEF Flasher!Routine
<1>1. job = "flash_and_verify"
  <2>1. job \in {"reset_into_debug", "flash_and_verify", "reset"} /\ at \in 1 .. Len(Flasher!Accesses)
    BY DEF FlasherInv, FlashType
  <2>2. job = "reset_into_debug" => FALSE
    BY <2>1 DEF FlasherInv, Outside
  <2>3. job = "reset" => at \in 1 .. 3
    BY <2>1, AccessesOf DEF Flasher!reset
  <2>4. job = "reset" => FALSE
    BY <2>3 DEF FlasherInv, Outside
  <2>5. QED
    BY <2>1, <2>2, <2>4
<1>2. Flasher!now.kind = "call" /\ at = 28 /\ core.run
  BY <1>1 DEF FlasherInv, Inside
<1>3. /\ core.regs.r7 = found[Flasher!now.code]
      /\ core.regs.r0 = Flasher!now.a[1] /\ core.regs.r1 = Flasher!now.a[2]
  BY <1>1, <1>2, RunsAsAskedHolds DEF RunsAsAsked, Flasher!RunsAsAsked
<1>4. stage \in 3 .. Last /\ Flasher!now.code \in {"IF", "EX", "RE", "FC", "RP", "CX"}
  <2>1. stage \in 1 .. Last /\ StageFact(stage, Flasher!now)
    BY StageFacts DEF FlasherInv, FlashType, Flasher!now
  <2>2. QED
    BY <1>2, <2>1 DEF StageFact
<1>5. FoundUpTo(2 * Len(table) + 3) /\ table \in Tables
  BY <1>1, <1>4 DEF FlasherInv, FlashType, Search
<1>6. PICK i \in DOMAIN table : table[i][1] = c /\ Flasher!AddressOf(table, c) = table[i][2]
  BY DEF Flasher!Has, Flasher!AddressOf
<1>7. Flasher!now.code = c
  <2> DEFINE d == Flasher!now.code
  <2>1. d \in Flasher!Codes /\ found[d] = table[i][2] /\ found[d] # 0
    <3>1. d \in Flasher!Codes
      BY <1>4 DEF Flasher!Codes
    <3>2. found[d] = core.regs.r7
      BY <1>3
    <3>3. core.regs.r7 = table[i][2]
      BY <1>6 DEF Flasher!Routine
    <3>4. table[i][2] # 0
      BY <1>5, <1>6, TableFacts
    <3> HIDE DEF d
    <3>5. QED
      BY ONLY <3>1, <3>2, <3>3, <3>4
  <2> HIDE DEF d
  <2>2. PICK j \in DOMAIN table : table[j][1] = d
    BY <1>5, <2>1 DEF FoundUpTo, Flasher!Has
  <2>3. found[d] = table[j][2]
    BY <1>5, <2>1, <2>2, TableFacts DEF FoundUpTo
  <2>4. i = j
    BY <1>5, <2>1, <2>3, TableFacts
  <2>5. QED
    BY <1>6, <2>2, <2>4 DEF d
<1>8. ~core'.run
  BY DEF FlasherInv, FlashType, CoreType
<1>9. result # 0
  BY <1>1, <1>2, AccessesOf, CallAccesses DEF FlasherInv, Inside
<1>10. QED
  BY <1>1, <1>2, <1>3, <1>7, <1>8, <1>9

\* When it is over its stage is done, and nothing is left to show but what it
\* did to the flash.
LEMMA RoutineStep ==
  ASSUME FlasherInv, NEW c \in {"IF", "EX", "RE", "FC", "RP", "CX"}, Flasher!Routine(c),
         flash' \in [Flasher!Page -> Int], failures' \in Nat
  PROVE  /\ FlashType' /\ Outside' /\ Inside' /\ Search' /\ Calling' /\ Copied'
         /\ Done = stage - 1 /\ Done' = stage
<1>1. /\ job = "flash_and_verify" /\ Flasher!now.kind = "call" /\ Flasher!now.code = c
      /\ at = 28 /\ core.run /\ ~core'.run /\ result # 0
  BY RoutineIs
<1>2. UNCHANGED <<Flasher!hostVars, table>> /\ UNCHANGED <<ram, table>>
  BY DEF Flasher!Routine
<1>3. /\ core' \in CoreType /\ (core'.debug <=> core.debug) /\ (core'.rst <=> core.rst)
      /\ core'.xfer = core.xfer /\ core'.regs = core.regs /\ core'.dcrdr = core.dcrdr
  BY DEF FlasherInv, FlashType, CoreType, Flasher!Routine
<1>4. FlashType'
  BY <1>2, <1>3, HostKept DEF FlasherInv, FlashType
<1>5. Outside' /\ Inside'
  BY <1>1, <1>2, <1>3, HostKept DEF FlasherInv, Outside, Inside, Idle
<1>6. Search' /\ Copied'
  BY <1>1, <1>2, HostKept DEF FlasherInv, Search, FoundUpTo, Copied
<1>7. Calling'
  <2> DEFINE s == Flasher!now
  <2>1. Planted(s)
    BY <1>1 DEF FlasherInv, Calling
  <2> HIDE DEF s
  <2>2. s' = s /\ at' = at /\ \A j : Reg(s, j)' = Reg(s, j) /\ Val(s, j)' = Val(s, j)
    BY <1>2, HostKept DEF s
  <2>3. Planted(s)'
    BY <1>3, <2>1, <2>2 DEF Planted, Idle
  <2>4. QED
    BY <2>3 DEF Calling, s
<1>8. Done = stage - 1 /\ Done' = stage
  BY <1>1, <1>2, HostKept DEF Done
<1>9. QED
  BY <1>4, <1>5, <1>6, <1>7, <1>8

\* Which stage a running routine belongs to, and what it finds.
LEMMA RoutineStage ==
  ASSUME FlasherInv, NEW c \in {"IF", "EX", "RE", "FC", "RP", "CX"}, Flasher!Routine(c)
  PROVE  /\ stage \in 1 .. Last
         /\ FlashMode(stage - 1) /\ BlankAhead(stage - 1) /\ Compared(stage - 1)
         /\ c \in {"IF", "EX"} => stage \in {3, 4}
         /\ c = "RE" => stage = 5 /\ core.regs.r0 = Offset /\ core.regs.r1 = ImagePages
         /\ c = "FC" => stage \in {6, 7 + 2 * ImagePages}
         /\ c = "CX" => stage = 8 + 2 * ImagePages
         /\ c = "RP" => \E p \in Flasher!Image : stage = 6 + 2 * p /\ core.regs.r0 = Offset + p - 1
<1>1. /\ job = "flash_and_verify" /\ Flasher!now.kind = "call" /\ Flasher!now.code = c
      /\ at = 28 /\ core.run /\ result # 0
      /\ core.regs.r0 = Flasher!now.a[1] /\ core.regs.r1 = Flasher!now.a[2]
  BY RoutineIs
<1>2. stage \in 1 .. Last /\ StageFact(stage, Flasher!now)
  BY StageFacts DEF FlasherInv, FlashType, Flasher!now
<1>3. Done = stage - 1
  BY <1>1 DEF Done
<1>4. FlashMode(stage - 1) /\ BlankAhead(stage - 1) /\ Compared(stage - 1)
  BY <1>1, <1>3 DEF FlasherInv, Behind
<1>5. QED
  BY <1>1, <1>2, <1>4 DEF StageFact

\* Nothing is compared before the last stages.
LEMMA NotYetCompared ==
  ASSUME NEW n \in Int, NEW m \in Int, n <= 8 + 2 * ImagePages, m <= 8 + 2 * ImagePages,
         Compared(n), mismatch' = mismatch
  PROVE  Compared(m)'
<1>1. \A p \in Flasher!Image :
        ~(8 + 2 * ImagePages + 2 * p <= n) /\ ~(8 + 2 * ImagePages + 2 * p <= m)
  BY Sizes DEF Flasher!Image
<1>2. ~mismatch
  BY <1>1 DEF Compared
<1>3. ~mismatch'
  BY <1>2, Zenon
<1>4. QED
  BY <1>1, <1>3 DEF Compared

LEMMA SerialStep ==
  ASSUME FlasherInv, Flasher!run_serial
  PROVE  FlasherInv'
<1>1. PICK c \in {"IF", "EX"} : Flasher!Routine(c)
  BY DEF Flasher!run_serial
<1>2. mode' = "serial" /\ flash' = flash /\ failures' = failures
  BY DEF Flasher!run_serial
<1>3. stage \in {3, 4} /\ Compared(stage - 1)
  BY <1>1, RoutineStage
<1>4. /\ FlashType' /\ Outside' /\ Inside' /\ Search' /\ Calling' /\ Copied'
      /\ Done' = stage /\ stage' = stage /\ mismatch' = mismatch
  BY <1>1, <1>2, RoutineStep DEF FlasherInv, FlashType, Flasher!Routine, Flasher!hostVars
<1>5. (FlashMode(stage) /\ BlankAhead(stage))'
  BY <1>2, <1>3, <1>4, Sizes DEF FlashMode, BlankAhead
<1>6. Compared(stage)'
  BY <1>3, <1>4, NotYetCompared, Sizes
<1>7. QED
  BY <1>4, <1>5, <1>6 DEF FlasherInv, Behind

LEMMA ImageOnFlash ==
  ASSUME NEW p \in Flasher!Image
  PROVE  Offset + p - 1 \in Flasher!Page /\ Offset + p - 1 \in Offset .. Offset + ImagePages - 1
BY Sizes DEF Flasher!Image, Flasher!Page

LEMMA EraseStep ==
  ASSUME FlasherInv, Flasher!run_erase
  PROVE  /\ FlasherInv'
         /\ \A p \in Flasher!Page : flash'[p] # flash[p] =>
              p \in Offset .. Offset + ImagePages - 1 /\ flash'[p] = Flasher!Blank
<1>1. /\ Flasher!Routine("RE") /\ mode = "serial" /\ mode' = mode /\ failures' = failures
      /\ flash' = [p \in Flasher!Page |-> IF p \in Flasher!Erased THEN Flasher!Blank ELSE flash[p]]
  BY DEF Flasher!run_erase
<1>2. stage = 5 /\ Compared(4) /\ core.regs.r0 = Offset /\ core.regs.r1 = ImagePages
  BY <1>1, RoutineStage
<1>3. flash \in [Flasher!Page -> Int] /\ failures \in Nat
  BY DEF FlasherInv, FlashType
<1>4. Flasher!Erased = {p \in Flasher!Page : p - Offset \in 0 .. ImagePages - 1}
  BY <1>2 DEF Flasher!Erased
<1>5. flash' \in [Flasher!Page -> Int]
  BY <1>1, <1>3 DEF Flasher!Blank
<1>6. /\ FlashType' /\ Outside' /\ Inside' /\ Search' /\ Calling' /\ Copied'
      /\ Done' = stage /\ stage' = stage /\ mismatch' = mismatch
  BY <1>1, <1>3, <1>5, RoutineStep DEF Flasher!Routine, Flasher!hostVars
<1>7. FlashMode(5)'
  BY <1>1, Sizes DEF FlashMode
<1>8. BlankAhead(5)'
  <2> SUFFICES ASSUME NEW p \in Flasher!Image PROVE flash'[Offset + p - 1] = Flasher!Blank
    BY DEF BlankAhead
  <2>1. Offset + p - 1 \in Flasher!Page
    BY ImageOnFlash
  <2> DEFINE q == Offset + p - 1
  <2>2. q - Offset \in 0 .. ImagePages - 1
    BY Sizes DEF Flasher!Image
  <2>3. q \in Flasher!Page
    BY <2>1
  <2> HIDE DEF q
  <2>4. q \in Flasher!Erased
    BY <1>4, <2>2, <2>3, Zenon
  <2>5. flash'[q] = Flasher!Blank
    BY <1>1, <2>3, <2>4
  <2>6. QED
    BY <2>5 DEF q
<1>9. Compared(5)'
  BY <1>2, <1>6, NotYetCompared, Sizes
<1>10. FlasherInv'
  BY <1>2, <1>6, <1>7, <1>8, <1>9 DEF FlasherInv, Behind
<1>11. \A p \in Flasher!Page : flash'[p] # flash[p] =>
         p \in Offset .. Offset + ImagePages - 1 /\ flash'[p] = Flasher!Blank
  BY <1>1, <1>4, Sizes DEF Flasher!Page
<1>12. QED
  BY <1>10, <1>11

LEMMA ProgramStep ==
  ASSUME FlasherInv, Flasher!run_program
  PROVE  /\ FlasherInv'
         /\ \A p \in Flasher!Page : flash'[p] # flash[p] =>
              p \in Offset .. Offset + ImagePages - 1 /\ flash[p] = Flasher!Blank
<1>1. Flasher!Routine("RP") /\ mode' = "serial"
  BY DEF Flasher!run_program
<1>2. PICK p \in Flasher!Image : stage = 6 + 2 * p /\ core.regs.r0 = Offset + p - 1
  BY <1>1, RoutineStage
<1>3. BlankAhead(stage - 1) /\ Compared(stage - 1)
  BY <1>1, RoutineStage
<1>4. p \in 1 .. ImagePages /\ stage \in 8 .. 6 + 2 * ImagePages
  BY <1>2, Sizes DEF Flasher!Image
<1> DEFINE q == Offset + p - 1
<1>5. q \in Flasher!Page /\ q \in Offset .. Offset + ImagePages - 1
  BY <1>2, ImageOnFlash
<1>6. flash \in [Flasher!Page -> Int] /\ failures \in Nat /\ ram \in Int
  BY DEF FlasherInv, FlashType
<1>7. flash[q] = Flasher!Blank
  BY <1>2, <1>3, <1>4 DEF BlankAhead
<1> HIDE DEF q
<1>8. PICK v \in Int : flash' = [flash EXCEPT ![q] = v]
  BY <1>2, <1>6 DEF Flasher!run_program, Flasher!Bad, q
<1>9. failures' \in Nat
  BY <1>6 DEF Flasher!run_program
<1>10. flash' \in [Flasher!Page -> Int]
  BY <1>6, <1>8
<1>11. /\ FlashType' /\ Outside' /\ Inside' /\ Search' /\ Calling' /\ Copied'
       /\ Done' = stage /\ stage' = stage /\ mismatch' = mismatch
  BY <1>1, <1>9, <1>10, RoutineStep DEF Flasher!Routine, Flasher!hostVars
<1>12. FlashMode(stage)'
  BY <1>1, <1>4, <1>11, Sizes DEF FlashMode
<1>13. BlankAhead(stage)'
  <2> SUFFICES ASSUME NEW k \in Flasher!Image, 6 + 2 * k > stage
               PROVE  flash'[Offset + k - 1] = Flasher!Blank
    BY <1>11 DEF BlankAhead
  <2>1. k > p /\ 6 + 2 * k > stage - 1 /\ stage - 1 >= 5
    BY <1>2, <1>4, Sizes DEF Flasher!Image
  <2>2. Offset + k - 1 # q /\ Offset + k - 1 \in Flasher!Page
    BY <1>4, <2>1, ImageOnFlash, Sizes DEF q, Flasher!Image
  <2>3. flash[Offset + k - 1] = Flasher!Blank
    BY <1>3, <2>1 DEF BlankAhead
  <2>4. QED
    BY <1>6, <1>8, <2>2, <2>3
<1>14. Compared(stage)'
  <2>1. stage - 1 \in Int /\ stage - 1 <= 8 + 2 * ImagePages /\ stage \in Int
        /\ stage <= 8 + 2 * ImagePages
    BY <1>4, Sizes
  <2>2. \A m \in Int : m <= 8 + 2 * ImagePages => Compared(m)'
    BY <1>3, <1>11, <2>1, NotYetCompared
  <2>3. QED
    BY <1>11, <2>1, <2>2 DEF Compared
<1>15. FlasherInv'
  BY <1>11, <1>12, <1>13, <1>14 DEF FlasherInv, Behind
<1>16. \A k \in Flasher!Page : flash'[k] # flash[k] => k = q
  BY <1>6, <1>8
<1>17. QED
  BY <1>5, <1>7, <1>15, <1>16

LEMMA MappedStep ==
  ASSUME FlasherInv, Flasher!run_mapped
  PROVE  FlasherInv'
<1>1. PICK c \in {"FC", "CX"} : Flasher!Routine(c)
  BY DEF Flasher!run_mapped
<1>2. flash' = flash /\ failures' = failures
  BY DEF Flasher!run_mapped
<1>3. /\ stage \in 1 .. Last
      /\ FlashMode(stage - 1) /\ BlankAhead(stage - 1) /\ Compared(stage - 1)
      /\ c = "FC" => stage \in {6, 7 + 2 * ImagePages}
      /\ c = "CX" => stage = 8 + 2 * ImagePages
  BY <1>1, RoutineStage
<1>4. /\ FlashType' /\ Outside' /\ Inside' /\ Search' /\ Calling' /\ Copied'
      /\ Done' = stage /\ stage' = stage /\ mismatch' = mismatch
  BY <1>1, <1>2, RoutineStep DEF FlasherInv, FlashType, Flasher!Routine, Flasher!hostVars
<1>5. FlashMode(stage)'
  <2>1. Flasher!now.code = c
    BY <1>1, RoutineIs
  <2>2. ~Flasher!Routine(IF c = "FC" THEN "CX" ELSE "FC")
    BY <1>1, <2>1, RoutineIs
  <2>3. CASE c = "FC"
    <3>1. mode' = IF mode = "serial" THEN "flushed" ELSE mode
      BY <2>2, <2>3 DEF Flasher!run_mapped
    <3>2. mode \in {"serial", "flushed"}
      BY <1>3, <2>3, Sizes DEF FlashMode
    <3>3. QED
      BY <1>3, <1>4, <2>3, <3>1, <3>2, Sizes DEF FlashMode
  <2>4. CASE c = "CX"
    <3>1. mode' = IF mode = "flushed" THEN "xip" ELSE "stale"
      BY <2>2, <2>4 DEF Flasher!run_mapped
    <3>2. mode = "flushed"
      BY <1>3, <2>4, Sizes DEF FlashMode
    <3>3. QED
      BY <1>3, <1>4, <2>4, <3>1, <3>2, Sizes DEF FlashMode
  <2>5. QED
    BY <2>3, <2>4
<1>6. BlankAhead(stage)'
  <2>1. stage >= 6 /\ stage \in Int
    BY <1>3, Sizes
  <2> SUFFICES ASSUME NEW p \in Flasher!Image, 6 + 2 * p > stage
               PROVE  flash'[Offset + p - 1] = Flasher!Blank
    BY <1>4 DEF BlankAhead
  <2>2. 6 + 2 * p > stage - 1 /\ stage - 1 >= 5
    BY <2>1, Sizes DEF Flasher!Image
  <2>3. QED
    BY <1>2, <1>3, <2>2 DEF BlankAhead
<1>7. Compared(stage)'
  <2>1. stage - 1 \in Int /\ stage - 1 <= 8 + 2 * ImagePages /\ stage \in Int
        /\ stage <= 8 + 2 * ImagePages
    BY <1>3, Sizes
  <2>2. \A m \in Int : m <= 8 + 2 * ImagePages => Compared(m)'
    BY <1>3, <1>4, <2>1, NotYetCompared
  <2>3. QED
    BY <1>4, <2>1, <2>2 DEF Compared
<1>8. QED
  BY <1>4, <1>5, <1>6, <1>7 DEF FlasherInv, Behind

\* A reset comes before or after the ROM is used.
LEMMA ResetStep ==
  ASSUME FlasherInv, Flasher!core_reset
  PROVE  FlasherInv'
<1> USE DEF Flasher!core_reset
<1>1. job # "flash_and_verify"
  BY DEF FlasherInv, Inside
<1>2. UNCHANGED <<Flasher!hostVars, table>> /\ UNCHANGED <<flash, ram, failures>>
  OBVIOUS
<1>3. /\ core' \in CoreType /\ (core'.debug <=> core.debug) /\ (core'.vc <=> core.vc) /\ ~core'.rst
      /\ (core'.run <=> ~(core.debug /\ core.vc)) /\ core'.xfer = Flasher!NoTransfer
  <2>1. core \in CoreType
    BY DEF FlasherInv, FlashType
  <2>2. [r \in Flasher!Regs |-> 0] \in [Flasher!Regs -> Int]
    OBVIOUS
  <2>3. CASE core.debug /\ core.vc
    <3>1. core' = [core EXCEPT !.rst = FALSE, !.run = FALSE, !.xfer = Flasher!NoTransfer,
                               !.regs = [r \in Flasher!Regs |-> 0]]
      BY <2>3, Zenon
    <3>2. QED
      BY ONLY <2>1, <2>2, <2>3, <3>1 DEF CoreType, Flasher!NoTransfer
  <2>4. CASE ~(core.debug /\ core.vc)
    <3>1. core' = [core EXCEPT !.rst = FALSE, !.run = TRUE, !.xfer = Flasher!NoTransfer,
                               !.regs = [r \in Flasher!Regs |-> 0]]
      BY <2>4, Zenon
    <3>2. QED
      BY ONLY <2>1, <2>2, <2>4, <3>1 DEF CoreType, Flasher!NoTransfer
  <2>5. QED
    BY <2>3, <2>4
<1>4. FlashType'
  BY <1>2, <1>3, HostKept DEF FlasherInv, FlashType
<1>5. Outside'
  BY <1>1, <1>2, <1>3, HostKept DEF FlasherInv, Outside, Idle
<1>6. QED
  BY <1>1, <1>2, <1>4, <1>5, HostKept
  DEF FlasherInv, Inside, Search, Calling, Behind, Copied
-----------------------------------------------------------------------------
(* The host's steps.                                                        *)

LEMMA ResetAccesses ==
  LET D == Flasher!reset_into_debug
      R == Flasher!reset
  IN
  /\ Len(D) = 3 /\ Len(R) = 3
  /\ D[1].kind = "halt" /\ D[2].kind = "vc" /\ D[2].val = 1 /\ D[3].kind = "sysreset"
  /\ R[1].kind = "vc" /\ R[1].val = 0 /\ R[2].kind = "leave" /\ R[3].kind = "sysreset"
  /\ D[1].err = -7 /\ D[2].err = -8 /\ D[3].err = -9
  /\ R[1].err = -13 /\ R[2].err = -14 /\ R[3].err = -15
BY DEF Flasher!reset_into_debug, Flasher!reset, Flasher!Do

LEMMA Single ==
  ASSUME NEW a PROVE Len(<<a>>) = 1 /\ <<a>>[1] = a
OBVIOUS

\* What the i-th access to the table tells.
TableFact(i, a) ==
  /\ a.kind \in {"pointer", "code", "entry"}
  /\ a.kind = "entry" => a.val \in Nat /\ i = 2 * a.val + 1
  /\ a.kind # "entry" => \A j \in Nat \ {0} : i # 2 * j + 1

LEMMA TableAccesses ==
  ASSUME NEW i \in Nat \ {0}
  PROVE  /\ Flasher!TableAccess(i).err \in Int \ {0}
         /\ TableFact(i, Flasher!TableAccess(i))
<1> DEFINE a == Flasher!TableAccess(i)
<1>1. CASE i = 1
  <2>1. a = Flasher!Do("pointer", "none", 0, -3)
    BY <1>1 DEF Flasher!TableAccess
  <2>2. QED
    BY <1>1, <2>1 DEF TableFact, Flasher!Do
<1>2. CASE i # 1 /\ i % 2 = 0
  <2>1. a = Flasher!Do("code", "none", i \div 2, -4)
    BY <1>2 DEF Flasher!TableAccess
  <2>2. \A j \in Nat \ {0} : i # 2 * j + 1
    BY <1>2
  <2>3. QED
    BY <2>1, <2>2 DEF TableFact, Flasher!Do
<1>3. CASE i # 1 /\ i % 2 # 0
  <2>1. a = Flasher!Do("entry", "none", i \div 2, -5)
    BY <1>3 DEF Flasher!TableAccess
  <2>2. i \div 2 \in Nat /\ i = 2 * (i \div 2) + 1
    BY <1>3
  <2>3. QED
    BY <2>1, <2>2 DEF TableFact, Flasher!Do
<1>4. QED
  BY <1>1, <1>2, <1>3

LEMMA AccessIs ==
  ASSUME FlashType
  PROVE  LET a == Flasher!access
             n == Len(Flasher!Accesses)
             s == Flasher!now
         IN
         /\ job = "reset_into_debug" =>
              /\ n = 3 /\ at \in 1 .. 3 /\ a.err \in Int \ {0}
              /\ at = 1 => a.kind = "halt"
              /\ at = 2 => a.kind = "vc" /\ a.val = 1
              /\ at = 3 => a.kind = "sysreset"
         /\ job = "reset" =>
              /\ n = 3 /\ at \in 1 .. 3 /\ a.err \in Int \ {0}
              /\ at = 1 => a.kind = "vc" /\ a.val = 0
              /\ at = 2 => a.kind = "leave"
              /\ at = 3 => a.kind = "sysreset"
         /\ job = "flash_and_verify" =>
              /\ s.kind = "vtor" => n = 1 /\ at = 1 /\ a.kind = "vtor" /\ a.err \in Int \ {0}
              /\ s.kind = "table" =>
                   /\ n = 2 * Len(table) + 3 /\ at \in 1 .. n /\ a.err \in Int \ {0}
                   /\ TableFact(at, a)
              /\ s.kind = "call" => n = 31 /\ at \in 1 .. 31 /\ CallFact(s, at, a)
              /\ s.kind \in {"copy", "compare"} =>
                   n = 1 /\ at = 1 /\ a.kind = s.kind /\ a.val = s.a /\ a.err \in Int \ {0}
<1> USE DEF FlashType, Flasher!access
<1>1. job = "reset_into_debug" =>
        /\ Len(Flasher!Accesses) = 3 /\ at \in 1 .. 3 /\ Flasher!access.err \in Int \ {0}
        /\ at = 1 => Flasher!access.kind = "halt"
        /\ at = 2 => Flasher!access.kind = "vc" /\ Flasher!access.val = 1
        /\ at = 3 => Flasher!access.kind = "sysreset"
  <2> SUFFICES ASSUME job = "reset_into_debug"
               PROVE  /\ Len(Flasher!Accesses) = 3 /\ at \in 1 .. 3
                      /\ Flasher!access.err \in Int \ {0}
                      /\ at = 1 => Flasher!access.kind = "halt"
                      /\ at = 2 => Flasher!access.kind = "vc" /\ Flasher!access.val = 1
                      /\ at = 3 => Flasher!access.kind = "sysreset"
    OBVIOUS
  <2>1. Flasher!Accesses = Flasher!reset_into_debug
    BY AccessesOf
  <2>2. at = 1 \/ at = 2 \/ at = 3
    BY <2>1, ResetAccesses
  <2>3. QED
    BY <2>1, <2>2, ResetAccesses
<1>2. job = "reset" =>
        /\ Len(Flasher!Accesses) = 3 /\ at \in 1 .. 3 /\ Flasher!access.err \in Int \ {0}
        /\ at = 1 => Flasher!access.kind = "vc" /\ Flasher!access.val = 0
        /\ at = 2 => Flasher!access.kind = "leave"
        /\ at = 3 => Flasher!access.kind = "sysreset"
  <2> SUFFICES ASSUME job = "reset"
               PROVE  /\ Len(Flasher!Accesses) = 3 /\ at \in 1 .. 3
                      /\ Flasher!access.err \in Int \ {0}
                      /\ at = 1 => Flasher!access.kind = "vc" /\ Flasher!access.val = 0
                      /\ at = 2 => Flasher!access.kind = "leave"
                      /\ at = 3 => Flasher!access.kind = "sysreset"
    OBVIOUS
  <2>1. Flasher!Accesses = Flasher!reset
    BY AccessesOf
  <2>2. at = 1 \/ at = 2 \/ at = 3
    BY <2>1, ResetAccesses
  <2>3. QED
    BY <2>1, <2>2, ResetAccesses
<1>3. job = "flash_and_verify" /\ Flasher!now.kind = "vtor" =>
        /\ Len(Flasher!Accesses) = 1 /\ at = 1
        /\ Flasher!access.kind = "vtor" /\ Flasher!access.err \in Int \ {0}
  <2> SUFFICES ASSUME job = "flash_and_verify", Flasher!now.kind = "vtor"
               PROVE  /\ Len(Flasher!Accesses) = 1 /\ at = 1
                      /\ Flasher!access.kind = "vtor" /\ Flasher!access.err \in Int \ {0}
    OBVIOUS
  <2> DEFINE a == Flasher!Do("vtor", "none", 0, -12)
  <2>1. a.kind = "vtor" /\ a.err = -12
    BY DEF Flasher!Do
  <2> HIDE DEF a
  <2>2. Flasher!Accesses = <<a>>
    BY AccessesOf DEF a
  <2>3. QED
    BY <2>1, <2>2, Single
<1>4. job = "flash_and_verify" /\ Flasher!now.kind = "table" =>
        /\ Len(Flasher!Accesses) = 2 * Len(table) + 3 /\ at \in 1 .. Len(Flasher!Accesses)
        /\ Flasher!access.err \in Int \ {0} /\ TableFact(at, Flasher!access)
  <2> SUFFICES ASSUME job = "flash_and_verify", Flasher!now.kind = "table"
               PROVE  /\ Len(Flasher!Accesses) = 2 * Len(table) + 3
                      /\ at \in 1 .. Len(Flasher!Accesses)
                      /\ Flasher!access.err \in Int \ {0} /\ TableFact(at, Flasher!access)
    OBVIOUS
  <2>1. Flasher!Accesses = [i \in 1 .. 2 * Len(table) + 3 |-> Flasher!TableAccess(i)]
    BY AccessesOf
  <2>2. Len(table) \in Nat
    BY TableFacts
  <2>3. Len(Flasher!Accesses) = 2 * Len(table) + 3
    BY <2>1, <2>2
  <2>4. at \in Nat \ {0} /\ Flasher!access = Flasher!TableAccess(at)
    BY <2>1, <2>2, <2>3
  <2>5. QED
    BY <2>3, <2>4, TableAccesses
<1>5. job = "flash_and_verify" /\ Flasher!now.kind = "call" =>
        /\ Len(Flasher!Accesses) = 31 /\ at \in 1 .. 31
        /\ CallFact(Flasher!now, at, Flasher!access)
  BY AccessesOf, CallAccesses
<1>6. job = "flash_and_verify" /\ Flasher!now.kind \in {"copy", "compare"} =>
        /\ Len(Flasher!Accesses) = 1 /\ at = 1 /\ Flasher!access.kind = Flasher!now.kind
        /\ Flasher!access.val = Flasher!now.a /\ Flasher!access.err \in Int \ {0}
  <2> SUFFICES ASSUME job = "flash_and_verify", Flasher!now.kind \in {"copy", "compare"}
               PROVE  /\ Len(Flasher!Accesses) = 1 /\ at = 1
                      /\ Flasher!access.kind = Flasher!now.kind
                      /\ Flasher!access.val = Flasher!now.a /\ Flasher!access.err \in Int \ {0}
    OBVIOUS
  <2> DEFINE a == Flasher!Do(Flasher!now.kind, "none", Flasher!now.a, -1)
  <2>1. a.kind = Flasher!now.kind /\ a.val = Flasher!now.a /\ a.err = -1
    BY DEF Flasher!Do
  <2> HIDE DEF a
  <2>2. Flasher!Accesses = <<a>>
    BY AccessesOf DEF a
  <2>3. QED
    BY <2>1, <2>2, Single
<1>7. QED
  BY <1>1, <1>2, <1>3, <1>4, <1>5, <1>6, Zenon

\* The host goes on to the next access, to the next stage, or returns.
Advances ==
  \/ at < Len(Flasher!Accesses) /\ at' = at + 1 /\ stage' = stage /\ result' = result
  \/ /\ at = Len(Flasher!Accesses) /\ job = "flash_and_verify" /\ stage < Last
     /\ at' = 1 /\ stage' = stage + 1 /\ result' = result
  \/ /\ at = Len(Flasher!Accesses) /\ (job = "flash_and_verify" => stage = Last)
     /\ at' = at /\ stage' = stage /\ result' = 0

LEMMA WorksAdvances ==
  ASSUME FlasherInv, Flasher!AccessWorks
  PROVE  Advances /\ result = 1 /\ job' = job /\ table' = table /\ flash' = flash /\ mode' = mode
         /\ failures' = failures
<1>1. Flasher!Finished /\ result = 1 /\ job' = job /\ table' = table /\ flash' = flash
      /\ mode' = mode /\ failures' = failures
  BY DEF Flasher!AccessWorks, Flasher!NotYet
<1>2. stage \in 1 .. Last /\ at \in 1 .. Len(Flasher!Accesses) /\ Len(Flasher!Accesses) \in Nat
  <2>1. stage \in 1 .. Last /\ at \in 1 .. Len(Flasher!Accesses)
    BY DEF FlasherInv, FlashType
  <2>2. job \in {"reset_into_debug", "flash_and_verify", "reset"} /\ table \in Tables
    BY DEF FlasherInv, FlashType
  <2>3. Flasher!now.kind \in {"vtor", "table", "call", "copy", "compare"}
    BY <2>1, StageFacts DEF StageFact, Flasher!now
  <2>4. Len(Flasher!Accesses) \in Nat
    BY <2>2, <2>3, AccessIs, TableFacts DEF FlasherInv
  <2>5. QED
    BY <2>1, <2>4
<1>3. Len(Flasher!flash_and_verify) = Last /\ Last \in Nat
  BY Stages, Sizes DEF Last
<1>4. QED
  BY <1>1, <1>2, <1>3 DEF Flasher!Finished, Advances

LEMMA SameMismatch ==
  ASSUME mismatch' = mismatch
  PROVE  (mismatch' <=> mismatch) /\ (mismatch \in BOOLEAN => mismatch' \in BOOLEAN)
BY Zenon

LEMMA SameCall ==
  ASSUME job' = job, stage' = stage, found' = found, table' = table
  PROVE  /\ Flasher!now' = Flasher!now /\ Flasher!Accesses' = Flasher!Accesses
         /\ \A c, j : Reg(c, j)' = Reg(c, j) /\ Val(c, j)' = Val(c, j)
<1>1. Flasher!now' = Flasher!now
  BY DEF Flasher!now
<1>2. Flasher!Accesses' = Flasher!Accesses
  BY <1>1 DEF Flasher!Accesses, Flasher!call_function, Flasher!Registers
<1>3. \A c, j : Reg(c, j)' = Reg(c, j) /\ Val(c, j)' = Val(c, j)
  BY DEF Reg, Val, Flasher!Registers
<1>4. QED
  BY <1>1, <1>2, <1>3

LEMMA KindOf ==
  ASSUME FlashType
  PROVE  /\ Flasher!now.kind \in {"vtor", "table", "call", "copy", "compare"}
         /\ StageFact(stage, Flasher!now) /\ stage \in 1 .. Last /\ Last \in Nat
<1>1. stage \in 1 .. Last /\ Last \in Nat
  BY Sizes DEF FlashType, Last
<1>2. StageFact(stage, Flasher!now)
  BY <1>1, StageFacts DEF Flasher!now
<1>3. QED
  BY <1>1, <1>2 DEF StageFact

\* No error code is 0.
LEMMA FailsStep ==
  ASSUME FlasherInv, Flasher!AccessFails
  PROVE  FlasherInv'
<1> USE DEF Flasher!AccessFails
<1>1. /\ result = 1 /\ job' = job /\ stage' = stage /\ at' = at /\ found' = found
      /\ mismatch' = mismatch /\ core' = core /\ flash' = flash /\ mode' = mode /\ ram' = ram
      /\ table' = table
  BY DEF Flasher!NotYet
<1>2. FlashType /\ failures' \in Nat
  BY DEF FlasherInv, FlashType
<1>3. result' \in Int \ {0}
  <2>1. job \in {"reset_into_debug", "flash_and_verify", "reset"}
    BY <1>2 DEF FlashType
  <2>2. ~(job = "flash_and_verify" /\ Flasher!now.kind = "call") => Flasher!access.err \in Int \ {0}
    BY <1>2, <2>1, AccessIs, KindOf
  <2>3. QED
    BY <2>2
<1>4. /\ Flasher!now' = Flasher!now /\ Flasher!Accesses' = Flasher!Accesses
      /\ \A c, j : Reg(c, j)' = Reg(c, j) /\ Val(c, j)' = Val(c, j)
  BY <1>1, SameCall
<1>5. (mismatch' <=> mismatch) /\ mismatch' \in BOOLEAN
  BY <1>1, <1>2, SameMismatch DEF FlashType
<1>6. FlashType'
  BY <1>1, <1>2, <1>3, <1>4, <1>5 DEF FlashType
<1>7. Done' = Done
  BY <1>1, <1>3, <1>4 DEF Done
<1>8. Outside' /\ Inside'
  BY <1>1, <1>3, <1>4, <1>5 DEF FlasherInv, Outside, Inside, Idle
<1>9. Search' /\ Copied'
  BY <1>1, <1>4 DEF FlasherInv, Search, FoundUpTo, Copied
<1>10. Calling'
  <2> DEFINE s == Flasher!now
  <2>1. Planted(s) => Planted(s)'
    <3> HIDE DEF s
    <3>1. s' = s
      BY <1>4 DEF s
    <3>2. QED
      BY <1>1, <1>4, <3>1 DEF Planted, Idle
  <2>2. QED
    BY <1>1, <1>4, <2>1 DEF FlasherInv, Calling
<1>11. Behind'
  BY <1>1, <1>5, <1>7 DEF FlasherInv, Behind, FlashMode, BlankAhead, Compared
<1>12. QED
  BY <1>6, <1>8, <1>9, <1>10, <1>11 DEF FlasherInv

\* Nothing of flash_and_verify() is done when it begins.
LEMMA JobStep ==
  ASSUME FlasherInv, Flasher!NextJob
  PROVE  FlasherInv'
<1> USE DEF Flasher!NextJob
<1>1. /\ result = 0 /\ ~core.rst /\ job # "reset" /\ stage' = 1 /\ at' = 1 /\ result' = 1
      /\ found' = found /\ core' = core /\ flash' = flash /\ mode' = mode /\ ram' = ram
      /\ table' = table /\ failures' = failures
      /\ job' = IF job = "reset_into_debug" THEN "flash_and_verify" ELSE "reset"
  BY DEF Flasher!NotYet
<1>2. (mismatch' <=> mismatch) /\ mismatch' \in BOOLEAN
  <2>1. mismatch' = mismatch /\ mismatch \in BOOLEAN
    BY DEF FlasherInv, FlashType
  <2>2. QED
    BY <2>1, SameMismatch
<1>3. StageAt(1, Flasher!Stage("vtor", "none", 0))
  BY Stages
<1>4. Flasher!now'.kind = "vtor"
  BY <1>1, <1>3 DEF StageAt, Flasher!now, Flasher!Stage
<1>5. at' \in 1 .. Len(Flasher!Accesses)'
  <2>1. CASE job = "reset_into_debug"
    <3>1. Flasher!Accesses' = <<Flasher!Do("vtor", "none", 0, -12)>>
      BY <1>1, <1>4, <2>1 DEF Flasher!Accesses
    <3>2. QED
      BY <1>1, <3>1, Single
  <2>2. CASE job # "reset_into_debug"
    <3>1. Flasher!Accesses' = Flasher!reset
      BY <1>1, <2>2 DEF Flasher!Accesses
    <3>2. QED
      BY <1>1, <3>1, ResetAccesses
  <2>3. QED
    BY <2>1, <2>2
<1>6. FlashType'
  BY <1>1, <1>2, <1>5, Sizes DEF FlasherInv, FlashType, Last
<1>7. CASE job = "reset_into_debug"
  <2>1. found = Flasher!Missing /\ ~mismatch /\ core.debug /\ ~core.run /\ Idle
    BY <1>1, <1>7 DEF FlasherInv, Outside
  <2>2. Outside' /\ Inside'
    BY <1>1, <1>7, <2>1 DEF Outside, Inside, Idle
  <2>3. Search'
    <3>1. FoundUpTo(0)'
      BY <1>1, <1>6, <2>1, TableFacts DEF FoundUpTo, FlashType, Flasher!Missing
    <3>2. QED
      BY <1>1, <3>1 DEF Search, FoundUpTo
  <2>4. Calling' /\ Copied'
    BY <1>4 DEF Calling, Copied
  <2>5. Done' = 0
    BY <1>1, <1>4 DEF Done
  <2>6. Compared(0)'
    BY <1>2, <2>1, Sizes DEF Compared, Flasher!Image
  <2>7. (FlashMode(0) /\ BlankAhead(0))'
    BY Sizes DEF FlashMode, BlankAhead
  <2>8. Behind'
    BY <2>5, <2>6, <2>7 DEF Behind, Compared, FlashMode, BlankAhead
  <2>9. QED
    BY <1>6, <2>2, <2>3, <2>4, <2>8 DEF FlasherInv
<1>8. CASE job = "flash_and_verify"
  <2>1. ~core.run /\ Idle
    <3>1. FlashType /\ at = Len(Flasher!Accesses) /\ ~core.rst
      BY <1>1, <1>8 DEF FlasherInv, Inside
    <3>2. Flasher!now.kind = "call" => at = 31
      BY <1>8, <3>1, AccessIs
    <3>3. Flasher!now.kind = "call" => Idle
      BY <1>8, <3>2 DEF FlasherInv, Calling, Planted
    <3>4. QED
      BY <1>8, <3>2, <3>3 DEF FlasherInv, Inside
  <2>2. Outside'
    BY <1>1, <1>8, <2>1 DEF Outside, Idle
  <2>3. QED
    BY <1>1, <1>6, <1>8, <2>2 DEF FlasherInv, Inside, Search, Calling, Behind, Copied
<1>9. QED
  BY <1>1, <1>7, <1>8 DEF FlasherInv, FlashType

LEMMA MismatchAfter ==
  ASSUME Flasher!AccessWorks
  PROVE  /\ mismatch' \in BOOLEAN
         /\ mismatch' <=> \/ mismatch
                          \/ /\ Flasher!access.kind = "compare"
                             /\ Flasher!Mapped(Flasher!access.val) # ram
<1> DEFINE M == (mismatch \/ (Flasher!access.kind = "compare"
                              /\ Flasher!Mapped(Flasher!access.val) # ram))
<1>1. mismatch' = M
  BY DEF Flasher!AccessWorks
<1>2. (mismatch' <=> M) /\ mismatch' \in BOOLEAN
  <2>1. M \in BOOLEAN
    OBVIOUS
  <2> HIDE DEF M
  <2>2. QED
    BY <1>1, <2>1, Zenon
<1>3. QED
  BY <1>2

\* The last access of a stage leads to the next one, or to the end.
LEMMA LeavesStage ==
  ASSUME FlasherInv, Flasher!AccessWorks, job = "flash_and_verify", at = Len(Flasher!Accesses),
         core' = core, ~core.run, Idle, found' = found, ram' \in Int,
         FlashMode(stage), BlankAhead(stage), stage' = stage => Calling',
         mismatch' <=> \E p \in Flasher!Image :
                         8 + 2 * ImagePages + 2 * p <= stage /\ flash[Offset + p - 1] # p,
         Flasher!now'.kind = "compare" => ram' = Flasher!now'.a
  PROVE  FlasherInv'
<1>1. /\ Advances /\ result = 1 /\ job' = job /\ table' = table /\ flash' = flash /\ mode' = mode
      /\ failures' = failures
  BY WorksAdvances
<1>2. FlashType /\ Last \in Nat /\ stage \in 1 .. Last /\ StageFact(stage, Flasher!now)
  BY KindOf DEF FlasherInv
<1>3. mismatch' \in BOOLEAN
  BY MismatchAfter
<1>4. \/ at' = 1 /\ stage' = stage + 1 /\ result' = 1 /\ stage < Last
      \/ at' = at /\ stage' = stage /\ result' = 0 /\ stage = Last
  BY <1>1 DEF Advances
<1>5. stage' \in 1 .. Last
  BY <1>2, <1>4
<1>6. StageFact(stage', Flasher!now')
  BY <1>5, StageFacts DEF Flasher!now
<1>7. at' \in 1 .. Len(Flasher!Accesses)'
  <2>1. CASE stage' = stage + 1
    <3>1. Flasher!now'.kind \in {"vtor", "table", "call", "copy", "compare"}
      BY <1>6 DEF StageFact
    <3>2. CASE Flasher!now'.kind = "vtor"
      <4>1. Flasher!Accesses' = <<Flasher!Do("vtor", "none", 0, -12)>>
        BY <1>1, <3>2 DEF Flasher!Accesses
      <4>2. QED
        BY <1>4, <2>1, <1>2, <4>1, Single
    <3>3. CASE Flasher!now'.kind = "table"
      <4>1. Flasher!Accesses' = [i \in 1 .. 2 * Len(table) + 3 |-> Flasher!TableAccess(i)]
        BY <1>1, <3>3 DEF Flasher!Accesses
      <4>2. QED
        BY <1>4, <2>1, <1>2, <4>1, TableFacts DEF FlashType
    <3>4. CASE Flasher!now'.kind = "call"
      <4> DEFINE c == Flasher!flash_and_verify[stage + 1]
      <4>1. Flasher!now' = c
        BY <2>1 DEF Flasher!now
      <4> HIDE DEF c
      <4>2. Flasher!Accesses' = Flasher!call_function(c)
        BY <1>1, <3>4, <4>1 DEF Flasher!Accesses, Flasher!call_function, Flasher!Registers
      <4>3. Len(Flasher!call_function(c)) = 31
        BY CallAccesses
      <4>4. QED
        BY <1>2, <1>4, <2>1, <4>2, <4>3
    <3>5. CASE Flasher!now'.kind \in {"copy", "compare"}
      <4>1. Flasher!Accesses' = <<Flasher!Do(Flasher!now'.kind, "none", Flasher!now'.a, -1)>>
        BY <1>1, <3>5 DEF Flasher!Accesses
      <4>2. QED
        BY <1>4, <2>1, <1>2, <4>1, Single
    <3>6. QED
      BY <3>1, <3>2, <3>3, <3>4, <3>5
  <2>2. CASE stage' = stage
    BY <1>1, <1>2, <1>4, <2>2, SameCall DEF FlashType
  <2>3. QED
    BY <1>4, <2>1, <2>2
<1>8. FlashType'
  BY <1>1, <1>2, <1>3, <1>4, <1>5, <1>7 DEF FlashType
<1>9. Outside'
  BY <1>1 DEF Outside
<1>10. Inside'
  <2>1. stage' = stage => Flasher!Accesses' = Flasher!Accesses
    BY <1>1, SameCall
  <2>2. core.debug /\ ~core.rst
    BY DEF FlasherInv, Inside
  <2>3. QED
    BY <1>1, <1>4, <2>1, <2>2 DEF Inside, Idle
<1>11. Search'
  <2>1. FoundUpTo(IF stage = 1 THEN 0 ELSE IF stage = 2 THEN at ELSE 2 * Len(table) + 3)
    BY DEF FlasherInv, Search
  <2>2. stage = 2 => at = 2 * Len(table) + 3
    BY <1>2, AccessIs DEF StageFact
  <2>3. table \in Tables /\ Len(table) \in Nat
    BY <1>2, TableFacts DEF FlashType
  <2>4. stage' = stage + 1 => FoundUpTo(IF stage' = 2 THEN 1 ELSE 2 * Len(table) + 3)
    <3>1. CASE stage = 1
      <4>1. FoundUpTo(0)
        BY <2>1, <3>1
      <4>2. FoundUpTo(1)
        BY <2>3, <4>1, TableFacts DEF FoundUpTo
      <4>3. QED
        BY <3>1, <4>2
    <3>2. CASE stage # 1
      BY <1>2, <2>1, <2>2, <2>3, <3>2
    <3>3. QED
      BY <3>1, <3>2
  <2>5. FoundUpTo(1) => FoundUpTo(1)'
    BY <1>1 DEF FoundUpTo, Flasher!Has
  <2>6. FoundUpTo(2 * Len(table) + 3) => FoundUpTo(2 * Len(table) + 3)'
    BY <1>1 DEF FoundUpTo, Flasher!Has
  <2>7. CASE stage' = stage + 1
    <3>1. stage' # 1 /\ (stage' = 2 => at' = 1)
      BY <1>2, <1>4, <2>7
    <3>2. CASE stage' = 2
      BY <2>4, <2>5, <2>7, <3>1, <3>2 DEF Search
    <3>3. CASE stage' # 2
      BY <2>4, <2>6, <2>7, <3>1, <3>3 DEF Search
    <3>4. QED
      BY <3>2, <3>3
  <2>8. CASE stage' = stage
    <3>1. stage > 2
      BY <1>2, <1>4, <2>8, Sizes DEF Last
    <3>2. FoundUpTo(2 * Len(table) + 3)' /\ stage' > 2
      BY <1>2, <2>1, <2>6, <2>8, <3>1
    <3>3. QED
      BY <1>2, <2>8, <3>1, <3>2 DEF Search
  <2>9. QED
    BY <1>4, <2>7, <2>8
<1>12. Calling'
  <2>1. CASE stage' = stage + 1
    <3>1. at' = 1 /\ Idle'
      BY <1>2, <1>4, <2>1 DEF Idle
    <3>2. \A j \in 1 .. 8 : ~(3 * j < 1) /\ 3 * j # 1 /\ 3 * j - 1 # 1
      OBVIOUS
    <3>3. \A c : Planted(c)'
      BY ONLY <3>1, <3>2 DEF Planted
    <3>4. QED
      BY <3>3 DEF Calling
  <2>2. QED
    BY <1>4, <2>1
<1>13. Done' = stage
  BY <1>2, <1>4 DEF Done
<1>14. Behind'
  <2>1. (FlashMode(Done) /\ BlankAhead(Done))'
    BY <1>1, <1>13 DEF FlashMode, BlankAhead
  <2>2. Compared(Done)'
    BY <1>1, <1>13 DEF Compared
  <2>3. QED
    BY <2>1, <2>2 DEF Behind
<1>15. Copied'
  BY DEF Copied
<1>16. QED
  BY <1>8, <1>9, <1>10, <1>11, <1>12, <1>14, <1>15 DEF FlasherInv

\* What an access leaves alone.
LEMMA Untouched ==
  ASSUME Flasher!AccessWorks
  PROVE  LET a == Flasher!access IN
         /\ a.kind # "entry" => found' = found
         /\ a.kind # "copy" => ram' = ram
         /\ a.kind # "compare" => (mismatch' <=> mismatch)
         /\ a.kind \in {"vtor", "pointer", "code", "entry", "copy", "compare", "poll", "dfsr",
                       "wait", "get"} => core' = core
<1> USE DEF Flasher!AccessWorks
<1>1. Flasher!access.kind # "entry" => found' = found
  BY DEF Flasher!FoundAfter
<1>2. Flasher!access.kind # "copy" => ram' = ram
  OBVIOUS
<1>3. Flasher!access.kind # "compare" => (mismatch' <=> mismatch)
  BY MismatchAfter
<1>4. Flasher!access.kind \in {"vtor", "pointer", "code", "entry", "copy", "compare", "poll",
                                "dfsr", "wait", "get"}
        => core' = core
  BY DEF Flasher!CoreAfter
<1>5. QED
  BY <1>1, <1>2, <1>3, <1>4

LEMMA VtorStep ==
  ASSUME FlasherInv, Flasher!AccessWorks, job = "flash_and_verify", Flasher!now.kind = "vtor"
  PROVE  FlasherInv'
<1>1. /\ FlashType /\ StageFact(stage, Flasher!now) /\ stage = 1 /\ at = Len(Flasher!Accesses)
      /\ at = 1 /\ Flasher!access.kind = "vtor"
  BY KindOf, AccessIs DEF FlasherInv, StageFact
<1>2. core' = core /\ found' = found /\ ram' = ram /\ (mismatch' <=> mismatch)
  BY <1>1, Untouched
<1>3. Advances /\ result = 1
  BY WorksAdvances
<1>4. stage' = 2
  BY <1>1, <1>3, Sizes DEF Advances, Last
<1>5. ~core.run /\ Idle
  BY DEF FlasherInv, Inside
<1>6. Done = 0
  BY <1>1, <1>3 DEF Done
<1>7. Compared(0)
  BY <1>6 DEF FlasherInv, Behind
<1>8. \A p \in Flasher!Image : ~(8 + 2 * ImagePages + 2 * p <= 0) /\ ~(8 + 2 * ImagePages + 2 * p <= 1)
  BY Sizes DEF Flasher!Image
<1>9. mismatch' <=> \E p \in Flasher!Image :
                      8 + 2 * ImagePages + 2 * p <= stage /\ flash[Offset + p - 1] # p
  BY <1>1, <1>2, <1>7, <1>8 DEF Compared
<1>10. FlashMode(stage) /\ BlankAhead(stage)
  BY <1>1, Sizes DEF FlashMode, BlankAhead
<1>11. Flasher!now'.kind = "table"
  BY <1>4, Stages DEF StageAt, Flasher!now, Flasher!Stage
<1>12. ram' \in Int
  BY <1>1, <1>2 DEF FlashType
<1>13. stage' # stage
  BY <1>1, <1>4
<1>14. QED
  BY <1>1, <1>2, <1>5, <1>9, <1>10, <1>11, <1>12, <1>13, LeavesStage

LEMMA TableStep ==
  ASSUME FlasherInv, Flasher!AccessWorks, job = "flash_and_verify", Flasher!now.kind = "table"
  PROVE  FlasherInv'
<1>1. /\ FlashType /\ stage = 2 /\ at \in 1 .. 2 * Len(table) + 3 /\ Len(table) \in Nat
      /\ table \in Tables /\ DOMAIN table = 1 .. Len(table)
  BY KindOf, AccessIs, TableFacts DEF FlasherInv, StageFact, FlashType
<1>2. Len(Flasher!Accesses) = 2 * Len(table) + 3 /\ TableFact(at, Flasher!access)
  BY <1>1, AccessIs
<1>3. core' = core /\ ram' = ram /\ (mismatch' <=> mismatch)
  BY <1>2, Untouched DEF TableFact
<1>4. /\ Advances /\ result = 1 /\ job' = job /\ table' = table /\ flash' = flash /\ mode' = mode
      /\ failures' = failures
  BY WorksAdvances
<1>5. ~core.run /\ Idle
  BY DEF FlasherInv, Inside
<1>6. Done = 1 /\ FlashMode(1) /\ BlankAhead(1) /\ Compared(1)
  BY <1>1, <1>4 DEF Done, FlasherInv, Behind
<1>7. ram' \in Int
  BY <1>1, <1>3 DEF FlashType
<1>8. CASE at = 2 * Len(table) + 3
  <2>1. found' = found
    <3>1. CASE Flasher!access.kind = "entry"
      <4>1. Flasher!access.val \notin DOMAIN table
        BY <1>1, <1>2, <1>8, <3>1 DEF TableFact
      <4>2. QED
        BY <4>1 DEF Flasher!AccessWorks, Flasher!FoundAfter
    <3>2. CASE Flasher!access.kind # "entry"
      BY <3>2, Untouched
    <3>3. QED
      BY <3>1, <3>2
  <2>2. stage' = 3
    BY <1>1, <1>2, <1>4, <1>8, Sizes DEF Advances, Last
  <2>3. Flasher!now'.kind = "call"
    BY <2>2, Stages DEF StageAt, Flasher!now, Flasher!Plain, Flasher!Call, Flasher!Stage
  <2>4. \A p \in Flasher!Image : ~(8 + 2 * ImagePages + 2 * p <= 1) /\ ~(8 + 2 * ImagePages + 2 * p <= 2)
    BY Sizes DEF Flasher!Image
  <2>5. mismatch' <=> \E p \in Flasher!Image :
                        8 + 2 * ImagePages + 2 * p <= stage /\ flash[Offset + p - 1] # p
    BY <1>1, <1>3, <1>6, <2>4 DEF Compared
  <2>6. FlashMode(stage) /\ BlankAhead(stage)
    BY <1>1, Sizes DEF FlashMode, BlankAhead
  <2>7. stage' # stage
    BY <1>1, <2>2
  <2>8. QED
    BY <1>2, <1>3, <1>5, <1>7, <1>8, <2>1, <2>3, <2>5, <2>6, <2>7, LeavesStage
<1>9. CASE at < 2 * Len(table) + 3
  <2>1. at' = at + 1 /\ stage' = stage /\ result' = 1
    BY <1>1, <1>2, <1>4, <1>9 DEF Advances
  <2>2. Flasher!now' = Flasher!now
    BY <2>1 DEF Flasher!now
  <2>3. Flasher!Accesses' = Flasher!Accesses
    BY <1>4, <2>2 DEF Flasher!Accesses
  <2>4. FoundUpTo(at)
    BY <1>1 DEF FlasherInv, Search
  <2>5. /\ found' \in [Flasher!Codes -> Int]
        /\ \A i \in DOMAIN table : table[i][1] \in Flasher!Codes =>
             found'[table[i][1]] = IF 2 * i + 1 < at + 1 THEN table[i][2] ELSE 0
        /\ \A c \in Flasher!Codes : ~Flasher!Has(table, c) => found'[c] = 0
    <3>1. found \in [Flasher!Codes -> Int]
      BY <1>1 DEF FlashType
    <3> DEFINE new == /\ Flasher!access.kind = "entry" /\ Flasher!access.val \in DOMAIN table
                      /\ table[Flasher!access.val][1] \in Flasher!Codes
    <3>2. CASE new
      <4> DEFINE k == Flasher!access.val
                 d == table[k][1]
                 v == table[k][2]
      <4>1. found' = [found EXCEPT ![d] = v]
        BY <3>2 DEF Flasher!AccessWorks, Flasher!FoundAfter
      <4>2. d \in Flasher!Codes /\ v \in Int /\ k \in DOMAIN table /\ at = 2 * k + 1
        BY <1>1, <1>2, <3>2, TableFacts DEF TableFact
      <4> HIDE DEF k
      <4>3. found' \in [Flasher!Codes -> Int] /\ found'[d] = v
            /\ \A c \in Flasher!Codes : c # d => found'[c] = found[c]
        BY <3>1, <4>1, <4>2
      <4>4. ASSUME NEW i \in DOMAIN table, table[i][1] \in Flasher!Codes
            PROVE  found'[table[i][1]] = IF 2 * i + 1 < at + 1 THEN table[i][2] ELSE 0
        <5>1. CASE i = k
          BY <1>1, <4>2, <4>3, <5>1
        <5>2. CASE i # k
          <6>1. table[i][1] # d
            BY <1>1, <4>2, <4>4, <5>2, TableFacts
          <6>2. found[table[i][1]] = IF 2 * i + 1 < at THEN table[i][2] ELSE 0
            BY <2>4, <4>4 DEF FoundUpTo
          <6>3. 2 * i + 1 < at <=> 2 * i + 1 < at + 1
            <7>1. i \in Nat /\ k \in Nat /\ i # k /\ at = 2 * k + 1
              BY <1>1, <4>2, <4>4, <5>2
            <7>2. QED
              BY <7>1
          <6>4. QED
            BY <4>3, <4>4, <6>1, <6>2, <6>3
        <5>3. QED
          BY <5>1, <5>2
      <4>5. ASSUME NEW c \in Flasher!Codes, ~Flasher!Has(table, c)
            PROVE  found'[c] = 0
        <5>1. c # d
          BY <4>2, <4>5 DEF Flasher!Has
        <5>2. QED
          BY <2>4, <4>3, <4>5, <5>1 DEF FoundUpTo
      <4>6. QED
        BY <4>3, <4>4, <4>5
    <3>3. CASE ~new
      <4>1. found' = found
        BY <3>3 DEF Flasher!AccessWorks, Flasher!FoundAfter
      <4>2. ASSUME NEW i \in DOMAIN table, table[i][1] \in Flasher!Codes
            PROVE  found[table[i][1]] = IF 2 * i + 1 < at + 1 THEN table[i][2] ELSE 0
        <5>1. at # 2 * i + 1
          BY <1>1, <1>2, <3>3, <4>2 DEF TableFact
        <5>2. 2 * i + 1 < at <=> 2 * i + 1 < at + 1
          BY <1>1, <4>2, <5>1
        <5>3. QED
          BY <2>4, <4>2, <5>2 DEF FoundUpTo
      <4>3. QED
        BY <2>4, <3>1, <4>1, <4>2 DEF FoundUpTo
    <3>4. QED
      BY <3>2, <3>3
  <2>6. mismatch' \in BOOLEAN
    BY MismatchAfter
  <2>7. FlashType'
    BY <1>1, <1>2, <1>3, <1>4, <1>7, <1>9, <2>1, <2>3, <2>5, <2>6 DEF FlashType
  <2>8. Outside' /\ Inside'
    BY <1>3, <1>4, <1>5, <2>1 DEF FlasherInv, Outside, Inside, Idle
  <2>9. Search'
    <3>1. at' = at + 1
      BY <1>1, <2>1
    <3>2. FoundUpTo(at)'
      BY <1>4, <2>5, <3>1 DEF FoundUpTo, Flasher!Has
    <3>3. QED
      BY <1>1, <2>1, <3>2 DEF Search
  <2>10. Calling' /\ Copied'
    BY <2>2 DEF Calling, Copied
  <2>11. Done' = 1
    BY <1>1, <2>1, <2>2 DEF Done
  <2>12. Behind'
    <3>1. (FlashMode(1) /\ BlankAhead(1) /\ Compared(1))'
      BY <1>3, <1>4, <1>6 DEF FlashMode, BlankAhead, Compared
    <3>2. QED
      BY <2>11, <3>1 DEF Behind, FlashMode, BlankAhead, Compared
  <2>13. QED
    BY <2>7, <2>8, <2>9, <2>10, <2>12 DEF FlasherInv
<1>10. QED
  BY <1>1, <1>8, <1>9

LEMMA CopyStep ==
  ASSUME FlasherInv, Flasher!AccessWorks, job = "flash_and_verify", Flasher!now.kind = "copy"
  PROVE  FlasherInv'
<1>1. /\ FlashType /\ at = 1 /\ Len(Flasher!Accesses) = 1 /\ Flasher!access.kind = "copy"
      /\ Flasher!access.val = Flasher!now.a
  BY AccessIs DEF FlasherInv
<1>2. core' = core /\ found' = found /\ (mismatch' <=> mismatch) /\ ram' = Flasher!now.a
  BY <1>1, Untouched DEF Flasher!AccessWorks
<1>3. Advances /\ result = 1
  BY WorksAdvances
<1>4. PICK p \in Flasher!Image :
        Flasher!now.a = p /\ stage \in {5 + 2 * p, 7 + 2 * ImagePages + 2 * p}
  BY <1>1, KindOf DEF StageFact
<1>5. p \in 1 .. ImagePages /\ stage' = stage + 1 /\ stage \in Int
  BY <1>1, <1>3, <1>4, Sizes DEF Advances, Last, Flasher!Image, FlashType
<1>6. ~core.run /\ Idle
  BY DEF FlasherInv, Inside
<1>7. FlashMode(stage - 1) /\ BlankAhead(stage - 1) /\ Compared(stage - 1)
  <2>1. Done = stage - 1
    BY <1>3 DEF Done
  <2>2. QED
    BY <2>1 DEF FlasherInv, Behind
<1>8. \A q \in Flasher!Image :
        8 + 2 * ImagePages + 2 * q <= stage <=> 8 + 2 * ImagePages + 2 * q <= stage - 1
  <2> SUFFICES ASSUME NEW q \in Flasher!Image PROVE 8 + 2 * ImagePages + 2 * q # stage
    BY <1>5, Sizes DEF Flasher!Image
  <2>1. q \in 1 .. ImagePages
    BY DEF Flasher!Image
  <2>2. QED
    BY <1>4, <1>5, <2>1, Sizes
<1>9. mismatch' <=> \E q \in Flasher!Image :
                      8 + 2 * ImagePages + 2 * q <= stage /\ flash[Offset + q - 1] # q
  BY <1>2, <1>7, <1>8 DEF Compared
<1>10. FlashMode(stage)
  BY <1>4, <1>5, <1>7, Sizes DEF FlashMode
<1>11. BlankAhead(stage)
  <2>1. stage - 1 >= 5
    BY <1>4, <1>5, Sizes
  <2>2. \A q \in Flasher!Image : 6 + 2 * q > stage => 6 + 2 * q > stage - 1
    BY <1>5, Sizes DEF Flasher!Image
  <2>3. QED
    BY <1>7, <2>1, <2>2 DEF BlankAhead
<1>12. Flasher!now'.kind = "compare" => ram' = Flasher!now'.a
  <2>1. stage' \in 1 .. Last
    BY <1>4, <1>5, Sizes DEF Last
  <2>2. StageFact(stage', Flasher!now')
    BY <2>1, StageFacts DEF Flasher!now
  <2>3. ASSUME Flasher!now'.kind = "compare" PROVE ram' = Flasher!now'.a
    <3>1. PICK q \in Flasher!Image : Flasher!now'.a = q /\ stage' = 8 + 2 * ImagePages + 2 * q
      BY <2>2, <2>3 DEF StageFact
    <3>2. q = p
      BY <1>4, <1>5, <3>1, Sizes DEF Flasher!Image
    <3>3. QED
      BY <1>2, <1>4, <3>1, <3>2
  <2>4. QED
    BY <2>3
<1>13. ram' \in Int /\ stage' # stage /\ at = Len(Flasher!Accesses)
  BY <1>1, <1>2, <1>4, <1>5
<1>14. QED
  BY <1>2, <1>6, <1>9, <1>10, <1>11, <1>12, <1>13, LeavesStage

LEMMA CompareStep ==
  ASSUME FlasherInv, Flasher!AccessWorks, job = "flash_and_verify", Flasher!now.kind = "compare"
  PROVE  FlasherInv'
<1>1. /\ FlashType /\ at = 1 /\ Len(Flasher!Accesses) = 1 /\ Flasher!access.kind = "compare"
      /\ Flasher!access.val = Flasher!now.a
  BY AccessIs DEF FlasherInv
<1>2. core' = core /\ found' = found /\ ram' = ram
  BY <1>1, Untouched
<1>3. Advances /\ result = 1 /\ job' = job /\ table' = table
  BY WorksAdvances
<1>4. PICK p \in Flasher!Image : Flasher!now.a = p /\ stage = 8 + 2 * ImagePages + 2 * p
  BY <1>1, KindOf DEF StageFact
<1>5. p \in 1 .. ImagePages
  BY DEF Flasher!Image
<1>6. ~core.run /\ Idle /\ ram = p
  BY <1>4 DEF FlasherInv, Inside, Copied
<1>7. FlashMode(stage - 1) /\ Compared(stage - 1)
  <2>1. Done = stage - 1
    BY <1>3 DEF Done
  <2>2. QED
    BY <2>1 DEF FlasherInv, Behind
<1>8. mode = "xip"
  BY <1>4, <1>5, <1>7, Sizes DEF FlashMode
<1>9. mismatch' <=> (mismatch \/ flash[Offset + p - 1] # p)
  BY <1>1, <1>4, <1>6, <1>8, MismatchAfter DEF Flasher!Mapped
<1>10. \A q \in Flasher!Image :
         8 + 2 * ImagePages + 2 * q <= stage <=> 8 + 2 * ImagePages + 2 * q <= stage - 1 \/ q = p
  BY <1>4, <1>5, Sizes DEF Flasher!Image
<1>11. mismatch' <=> \E q \in Flasher!Image :
                       8 + 2 * ImagePages + 2 * q <= stage /\ flash[Offset + q - 1] # q
  BY <1>7, <1>9, <1>10 DEF Compared
<1>12. FlashMode(stage)
  BY <1>4, <1>5, <1>8, Sizes DEF FlashMode
<1>13. BlankAhead(stage)
  BY <1>4, <1>5, Sizes DEF BlankAhead, Flasher!Image
<1>14. Flasher!now'.kind = "compare" => ram' = Flasher!now'.a
  <2>1. \/ stage' = stage + 1 /\ stage + 1 \in 1 .. Last
        \/ stage' = stage
    BY <1>1, <1>3, <1>4, <1>5, Sizes DEF Advances, Last
  <2>2. CASE stage' = stage
    <3>1. Flasher!now' = Flasher!now
      BY <2>2 DEF Flasher!now
    <3>2. QED
      BY <1>2, <1>4, <1>6, <3>1
  <2>3. CASE stage' = stage + 1 /\ stage + 1 \in 1 .. Last
    <3>1. StageFact(stage', Flasher!now')
      BY <2>3, StageFacts DEF Flasher!now
    <3>2. Flasher!now'.kind # "compare"
      <4>1. \A q \in Flasher!Image : stage' # 8 + 2 * ImagePages + 2 * q
        BY <1>4, <1>5, <2>3, Sizes DEF Flasher!Image
      <4>2. QED
        BY <3>1, <4>1 DEF StageFact
    <3>3. QED
      BY <3>2
  <2>4. QED
    BY <2>1, <2>2, <2>3
<1>15. stage' = stage => Calling'
  BY DEF Calling, Flasher!now
<1>16. ram' \in Int /\ at = Len(Flasher!Accesses)
  BY <1>1, <1>2, <1>4, <1>5, <1>6
<1>17. QED
  BY <1>2, <1>6, <1>11, <1>12, <1>13, <1>14, <1>15, <1>16, LeavesStage

\* One access of a call: a register after the other, then the run.
LEMMA CallStep ==
  ASSUME FlasherInv, Flasher!AccessWorks, job = "flash_and_verify", Flasher!now.kind = "call",
         at < 31
  PROVE  FlasherInv'
<1> DEFINE s == Flasher!now
<1>1. /\ FlashType /\ Len(Flasher!Accesses) = 31 /\ at \in 1 .. 30
      /\ CallFact(s, at, Flasher!access)
  BY AccessIs DEF FlasherInv
<1>2. /\ Advances /\ result = 1 /\ job' = job /\ table' = table /\ flash' = flash /\ mode' = mode
      /\ failures' = failures
  BY WorksAdvances
<1>3. at' = at + 1 /\ stage' = stage /\ result' = 1
  BY <1>1, <1>2 DEF Advances
<1>4. Planted(s)
  BY DEF FlasherInv, Calling
<1>5. \/ \E j \in 1 .. 8 : at \in {3 * j - 2, 3 * j - 1, 3 * j}
      \/ at \in 25 .. 30
  <2>1. CASE at \in 1 .. 24
    <3>1. (at + 2) \div 3 \in 1 .. 8
          /\ at \in {3 * ((at + 2) \div 3) - 2, 3 * ((at + 2) \div 3) - 1, 3 * ((at + 2) \div 3)}
      BY <2>1
    <3>2. QED
      BY <3>1
  <2>2. QED
    BY <1>1, <2>1
<1>6. Flasher!access.kind \in {"data", "write", "poll", "dfsr", "resume", "wait", "ask"}
  <2>1. ASSUME NEW j \in 1 .. 8, at \in {3 * j - 2, 3 * j - 1, 3 * j}
        PROVE  Flasher!access.kind \in {"data", "write", "poll"}
    BY <1>1, <2>1 DEF CallFact
  <2>2. CASE at \in 25 .. 30
    BY <1>1, <2>2 DEF CallFact
  <2>3. QED
    BY <1>5, <2>1, <2>2
<1>7. found' = found /\ ram' = ram /\ (mismatch' <=> mismatch) /\ mismatch' \in BOOLEAN
  BY <1>6, Untouched, MismatchAfter
<1>8. /\ s' = s /\ Flasher!Accesses' = Flasher!Accesses
      /\ \A c, j : Reg(c, j)' = Reg(c, j) /\ Val(c, j)' = Val(c, j)
  BY <1>2, <1>3, <1>7, SameCall
<1>9. core \in CoreType /\ core.debug /\ ~core.rst /\ (core.run => at = 28)
      /\ core' = Flasher!CoreAfter(Flasher!access)
  BY <1>1 DEF FlasherInv, FlashType, Inside, Flasher!AccessWorks
<1> HIDE DEF s
<1>10. \A j \in 1 .. 8 : Reg(s, j) \in Flasher!Regs /\ Val(s, j) \in Int
  <2>1. StageFact(stage, s) /\ found \in [Flasher!Codes -> Int]
    BY <1>1, KindOf DEF FlashType, s
  <2>2. s.kind = "call"
    BY DEF s
  <2>3. /\ s.code \in Flasher!Codes /\ "DT" \in Flasher!Codes
        /\ s.a[1] \in Int /\ s.a[2] \in Int /\ s.a[3] \in Int /\ s.a[4] \in Int
    BY <2>1, <2>2 DEF StageFact, Flasher!Codes
  <2>4. QED
    BY <2>1, <2>3, RegisterNames DEF Flasher!Regs, Flasher!MSP, Flasher!EPSR
\* What the step does to the core.
<1>11. /\ core' \in CoreType /\ core'.debug /\ ~core'.rst /\ (core'.run => at' = 28)
       /\ (at >= 28 => ~core'.run) /\ (at = 27 => core'.run)
       /\ Planted(s)'
  <2>1. ASSUME NEW j \in 1 .. 8, at = 3 * j - 2
        PROVE  /\ core' \in CoreType /\ core'.debug /\ ~core'.rst /\ ~core'.run /\ Planted(s)'
    <3>1. Flasher!access.kind = "data" /\ Flasher!access.val = Val(s, j)
      BY <1>1, <2>1 DEF CallFact
    <3>2. core' = [core EXCEPT !.dcrdr = Val(s, j)]
      BY <1>9, <3>1 DEF Flasher!CoreAfter
    <3>3. at # 28
      BY <2>1
    <3>4. core' \in CoreType /\ core'.debug /\ ~core'.rst /\ ~core'.run /\ core'.xfer = core.xfer
          /\ core'.regs = core.regs /\ core'.dcrdr = Val(s, j)
      BY <1>9, <1>10, <3>2, <3>3 DEF CoreType
    <3>5. Idle
      BY <1>4, <2>1 DEF Planted
    <3>6. Planted(s)'
      BY <1>3, <1>4, <1>8, <2>1, <3>4, <3>5 DEF Planted, Idle
    <3>7. QED
      BY <3>4, <3>6
  <2>2. ASSUME NEW j \in 1 .. 8, at = 3 * j - 1
        PROVE  /\ core' \in CoreType /\ core'.debug /\ ~core'.rst /\ ~core'.run /\ Planted(s)'
    <3>1. Flasher!access.kind = "write" /\ Flasher!access.reg = Reg(s, j)
      BY <1>1, <2>2 DEF CallFact
    <3>2. core' = [core EXCEPT !.xfer = [reg |-> Reg(s, j), dir |-> "write"]]
      BY <1>9, <3>1 DEF Flasher!CoreAfter
    <3>3. at # 28
      BY <2>2
    <3>4. core' \in CoreType /\ core'.debug /\ ~core'.rst /\ ~core'.run
          /\ core'.xfer = [reg |-> Reg(s, j), dir |-> "write"]
          /\ core'.regs = core.regs /\ core'.dcrdr = core.dcrdr
      BY <1>9, <1>10, <3>2, <3>3 DEF CoreType
    <3>5. core.dcrdr = Val(s, j)
      BY <1>4, <2>2 DEF Planted
    <3>6. core'.xfer # Flasher!NoTransfer
      BY <3>4 DEF Flasher!NoTransfer
    <3>7. \A i \in 1 .. 8 : 3 * i < at' => core.regs[Reg(s, i)] = Val(s, i)
      BY <1>3, <1>4, <2>2 DEF Planted
    <3>8. \A i \in 1 .. 8 : 3 * i - 1 = at' \/ 3 * i = at' => i = j
      BY <1>3, <2>2
    <3>9. Planted(s)'
      BY <1>3, <1>8, <2>2, <3>4, <3>5, <3>6, <3>7, <3>8 DEF Planted, Idle
    <3>10. QED
      BY <3>4, <3>9
  <2>3. ASSUME NEW j \in 1 .. 8, at = 3 * j
        PROVE  /\ core' \in CoreType /\ core'.debug /\ ~core'.rst /\ ~core'.run /\ Planted(s)'
    <3>1. Flasher!access.kind = "poll"
      BY <1>1, <2>3 DEF CallFact
    <3>2. core' = core
      BY <3>1, Untouched
    <3>3. Idle /\ at # 28
      BY <2>3, <3>1 DEF Flasher!AccessWorks, Idle
    <3>4. Planted(s)'
      BY <1>3, <1>4, <1>8, <2>3, <3>2, <3>3 DEF Planted, Idle
    <3>5. QED
      BY <1>9, <3>2, <3>3, <3>4
  <2>4. CASE at \in {25, 26, 28, 30}
    <3>1. core' = core /\ Idle /\ ~core.run
      BY <1>1, <1>4, <1>9, <2>4, Untouched DEF CallFact, Planted, Idle, Flasher!AccessWorks
    <3>2. Planted(s)'
      BY <1>3, <1>4, <1>8, <2>4, <3>1 DEF Planted, Idle
    <3>3. QED
      BY <1>9, <2>4, <3>1, <3>2
  <2>5. CASE at = 27
    <3>1. core' = [core EXCEPT !.run = TRUE]
      BY <1>1, <1>9, <2>5 DEF CallFact, Flasher!CoreAfter
    <3>2. core' \in CoreType /\ core'.debug /\ ~core'.rst /\ core'.run /\ core'.xfer = core.xfer
          /\ core'.regs = core.regs /\ core'.dcrdr = core.dcrdr
      BY <1>9, <3>1 DEF CoreType
    <3>3. Planted(s)'
      BY <1>3, <1>4, <1>8, <2>5, <3>2 DEF Planted, Idle
    <3>4. QED
      BY <1>3, <2>5, <3>2, <3>3
  <2>6. CASE at = 29
    <3>1. core' = [core EXCEPT !.xfer = [reg |-> "r0", dir |-> "read"]]
      BY <1>1, <1>9, <2>6 DEF CallFact, Flasher!CoreAfter
    <3>2. core' \in CoreType /\ core'.debug /\ ~core'.rst /\ ~core'.run
          /\ core'.xfer = [reg |-> "r0", dir |-> "read"]
          /\ core'.regs = core.regs /\ core'.dcrdr = core.dcrdr
      BY <1>9, <2>6, <3>1 DEF CoreType, Flasher!Regs
    <3>3. Planted(s)'
      BY <1>3, <1>4, <1>8, <2>6, <3>2 DEF Planted, Idle
    <3>4. QED
      BY <2>6, <3>2, <3>3
  <2>7. QED
    BY <1>1, <1>5, <2>1, <2>2, <2>3, <2>4, <2>5, <2>6
<1>12. Flasher!now' = Flasher!now
  BY <1>8 DEF s
<1>13. FlashType'
  <2>1. at' \in 1 .. Len(Flasher!Accesses)'
    <3>1. Flasher!Accesses' = Flasher!Accesses
      BY <1>8
    <3>2. Len(Flasher!Accesses)' = 31
      BY ONLY <1>1, <3>1
    <3>3. at' \in 1 .. 31
      BY ONLY <1>1, <1>3
    <3>4. QED
      BY ONLY <3>2, <3>3
  <2>2. /\ stage' \in 1 .. Last /\ found' \in [Flasher!Codes -> Int] /\ ram' \in Int
        /\ flash' \in [Flasher!Page -> Int] /\ table' \in Tables /\ failures' \in Nat
        /\ job' \in {"reset_into_debug", "flash_and_verify", "reset"} /\ result' \in Int
    BY <1>1, <1>2, <1>3, <1>7 DEF FlashType
  <2>3. QED
    BY ONLY <1>7, <1>11, <2>1, <2>2 DEF FlashType
<1>14. Outside' /\ Inside'
  BY <1>2, <1>3, <1>11, <1>12 DEF Outside, Inside
<1>15. Search'
  <2>1. stage > 2 /\ stage \in Int
    BY <1>1, KindOf DEF StageFact, FlashType
  <2>2. QED
    BY <1>2, <1>3, <1>7, <2>1 DEF FlasherInv, Search, FoundUpTo, Flasher!Has
<1>16. Calling' /\ Copied'
  BY <1>11, <1>12 DEF Calling, Copied, s
<1>17. Done' = Done
  <2>1. CASE at < 27
    BY <1>1, <1>2, <1>3, <2>1 DEF Done
  <2>2. CASE at = 27
    BY <1>1, <1>2, <1>3, <1>11, <2>2 DEF Done
  <2>3. CASE at = 28
    <3>1. ~core.run
      BY <1>1, <2>3 DEF CallFact, Flasher!AccessWorks
    <3>2. QED
      BY <1>2, <1>3, <1>12, <2>3, <3>1 DEF Done
  <2>4. CASE at > 28
    BY <1>1, <1>2, <1>3, <1>12, <2>4 DEF Done
  <2>5. QED
    BY <1>1, <2>1, <2>2, <2>3, <2>4
<1>18. Behind'
  BY <1>2, <1>7, <1>17 DEF FlasherInv, Behind, FlashMode, BlankAhead, Compared
<1>19. QED
  BY <1>13, <1>14, <1>15, <1>16, <1>18 DEF FlasherInv

\* The last access of a call: its stage is done, and the next one begins.
LEMMA CallEnds ==
  ASSUME FlasherInv, Flasher!AccessWorks, job = "flash_and_verify", Flasher!now.kind = "call",
         at >= 31
  PROVE  FlasherInv'
<1> DEFINE s == Flasher!now
<1>1. /\ FlashType /\ at = 31 /\ Len(Flasher!Accesses) = 31 /\ Flasher!access.kind = "get"
      /\ StageFact(stage, s) /\ stage \in 1 .. Last /\ s.kind = "call"
  BY AccessIs, KindOf DEF FlasherInv, CallFact
<1>2. core' = core /\ found' = found /\ ram' = ram /\ (mismatch' <=> mismatch)
  BY <1>1, Untouched
<1>3. Advances /\ result = 1 /\ job' = job /\ table' = table
  BY WorksAdvances
<1>4. \/ at' = 1 /\ stage' = stage + 1 /\ stage < Last
      \/ at' = at /\ stage' = stage
  BY <1>1, <1>3 DEF Advances
<1>5. Planted(s)
  BY DEF FlasherInv, Calling
<1>6. Idle /\ ~core.run
  <2>1. Idle
    BY <1>1, <1>5 DEF Planted
  <2>2. ~core.run
    BY <1>1 DEF FlasherInv, Inside
  <2>3. QED
    BY <2>1, <2>2
<1>7. FlashMode(stage) /\ BlankAhead(stage) /\ Compared(stage)
  <2>1. Done = stage
    BY <1>1 DEF Done
  <2>2. QED
    BY <2>1 DEF FlasherInv, Behind
<1>8. mismatch' <=> \E p \in Flasher!Image :
                      8 + 2 * ImagePages + 2 * p <= stage /\ flash[Offset + p - 1] # p
  BY <1>2, <1>7 DEF Compared
<1>9. stage \in 1 .. 8 + 2 * ImagePages
  <2>1. s.code \in {"IF", "EX", "RE", "FC", "CX"} => stage \in 1 .. 8 + 2 * ImagePages
    BY <1>1, Sizes DEF StageFact
  <2>2. s.code = "RP" => stage \in 1 .. 8 + 2 * ImagePages
    BY <1>1, Sizes DEF StageFact, Flasher!Image
  <2>3. QED
    BY <1>1, <2>1, <2>2 DEF StageFact
<1> HIDE DEF s
<1>10. ASSUME stage' = stage PROVE Calling'
  <2>1. at' = at
    BY <1>4, <1>9, <1>10, Sizes
  <2>2. s' = s /\ \A c, j : Reg(c, j)' = Reg(c, j) /\ Val(c, j)' = Val(c, j)
    BY <1>2, <1>3, <1>10, SameCall DEF s
  <2>3. Planted(s)'
    BY <1>2, <1>5, <2>1, <2>2 DEF Planted, Idle
  <2>4. QED
    BY <2>3 DEF Calling, s
<1>11. Flasher!now'.kind = "compare" => ram' = Flasher!now'.a
  <2>1. stage' \in 1 .. Last /\ stage' <= 9 + 2 * ImagePages
    BY <1>1, <1>4, <1>9, Sizes DEF Last
  <2>2. StageFact(stage', Flasher!now')
    BY <2>1, StageFacts DEF Flasher!now
  <2>3. \A p \in Flasher!Image : stage' # 8 + 2 * ImagePages + 2 * p
    BY <2>1, Sizes DEF Flasher!Image
  <2>4. QED
    BY <2>2, <2>3 DEF StageFact
<1>12. ram' \in Int
  BY <1>1, <1>2 DEF FlashType
<1>13. QED
  BY <1>1, <1>2, <1>6, <1>7, <1>8, <1>10, <1>11, <1>12, LeavesStage

\* A step of reset_into_debug() or reset(): each leaves the core as the next
\* function expects it.
LEMMA ResetJobsStep ==
  ASSUME FlasherInv, Flasher!AccessWorks, job \in {"reset_into_debug", "reset"}
  PROVE  FlasherInv'
<1>1. /\ Advances /\ result = 1 /\ job' = job /\ table' = table /\ flash' = flash
      /\ failures' = failures
  BY WorksAdvances
<1>2. FlashType /\ at \in 1 .. 3 /\ Len(Flasher!Accesses) = 3
  BY AccessIs DEF FlasherInv
<1>3. /\ stage' = stage /\ at' \in 1 .. 3 /\ result' \in {0, 1}
      /\ at < 3 => at' = at + 1 /\ result' = 1
      /\ at = 3 => at' = 3 /\ result' = 0
  BY <1>1, <1>2 DEF Advances
<1>4. Flasher!access.kind \in {"halt", "vc", "leave", "sysreset"}
  BY <1>2, AccessIs
<1>5. found' = found /\ ram' = ram /\ (mismatch' <=> mismatch) /\ mismatch' \in BOOLEAN
  BY <1>4, Untouched, MismatchAfter
<1>6. core \in CoreType /\ Idle /\ core' = Flasher!CoreAfter(Flasher!access)
  BY <1>2 DEF FlasherInv, FlashType, Outside, Flasher!AccessWorks
<1>7. core' \in CoreType /\ Idle' /\ Outside'
  <2>1. ASSUME job = "reset_into_debug", at = 1
        PROVE  core' \in CoreType /\ Idle' /\ Outside'
    <3>1. core' = [core EXCEPT !.debug = TRUE, !.run = FALSE]
      BY <1>2, <1>6, <2>1, AccessIs DEF Flasher!CoreAfter
    <3>2. core' \in CoreType /\ core'.debug /\ ~core'.run /\ core'.rst = core.rst /\ core'.xfer = core.xfer
      BY <1>6, <3>1 DEF CoreType
    <3>3. ~core.rst /\ found = Flasher!Missing /\ ~mismatch
      BY <1>1, <2>1 DEF FlasherInv, Outside
    <3>4. QED
      BY <1>1, <1>3, <1>5, <1>6, <2>1, <3>2, <3>3 DEF Outside, Idle
  <2>2. ASSUME job = "reset_into_debug", at = 2
        PROVE  core' \in CoreType /\ Idle' /\ Outside'
    <3>1. core' = [core EXCEPT !.vc = TRUE]
      BY <1>2, <1>6, <2>2, AccessIs DEF Flasher!CoreAfter
    <3>2. core' \in CoreType /\ core'.debug = core.debug /\ core'.run = core.run /\ core'.vc
          /\ core'.rst = core.rst /\ core'.xfer = core.xfer
      BY <1>6, <3>1 DEF CoreType
    <3>3. ~core.rst /\ found = Flasher!Missing /\ ~mismatch /\ core.debug /\ ~core.run
      BY <1>1, <2>2 DEF FlasherInv, Outside
    <3>4. QED
      BY <1>1, <1>3, <1>5, <1>6, <2>2, <3>2, <3>3 DEF Outside, Idle
  <2>3. ASSUME job = "reset_into_debug", at = 3
        PROVE  core' \in CoreType /\ Idle' /\ Outside'
    <3>1. core' = [core EXCEPT !.rst = TRUE]
      BY <1>2, <1>6, <2>3, AccessIs DEF Flasher!CoreAfter
    <3>2. core' \in CoreType /\ core'.debug = core.debug /\ core'.run = core.run
          /\ core'.vc = core.vc /\ core'.xfer = core.xfer
      BY <1>6, <3>1 DEF CoreType
    <3>3. found = Flasher!Missing /\ ~mismatch /\ core.debug /\ ~core.run /\ core.vc
      BY <1>1, <2>3 DEF FlasherInv, Outside
    <3>4. QED
      BY <1>1, <1>3, <1>5, <1>6, <2>3, <3>2, <3>3 DEF Outside, Idle
  <2>4. ASSUME job = "reset", at = 1
        PROVE  core' \in CoreType /\ Idle' /\ Outside'
    <3>1. core' = [core EXCEPT !.vc = FALSE]
      BY <1>2, <1>6, <2>4, AccessIs DEF Flasher!CoreAfter
    <3>2. core' \in CoreType /\ core'.run = core.run /\ core'.rst = core.rst /\ core'.xfer = core.xfer
      BY <1>6, <3>1 DEF CoreType
    <3>3. ~core.rst /\ ~core.run
      BY <1>1, <2>4 DEF FlasherInv, Outside
    <3>4. QED
      BY <1>1, <1>3, <1>6, <2>4, <3>2, <3>3 DEF Outside, Idle
  <2>5. ASSUME job = "reset", at = 2
        PROVE  core' \in CoreType /\ Idle' /\ Outside'
    <3>1. core' = [core EXCEPT !.debug = FALSE, !.run = TRUE]
      BY <1>2, <1>6, <2>5, AccessIs DEF Flasher!CoreAfter
    <3>2. core' \in CoreType /\ ~core'.debug /\ core'.xfer = core.xfer
      BY <1>6, <3>1 DEF CoreType
    <3>3. QED
      BY <1>1, <1>3, <1>6, <2>5, <3>2 DEF Outside, Idle
  <2>6. ASSUME job = "reset", at = 3
        PROVE  core' \in CoreType /\ Idle' /\ Outside'
    <3>1. core' = [core EXCEPT !.rst = TRUE]
      BY <1>2, <1>6, <2>6, AccessIs DEF Flasher!CoreAfter
    <3>2. core' \in CoreType /\ core'.debug = core.debug /\ core'.xfer = core.xfer
      BY <1>6, <3>1 DEF CoreType
    <3>3. ~core.debug
      BY <1>1, <2>6 DEF FlasherInv, Outside
    <3>4. QED
      BY <1>1, <1>3, <1>6, <2>6, <3>2, <3>3 DEF Outside, Idle
  <2>7. QED
    BY <1>2, <2>1, <2>2, <2>3, <2>4, <2>5, <2>6
<1>8. FlashType'
  <2>1. at' \in 1 .. Len(Flasher!Accesses)'
    BY <1>1, <1>2, <1>3, <1>5, SameCall
  <2>2. QED
    BY <1>1, <1>2, <1>3, <1>5, <1>7, <2>1 DEF FlashType
<1>9. QED
  BY <1>1, <1>7, <1>8 DEF FlasherInv, Inside, Search, Calling, Behind, Copied

LEMMA WorksStep ==
  ASSUME FlasherInv, Flasher!AccessWorks
  PROVE  FlasherInv'
<1>1. FlashType /\ at \in Int
  BY AccessIs, KindOf, TableFacts DEF FlasherInv, FlashType
<1>2. job = "flash_and_verify" \/ job \in {"reset_into_debug", "reset"}
  BY <1>1 DEF FlashType
<1>3. Flasher!now.kind \in {"vtor", "table", "call", "copy", "compare"}
  BY <1>1, KindOf
<1>4. QED
  BY <1>1, <1>2, <1>3, VtorStep, TableStep, CopyStep, CompareStep, CallStep, CallEnds, ResetJobsStep

LEMMA StandsStill ==
  ASSUME FlasherInv, UNCHANGED Flasher!vars
  PROVE  FlasherInv'
<1>1. /\ UNCHANGED <<Flasher!hostVars, table>>
      /\ core' = core /\ flash' = flash /\ mode' = mode /\ ram' = ram /\ table' = table
      /\ failures' = failures
  BY DEF Flasher!vars
<1>2. FlashType'
  BY <1>1, HostKept DEF FlasherInv, FlashType
<1>3. Outside' /\ Inside'
  BY <1>1, HostKept DEF FlasherInv, Outside, Inside, Idle
<1>4. Search' /\ Copied'
  BY <1>1, HostKept DEF FlasherInv, Search, FoundUpTo, Copied
<1>5. Calling'
  <2> DEFINE s == Flasher!now
  <2>1. Planted(s) => Planted(s)'
    <3> HIDE DEF s
    <3>1. s' = s /\ at' = at /\ \A j : Reg(s, j)' = Reg(s, j) /\ Val(s, j)' = Val(s, j)
      BY <1>1, HostKept DEF s
    <3>2. QED
      BY <1>1, <3>1 DEF Planted, Idle
  <2>2. QED
    BY <1>1, <2>1, HostKept DEF FlasherInv, Calling
<1>6. Done' = Done
  BY <1>1, HostKept DEF Done
<1>7. Behind'
  BY <1>1, <1>6, HostKept DEF FlasherInv, Behind, FlashMode, BlankAhead, Compared
<1>8. QED
  BY <1>2, <1>3, <1>4, <1>5, <1>7 DEF FlasherInv
-----------------------------------------------------------------------------
(* The theorems.                                                            *)

\* FlasherInv is inductive.
LEMMA FlasherInductive ==
  FlasherInv /\ [Flasher!Next]_(Flasher!vars) => FlasherInv'
<1> SUFFICES ASSUME FlasherInv, [Flasher!Next]_(Flasher!vars) PROVE FlasherInv'
  OBVIOUS
<1>1. \/ Flasher!AccessWorks \/ Flasher!NextJob \/ Flasher!AccessFails
      \/ Flasher!core_transfer \/ Flasher!run_serial \/ Flasher!run_erase \/ Flasher!run_program
      \/ Flasher!run_mapped \/ Flasher!core_reset \/ UNCHANGED Flasher!vars
  BY DEF Flasher!Next, Flasher!Host, Flasher!Core
<1>2. QED
  BY <1>1, WorksStep, JobStep, FailsStep, TransferStep, SerialStep, EraseStep, ProgramStep,
     MappedStep, ResetStep, StandsStill

LEMMA FlasherInvariant ==
  Flasher!Spec => []FlasherInv
BY Starts, FlasherInductive, PTL DEF Flasher!Spec

\* Whatever faults the accesses meet and however long the core takes, the core
\* never runs under the debugger but with the routine, the arguments, the stack
\* and the return address of the call in progress (call_function()).
THEOREM RunsAsAskedTheorem ==
  Flasher!Spec => []RunsAsAsked
BY FlasherInvariant, RunsAsAskedHolds, PTL

\* When flash_and_verify() returns 0 it has reported a mismatch exactly if a
\* page of the flash differs from the image, for an image of any length.
THEOREM ReportsBadPagesTheorem ==
  Flasher!Spec => []ReportsBadPages
BY FlasherInvariant, ReportsBadPagesHolds, PTL

\* Only pages of the image change, and only a blank one is programmed.
THEOREM OnlyErasedPagesTheorem ==
  Flasher!Spec => OnlyErasedPages
<1>1. ASSUME FlasherInv, [Flasher!Next]_(Flasher!vars)
      PROVE  [\A p \in Flasher!Page : flash'[p] # flash[p] =>
                /\ p \in Offset .. Offset + ImagePages - 1
                /\ flash'[p] # Flasher!Blank => flash[p] = Flasher!Blank]_(Flasher!vars)
  <2>1. CASE Flasher!run_erase
    BY <2>1, <1>1, EraseStep
  <2>2. CASE Flasher!run_program
    BY <2>2, <1>1, ProgramStep
  <2>3. CASE ~Flasher!run_erase /\ ~Flasher!run_program
    <3>1. flash' = flash
      BY <1>1, <2>3 DEF Flasher!Next, Flasher!Host, Flasher!Core, Flasher!AccessWorks, Flasher!NextJob,
         Flasher!AccessFails, Flasher!core_transfer, Flasher!run_serial, Flasher!run_mapped,
         Flasher!core_reset, Flasher!vars
    <3>2. QED
      BY <3>1
  <2>4. QED
    BY <2>1, <2>2, <2>3
<1>2. QED
  BY <1>1, FlasherInvariant, PTL DEF Flasher!Spec, OnlyErasedPages, Flasher!OnlyErasedPages
-----------------------------------------------------------------------------
(* Address resolution (ARPUtils), for any hosts and any other frames.       *)

\* A frame that passes for ARP names as its sender a host with its own MAC.
ArpInv ==
  /\ segment \subseteq Seq(Segment!Byte)
  /\ \A f \in segment : Segment!isValid4(f) =>
       \E h \in Hosts : SubSeq(f, 23, 28) = MacOf[h] /\ SubSeq(f, 29, 32) = IpOf[h]
  /\ DOMAIN known = Hosts
  /\ \A h \in Hosts : known[h] \in {Segment!Unknown, MacOf[h]}

\* Byte strings of a fixed length.
Block(s, n) == s \in Seq(Segment!Byte) /\ Len(s) = n

LEMMA HostBlocks ==
  ASSUME NEW h \in Hosts
  PROVE  Block(MacOf[h], 6) /\ Block(IpOf[h], 4)
BY LinksAssumption DEF Segment!ARPUtilsAssumption, Block

\* The bytes of s from i to j.
Part(s, i, j) == SubSeq(s, i, j)

\* What is put behind x begins where x ends.
LEMMA PutBehind ==
  ASSUME NEW x, NEW n \in Nat, NEW y, NEW m \in Nat, Block(x, n), Block(y, m)
  PROVE  /\ Block(x \o y, n + m)
         /\ Part(x \o y, n + 1, n + m) = y
         /\ \A i, j \in 1 .. n : Part(x \o y, i, j) = Part(x, i, j)
<1>1. x \in Seq(Segment!Byte) /\ y \in Seq(Segment!Byte) /\ Len(x) = n /\ Len(y) = m
  BY DEF Block
<1>2. x \o y \in Seq(Segment!Byte) /\ Len(x \o y) = n + m
      /\ (\A i \in 1 .. n : (x \o y)[i] = x[i]) /\ \A i \in 1 .. m : (x \o y)[n + i] = y[i]
  BY <1>1
<1> DEFINE z == x \o y
<1> HIDE DEF z
<1>3. SubSeq(z, n + 1, n + m) = y
  <2>1. SubSeq(z, n + 1, n + m) \in Seq(Segment!Byte) /\ Len(SubSeq(z, n + 1, n + m)) = m
    BY <1>2 DEF z
  <2>2. ASSUME NEW i \in 1 .. m PROVE SubSeq(z, n + 1, n + m)[i] = y[i]
    <3>1. z \in Seq(Segment!Byte) /\ Len(z) = n + m /\ z[n + i] = y[i]
      BY <1>2 DEF z
    <3>2. i \in 1 .. ((n + m) - (n + 1)) + 1 /\ (n + 1) + i - 1 = n + i
      OBVIOUS
    <3>3. SubSeq(z, n + 1, n + m)[i] = z[(n + 1) + i - 1]
      BY <3>1, <3>2
    <3>4. QED
      BY <3>1, <3>2, <3>3
  <2>3. QED
    BY <1>1, <2>1, <2>2
<1>4. ASSUME NEW i \in 1 .. n, NEW j \in 1 .. n PROVE SubSeq(z, i, j) = SubSeq(x, i, j)
  BY <1>1, <1>2 DEF z
<1>5. QED
  BY <1>2, <1>3, <1>4 DEF z, Block, Part

LEMMA PutKeeps ==
  ASSUME NEW x, NEW n \in Nat, NEW y, NEW m \in Nat, Block(x, n), Block(y, m),
         NEW i \in 1 .. n, NEW j \in 1 .. n
  PROVE  Part(x \o y, i, j) = Part(x, i, j)
BY PutBehind

LEMMA ZeroBlock ==
  ASSUME NEW n \in Nat PROVE Block(Segment!Zeros(n), n)
BY DEF Segment!Zeros, Segment!Byte, Block

\* A frame from a host with its own addresses keeps the invariant: where the
\* sender stands in it (makePacket4()).
LEMMA SentByHost ==
  ASSUME ArpInv, NEW h \in Hosts, NEW d, NEW code \in Segment!Byte, NEW tm, NEW ti, NEW capacity,
         Block(d, 6), Block(tm, 6), Block(ti, 4),
         Segment!Send(Segment!makePacket4(d, MacOf[h], code, MacOf[h], IpOf[h], tm, ti, capacity))
  PROVE  ArpInv'
<1> DEFINE mac == MacOf[h]
           ip == IpOf[h]
           p == Segment!makePacket4(d, mac, code, mac, ip, tm, ti, capacity)
<1>1. p # Segment!Refused /\ segment' = segment \cup {p} /\ known' = known
  BY DEF Segment!Send
<1>2. p \in Seq(Segment!Byte) /\ SubSeq(p, 23, 28) = mac /\ SubSeq(p, 29, 32) = ip
  <2>0. Block(mac, 6) /\ Block(ip, 4)
    BY HostBlocks
  <2> HIDE DEF mac, ip
  <2> DEFINE header == <<8, 6, 0, 1, 8, 0, 6, 4, 0, code>>
             x1 == d \o mac
             x2 == x1 \o header
             x3 == x2 \o mac
             x4 == x3 \o ip
             x5 == x4 \o tm
             x6 == x5 \o ti
             x7 == x6 \o Segment!Zeros(18)
  <2>1. Block(header, 10)
    BY DEF Block, Segment!Byte
  <2>2. Block(Segment!Zeros(18), 18)
    BY ZeroBlock
  <2>3. p = x7
    BY <1>1 DEF Segment!makePacket4
  <2> HIDE DEF p
  <2> HIDE DEF header
  <2>4. Block(x1, 12)
    <3>1. Block(d \o mac, 6 + 6)
      BY <2>0, PutBehind
    <3>2. QED
      BY <3>1
  <2> HIDE DEF x1
  <2>5. Block(x2, 22)
    <3>1. Block(x1 \o header, 12 + 10)
      BY <2>1, <2>4, PutBehind
    <3>2. QED
      BY <3>1
  <2> HIDE DEF x2
  <2>6. Block(x3, 28) /\ Part(x3, 23, 28) = mac
    <3>1. Block(x2 \o mac, 22 + 6) /\ Part(x2 \o mac, 22 + 1, 22 + 6) = mac
      BY <2>0, <2>5, PutBehind
    <3>2. QED
      BY <3>1
  <2> HIDE DEF x3
  <2>7. Block(x4, 32) /\ Part(x4, 29, 32) = ip /\ Part(x4, 23, 28) = mac
    <3>1. Block(x3 \o ip, 28 + 4) /\ Part(x3 \o ip, 28 + 1, 28 + 4) = ip
      BY <2>0, <2>6, PutBehind
    <3>2. Part(x3 \o ip, 23, 28) = Part(x3, 23, 28)
      BY <2>0, <2>6, PutKeeps, 23 \in 1 .. 28, 28 \in 1 .. 28
    <3>3. QED
      BY <2>6, <3>1, <3>2
  <2> HIDE DEF x4
  <2>8. Block(x5, 38) /\ Part(x5, 29, 32) = ip /\ Part(x5, 23, 28) = mac
    <3>1. Block(x4 \o tm, 32 + 6)
      BY <2>7, PutBehind
    <3>2. Part(x4 \o tm, 23, 28) = Part(x4, 23, 28)
      BY <2>7, PutKeeps, 23 \in 1 .. 32, 28 \in 1 .. 32
    <3>3. Part(x4 \o tm, 29, 32) = Part(x4, 29, 32)
      BY <2>7, PutKeeps, 29 \in 1 .. 32, 32 \in 1 .. 32
    <3>4. QED
      BY <2>7, <3>1, <3>2, <3>3
  <2> HIDE DEF x5
  <2>9. Block(x6, 42) /\ Part(x6, 29, 32) = ip /\ Part(x6, 23, 28) = mac
    <3>1. Block(x5 \o ti, 38 + 4)
      BY <2>8, PutBehind
    <3>2. Part(x5 \o ti, 23, 28) = Part(x5, 23, 28)
      BY <2>8, PutKeeps, 23 \in 1 .. 38, 28 \in 1 .. 38
    <3>3. Part(x5 \o ti, 29, 32) = Part(x5, 29, 32)
      BY <2>8, PutKeeps, 29 \in 1 .. 38, 32 \in 1 .. 38
    <3>4. QED
      BY <2>8, <3>1, <3>2, <3>3
  <2> HIDE DEF x6
  <2>10. Block(x7, 60) /\ Part(x7, 29, 32) = ip /\ Part(x7, 23, 28) = mac
    <3>1. Block(x6 \o Segment!Zeros(18), 42 + 18)
      BY <2>2, <2>9, PutBehind
    <3>2. Part(x6 \o Segment!Zeros(18), 23, 28) = Part(x6, 23, 28)
      BY <2>2, <2>9, PutKeeps, 23 \in 1 .. 42, 28 \in 1 .. 42
    <3>3. Part(x6 \o Segment!Zeros(18), 29, 32) = Part(x6, 29, 32)
      BY <2>2, <2>9, PutKeeps, 29 \in 1 .. 42, 32 \in 1 .. 42
    <3>4. QED
      BY <2>9, <3>1, <3>2, <3>3
  <2> HIDE DEF x7
  <2>11. QED
    BY <2>3, <2>10 DEF Block, Part
<1> HIDE DEF p
<1>3. QED
  BY <1>1, <1>2 DEF ArpInv

LEMMA QueryStep ==
  ASSUME ArpInv, Segment!Query PROVE ArpInv'
<1>1. PICK h \in Hosts, whom \in Hosts, capacity \in {59, 60} :
        Segment!Send(Segment!makeQuery4(MacOf[h], IpOf[h], IpOf[whom], capacity))
  BY DEF Segment!Query
<1>2. Block(Segment!Broadcast, 6)
  BY DEF Segment!Broadcast, Segment!Byte, Block
<1>3. Block(Segment!Zeros(6), 6) /\ Block(IpOf[whom], 4) /\ 1 \in Segment!Byte
  BY ZeroBlock, HostBlocks DEF Segment!Byte
<1>4. QED
  BY <1>1, <1>2, <1>3, SentByHost DEF Segment!makeQuery4

\* What a frame that passes for ARP says of its sender is six and four bytes.
LEMMA SenderBlocks ==
  ASSUME ArpInv, NEW f \in segment, Segment!isValid4(f)
  PROVE  /\ Segment!extractSenderMac4(f) = SubSeq(f, 23, 28) /\ Block(SubSeq(f, 23, 28), 6)
         /\ Segment!extractSenderIp4(f) = SubSeq(f, 29, 32) /\ Block(SubSeq(f, 29, 32), 4)
BY HostBlocks DEF ArpInv, Segment!extractSenderMac4, Segment!extractSenderIp4

LEMMA AnswerStep ==
  ASSUME ArpInv, Segment!Answer PROVE ArpInv'
<1>1. PICK p \in segment, h \in Hosts, capacity \in {59, 60} :
        /\ Segment!isValidRequest4(p)
        /\ Segment!Send(Segment!makePacket4(Segment!extractSenderMac4(p), MacOf[h], 2, MacOf[h], IpOf[h],
                          Segment!extractSenderMac4(p), Segment!extractSenderIp4(p), capacity))
  BY DEF Segment!Answer
<1>2. Segment!isValid4(p)
  BY <1>1 DEF Segment!isValidRequest4
<1>3. Block(Segment!extractSenderMac4(p), 6) /\ Block(Segment!extractSenderIp4(p), 4)
  BY <1>2, SenderBlocks
<1>4. 2 \in Segment!Byte
  BY DEF Segment!Byte
<1>5. QED
  BY <1>1, <1>3, <1>4, SentByHost

\* A frame that was cut short and still passes says what the whole one says.
LEMMA CutSaysTheSame ==
  ASSUME NEW f \in Seq(Segment!Byte), NEW k \in 0 .. Len(f), Segment!isValid4(SubSeq(f, 1, k))
  PROVE  /\ Segment!isValid4(f)
         /\ SubSeq(SubSeq(f, 1, k), 23, 28) = SubSeq(f, 23, 28)
         /\ SubSeq(SubSeq(f, 1, k), 29, 32) = SubSeq(f, 29, 32)
<1> DEFINE p == SubSeq(f, 1, k)
<1>1. p \in Seq(Segment!Byte) /\ Len(p) = k /\ \A i \in 1 .. k : p[i] = f[i]
  OBVIOUS
<1>2. k >= 42 /\ k <= Len(f) /\ SubSeq(p, 13, 18) = <<8, 6, 0, 1, 8, 0>>
  BY <1>1 DEF Segment!isValid4
<1> HIDE DEF p
<1>3. ASSUME NEW a \in 1 .. 42, NEW b \in 1 .. 42 PROVE SubSeq(p, a, b) = SubSeq(f, a, b)
  BY <1>1, <1>2
<1>4. {13, 18, 23, 28, 29, 32} \subseteq 1 .. 42
  BY SMTT(20)
<1>5. /\ SubSeq(f, 13, 18) = <<8, 6, 0, 1, 8, 0>>
      /\ SubSeq(p, 23, 28) = SubSeq(f, 23, 28) /\ SubSeq(p, 29, 32) = SubSeq(f, 29, 32)
  BY <1>2, <1>3, <1>4, Zenon
<1>6. Len(f) \in Nat /\ Len(f) >= 42
  BY <1>2
<1>7. QED
  BY <1>5, <1>6 DEF p, Segment!isValid4

LEMMA LearnStep ==
  ASSUME ArpInv, Segment!Learn PROVE ArpInv'
<1>1. PICK f \in segment, len \in {20, 41, 42, 60}, h \in Hosts :
        LET p == SubSeq(f, 1, IF len < Len(f) THEN len ELSE Len(f)) IN
          /\ Segment!isValidReply4(p) /\ Segment!isTargetIp4(p, IpOf[Me]) /\ Segment!isSenderIp4(p, IpOf[h])
          /\ known' = [known EXCEPT ![h] = Segment!extractSenderMac4(p)]
          /\ UNCHANGED segment
  BY DEF Segment!Learn
<1> DEFINE k == IF len < Len(f) THEN len ELSE Len(f)
           p == SubSeq(f, 1, k)
<1>2. f \in Seq(Segment!Byte) /\ k \in 0 .. Len(f)
  BY DEF ArpInv
<1>3. /\ Segment!isValid4(p) /\ Segment!extractSenderIp4(p) = IpOf[h]
      /\ known' = [known EXCEPT ![h] = Segment!extractSenderMac4(p)] /\ segment' = segment
  BY <1>1 DEF Segment!isValidReply4, Segment!isSenderIp4
<1> HIDE DEF k
<1>4. /\ Segment!isValid4(f) /\ SubSeq(f, 29, 32) = IpOf[h]
      /\ known' = [known EXCEPT ![h] = SubSeq(f, 23, 28)]
  BY <1>2, <1>3, CutSaysTheSame DEF Segment!extractSenderMac4, Segment!extractSenderIp4
<1>5. PICK g \in Hosts : SubSeq(f, 23, 28) = MacOf[g] /\ SubSeq(f, 29, 32) = IpOf[g]
  BY <1>4 DEF ArpInv
<1>6. g = h
  <2>1. \A a, b \in Hosts : IpOf[a] = IpOf[b] => a = b
    BY LinksAssumption DEF Segment!ARPUtilsAssumption
  <2>2. IpOf[g] = IpOf[h]
    BY <1>4, <1>5
  <2>3. QED
    BY <2>1, <2>2
<1>7. QED
  BY <1>3, <1>4, <1>5, <1>6 DEF ArpInv

\* What a host has learnt of another is the other's own MAC, whatever other
\* frames arrive and however they are cut, on a segment of any hosts that have
\* different IP addresses.
THEOREM KnownIsOwnersTheorem ==
  Segment!Spec => []KnownIsOwners
<1>1. Segment!Init => ArpInv
  BY LinksAssumption DEF Segment!Init, ArpInv, Segment!ARPUtilsAssumption
<1>2. ArpInv /\ [Segment!Next]_(Segment!vars) => ArpInv'
  <2>1. ArpInv /\ UNCHANGED Segment!vars => ArpInv'
    BY DEF ArpInv, Segment!vars
  <2>2. QED
    BY <2>1, QueryStep, AnswerStep, LearnStep DEF Segment!Next
<1>3. ArpInv => KnownIsOwners
  BY DEF ArpInv, KnownIsOwners, Segment!KnownIsOwners
<1>4. QED
  BY <1>1, <1>2, <1>3, PTL DEF Segment!Spec

-----------------------------------------------------------------------------
(* Induction on a number: the scan of a packet is a recursive function.     *)

\* A set of numbers that is not empty has a least one.
LEMMA Least ==
  ASSUME NEW T \in SUBSET Nat, T # {}
  PROVE  \E x \in T : \A y \in T : x <= y
<1> DEFINE Less == {ss \in Nat \X Nat : ss[1] < ss[2]}
<1>1. IsWellFoundedOn(Less, Nat)
  BY NatLessThanWellFounded, Zenon DEF OpToRel
<1> HIDE DEF Less
<1>2. PICK x \in T : \A y \in T : <<y, x>> \notin Less
  BY <1>1, WFMin
<1>3. ASSUME NEW y \in T PROVE x <= y
  <2>1. ~(y < x)
    BY <1>2 DEF Less
  <2>2. QED
    BY <2>1
<1>4. QED
  BY <1>2, <1>3

\* A set that holds 0 and, with a number, the next one holds them all.
LEMMA Induct ==
  ASSUME NEW T, 0 \in T, \A n \in Nat : n \in T => n + 1 \in T
  PROVE  Nat \subseteq T
<1> SUFFICES ASSUME Nat \ T # {} PROVE FALSE
  OBVIOUS
<1>1. PICK x \in Nat \ T : \A y \in Nat \ T : x <= y
  BY Least
<1>2. x # 0 /\ x - 1 \in Nat
  BY <1>1
<1>3. x - 1 \in T
  BY <1>1, <1>2
<1>4. x - 1 + 1 \in T
  BY <1>2, <1>3
<1>5. QED
  BY <1>1, <1>4

-----------------------------------------------------------------------------
(* What extractIE_raw() finds.                                              *)

Octet == 0 .. 255
Short == {w \in Nat : w < 65536}

\* s is a sequence of n elements of U.
Piece(U, s, n) == s \in Seq(U) /\ Len(s) = n

LEMMA Appended ==
  ASSUME NEW U, NEW b, NEW d \in Nat, Piece(U, b, d), NEW x \in U
  PROVE  /\ Piece(U, Append(b, x), d + 1)
         /\ Append(b, x)[d + 1] = x /\ \A k \in 1 .. d : Append(b, x)[k] = b[k]
<1>1. b \in Seq(U) /\ Len(b) = d
  BY DEF Piece
<1>2. Append(b, x) \in Seq(U) /\ Len(Append(b, x)) = d + 1
  BY <1>1
<1>3. Append(b, x)[d + 1] = x
  BY <1>1
<1>4. ASSUME NEW k \in 1 .. d PROVE Append(b, x)[k] = b[k]
  BY <1>1
<1>5. QED
  BY <1>2, <1>3, <1>4 DEF Piece

At(state, len, j, buf) == [state |-> state, len |-> len, j |-> j, buf |-> buf, rc |-> Leasing!Going]
Taken(n, j, buf) == [state |-> "take", len |-> n, j |-> j, buf |-> buf, rc |-> n]
Fresh == At("id", 0, 0, <<>>)
Scans(o, id, max, N, f) ==
  f = [k \in 0 .. N |-> IF k = 0 THEN Fresh ELSE Leasing!ExtractByte(f[k - 1], o[k], id, max)]
Scan(o, id, max) == CHOOSE f : Scans(o, id, max, Len(o), f)

\* The scan of a packet is well defined.
LEMMA ScanIs ==
  ASSUME NEW o, Len(o) \in Nat, NEW id, NEW max
  PROVE  /\ Scan(o, id, max)[0] = Fresh
         /\ \A k \in 1 .. Len(o) :
              Scan(o, id, max)[k] = Leasing!ExtractByte(Scan(o, id, max)[k - 1], o[k], id, max)
<1> DEFINE T == {N \in Nat : \E f : Scans(o, id, max, N, f)}
           L == Len(o)
<1>1. 0 \in T
  <2>1. Scans(o, id, max, 0, [k \in 0 .. 0 |-> Fresh])
    BY DEF Scans
  <2>2. QED
    BY <2>1
<1>2. ASSUME NEW N \in Nat, N \in T PROVE N + 1 \in T
  <2>1. PICK f : Scans(o, id, max, N, f)
    BY <1>2
  <2> DEFINE g == [k \in 0 .. N + 1 |-> IF k = N + 1 THEN Leasing!ExtractByte(f[N], o[N + 1], id, max) ELSE f[k]]
  <2>2. ASSUME NEW k \in 0 .. N + 1
        PROVE  g[k] = IF k = 0 THEN Fresh ELSE Leasing!ExtractByte(g[k - 1], o[k], id, max)
    <3>1. CASE k = N + 1
      <4>1. k # 0 /\ k - 1 = N /\ N \in 0 .. N + 1 /\ N # N + 1
        BY <3>1
      <4>2. g[k - 1] = f[N]
        BY <4>1
      <4>3. QED
        BY <3>1, <4>1, <4>2
    <3>2. CASE k # N + 1
      <4>1. k \in 0 .. N /\ (k # 0 => k - 1 \in 0 .. N + 1 /\ k - 1 # N + 1)
        BY <3>2
      <4>2. f[k] = IF k = 0 THEN Fresh ELSE Leasing!ExtractByte(f[k - 1], o[k], id, max)
        BY <2>1, <4>1, Zenon DEF Scans
      <4>3. k # 0 => g[k - 1] = f[k - 1]
        BY <4>1
      <4>4. QED
        BY <3>2, <4>2, <4>3
    <3>3. QED
      BY <3>1, <3>2
  <2>3. Scans(o, id, max, N + 1, g)
    <3> DEFINE h == [k \in 0 .. N + 1 |-> IF k = 0 THEN Fresh ELSE Leasing!ExtractByte(g[k - 1], o[k], id, max)]
    <3>1. \A k \in 0 .. N + 1 : g[k] = h[k]
      BY <2>2
    <3>2. g = h
      BY <3>1
    <3>3. QED
      BY <3>2 DEF Scans
  <2>4. QED
    BY <2>3
<1>3. \E f : Scans(o, id, max, L, f)
  <2>1. Nat \subseteq T
    <3> HIDE DEF T
    <3>1. QED
      BY <1>1, <1>2, Induct
  <2>2. QED
    BY <2>1
<1>4. Scans(o, id, max, L, Scan(o, id, max))
  BY <1>3, Zenon DEF Scan
<1>5. \A k \in 0 .. L : Scan(o, id, max)[k]
                          = IF k = 0 THEN Fresh ELSE Leasing!ExtractByte(Scan(o, id, max)[k - 1], o[k], id, max)
  BY <1>4, Zenon DEF Scans
<1>6. 0 \in 0 .. L /\ \A k \in 1 .. L : k \in 0 .. L /\ k # 0
  OBVIOUS
<1>7. QED
  BY <1>5, <1>6

LEMMA ExtractIs ==
  ASSUME NEW o, Len(o) \in Nat, NEW id, NEW max
  PROVE  LET e == Scan(o, id, max)[Len(o)] IN
           Leasing!extractIE_raw(o, id, max)
             = [rc |-> IF e.rc = Leasing!Going THEN -2 ELSE e.rc, buf |-> e.buf]
BY Zenon DEF Leasing!extractIE_raw, Scan, Scans, Fresh, At

\* One byte, in each state.
LEMMA ByteStep ==
  ASSUME NEW l, NEW j, NEW buf, NEW b, NEW id, NEW max
  PROVE  /\ b = id => Leasing!ExtractByte(At("id", l, j, buf), b, id, max) = At("len", l, j, buf)
         /\ b # id => Leasing!ExtractByte(At("id", l, j, buf), b, id, max) = At("other", l, j, buf)
         /\ b # 0 => Leasing!ExtractByte(At("len", l, j, buf), b, id, max) = At("take", b, j, buf)
         /\ b # 0 => Leasing!ExtractByte(At("other", l, j, buf), b, id, max) = At("skip", b, 0, buf)
         /\ j + 1 # l => Leasing!ExtractByte(At("skip", l, j, buf), b, id, max) = At("skip", l, j + 1, buf)
         /\ j + 1 = l => Leasing!ExtractByte(At("skip", l, j, buf), b, id, max) = At("id", l, j + 1, buf)
         /\ Len(buf) # max /\ Len(buf) + 1 # l =>
              Leasing!ExtractByte(At("take", l, j, buf), b, id, max) = At("take", l, j, Append(buf, b))
         /\ Len(buf) # max /\ Len(buf) + 1 = l =>
              Leasing!ExtractByte(At("take", l, j, buf), b, id, max)
                = Taken(l, j, Append(buf, b))
<1>1. b = id => Leasing!ExtractByte(At("id", l, j, buf), b, id, max) = At("len", l, j, buf)
  BY DEF Leasing!ExtractByte, At
<1>2. b # id => Leasing!ExtractByte(At("id", l, j, buf), b, id, max) = At("other", l, j, buf)
  BY DEF Leasing!ExtractByte, At
<1>3. b # 0 => Leasing!ExtractByte(At("len", l, j, buf), b, id, max) = At("take", b, j, buf)
  BY DEF Leasing!ExtractByte, At
<1>4. b # 0 => Leasing!ExtractByte(At("other", l, j, buf), b, id, max) = At("skip", b, 0, buf)
  BY DEF Leasing!ExtractByte, At
<1>5. j + 1 # l => Leasing!ExtractByte(At("skip", l, j, buf), b, id, max) = At("skip", l, j + 1, buf)
  BY DEF Leasing!ExtractByte, At
<1>6. j + 1 = l => Leasing!ExtractByte(At("skip", l, j, buf), b, id, max) = At("id", l, j + 1, buf)
  BY DEF Leasing!ExtractByte, At
<1>7. Len(buf) # max /\ Len(buf) + 1 # l =>
        Leasing!ExtractByte(At("take", l, j, buf), b, id, max) = At("take", l, j, Append(buf, b))
  BY DEF Leasing!ExtractByte, At
<1>8. Len(buf) # max /\ Len(buf) + 1 = l =>
        Leasing!ExtractByte(At("take", l, j, buf), b, id, max)
          = Taken(l, j, Append(buf, b))
  BY DEF Leasing!ExtractByte, At, Taken
<1>9. QED
  BY <1>1, <1>2, <1>3, <1>4, <1>5, <1>6, <1>7, <1>8

\* f is the scan of o for id, from whatever it begins with.
Reads(f, o, id, max) ==
  \A k \in 1 .. Len(o) : f[k] = Leasing!ExtractByte(f[k - 1], o[k], id, max)

LEMMA ScanReads ==
  ASSUME NEW o, Len(o) \in Nat, NEW id, NEW max
  PROVE  Scan(o, id, max)[0] = Fresh /\ Reads(Scan(o, id, max), o, id, max)
BY ScanIs, Zenon DEF Reads

\* At its place i the scan f waits for an identifier.
Waits(f, i) == \E l, j : f[i] = At("id", l, j, <<>>)

\* An element of n bytes for another identifier goes from i to k.
Passes(o, id, i, n, k) ==
  i + 2 + n = k /\ k <= Len(o) /\ o[i + 1] # id /\ o[i + 2] = n

\* It is passed over.
LEMMA SkipElement ==
  ASSUME NEW f, NEW o, Len(o) \in Nat, NEW id, NEW max, Reads(f, o, id, max),
         NEW i \in Nat, NEW n \in Nat \ {0}, NEW end, Passes(o, id, i, n, end), Waits(f, i)
  PROVE  Waits(f, end)
<1>0. PICK l, j : f[i] = At("id", l, j, <<>>)
  BY Zenon DEF Waits
<1>. i + 2 + n <= Len(o) /\ o[i + 1] # id /\ o[i + 2] = n /\ i + 2 + n = end
  BY DEF Passes
<1>1. f[i + 1] = At("other", l, j, <<>>)
  <2>1. i + 1 \in 1 .. Len(o) /\ (i + 1) - 1 = i
    OBVIOUS
  <2>2. f[i + 1] = Leasing!ExtractByte(f[i], o[i + 1], id, max)
    BY <2>1 DEF Reads
  <2>3. QED
    BY <1>0, <2>2, ByteStep
<1>2. f[i + 2] = At("skip", n, 0, <<>>)
  <2>1. i + 2 \in 1 .. Len(o) /\ (i + 2) - 1 = i + 1
    OBVIOUS
  <2>2. f[i + 2] = Leasing!ExtractByte(f[i + 1], o[i + 2], id, max)
    BY <2>1 DEF Reads
  <2>3. QED
    BY <1>1, <2>2, ByteStep
<1>3. ASSUME NEW d \in Nat, d < n, f[i + 2 + d] = At("skip", n, d, <<>>)
      PROVE  f[i + 2 + (d + 1)] = At(IF d + 1 = n THEN "id" ELSE "skip", n, d + 1, <<>>)
  <2>1. i + 2 + (d + 1) \in 1 .. Len(o) /\ (i + 2 + (d + 1)) - 1 = i + 2 + d
    BY <1>3
  <2>2. f[i + 2 + (d + 1)] = Leasing!ExtractByte(f[i + 2 + d], o[i + 2 + (d + 1)], id, max)
    BY <2>1 DEF Reads
  <2>3. QED
    BY <1>3, <2>2, ByteStep
<1>4. \A d \in Nat : d < n => f[i + 2 + d] = At("skip", n, d, <<>>)
  <2> DEFINE T == {d \in Nat : d < n => f[i + 2 + d] = At("skip", n, d, <<>>)}
  <2>1. 0 \in T
    BY <1>2
  <2>2. ASSUME NEW d \in Nat, d \in T PROVE d + 1 \in T
    BY <1>3, <2>2
  <2>3. Nat \subseteq T
    <3> HIDE DEF T
    <3>1. QED
      BY <2>1, <2>2, Induct
  <2>4. QED
    BY <2>3
<1>5. n - 1 \in Nat /\ n - 1 < n /\ (n - 1) + 1 = n
  OBVIOUS
<1>6. f[i + 2 + n] = At("id", n, n, <<>>)
  BY <1>3, <1>4, <1>5
<1>7. f[end] = At("id", n, n, <<>>)
  BY <1>6
<1>8. QED
  BY <1>7, Zenon DEF Waits

\* Behind its first i bytes o, which consists of m bytes, goes on with an
\* element of n bytes that may be cut.
Element(o, m, i, id, n) ==
  /\ Len(o) = m /\ \A k \in 1 .. m : o[k] \in Octet
  /\ i + 2 <= m /\ o[i + 1] = id /\ o[i + 2] = n

\* The scan f returns nothing before the last byte of the element, and then all
\* of it.
Takes(f, o, i, n) ==
  /\ \A d \in 0 .. n - 1 : i + 2 + d <= Len(o) => f[i + 2 + d].rc = Leasing!Going
  /\ i + 2 + n <= Len(o) =>
       /\ f[i + 2 + n].rc = n
       /\ Piece(Octet, f[i + 2 + n].buf, n)
       /\ \A k \in 1 .. n : f[i + 2 + n].buf[k] = o[i + 2 + k]

LEMMA TakeElement ==
  ASSUME NEW f, NEW o, NEW m \in Nat, NEW id, NEW max \in Nat, Reads(f, o, id, max),
         NEW i \in Nat, NEW n \in Nat \ {0}, n <= max, Element(o, m, i, id, n), Waits(f, i)
  PROVE  Takes(f, o, i, n)
<1> DEFINE U == Octet
<1>a. PICK l, j : f[i] = At("id", l, j, <<>>)
  BY Zenon DEF Waits
<1>b. /\ Len(o) \in Nat /\ i + 2 <= Len(o) /\ o[i + 1] = id /\ o[i + 2] = n
      /\ \A k \in 1 .. Len(o) : o[k] \in U
  BY DEF Element
<1> USE <1>b
<1> HIDE DEF U
<1> DEFINE Sofar(d, b) == b \in Seq(U) /\ Len(b) = d /\ \A k \in 1 .. d : b[k] = o[i + 2 + k]
<1>1. f[i + 1] = At("len", l, j, <<>>)
  <2>1. i + 1 \in 1 .. Len(o) /\ (i + 1) - 1 = i
    OBVIOUS
  <2>2. f[i + 1] = Leasing!ExtractByte(f[i], o[i + 1], id, max)
    BY <2>1 DEF Reads
  <2>3. QED
    BY <1>a, <2>2, ByteStep
<1>2. f[i + 2] = At("take", n, j, <<>>)
  <2>1. i + 2 \in 1 .. Len(o) /\ (i + 2) - 1 = i + 1
    OBVIOUS
  <2>2. f[i + 2] = Leasing!ExtractByte(f[i + 1], o[i + 2], id, max)
    BY <2>1 DEF Reads
  <2>3. QED
    BY <1>1, <2>2, ByteStep
<1>3. ASSUME NEW d \in Nat, d < n, i + 2 + (d + 1) <= Len(o),
             NEW b, Sofar(d, b), f[i + 2 + d] = At("take", n, j, b)
      PROVE  LET c == Append(b, o[i + 2 + (d + 1)]) IN
               /\ Sofar(d + 1, c)
               /\ f[i + 2 + (d + 1)] = IF d + 1 = n THEN Taken(n, j, c) ELSE At("take", n, j, c)
  <2>1. i + 2 + (d + 1) \in 1 .. Len(o) /\ (i + 2 + (d + 1)) - 1 = i + 2 + d
    BY <1>3
  <2>2. f[i + 2 + (d + 1)] = Leasing!ExtractByte(f[i + 2 + d], o[i + 2 + (d + 1)], id, max)
    BY <2>1 DEF Reads
  <2>3. Len(b) = d /\ Len(b) # max
    BY <1>3
  <2>4. Sofar(d + 1, Append(b, o[i + 2 + (d + 1)]))
    <3> DEFINE x == o[i + 2 + (d + 1)]
               c == Append(b, x)
    <3>1. x \in U /\ b \in Seq(U) /\ Len(b) = d /\ \A k \in 1 .. d : b[k] = o[i + 2 + k]
      BY <1>3, <2>1 DEF Sofar
    <3> HIDE DEF x
    <3>2. c \in Seq(U) /\ Len(c) = d + 1 /\ c[d + 1] = x /\ \A k \in 1 .. d : c[k] = b[k]
      BY <3>1, Appended DEF Piece
    <3> HIDE DEF c
    <3>3. ASSUME NEW k \in 1 .. d + 1 PROVE c[k] = o[i + 2 + k]
      <4>1. CASE k = d + 1
        BY <3>2, <4>1 DEF x
      <4>2. CASE k # d + 1
        <5>1. k \in 1 .. d
          BY <4>2
        <5>2. QED
          BY <3>1, <3>2, <5>1
      <4>3. QED
        BY <4>1, <4>2
    <3>4. QED
      BY <3>2, <3>3 DEF Sofar, c, x
  <2> DEFINE y == o[i + 2 + (d + 1)]
             g == f[i + 2 + (d + 1)]
  <2> HIDE DEF y, g
  <2>5. g = Leasing!ExtractByte(At("take", n, j, b), y, id, max)
    BY <1>3, <2>2 DEF g, y
  <2>6. g = IF d + 1 = n THEN Taken(n, j, Append(b, y)) ELSE At("take", n, j, Append(b, y))
    BY <2>3, <2>5, ByteStep
  <2>7. QED
    BY <2>4, <2>6 DEF g, y
<1> HIDE DEF Sofar
<1>4. \A d \in Nat : d < n /\ i + 2 + d <= Len(o) =>
        \E b : Sofar(d, b) /\ f[i + 2 + d] = At("take", n, j, b)
  <2> DEFINE T == {d \in Nat : d < n /\ i + 2 + d <= Len(o) =>
                     \E b : Sofar(d, b) /\ f[i + 2 + d] = At("take", n, j, b)}
  <2>1. 0 \in T
    <3>1. Sofar(0, <<>>)
      BY DEF Sofar
    <3>2. QED
      BY <1>2, <3>1
  <2>2. ASSUME NEW d \in Nat, d \in T PROVE d + 1 \in T
    <3> SUFFICES ASSUME d + 1 < n, i + 2 + (d + 1) <= Len(o)
                 PROVE  \E b : Sofar(d + 1, b) /\ f[i + 2 + (d + 1)] = At("take", n, j, b)
      OBVIOUS
    <3>1. PICK b : Sofar(d, b) /\ f[i + 2 + d] = At("take", n, j, b)
      BY <2>2
    <3>2. QED
      BY <1>3, <3>1
  <2>3. Nat \subseteq T
    <3> HIDE DEF T
    <3>1. QED
      BY <2>1, <2>2, Induct
  <2>4. QED
    BY <2>3
<1>5. ASSUME NEW d \in 0 .. n - 1, i + 2 + d <= Len(o) PROVE f[i + 2 + d].rc = Leasing!Going
  <2>0. d \in Nat /\ d < n
    OBVIOUS
  <2>1. PICK b : Sofar(d, b) /\ f[i + 2 + d] = At("take", n, j, b)
    BY <1>4, <1>5, <2>0
  <2>2. QED
    BY <2>1 DEF At
<1>6. ASSUME i + 2 + n <= Len(o)
      PROVE  \E c : Sofar(n, c) /\ f[i + 2 + n] = Taken(n, j, c)
  <2>1. n - 1 \in Nat /\ n - 1 < n /\ (n - 1) + 1 = n /\ i + 2 + (n - 1) <= Len(o)
    BY <1>6
  <2>2. PICK b : Sofar(n - 1, b) /\ f[i + 2 + (n - 1)] = At("take", n, j, b)
    BY <1>4, <2>1
  <2>3. QED
    BY <1>3, <1>6, <2>1, <2>2
<1>7. ASSUME i + 2 + n <= Len(o)
      PROVE  /\ f[i + 2 + n].rc = n
             /\ f[i + 2 + n].buf \in Seq(U) /\ Len(f[i + 2 + n].buf) = n
             /\ \A k \in 1 .. n : f[i + 2 + n].buf[k] = o[i + 2 + k]
  <2>1. PICK c : Sofar(n, c) /\ f[i + 2 + n] = Taken(n, j, c)
    BY <1>6, <1>7
  <2>2. f[i + 2 + n].rc = n /\ f[i + 2 + n].buf = c
    BY <2>1 DEF Taken
  <2>3. QED
    BY <2>1, <2>2 DEF Sofar
<1>8. QED
  BY <1>5, <1>7 DEF Takes, Piece, U

\* What has been returned stays.
LEMMA Stays ==
  ASSUME NEW f, NEW o, Len(o) \in Nat, NEW id, NEW max, Reads(f, o, id, max),
         NEW i \in 0 .. Len(o), f[i].rc # Leasing!Going
  PROVE  f[Len(o)] = f[i]
<1> DEFINE T == {d \in Nat : i + d <= Len(o) => f[i + d] = f[i]}
<1>1. 0 \in T
  OBVIOUS
<1>2. ASSUME NEW d \in Nat, d \in T PROVE d + 1 \in T
  <2> SUFFICES ASSUME i + (d + 1) <= Len(o) PROVE f[i + (d + 1)] = f[i]
    OBVIOUS
  <2>1. i + (d + 1) \in 1 .. Len(o) /\ (i + (d + 1)) - 1 = i + d /\ f[i + d] = f[i]
    BY <1>2
  <2>2. f[i + (d + 1)] = Leasing!ExtractByte(f[i + d], o[i + (d + 1)], id, max)
    BY <2>1 DEF Reads
  <2>3. QED
    BY <2>1, <2>2, Zenon DEF Leasing!ExtractByte
<1>3. Nat \subseteq T
  <2> HIDE DEF T
  <2>1. QED
    BY <1>1, <1>2, Induct
<1>4. Len(o) - i \in Nat /\ i + (Len(o) - i) = Len(o)
  OBVIOUS
<1>5. QED
  BY <1>3, <1>4
-----------------------------------------------------------------------------
(* Where things stand in the packets.                                       *)

\* z is x and behind it y.
Joins(z, x, n, y, m) ==
  (\A i \in 1 .. n : z[i] = x[i]) /\ \A i \in 1 .. m : z[n + i] = y[i]

LEMMA Put ==
  ASSUME NEW U, NEW x, NEW n \in Nat, NEW y, NEW m \in Nat, Piece(U, x, n), Piece(U, y, m)
  PROVE  Piece(U, x \o y, n + m) /\ Joins(x \o y, x, n, y, m)
BY DEF Piece, Joins

LEMMA SameSeq ==
  ASSUME NEW U, NEW n \in Nat, NEW s, Piece(U, s, n), NEW t, Piece(U, t, n),
         \A i \in 1 .. n : s[i] = t[i]
  PROVE  s = t
BY DEF Piece

LEMMA Wider ==
  ASSUME NEW U, NEW V, U \subseteq V, NEW s, NEW n \in Nat, Piece(U, s, n)
  PROVE  Piece(V, s, n)
BY DEF Piece

LEMMA Filled ==
  ASSUME NEW n \in Nat
  PROVE  Piece(Octet, Leasing!Zeros(n), n) /\ Piece(Octet, Leasing!Full(n), n)
BY DEF Piece, Octet, Leasing!Zeros, Leasing!Full

LEMMA ShortBytes ==
  ASSUME NEW w \in Short
  PROVE  /\ w \div 256 \in Octet /\ w % 256 \in Octet /\ (w \div 256) * 256 + (w % 256) = w
         /\ Piece(Octet, Leasing!U16(w), 2)
<1>1. w % 256 \in Octet /\ (w \div 256) * 256 + (w % 256) = w
  BY DEF Short, Octet
<1>2. w \div 256 \in Octet
  <2> DEFINE q == w \div 256
             r == w % 256
  <2>1. w \in Int
    BY DEF Short
  <2>4. q \in Int
    BY <2>1
  <2>5. r \in Int
    BY <2>1
  <2>2. q * 256 + r = w /\ 0 <= r /\ r <= 255 /\ 0 <= w /\ w <= 65535
    BY <1>1 DEF Short, Octet
  <2> HIDE DEF q, r
  <2>3. 0 <= q /\ q <= 255
    BY <2>2, <2>4, <2>5
  <2>6. q \in Octet
    BY <2>3, <2>4 DEF Octet
  <2>7. QED
    BY <2>6 DEF q
<1>3. QED
  BY <1>1, <1>2 DEF Piece, Leasing!U16

LEMMA Ports == 67 \in Short /\ 68 \in Short
BY DEF Short

\* The transaction number and the address in the BOOTP header.
LEMMA BootpLayout ==
  ASSUME NEW req \in Octet, NEW id \in Short,
         NEW your, Piece(Octet, your, 4), NEW mac, Piece(Octet, mac, 6)
  PROVE  LET d == Leasing!bootphdr(req, id, your, mac) IN
           /\ Piece(Octet, d, 240)
           /\ d[7] = id \div 256 /\ d[8] = id % 256
           /\ \A i \in 1 .. 4 : d[16 + i] = your[i]
<1> DEFINE a == <<req, 1, 6, 0, 0, 0>>
           w == Leasing!U16(id)
           b == <<0, 0, 128, 0>>
           c == <<99, 130, 83, 99>>
           x1 == a \o w
           x2 == x1 \o b
           x3 == x2 \o Leasing!Zeros(4)
           x4 == x3 \o your
           x5 == x4 \o Leasing!Zeros(8)
           x6 == x5 \o mac
           x7 == x6 \o Leasing!Zeros(202)
           x8 == x7 \o c
<1>1. /\ Piece(Octet, a, 6) /\ Piece(Octet, b, 4) /\ Piece(Octet, c, 4)
      /\ Piece(Octet, w, 2) /\ w[1] = id \div 256 /\ w[2] = id % 256
  <2>1. Piece(Octet, a, 6) /\ Piece(Octet, b, 4) /\ Piece(Octet, c, 4)
    BY DEF Piece, Octet
  <2>2. Piece(Octet, w, 2)
    BY ShortBytes
  <2>3. w[1] = id \div 256 /\ w[2] = id % 256
    BY DEF Leasing!U16
  <2>4. QED
    BY <2>1, <2>2, <2>3
<1>2. /\ Piece(Octet, Leasing!Zeros(4), 4) /\ Piece(Octet, Leasing!Zeros(8), 8)
      /\ Piece(Octet, Leasing!Zeros(202), 202)
  BY Filled
<1>3. Leasing!bootphdr(req, id, your, mac) = x8
  BY DEF Leasing!bootphdr
<1> HIDE DEF a, w, b, c
<1>4. Piece(Octet, x1, 8) /\ x1[7] = id \div 256 /\ x1[8] = id % 256
  <2>1. Piece(Octet, x1, 6 + 2) /\ Joins(x1, a, 6, w, 2)
    BY <1>1, Put
  <2> HIDE DEF x1
  <2>2. x1[7] = w[1] /\ x1[8] = w[2]
    BY <2>1 DEF Joins
  <2>3. QED
    BY <1>1, <2>1, <2>2
<1> HIDE DEF x1
<1>5. Piece(Octet, x2, 12) /\ x2[7] = id \div 256 /\ x2[8] = id % 256
  <2>1. Piece(Octet, x2, 8 + 4) /\ Joins(x2, x1, 8, b, 4)
    BY <1>1, <1>4, Put
  <2> HIDE DEF x2
  <2>2. x2[7] = x1[7] /\ x2[8] = x1[8]
    BY <2>1 DEF Joins
  <2>3. QED
    BY <1>4, <2>1, <2>2
<1> HIDE DEF x2
<1>6. Piece(Octet, x3, 16) /\ x3[7] = id \div 256 /\ x3[8] = id % 256
  <2>1. Piece(Octet, x3, 12 + 4) /\ Joins(x3, x2, 12, Leasing!Zeros(4), 4)
    BY <1>2, <1>5, Put
  <2> HIDE DEF x3
  <2>2. x3[7] = x2[7] /\ x3[8] = x2[8]
    BY <2>1 DEF Joins
  <2>3. QED
    BY <1>5, <2>1, <2>2
<1> HIDE DEF x3
<1> DEFINE Holds(x) == x[7] = id \div 256 /\ x[8] = id % 256 /\ \A i \in 1 .. 4 : x[16 + i] = your[i]
<1>7. Piece(Octet, x4, 20) /\ Holds(x4)
  <2>1. Piece(Octet, x4, 16 + 4) /\ Joins(x4, x3, 16, your, 4)
    BY <1>6, Put
  <2> HIDE DEF x4
  <2>2. x4[7] = x3[7] /\ x4[8] = x3[8] /\ \A i \in 1 .. 4 : x4[16 + i] = your[i]
    BY <2>1 DEF Joins
  <2>3. QED
    BY <1>6, <2>1, <2>2
<1> HIDE DEF x4
<1>8. ASSUME NEW x, NEW y, NEW n \in Nat, n >= 20, NEW z, NEW m, Joins(y, x, n, z, m), Holds(x)
      PROVE  Holds(y)
  <2>1. 7 \in 1 .. n /\ 8 \in 1 .. n /\ \A i \in 1 .. 4 : 16 + i \in 1 .. n
    BY <1>8
  <2>2. y[7] = x[7] /\ y[8] = x[8] /\ \A i \in 1 .. 4 : y[16 + i] = x[16 + i]
    BY <1>8, <2>1 DEF Joins
  <2>3. QED
    BY <1>8, <2>2
<1> HIDE DEF Holds
<1>9. Piece(Octet, x5, 28) /\ Holds(x5)
  <2>1. Piece(Octet, x5, 20 + 8) /\ Joins(x5, x4, 20, Leasing!Zeros(8), 8)
    BY <1>2, <1>7, Put
  <2>2. QED
    BY <1>7, <1>8, <2>1
<1> HIDE DEF x5
<1>10. Piece(Octet, x6, 34) /\ Holds(x6)
  <2>1. Piece(Octet, x6, 28 + 6) /\ Joins(x6, x5, 28, mac, 6)
    BY <1>9, Put
  <2>2. QED
    BY <1>8, <1>9, <2>1
<1> HIDE DEF x6
<1>11. Piece(Octet, x7, 236) /\ Holds(x7)
  <2>1. Piece(Octet, x7, 34 + 202) /\ Joins(x7, x6, 34, Leasing!Zeros(202), 202)
    BY <1>2, <1>10, Put
  <2>2. QED
    BY <1>8, <1>10, <2>1
<1> HIDE DEF x7
<1>12. Piece(Octet, x8, 240) /\ Holds(x8)
  <2>1. Piece(Octet, x8, 236 + 4) /\ Joins(x8, x7, 236, c, 4)
    BY <1>1, <1>11, Put
  <2>2. QED
    BY <1>8, <1>11, <2>1
<1>13. QED
  BY <1>3, <1>12 DEF Holds

\* What stands before the body takes 42 bytes.
Carries(p, body, n) == (\E V : Piece(V, p, 42 + n)) /\ \A i \in 1 .. n : p[42 + i] = body[i]

LEMMA PacketLayout ==
  ASSUME NEW source, Piece(Octet, source, 6), NEW id \in Short, NEW a, NEW b,
         NEW n \in Nat, NEW body, Piece(Octet, body, n)
  PROVE  Carries(Leasing!Packet(source, id, a, b, body), body, n)
<1> DEFINE l1 == Leasing!U16(28 + Len(body))
           l2 == Leasing!U16(8 + Len(body))
           s1 == Leasing!U16(a)
           s2 == Leasing!U16(b)
           V == Octet \cup {l1[1], l1[2], l2[1], l2[2], s1[1], s1[2], s2[1], s2[2]}
           e == Leasing!EthHdr(source)
           h == Leasing!IpHdr(28 + Len(body), id, a)
           u == Leasing!UdpHdr(8 + Len(body), b)
<1>0. \A s, k : k \in Nat /\ Piece(Octet, s, k) => Piece(V, s, k)
  BY Wider
<1>1. Piece(V, l1, 2) /\ Piece(V, l2, 2) /\ Piece(V, s1, 2) /\ Piece(V, s2, 2)
  <2>1. \A x, y : x \in V /\ y \in V => Piece(V, <<x, y>>, 2)
    BY DEF Piece
  <2>2. QED
    <3>1. /\ l1 = <<l1[1], l1[2]>> /\ l2 = <<l2[1], l2[2]>>
          /\ s1 = <<s1[1], s1[2]>> /\ s2 = <<s2[1], s2[2]>>
      BY DEF Leasing!U16
    <3>2. {l1[1], l1[2], l2[1], l2[2], s1[1], s1[2], s2[1], s2[2]} \subseteq V
      OBVIOUS
    <3> HIDE DEF V, l1, l2, s1, s2
    <3>3. QED
      BY <2>1, <3>1, <3>2
<1> HIDE DEF V, l1, l2, s1, s2
<1>2. Piece(V, e, 14)
  <2>1. Piece(Octet, Leasing!Full(6) \o source, 6 + 6)
    BY Filled, Put
  <2>2. Piece(Octet, <<8, 0>>, 2)
    BY DEF Piece, Octet
  <2>3. Piece(Octet, (Leasing!Full(6) \o source) \o <<8, 0>>, 12 + 2)
    BY <2>1, <2>2, Put
  <2>4. QED
    BY <1>0, <2>3 DEF Leasing!EthHdr
<1>3. Piece(V, h, 20)
  <2> DEFINE c1 == <<69, 0>>
             c2 == <<0, 0, 128, 17>>
             x1 == c1 \o l1
             x2 == x1 \o Leasing!U16(id)
             x3 == x2 \o c2
             x4 == x3 \o s1
             x5 == x4 \o Leasing!Zeros(4)
             x6 == x5 \o Leasing!Full(4)
  <2>1. Piece(Octet, c1, 2) /\ Piece(Octet, c2, 4)
    BY DEF Piece, Octet
  <2>2. /\ Piece(V, c1, 2) /\ Piece(V, c2, 4) /\ Piece(V, Leasing!U16(id), 2)
        /\ Piece(V, Leasing!Zeros(4), 4) /\ Piece(V, Leasing!Full(4), 4)
    BY <1>0, <2>1, ShortBytes, Filled
  <2>3. h = x6
    BY DEF Leasing!IpHdr, l1, s1
  <2> HIDE DEF c1, c2
  <2>4. Piece(V, x1, 2 + 2)
    BY <1>1, <2>2, Put
  <2> HIDE DEF x1
  <2>5. Piece(V, x2, 4 + 2)
    BY <2>2, <2>4, Put
  <2> HIDE DEF x2
  <2>6. Piece(V, x3, 6 + 4)
    BY <2>2, <2>5, Put
  <2> HIDE DEF x3
  <2>7. Piece(V, x4, 10 + 2)
    BY <1>1, <2>6, Put
  <2> HIDE DEF x4
  <2>8. Piece(V, x5, 12 + 4)
    BY <2>2, <2>7, Put
  <2> HIDE DEF x5
  <2>9. Piece(V, x6, 16 + 4)
    BY <2>2, <2>8, Put
  <2> HIDE DEF x6
  <2> HIDE DEF h
  <2>10. QED
    BY <2>3, <2>9
<1>4. Piece(V, u, 8)
  <2> DEFINE c1 == Leasing!U16(68)
             c2 == Leasing!U16(67)
             x1 == c1 \o c2
             x2 == x1 \o l2
             x3 == x2 \o s2
  <2>1. Piece(V, c1, 2) /\ Piece(V, c2, 2)
    <3>2. Piece(Octet, c1, 2) /\ Piece(Octet, c2, 2)
      BY Ports, ShortBytes
    <3> HIDE DEF c1, c2
    <3>3. Piece(V, c1, 2)
      BY <1>0, <3>2
    <3>4. Piece(V, c2, 2)
      BY <1>0, <3>2
    <3>5. QED
      BY <3>3, <3>4
  <2>2. u = x3
    BY DEF Leasing!UdpHdr, l2, s2
  <2> HIDE DEF c1, c2
  <2>3. Piece(V, x1, 2 + 2)
    BY <2>1, Put
  <2> HIDE DEF x1
  <2>4. Piece(V, x2, 4 + 2)
    BY <1>1, <2>3, Put
  <2> HIDE DEF x2
  <2>5. Piece(V, x3, 6 + 2)
    BY <1>1, <2>4, Put
  <2> HIDE DEF x3
  <2> HIDE DEF u
  <2>6. QED
    BY <2>2, <2>5
<1>5. Leasing!Packet(source, id, a, b, body) = ((e \o h) \o u) \o body
  BY DEF Leasing!Packet
<1> HIDE DEF e, h, u
<1>6. Piece(V, e \o h, 14 + 20)
  BY <1>2, <1>3, Put
<1>7. Piece(V, (e \o h) \o u, 34 + 8)
  BY <1>4, <1>6, Put
<1>8. Piece(V, body, n)
  BY <1>0
<1> DEFINE head == (e \o h) \o u
<1> HIDE DEF head
<1>9. Piece(V, head \o body, 42 + n) /\ \A i \in 1 .. n : (head \o body)[42 + i] = body[i]
  <2>1. Piece(V, head, 42)
    BY <1>7 DEF head
  <2>2. Piece(V, head \o body, 42 + n) /\ Joins(head \o body, head, 42, body, n)
    BY <1>8, <2>1, Put
  <2>3. QED
    BY <2>2 DEF Joins
<1>10. QED
  BY <1>5, <1>9 DEF head, Carries

\* e is what is found of the element of n bytes behind the first i of m bytes o.
Finds(e, o, m, i, n) ==
  /\ m < i + 2 + n => e.rc = -2
  /\ i + 2 + n <= m =>
       /\ e.rc = n /\ Piece(Octet, e.buf, n)
       /\ \A k \in 1 .. n : e.buf[k] = o[i + 2 + k]

\* What one call of extractIE_raw() finds of an element that its scan comes to.
LEMMA Found ==
  ASSUME NEW o, NEW m \in Nat, NEW id, NEW max \in Nat, NEW i \in Nat, NEW n \in Nat \ {0}, n <= max,
         Element(o, m, i, id, n), Waits(Scan(o, id, max), i)
  PROVE  Finds(Leasing!extractIE_raw(o, id, max), o, m, i, n)
<1> DEFINE f == Scan(o, id, max)
           e == Leasing!extractIE_raw(o, id, max)
<1>1. Len(o) = m /\ Len(o) \in Nat /\ i + 2 <= m
  BY DEF Element
<1>2. Reads(f, o, id, max)
  BY <1>1, ScanReads
<1>3. e.rc = (IF f[m].rc = Leasing!Going THEN -2 ELSE f[m].rc) /\ e.buf = f[m].buf
  BY <1>1, ExtractIs
<1>4. Waits(f, i)
  OBVIOUS
<1> HIDE DEF f, e
<1>5. Takes(f, o, i, n)
  BY <1>2, <1>4, TakeElement
<1>6. ASSUME m < i + 2 + n PROVE e.rc = -2
  <2>1. PICK d \in 0 .. n - 1 : i + 2 + d = m
    <3>1. m - (i + 2) \in 0 .. n - 1 /\ i + 2 + (m - (i + 2)) = m
      BY <1>1, <1>6
    <3>2. QED
      BY <3>1
  <2>2. i + 2 + d <= Len(o)
    BY <1>1, <2>1
  <2>3. f[i + 2 + d].rc = Leasing!Going
    BY <1>5, <2>2 DEF Takes
  <2>4. f[m].rc = Leasing!Going
    BY <2>1, <2>3
  <2>5. QED
    BY <1>3, <2>4
<1>7. ASSUME i + 2 + n <= m
      PROVE  /\ e.rc = n /\ Piece(Octet, e.buf, n)
             /\ \A k \in 1 .. n : e.buf[k] = o[i + 2 + k]
  <2>1. PICK k \in 0 .. Len(o) : k = i + 2 + n
    BY <1>1, <1>7
  <2>2. /\ f[k].rc = n /\ Piece(Octet, f[k].buf, n)
        /\ \A j \in 1 .. n : f[k].buf[j] = o[i + 2 + j]
    <3>1. i + 2 + n <= Len(o)
      BY <2>1
    <3>2. /\ f[i + 2 + n].rc = n /\ Piece(Octet, f[i + 2 + n].buf, n)
          /\ \A j \in 1 .. n : f[i + 2 + n].buf[j] = o[i + 2 + j]
      BY <1>5, <3>1 DEF Takes
    <3>3. QED
      BY <2>1, <3>2
  <2>3. n # Leasing!Going
    BY DEF Leasing!Going
  <2>4. f[m] = f[k]
    BY <1>1, <1>2, <2>2, <2>3, Stays
  <2>5. QED
    BY <1>3, <2>2, <2>3, <2>4
<1>8. QED
  BY <1>6, <1>7 DEF e, Finds

LEMMA NotFound ==
  ASSUME NEW o, Len(o) \in Nat, NEW id, NEW max, Waits(Scan(o, id, max), Len(o))
  PROVE  Leasing!extractIE_raw(o, id, max).rc = -2
<1>1. Scan(o, id, max)[Len(o)].rc = Leasing!Going
  BY DEF Waits, At
<1>2. QED
  BY <1>1, ExtractIs

\* A scan waits for an identifier first.
LEMMA ScanStarts ==
  ASSUME NEW o, Len(o) \in Nat, NEW id, NEW max
  PROVE  Waits(Scan(o, id, max), 0) /\ Reads(Scan(o, id, max), o, id, max)
<1>1. Scan(o, id, max)[0] = At("id", 0, 0, <<>>)
  BY ScanReads DEF Fresh
<1>2. QED
  BY <1>1, ScanReads, Zenon DEF Waits

\* A number of n bytes that is found is theirs.
LEMMA NumberFound ==
  ASSUME NEW e, NEW n, NEW value, n # 0, e.rc \in {n, -2}, Leasing!ExtractNumber(e, n, value).rc = 0
  PROVE  e.rc = n /\ Leasing!ExtractNumber(e, n, value).value = value
BY DEF Leasing!ExtractNumber

\* The number that four bytes of s from i on stand for.
Long(s, i) == ((s[i] * 256 + s[i + 1]) * 256 + s[i + 2]) * 256 + s[i + 3]

LEMMA DivMod ==
  ASSUME NEW w \in Nat, NEW q \in Nat, NEW r \in 0 .. 255, w = q * 256 + r
  PROVE  w \div 256 = q /\ w % 256 = r
OBVIOUS

\* v is a number of four bytes.
IsLong(v) == v \in Nat /\ v \div 16777216 < 256

LEMMA LongBytes ==
  ASSUME NEW v, IsLong(v)
  PROVE  Piece(Octet, Leasing!U32(v), 4) /\ Long(Leasing!U32(v), 1) = v
<1> DEFINE q3 == v \div 16777216
           q2 == v \div 65536
           q1 == v \div 256
           u == Leasing!U32(v)
<1>0. v \in Nat
  BY SMT DEF IsLong
<1>1. q3 \in Nat /\ 256 * (65536 * q3) <= v /\ v < 256 * (65536 * (q3 + 1)) /\ q3 < 256
  BY <1>0, SMTT(20) DEF IsLong
<1>2. q2 \in Nat /\ q2 * 65536 <= v /\ v < (q2 + 1) * 65536
  BY <1>0, SMTT(20)
<1>3. q1 \in Nat /\ q1 * 256 <= v /\ v < (q1 + 1) * 256
  BY <1>0, SMTT(20)
<1>4. u = <<q3, q2 % 256, q1 % 256, v % 256>>
  BY SMT DEF Leasing!U32
<1> HIDE DEF q3, q2, q1, u
<1> DEFINE r2 == q2 - q3 * 256
           r1 == q1 - q2 * 256
           r0 == v - q1 * 256
<1>5. r2 \in 0 .. 255 /\ q2 = q3 * 256 + r2
  BY <1>0, <1>1, <1>2, SMTT(20)
<1>6. r1 \in 0 .. 255 /\ q1 = q2 * 256 + r1
  BY <1>0, <1>2, <1>3, SMTT(20)
<1>7. r0 \in 0 .. 255 /\ v = q1 * 256 + r0
  BY <1>0, <1>3, SMTT(20)
<1> HIDE DEF r2, r1, r0
<1>8. q2 % 256 = r2 /\ q1 % 256 = r1 /\ v % 256 = r0
  <2>1. q2 % 256 = r2
    BY <1>1, <1>2, <1>5, DivMod
  <2>2. q1 % 256 = r1
    BY <1>2, <1>3, <1>6, DivMod
  <2>3. v % 256 = r0
    BY <1>0, <1>3, <1>7, DivMod
  <2>4. QED
    BY <2>1, <2>2, <2>3
<1>9. u = <<q3, r2, r1, r0>>
  BY <1>4, <1>8
<1>10. q3 \in Octet /\ r2 \in Octet /\ r1 \in Octet /\ r0 \in Octet
  BY <1>1, <1>5, <1>6, <1>7 DEF Octet
<1>11. Piece(Octet, u, 4)
  BY <1>9, <1>10 DEF Piece
<1>12. Long(u, 1) = ((q3 * 256 + r2) * 256 + r1) * 256 + r0
  <2>1. u[1] = q3 /\ u[2] = r2 /\ u[3] = r1 /\ u[4] = r0
    BY <1>9
  <2>2. Long(u, 1) = ((u[1] * 256 + u[2]) * 256 + u[3]) * 256 + u[4]
    BY DEF Long
  <2>3. QED
    BY <2>1, <2>2
<1>13. ((q3 * 256 + r2) * 256 + r1) * 256 + r0 = v
  <2>1. (q3 * 256 + r2) = q2
    BY <1>5
  <2>2. q2 * 256 + r1 = q1
    BY <1>6
  <2>3. q1 * 256 + r0 = v
    BY <1>7
  <2>4. QED
    BY <2>1, <2>2, <2>3
<1>14. QED
  BY <1>11, <1>12, <1>13 DEF u

\* p carries the number id, the address your and the options o, which are n bytes.
Laid(p, id, your, o, n) ==
  /\ \E V : Piece(V, p, 282 + n)
  /\ p[49] = id \div 256 /\ p[50] = id % 256
  /\ \A i \in 1 .. 4 : p[58 + i] = your[i]
  /\ \A i \in 1 .. n : p[282 + i] = o[i]

LEMMA BodyLayout ==
  ASSUME NEW source, Piece(Octet, source, 6), NEW id \in Short, NEW a, NEW b,
         NEW req \in Octet, NEW your, Piece(Octet, your, 4), NEW mac, Piece(Octet, mac, 6),
         NEW n \in Nat, NEW o, Piece(Octet, o, n)
  PROVE  Laid(Leasing!Packet(source, id, a, b, Leasing!bootphdr(req, id, your, mac) \o o),
              id, your, o, n)
<1> DEFINE d == Leasing!bootphdr(req, id, your, mac)
           body == d \o o
           p == Leasing!Packet(source, id, a, b, body)
<1>1. /\ Piece(Octet, d, 240) /\ d[7] = id \div 256 /\ d[8] = id % 256
      /\ \A i \in 1 .. 4 : d[16 + i] = your[i]
  BY BootpLayout
<1> HIDE DEF d
<1>2. Piece(Octet, body, 240 + n) /\ Joins(body, d, 240, o, n)
  BY <1>1, Put
<1> HIDE DEF body
<1>3. /\ \E V : Piece(V, p, 42 + (240 + n))
      /\ \A i \in 1 .. 240 + n : p[42 + i] = body[i]
  <2>1. PICK k \in Nat : k = 240 + n
    OBVIOUS
  <2>2. Piece(Octet, body, k)
    BY <1>2, <2>1
  <2>3. Carries(p, body, k)
    BY <2>2, PacketLayout
  <2> HIDE DEF p
  <2>4. QED
    BY <2>1, <2>3 DEF Carries
<1> HIDE DEF p
<1>4. ASSUME NEW i \in 1 .. 240 PROVE p[42 + i] = d[i]
  <2>1. i \in 1 .. 240 + n
    OBVIOUS
  <2>2. body[i] = d[i]
    BY <1>2 DEF Joins
  <2>3. QED
    BY <1>3, <2>1, <2>2
<1>5. p[42 + 7] = d[7] /\ p[42 + 8] = d[8] /\ \A i \in 1 .. 4 : p[42 + (16 + i)] = d[16 + i]
  <2>1. 7 \in 1 .. 240 /\ 8 \in 1 .. 240 /\ \A i \in 1 .. 4 : 16 + i \in 1 .. 240
    OBVIOUS
  <2>2. QED
    BY <1>4, <2>1
<1>6. p[49] = id \div 256 /\ p[50] = id % 256 /\ \A i \in 1 .. 4 : p[58 + i] = your[i]
  <2>1. \A i \in 1 .. 4 : 42 + (16 + i) = 58 + i
    OBVIOUS
  <2>2. QED
    BY <1>1, <1>5, <2>1
<1>7. ASSUME NEW i \in 1 .. n PROVE p[282 + i] = o[i]
  <2>1. 240 + i \in 1 .. 240 + n /\ 42 + (240 + i) = 282 + i
    OBVIOUS
  <2>2. body[240 + i] = o[i]
    BY <1>2 DEF Joins
  <2>3. p[42 + (240 + i)] = body[240 + i]
    BY <1>3, <2>1
  <2>4. QED
    BY <2>1, <2>2, <2>3
<1>8. \E V : Piece(V, p, 282 + n)
  <2>1. 42 + (240 + n) = 282 + n
    OBVIOUS
  <2>2. QED
    BY <1>3, <2>1
<1>9. QED
  BY <1>6, <1>7, <1>8 DEF Laid, p, body, d

\* o is the first m bytes of w.
Begins(o, m, w) == Len(o) = m /\ \A i \in 1 .. m : o[i] = w[i]

\* q is read as a packet with the number id, the address your and the first m
\* bytes of the options w.
Shows(q, id, your, w, m) ==
  /\ SubSeq(q, 47, 50)[3] = id \div 256 /\ SubSeq(q, 47, 50)[4] = id % 256
  /\ SubSeq(q, 59, 62) = your
  /\ Begins(Leasing!OptionsOf(q), m, w)

\* q is what is left of p, a packet with n bytes of options, of which m are left.
First(p, k) == SubSeq(p, 1, k)
Cut(q, p, n, m) == m \in 0 .. n /\ q = First(p, 282 + m)

LEMMA CutLayout ==
  ASSUME NEW p, NEW id, NEW your, Piece(Octet, your, 4), NEW n \in Nat, NEW o,
         Laid(p, id, your, o, n), NEW q, NEW m, Cut(q, p, n, m)
  PROVE  Shows(q, id, your, o, m)
<1>1. PICK V : p \in Seq(V) /\ Len(p) = 282 + n
  BY DEF Laid, Piece
<1>2. PICK k \in Nat : k = 282 + m /\ q = SubSeq(p, 1, k) /\ m \in 0 .. n
  BY DEF Cut, First
<1>3. k \in 282 .. 282 + n
  BY <1>2
<1>4. q \in Seq(V) /\ Len(q) = k /\ \A i \in 1 .. k : q[i] = p[i]
  BY <1>1, <1>2, <1>3
<1>5. SubSeq(q, 47, 50)[3] = id \div 256 /\ SubSeq(q, 47, 50)[4] = id % 256
  <2>1. q[49] = id \div 256 /\ q[50] = id % 256
    BY <1>3, <1>4 DEF Laid
  <2>2. SubSeq(q, 47, 50)[3] = q[49] /\ SubSeq(q, 47, 50)[4] = q[50]
    BY <1>3, <1>4
  <2>3. QED
    BY <2>1, <2>2
<1>6. SubSeq(q, 59, 62) = your
  <2>1. SubSeq(q, 59, 62) \in Seq(V) /\ Len(SubSeq(q, 59, 62)) = 4
    BY <1>3, <1>4
  <2>2. ASSUME NEW i \in 1 .. 4 PROVE SubSeq(q, 59, 62)[i] = your[i]
    <3>1. SubSeq(q, 59, 62)[i] = q[59 + i - 1]
      BY <1>3, <1>4
    <3>2. 59 + i - 1 = 58 + i /\ 58 + i \in 1 .. k
      BY <1>3
    <3>3. q[58 + i] = p[58 + i] /\ p[58 + i] = your[i]
      BY <1>4, <3>2 DEF Laid
    <3>4. QED
      BY <3>1, <3>2, <3>3
  <2>3. QED
    BY <2>1, <2>2 DEF Piece
<1>7. Len(Leasing!OptionsOf(q)) = m
  BY <1>2, <1>3, <1>4 DEF Leasing!OptionsOf, Leasing!Fixed
<1>8. ASSUME NEW i \in 1 .. m PROVE Leasing!OptionsOf(q)[i] = o[i]
  <2>1. Leasing!OptionsOf(q)[i] = q[283 + i - 1]
    BY <1>2, <1>3, <1>4 DEF Leasing!OptionsOf, Leasing!Fixed
  <2>2. 283 + i - 1 = 282 + i /\ 282 + i \in 1 .. k /\ i \in 1 .. n
    BY <1>2
  <2>3. q[282 + i] = p[282 + i] /\ p[282 + i] = o[i]
    BY <1>4, <2>2 DEF Laid
  <2>4. QED
    BY <2>1, <2>2, <2>3
<1>9. QED
  BY <1>5, <1>6, <1>7, <1>8 DEF Shows, Begins

\* A packet is its own longest part.
LEMMA Whole ==
  ASSUME NEW p, NEW id, NEW your, NEW n \in Nat, NEW o, Laid(p, id, your, o, n)
  PROVE  Cut(p, p, n, n)
<1>1. PICK V : p \in Seq(V) /\ Len(p) = 282 + n
  BY DEF Laid, Piece
<1> DEFINE q == SubSeq(p, 1, 282 + n)
<1>2. q \in Seq(V) /\ Len(q) = 282 + n /\ \A i \in 1 .. 282 + n : q[i] = p[i]
  BY <1>1
<1> HIDE DEF q
<1>3. q = p
  BY <1>1, <1>2
<1>4. QED
  BY <1>3 DEF Cut, First, q

\* The options of a server's answer.
LEMMA AnswersLayout ==
  ASSUME NEW s \in Offers, NEW type \in Octet
  PROVE  LET o == Leasing!Answers(s, type) IN
           /\ Piece(Octet, o, 16)
           /\ o[1] = 53 /\ o[2] = 1 /\ o[3] = type /\ o[4] = 3 /\ o[5] = 4
           /\ o[10] = 1 /\ o[11] = 4
           /\ Long(o, 6) = s.router /\ Long(o, 12) = s.mask
<1> DEFINE a == <<53, 1, type, 3, 4>>
           r == Leasing!U32(s.router)
           c == <<1, 4>>
           m == Leasing!U32(s.mask)
           x1 == a \o r
           x2 == x1 \o c
           x3 == x2 \o m
           x4 == x3 \o <<255>>
<1>1. Piece(Octet, a, 5) /\ Piece(Octet, c, 2) /\ Piece(Octet, <<255>>, 1)
  BY DEF Piece, Octet
<1>2. /\ a[1] = 53 /\ a[2] = 1 /\ a[3] = type /\ a[4] = 3 /\ a[5] = 4
      /\ c[1] = 1 /\ c[2] = 4
  OBVIOUS
<1>3. IsLong(s.router) /\ IsLong(s.mask)
  BY LinksAssumption, SMTT(20) DEF Leasing!DHCPUtilsAssumption, IsLong
<1>4. Piece(Octet, r, 4) /\ Long(r, 1) = s.router /\ Piece(Octet, m, 4) /\ Long(m, 1) = s.mask
  BY <1>3, LongBytes
<1>5. Leasing!Answers(s, type) = x4
  BY DEF Leasing!Answers
<1> HIDE DEF a, r, c, m
<1>6. Piece(Octet, x1, 5 + 4) /\ Joins(x1, a, 5, r, 4)
  BY <1>1, <1>4, Put
<1> HIDE DEF x1
<1>7. Piece(Octet, x2, 9 + 2) /\ Joins(x2, x1, 9, c, 2)
  BY <1>1, <1>6, Put
<1> HIDE DEF x2
<1>8. Piece(Octet, x3, 11 + 4) /\ Joins(x3, x2, 11, m, 4)
  BY <1>4, <1>7, Put
<1> HIDE DEF x3
<1>9. Piece(Octet, x4, 15 + 1) /\ Joins(x4, x3, 15, <<255>>, 1)
  BY <1>1, <1>8, Put
<1> HIDE DEF x4
<1>10. \A i \in 1 .. 5 : x4[i] = a[i]
  BY <1>6, <1>7, <1>8, <1>9 DEF Joins
<1>11. x4[6] = r[1] /\ x4[7] = r[2] /\ x4[8] = r[3] /\ x4[9] = r[4]
  BY <1>6, <1>7, <1>8, <1>9 DEF Joins
<1>12. x4[10] = c[1] /\ x4[11] = c[2]
  BY <1>7, <1>8, <1>9 DEF Joins
<1>13. x4[12] = m[1] /\ x4[13] = m[2] /\ x4[14] = m[3] /\ x4[15] = m[4]
  BY <1>8, <1>9 DEF Joins
<1>14. Long(x4, 6) = Long(r, 1) /\ Long(x4, 12) = Long(m, 1)
  BY <1>11, <1>13 DEF Long
<1>15. QED
  BY <1>2, <1>4, <1>5, <1>9, <1>10, <1>12, <1>14

LEMMA Elements ==
  ASSUME NEW U, NEW s, NEW n \in Nat, Piece(U, s, n), NEW i \in 1 .. n
  PROVE  s[i] \in U
BY DEF Piece

\* What the first m bytes o of a server's options say.
Says(o, m, s, type) ==
  /\ Len(o) = m /\ \A i \in 1 .. m : o[i] \in Octet
  /\ m >= 2 => o[1] = 53 /\ o[2] = 1
  /\ m >= 3 => o[3] = type
  /\ m >= 5 => o[4] = 3 /\ o[5] = 4
  /\ m >= 9 => Long(o, 6) = s.router
  /\ m >= 11 => o[10] = 1 /\ o[11] = 4
  /\ m >= 15 => Long(o, 12) = s.mask

LEMMA AnswerBytes ==
  ASSUME NEW s \in Offers, NEW type \in Octet, NEW m \in 0 .. 16,
         NEW o, Begins(o, m, Leasing!Answers(s, type))
  PROVE  Says(o, m, s, type)
<1> DEFINE a == Leasing!Answers(s, type)
<1>1. /\ Piece(Octet, a, 16)
      /\ a[1] = 53 /\ a[2] = 1 /\ a[3] = type /\ a[4] = 3 /\ a[5] = 4
      /\ a[10] = 1 /\ a[11] = 4 /\ Long(a, 6) = s.router /\ Long(a, 12) = s.mask
  BY AnswersLayout
<1>2. Len(o) = m /\ \A i \in 1 .. m : o[i] = a[i]
  BY DEF Begins
<1> HIDE DEF a
<1>3. ASSUME NEW i \in 1 .. m PROVE o[i] \in Octet
  <2>1. i \in 1 .. 16
    OBVIOUS
  <2>2. a[i] \in Octet
    BY <1>1, <2>1, Elements
  <2>3. QED
    BY <1>2, <2>2
<1>4. m >= 9 => Long(o, 6) = Long(a, 6)
  BY <1>2 DEF Long
<1>5. m >= 15 => Long(o, 12) = Long(a, 12)
  BY <1>2 DEF Long
<1>6. QED
  BY <1>1, <1>2, <1>3, <1>4, <1>5 DEF Says

\* The three elements of an answer that was cut in one of the places where the
\* network cuts it.
LEMMA TypeIsRead ==
  ASSUME NEW s \in Offers, NEW type \in Octet, NEW m \in {0, 2, 3, 8, 15, 16},
         NEW o, Begins(o, m, Leasing!Answers(s, type)), Leasing!extractIE_uint8(o, 53).rc = 0
  PROVE  m >= 3 /\ Leasing!extractIE_uint8(o, 53).value = type
<1> DEFINE e == Leasing!extractIE_raw(o, 53, 1)
           x == Leasing!extractIE_uint8(o, 53)
<1>1. x = Leasing!ExtractNumber(e, 1, e.buf[1])
  BY DEF Leasing!extractIE_uint8
<1>2. m \in 0 .. 16 /\ m \in Nat /\ (m = 0 \/ m >= 2)
  OBVIOUS
<1>3. Says(o, m, s, type)
  BY <1>2, AnswerBytes
<1>4. Len(o) = m /\ Waits(Scan(o, 53, 1), 0)
  <2>1. Len(o) = m
    BY <1>3 DEF Says
  <2>2. QED
    BY <1>2, <2>1, ScanStarts
<1>5. x.rc = 0
  OBVIOUS
<1> HIDE DEF x
<1>6. m # 0
  <2> SUFFICES ASSUME m = 0 PROVE FALSE
    OBVIOUS
  <2>1. e.rc = -2
    BY <1>4, NotFound
  <2> HIDE DEF e
  <2>2. QED
    BY <1>1, <1>5, <2>1 DEF Leasing!ExtractNumber
<1>7. Element(o, m, 0, 53, 1)
  BY <1>2, <1>3, <1>6 DEF Element, Says
<1>8. Finds(e, o, m, 0, 1)
  BY <1>2, <1>4, <1>7, Found
<1> HIDE DEF e
<1>9. e.rc = 1 /\ x.value = e.buf[1]
  <2>1. e.rc \in {1, -2}
    BY <1>2, <1>8 DEF Finds
  <2>2. QED
    BY <1>1, <1>5, <2>1, NumberFound
<1>10. m >= 3
  BY <1>2, <1>8, <1>9 DEF Finds
<1>11. e.buf[1] = o[3]
  BY <1>2, <1>8, <1>10 DEF Finds
<1>12. QED
  BY <1>3, <1>9, <1>10, <1>11 DEF Says, x

\* Four bytes that the scan comes to.
LEMMA NumberIsRead ==
  ASSUME NEW o, NEW m \in Nat, NEW id, NEW i \in Nat, Element(o, m, i, id, 4),
         Waits(Scan(o, id, 4), i), Leasing!extractIE_uint32(o, id).rc = 0, NEW k, k = i + 3
  PROVE  i + 6 <= m /\ Leasing!extractIE_uint32(o, id).value = Long(o, k)
<1> DEFINE e == Leasing!extractIE_raw(o, id, 4)
           b == e.buf
           v == ((b[1] * 256 + b[2]) * 256 + b[3]) * 256 + b[4]
           x == Leasing!extractIE_uint32(o, id)
<1>1. x = Leasing!ExtractNumber(e, 4, v)
  BY DEF Leasing!extractIE_uint32
<1>2. x.rc = 0
  OBVIOUS
<1>3. Finds(e, o, m, i, 4)
  BY Found
<1> HIDE DEF e, x, v
<1>4. e.rc = 4 /\ x.value = v
  <2>1. e.rc \in {4, -2}
    BY <1>3 DEF Finds
  <2>2. QED
    BY <1>1, <1>2, <2>1, NumberFound
<1>5. i + 6 <= m
  BY <1>3, <1>4 DEF Finds
<1>6. \A j \in 1 .. 4 : b[j] = o[i + 2 + j]
  BY <1>3, <1>5 DEF Finds
<1> HIDE DEF b
<1>7. b[1] = o[i + 2 + 1] /\ b[2] = o[i + 2 + 2] /\ b[3] = o[i + 2 + 3] /\ b[4] = o[i + 2 + 4]
  BY <1>6
<1>8. b[1] = o[k] /\ b[2] = o[k + 1] /\ b[3] = o[k + 2] /\ b[4] = o[k + 3]
  <2>1. i + 2 + 1 = k /\ i + 2 + 2 = k + 1 /\ i + 2 + 3 = k + 2 /\ i + 2 + 4 = k + 3
    OBVIOUS
  <2>2. QED
    BY <1>7, <2>1
<1>9. v = Long(o, k)
  BY <1>8 DEF Long, v
<1>10. QED
  BY <1>4, <1>5, <1>9 DEF x

LEMMA RouterIsRead ==
  ASSUME NEW s \in Offers, NEW type \in Octet, NEW m \in {3, 8, 15, 16},
         NEW o, Begins(o, m, Leasing!Answers(s, type)), Leasing!extractIE_uint32(o, 3).rc = 0
  PROVE  m >= 9 /\ Leasing!extractIE_uint32(o, 3).value = s.router
<1> DEFINE f == Scan(o, 3, 4)
<1>1. m \in 0 .. 16 /\ m \in Nat /\ 3 <= m /\ (m = 3 \/ m >= 8)
  OBVIOUS
<1>2. Says(o, m, s, type)
  BY <1>1, AnswerBytes
<1>3. Len(o) = m /\ Len(o) \in Nat
  BY <1>1, <1>2 DEF Says
<1>4. Waits(f, 0) /\ Reads(f, o, 3, 4)
  BY <1>3, ScanStarts
<1> HIDE DEF f
<1>5. Passes(o, 3, 0, 1, 3)
  BY <1>1, <1>2 DEF Says, Passes
<1>6. Waits(f, 3)
  BY <1>3, <1>4, <1>5, SkipElement
<1>7. m # 3
  <2> SUFFICES ASSUME m = 3 PROVE FALSE
    OBVIOUS
  <2>1. Leasing!extractIE_raw(o, 3, 4).rc = -2
    BY <1>3, <1>6, NotFound DEF f
  <2>2. QED
    BY <2>1 DEF Leasing!extractIE_uint32, Leasing!ExtractNumber
<1>8. Element(o, m, 3, 3, 4)
  BY <1>1, <1>2, <1>7 DEF Element, Says
<1>9. 3 + 6 <= m /\ Leasing!extractIE_uint32(o, 3).value = Long(o, 6)
  BY <1>1, <1>6, <1>8, NumberIsRead DEF f
<1>10. QED
  BY <1>2, <1>9 DEF Says

LEMMA MaskIsRead ==
  ASSUME NEW s \in Offers, NEW type \in Octet, NEW m \in {15, 16},
         NEW o, Begins(o, m, Leasing!Answers(s, type)), Leasing!extractIE_uint32(o, 1).rc = 0
  PROVE  Leasing!extractIE_uint32(o, 1).value = s.mask
<1> DEFINE f == Scan(o, 1, 4)
<1>1. m \in 0 .. 16 /\ m \in Nat /\ 15 <= m
  OBVIOUS
<1>2. Says(o, m, s, type)
  BY <1>1, AnswerBytes
<1>3. Len(o) = m /\ Len(o) \in Nat
  BY <1>1, <1>2 DEF Says
<1>4. Waits(f, 0) /\ Reads(f, o, 1, 4)
  BY <1>3, ScanStarts
<1> HIDE DEF f
<1>5. Passes(o, 1, 0, 1, 3) /\ Passes(o, 1, 3, 4, 9)
  BY <1>1, <1>2 DEF Says, Passes
<1>6. Waits(f, 3)
  BY <1>3, <1>4, <1>5, SkipElement
<1>7. Waits(f, 9)
  BY <1>3, <1>4, <1>5, <1>6, SkipElement
<1>8. Element(o, m, 9, 1, 4)
  BY <1>1, <1>2 DEF Element, Says
<1>9. Leasing!extractIE_uint32(o, 1).value = Long(o, 12)
  BY <1>1, <1>7, <1>8, NumberIsRead DEF f
<1>10. QED
  BY <1>1, <1>2, <1>9 DEF Says
-----------------------------------------------------------------------------
(* What the client asks.                                                    *)

Record(o) == o \in [rc : Int, bytes : Seq(Octet)]

\* r is o and behind it ie, unless one of the options did not fit.
Adding(r, o, ie) == Record(r) /\ (r.rc >= 0 => o.rc >= 0 /\ r.bytes = o.bytes \o ie)

LEMMA Adds ==
  ASSUME NEW o, Record(o), NEW id \in Octet, NEW m \in Octet, NEW value, Piece(Octet, value, m), NEW room
  PROVE  Adding(Leasing!AddOption(o, id, value, room), o, <<id, m>> \o value)
<1> DEFINE ie == Leasing!addIE_str(id, value, room - Len(o.bytes))
           r == Leasing!AddOption(o, id, value, room)
<1>1. ie # Leasing!None => ie = <<id, m>> \o value
  BY DEF Leasing!addIE_str, Piece
<1>2. <<id, m>> \o value \in Seq(Octet)
  BY DEF Piece
<1>3. r = IF o.rc < 0 THEN o
          ELSE IF ie = Leasing!None THEN [o EXCEPT !.rc = -2] ELSE [o EXCEPT !.bytes = @ \o ie]
  BY DEF Leasing!AddOption
<1> HIDE DEF ie, r
<1>4. CASE o.rc < 0
  BY <1>3, <1>4 DEF Record, Adding, r
<1>5. CASE ~(o.rc < 0) /\ ie = Leasing!None
  BY <1>3, <1>5 DEF Record, Adding, r
<1>6. CASE ~(o.rc < 0) /\ ie # Leasing!None
  <2>1. ie = <<id, m>> \o value /\ ie \in Seq(Octet)
    BY <1>1, <1>2, <1>6
  <2>2. r = [o EXCEPT !.bytes = @ \o ie]
    BY <1>3, <1>6
  <2>3. o.bytes \o ie \in Seq(Octet)
    BY <2>1 DEF Record
  <2>4. r.rc = o.rc /\ r.bytes = o.bytes \o ie /\ Record(r)
    BY <2>2, <2>3 DEF Record
  <2>5. QED
    BY <1>6, <2>1, <2>4 DEF Record, Adding, r
<1>7. QED
  BY <1>4, <1>5, <1>6 DEF r

LEMMA Numbers ==
  /\ ReqId \in Short
  /\ \A id \in Others : id \in Short /\ id # ReqId
<1>1. /\ ReqId \in Nat /\ ReqId < 65536
      /\ \A id \in Others : id \in Nat /\ id < 65536 /\ id # ReqId
  BY LinksAssumption, SMTT(20) DEF Leasing!DHCPUtilsAssumption
<1>2. \A w \in Nat : w < 65536 => w \in Short
  BY DEF Short
<1>3. QED
  BY <1>1, <1>2

LEMMA ClientMac == Piece(Octet, Mac, 6)
<1>1. Mac \in Seq(0 .. 255) /\ Len(Mac) = 6
  BY LinksAssumption, SMTT(20) DEF Leasing!DHCPUtilsAssumption
<1>2. QED
  BY <1>1 DEF Piece, Octet

\* The element with identifier id and the n bytes value begins behind the
\* first i bytes of s.
Has(s, i, id, n, value) ==
  s[i + 1] = id /\ s[i + 2] = n /\ \A k \in 1 .. n : s[i + 2 + k] = value[k]

\* The options of a request, when all of them fit: behind the type and the
\* client, the address.
Asks(s, addr) ==
  /\ Piece(Octet, s, 24)
  /\ s[1] = 53 /\ s[2] = 1 /\ s[4] = 61 /\ s[5] = 7
  /\ Has(s, 12, 50, 4, addr)

LEMMA OptionBytes ==
  ASSUME NEW type \in {1, 3}, NEW addr, Piece(Octet, addr, 4), NEW capacity
  PROVE  LET o == Leasing!Options(type, addr, capacity) IN
           /\ o.rc \in Int
           /\ o.rc >= 0 => /\ o.bytes \in Seq(Octet)
                           /\ type = 3 => Asks(o.bytes, addr)
<1> DEFINE room == Leasing!Room(capacity)
           none == [rc |-> 0, bytes |-> <<>>]
           a == <<type>>
           b == <<1>> \o Mac
           c == <<1, 3, 6>>
           kind == Leasing!AddOption(none, 53, a, room)
           client == Leasing!AddOption(kind, 61, b, room)
           named == IF type = 3 THEN Leasing!AddOption(client, 50, addr, room) ELSE client
           all4 == Leasing!AddOption(named, 55, c, room)
           o == Leasing!Options(type, addr, capacity)
<1>1. /\ 53 \in Octet /\ 61 \in Octet /\ 50 \in Octet /\ 55 \in Octet /\ type \in Octet
      /\ 1 \in Octet /\ 7 \in Octet /\ 4 \in Octet /\ 3 \in Octet
  BY DEF Octet
<1>2. Piece(Octet, a, 1) /\ Piece(Octet, c, 3) /\ Record(none)
  BY <1>1 DEF Piece, Octet, Record
<1>3. Piece(Octet, b, 7)
  <2>1. Piece(Octet, <<1>>, 1)
    BY <1>1 DEF Piece
  <2>2. Piece(Octet, b, 1 + 6)
    BY <2>1, ClientMac, Put
  <2>3. QED
    BY <2>2
<1>4. o = IF all4.rc < 0 THEN all4 ELSE IF Len(all4.bytes) = room THEN [all4 EXCEPT !.rc = -3]
          ELSE [all4 EXCEPT !.bytes = Append(@, 255)]
  BY DEF Leasing!Options
<1>5. none.bytes = <<>> /\ a[1] = type
  OBVIOUS
<1> HIDE DEF none, a, b, c, room
<1>6. Adding(kind, none, <<53, 1>> \o a)
  BY <1>1, <1>2, Adds
<1> HIDE DEF kind
<1>7. Adding(client, kind, <<61, 7>> \o b)
  <2>1. Record(kind)
    BY <1>6 DEF Adding
  <2>2. QED
    BY <1>1, <1>3, <2>1, Adds
<1> HIDE DEF client
<1>8. Record(named) /\ (type = 3 => Adding(named, client, <<50, 4>> \o addr))
  <2>1. Record(client)
    BY <1>7 DEF Adding
  <2>2. CASE type = 3
    <3>1. named = Leasing!AddOption(client, 50, addr, room)
      BY <2>2
    <3>2. Adding(named, client, <<50, 4>> \o addr)
      BY <1>1, <2>1, <3>1, Adds
    <3>3. QED
      BY <3>2 DEF Adding
  <2>3. CASE type # 3
    BY <2>1, <2>3
  <2>4. QED
    BY <2>2, <2>3
<1> HIDE DEF named
<1>9. Adding(all4, named, <<55, 3>> \o c)
  BY <1>1, <1>2, <1>8, Adds
<1> HIDE DEF all4, o
<1>10. /\ Record(o)
       /\ o.rc >= 0 => all4.rc >= 0 /\ o.bytes = Append(all4.bytes, 255)
  <2>1. 255 \in Octet
    BY DEF Octet
  <2>2. all4 \in [rc : Int, bytes : Seq(Octet)]
    BY <1>9 DEF Adding, Record
  <2>3. CASE all4.rc < 0
    BY <1>4, <2>2, <2>3 DEF Record
  <2>4. CASE ~(all4.rc < 0) /\ Len(all4.bytes) = room
    BY <1>4, <2>2, <2>4 DEF Record
  <2>5. CASE ~(all4.rc < 0) /\ Len(all4.bytes) # room
    <3>1. o = [all4 EXCEPT !.bytes = Append(@, 255)]
      BY <1>4, <2>5
    <3>2. Append(all4.bytes, 255) \in Seq(Octet)
      BY <2>1, <2>2
    <3>3. o.rc = all4.rc /\ o.bytes = Append(all4.bytes, 255) /\ o \in [rc : Int, bytes : Seq(Octet)]
      BY <2>2, <3>1, <3>2
    <3>4. QED
      BY <2>2, <2>5, <3>3 DEF Record
  <2>6. QED
    BY <2>3, <2>4, <2>5
<1>11. ASSUME o.rc >= 0, type = 3 PROVE Asks(o.bytes, addr)
  <2> DEFINE h1 == <<53, 1>> \o a
             h2 == <<61, 7>> \o b
             h3 == <<50, 4>> \o addr
             h4 == <<55, 3>> \o c
             y1 == kind.bytes
             y2 == client.bytes
             y3 == named.bytes
             y4 == all4.bytes
             y5 == o.bytes
  <2>1. y1 = h1 /\ y2 = y1 \o h2 /\ y3 = y2 \o h3 /\ y4 = y3 \o h4 /\ y5 = y4 \o <<255>>
    <3>1. y1 = <<>> \o h1 /\ y2 = y1 \o h2 /\ y3 = y2 \o h3 /\ y4 = y3 \o h4 /\ y5 = Append(y4, 255)
      BY <1>5, <1>6, <1>7, <1>8, <1>9, <1>10, <1>11 DEF Adding, y1, y2, y3, y4, y5
    <3>2. h1 \in Seq(Octet) /\ y4 \in Seq(Octet)
      BY <1>1, <1>2, <1>9 DEF Piece, Adding, Record, h1, y4
    <3> HIDE DEF h1, h2, h3, h4, y1, y2, y3, y4, y5
    <3>3. <<>> \o h1 = h1 /\ Append(y4, 255) = y4 \o <<255>>
      BY <3>2
    <3>4. QED
      BY <3>1, <3>3
  <2> HIDE DEF y1, y2, y3, y4, y5
  <2>2. /\ Piece(Octet, <<53, 1>>, 2) /\ Piece(Octet, <<61, 7>>, 2)
        /\ Piece(Octet, <<50, 4>>, 2) /\ Piece(Octet, <<55, 3>>, 2) /\ Piece(Octet, <<255>>, 1)
    BY DEF Piece, Octet
  <2>3. Piece(Octet, h1, 2 + 1) /\ h1[1] = 53 /\ h1[2] = 1
    <3>1. Piece(Octet, h1, 2 + 1) /\ Joins(h1, <<53, 1>>, 2, a, 1)
      BY <1>2, <2>2, Put
    <3> HIDE DEF h1
    <3>2. QED
      BY <3>1 DEF Joins
  <2>4. Piece(Octet, h2, 2 + 7) /\ h2[1] = 61 /\ h2[2] = 7
    <3>1. Piece(Octet, h2, 2 + 7) /\ Joins(h2, <<61, 7>>, 2, b, 7)
      BY <1>3, <2>2, Put
    <3> HIDE DEF h2
    <3>2. QED
      BY <3>1 DEF Joins
  <2>5. Piece(Octet, h3, 2 + 4) /\ Has(h3, 0, 50, 4, addr)
    <3>1. Piece(Octet, h3, 2 + 4) /\ Joins(h3, <<50, 4>>, 2, addr, 4)
      BY <2>2, Put
    <3> HIDE DEF h3
    <3>2. QED
      BY <3>1 DEF Joins, Has
  <2>6. Piece(Octet, h4, 2 + 3)
    BY <1>2, <2>2, Put
  <2> HIDE DEF h1, h2, h3, h4
  <2>7. Piece(Octet, y1, 3) /\ y1[1] = 53 /\ y1[2] = 1
    BY <2>1, <2>3
  <2>8. Piece(Octet, y2, 3 + 9) /\ Joins(y2, y1, 3, h2, 9)
    BY <2>1, <2>4, <2>7, Put
  <2>9. Piece(Octet, y3, 12 + 6) /\ Joins(y3, y2, 12, h3, 6)
    BY <2>1, <2>5, <2>8, Put
  <2>10. Piece(Octet, y4, 18 + 5) /\ Joins(y4, y3, 18, h4, 5)
    BY <2>1, <2>6, <2>9, Put
  <2>11. Piece(Octet, y5, 23 + 1) /\ Joins(y5, y4, 23, <<255>>, 1)
    BY <2>1, <2>2, <2>10, Put
  <2>12. \A i \in 1 .. 18 : y5[i] = y3[i]
    BY <2>10, <2>11 DEF Joins
  <2>13. y3[1] = 53 /\ y3[2] = 1 /\ y3[4] = 61 /\ y3[5] = 7
    BY <2>4, <2>7, <2>8, <2>9 DEF Joins
  <2>14. Has(y3, 12, 50, 4, addr)
    <3>1. \A i \in 1 .. 6 : y3[12 + i] = h3[i]
      BY <2>9 DEF Joins
    <3>2. h3[1] = 50 /\ h3[2] = 4 /\ \A k \in 1 .. 4 : h3[2 + k] = addr[k]
      BY <2>5 DEF Has
    <3>3. ASSUME NEW k \in 1 .. 4 PROVE y3[12 + 2 + k] = addr[k]
      <4>1. 2 + k \in 1 .. 6 /\ 12 + 2 + k = 12 + (2 + k)
        OBVIOUS
      <4>2. QED
        BY <3>1, <3>2, <4>1
    <3>4. QED
      BY <3>1, <3>2, <3>3 DEF Has
  <2>15. Has(y5, 12, 50, 4, addr)
    <3>1. 12 + 1 \in 1 .. 18 /\ 12 + 2 \in 1 .. 18 /\ \A k \in 1 .. 4 : 12 + 2 + k \in 1 .. 18
      OBVIOUS
    <3>2. QED
      BY <2>12, <2>14, <3>1 DEF Has
  <2>16. Asks(y5, addr)
    BY <2>11, <2>12, <2>13, <2>15 DEF Asks
  <2>17. QED
    BY <2>16 DEF y5
<1>12. QED
  BY <1>10, <1>11 DEF Record, o

\* A server finds the address in the options of a request.
LEMMA AddressIsRead ==
  ASSUME NEW addr, Piece(Octet, addr, 4), NEW s, Asks(s, addr),
         NEW o, Begins(o, 24, s)
  PROVE  Leasing!extractIE_raw(o, 50, 4).buf = addr
<1> DEFINE f == Scan(o, 50, 4)
           e == Leasing!extractIE_raw(o, 50, 4)
<1>0. Len(o) = 24 /\ \A i \in 1 .. 24 : o[i] = s[i]
  BY DEF Begins
<1>1. \A i \in 1 .. 24 : o[i] \in Octet
  <2>1. ASSUME NEW i \in 1 .. 24 PROVE s[i] \in Octet
    <3>1. Piece(Octet, s, 24)
      BY DEF Asks
    <3>2. QED
      BY <3>1, Elements
  <2>2. QED
    BY <1>0, <2>1
<1>2. o[1] = 53 /\ o[2] = 1 /\ o[4] = 61 /\ o[5] = 7
  BY <1>0 DEF Asks
<1>3. o[13] = 50 /\ o[14] = 4 /\ \A k \in 1 .. 4 : o[14 + k] = addr[k]
  <2>1. s[13] = 50 /\ s[14] = 4 /\ \A k \in 1 .. 4 : s[12 + 2 + k] = addr[k]
    BY DEF Asks, Has
  <2>2. \A k \in 1 .. 4 : 12 + 2 + k = 14 + k /\ 14 + k \in 1 .. 24
    OBVIOUS
  <2>3. QED
    BY <1>0, <2>1, <2>2
<1>4. Waits(f, 0) /\ Reads(f, o, 50, 4)
  <2>1. Len(o) \in Nat
    BY <1>0
  <2>2. QED
    BY <2>1, ScanStarts
<1> HIDE DEF f
<1>5. Passes(o, 50, 0, 1, 3) /\ Passes(o, 50, 3, 7, 12)
  BY <1>0, <1>2 DEF Passes
<1>6. Waits(f, 3)
  BY <1>0, <1>4, <1>5, SkipElement
<1>7. Waits(f, 12)
  BY <1>0, <1>4, <1>5, <1>6, SkipElement
<1>8. Element(o, 24, 12, 50, 4)
  BY <1>0, <1>1, <1>3 DEF Element
<1>9. Finds(e, o, 24, 12, 4)
  BY <1>7, <1>8, Found DEF f
<1> HIDE DEF e
<1>10. Piece(Octet, e.buf, 4) /\ \A k \in 1 .. 4 : e.buf[k] = o[12 + 2 + k]
  BY <1>9 DEF Finds
<1>11. \A k \in 1 .. 4 : e.buf[k] = addr[k]
  BY <1>3, <1>10
<1>12. e.buf = addr
  BY <1>10, <1>11, SameSeq
<1>13. QED
  BY <1>12 DEF e

\* The request that makeReq() builds carries the client's number and, if it is
\* a REQUEST, the address it was called with.
LEMMA RequestRead ==
  ASSUME NEW type \in {1, 3}, NEW addr, Piece(Octet, addr, 4), NEW capacity,
         Leasing!makeReq(type, addr, capacity).rc > 0
  PROVE  LET p == Leasing!makeReq(type, addr, capacity).packet IN
           /\ p[49] * 256 + p[50] = ReqId
           /\ type = 3 => Leasing!extractIE_raw(Leasing!OptionsOf(p), 50, 4).buf = addr
<1> DEFINE o == Leasing!Options(type, addr, capacity)
           s == o.bytes
           n == Len(s)
           body == Leasing!bootphdr(1, ReqId, Leasing!Zeros(4), Mac) \o s
           udpLen == 8 + Len(body)
           a == Leasing!ipChecksum3(Leasing!IpHdr(20 + udpLen, ReqId, 0), <<>>, <<>>)
           b == Leasing!ipChecksum3(Leasing!PseudoHdr(udpLen), Leasing!UdpHdr(udpLen, 0), body)
           p == Leasing!makeReq(type, addr, capacity).packet
<1>1. o.rc \in Int /\ (o.rc >= 0 => s \in Seq(Octet) /\ (type = 3 => Asks(s, addr)))
  BY OptionBytes
<1>2. o.rc >= 0 /\ p = Leasing!Packet(Mac, ReqId, a, b, body)
  <2>1. Leasing!makeReq(type, addr, capacity)
          = IF o.rc < 0 THEN [rc |-> o.rc, packet |-> <<>>]
            ELSE [rc |-> 14 + 20 + udpLen, packet |-> Leasing!Packet(Mac, ReqId, a, b, body)]
    BY DEF Leasing!makeReq
  <2> HIDE DEF o, s, udpLen, a, b, body
  <2>2. CASE o.rc < 0
    BY <1>1, <2>1, <2>2
  <2>3. CASE ~(o.rc < 0)
    BY <1>1, <2>1, <2>3
  <2>4. QED
    BY <2>2, <2>3
<1> HIDE DEF p, a, b, o
<1>3. Piece(Octet, s, n) /\ n \in Nat
  BY <1>1, <1>2 DEF Piece
<1>4. 1 \in Octet /\ Piece(Octet, Leasing!Zeros(4), 4)
  BY Filled DEF Octet
<1> HIDE DEF s, n
<1>5. Laid(p, ReqId, Leasing!Zeros(4), s, n)
  BY <1>2, <1>3, <1>4, BodyLayout, ClientMac, Numbers
<1>6. p[49] * 256 + p[50] = ReqId
  <2>1. p[49] = ReqId \div 256 /\ p[50] = ReqId % 256
    BY <1>5 DEF Laid
  <2>2. (ReqId \div 256) * 256 + (ReqId % 256) = ReqId
    BY Numbers, ShortBytes
  <2>3. QED
    BY <2>1, <2>2
<1>7. ASSUME type = 3
      PROVE  Leasing!extractIE_raw(Leasing!OptionsOf(p), 50, 4).buf = addr
  <2>1. Asks(s, addr) /\ n = 24
    <3>1. Asks(s, addr)
      BY <1>1, <1>2, <1>7
    <3>2. QED
      BY <1>3, <3>1 DEF Asks, Piece
  <2>2. Cut(p, p, n, n)
    BY <1>3, <1>5, Whole
  <2>3. Shows(p, ReqId, Leasing!Zeros(4), s, n)
    BY <1>3, <1>4, <1>5, <2>2, CutLayout
  <2>4. Begins(Leasing!OptionsOf(p), 24, s)
    BY <2>1, <2>3 DEF Shows
  <2>5. QED
    BY <2>1, <2>4, AddressIsRead
<1>8. QED
  BY <1>6, <1>7 DEF p
-----------------------------------------------------------------------------
(* What the servers answer, and what the client reads of it.                *)

Types == {2, 5}
Numbered == Others \cup {ReqId}

LEMMA OneServer == ASSUME NEW s \in Offers PROVE Piece(Octet, s.addr, 4)
<1>1. s.addr \in Seq(0 .. 255) /\ Len(s.addr) = 4
  BY LinksAssumption, SMTT(20) DEF Leasing!DHCPUtilsAssumption
<1>2. QED
  BY <1>1 DEF Piece, Octet

LEMMA SameServer == ASSUME NEW s \in Offers, NEW t \in Offers, s.addr = t.addr PROVE s = t
BY LinksAssumption, SMTT(20) DEF Leasing!DHCPUtilsAssumption

\* s answers the exchange numbered id, with type, to mac.
Answering(s, id, type, mac) ==
  s \in Offers /\ id \in Numbered /\ type \in Types /\ Piece(Octet, mac, 6)

LEMMA ReplyLaid ==
  ASSUME NEW s, NEW id, NEW type, NEW mac, Answering(s, id, type, mac)
  PROVE  Laid(Leasing!Reply(s, id, type, mac), id, s.addr, Leasing!Answers(s, type), 16)
<1>1. s \in Offers /\ id \in Short /\ type \in Octet /\ 2 \in Octet /\ Piece(Octet, mac, 6)
  BY Numbers DEF Answering, Types, Octet, Numbered
<1>2. Piece(Octet, s.addr, 4) /\ Piece(Octet, Leasing!Full(6), 6)
  BY <1>1, OneServer, Filled
<1>3. Piece(Octet, Leasing!Answers(s, type), 16)
  BY <1>1, AnswersLayout
<1>4. Laid(Leasing!Packet(Leasing!Full(6), id, 0, 0,
                          Leasing!bootphdr(2, id, s.addr, mac) \o Leasing!Answers(s, type)),
           id, s.addr, Leasing!Answers(s, type), 16)
  BY <1>1, <1>2, <1>3, BodyLayout
<1>5. QED
  BY <1>4 DEF Leasing!Reply

LEMMA SameNumber ==
  ASSUME NEW v \in Short, NEW w \in Short, v \div 256 = w \div 256, v % 256 = w % 256
  PROVE  v = w
<1>1. (v \div 256) * 256 + (v % 256) = v /\ (w \div 256) * 256 + (w % 256) = w
  BY ShortBytes
<1>2. QED
  BY <1>1

\* Two answers that are the same packet are the same answer.
LEMMA SameReply ==
  ASSUME NEW s, NEW id, NEW type, NEW mac, Answering(s, id, type, mac),
         NEW t, NEW num, NEW kind, NEW to, Answering(t, num, kind, to),
         Leasing!Reply(s, id, type, mac) = Leasing!Reply(t, num, kind, to)
  PROVE  s = t /\ id = num /\ type = kind
<1> DEFINE p == Leasing!Reply(s, id, type, mac)
<1>1. /\ Laid(p, id, s.addr, Leasing!Answers(s, type), 16)
      /\ Laid(p, num, t.addr, Leasing!Answers(t, kind), 16)
  BY ReplyLaid
<1> HIDE DEF p
<1>2. /\ s \in Offers /\ t \in Offers /\ id \in Short /\ num \in Short
      /\ type \in Octet /\ kind \in Octet
  BY Numbers DEF Answering, Numbered, Types, Octet
<1>3. id = num
  <2>1. id \div 256 = num \div 256 /\ id % 256 = num % 256
    BY <1>1 DEF Laid
  <2>2. QED
    BY <1>2, <2>1, SameNumber
<1>4. type = kind
  <2>1. Leasing!Answers(s, type)[3] = type /\ Leasing!Answers(t, kind)[3] = kind
    BY <1>2, AnswersLayout
  <2>2. p[282 + 3] = Leasing!Answers(s, type)[3] /\ p[282 + 3] = Leasing!Answers(t, kind)[3]
    BY <1>1 DEF Laid
  <2>3. QED
    BY <2>1, <2>2
<1>5. s = t
  <2>1. \A i \in 1 .. 4 : s.addr[i] = t.addr[i]
    BY <1>1 DEF Laid
  <2>2. Piece(Octet, s.addr, 4) /\ Piece(Octet, t.addr, 4)
    BY <1>2, OneServer
  <2>3. s.addr = t.addr
    BY <2>1, <2>2, SameSeq
  <2>4. QED
    BY <1>2, <2>3, SameServer
<1>6. QED
  BY <1>3, <1>4, <1>5

\* q is the packet p, or what one of the cuts leaves of it.
Delivered(q, p) ==
  \/ q = p
  \/ \E k \in {Len(p) - 1, Len(p) - 8, Leasing!Fixed + 3, Leasing!Fixed + 2, Leasing!Fixed, 200} :
       q = First(p, k)

LEMMA CutShows ==
  ASSUME NEW s, NEW id, NEW type, NEW mac, Answering(s, id, type, mac),
         NEW q, Delivered(q, Leasing!Reply(s, id, type, mac)), Len(q) >= 282
  PROVE  \E m \in {0, 2, 3, 8, 15, 16} : Shows(q, id, s.addr, Leasing!Answers(s, type), m)
<1> DEFINE p == Leasing!Reply(s, id, type, mac)
           a == Leasing!Answers(s, type)
<1>1. Laid(p, id, s.addr, a, 16) /\ Delivered(q, p)
  BY ReplyLaid
<1>2. Piece(Octet, s.addr, 4)
  BY OneServer DEF Answering
<1> HIDE DEF p, a
<1>3. PICK V : p \in Seq(V) /\ Len(p) = 298
  <2>1. PICK V : Piece(V, p, 282 + 16)
    BY <1>1 DEF Laid
  <2>2. QED
    BY <2>1 DEF Piece
<1>4. \E m \in {0, 2, 3, 8, 15, 16} : Cut(q, p, 16, m)
  <2>1. CASE q = p
    <3>1. Cut(p, p, 16, 16)
      BY <1>1, Whole
    <3>2. QED
      BY <2>1, <3>1
  <2>2. CASE q # p
    <3>1. PICK k \in {Len(p) - 1, Len(p) - 8, Leasing!Fixed + 3, Leasing!Fixed + 2, Leasing!Fixed, 200} :
            q = First(p, k)
      BY <1>1, <2>2 DEF Delivered
    <3>2. k \in {200, 282, 284, 285, 290, 297}
      BY <1>3, <3>1 DEF Leasing!Fixed
    <3>3. k # 200
      <4> SUFFICES ASSUME k = 200 PROVE FALSE
        OBVIOUS
      <4>1. Len(First(p, 200)) = 200
        BY <1>3 DEF First
      <4>2. q = First(p, 200)
        BY <3>1
      <4>3. Len(q) = 200
        BY <4>1, <4>2
      <4>4. QED
        BY <4>3
    <3>4. k \in {282 + 0, 282 + 2, 282 + 3, 282 + 8, 282 + 15}
      BY <3>2, <3>3
    <3>5. QED
      BY <3>1, <3>4 DEF Cut
  <2>3. QED
    BY <2>1, <2>2
<1>5. PICK m \in {0, 2, 3, 8, 15, 16} : Cut(q, p, 16, m)
  BY <1>4
<1>6. Shows(q, id, s.addr, a, m)
  BY <1>1, <1>2, <1>5, CutLayout
<1>7. QED
  BY <1>6 DEF a

\* An answer that is taken for one of the type want in the client's exchange is
\* one.
LEMMA TakenFor ==
  ASSUME NEW s, NEW id, NEW type, NEW mac, Answering(s, id, type, mac),
         NEW q, NEW m \in {0, 2, 3, 8, 15, 16},
         Shows(q, id, s.addr, Leasing!Answers(s, type), m),
         NEW want, Leasing!TypeError(q, want) = 0
  PROVE  m >= 3 /\ type = want /\ id = ReqId
<1>1. s \in Offers /\ type \in Octet /\ id \in Short
  BY Numbers DEF Answering, Types, Octet, Numbered
<1>2. /\ Leasing!isValidDHCPResponse(q)
      /\ Leasing!extractIE_uint8(Leasing!OptionsOf(q), 53).rc = 0
      /\ Leasing!extractIE_uint8(Leasing!OptionsOf(q), 53).value = want
  <2> DEFINE found1 == Leasing!extractIE_uint8(Leasing!OptionsOf(q), 53)
             good == Leasing!isValidDHCPResponse(q)
  <2>1. Leasing!TypeError(q, want)
          = IF ~good THEN -1 ELSE IF found1.rc # 0 THEN -2 ELSE IF found1.value # want THEN -1 ELSE 0
    BY DEF Leasing!TypeError
  <2> HIDE DEF found1, good
  <2>2. good /\ found1.rc = 0 /\ found1.value = want
    BY <2>1
  <2>3. QED
    BY <2>2 DEF found1, good
<1>3. m >= 3 /\ type = want
  <2>1. Begins(Leasing!OptionsOf(q), m, Leasing!Answers(s, type))
    BY DEF Shows
  <2>2. QED
    BY <1>1, <1>2, <2>1, TypeIsRead
<1>4. id = ReqId
  <2>1. SubSeq(q, 47, 50) = <<0, 0>> \o Leasing!U16(ReqId)
    BY <1>2 DEF Leasing!isValidDHCPResponse
  <2>2. (<<0, 0>> \o Leasing!U16(ReqId))[3] = ReqId \div 256 /\ (<<0, 0>> \o Leasing!U16(ReqId))[4] = ReqId % 256
    BY DEF Leasing!U16
  <2>3. id \div 256 = ReqId \div 256 /\ id % 256 = ReqId % 256
    BY <2>1, <2>2 DEF Shows
  <2>4. QED
    BY <1>1, <2>3, Numbers, SameNumber
<1>5. QED
  BY <1>3, <1>4

\* What else an acknowledgement says.
LEMMA NetworkIsRead ==
  ASSUME NEW s, NEW id, NEW type, NEW mac, Answering(s, id, type, mac),
         NEW q, NEW m \in {3, 8, 15, 16},
         Shows(q, id, s.addr, Leasing!Answers(s, type), m),
         Leasing!extractIE_uint32(Leasing!OptionsOf(q), 3).rc = 0,
         Leasing!extractIE_uint32(Leasing!OptionsOf(q), 1).rc = 0
  PROVE  /\ Leasing!extractIE_uint32(Leasing!OptionsOf(q), 3).value = s.router
         /\ Leasing!extractIE_uint32(Leasing!OptionsOf(q), 1).value = s.mask
<1>1. s \in Offers /\ type \in Octet /\ Begins(Leasing!OptionsOf(q), m, Leasing!Answers(s, type))
  BY DEF Answering, Types, Octet, Shows
<1>2. m >= 9 /\ Leasing!extractIE_uint32(Leasing!OptionsOf(q), 3).value = s.router
  BY <1>1, RouterIsRead
<1>3. m \in {15, 16}
  BY <1>2
<1>4. Leasing!extractIE_uint32(Leasing!OptionsOf(q), 1).value = s.mask
  BY <1>1, <1>3, MaskIsRead
<1>5. QED
  BY <1>2, <1>4
-----------------------------------------------------------------------------
(* The inductive invariant of the lease.                                    *)

\* Every packet on the net is a server's answer, in the client's exchange to
\* the client and in another to somebody else; an acknowledgement is of the
\* address the client asked for, and that is of a server that offered it.
OnNet(p) ==
  \E s \in Offers, type \in Types :
    \/ p = Leasing!Reply(s, ReqId, type, Mac)
    \/ \E id \in Others : p = Leasing!Reply(s, id, type, Leasing!Full(6))
Offered(s) == lease = s.addr /\ Leasing!Reply(s, ReqId, 2, Mac) \in net
LeaseInv ==
  /\ dhcp \in {"discover", "request", "bound"}
  /\ Piece(Octet, lease, 4)
  /\ \A p \in net : OnNet(p)
  /\ \A s \in Offers : Leasing!Reply(s, ReqId, 5, Mac) \in net => dhcp # "discover" /\ lease = s.addr
  /\ dhcp # "discover" => \E s \in Offers : Offered(s)
  /\ LeaseIsOneServers

LEMMA NetAnswers ==
  ASSUME NEW p, OnNet(p)
  PROVE  \E s, id, type, mac : /\ Answering(s, id, type, mac) /\ p = Leasing!Reply(s, id, type, mac)
                               /\ id = ReqId => mac = Mac
<1>1. PICK s \in Offers, type \in Types :
        \/ p = Leasing!Reply(s, ReqId, type, Mac)
        \/ \E id \in Others : p = Leasing!Reply(s, id, type, Leasing!Full(6))
  BY DEF OnNet
<1>2. CASE p = Leasing!Reply(s, ReqId, type, Mac)
  <2>1. Answering(s, ReqId, type, Mac)
    BY ClientMac DEF Answering, Numbered
  <2>2. QED
    BY <1>2, <2>1
<1>3. CASE \E id \in Others : p = Leasing!Reply(s, id, type, Leasing!Full(6))
  <2>1. PICK id \in Others : p = Leasing!Reply(s, id, type, Leasing!Full(6))
    BY <1>3
  <2>2. Answering(s, id, type, Leasing!Full(6))
    BY Filled DEF Answering, Numbered
  <2>3. id # ReqId
    BY Numbers
  <2>4. QED
    BY <2>1, <2>2, <2>3
<1>4. QED
  BY <1>1, <1>2, <1>3

\* The client's own answers are on the net as such.
LEMMA OwnAnswers ==
  ASSUME NEW s \in Offers, NEW type \in Types
  PROVE  Answering(s, ReqId, type, Mac) /\ OnNet(Leasing!Reply(s, ReqId, type, Mac))
BY ClientMac DEF Answering, Numbered, OnNet

LEMMA ArrivingIs ==
  ASSUME NEW q \in Leasing!Arriving
  PROVE  \E p \in net : Delivered(q, p)
<1>1. CASE q \in net
  BY <1>1 DEF Delivered
<1>2. CASE q \notin net
  <2>1. PICK p \in net :
          q \in {SubSeq(p, 1, Len(p) - 1), SubSeq(p, 1, Len(p) - 8), SubSeq(p, 1, Leasing!Fixed + 3),
                 SubSeq(p, 1, Leasing!Fixed + 2), SubSeq(p, 1, Leasing!Fixed), SubSeq(p, 1, 200)}
    BY <1>2, Zenon DEF Leasing!Arriving
  <2>2. Delivered(q, p)
    BY <2>1, Zenon DEF Delivered, First
  <2>3. QED
    BY <2>2
<1>3. QED
  BY <1>1, <1>2

\* What the client takes for a server's answer of the type want is one.
LEMMA TakenIs ==
  ASSUME LeaseInv, NEW q \in Leasing!Arriving, NEW want, Leasing!TypeError(q, want) = 0
  PROVE  \E s \in Offers, m \in {3, 8, 15, 16} :
           /\ Answering(s, ReqId, want, Mac) /\ Leasing!Reply(s, ReqId, want, Mac) \in net
           /\ Shows(q, ReqId, s.addr, Leasing!Answers(s, want), m)
<1>1. PICK p \in net : Delivered(q, p)
  BY ArrivingIs
<1>2. PICK s, id, type, mac :
        /\ Answering(s, id, type, mac) /\ p = Leasing!Reply(s, id, type, mac)
        /\ id = ReqId => mac = Mac
  <2>1. OnNet(p)
    BY DEF LeaseInv
  <2>2. QED
    BY <2>1, NetAnswers
<1>3. Len(q) >= 282
  <2>1. Leasing!isValidDHCPResponse(q)
    BY DEF Leasing!TypeError
  <2>2. QED
    BY <2>1 DEF Leasing!isValidDHCPResponse, Leasing!isResponse, Leasing!Fixed
<1>4. PICK m \in {0, 2, 3, 8, 15, 16} : Shows(q, id, s.addr, Leasing!Answers(s, type), m)
  BY <1>1, <1>2, <1>3, CutShows
<1>5. m >= 3 /\ type = want /\ id = ReqId
  BY <1>2, <1>4, TakenFor
<1>6. s \in Offers /\ m \in {3, 8, 15, 16}
  BY <1>2, <1>5 DEF Answering
<1>7. /\ Answering(s, ReqId, want, Mac) /\ Leasing!Reply(s, ReqId, want, Mac) \in net
      /\ Shows(q, ReqId, s.addr, Leasing!Answers(s, want), m)
  BY <1>1, <1>2, <1>4, <1>5
<1>8. QED
  BY <1>6, <1>7

LEMMA LeaseStarts == Leasing!Init => LeaseInv
<1> SUFFICES ASSUME Leasing!Init PROVE LeaseInv
  OBVIOUS
<1>1. dhcp = "discover" /\ lease = Leasing!Zeros(4) /\ net = {}
  BY DEF Leasing!Init
<1>2. Piece(Octet, lease, 4)
  BY <1>1, Filled
<1>3. LeaseIsOneServers
  BY <1>1 DEF LeaseIsOneServers, Leasing!LeaseIsOneServers
<1>4. QED
  BY <1>1, <1>2, <1>3 DEF LeaseInv

\* An answer is sent.
LEMMA NetGrows ==
  ASSUME LeaseInv, UNCHANGED <<dhcp, lease, router, mask>>, NEW p, OnNet(p), net' = net \cup {p},
         \A s \in Offers : p = Leasing!Reply(s, ReqId, 5, Mac) => dhcp # "discover" /\ lease = s.addr
  PROVE  LeaseInv'
<1>1. dhcp' \in {"discover", "request", "bound"} /\ Piece(Octet, lease', 4)
  BY DEF LeaseInv
<1>2. \A x \in net' : OnNet(x)
  BY DEF LeaseInv
<1>3. \A s \in Offers :
        Leasing!Reply(s, ReqId, 5, Mac) \in net' => dhcp' # "discover" /\ lease' = s.addr
  BY DEF LeaseInv
<1>4. dhcp' # "discover" => \E s \in Offers : Offered(s)'
  BY DEF LeaseInv, Offered
<1>5. LeaseIsOneServers'
  BY Zenon DEF LeaseInv, LeaseIsOneServers, Leasing!LeaseIsOneServers
<1>6. QED
  BY <1>1, <1>2, <1>3, <1>4, <1>5 DEF LeaseInv

LEMMA LeaseSame ==
  ASSUME LeaseInv, UNCHANGED <<dhcp, lease, router, mask, net>>
  PROVE  LeaseInv'
BY Zenon DEF LeaseInv, Offered, LeaseIsOneServers, Leasing!LeaseIsOneServers

\* A server answers the client's request.
LEMMA Hears ==
  ASSUME LeaseInv, UNCHANGED <<dhcp, lease, router, mask>>,
         NEW type \in {1, 3}, NEW addr, Piece(Octet, addr, 4), NEW capacity, NEW want \in Types,
         want = 5 => type = 3 /\ addr = lease /\ dhcp # "discover",
         Leasing!ServerHears(Leasing!makeReq(type, addr, capacity), want)
  PROVE  LeaseInv'
<1> DEFINE made == Leasing!makeReq(type, addr, capacity)
           number == made.packet[49] * 256 + made.packet[50]
           heard == Leasing!extractIE_raw(Leasing!OptionsOf(made.packet), 50, 4).buf
<1>1. PICK s \in Offers : /\ made.rc > 0 /\ (want = 5 => heard = s.addr)
                          /\ net' = net \cup {Leasing!Reply(s, number, want, Mac)}
  BY Zenon DEF Leasing!ServerHears, Leasing!Sent
<1>2. number = ReqId /\ (type = 3 => heard = addr)
  BY <1>1, RequestRead
<1> HIDE DEF made, number, heard
<1> DEFINE p == Leasing!Reply(s, ReqId, want, Mac)
<1>3. net' = net \cup {p}
  BY <1>1, <1>2
<1>4. Answering(s, ReqId, want, Mac) /\ OnNet(p)
  BY OwnAnswers
<1>5. ASSUME NEW t \in Offers, p = Leasing!Reply(t, ReqId, 5, Mac)
      PROVE  dhcp # "discover" /\ lease = t.addr
  <2>1. 5 \in Types
    BY DEF Types
  <2>2. Answering(t, ReqId, 5, Mac)
    BY <2>1, OwnAnswers
  <2>3. s = t /\ want = 5
    BY <1>4, <1>5, <2>2, SameReply
  <2>4. QED
    BY <1>1, <1>2, <2>3
<1> HIDE DEF p
<1>6. QED
  BY <1>3, <1>4, <1>5, NetGrows

LEMMA MakesDISCOVER == LeaseInv /\ Leasing!makeDISCOVER => LeaseInv'
<1> SUFFICES ASSUME LeaseInv, Leasing!makeDISCOVER PROVE LeaseInv'
  OBVIOUS
<1>1. UNCHANGED <<dhcp, lease, router, mask>>
  BY DEF Leasing!makeDISCOVER
<1>2. PICK capacity \in Buffers :
        \/ UNCHANGED net
        \/ Leasing!ServerHears(Leasing!makeReq(1, Leasing!Zeros(4), capacity), 2)
  BY Zenon DEF Leasing!makeDISCOVER
<1>3. CASE UNCHANGED net
  BY <1>1, <1>3, LeaseSame
<1>4. CASE Leasing!ServerHears(Leasing!makeReq(1, Leasing!Zeros(4), capacity), 2)
  <2>1. 1 \in {1, 3} /\ 2 \in Types /\ 2 # 5
    BY DEF Types
  <2>2. Piece(Octet, Leasing!Zeros(4), 4)
    BY Filled
  <2>3. QED
    BY <1>1, <1>4, <2>1, <2>2, Hears
<1>5. QED
  BY <1>2, <1>3, <1>4

LEMMA MakesREQUEST == LeaseInv /\ Leasing!makeREQUEST => LeaseInv'
<1> SUFFICES ASSUME LeaseInv, Leasing!makeREQUEST PROVE LeaseInv'
  OBVIOUS
<1>1. UNCHANGED <<dhcp, lease, router, mask>> /\ dhcp = "request"
  BY DEF Leasing!makeREQUEST
<1>2. PICK capacity \in Buffers :
        \/ UNCHANGED net
        \/ Leasing!ServerHears(Leasing!makeReq(3, lease, capacity), 5)
  BY Zenon DEF Leasing!makeREQUEST
<1>3. CASE UNCHANGED net
  BY <1>1, <1>3, LeaseSame
<1>4. CASE Leasing!ServerHears(Leasing!makeReq(3, lease, capacity), 5)
  <2>1. 3 \in {1, 3} /\ 5 \in Types /\ dhcp # "discover"
    BY <1>1 DEF Types
  <2>2. Piece(Octet, lease, 4)
    BY DEF LeaseInv
  <2>3. QED
    BY <1>1, <1>4, <2>1, <2>2, Hears
<1>5. QED
  BY <1>2, <1>3, <1>4

LEMMA OthersExchange == LeaseInv /\ Leasing!OtherExchange => LeaseInv'
<1> SUFFICES ASSUME LeaseInv, Leasing!OtherExchange PROVE LeaseInv'
  OBVIOUS
<1>1. UNCHANGED <<dhcp, lease, router, mask>>
  BY DEF Leasing!OtherExchange
<1>2. PICK id \in Others, s \in Offers, type \in {2, 5} :
        net' = net \cup {Leasing!Reply(s, id, type, Leasing!Full(6))}
  BY Zenon DEF Leasing!OtherExchange, Leasing!Sent
<1> DEFINE p == Leasing!Reply(s, id, type, Leasing!Full(6))
<1>3. OnNet(p)
  BY DEF OnNet, Types
<1>4. Answering(s, id, type, Leasing!Full(6)) /\ id # ReqId
  BY Filled, Numbers DEF Answering, Numbered, Types
<1>5. ASSUME NEW t \in Offers, p = Leasing!Reply(t, ReqId, 5, Mac) PROVE FALSE
  <2>1. 5 \in Types
    BY DEF Types
  <2>2. Answering(t, ReqId, 5, Mac)
    BY <2>1, OwnAnswers
  <2>3. QED
    BY <1>4, <1>5, <2>2, SameReply
<1>6. net' = net \cup {p}
  BY <1>2
<1> HIDE DEF p
<1>7. QED
  BY <1>1, <1>3, <1>5, <1>6, NetGrows

LEMMA ParsesOFFER == LeaseInv /\ Leasing!parseOFFER => LeaseInv'
<1> SUFFICES ASSUME LeaseInv, Leasing!parseOFFER PROVE LeaseInv'
  OBVIOUS
<1>1. dhcp = "discover" /\ UNCHANGED <<router, mask, net>>
  BY DEF Leasing!parseOFFER
<1>2. PICK q \in Leasing!Arriving :
        /\ lease' = IF Leasing!TypeError(q, 2) = 0 THEN SubSeq(q, 59, 62) ELSE lease
        /\ dhcp' = IF Leasing!TypeError(q, 2) = 0 THEN "request" ELSE dhcp
  BY Zenon DEF Leasing!parseOFFER
<1>3. CASE Leasing!TypeError(q, 2) # 0
  BY <1>1, <1>2, <1>3, LeaseSame
<1>4. CASE Leasing!TypeError(q, 2) = 0
  <2>1. PICK s \in Offers, m \in {3, 8, 15, 16} :
          /\ Answering(s, ReqId, 2, Mac) /\ Leasing!Reply(s, ReqId, 2, Mac) \in net
          /\ Shows(q, ReqId, s.addr, Leasing!Answers(s, 2), m)
    BY <1>4, TakenIs
  <2>2. dhcp' = "request" /\ lease' = s.addr
    BY <1>2, <1>4, <2>1 DEF Shows
  <2>3. \A t \in Offers : Leasing!Reply(t, ReqId, 5, Mac) \notin net
    BY <1>1 DEF LeaseInv
  <2>4. Piece(Octet, lease', 4)
    BY <2>2, OneServer
  <2>5. Offered(s)'
    BY <1>1, <2>1, <2>2 DEF Offered
  <2>6. LeaseIsOneServers'
    BY <2>2 DEF LeaseIsOneServers, Leasing!LeaseIsOneServers
  <2>7. \A p \in net' : OnNet(p)
    BY <1>1 DEF LeaseInv
  <2>8. QED
    BY <1>1, <2>2, <2>3, <2>4, <2>5, <2>6, <2>7 DEF LeaseInv
<1>5. QED
  BY <1>3, <1>4

LEMMA ParsesACK == LeaseInv /\ Leasing!parseACK => LeaseInv'
<1> SUFFICES ASSUME LeaseInv, Leasing!parseACK PROVE LeaseInv'
  OBVIOUS
<1> DEFINE Error(q) == Leasing!TypeError(q, 5)
           Gateway(q) == Leasing!extractIE_uint32(Leasing!OptionsOf(q), 3)
           Netmask(q) == Leasing!extractIE_uint32(Leasing!OptionsOf(q), 1)
<1>1. dhcp = "request" /\ UNCHANGED <<lease, net>>
  BY DEF Leasing!parseACK
<1>2. PICK q \in Leasing!Arriving :
        /\ rc' = IF Error(q) # 0 THEN Error(q)
                 ELSE IF Gateway(q).rc # 0 \/ Netmask(q).rc # 0 THEN -2 ELSE 0
        /\ router' = IF Error(q) = 0 /\ Gateway(q).rc = 0 THEN Gateway(q).value ELSE router
        /\ mask' = IF rc' = 0 THEN Netmask(q).value ELSE mask
        /\ dhcp' = IF rc' = 0 THEN "bound" ELSE dhcp
  BY Zenon DEF Leasing!parseACK
<1>3. LeaseIsOneServers'
  <2> SUFFICES ASSUME dhcp' = "bound" PROVE LeaseIsOneServers'
    BY DEF LeaseIsOneServers, Leasing!LeaseIsOneServers
  <2>1. rc' = 0
    BY <1>1, <1>2
  <2>2. Error(q) = 0 /\ Gateway(q).rc = 0 /\ Netmask(q).rc = 0
    <3> HIDE DEF Error, Gateway, Netmask
    <3>1. QED
      BY <1>2, <2>1
  <2>3. router' = Gateway(q).value /\ mask' = Netmask(q).value
    <3> HIDE DEF Error, Gateway, Netmask
    <3>1. QED
      BY <1>2, <2>1, <2>2
  <2>4. PICK s \in Offers, m \in {3, 8, 15, 16} :
          /\ Answering(s, ReqId, 5, Mac) /\ Leasing!Reply(s, ReqId, 5, Mac) \in net
          /\ Shows(q, ReqId, s.addr, Leasing!Answers(s, 5), m)
    BY <2>2, TakenIs
  <2>5. Gateway(q).value = s.router /\ Netmask(q).value = s.mask
    BY <2>2, <2>4, NetworkIsRead
  <2>6. lease = s.addr
    BY <2>4 DEF LeaseInv
  <2>7. PICK t \in Offers : Offered(t)
    BY <1>1 DEF LeaseInv
  <2>8. s = t
    BY <2>6, <2>7, SameServer DEF Offered
  <2>9. \A type \in {2, 5} : Leasing!Reply(s, ReqId, type, Mac) \in net
    BY <2>4, <2>7, <2>8 DEF Offered
  <2>10. lease' = s.addr /\ router' = s.router /\ mask' = s.mask
    BY <1>1, <2>3, <2>5, <2>6
  <2>11. QED
    BY <1>1, <2>9, <2>10 DEF LeaseIsOneServers, Leasing!LeaseIsOneServers
<1>4. dhcp' \in {"request", "bound"} /\ dhcp' # "discover"
  BY <1>1, <1>2
<1>5. Piece(Octet, lease', 4) /\ \A p \in net' : OnNet(p)
  BY <1>1 DEF LeaseInv
<1>6. \A s \in Offers :
        Leasing!Reply(s, ReqId, 5, Mac) \in net' => dhcp' # "discover" /\ lease' = s.addr
  BY <1>1, <1>4 DEF LeaseInv
<1>7. \E s \in Offers : Offered(s)'
  BY <1>1 DEF LeaseInv, Offered
<1>8. QED
  BY <1>3, <1>4, <1>5, <1>6, <1>7 DEF LeaseInv

\* LeaseInv is inductive.
LEMMA LeaseInductive ==
  LeaseInv /\ [Leasing!Next]_(Leasing!vars) => LeaseInv'
<1> SUFFICES ASSUME LeaseInv, [Leasing!Next]_(Leasing!vars) PROVE LeaseInv'
  OBVIOUS
<1>1. CASE UNCHANGED Leasing!vars
  <2>1. UNCHANGED <<dhcp, lease, router, mask, net>>
    BY <1>1 DEF Leasing!vars
  <2>2. QED
    BY <2>1, LeaseSame
<1>2. CASE Leasing!Next
  BY <1>2, MakesDISCOVER, MakesREQUEST, OthersExchange, ParsesOFFER, ParsesACK DEF Leasing!Next
<1>3. QED
  BY <1>1, <1>2

\* A client that is bound has an address, a router and a mask that one server
\* gave it in its own exchange (parseOFFER(), parseACK(), makeREQUEST()), for
\* any servers, any addresses, any transaction numbers and any buffer sizes.
THEOREM LeaseIsOneServersTheorem ==
  Leasing!Spec => []LeaseIsOneServers
<1>1. LeaseInv => LeaseIsOneServers
  BY DEF LeaseInv
<1>2. QED
  BY LeaseStarts, LeaseInductive, <1>1, PTL DEF Leasing!Spec
=============================================================================
