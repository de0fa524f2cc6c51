-------------------------- MODULE SWDDriver_proofs --------------------------
(***************************************************************************)
(* The data line of the debug link has one driver, for every memory size,  *)
(* increment range, set of blocks, and number of operations and faults.    *)
(* LineOwnership is inductive once it is known who holds the line in the   *)
(* two phases in which the target may drive it: IInv adds that.            *)
(***************************************************************************)
EXTENDS SWDDriver, TLAPS

Phases == {"idle", "request", "ack", "data"}

\* The host has let go in the acknowledgement, and in the data phase it holds
\* the line exactly if the word is its own.
HostHolds ==
  /\ phase = "ack" => ~held
  /\ phase = "data" => (held <=> ~tx.rd)

IInv == phase \in Phases /\ held \in BOOLEAN /\ HostHolds /\ LineOwnership

\* After a transaction that worked comes the next one, or the call returns.
LEMMA AdvanceKeeps ==
  ASSUME NEW word, Advance(word)
  PROVE  phase' \in {"idle", "request"}
BY DEF Advance, Return

\* Whatever the error code of a transaction, a failure is not reported as 0.
LEMMA FailCode ==
  ASSUME NEW code \in Int \ {0}, Fail(code)
  PROVE  phase' = "idle" /\ out'.code # 0 /\ UNCHANGED <<op, pc>>
BY DEF Fail, Return

LEMMA BeginKeeps ==
  ASSUME IInv, NEW call, Begin(call)
  PROVE  IInv'
BY DEF IInv, Phases, HostHolds, LineOwnership, Begin, TargetDrives

LEMMA StepKeeps == IInv /\ [Next]_vars => IInv'
<1> SUFFICES ASSUME IInv, [Next]_vars PROVE IInv'
  OBVIOUS
<1>1. CASE connect
  BY <1>1, BeginKeeps DEF connect
<1>2. CASE Operate
  BY <1>2, BeginKeeps DEF Operate
<1>3. CASE Request
  BY <1>3 DEF Request, IInv, Phases, HostHolds, LineOwnership, TargetDrives, tx
<1>4. CASE AckGood
  BY <1>4 DEF AckGood, IInv, Phases, HostHolds, LineOwnership, TargetDrives, tx
<1>5. CASE AckBad
  BY <1>5, FailCode DEF AckBad, IInv, Phases, HostHolds, LineOwnership, TargetDrives
<1>6. CASE WriteData
  <2>1. held /\ held' /\ Advance(got)
    BY <1>6 DEF WriteData, IInv, HostHolds
  <2>2. phase' \in {"idle", "request"}
    BY <2>1, AdvanceKeeps
  <2>3. QED
    BY <2>1, <2>2 DEF IInv, Phases, HostHolds, LineOwnership, TargetDrives
<1>7. CASE ReadWord
  <2>1. PICK b \in 0 .. (IF faults < MaxFaults THEN 3 ELSE 0) :
          LET seen == Arrives(ReadData(target, tx), b) IN
            IF ParityError(seen[1], seen[2])
            THEN Fail(-2) /\ UNCHANGED <<held, got, apId>>
            ELSE /\ held' = TRUE
                 /\ IF op.fn = "connect" /\ pc = 6 /\ seen[1] # <<1, 1>>
                    THEN Return(-7, got) ELSE Advance(seen[1])
    BY <1>7 DEF ReadWord
  <2> DEFINE seen == Arrives(ReadData(target, tx), b)
  <2> HIDE DEF seen
  <2>2. CASE ParityError(seen[1], seen[2])
    <3>1. Fail(-2) /\ held' = held /\ phase = "data" /\ tx.rd
      BY <1>7, <2>1, <2>2 DEF ReadWord, seen
    <3>2. phase' = "idle" /\ out'.code # 0 /\ tx' = tx
      BY <3>1, FailCode DEF tx
    <3>3. QED
      BY <3>1, <3>2 DEF IInv, Phases, HostHolds, LineOwnership, TargetDrives
  <2>3. CASE ~ParityError(seen[1], seen[2])
    <3>1. held' = TRUE /\ (Return(-7, got) \/ Advance(seen[1]))
      BY <2>1, <2>3 DEF seen
    <3>2. phase' \in {"idle", "request"}
      BY <3>1, AdvanceKeeps DEF Return
    <3>3. QED
      BY <3>1, <3>2 DEF IInv, Phases, HostHolds, LineOwnership, TargetDrives
  <2>4. QED
    BY <2>2, <2>3
<1>8. CASE PowerUp \/ UNCHANGED vars
  <2>1. UNCHANGED <<hostVars, reply, pre>>
    BY <1>8 DEF PowerUp, vars
  <2>2. QED
    BY <2>1 DEF hostVars, IInv, Phases, HostHolds, LineOwnership, TargetDrives, tx
<1>9. QED
  BY <1>1, <1>2, <1>3, <1>4, <1>5, <1>6, <1>7, <1>8 DEF Next

-----------------------------------------------------------------------------
\* Host and target never drive the data line together, in no phase of any
\* transaction and after no fault, and only the first transaction of a call
\* finds it released (_read(), _write(), _holdDIO(), _releaseDIO()).
THEOREM LineTheorem == Spec => []LineOwnership
<1>1. Init => IInv
  BY DEF Init, IInv, Phases, HostHolds, LineOwnership, TargetDrives
<1>2. IInv => LineOwnership
  BY DEF IInv
<1>3. QED
  BY <1>1, <1>2, StepKeeps, PTL DEF Spec

-----------------------------------------------------------------------------
(***************************************************************************)
(* What the calls of SWDDriver leave in memory and return, for every       *)
(* memory size, increment range, set of blocks, and number of operations   *)
(* and faults.  Everything rests on one thing (NoErrorPending): a target   *)
(* that acknowledges an access has no error pending, so that the access    *)
(* before it, whose fate the host could not see, was carried out.          *)
(***************************************************************************)

Busy == phase # "idle"
IsWrite(o) == o.fn \in {"writeWord", "writeMultiWord"}
IsConnect(o) == o.fn = "connect"

Connecting == [fn |-> "connect", addr |-> 0, data |-> <<>>]
Nothing == [fn |-> "none", addr |-> 0, data |-> <<>>]

Fields == {"deaf", "sel", "sticky", "status", "bank", "inc", "tar", "buf", "mem"}

\* The target keeps its registers, and its memory its size.
TargetOK == DOMAIN target = Fields /\ target.mem = [a \in Addr |-> target.mem[a]]

\* The call in progress is one the model makes, at one of its transactions.
CallOK ==
  /\ op \in Calls \cup {Connecting, Nothing}
  /\ pre.faults \in Nat /\ faults \in Nat /\ faults >= pre.faults
  /\ Busy => op # Nothing /\ pc \in 1 .. Len(Script(op))

\* A data phase follows an acknowledgement, and an acknowledgement means that
\* the target did not refuse the access.
NoErrorPending ==
  /\ phase = "data" => reply = "ok" \/ tx.ign
  /\ phase \in {"ack", "data"} /\ reply = "ok" => ~Refuses(target, tx)

\* Calls are made with the registers of the AP selected.
BankSelected ==
  /\ ready => target.bank = 0
  /\ Busy => (ready <=> ~IsConnect(op))
  /\ Busy /\ IsConnect(op) /\ pc = 11 => target.bank = 0 \/ target.sticky

\* The accesses of a read, of which the last fetches what the one before found.
Reading ==
  Busy /\ IsRead(op) =>
    /\ pc = 2 => target.sticky \/ target.tar = WordAddr(op)
    /\ pc = 3 => target.buf = target.mem[WordAddr(op)]

\* The words whose turn has come are written, but for the last one, of which
\* there is then an error pending.
Writing ==
  Busy /\ IsWrite(op) =>
    LET k == (pc - 1) \div 2 IN
      /\ target.mem = Stored(k) \/ (k > 0 /\ target.sticky /\ target.mem = Stored(k - 1))
      /\ pc % 2 = 0 => target.sticky \/ target.tar = op.addr + k
      /\ pc % 2 = 0 /\ op.fn = "writeMultiWord" => last_tar_addr = op.addr + k

\* As long as nothing goes wrong, a connect() that starts with the line in its
\* hands has the target's ear, and no error is pending once it is cleared.
Connects ==
  Busy /\ IsConnect(op) /\ faults = pre.faults /\ pre.held =>
    /\ ~target.deaf /\ (phase = "request" => held)
    /\ pc > 1 => target.sel
    /\ pc > 3 => ~target.sticky
    /\ phase \in {"ack", "data"} => reply = (IF pc = 1 THEN "taken" ELSE "ok")

Outcomes == WritesAPrefix /\ ReadIsTrue /\ ReconnectWorks

AInv ==
  /\ IInv /\ TargetOK /\ CallOK /\ NoErrorPending /\ BankSelected
  /\ Reading /\ Writing /\ Connects /\ Outcomes
-----------------------------------------------------------------------------
(* The scripts.                                                            *)

LEMMA CallFields ==
  ASSUME NEW o \in Calls
  PROVE  /\ IsRead(o) \/ IsWrite(o)
         /\ o # Connecting /\ o # Nothing /\ ~IsConnect(o)
         /\ IsRead(o) => WordAddr(o) \in Addr
         /\ IsWrite(o) => /\ o.addr \in Addr /\ o.data \in Seq(Word) /\ Len(o.data) > 0
                           /\ o.addr + Len(o.data) <= NWords
<1> USE SWDDriverAssumption DEF IsRead, IsWrite, IsConnect, Connecting, Nothing, WordAddr, Addr
<1>1. CASE o \in [fn : {"readWord"}, addr : Addr, data : {<<>>}]
  BY <1>1
<1>2. CASE o \in [fn : {"readHalfWord"}, addr : 0 .. 2 * NWords - 1, data : {<<>>}]
  BY <1>2
<1>3. CASE o \in [fn : {"writeWord"}, addr : Addr, data : {<<w>> : w \in Word}]
  <2>1. PICK w \in Word : o.data = <<w>>
    BY <1>3
  <2>2. o.data \in Seq(Word) /\ Len(o.data) = 1
    BY <2>1
  <2>3. QED
    BY <1>3, <2>2
<1>4. CASE o \in {c \in [fn : {"writeMultiWord"}, addr : Addr, data : Blocks] :
                    c.addr + Len(c.data) <= NWords}
  <2>1. o.data \in Seq(Word) /\ o.data # <<>>
    BY <1>4
  <2>2. Len(o.data) > 0
    BY <2>1
  <2>3. QED
    BY <1>4, <2>1, <2>2
<1>5. QED
  BY <1>1, <1>2, <1>3, <1>4 DEF Calls

LEMMA ReadScript ==
  ASSUME NEW o, IsRead(o)
  PROVE  /\ Len(Script(o)) = 3
         /\ Script(o)[1] = TAR(WordAddr(o))
         /\ Script(o)[2] = readAP(12, 0) /\ Script(o)[3] = readDP(12, 0)
BY DEF Script, IsRead, WordAddr, FetchDRW

LEMMA WriteScript ==
  ASSUME NEW o, IsWrite(o), o.data \in Seq(Word)
  PROVE  /\ Len(Script(o)) = 2 * Len(o.data)
         /\ \A k \in 1 .. 2 * Len(o.data) :
              Script(o)[k] = IF k % 2 = 1 THEN TAR(o.addr + (k - 1) \div 2)
                                          ELSE DRW(o.data[k \div 2])
BY DEF Script, IsWrite, writeScript

LEMMA ConnectScript ==
  ASSUME NEW o, IsConnect(o)
  PROVE  /\ Script(o) = connectScript
         /\ Len(Script(o)) = 11
BY DEF Script, IsConnect, connectScript

\* Two addresses in a row are never the same modulo the increment range.
LEMMA NextDiffers ==
  ASSUME NEW a \in Nat
  PROVE  (a + 1) % IncRange # a % IncRange
<1> DEFINE d == (a + 1) \div IncRange - a \div IncRange
<1>1. IncRange \in Nat /\ IncRange > 1
  BY SWDDriverAssumption
<1>2. /\ a = IncRange * (a \div IncRange) + (a % IncRange)
      /\ a + 1 = IncRange * ((a + 1) \div IncRange) + ((a + 1) % IncRange)
      /\ a \div IncRange \in Int /\ (a + 1) \div IncRange \in Int
      /\ a % IncRange \in Int /\ (a + 1) % IncRange \in Int
  BY <1>1
<1>3. d \in Int /\ IncRange * d # 1
  <2>1. d \in Int
    BY <1>2
  <2>2. CASE d <= 0
    BY <1>1, <2>1, <2>2
  <2>3. CASE d >= 1
    BY <1>1, <2>1, <2>3
  <2>4. QED
    BY <2>1, <2>2, <2>3
<1>4. QED
  BY <1>1, <1>2, <1>3

LEMMA ScriptStarts ==
  ASSUME NEW o \in Calls \cup {Connecting}
  PROVE  Len(Script(o)) \in Nat \ {0}
<1>1. CASE o = Connecting
  <2>1. IsConnect(o)
    BY <1>1 DEF Connecting, IsConnect
  <2>2. QED
    BY <2>1, ConnectScript
<1>2. CASE o \in Calls /\ IsRead(o)
  BY <1>2, ReadScript
<1>3. CASE o \in Calls /\ IsWrite(o)
  <2>1. o.data \in Seq(Word) /\ Len(o.data) > 0 /\ Len(o.data) \in Nat
    BY <1>3, CallFields
  <2>2. QED
    BY <1>3, <2>1, WriteScript
<1>4. QED
  BY <1>1, <1>2, <1>3, CallFields

\* The transaction of a read, of a write and of a connect().
LEMMA ReadTx ==
  ASSUME CallOK, Busy, IsRead(op)
  PROVE  /\ op \in Calls /\ Len(Script(op)) = 3 /\ pc \in 1 .. 3
         /\ ~tx.ign /\ tx.err = 0
         /\ pc = 1 => tx = TAR(WordAddr(op))
         /\ pc = 2 => tx = readAP(12, 0)
         /\ pc = 3 => tx = readDP(12, 0)
<1>1. op \in Calls
  BY DEF CallOK, IsRead, Connecting, Nothing
<1>2. Len(Script(op)) = 3 /\ pc \in 1 .. 3
  BY ReadScript DEF CallOK
<1>3. /\ pc = 1 => tx = TAR(WordAddr(op))
      /\ pc = 2 => tx = readAP(12, 0)
      /\ pc = 3 => tx = readDP(12, 0)
  BY ReadScript DEF tx
<1>4. ~tx.ign /\ tx.err = 0
  BY <1>2, <1>3 DEF TAR, writeAP, readAP, readDP, Tx
<1>5. QED
  BY <1>1, <1>2, <1>3, <1>4

LEMMA WriteTx ==
  ASSUME CallOK, Busy, IsWrite(op), NEW k, k = (pc - 1) \div 2
  PROVE  /\ op \in Calls /\ Len(Script(op)) = 2 * Len(op.data)
         /\ op.addr \in Addr /\ Len(op.data) \in Nat
         /\ op.addr + Len(op.data) <= NWords
         /\ pc \in 1 .. 2 * Len(op.data) /\ k \in 0 .. Len(op.data) - 1
         /\ ~tx.ign /\ tx.err = 0
         /\ pc % 2 = 1 => pc = 2 * k + 1 /\ tx = TAR(op.addr + k)
         /\ pc % 2 = 0 => pc = 2 * k + 2 /\ tx = DRW(op.data[k + 1])
<1>1. op \in Calls
  BY DEF CallOK, IsWrite, Connecting, Nothing
<1>2. /\ op.addr \in Addr /\ op.data \in Seq(Word) /\ Len(op.data) > 0
      /\ op.addr + Len(op.data) <= NWords /\ Len(op.data) \in Nat
  BY <1>1, CallFields
<1>3. Len(Script(op)) = 2 * Len(op.data) /\ pc \in 1 .. 2 * Len(op.data)
  BY <1>2, WriteScript DEF CallOK
<1>4. /\ k \in 0 .. Len(op.data) - 1
      /\ pc % 2 = 1 => pc = 2 * k + 1
      /\ pc % 2 = 0 => pc = 2 * k + 2 /\ pc \div 2 = k + 1
  BY <1>2, <1>3
<1>5. tx = IF pc % 2 = 1 THEN TAR(op.addr + (pc - 1) \div 2) ELSE DRW(op.data[pc \div 2])
  BY <1>2, <1>3, WriteScript DEF tx
<1>6. /\ pc % 2 = 1 => tx = TAR(op.addr + k)
      /\ pc % 2 = 0 => tx = DRW(op.data[k + 1])
  <2>1. CASE pc % 2 = 1
    BY <1>5, <2>1
  <2>2. CASE pc % 2 = 0
    BY <1>4, <1>5, <2>2
  <2>3. QED
    BY <1>3, <2>1, <2>2
<1>7. ~tx.ign /\ tx.err = 0
  BY <1>5 DEF TAR, DRW, writeAP, Tx
<1>8. QED
  BY <1>1, <1>2, <1>3, <1>4, <1>6, <1>7

LEMMA ConnectTx ==
  ASSUME CallOK, Busy, IsConnect(op)
  PROVE  /\ Len(Script(op)) = 11 /\ pc \in 1 .. 11
         /\ tx.ign <=> pc = 1
         /\ tx.rd <=> pc \in {2, 6, 8, 9}
         /\ tx.ap <=> pc \in {8, 11}
         /\ pc = 1 => tx.a = 12
         /\ pc \in {2, 3, 11} => tx.a = 0
         /\ pc \in {4, 7, 10} => tx.a = 8
         /\ pc = 10 => tx.d = 0
         /\ pc \in {5, 6} => tx.a = 4
<1>1. Len(Script(op)) = 11 /\ pc \in 1 .. 11 /\ tx = connectScript[pc]
  BY ConnectScript DEF CallOK, tx
<1>2. QED
  BY <1>1 DEF connectScript, readDP, writeDP, readAP, writeAP, Tx

\* Every word of a block is written at an address that is set for it.
LEMMA AfterIsNext ==
  ASSUME CallOK, Busy, Writing
  PROVE  After = pc + 1
<1>1. CASE op.fn # "writeMultiWord" \/ pc % 2 # 0
  BY <1>1 DEF After
<1>2. CASE op.fn = "writeMultiWord" /\ pc % 2 = 0
  <2> DEFINE k == (pc - 1) \div 2
  <2>1. IsWrite(op)
    BY <1>2 DEF IsWrite
  <2>2. /\ op.addr \in Addr /\ k \in Nat /\ pc = 2 * k + 2
    BY <1>2, <2>1, WriteTx
  <2>3. last_tar_addr = op.addr + k /\ pc \div 2 = k + 1
    BY <1>2, <2>1, <2>2 DEF Writing
  <2>4. Rewrite(op.addr + pc \div 2)
    <3> HIDE DEF k
    <3>1. op.addr + k \in Nat /\ op.addr + (k + 1) = (op.addr + k) + 1
      BY <2>2, SWDDriverAssumption DEF Addr
    <3>2. QED
      BY <2>3, <3>1, NextDiffers DEF Rewrite
  <2>5. QED
    BY <2>4 DEF After
<1>3. QED
  BY <1>1, <1>2

\* What follows a transaction that worked, and one that did not.
LEMMA AdvanceTo ==
  ASSUME CallOK, Busy, Writing, NEW word, Advance(word)
  PROVE  /\ op' = op
         /\ \/ /\ pc = Len(Script(op)) /\ phase' = "idle" /\ pc' = pc
               /\ out'.code = 0 /\ out'.value = Value(op, word)
               /\ (ready' <=> IsConnect(op) \/ ready)
            \/ pc # Len(Script(op)) /\ phase' = "request" /\ pc' = pc + 1 /\ (ready' <=> ready)
<1>1. CASE pc = Len(Script(op))
  <2>1. Return(0, word)
    BY <1>1, Zenon DEF Advance
  <2>2. op' = op /\ pc' = pc /\ phase' = "idle"
    BY <2>1, Zenon DEF Return
  <2>3. out' = [code |-> 0, value |-> Value(op, word)]
    BY <2>1 DEF Return
  <2>4. ready' <=> IsConnect(op) \/ ready
    BY <2>1 DEF Return, IsConnect
  <2>5. QED
    BY <1>1, <2>2, <2>3, <2>4
<1>2. CASE pc # Len(Script(op))
  BY <1>2, AfterIsNext, Zenon DEF Advance
<1>3. QED
  BY <1>1, <1>2

LEMMA ReturnsError ==
  ASSUME NEW code \in Int \ {0}, NEW word, Return(code, word)
  PROVE  /\ phase' = "idle" /\ out'.code = code /\ UNCHANGED <<op, pc>>
         /\ (ready' <=> ~IsConnect(op) /\ ready)
BY DEF Return, IsConnect

LEMMA FailsWith ==
  ASSUME NEW code \in Int \ {0}, Fail(code)
  PROVE  /\ phase' = "idle" /\ out'.code # 0 /\ UNCHANGED <<op, pc>>
         /\ (ready' <=> ~IsConnect(op) /\ ready)
BY DEF Fail, Return, IsConnect
-----------------------------------------------------------------------------
(* What an access does to the target.                                      *)

\* A write touches the bank only through SELECT, and the pending error only
\* to clear it.
LEMMA WrittenKeeps ==
  ASSUME TargetOK, NEW x, NEW t, t = Written(target, x)
  PROVE  /\ DOMAIN t = Fields /\ t.mem = [a \in Addr |-> t.mem[a]]
         /\ (t.deaf <=> target.deaf) /\ (target.sel => t.sel) /\ (t.sticky => target.sticky)
         /\ t.bank = target.bank \/ (~x.ap /\ x.a = 8 /\ t.bank = x.d)
         /\ ~x.ap /\ x.a = 12 => t.sel
         /\ ~x.ap /\ x.a = 0 => ~t.sticky
         /\ ~x.ap /\ x.a = 8 => t.bank = x.d
<1> USE DEF TargetOK, Fields
<1>1. CASE ~x.ap /\ x.a = 12
  BY <1>1 DEF Written
<1>2. CASE ~x.ap /\ x.a = 0
  BY <1>2 DEF Written
<1>3. CASE ~x.ap /\ x.a = 8
  BY <1>3 DEF Written
<1>4. CASE ~x.ap /\ x.a = 4
  BY <1>4 DEF Written
<1>5. CASE x.ap /\ target.bank = 0 /\ x.a \in {0, 4}
  BY <1>5 DEF Written
<1>6. CASE x.ap /\ target.bank = 0 /\ x.a = 12
  <2>1. t = [target EXCEPT !.mem[target.tar] = x.d, !.tar = NextTAR(target)]
    BY <1>6 DEF Written
  <2>2. t.mem = [target.mem EXCEPT ![target.tar] = x.d]
    BY <2>1
  <2>3. QED
    BY <1>6, <2>1, <2>2
<1>7. CASE x.ap /\ (target.bank # 0 \/ x.a \notin {0, 4, 12})
  BY <1>7 DEF Written
<1>8. CASE ~x.ap /\ x.a \notin {0, 4, 8, 12}
  BY <1>8 DEF Written
<1>9. QED
  BY <1>1, <1>2, <1>3, <1>4, <1>5, <1>6, <1>7, <1>8

\* Setting the address, and writing and reading a word there.
LEMMA TARWritten ==
  ASSUME TargetOK, target.bank = 0, NEW a, NEW t, t = Written(target, TAR(a))
  PROVE  t.tar = a /\ t.mem = target.mem /\ (t.sticky <=> target.sticky)
<1>1. t = [target EXCEPT !.tar = a]
  BY DEF Written, TAR, writeAP, Tx
<1>2. QED
  BY <1>1 DEF TargetOK, Fields

LEMMA DRWWritten ==
  ASSUME TargetOK, target.bank = 0, NEW w, NEW t, t = Written(target, DRW(w))
  PROVE  t.mem = [target.mem EXCEPT ![target.tar] = w] /\ (t.sticky <=> target.sticky)
<1>1. t = [target EXCEPT !.mem[target.tar] = w, !.tar = NextTAR(target)]
  BY DEF Written, DRW, writeAP, Tx
<1>2. QED
  BY <1>1 DEF TargetOK, Fields

LEMMA ReadKeeps ==
  ASSUME TargetOK, NEW x, NEW t, t = Read(target, x)
  PROVE  /\ DOMAIN t = Fields /\ t.mem = target.mem
         /\ (t.deaf <=> target.deaf) /\ (t.sel <=> target.sel) /\ (t.sticky <=> target.sticky)
         /\ t.bank = target.bank
         /\ ~x.ap => t = target
         /\ x.ap /\ target.bank = 0 => t.buf = target.mem[target.tar]
BY DEF TargetOK, Fields, Read

\* A word that arrives as it was sent is the word sent, and passes the check.
LEMMA Unflipped ==
  ASSUME NEW word
  PROVE  Arrives(word, 0)[1] = word /\ ~ParityError(Arrives(word, 0)[1], Arrives(word, 0)[2])
BY DEF Arrives, ParityError

-----------------------------------------------------------------------------
(* The steps.                                                              *)

LEMMA OneKind ==
  ASSUME CallOK, Busy
  PROVE  /\ IsRead(op) \/ IsWrite(op) \/ IsConnect(op)
         /\ ~(IsRead(op) /\ IsWrite(op)) /\ ~(IsConnect(op) /\ (IsRead(op) \/ IsWrite(op)))
         /\ Len(Script(op)) \in Nat /\ pc \in 1 .. Len(Script(op))
<1>1. op \in Calls \cup {Connecting}
  BY DEF CallOK
<1>2. Len(Script(op)) \in Nat /\ pc \in 1 .. Len(Script(op))
  BY <1>1, ScriptStarts DEF CallOK
<1>3. op \in Calls => IsRead(op) \/ IsWrite(op)
  BY CallFields
<1>4. QED
  BY <1>1, <1>2, <1>3 DEF IsRead, IsWrite, IsConnect, Connecting

LEMMA BeginStep ==
  ASSUME AInv, connect \/ Operate
  PROVE  AInv'
<1>1. IInv'
  BY StepKeeps, AInv DEF AInv, Next
<1>2. /\ phase = "idle" /\ phase' = "request" /\ pc' = 1 /\ op' \in Calls \cup {Connecting}
      /\ faults' = faults /\ pre' = [mem |-> target.mem, held |-> held, faults |-> faults]
      /\ held' = held /\ target'.mem = target.mem /\ target'.bank = target.bank
      /\ DOMAIN target' = Fields
      /\ IsConnect(op') => ~ready'
      /\ ~IsConnect(op') => ready' /\ ready
      /\ held /\ IsConnect(op') => ~target'.deaf
  <2>1. CASE connect
    BY <2>1 DEF connect, Begin, AInv, TargetOK, Fields, Connecting, IsConnect
  <2>2. CASE Operate
    <3>1. PICK c \in Calls : Begin(c)
      BY <2>2 DEF Operate
    <3>2. ~IsConnect(c)
      BY CallFields
    <3>3. QED
      BY <2>2, <3>1, <3>2 DEF Operate, Begin, AInv, TargetOK
  <2>3. QED
    BY <2>1, <2>2
<1>3. TargetOK'
  BY <1>2 DEF AInv, TargetOK
<1>4. CallOK'
  <2>1. op' # Nothing
    BY <1>2, CallFields DEF Connecting, Nothing
  <2>2. QED
    BY <1>2, <2>1, ScriptStarts DEF AInv, CallOK, Busy
<1>5. NoErrorPending' /\ BankSelected' /\ Reading' /\ Connects'
  BY <1>2 DEF AInv, NoErrorPending, BankSelected, Reading, Connects, Busy
<1>6. Writing'
  <2>1. (target.mem = Stored(0))'
    BY <1>2, <1>3 DEF Stored, TargetOK
  <2>2. QED
    BY <1>2, <2>1 DEF Writing
<1>7. Outcomes'
  BY <1>2 DEF Outcomes, WritesAPrefix, ReadIsTrue, ReconnectWorks
<1>8. QED
  BY <1>1, <1>3, <1>4, <1>5, <1>6, <1>7 DEF AInv

LEMMA PowerStep ==
  ASSUME AInv, PowerUp \/ UNCHANGED vars
  PROVE  AInv'
<1>1. IInv'
  BY StepKeeps DEF AInv, Next
<1>2. /\ UNCHANGED <<op, pc, phase, held, last_tar_addr, out, ready, reply, faults, flipped, pre>>
      /\ DOMAIN target' = Fields /\ target'.mem = target.mem
      /\ target'.bank = target.bank /\ target'.tar = target.tar /\ target'.buf = target.buf
      /\ (target'.deaf <=> target.deaf) /\ (target'.sel <=> target.sel)
      /\ (target'.sticky <=> target.sticky)
  BY DEF PowerUp, vars, hostVars, AInv, TargetOK, Fields
<1>3. TargetOK' /\ CallOK' /\ NoErrorPending' /\ BankSelected'
  BY <1>2 DEF AInv, TargetOK, CallOK, NoErrorPending, BankSelected, Refuses, Busy, tx
<1>4. Reading' /\ Writing' /\ Connects'
  BY <1>2 DEF AInv, Reading, Writing, Connects, Busy, Stored
<1>5. Outcomes'
  BY <1>2 DEF AInv, Outcomes, WritesAPrefix, ReadIsTrue, ReconnectWorks, Stored
<1>6. QED
  BY <1>1, <1>3, <1>4, <1>5 DEF AInv
\* What the request keeps, and that it wakes no answer from a target that
\* refuses.
LEMMA RequestStep ==
  ASSUME AInv, Request
  PROVE  AInv'
<1>1. IInv'
  BY StepKeeps DEF AInv, Next
<1>2. /\ UNCHANGED <<op, pc, last_tar_addr, out, ready, flipped, pre>>
      /\ phase = "request" /\ phase' = "ack" /\ reply' \in Replies(target, tx)
      /\ faults' = faults + (IF reply' = "wait" THEN 1 ELSE 0)
      /\ DOMAIN target' = Fields /\ target'.mem = target.mem
      /\ target'.bank = target.bank /\ target'.tar = target.tar /\ target'.buf = target.buf
      /\ held => (target'.deaf <=> target.deaf)
      /\ (target'.sel <=> target.sel) /\ (target'.sticky <=> target.sticky)
  BY DEF Request, AInv, TargetOK, Fields
<1>3. faults \in Nat /\ pre.faults \in Nat /\ faults >= pre.faults
  BY DEF AInv, CallOK
<1>4. TargetOK' /\ BankSelected'
  BY <1>2 DEF AInv, TargetOK, BankSelected, Busy
<1>5. CallOK'
  BY <1>2, <1>3 DEF AInv, CallOK, Busy
<1>6. NoErrorPending'
  <2>1. tx' = tx /\ (reply' = "ok" => ~Refuses(target, tx))
    BY <1>2 DEF Replies, tx
  <2>2. QED
    BY <1>2, <2>1 DEF NoErrorPending, Refuses
<1>7. Reading' /\ Writing'
  BY <1>2 DEF AInv, Reading, Writing, Busy, Stored
<1>8. Connects'
  <2> SUFFICES ASSUME IsConnect(op), faults' = pre.faults, pre.held
               PROVE  /\ ~target'.deaf /\ (pc > 1 => target'.sel) /\ (pc > 3 => ~target'.sticky)
                      /\ reply' = (IF pc = 1 THEN "taken" ELSE "ok")
    BY <1>2 DEF Connects
  <2>1. faults = pre.faults /\ reply' # "wait"
    BY <1>2, <1>3
  <2>2. held /\ ~target.deaf /\ (pc > 1 => target.sel) /\ (pc > 3 => ~target.sticky)
    BY <1>2, <2>1 DEF AInv, Connects, Busy
  <2>3. pc \in 1 .. 11 /\ (tx.ign <=> pc = 1) /\ (pc > 1 => ~Refuses(target, tx))
    <3>1. CallOK /\ Busy
      BY <1>2 DEF AInv, Busy
    <3>2. QED
      BY <2>2, <3>1, ConnectTx DEF Refuses
  <2>4. CASE pc = 1
    <3>1. tx.ign /\ held /\ ~target.deaf
      BY <2>2, <2>3, <2>4
    <3> HIDE DEF tx
    <3>2. Replies(target, tx) = {"taken"}
      BY <3>1 DEF Replies
    <3>3. QED
      BY <1>2, <2>2, <2>4, <3>2
  <2>5. CASE pc # 1
    <3>1. ~tx.ign /\ pc > 1 /\ target.sel /\ ~Refuses(target, tx)
      BY <2>2, <2>3, <2>5
    <3>2. Replies(target, tx) = {"ok"} \cup (IF faults < MaxFaults THEN {"wait"} ELSE {})
      BY <2>2, <3>1 DEF Replies
    <3>3. QED
      BY <1>2, <2>1, <2>2, <2>5, <3>2
  <2>6. QED
    BY <2>4, <2>5
<1>9. Outcomes'
  BY <1>2 DEF Outcomes, WritesAPrefix, ReadIsTrue, ReconnectWorks
<1>10. QED
  BY <1>1, <1>4, <1>5, <1>6, <1>7, <1>8, <1>9 DEF AInv

LEMMA AckGoodStep ==
  ASSUME AInv, AckGood
  PROVE  AInv'
<1>1. IInv'
  BY StepKeeps DEF AInv, Next
<1>2. /\ UNCHANGED <<op, pc, last_tar_addr, out, ready, target, reply, faults, flipped, pre>>
      /\ phase = "ack" /\ phase' = "data" /\ (reply = "ok" \/ tx.ign)
  BY DEF AckGood
<1>3. TargetOK' /\ CallOK' /\ BankSelected' /\ NoErrorPending'
  BY <1>2 DEF AInv, TargetOK, CallOK, BankSelected, NoErrorPending, Refuses, Busy, tx
<1>4. Reading' /\ Writing' /\ Connects'
  BY <1>2 DEF AInv, Reading, Writing, Connects, Busy, Stored
<1>5. Outcomes'
  BY <1>2 DEF Outcomes, WritesAPrefix, ReadIsTrue, ReconnectWorks
<1>6. QED
  BY <1>1, <1>3, <1>4, <1>5 DEF AInv
\* A call that ends with an error has kept what it had written, and a
\* connect() in which nothing went wrong does not end with one here.
LEMMA AckBadStep ==
  ASSUME AInv, AckBad
  PROVE  AInv'
<1>1. IInv'
  BY StepKeeps DEF AInv, Next
<1>2. phase = "ack" /\ reply # "ok" /\ ~tx.ign /\ Fail(-1) /\ held'
  BY DEF AckBad
<1>3. /\ UNCHANGED <<reply, faults, flipped, pre>>
      /\ DOMAIN target' = Fields /\ target'.mem = target.mem /\ target'.bank = target.bank
      /\ (target'.sticky <=> target.sticky)
  BY DEF AckBad, AInv, TargetOK, Fields
<1>4. /\ phase' = "idle" /\ out'.code # 0 /\ UNCHANGED <<op, pc>>
      /\ (ready' <=> ~IsConnect(op) /\ ready)
  BY <1>2, FailsWith
<1>5. TargetOK' /\ CallOK' /\ NoErrorPending' /\ BankSelected'
  BY <1>3, <1>4 DEF AInv, TargetOK, CallOK, NoErrorPending, BankSelected, Busy
<1>6. Reading' /\ Writing' /\ Connects'
  BY <1>4 DEF Reading, Writing, Connects, Busy
<1>7. WritesAPrefix'
  <2> SUFFICES ASSUME IsWrite(op)
               PROVE  \E n \in 0 .. Len(op.data) : target.mem = Stored(n)
    <3>1. \A n : (Stored(n))' = Stored(n)
      BY <1>3, <1>4 DEF Stored
    <3>2. QED
      BY <1>3, <1>4, <3>1 DEF WritesAPrefix, IsWrite
  <2> DEFINE k == (pc - 1) \div 2
  <2>1. CallOK /\ Busy
    BY <1>2 DEF AInv, Busy
  <2>2. k \in 0 .. Len(op.data) - 1 /\ Len(op.data) \in Nat
    BY <2>1, WriteTx
  <2>3. target.mem = Stored(k) \/ (k > 0 /\ target.mem = Stored(k - 1))
    BY <2>1 DEF AInv, Writing
  <2>4. QED
    <3> HIDE DEF k
    <3>1. QED
      BY <2>2, <2>3
<1>8. ReadIsTrue'
  BY <1>4 DEF ReadIsTrue
<1>9. ReconnectWorks'
  <2> SUFFICES ASSUME IsConnect(op), faults = pre.faults, pre.held PROVE FALSE
    BY <1>2, <1>3, <1>4 DEF ReconnectWorks, IsConnect
  <2>1. reply = (IF pc = 1 THEN "taken" ELSE "ok")
    BY <1>2 DEF AInv, Connects, Busy
  <2>2. tx.ign <=> pc = 1
    BY <1>2, ConnectTx DEF AInv, Busy
  <2>3. QED
    BY <1>2, <2>1, <2>2
<1>10. QED
  BY <1>1, <1>5, <1>6, <1>7, <1>8, <1>9 DEF AInv, Outcomes
\* A word the host has sent is taken, or the target has an error pending.
LEMMA WriteDataStep ==
  ASSUME AInv, WriteData
  PROVE  AInv'
<1>1. IInv'
  BY StepKeeps DEF AInv, Next
<1>2. /\ phase = "data" /\ ~tx.rd /\ Advance(got) /\ UNCHANGED <<held, reply, flipped, pre>>
      /\ last_tar_addr' = IF op.fn = "writeMultiWord" /\ pc % 2 = 1 THEN tx.d ELSE last_tar_addr
  BY DEF WriteData
<1>3. TargetOK /\ CallOK /\ Busy /\ Writing /\ held
  BY <1>2 DEF AInv, Busy, IInv, HostHolds
<1>4. /\ faults \in Nat /\ pre.faults \in Nat /\ faults >= pre.faults
      /\ Len(Script(op)) \in Nat /\ pc \in 1 .. Len(Script(op))
      /\ op \in Calls \cup {Connecting, Nothing} /\ op # Nothing
  BY <1>3, OneKind DEF CallOK
<1>5. /\ op' = op
      /\ \/ /\ pc = Len(Script(op)) /\ phase' = "idle" /\ pc' = pc
            /\ out'.code = 0 /\ (ready' <=> IsConnect(op) \/ ready)
         \/ pc # Len(Script(op)) /\ phase' = "request" /\ pc' = pc + 1 /\ (ready' <=> ready)
  BY <1>2, <1>3, AdvanceTo
<1> DEFINE Lost == /\ DOMAIN target' = Fields /\ target'.mem = target.mem /\ target'.sticky
                   /\ target'.bank = target.bank /\ faults' = faults + 1
           Taken == target' = Written(target, tx) /\ faults' = faults
<1>6. \/ reply = "none" /\ target' = target /\ faults' = faults
      \/ reply # "none" /\ Taken
      \/ Lost
  BY <1>3 DEF WriteData, TargetOK, Fields
<1>7. ~tx.ign => reply = "ok" /\ ~Refuses(target, tx) /\ (Taken \/ Lost)
  <2>1. ~tx.ign => reply = "ok" /\ ~Refuses(target, tx)
    BY <1>2 DEF AInv, NoErrorPending
  <2>2. QED
    BY <1>6, <2>1
<1>8. TargetOK'
  <2>1. CASE Taken
    BY <1>3, <2>1, WrittenKeeps DEF TargetOK
  <2>2. QED
    BY <1>3, <1>6, <2>1 DEF TargetOK
<1>9. CallOK' /\ NoErrorPending'
  <2>1. faults' \in Nat /\ faults' >= faults
    BY <1>4, <1>6
  <2>2. Busy' => pc' \in 1 .. Len(Script(op'))
    BY <1>4, <1>5 DEF Busy
  <2>3. QED
    BY <1>2, <1>4, <1>5, <2>1, <2>2 DEF CallOK, NoErrorPending
<1>10. CASE IsRead(op)
  <2>1. pc = 1 /\ tx = TAR(WordAddr(op)) /\ ~tx.ign /\ Len(Script(op)) = 3 /\ ~IsConnect(op)
    BY <1>2, <1>3, <1>10, ReadTx, OneKind DEF readAP, readDP, Tx
  <2>2. phase' = "request" /\ pc' = 2 /\ ready' /\ target.bank = 0 /\ ~IsWrite(op)
    BY <1>3, <1>5, <1>10, <2>1, OneKind DEF AInv, BankSelected
  <2>3. target'.bank = 0 /\ (target'.sticky \/ target'.tar = WordAddr(op))
    <3>1. CASE Taken
      BY <1>3, <2>1, <2>2, <3>1, TARWritten, WrittenKeeps DEF TAR, writeAP, Tx
    <3>2. CASE Lost
      BY <2>2, <3>2
    <3>3. QED
      BY <1>7, <2>1, <3>1, <3>2
  <2>4. BankSelected' /\ Reading' /\ Writing' /\ Connects'
    BY <1>5, <2>1, <2>2, <2>3 DEF BankSelected, Reading, Writing, Connects, IsRead, IsConnect, IsWrite
  <2>5. Outcomes'
    BY <2>2 DEF Outcomes, WritesAPrefix, ReadIsTrue, ReconnectWorks
  <2>6. QED
    BY <1>1, <1>8, <1>9, <2>4, <2>5 DEF AInv
<1>11. CASE IsWrite(op)
  <2> DEFINE k == (pc - 1) \div 2
  <2>1. /\ Len(Script(op)) = 2 * Len(op.data) /\ op.addr \in Addr /\ Len(op.data) \in Nat
        /\ op.addr + Len(op.data) <= NWords
        /\ pc \in 1 .. 2 * Len(op.data) /\ k \in 0 .. Len(op.data) - 1 /\ ~tx.ign
        /\ pc % 2 = 1 => pc = 2 * k + 1 /\ tx = TAR(op.addr + k)
        /\ pc % 2 = 0 => pc = 2 * k + 2 /\ tx = DRW(op.data[k + 1])
    BY <1>3, <1>11, WriteTx
  <2>2. ~IsConnect(op) /\ ~IsRead(op) /\ ready /\ ready' /\ target.bank = 0
    BY <1>3, <1>5, <1>11, OneKind DEF AInv, BankSelected
  <2>3. tx.ap /\ ~target.sticky
    <3>1. tx.ap
      BY <2>1 DEF TAR, DRW, writeAP, Tx
    <3>2. QED
      BY <1>7, <2>1, <3>1 DEF Refuses
  <2>4. target'.bank = 0
    BY <1>3, <1>7, <2>1, <2>2, <2>3, WrittenKeeps
  <2>5. target.mem = Stored(k) /\ (pc % 2 = 0 => target.tar = op.addr + k)
    BY <1>3, <1>11, <2>3 DEF Writing
  <2>6. \A n : (Stored(n))' = Stored(n)
    BY <1>2, <1>5 DEF Stored
  <2>7. BankSelected' /\ Reading' /\ Connects' /\ ReadIsTrue' /\ ReconnectWorks'
    BY <1>5, <2>2, <2>4 DEF BankSelected, Reading, Connects, ReadIsTrue, ReconnectWorks,
                            IsConnect, IsRead
  <2>8. CASE pc % 2 = 1
    <3>1. pc' = 2 * k + 2 /\ phase' = "request" /\ pc' % 2 = 0 /\ (pc' - 1) \div 2 = k
      BY <1>5, <2>1, <2>8
    <3>2. target'.mem = Stored(k) /\ (target'.sticky \/ target'.tar = op.addr + k)
      BY <1>3, <1>7, <2>1, <2>2, <2>5, <2>8, TARWritten
    <3>3. op.fn = "writeMultiWord" => last_tar_addr' = op.addr + k
      BY <1>2, <2>1, <2>8 DEF TAR, writeAP, Tx
    <3>4. Writing' /\ WritesAPrefix'
      <4> HIDE DEF k
      <4>1. QED
        BY <1>5, <2>6, <3>1, <3>2, <3>3 DEF Writing, WritesAPrefix
    <3>5. QED
      BY <1>1, <1>8, <1>9, <2>7, <3>4 DEF AInv, Outcomes
  <2>9. CASE pc % 2 = 0
    <3>1. pc = 2 * k + 2
      BY <2>1, <2>9
    <3> HIDE DEF k
    <3>2. Taken => target'.mem = Stored(k + 1)
      <4>1. [target.mem EXCEPT ![op.addr + k] = op.data[k + 1]] = Stored(k + 1)
        <5>1. op.addr \in Nat /\ Addr \subseteq Nat /\ k \in Nat
          BY <2>1, SWDDriverAssumption DEF Addr
        <5>2. \A a \in Addr : a - op.addr \in 0 .. (k + 1) - 1 <=> a - op.addr \in 0 .. k - 1 \/ a = op.addr + k
          BY <5>1
        <5>3. \A a \in Addr : a = op.addr + k => a - op.addr + 1 = k + 1
          BY <5>1
        <5>4. target.mem = [a \in Addr |-> IF a - op.addr \in 0 .. k - 1
                                           THEN op.data[a - op.addr + 1] ELSE pre.mem[a]]
          BY <2>5 DEF Stored
        <5>5. \A a \in Addr : [target.mem EXCEPT ![op.addr + k] = op.data[k + 1]][a] = Stored(k + 1)[a]
          BY <5>2, <5>3, <5>4 DEF Stored
        <5>6. QED
          BY <5>4, <5>5 DEF Stored
      <4>2. QED
        BY <1>3, <2>1, <2>2, <2>5, <2>9, <4>1, DRWWritten
    <3>3. target'.mem = Stored(k + 1) \/ (target'.sticky /\ target'.mem = Stored(k))
      BY <1>7, <2>1, <2>5, <3>2
    <3>4. CASE phase' = "request"
      <4>1. (pc' - 1) \div 2 = k + 1 /\ pc' % 2 # 0 /\ k + 1 > 0 /\ (k + 1) - 1 = k
        <5>1. k \in Nat /\ pc' = 2 * (k + 1) + 1
          BY <1>5, <2>1, <3>1, <3>4
        <5>2. \A n \in Nat : ((2 * n + 1) - 1) \div 2 = n /\ (2 * n + 1) % 2 # 0
          OBVIOUS
        <5>3. QED
          BY <5>1, <5>2
      <4>2. Writing' /\ WritesAPrefix'
        BY <2>6, <3>3, <3>4, <4>1 DEF Writing, WritesAPrefix
      <4>3. QED
        BY <1>1, <1>8, <1>9, <2>7, <4>2 DEF AInv, Outcomes
    <3>5. CASE phase' = "idle"
      <4>1. k + 1 = Len(op.data) /\ k = Len(op.data) - 1
        BY <1>5, <2>1, <3>1, <3>5
      <4>2. \E n \in 0 .. Len(op.data) :
              /\ target'.mem = Stored(n)
              /\ n = Len(op.data) \/ (n = Len(op.data) - 1 /\ target'.sticky)
        BY <2>1, <3>3, <4>1
      <4>3. Writing' /\ WritesAPrefix'
        BY <1>5, <2>6, <3>5, <4>2 DEF Writing, WritesAPrefix, Busy
      <4>4. QED
        BY <1>1, <1>8, <1>9, <2>7, <4>3 DEF AInv, Outcomes
    <3>6. QED
      BY <1>5, <3>4, <3>5
  <2>10. QED
    BY <2>1, <2>8, <2>9
<1>12. CASE IsConnect(op)
  <2>1. /\ Len(Script(op)) = 11 /\ pc \in 1 .. 11 /\ (tx.ign <=> pc = 1) /\ ~ready
        /\ pc \in {1, 3, 4, 5, 7, 10, 11} /\ ~IsRead(op) /\ ~IsWrite(op)
    BY <1>2, <1>3, <1>12, ConnectTx, OneKind DEF AInv, BankSelected
  <2>2. pc = 10 => target'.bank = 0 \/ target'.sticky
    <3> SUFFICES ASSUME pc = 10 PROVE target'.bank = 0 \/ target'.sticky
      OBVIOUS
    <3>1. ~tx.ap /\ tx.a = 8 /\ tx.d = 0 /\ ~tx.ign
      BY <1>3, <1>12, ConnectTx
    <3>2. QED
      BY <1>3, <1>7, <3>1, WrittenKeeps
  <2>3. pc = 11 => target'.bank = 0
    <3> SUFFICES ASSUME pc = 11 PROVE target'.bank = 0
      OBVIOUS
    <3>1. tx.ap /\ ~tx.ign
      BY <1>3, <1>12, ConnectTx
    <3>2. ~target.sticky
      BY <1>7, <3>1 DEF Refuses
    <3>3. target.bank = 0
      BY <1>3, <1>12, <3>2 DEF AInv, BankSelected
    <3>4. QED
      BY <1>3, <1>7, <3>1, <3>3, WrittenKeeps
  <2>4. BankSelected' /\ Reading' /\ Writing'
    <3>1. IsConnect(op') /\ ~IsRead(op') /\ ~IsWrite(op')
      BY <1>5, <1>12, <2>1
    <3>2. Reading' /\ Writing'
      BY <3>1 DEF Reading, Writing
    <3>3. CASE phase' = "idle"
      BY <1>5, <2>1, <2>3, <3>2, <3>3 DEF BankSelected, Busy
    <3>4. CASE phase' = "request"
      BY <1>5, <2>1, <2>2, <3>1, <3>2, <3>4 DEF BankSelected
    <3>5. QED
      BY <1>5, <3>3, <3>4
  <2>5. Connects'
    <3> SUFFICES ASSUME faults' = pre.faults, pre.held, phase' = "request"
                 PROVE  ~target'.deaf /\ target'.sel /\ (pc > 2 => ~target'.sticky)
      BY <1>2, <1>3, <1>5, <2>1 DEF Connects, Busy
    <3>1. faults' = faults
      BY <1>4, <1>6
    <3>2. ~target.deaf /\ (pc > 1 => target.sel) /\ (pc > 3 => ~target.sticky) /\ reply # "none"
      BY <1>2, <1>3, <1>12, <3>1 DEF AInv, Connects
    <3>3. Taken
      BY <1>4, <1>6, <3>1, <3>2
    <3>4. (pc = 1 => ~tx.ap /\ tx.a = 12) /\ (pc = 3 => ~tx.ap /\ tx.a = 0)
      BY <1>3, <1>12, ConnectTx
    <3>5. /\ target'.deaf <=> target.deaf
          /\ target.sel \/ pc = 1 => target'.sel
          /\ target'.sticky => target.sticky /\ pc # 3
      BY <1>3, <3>3, <3>4, WrittenKeeps
    <3>6. QED
      BY <2>1, <3>2, <3>5
  <2>6. Outcomes'
    BY <1>2, <1>3, <1>5, <2>1 DEF Outcomes, WritesAPrefix, ReadIsTrue, ReconnectWorks, IsWrite, IsRead
  <2>7. QED
    BY <1>1, <1>8, <1>9, <2>4, <2>5, <2>6 DEF AInv
<1>13. QED
  BY <1>3, <1>10, <1>11, <1>12, OneKind
\* A word that arrives is the one the target had to send, or a bit of it was
\* inverted, of which the model keeps count.
LEMMA ReadWordStep ==
  ASSUME AInv, ReadWord
  PROVE  AInv'
<1>1. IInv'
  BY StepKeeps DEF AInv, Next
<1> DEFINE arrived(b) == Arrives(ReadData(target, tx), b)[1]
           bad(b) == ParityError(arrived(b), Arrives(ReadData(target, tx), b)[2])
<1>2. PICK b \in 0 .. 3 :
        /\ phase = "data" /\ tx.rd /\ target' = Read(target, tx)
        /\ faults' = faults + (IF b = 0 THEN 0 ELSE 1)
        /\ flipped' = (flipped \/ b # 0)
        /\ UNCHANGED <<last_tar_addr, reply, pre>>
        /\ \/ bad(b) /\ Fail(-2)
           \/ ~bad(b) /\ held' = TRUE /\ op.fn = "connect" /\ pc = 6 /\ Return(-7, got)
           \/ ~bad(b) /\ held' = TRUE /\ Advance(arrived(b))
  BY DEF ReadWord
<1>3. TargetOK /\ CallOK /\ Busy /\ Writing /\ ~IsWrite(op)
  <2>1. TargetOK /\ CallOK /\ Busy /\ Writing
    BY <1>2 DEF AInv, Busy
  <2>2. ASSUME IsWrite(op) PROVE FALSE
    <3> DEFINE k == (pc - 1) \div 2
    <3>1. tx = TAR(op.addr + k) \/ tx = DRW(op.data[k + 1])
      BY <2>1, <2>2, WriteTx
    <3>2. QED
      BY <1>2, <3>1 DEF TAR, DRW, writeAP, Tx
  <2>3. QED
    BY <2>1, <2>2
<1>4. /\ faults \in Nat /\ pre.faults \in Nat /\ faults >= pre.faults
      /\ Len(Script(op)) \in Nat /\ pc \in 1 .. Len(Script(op))
      /\ op \in Calls \cup {Connecting, Nothing} /\ op # Nothing
  BY <1>3, OneKind DEF CallOK
<1>5. /\ DOMAIN target' = Fields /\ target'.mem = target.mem
      /\ (target'.deaf <=> target.deaf) /\ (target'.sel <=> target.sel)
      /\ (target'.sticky <=> target.sticky) /\ target'.bank = target.bank
      /\ ~tx.ap => target' = target
      /\ tx.ap /\ target.bank = 0 => target'.buf = target.mem[target.tar]
  BY <1>2, <1>3, ReadKeeps
<1>6. b = 0 => ~bad(b) /\ arrived(b) = ReadData(target, tx)
  BY Unflipped
<1>7. op' = op /\ (~bad(b) => held')
  BY <1>2, <1>3, FailsWith, AdvanceTo DEF Return
<1> HIDE DEF bad, arrived
<1> DEFINE Failed == /\ bad(b) \/ (IsConnect(op) /\ pc = 6 /\ out'.code = -7)
                     /\ phase' = "idle" /\ pc' = pc /\ out'.code # 0
                     /\ (ready' <=> ~IsConnect(op) /\ ready)
           Done == /\ ~bad(b) /\ pc = Len(Script(op)) /\ phase' = "idle" /\ pc' = pc
                   /\ out'.code = 0 /\ out'.value = Value(op, arrived(b))
                   /\ (ready' <=> IsConnect(op) \/ ready)
           On == /\ ~bad(b) /\ pc # Len(Script(op)) /\ phase' = "request" /\ pc' = pc + 1
                 /\ (ready' <=> ready)
<1>8. Failed \/ Done \/ On
  <2>1. CASE bad(b) /\ Fail(-2)
    BY <2>1, FailsWith
  <2>2. CASE ~bad(b) /\ op.fn = "connect" /\ pc = 6 /\ Return(-7, got)
    BY <2>2, ReturnsError DEF IsConnect
  <2>3. CASE ~bad(b) /\ Advance(arrived(b))
    BY <1>3, <2>3, AdvanceTo
  <2>4. QED
    BY <1>2, <2>1, <2>2, <2>3
<1>9. TargetOK' /\ CallOK' /\ NoErrorPending'
  <2>1. TargetOK'
    BY <1>3, <1>5 DEF TargetOK
  <2>2. faults' \in Nat /\ faults' >= faults
    BY <1>2, <1>4
  <2>3. Busy' => pc' \in 1 .. Len(Script(op'))
    BY <1>4, <1>7, <1>8 DEF Busy
  <2>4. QED
    BY <1>2, <1>4, <1>7, <1>8, <2>1, <2>2, <2>3 DEF CallOK, NoErrorPending
<1>10. CASE IsRead(op)
  <2>1. /\ Len(Script(op)) = 3 /\ pc \in {2, 3} /\ ~tx.ign /\ ~IsConnect(op)
        /\ pc = 2 => tx = readAP(12, 0)
        /\ pc = 3 => tx = readDP(12, 0)
    BY <1>2, <1>3, <1>10, ReadTx, OneKind DEF TAR, writeAP, Tx
  <2>2. ready /\ ready' /\ target.bank = 0 /\ target'.bank = 0
    BY <1>3, <1>5, <1>8, <2>1 DEF AInv, BankSelected
  <2>3. pc = 2 => target'.buf = target'.mem[WordAddr(op)]
    <3> SUFFICES ASSUME pc = 2 PROVE target'.buf = target.mem[WordAddr(op)]
      BY <1>5
    <3>1. tx.ap /\ ~tx.ign
      BY <2>1 DEF readAP, Tx
    <3>2. ~target.sticky
      BY <1>2, <3>1 DEF AInv, NoErrorPending, Refuses
    <3>3. target.tar = WordAddr(op)
      BY <1>3, <1>10, <3>2 DEF AInv, Reading
    <3>4. QED
      BY <1>5, <2>2, <3>1, <3>3
  <2>4. pc = 3 => ReadData(target, tx) = target'.mem[WordAddr(op)]
    <3> SUFFICES ASSUME pc = 3 PROVE ReadData(target, tx) = target.mem[WordAddr(op)]
      BY <1>5
    <3>1. ReadData(target, tx) = target.buf
      BY <2>1 DEF readDP, Tx, ReadData
    <3>2. QED
      BY <1>3, <1>10, <3>1 DEF AInv, Reading
  <2>5. BankSelected' /\ Reading' /\ Writing' /\ Connects' /\ WritesAPrefix' /\ ReconnectWorks'
    <3>1. BankSelected'
      BY <1>7, <2>1, <2>2 DEF BankSelected, IsConnect
    <3>2. Reading'
      BY <1>7, <1>8, <2>1, <2>3 DEF Reading, Busy, WordAddr
    <3>3. Writing' /\ Connects' /\ WritesAPrefix' /\ ReconnectWorks'
      BY <1>3, <1>7, <2>1 DEF Writing, Connects, WritesAPrefix, ReconnectWorks, IsWrite, IsConnect
    <3>4. QED
      BY <3>1, <3>2, <3>3
  <2>6. ReadIsTrue'
    <3> SUFFICES ASSUME phase' = "idle", out'.code = 0, ~flipped'
                 PROVE  out'.value = Value(op, target'.mem[WordAddr(op)])
      BY <1>7 DEF ReadIsTrue, Value, WordAddr
    <3>1. b = 0 /\ Done /\ pc = 3
      BY <1>2, <1>8, <2>1
    <3>2. QED
      BY <1>6, <2>4, <3>1
  <2>7. QED
    BY <1>1, <1>9, <2>5, <2>6 DEF AInv, Outcomes
<1>11. CASE IsConnect(op)
  <2>1. /\ Len(Script(op)) = 11 /\ pc \in {2, 6, 8, 9} /\ ~tx.ign /\ ~IsRead(op) /\ ~ready
    BY <1>2, <1>3, <1>11, ConnectTx, OneKind DEF AInv, BankSelected
  <2>2. ~ready' /\ (Failed \/ On)
    BY <1>8, <1>11, <2>1
  <2>3. BankSelected' /\ Reading' /\ Writing' /\ WritesAPrefix' /\ ReadIsTrue'
    <3>1. BankSelected'
      BY <1>7, <1>11, <2>1, <2>2 DEF BankSelected, Busy, IsConnect
    <3>2. QED
      BY <1>3, <1>7, <2>1, <3>1 DEF Reading, Writing, WritesAPrefix, ReadIsTrue, IsRead, IsWrite
  <2>4. Connects'
    <3> SUFFICES ASSUME faults' = pre.faults, pre.held, On
                 PROVE  ~target'.deaf /\ target'.sel /\ (pc > 2 => ~target'.sticky) /\ held'
      BY <1>2, <1>7, <2>1, <2>2 DEF Connects, Busy
    <3>1. faults = pre.faults
      BY <1>2, <1>4
    <3>2. QED
      BY <1>2, <1>3, <1>5, <1>7, <1>11, <2>1, <3>1 DEF AInv, Connects
  <2>5. ReconnectWorks'
    <3> SUFFICES ASSUME faults' = pre.faults, Failed
                 PROVE  held' /\ out'.code = -7
      BY <1>2, <1>7, <2>2 DEF ReconnectWorks
    <3>1. b = 0
      BY <1>2, <1>4
    <3>2. QED
      BY <1>6, <1>7, <3>1
  <2>6. QED
    BY <1>1, <1>9, <2>3, <2>4, <2>5 DEF AInv, Outcomes
<1>12. QED
  BY <1>3, <1>10, <1>11, OneKind

LEMMA AInvInit == Init => AInv
<1> SUFFICES ASSUME Init PROVE AInv
  OBVIOUS
<1>1. IInv
  BY DEF Init, IInv, Phases, HostHolds, LineOwnership, TargetDrives
<1>2. TargetOK
  BY DEF Init, TargetInit, TargetOK, Fields
<1>3. CallOK /\ NoErrorPending /\ BankSelected /\ Reading /\ Writing /\ Connects
  BY DEF Init, CallOK, NoErrorPending, BankSelected, Reading, Writing, Connects, Busy, Nothing
<1>4. Outcomes
  BY DEF Init, Outcomes, WritesAPrefix, ReadIsTrue, ReconnectWorks, IsRead
<1>5. QED
  BY <1>1, <1>2, <1>3, <1>4 DEF AInv

LEMMA AInvStep == AInv /\ [Next]_vars => AInv'
BY BeginStep, PowerStep, RequestStep, AckGoodStep, AckBadStep, WriteDataStep, ReadWordStep DEF Next

LEMMA AInvHolds == Spec => []AInv
BY AInvInit, AInvStep, PTL DEF Spec

-----------------------------------------------------------------------------
\* A write that fails has stored a prefix of its data and nothing else, and
\* one that returns 0 all of it, but for a last word lost on the line, of
\* which the target keeps an error (writeWordViaAP(), writeMultiWordViaAP()).
THEOREM PrefixTheorem == Spec => []WritesAPrefix
<1>1. AInv => WritesAPrefix
  BY DEF AInv, Outcomes
<1>2. QED
  BY <1>1, AInvHolds, PTL

\* A read that returns a value returns the one in memory, whatever failed
\* before it, unless a bit of its own data phases was inverted
\* (readWordViaAP(), readHalfWordViaAP()).
THEOREM ReadTheorem == Spec => []ReadIsTrue
<1>1. AInv => ReadIsTrue
  BY DEF AInv, Outcomes
<1>2. QED
  BY <1>1, AInvHolds, PTL

\* A connect() without faults succeeds or finds the target not powered up;
\* where an earlier parity error left the line released, it has taken it
\* back, so that the next one does (connect()).
THEOREM ReconnectTheorem == Spec => []ReconnectWorks
<1>1. AInv => ReconnectWorks
  BY DEF AInv, Outcomes
<1>2. QED
  BY <1>1, AInvHolds, PTL
=============================================================================
