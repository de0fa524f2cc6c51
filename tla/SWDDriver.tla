----------------------------- MODULE SWDDriver -----------------------------
(***************************************************************************)
(* The host end of a Serial Wire Debug link (rp2040/SWDDriver.cpp).  Host  *)
(* and target share one data line; the host gives the clock.  An operation *)
(* is a script of transactions; a transaction is a request of the host, an *)
(* acknowledgement of the target and, if that is good, one data word in    *)
(* either direction.  Any of the three can go wrong: the target answers    *)
(* WAIT or FAULT, or one bit of a data phase is inverted.                  *)
(*                                                                         *)
(* A 32-bit word stands as two halves of one bit each.  A line that nobody *)
(* drives reads as ones (the target's pull-up), which is no good ACK.      *)
(***************************************************************************)
EXTENDS Integers, Sequences

CONSTANTS
  NWords,     \* words of target memory
  IncRange,   \* words the auto-increment of the TAR covers (2^10 bytes)
  Blocks,     \* the data a caller hands to writeMultiWordViaAP()
  MaxOps,     \* bound on the operations called
  MaxFaults   \* bound on the faults of target and line

Addr == 0 .. NWords - 1
Word == {0, 1} \X {0, 1}

ASSUME SWDDriverAssumption ==
  /\ IncRange \in Nat \ {0, 1} /\ NWords \in Nat /\ NWords % IncRange = 0
  /\ (\A b \in Blocks : b \in Seq(Word) \ {<<>>}) /\ MaxOps \in Nat /\ MaxFaults \in Nat

VARIABLES
  op, pc, phase,  \* the call in progress, its transaction, and where in it
  held,           \* _dioPin is an output (_holdDIO() / _releaseDIO())
  got, apId,      \* the word read last, and _apId
  last_tar_addr,  \* of writeMultiWordViaAP()
  out,            \* what the last call returned
  ready,          \* the last connect() succeeded: other calls may be made
  target, reply,  \* the debug port, and its answer to the request
  ops, faults, flipped, pre

hostVars == <<op, pc, phase, held, got, apId, last_tar_addr, out, ready>>
vars == <<hostVars, target, reply, ops, faults, flipped, pre>>
-----------------------------------------------------------------------------
(* Transactions.  d is a word, an address or a setting, by the register.   *)

Tx(ap, rd, a, d, ign, err) ==
  [ap |-> ap, rd |-> rd, a |-> a, d |-> d, ign |-> ign, err |-> err]

writeDP(a, d, err) == Tx(FALSE, FALSE, a, d, FALSE, err)
writeAP(a, d, err) == Tx(TRUE, FALSE, a, d, FALSE, err)
readDP(a, err) == Tx(FALSE, TRUE, a, 0, FALSE, err)
readAP(a, err) == Tx(TRUE, TRUE, a, 0, FALSE, err)

\* err = 0: the operation returns what the transaction returned.
TAR(addr) == writeAP(4, addr, 0)
DRW(word) == writeAP(12, word, 0)
\* Takes what the AP read returns, which is the word of the access before it.
FetchDRW_Bug == <<readAP(12, 0)>>

FetchDRW == <<readAP(12, 0), readDP(12, 0)>>

\* The transactions of connect() after the line reset; the sixth is the
\* status the host looks at, the ninth the identification of the AP.
connectScript ==
  << Tx(FALSE, FALSE, 12, "core0", TRUE, -1), readDP(0, -2), writeDP(0, "clear", -3),
     writeDP(8, 0, -4), writeDP(4, "powerup", -5), readDP(4, -6), writeDP(8, 15, -8),
     readAP(12, -9), readDP(12, -10), writeDP(8, 0, -11), writeAP(0, "increment", -12) >>

writeScript(addr, data) ==
  [k \in 1 .. 2 * Len(data) |->
     IF k % 2 = 1 THEN TAR(addr + (k - 1) \div 2) ELSE DRW(data[k \div 2])]

Script(o) ==
  CASE o.fn = "connect" -> connectScript
    [] o.fn \in {"writeWord", "writeMultiWord"} -> writeScript(o.addr, o.data)
    [] o.fn = "readWord" -> <<TAR(o.addr)>> \o FetchDRW
    [] o.fn = "readHalfWord" -> <<TAR(o.addr \div 2)>> \o FetchDRW

tx == Script(op)[pc]

\* Writes the TAR once, and trusts the increment for the rest.
Rewrite_Bug(addr) == FALSE

\* The block write writes the TAR again where its address is another one,
\* modulo the increment range, than the one written last: at every word.
Rewrite(addr) == addr % IncRange # last_tar_addr % IncRange

\* The transaction after this one.
After ==
  IF op.fn = "writeMultiWord" /\ pc % 2 = 0 /\ ~Rewrite(op.addr + pc \div 2)
  THEN pc + 2 ELSE pc + 1

\* A half-word address is twice the word's, plus one for the upper half.
Value(o, word) ==
  IF o.fn = "readHalfWord" THEN word[1 + (o.addr % 2)] ELSE word

Calls ==
  [fn : {"readWord"}, addr : Addr, data : {<<>>}]
  \cup [fn : {"readHalfWord"}, addr : 0 .. 2 * NWords - 1, data : {<<>>}]
  \cup [fn : {"writeWord"}, addr : Addr, data : {<<w>> : w \in Word}]
  \cup {c \in [fn : {"writeMultiWord"}, addr : Addr, data : Blocks] :
          c.addr + Len(c.data) <= NWords}
-----------------------------------------------------------------------------
(* The target: the debug port of one core, and its MEM-AP.                 *)

IdCode == <<1, 0>>
ApIdent == <<0, 1>>

TargetInit ==
  [deaf |-> FALSE, sel |-> FALSE, sticky |-> FALSE, status |-> "off", bank |-> 0,
   inc |-> FALSE, tar |-> 0, buf |-> <<0, 0>>, mem |-> [a \in Addr |-> <<0, 0>>]]

NextTAR(t) ==
  IF t.inc THEN (t.tar - (t.tar % IncRange)) + ((t.tar + 1) % IncRange) ELSE t.tar

Written(t, x) ==
  CASE ~x.ap /\ x.a = 12 -> [t EXCEPT !.sel = TRUE]
    [] ~x.ap /\ x.a = 0  -> [t EXCEPT !.sticky = FALSE]
    [] ~x.ap /\ x.a = 8  -> [t EXCEPT !.bank = x.d]
    [] ~x.ap /\ x.a = 4  -> IF t.status = "up" THEN t ELSE [t EXCEPT !.status = "asked"]
    [] x.ap /\ t.bank = 0 /\ x.a = 0  -> [t EXCEPT !.inc = TRUE]
    [] x.ap /\ t.bank = 0 /\ x.a = 4  -> [t EXCEPT !.tar = x.d]
    [] x.ap /\ t.bank = 0 /\ x.a = 12 -> [t EXCEPT !.mem[t.tar] = x.d, !.tar = NextTAR(t)]
    [] OTHER -> t

\* An AP read only starts: what it finds is fetched from RDBUFF.
Read(t, x) ==
  IF ~x.ap THEN t
  ELSE IF t.bank = 15 THEN [t EXCEPT !.buf = ApIdent]
  ELSE [t EXCEPT !.buf = t.mem[t.tar], !.tar = NextTAR(t)]

ReadData(t, x) ==
  CASE ~x.ap /\ x.a = 0 -> IdCode
    [] ~x.ap /\ x.a = 4 -> IF t.status = "up" THEN <<1, 1>> ELSE <<0, 0>>
    [] OTHER -> t.buf

\* With an error pending only the status, the identity and ABORT answer.
Refuses(t, x) == t.sticky /\ ~(~x.ap /\ (x.a = 0 \/ (x.rd /\ x.a = 4)))

Replies(t, x) ==
  IF ~held \/ t.deaf \/ (~t.sel /\ ~x.ign) THEN {"none"}
  ELSE IF x.ign THEN {"taken"}
  ELSE IF Refuses(t, x) THEN {"fault"}
  ELSE {"ok"} \cup (IF faults < MaxFaults THEN {"wait"} ELSE {})

TargetDrives ==
  \/ phase = "ack" /\ reply \in {"ok", "wait", "fault"}
  \/ phase = "data" /\ tx.rd

Parity(w) == (w[1] + w[2]) % 2
-----------------------------------------------------------------------------
Init ==
  /\ op = [fn |-> "none", addr |-> 0, data |-> <<>>] /\ pc = 1 /\ phase = "idle"
  /\ held = TRUE /\ got = <<0, 0>> /\ apId = <<0, 0>> /\ last_tar_addr = 0
  /\ out = [code |-> 0, value |-> <<0, 0>>] /\ ready = FALSE
  /\ target = TargetInit /\ reply = "none"
  /\ ops = 0 /\ faults = 0 /\ flipped = FALSE
  /\ pre = [mem |-> TargetInit.mem, held |-> TRUE, faults |-> 0]

Begin(call) ==
  /\ phase = "idle" /\ ops < MaxOps
  /\ op' = call /\ pc' = 1 /\ phase' = "request"
  /\ ops' = ops + 1 /\ flipped' = FALSE /\ last_tar_addr' = 0
  /\ pre' = [mem |-> target.mem, held |-> held, faults |-> faults]
  /\ UNCHANGED <<held, got, apId, out, reply, faults>>

\* Selection alert, activation and line reset: a driven line brings the
\* target to its reset state; what an undriven one does to it is open.
connect ==
  /\ Begin([fn |-> "connect", addr |-> 0, data |-> <<>>])
  /\ ready' = FALSE
  /\ \/ held /\ target' = [target EXCEPT !.deaf = FALSE, !.sel = FALSE]
     \/ ~held /\ \E deaf, sel \in BOOLEAN :
          target' = [target EXCEPT !.deaf = deaf, !.sel = sel /\ target.sel]

Operate == ready /\ (\E c \in Calls : Begin(c)) /\ UNCHANGED <<ready, target>>

Return(code, word) ==
  /\ phase' = "idle"
  /\ out' = [code |-> code, value |-> IF code = 0 THEN Value(op, word) ELSE <<0, 0>>]
  /\ ready' = IF op.fn = "connect" THEN code = 0 ELSE ready
  /\ UNCHANGED <<op, pc>>

Fail(code) == Return(IF tx.err = 0 THEN code ELSE tx.err, <<0, 0>>)

Advance(word) ==
  IF pc = Len(Script(op)) THEN Return(0, word)
  ELSE pc' = After /\ phase' = "request" /\ UNCHANGED <<op, out, ready>>

\* The eight bits of the request, then the host lets go of the line.  A
\* request nobody drove may put the target out of step.
Request ==
  /\ phase = "request" /\ phase' = "ack" /\ held' = FALSE
  /\ reply' \in Replies(target, tx)
  /\ faults' = faults + (IF reply' = "wait" THEN 1 ELSE 0)
  /\ \/ held /\ UNCHANGED target
     \/ ~held /\ \E deaf \in BOOLEAN : target' = [target EXCEPT !.deaf = deaf]
  /\ UNCHANGED <<op, pc, got, apId, last_tar_addr, out, ready, ops, flipped, pre>>

\* Takes the line for the data phase of a read as well.
AckGood_Bug ==
  /\ phase = "ack" /\ (reply = "ok" \/ tx.ign)
  /\ phase' = "data" /\ held' = TRUE
  /\ UNCHANGED <<op, pc, got, apId, last_tar_addr, out, ready, target, reply,
                 ops, faults, flipped, pre>>

AckGood ==
  /\ phase = "ack" /\ (reply = "ok" \/ tx.ign)
  /\ phase' = "data" /\ held' = ~tx.rd
  /\ UNCHANGED <<op, pc, got, apId, last_tar_addr, out, ready, target, reply,
                 ops, faults, flipped, pre>>

\* Returns without taking the line back.
AckBad_Bug ==
  /\ phase = "ack" /\ reply # "ok" /\ ~tx.ign
  /\ Fail(-1)
  /\ UNCHANGED <<held, got, apId, last_tar_addr, target, reply, ops, faults, flipped, pre>>

\* A target that answered WAIT or FAULT with overrun detection on expects a
\* data phase the host does not give it.
AckBad ==
  /\ phase = "ack" /\ reply # "ok" /\ ~tx.ign
  /\ held' = TRUE /\ Fail(-1)
  /\ \/ reply = "none" /\ UNCHANGED target
     \/ reply # "none" /\ \E deaf \in BOOLEAN : target' = [target EXCEPT !.deaf = deaf]
  /\ UNCHANGED <<got, apId, last_tar_addr, reply, ops, faults, flipped, pre>>

\* The host cannot see whether the target took the word: a word of wrong
\* parity is dropped and leaves the error pending.
WriteData ==
  /\ phase = "data" /\ ~tx.rd
  /\ \/ reply = "none" /\ UNCHANGED <<target, faults>>
     \/ reply # "none" /\ target' = Written(target, tx) /\ UNCHANGED faults
     \/ /\ reply # "none" /\ faults < MaxFaults
        /\ target' = [target EXCEPT !.sticky = TRUE] /\ faults' = faults + 1
  /\ last_tar_addr' = IF op.fn = "writeMultiWord" /\ pc % 2 = 1 THEN tx.d ELSE last_tar_addr
  /\ Advance(got)
  /\ UNCHANGED <<held, got, apId, reply, ops, flipped, pre>>

\* The word and the parity bit as they arrive: bit b inverted, 0 for none.
Arrives(word, b) ==
  << IF b \in {1, 2} THEN [word EXCEPT ![b] = 1 - @] ELSE word,
     IF b = 3 THEN 1 - Parity(word) ELSE Parity(word) >>

ParityError(word, parity) == Parity(word) = 1 /\ parity = 0

\* On a parity error the host returns without taking the line back.
ReadWord ==
  /\ phase = "data" /\ tx.rd
  /\ \E b \in 0 .. (IF faults < MaxFaults THEN 3 ELSE 0) :
       LET seen == Arrives(ReadData(target, tx), b) IN
         /\ target' = Read(target, tx)
         /\ faults' = faults + (IF b = 0 THEN 0 ELSE 1)
         /\ flipped' = (flipped \/ b # 0)
         /\ IF ParityError(seen[1], seen[2])
            THEN Fail(-2) /\ UNCHANGED <<held, got, apId>>
            ELSE /\ held' = TRUE /\ got' = seen[1]
                 /\ apId' = IF op.fn = "connect" /\ pc = 9 THEN seen[1] ELSE apId
                 /\ IF op.fn = "connect" /\ pc = 6 /\ seen[1] # <<1, 1>>
                    THEN Return(-7, got) ELSE Advance(seen[1])
  /\ UNCHANGED <<last_tar_addr, reply, ops, pre>>

PowerUp ==
  /\ target.status = "asked" /\ target' = [target EXCEPT !.status = "up"]
  /\ UNCHANGED <<hostVars, reply, ops, faults, flipped, pre>>

Next ==
  \/ connect \/ Operate \/ Request \/ AckGood \/ AckBad \/ WriteData \/ ReadWord \/ PowerUp

Spec == Init /\ [][Next]_vars
-----------------------------------------------------------------------------
(* Properties.                                                             *)

WordAddr(o) == IF o.fn = "readHalfWord" THEN o.addr \div 2 ELSE o.addr
IsRead(o) == o.fn \in {"readWord", "readHalfWord"}

\* Host and target never drive the data line together, and one of them does
\* in a data phase.  Between transactions the host drives it, except after a
\* read with a parity error: the next call, and only its first transaction,
\* finds the line released (_read(), _write(), _holdDIO(), _releaseDIO()).
LineOwnership ==
  /\ ~(held /\ TargetDrives)
  /\ phase = "data" => held \/ TargetDrives
  /\ phase = "request" /\ ~held => pc = 1 /\ ~pre.held
  /\ phase = "idle" /\ ~held => tx.rd /\ out.code # 0

\* What memory holds when the first n words of a call have been written.
Stored(n) ==
  [a \in Addr |-> IF a - op.addr \in 0 .. n - 1 THEN op.data[a - op.addr + 1] ELSE pre.mem[a]]

\* A write, of one word or of a block that crosses the increment range, has
\* stored a prefix of its data at consecutive addresses and nothing else; if
\* it returns 0 all of it, but for a last word lost on the line, of which the
\* target keeps a pending error (writeWordViaAP(), writeMultiWordViaAP()).
WritesAPrefix ==
  phase = "idle" /\ op.fn \in {"writeWord", "writeMultiWord"} =>
    \E n \in 0 .. Len(op.data) :
      /\ target.mem = Stored(n)
      /\ out.code = 0 => n = Len(op.data) \/ (n = Len(op.data) - 1 /\ target.sticky)

\* A read that returns a value returns the one in memory, whatever failed
\* before it, unless a bit of one of its own data phases was inverted: never
\* the word of an earlier access (readWordViaAP(), readHalfWordViaAP()).
ReadIsTrue ==
  phase = "idle" /\ IsRead(op) /\ out.code = 0 /\ ~flipped =>
    out.value = Value(op, target.mem[WordAddr(op)])

\* The even parity of a data phase ("so an extra one should be added only if
\* the rest of the count is odd", _write()) detects one inverted bit: a read
\* that had one does not return a wrong value as good (_read()).
ParityDetects ==
  phase = "idle" /\ IsRead(op) /\ out.code = 0 =>
    out.value = Value(op, target.mem[WordAddr(op)])

\* A connect() without faults succeeds, or finds the target not powered up
\* yet; where it fails because an earlier parity error left the line
\* released, it has taken it back, so that the next one succeeds.
ReconnectWorks ==
  phase = "idle" /\ op.fn = "connect" /\ faults = pre.faults =>
    /\ pre.held => out.code \in {0, -7}
    /\ held
=============================================================================
