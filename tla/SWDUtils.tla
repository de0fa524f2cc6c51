------------------------------ MODULE SWDUtils ------------------------------
(***************************************************************************)
(* Flashing an RP2040 through its debug port (SWDUtils.cpp): the target is *)
(* reset into debug, its ROM routines are called one after the other with  *)
(* arguments planted in the core's registers, and it is reset again.       *)
(*                                                                         *)
(* An access of the driver is one step, which works or fails; a word lost  *)
(* without notice makes the next access fail (SWDDriver, WritesAPrefix).   *)
(* The core works beside the host: a register transfer and a ROM routine   *)
(* take their time.  A page of flash or RAM holds one of the image's pages *)
(* (from 1), or is Blank, Bad or Old.                                      *)
(***************************************************************************)
EXTENDS Integers, Sequences

CONSTANTS
  NPages,      \* pages of flash
  Offset,      \* where the image goes
  ImagePages,  \* length of the image in pages (a multiple of 4096 bytes)
  Tables,      \* the ROM tables there may be: sequences of <<code, address>>
  MaxFaults    \* bound on failing accesses and failing programmings

Page == 0 .. NPages - 1
Image == 1 .. ImagePages
NotYet == 1    \* no return code is positive
Blank == 0
Bad == -1
Old == -2

\* A ROM has one entry for a code, and a routine begins where no other does.
SWDUtilsAssumption ==
  /\ NPages \in Nat /\ Offset \in Nat /\ ImagePages \in Nat
  /\ Offset + ImagePages <= NPages /\ MaxFaults \in Nat
  /\ \A t \in Tables :
       /\ t \in Seq(STRING \X (Nat \ {0}))
       /\ \A i, j \in DOMAIN t : i # j => t[i][1] # t[j][1] /\ t[i][2] # t[j][2]

VARIABLES
  job, stage, at,       \* the host: function, its stage, the access it is at
  found, mismatch,      \* what flash_and_verify() found in the ROM, and reported
  result,               \* what the function returned
  core, flash, mode, ram, table,  \* the target
  faults

hostVars == <<job, stage, at, found, mismatch, result>>
vars == <<hostVars, core, flash, mode, ram, table, faults>>
-----------------------------------------------------------------------------
(* The accesses of a function.  A code is the ROM's name of a routine.     *)

Do(kind, reg, val, err) == [kind |-> kind, reg |-> reg, val |-> val, err |-> err]

MSP == 80
EPSR == 24

\* Does not wait for a transfer before it starts the next one.
SetRegs_Bug(regs) ==
  [i \in 1 .. 2 * Len(regs) |->
     LET r == regs[(i + 1) \div 2]
         k == (i - 1) % 2
     IN Do(<<"data", "write">>[k + 1], r[1], r[2], r[3] - k)]

\* A core register is written by way of DCRDR and DCRSR, then S_REGRDY is
\* polled: <<register, value, error>>, the error one less with each access.
SetRegs(regs) ==
  [i \in 1 .. 3 * Len(regs) |->
     LET r == regs[(i + 2) \div 3]
         k == (i - 1) % 3
     IN Do(<<"data", "write", "poll">>[k + 1], r[1], r[2], r[3] - k)]

Registers(c) ==
  << <<"r7", found[c.code], -1>>, <<"r0", c.a[1], -4>>, <<"r1", c.a[2], -4>>,
     <<"r2", c.a[3], -4>>, <<"r3", c.a[4], -4>>, <<"msp", MSP, -7>>,
     <<"xpsr", EPSR, -10>>, <<"pc", found["DT"], -10>> >>

call_function(c) ==
  SetRegs(Registers(c))
  \o << Do("dfsr", "none", 0, -17), Do("dfsr", "none", 0, -13), Do("resume", "none", 0, -13),
        Do("wait", "none", 0, -14), Do("ask", "r0", 0, -15), Do("poll", "r0", 0, -16),
        Do("get", "r0", 0, -17) >>

Stage(kind, code, a) == [kind |-> kind, code |-> code, a |-> a]
Call(code, a) == Stage("call", code, a)
Plain(code) == Call(code, <<0, 0, 0, 0>>)

reset_into_debug ==
  << Do("halt", "none", 0, -7), Do("vc", "none", 1, -8), Do("sysreset", "none", 0, -9) >>
reset == << Do("vc", "none", 0, -13), Do("leave", "none", 0, -14), Do("sysreset", "none", 0, -15) >>

\* Each page is copied into RAM and then used there.
Copy(p) == Stage("copy", "none", p)
Program(p) == Call("RP", <<Offset + p - 1, 0, 1, 0>>)
Compare(p) == Stage("compare", "none", p)

EachPage(Use(_)) ==
  [i \in 1 .. 2 * ImagePages |->
     LET p == (i + 1) \div 2 IN IF i % 2 = 1 THEN Copy(p) ELSE Use(p)]

\* Erases from the start of flash.
Erase_Bug == Call("RE", <<0, ImagePages, 16, 216>>)

Erase == Call("RE", <<Offset, ImagePages, 16, 216>>)

\* Leaves the flash in the state it was programmed in.
Remap_Bug == << Plain("FC") >>

Remap == << Plain("FC"), Plain("CX") >>

flash_and_verify ==
  << Stage("vtor", "none", 0), Stage("table", "none", 0),
     Plain("IF"), Plain("EX"), Erase, Plain("FC") >>
  \o EachPage(Program) \o Remap \o EachPage(Compare)

Codes == {"IF", "EX", "RE", "RP", "FC", "CX", "DT", "DE"}
Missing == [c \in Codes |-> 0]

Has(t, c) == \E i \in DOMAIN t : t[i][1] = c
Complete(t) == \A c \in Codes : Has(t, c)
AddressOf(t, c) == t[CHOOSE i \in DOMAIN t : t[i][1] = c][2]

now == flash_and_verify[stage]

\* The pointer to the table is read, then code and address of each entry.
TableAccess(i) ==
  IF i = 1 THEN Do("pointer", "none", 0, -3)
  ELSE IF i % 2 = 0 THEN Do("code", "none", i \div 2, -4)
  ELSE Do("entry", "none", i \div 2, -5)

\* The accesses of the stage of the function.
Accesses ==
  CASE job = "reset_into_debug" -> reset_into_debug
    [] job = "reset" -> reset
    [] OTHER ->
  CASE now.kind = "vtor" -> <<Do("vtor", "none", 0, -12)>>
    [] now.kind = "table" -> [i \in 1 .. 2 * Len(table) + 3 |-> TableAccess(i)]
    [] now.kind = "call" -> call_function(now)
    [] OTHER -> <<Do(now.kind, "none", now.a, -1)>>

access == Accesses[at]
-----------------------------------------------------------------------------
Regs == {"r0", "r1", "r2", "r3", "r7", "msp", "xpsr", "pc"}
NoTransfer == [reg |-> "none", dir |-> "none"]

Init ==
  /\ job = "reset_into_debug" /\ stage = 1 /\ at = 1
  /\ found = Missing /\ mismatch = FALSE /\ result = NotYet
  /\ core = [run |-> TRUE, debug |-> FALSE, vc |-> FALSE, rst |-> FALSE,
             dcrdr |-> 0, xfer |-> NoTransfer, regs |-> [r \in Regs |-> 0]]
  /\ flash = [p \in Page |-> Old] /\ mode = "xip" /\ ram = Old
  /\ table \in Tables /\ faults = 0

core_transfer ==
  /\ core.xfer # NoTransfer /\ ~core.run
  /\ core' = IF core.xfer.dir = "write"
             THEN [core EXCEPT !.xfer = NoTransfer, !.regs[core.xfer.reg] = core.dcrdr]
             ELSE [core EXCEPT !.xfer = NoTransfer, !.dcrdr = core.regs[core.xfer.reg]]
  /\ UNCHANGED <<hostVars, flash, mode, ram, table, faults>>

\* A routine runs to the breakpoint behind the trampoline.  A core that is
\* started anywhere else never gets there.
Routine(c) ==
  /\ core.run /\ core.debug /\ ~core.rst /\ Has(table, c) /\ Has(table, "DT")
  /\ core.regs.pc = AddressOf(table, "DT") /\ core.regs.r7 = AddressOf(table, c)
  /\ core' = [core EXCEPT !.run = FALSE]
  /\ UNCHANGED <<hostVars, ram, table>>

Erased == {p \in Page : p - core.regs.r0 \in 0 .. core.regs.r1 - 1}

run_serial ==
  \E c \in {"IF", "EX"} : Routine(c) /\ mode' = "serial" /\ UNCHANGED <<flash, faults>>

run_erase ==
  /\ Routine("RE") /\ mode = "serial"
  /\ flash' = [p \in Page |-> IF p \in Erased THEN Blank ELSE flash[p]]
  /\ UNCHANGED <<mode, faults>>

\* Programming clears bits: only a blank page takes what is written.
run_program ==
  /\ Routine("RP") /\ mode \in {"serial", "flushed"} /\ mode' = "serial"
  /\ \/ /\ flash' = [flash EXCEPT ![core.regs.r0] = IF @ = Blank THEN ram ELSE Bad]
        /\ UNCHANGED faults
     \/ /\ faults < MaxFaults /\ faults' = faults + 1
        /\ flash' = [flash EXCEPT ![core.regs.r0] = Bad]

\* The cache is flushed and then the flash is mapped again.
run_mapped ==
  /\ \/ Routine("FC") /\ mode' = IF mode = "serial" THEN "flushed" ELSE mode
     \/ Routine("CX") /\ mode' = IF mode = "flushed" THEN "xip" ELSE "stale"
  /\ UNCHANGED <<flash, faults>>

\* After a reset the core runs, or is caught at its first instruction.
core_reset ==
  /\ core.rst
  /\ core' = [core EXCEPT !.rst = FALSE, !.run = ~(core.debug /\ core.vc),
                          !.xfer = NoTransfer, !.regs = [r \in Regs |-> 0]]
  /\ mode' = "off"
  /\ UNCHANGED <<hostVars, flash, ram, table, faults>>
-----------------------------------------------------------------------------
CoreAfter(a) ==
  CASE a.kind = "data"     -> [core EXCEPT !.dcrdr = a.val]
    [] a.kind = "write"    -> [core EXCEPT !.xfer = [reg |-> a.reg, dir |-> "write"]]
    [] a.kind = "ask"      -> [core EXCEPT !.xfer = [reg |-> a.reg, dir |-> "read"]]
    [] a.kind = "resume"   -> [core EXCEPT !.run = TRUE]
    [] a.kind = "halt"     -> [core EXCEPT !.debug = TRUE, !.run = FALSE]
    [] a.kind = "leave"    -> [core EXCEPT !.debug = FALSE, !.run = TRUE]
    [] a.kind = "vc"       -> [core EXCEPT !.vc = (a.val = 1)]
    [] a.kind = "sysreset" -> [core EXCEPT !.rst = TRUE]
    [] OTHER -> core

\* Stops at the entry before the last one.
FoundAfter_Bug(a) ==
  IF a.kind = "entry" /\ a.val \in DOMAIN table \ {Len(table)} /\ table[a.val][1] \in Codes
  THEN [found EXCEPT ![table[a.val][1]] = table[a.val][2]] ELSE found

\* With the address of an entry the program knows it.  The last entry is the
\* null code, behind the table.
FoundAfter(a) ==
  IF a.kind = "entry" /\ a.val \in DOMAIN table /\ table[a.val][1] \in Codes
  THEN [found EXCEPT ![table[a.val][1]] = table[a.val][2]] ELSE found

\* What reading a flash page by its address gives.
Mapped(p) == IF mode = "xip" THEN flash[Offset + p - 1] ELSE Bad

Finished ==
  IF at < Len(Accesses) THEN at' = at + 1 /\ UNCHANGED <<stage, result>>
  ELSE IF job = "flash_and_verify" /\ stage < Len(flash_and_verify)
  THEN stage' = stage + 1 /\ at' = 1 /\ UNCHANGED result
  ELSE result' = 0 /\ UNCHANGED <<stage, at>>

\* The two polls go round until the core is ready, pollREGRDY() whatever its
\* timeoutUs is.  A page that differs is reported, and the next one compared.
AccessWorks ==
  /\ result = NotYet
  /\ access.kind = "poll" => core.xfer = NoTransfer
  /\ access.kind = "wait" => ~core.run
  /\ core' = CoreAfter(access) /\ found' = FoundAfter(access)
  /\ ram' = IF access.kind = "copy" THEN access.val ELSE ram
  /\ mismatch' = (mismatch \/ (access.kind = "compare" /\ Mapped(access.val) # ram))
  /\ Finished
  /\ UNCHANGED <<job, flash, mode, table, faults>>

AccessFails ==
  /\ result = NotYet /\ faults < MaxFaults /\ faults' = faults + 1
  /\ result' = IF job = "flash_and_verify" /\ now.kind = "call" THEN -1 ELSE access.err
  /\ UNCHANGED <<job, stage, at, found, mismatch, core, flash, mode, ram, table>>

\* The caller goes on when a function returned 0.  That the reset is over by
\* then is what the 10 ms of reset_into_debug() are for.
NextJob ==
  /\ result = 0 /\ ~core.rst /\ job # "reset"
  /\ job' = IF job = "reset_into_debug" THEN "flash_and_verify" ELSE "reset"
  /\ stage' = 1 /\ at' = 1 /\ result' = NotYet
  /\ UNCHANGED <<found, mismatch, core, flash, mode, ram, table, faults>>

Host == AccessWorks \/ NextJob
Core == core_transfer \/ run_serial \/ run_erase \/ run_program \/ run_mapped \/ core_reset
Next == Host \/ AccessFails \/ Core

Spec == Init /\ [][Next]_vars /\ WF_vars(Host) /\ WF_vars(Core)
-----------------------------------------------------------------------------
(* Properties.                                                             *)

\* Whenever the core runs under the debugger it has the routine, arguments,
\* stack and return address of the call in progress, though each went
\* through the one data register (call_function(), pollREGRDY()).
RunsAsAsked ==
  job = "flash_and_verify" /\ core.run =>
    /\ now.kind = "call"
    /\ core.regs.r7 = found[now.code] /\ core.regs.pc = found["DT"]
    /\ core.regs.r0 = now.a[1] /\ core.regs.r1 = now.a[2]
    /\ core.regs.r2 = now.a[3] /\ core.regs.r3 = now.a[4]
    /\ core.regs.msp = MSP /\ core.regs.xpsr = EPSR

\* Flash changes only inside the image's range, and is programmed only where
\* it has been erased before (flash_and_verify()).
OnlyErasedPages ==
  [][\A p \in Page : flash'[p] # flash[p] =>
       /\ p \in Offset .. Offset + ImagePages - 1
       /\ flash'[p] # Blank => flash[p] = Blank]_vars

\* flash_and_verify() returns 0 after every page was programmed, and reports
\* a mismatch exactly if a page differs: the compare sees the flash itself,
\* not a stale or unmapped one.
Flashed == \A p \in Image : flash[Offset + p - 1] = p
ReportsBadPages ==
  job = "flash_and_verify" /\ result = 0 => (mismatch <=> ~Flashed)

\* Where the ROM has all the routines, flash_and_verify() returns, though no
\* poll has a time-out.
FlashReturns ==
  Complete(table) /\ job = "flash_and_verify" /\ result = NotYet ~> result # NotYet
=============================================================================
