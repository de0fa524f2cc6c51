-------------------------- MODULE MCSignals_proofs --------------------------
(***************************************************************************)
(* What holds of the components that turn time or samples into events, for *)
(* every value of their constants.  Each theorem is about the specification *)
(* of one component, as MCSignals instantiates it.                         *)
(***************************************************************************)
EXTENDS MCSignals, TLAPS

-----------------------------------------------------------------------------
(***************************************************************************)
(* DTMFDetector2 reports exactly the key presses, for any set of symbols   *)
(* and any sequence of blocks.                                             *)
(*                                                                         *)
(* The invariant says how the counters and the state follow from the last  *)
(* few blocks: the silence counter is the length of the silence at the     *)
(* end; PRE_DSC is where, and only where, one to three blocks of a symbol  *)
(* follow a silence; and a silence of three blocks has ended whatever went *)
(* on before.                                                              *)
(***************************************************************************)

Silent(h, k) == \A i \in 1..8 : i > 8 - k => h[i] = None

\* The last v blocks hold one symbol, the four before them none.
Begun(h, v) ==
  /\ h[8] # None
  /\ \A i \in 1..8 : i > 8 - v => h[i] = h[8]
  /\ \A i \in 1..8 : i > 4 - v /\ i <= 8 - v => h[i] = None

DetectorTypeOK ==
  /\ state \in {"INVALID", "PRE_DSC", "DSC", "DSC_DROP"}
  /\ invalidCount \in 0..4 /\ validCount \in Nat /\ dropCount \in Nat
  /\ potentialSymbol \in Found
  /\ history \in [1..8 -> Found]

SilenceCounted ==
  /\ invalidCount >= 1 <=> Silent(history, 1)
  /\ invalidCount >= 2 <=> Silent(history, 2)
  /\ invalidCount >= 3 <=> Silent(history, 3)
  /\ invalidCount >= 4 <=> Silent(history, 4)

PressUnderWay ==
  /\ state = "PRE_DSC"
       => /\ validCount \in 1..3
          /\ Begun(history, validCount) /\ potentialSymbol = history[8]
  /\ \A v \in 1..3 :
       Begun(history, v)
         => state = "PRE_DSC" /\ validCount = v /\ potentialSymbol = history[8]

DropOuts ==
  /\ state \in {"DSC", "DSC_DROP"} => potentialSymbol \in Symbols
  /\ state = "DSC_DROP" => dropCount \in 1..2

SilenceEnds ==
  state # "INVALID" =>
    /\ ~Silent(history, 3)
    /\ Silent(history, 1) => state = "DSC_DROP"
    /\ Silent(history, 2) => dropCount = 2

IInv ==
  /\ DetectorTypeOK /\ SilenceCounted /\ PressUnderWay
  /\ DropOuts /\ SilenceEnds /\ ReportsEachPress

-----------------------------------------------------------------------------
LEMMA SilentMeans ==
  ASSUME NEW h
  PROVE  /\ Silent(h, 1) <=> h[8] = None
         /\ Silent(h, 2) <=> h[8] = None /\ h[7] = None
         /\ Silent(h, 3) <=> h[8] = None /\ h[7] = None /\ h[6] = None
         /\ Silent(h, 4)
              <=> h[8] = None /\ h[7] = None /\ h[6] = None /\ h[5] = None
BY DEF Silent

LEMMA BegunMeans ==
  ASSUME NEW h
  PROVE  /\ Begun(h, 1)
              <=> /\ h[8] # None
                  /\ h[7] = None /\ h[6] = None /\ h[5] = None /\ h[4] = None
         /\ Begun(h, 2)
              <=> /\ h[8] # None /\ h[7] = h[8]
                  /\ h[6] = None /\ h[5] = None /\ h[4] = None /\ h[3] = None
         /\ Begun(h, 3)
              <=> /\ h[8] # None /\ h[7] = h[8] /\ h[6] = h[8]
                  /\ h[5] = None /\ h[4] = None /\ h[3] = None /\ h[2] = None
BY DEF Begun

LEMMA PressedMeans ==
  ASSUME NEW h
  PROVE  Pressed(h)
           <=> /\ h[8] # None /\ h[7] = h[8] /\ h[6] = h[8] /\ h[5] = h[8]
               /\ h[4] = None /\ h[3] = None /\ h[2] = None /\ h[1] = None
BY DEF Pressed

\* What one more block makes of a silence and of the start of a press.
LEMMA OneMoreBlock ==
  ASSUME NEW h \in [1..8 -> Found], NEW sym \in Found
  PROVE  LET g == Shifted(h, sym)
         IN  /\ g \in [1..8 -> Found] /\ g[8] = sym
             /\ Silent(g, 1) <=> sym = None
             /\ Silent(g, 2) <=> sym = None /\ Silent(h, 1)
             /\ Silent(g, 3) <=> sym = None /\ Silent(h, 2)
             /\ Silent(g, 4) <=> sym = None /\ Silent(h, 3)
             /\ Begun(g, 1) <=> sym # None /\ Silent(h, 4)
             /\ Begun(g, 2) <=> sym = h[8] /\ Begun(h, 1)
             /\ Begun(g, 3) <=> sym = h[8] /\ Begun(h, 2)
             /\ Pressed(g) <=> sym = h[8] /\ Begun(h, 3)
<1> DEFINE g == Shifted(h, sym)
<1>1. g \in [1..8 -> Found]
  BY DEF Shifted
<1>2. /\ g[8] = sym /\ g[7] = h[8] /\ g[6] = h[7] /\ g[5] = h[6]
      /\ g[4] = h[5] /\ g[3] = h[4] /\ g[2] = h[3] /\ g[1] = h[2]
  BY DEF Shifted
<1> HIDE DEF g
<1>3. /\ Silent(g, 1) <=> sym = None
      /\ Silent(g, 2) <=> sym = None /\ Silent(h, 1)
      /\ Silent(g, 3) <=> sym = None /\ Silent(h, 2)
      /\ Silent(g, 4) <=> sym = None /\ Silent(h, 3)
  BY <1>2, SilentMeans
<1>4. /\ Begun(g, 1) <=> sym # None /\ Silent(h, 4)
      /\ Begun(g, 2) <=> sym = h[8] /\ Begun(h, 1)
      /\ Begun(g, 3) <=> sym = h[8] /\ Begun(h, 2)
  BY <1>2, SilentMeans, BegunMeans
<1>5. Pressed(g) <=> sym = h[8] /\ Begun(h, 3)
  BY <1>2, BegunMeans, PressedMeans
<1>6. QED
  BY <1>1, <1>2, <1>3, <1>4, <1>5 DEF g

\* The silence counter stays the length of the silence, whatever the state.
LEMMA SilenceStaysCounted ==
  ASSUME IInv, NEW sym \in Found, processBlock(sym)
  PROVE  invalidCount' \in 0..4 /\ SilenceCounted'
<1>1. invalidCount' = IF sym # None THEN 0
                      ELSE IF invalidCount >= 4 THEN invalidCount
                      ELSE invalidCount + 1
  BY DEF processBlock, SilenceBefore, THR_BLOCKS_40MS
<1>2. history \in [1..8 -> Found] /\ history' = Shifted(history, sym)
  BY DEF processBlock, IInv, DetectorTypeOK
<1>3. /\ Silent(history', 1) <=> sym = None
      /\ Silent(history', 2) <=> sym = None /\ Silent(history, 1)
      /\ Silent(history', 3) <=> sym = None /\ Silent(history, 2)
      /\ Silent(history', 4) <=> sym = None /\ Silent(history, 3)
  BY <1>2, OneMoreBlock
<1>4. invalidCount \in 0..4 /\ SilenceCounted
  BY DEF IInv, DetectorTypeOK
<1>5. invalidCount' \in 0..4
  BY <1>1, <1>4
<1>6. QED
  BY <1>1, <1>3, <1>4, <1>5 DEF SilenceCounted

\* What a block leaves to be shown in each state once the history is known.
LEMMA BlockKeeps ==
  ASSUME IInv, NEW sym \in Found, processBlock(sym)
  PROVE  IInv'
<1>1. history' \in [1..8 -> Found] /\ history'[8] = sym
  BY OneMoreBlock DEF processBlock, IInv, DetectorTypeOK
<1>2. /\ Silent(history', 1) <=> sym = None
      /\ Silent(history', 2) <=> sym = None /\ Silent(history, 1)
      /\ Silent(history', 3) <=> sym = None /\ Silent(history, 2)
  BY OneMoreBlock DEF processBlock, IInv, DetectorTypeOK
<1>3. /\ Begun(history', 1) <=> sym # None /\ invalidCount >= 4
      /\ Begun(history', 2) <=> sym = history[8] /\ Begun(history, 1)
      /\ Begun(history', 3) <=> sym = history[8] /\ Begun(history, 2)
      /\ Pressed(history') <=> sym = history[8] /\ Begun(history, 3)
  BY OneMoreBlock DEF processBlock, IInv, DetectorTypeOK, SilenceCounted
<1>4. invalidCount >= 4 => state = "INVALID"
  BY SilentMeans DEF IInv, SilenceCounted, SilenceEnds
<1>5. None \notin Symbols /\ Found = Symbols \cup {None}
  BY SymbolAssumption DEF Found
<1>6. invalidCount' \in 0..4 /\ SilenceCounted'
  BY SilenceStaysCounted
<1>7. CASE invalid(sym)
  <2>1. state = "INVALID" /\ ~Begun(history, 1) /\ ~Begun(history, 2)
        /\ ~Begun(history, 3)
    BY <1>7 DEF invalid, IInv, PressUnderWay
  <2>2. DetectorTypeOK' /\ DropOuts'
    BY <1>1, <1>5, <1>6, <1>7 DEF invalid, IInv, DetectorTypeOK, DropOuts, SilenceBefore
  <2>3. PressUnderWay'
    BY <1>1, <1>3, <1>7, <2>1
    DEF invalid, IInv, DetectorTypeOK, PressUnderWay, SilenceBefore, THR_BLOCKS_40MS
  <2>4. SilenceEnds'
    BY <1>2, <1>7, SilentMeans DEF invalid, SilenceEnds
  <2>5. ReportsEachPress'
    BY <1>3, <1>7, <2>1 DEF invalid, ReportsEachPress
  <2>6. QED
    BY <1>6, <2>2, <2>3, <2>4, <2>5 DEF IInv
<1>8. CASE pre_dsc(sym)
  <2>1. /\ state = "PRE_DSC" /\ validCount \in 1..3
        /\ Begun(history, validCount) /\ potentialSymbol = history[8]
        /\ \A v \in 1..3 : Begun(history, v) => validCount = v
        /\ potentialSymbol \in Symbols
    BY <1>5, <1>8, BegunMeans DEF pre_dsc, IInv, PressUnderWay, DetectorTypeOK
  <2>2. DetectorTypeOK' /\ DropOuts'
    BY <1>1, <1>5, <1>6, <1>8, <2>1
    DEF pre_dsc, IInv, DetectorTypeOK, DropOuts, Persisted
  <2>3. PressUnderWay'
    <3>1. CASE sym = potentialSymbol /\ validCount < 3
      BY <1>1, <1>3, <1>4, <1>8, <2>1, <3>1
      DEF pre_dsc, PressUnderWay, Persisted, THR_BLOCKS_40MS
    <3>2. CASE sym = potentialSymbol /\ validCount = 3
      BY <1>1, <1>3, <1>4, <1>8, <2>1, <3>2
      DEF pre_dsc, PressUnderWay, Persisted, THR_BLOCKS_40MS
    <3>3. CASE sym # potentialSymbol
      BY <1>1, <1>3, <1>4, <1>8, <2>1, <3>3 DEF pre_dsc, PressUnderWay
    <3>4. QED
      BY <2>1, <3>1, <3>2, <3>3
  <2>4. SilenceEnds'
    BY <1>2, <1>5, <1>8, <2>1, SilentMeans DEF pre_dsc, SilenceEnds
  <2>5. ReportsEachPress'
    BY <1>1, <1>3, <1>5, <1>8, <2>1
    DEF pre_dsc, ReportsEachPress, Persisted, THR_BLOCKS_40MS
  <2>6. QED
    BY <1>6, <2>2, <2>3, <2>4, <2>5 DEF IInv
<1>9. ASSUME dsc(sym) \/ dsc_drop(sym) PROVE IInv'
  <2>1. state \in {"DSC", "DSC_DROP"} /\ potentialSymbol \in Symbols
        /\ ~Begun(history, 1) /\ ~Begun(history, 2) /\ ~Begun(history, 3)
    BY <1>9 DEF dsc, dsc_drop, IInv, PressUnderWay, DropOuts
  <2>2. state' # "PRE_DSC" /\ reported' = None
    BY <1>9, <2>1 DEF dsc, dsc_drop
  <2>3. DetectorTypeOK'
    BY <1>1, <1>5, <1>6, <1>9 DEF dsc, dsc_drop, IInv, DetectorTypeOK
  <2>4. DropOuts'
    BY <1>9, <2>1
    DEF dsc, dsc_drop, IInv, DetectorTypeOK, DropOuts, THR_BLOCKS_20MS
  <2>5. PressUnderWay'
    BY <1>3, <1>4, <2>1, <2>2 DEF PressUnderWay
  <2>6. SilenceEnds'
    <3>1. CASE dsc(sym)
      BY <1>2, <1>5, <2>1, <3>1, SilentMeans DEF dsc, IInv, SilenceEnds
    <3>2. CASE dsc_drop(sym)
      BY <1>2, <1>5, <2>1, <3>2, SilentMeans
      DEF dsc_drop, IInv, SilenceEnds, DropOuts, THR_BLOCKS_20MS
    <3>3. QED
      BY <1>9, <3>1, <3>2
  <2>7. ReportsEachPress'
    BY <1>3, <2>1, <2>2 DEF ReportsEachPress
  <2>8. QED
    BY <1>6, <2>3, <2>4, <2>5, <2>6, <2>7 DEF IInv
<1>10. QED
  BY <1>7, <1>8, <1>9 DEF processBlock

LEMMA InitHolds == Init => IInv
<1> SUFFICES ASSUME Init PROVE IInv
  OBVIOUS
<1>1. PICK s \in Symbols : history = [i \in 1..8 |-> s]
  BY SymbolAssumption DEF Init
<1>2. s # None
  BY SymbolAssumption
<1>3. /\ ~Silent(history, 1) /\ ~Silent(history, 2)
      /\ ~Silent(history, 3) /\ ~Silent(history, 4)
  BY <1>1, <1>2, SilentMeans
<1>4. ~Begun(history, 1) /\ ~Begun(history, 2) /\ ~Begun(history, 3)
  BY <1>1, <1>2, BegunMeans
<1>5. ~Pressed(history)
  BY <1>1, <1>2, PressedMeans
<1>6. DetectorTypeOK
  BY <1>1 DEF Init, DetectorTypeOK, Found
<1>7. QED
  BY <1>3, <1>4, <1>5, <1>6
  DEF Init, IInv, SilenceCounted, PressUnderWay, DropOuts, SilenceEnds, ReportsEachPress

-----------------------------------------------------------------------------
\* Every key press is reported, by its fourth block, and nothing else is
\* (DTMFDetector2.cpp:169-238), for every keypad and every sequence of
\* blocks, however drop-outs, other symbols and popDetection() fall.
THEOREM PressTheorem == Spec => []ReportsEachPress
<1>1. Init => IInv
  BY InitHolds
<1>2. IInv /\ [Next]_vars => IInv'
  <2> SUFFICES ASSUME IInv, [Next]_vars PROVE IInv'
    OBVIOUS
  <2>1. ASSUME NEW sym \in Found, processBlock(sym) PROVE IInv'
    BY <2>1, BlockKeeps
  <2>2. CASE popDetection \/ UNCHANGED vars
    <3>1. UNCHANGED <<state, counts, potentialSymbol, history, reported>>
      BY <2>2 DEF popDetection, vars
    <3>2. QED
      BY <3>1 DEF counts, IInv, DetectorTypeOK, SilenceCounted, PressUnderWay,
                  DropOuts, SilenceEnds, ReportsEachPress
  <2>3. QED
    BY <2>1, <2>2 DEF Next
<1>3. IInv => ReportsEachPress
  BY DEF IInv
<1>4. QED
  BY <1>1, <1>2, <1>3, PTL DEF Spec

-----------------------------------------------------------------------------
(***************************************************************************)
(* One press of a key is one result of the older detector, for every set   *)
(* of symbols and every size of the result queue.  Whether a symbol has    *)
(* ceased is read off the last four blocks, so the invariant says how far  *)
(* back in the history its last block is, and what a press that is under   *)
(* way looks like.                                                         *)
(***************************************************************************)

HistoryOK ==
  /\ vscHist = [i \in 1 .. 8 |-> vscHist[i]] /\ \A i \in 1 .. 8 : vscHist[i] \in Old!Found
  /\ since \in 0 .. 4 /\ inDSC \in BOOLEAN
  /\ inDSC => oldSymbol \in Symbols

\* Until the symbol has been away for four blocks, its last block is in the
\* history, right behind those that are counted.
AwayCounted ==
  since < 4 =>
    /\ inDSC
    /\ vscHist[since + 1] = oldSymbol
    /\ \A i \in 1 .. since : vscHist[i] # oldSymbol

\* n blocks of s follow four of silence.
UnderWay(s, n) ==
  /\ \A i \in 1 .. n : vscHist[i] = s
  /\ \A i \in n + 1 .. n + 4 : vscHist[i] = None

\* A press that follows silence meets a detector that is not in the middle of
\* another symbol, and its fourth block is recognised.
PressesSeen ==
  \A s \in Symbols, n \in 1 .. 4 :
    UnderWay(s, n) => /\ inDSC => oldSymbol = s
                      /\ n = 4 => inDSC

DInv == HistoryOK /\ AwayCounted /\ PressesSeen

LEMMA DInvInit == Old!Init => DInv
<1> SUFFICES ASSUME Old!Init PROVE DInv
  OBVIOUS
<1>1. HistoryOK /\ AwayCounted
  <2>1. inDSC \in BOOLEAN /\ ~inDSC
    BY DEF Old!Init
  <2>2. /\ vscHist = [i \in 1 .. 8 |-> vscHist[i]]
        /\ \A i \in 1 .. 8 : vscHist[i] = None
        /\ since = 4
    BY DEF Old!Init
  <2>3. QED
    BY <2>1, <2>2 DEF HistoryOK, AwayCounted, Old!Found
<1>2. ASSUME NEW s \in Symbols, NEW n \in 1 .. 4 PROVE ~UnderWay(s, n)
  <2>1. 1 \in 1 .. n /\ vscHist[1] = None /\ s # None
    BY SymbolAssumption DEF Old!Init
  <2>2. QED
    BY <2>1 DEF UnderWay
<1>3. QED
  BY <1>1, <1>2 DEF DInv, PressesSeen

\* The history after a block is the old one moved by one.
LEMMA Moved ==
  ASSUME HistoryOK, NEW sym \in Old!Found
  PROVE  LET h == Old!Shifted(vscHist, sym) IN
           /\ h[1] = sym /\ \A i \in 2 .. 8 : h[i] = vscHist[i - 1]
           /\ h = [i \in 1 .. 8 |-> h[i]] /\ \A i \in 1 .. 8 : h[i] \in Old!Found
BY DEF HistoryOK, Old!Shifted

LEMMA RecogniseStep ==
  ASSUME DInv, NEW sym \in Old!Found, NEW h, h = Old!Shifted(vscHist, sym),
         vscHist' = h, Old!recognise(h)
  PROVE  DInv'
<1>1. /\ h[1] = sym /\ \A i \in 2 .. 8 : h[i] = vscHist[i - 1]
      /\ h = [i \in 1 .. 8 |-> h[i]] /\ \A i \in 1 .. 8 : h[i] \in Old!Found
  BY Moved DEF DInv
<1>2. inDSC' = TRUE /\ oldSymbol' = sym /\ since' = 0 /\ sym # None
  BY <1>1 DEF Old!recognise, Old!Recognised
<1>3. HistoryOK' /\ AwayCounted'
  BY <1>1, <1>2 DEF HistoryOK, AwayCounted, Old!Found
<1>4. PressesSeen'
  <2> SUFFICES ASSUME NEW s \in Symbols, NEW n \in 1 .. 4, UnderWay(s, n)' PROVE sym = s
    BY <1>2 DEF PressesSeen
  <2>1. 1 \in 1 .. n
    OBVIOUS
  <2>2. QED
    BY <1>1, <2>1 DEF UnderWay
<1>5. QED
  BY <1>3, <1>4 DEF DInv

\* The detector lets go of a symbol exactly when the fourth block without it
\* is counted.
LEMMA ListenStep ==
  ASSUME DInv, NEW sym \in Old!Found, NEW h, h = Old!Shifted(vscHist, sym),
         vscHist' = h, Old!listen(h)
  PROVE  DInv'
<1>1. /\ h[1] = sym /\ \A i \in 2 .. 8 : h[i] = vscHist[i - 1]
      /\ h = [i \in 1 .. 8 |-> h[i]] /\ \A i \in 1 .. 8 : h[i] \in Old!Found
  BY Moved DEF DInv
<1>2. /\ inDSC' <=> inDSC /\ ~Old!Ceased(h)
      /\ inDSC' \in BOOLEAN /\ oldSymbol' = oldSymbol
      /\ since' = IF since = 4 THEN 4 ELSE IF sym = oldSymbol THEN 0 ELSE since + 1
      /\ since \in 0 .. 4
  BY <1>1 DEF Old!listen, DInv, HistoryOK
<1>3. HistoryOK'
  BY <1>1, <1>2 DEF DInv, HistoryOK
<1>4. AwayCounted'
  <2> SUFFICES ASSUME since' < 4
               PROVE  /\ inDSC' /\ h[since' + 1] = oldSymbol
                      /\ \A i \in 1 .. since' : h[i] # oldSymbol
    BY <1>2 DEF AwayCounted
  <2>1. since < 4 /\ inDSC /\ vscHist[since + 1] = oldSymbol
    BY <1>2 DEF DInv, AwayCounted
  <2>2. h[since' + 1] = oldSymbol /\ since' + 1 \in 1 .. 4
    BY <1>1, <1>2, <2>1
  <2>3. \A i \in 1 .. since' : h[i] # oldSymbol
    BY <1>1, <1>2, <2>1 DEF DInv, AwayCounted
  <2>4. QED
    BY <1>2, <2>1, <2>2, <2>3 DEF Old!Ceased
<1>5. PressesSeen'
  <2> SUFFICES ASSUME NEW s \in Symbols, NEW n \in 1 .. 4, UnderWay(s, n)'
               PROVE  (inDSC' => oldSymbol = s) /\ (n = 4 => inDSC')
    BY <1>2 DEF PressesSeen
  <2>1. /\ sym = s /\ s # None
        /\ \A i \in 2 .. n : vscHist[i - 1] = s
        /\ \A i \in n + 1 .. n + 4 : vscHist[i - 1] = None
    <3>1. (\A i \in 1 .. n : h[i] = s) /\ \A i \in n + 1 .. n + 4 : h[i] = None
      BY DEF UnderWay
    <3>2. /\ 1 \in 1 .. n /\ 2 .. n \subseteq 1 .. n
          /\ 2 .. n \subseteq 2 .. 8 /\ n + 1 .. n + 4 \subseteq 2 .. 8
      OBVIOUS
    <3>3. s # None
      BY SymbolAssumption
    <3>4. QED
      BY <1>1, <3>1, <3>2, <3>3
  <2>2. CASE n = 1
    <3>1. h[1] = s /\ h[2] = None /\ h[3] = None /\ h[4] = None
      BY <1>1, <2>1, <2>2
    <3>2. inDSC => oldSymbol # None
      BY SymbolAssumption DEF DInv, HistoryOK
    <3>3. inDSC /\ oldSymbol # s => Old!Ceased(h)
      BY <3>1, <3>2 DEF Old!Ceased
    <3>4. QED
      BY <1>2, <2>2, <3>3
  <2>3. CASE n > 1
    <3>1. UnderWay(s, n - 1)
      BY <2>1, <2>3 DEF UnderWay
    <3>2. inDSC => oldSymbol = s
      BY <2>3, <3>1 DEF DInv, PressesSeen
    <3>3. n = 4 => Old!Recognised(h)
      BY <1>1, <2>1 DEF Old!Recognised
    <3>4. n = 4 => inDSC
      BY <3>3 DEF Old!listen
    <3>5. inDSC => ~Old!Ceased(h)
      BY <1>1, <2>1, <3>2 DEF Old!Ceased
    <3>6. QED
      BY <1>2, <3>2, <3>4, <3>5
  <2>4. QED
    BY <2>2, <2>3
<1>6. QED
  BY <1>3, <1>4, <1>5 DEF DInv

LEMMA DInvStep == DInv /\ [Old!Next]_(Old!vars) => DInv'
<1> SUFFICES ASSUME DInv, [Old!Next]_(Old!vars) PROVE DInv'
  OBVIOUS
<1>1. ASSUME NEW sym \in Old!Found, Old!processShortBlock(sym) PROVE DInv'
  BY <1>1, RecogniseStep, ListenStep DEF Old!processShortBlock
<1>2. CASE Old!pullResult
  BY <1>2 DEF Old!pullResult, DInv, HistoryOK, AwayCounted, PressesSeen, UnderWay
<1>3. CASE Old!reset
  <2>1. HistoryOK' /\ AwayCounted'
    BY <1>3 DEF Old!reset, DInv, HistoryOK, AwayCounted, Old!Found
  <2>2. PressesSeen'
    BY <1>3, SymbolAssumption DEF Old!reset, PressesSeen, UnderWay
  <2>3. QED
    BY <2>1, <2>2 DEF DInv
<1>4. CASE UNCHANGED Old!vars
  BY <1>4 DEF Old!vars, DInv, HistoryOK, AwayCounted, PressesSeen, UnderWay
<1>5. QED
  BY <1>1, <1>2, <1>3, <1>4 DEF Old!Next

LEMMA DInvHolds == Old!Spec => []DInv
BY DInvInit, DInvStep, PTL DEF Old!Spec

-----------------------------------------------------------------------------
\* One press, interrupted or not, never becomes two: a symbol is recognised
\* only after four blocks of it, and only if the one before has been away for
\* four blocks in a row (processShortBlock()).
THEOREM OneResultTheorem == Old!Spec => OneResultPerPress
<1>1. DInv /\ [Old!Next]_(Old!vars) =>
        [~inDSC /\ inDSC' => since = 4 /\ \A i \in 1 .. 4 : vscHist'[i] = oldSymbol']_(Old!vars)
  <2> SUFFICES ASSUME DInv, Old!Next, ~inDSC, inDSC'
               PROVE  since = 4 /\ \A i \in 1 .. 4 : vscHist'[i] = oldSymbol'
    BY DEF Old!vars
  <2>1. PICK sym \in Old!Found : vscHist' = Old!Shifted(vscHist, sym) /\ Old!recognise(vscHist')
    BY DEF Old!Next, Old!processShortBlock, Old!listen, Old!pullResult, Old!reset
  <2>2. since = 4
    BY DEF DInv, HistoryOK, AwayCounted
  <2>3. QED
    BY <2>1, <2>2 DEF Old!recognise, Old!Recognised
<1>2. QED
  BY <1>1, DInvHolds, PTL DEF Old!Spec, OneResultPerPress, Old!OneResultPerPress

\* Every press that follows silence is recognised at its fourth block,
\* whatever came before the silence (processShortBlock()).
THEOREM RecognisedTheorem == Old!Spec => []PressIsRecognised
<1>1. DInv => PressIsRecognised
  <2> SUFFICES ASSUME DInv, NEW s \in Symbols, Old!Pressed(s)
               PROVE  inDSC /\ oldSymbol = s
    BY DEF PressIsRecognised, Old!PressIsRecognised
  <2>1. UnderWay(s, 4)
    BY DEF Old!Pressed, UnderWay
  <2>2. QED
    BY <2>1 DEF DInv, PressesSeen
<1>2. QED
  BY <1>1, DInvHolds, PTL


-----------------------------------------------------------------------------
(* StdPollTimer.                                                            *)

TimerInv ==
  /\ now \in Nat /\ intervalUs \in Nat \ {0} /\ due \in Nat
  /\ lastPointUs = Timer!Rounded(now, intervalUs) - due * intervalUs

LEMMA Split ==
  ASSUME NEW t \in Nat, NEW i \in Nat \ {0}
  PROVE  /\ t \div i \in Nat
         /\ (t \div i) * i <= t /\ t < (t \div i) * i + i
OBVIOUS

LEMMA Times ==
  ASSUME NEW a \in Int, NEW b \in Int, NEW i \in Int
  PROVE  (a + b) * i = a * i + b * i /\ (a - b) * i = a * i - b * i
OBVIOUS

LEMMA TimesAtLeast ==
  ASSUME NEW a \in Int, NEW i \in Nat, a >= 1
  PROVE  a * i >= i
OBVIOUS

LEMMA DivGrows ==
  ASSUME NEW t \in Nat, NEW d \in Nat, NEW i \in Nat \ {0}
  PROVE  (t + d) \div i >= t \div i
OBVIOUS

\* What is left of an interval in its word is a length.
LEMMA Lengths == \A us \in Intervals : us % Word \in Nat \ {0}
<1>1. Intervals \subseteq Nat /\ Word \in Nat \ {0} /\ \A us \in Intervals : us % Word # 0
  BY SignalsAssumption DEF Timer!StdPollTimerAssumption
<1>2. \A us \in Nat : us % Word \in Nat
  BY <1>1
<1>3. QED
  BY <1>1, <1>2

LEMMA TimerInvMeans ==
  ASSUME TimerInv
  PROVE  NoTickLost
<1>1. /\ now \in Nat /\ intervalUs \in Nat \ {0} /\ due \in Nat
      /\ lastPointUs = (now \div intervalUs) * intervalUs - due * intervalUs
  BY SignalsAssumption DEF TimerInv, Timer!Rounded, Timer!StdPollTimerAssumption
<1> DEFINE q == (now \div intervalUs) * intervalUs
<1>2. q \in Int /\ q <= now /\ now < q + intervalUs
  BY <1>1, Split
<1>3. due = 0 => due * intervalUs = 0
  BY <1>1
<1>4. due > 0 => due * intervalUs >= intervalUs
  BY <1>1, TimesAtLeast
<1>5. due * intervalUs \in Int
  BY <1>1
<1> HIDE DEF q
<1>6. lastPointUs = q - due * intervalUs
  BY <1>1 DEF q
<1>7. now >= lastPointUs + intervalUs <=> due > 0
  BY <1>1, <1>2, <1>3, <1>4, <1>5, <1>6
<1>8. QED
  BY <1>7 DEF NoTickLost, Timer!NoTickLost, Timer!nextPointUs, TimerInv

LEMMA TimerInvStep == TimerInv /\ [Timer!Next]_(Timer!vars) => TimerInv'
<1> SUFFICES ASSUME TimerInv, [Timer!Next]_(Timer!vars) PROVE TimerInv'
  OBVIOUS
<1>1. /\ now \in Nat /\ intervalUs \in Nat \ {0} /\ due \in Nat
      /\ lastPointUs = (now \div intervalUs) * intervalUs - due * intervalUs
      /\ Steps \subseteq Nat
  BY SignalsAssumption DEF TimerInv, Timer!Rounded, Timer!StdPollTimerAssumption
<1>2. ASSUME NEW i \in Nat \ {0}, Timer!Restart(i) PROVE TimerInv'
  <2>1. now' \in Nat /\ intervalUs' = i /\ due' = 0 /\ lastPointUs' = Timer!Rounded(now, i)
    BY <1>1, <1>2 DEF Timer!Restart
  <2>2. Timer!Rounded(now', i) = Timer!Rounded(now, i) /\ Timer!Rounded(now, i) \in Int
    BY <1>1, <1>2 DEF Timer!Restart, Timer!Rounded
  <2>3. QED
    BY <1>1, <2>1, <2>2 DEF TimerInv
<1>3. CASE Timer!reset
  BY <1>1, <1>2, <1>3 DEF Timer!reset
<1>4. CASE Timer!poll
  <2>1. due > 0
    BY <1>4, TimerInvMeans DEF Timer!poll, NoTickLost, Timer!NoTickLost
  <2>2. (due - 1) * intervalUs = due * intervalUs - intervalUs
    BY <1>1, Times
  <2>3. QED
    BY <1>1, <1>4, <2>1, <2>2 DEF Timer!poll, TimerInv, Timer!Rounded
<1>5. ASSUME NEW d \in Steps, Timer!Passes(d) PROVE TimerInv'
  <2> DEFINE q == now \div intervalUs
             p == (now + d) \div intervalUs
  <2>1. now' = now + d /\ due' = due + (p - q) /\ UNCHANGED <<intervalUs, lastPointUs>>
    BY <1>5 DEF Timer!Passes
  <2>2. p \in Nat /\ q \in Nat /\ p >= q
    BY <1>1, <1>5, DivGrows
  <2>3. lastPointUs = q * intervalUs - due * intervalUs
    BY <1>1
  <2>4. Timer!Rounded(now', intervalUs') = p * intervalUs
    BY <2>1 DEF Timer!Rounded
  <2> HIDE DEF p, q
  <2>5. (due + (p - q)) * intervalUs = due * intervalUs + (p * intervalUs - q * intervalUs)
    BY <1>1, <2>2, Times
  <2>6. due' \in Nat
    BY <1>1, <2>1, <2>2
  <2>7. /\ p * intervalUs \in Int /\ q * intervalUs \in Int /\ due * intervalUs \in Int
    BY <1>1, <2>2
  <2>8. lastPointUs' = p * intervalUs - due' * intervalUs
    BY <2>1, <2>3, <2>5, <2>7
  <2>9. QED
    BY <1>1, <1>5, <2>1, <2>4, <2>6, <2>8 DEF TimerInv
<1>6. CASE UNCHANGED Timer!vars
  BY <1>6 DEF Timer!vars, TimerInv, Timer!Rounded
<1>7. ASSUME NEW us \in Intervals, Timer!setIntervalUs(us) PROVE TimerInv'
  BY <1>2, <1>7, Lengths DEF Timer!setIntervalUs
<1>8. QED
  BY <1>3, <1>4, <1>5, <1>6, <1>7 DEF Timer!Next

\* poll() is true exactly while interval boundaries of the clock are
\* unreported, and gives the next of them (StdPollTimer::poll), for every set
\* of intervals, however late the loop comes and however the interval changes.
THEOREM TimerTheorem == Timer!Spec => []NoTickLost
<1>1. Timer!Init => TimerInv
  <2> SUFFICES ASSUME Timer!Init PROVE TimerInv
    OBVIOUS
  <2>1. now \in Nat /\ intervalUs \in Nat \ {0} /\ due = 0
    BY SignalsAssumption, Lengths DEF Timer!Init, Timer!StdPollTimerAssumption
  <2>2. Timer!Rounded(now, intervalUs) \in Int /\ due * intervalUs = 0
    BY <2>1 DEF Timer!Rounded
  <2>3. QED
    BY <2>1, <2>2 DEF Timer!Init, TimerInv
<1>2. QED
  BY <1>1, TimerInvStep, TimerInvMeans, PTL DEF Timer!Spec

-----------------------------------------------------------------------------
(* TimeDebouncer.                                                           *)

\* An unsigned difference of two times, without the modulo operator.
LEMMA Difference ==
  ASSUME NEW t \in 0 .. Modulus - 1, NEW s \in 0 .. Modulus - 1
  PROVE  (t - s + Modulus) % Modulus = IF t >= s THEN t - s ELSE t - s + Modulus
<1>1. Modulus \in Nat \ {0}
  BY SignalsAssumption DEF Debouncer!TimeDebouncerAssumption
<1>2. CASE t >= s
  BY <1>1, <1>2
<1>3. CASE t < s
  BY <1>1, <1>3
<1>4. QED
  BY <1>2, <1>3

LEMMA NextTime ==
  ASSUME NEW t \in 0 .. Modulus - 1
  PROVE  (t + 1) % Modulus = IF t = Modulus - 1 THEN 0 ELSE t + 1
BY SignalsAssumption DEF Debouncer!TimeDebouncerAssumption

Windows == ActiveMs \in Nat /\ InactiveMs \in Nat /\ MaxGap \in Nat

\* Where the clock stands relative to the last sample that agreed with the
\* output: the time since then is at most the gap, or, once a sample has
\* differed, the time since that one and the gap before it.
DebouncerInv ==
  /\ ms \in 0 .. Modulus - 1 /\ lastStableTime \in 0 .. Modulus - 1
  /\ raw \in BOOLEAN /\ debouncedState \in BOOLEAN /\ agreed \in BOOLEAN
  /\ gap \in 0 .. MaxGap /\ lasted \in -1 .. Debouncer!Longest
  /\ agreed /\ lasted = -1 => Debouncer!Elapsed(lastStableTime) <= gap
  /\ agreed /\ lasted >= 0 /\ lasted < Debouncer!Longest
       => Debouncer!Elapsed(lastStableTime) <= lasted + MaxGap
  /\ MaxGap = 0 => Debouncer!Elapsed(lastStableTime) = 0

LEMMA ElapsedMeans ==
  ASSUME DebouncerInv
  PROVE  /\ Debouncer!Elapsed(lastStableTime)
              = IF ms >= lastStableTime THEN ms - lastStableTime
                ELSE ms - lastStableTime + Modulus
         /\ Debouncer!Elapsed(lastStableTime) \in Nat
<1>1. Modulus \in Nat
  BY SignalsAssumption DEF Debouncer!TimeDebouncerAssumption
<1>2. QED
  BY <1>1, Difference DEF DebouncerInv, Debouncer!Elapsed, Debouncer!time

LEMMA DebouncerStep == DebouncerInv /\ [Debouncer!Next]_(Debouncer!vars) => DebouncerInv'
<1> SUFFICES ASSUME DebouncerInv, [Debouncer!Next]_(Debouncer!vars) PROVE DebouncerInv'
  OBVIOUS
<1> DEFINE e == Debouncer!Elapsed(lastStableTime)
           l == Debouncer!Longest
<1>1. Windows /\ Modulus \in Nat \ {0}
  BY SignalsAssumption DEF Debouncer!TimeDebouncerAssumption, Windows
<1>2. l \in Nat /\ l' = l
  BY <1>1 DEF Debouncer!Longest, Windows
<1>3. /\ e \in Nat
      /\ e = IF ms >= lastStableTime THEN ms - lastStableTime
             ELSE ms - lastStableTime + Modulus
  BY ElapsedMeans
<1>4. /\ ms \in 0 .. Modulus - 1 /\ lastStableTime \in 0 .. Modulus - 1
      /\ raw \in BOOLEAN /\ debouncedState \in BOOLEAN /\ agreed \in BOOLEAN
      /\ gap \in 0 .. MaxGap /\ lasted \in -1 .. l
      /\ agreed /\ lasted = -1 => e <= gap
      /\ agreed /\ lasted >= 0 /\ lasted < l => e <= lasted + MaxGap
      /\ MaxGap = 0 => e = 0
  BY DEF DebouncerInv
<1>5. ASSUME ms' \in 0 .. Modulus - 1, lastStableTime' \in 0 .. Modulus - 1
      PROVE  e' = IF ms' >= lastStableTime' THEN ms' - lastStableTime'
                  ELSE ms' - lastStableTime' + Modulus
  BY <1>5, Difference DEF Debouncer!Elapsed, Debouncer!time
<1>6. ASSUME /\ ms' \in 0 .. Modulus - 1 /\ lastStableTime' \in 0 .. Modulus - 1
             /\ raw' \in BOOLEAN /\ debouncedState' \in BOOLEAN /\ agreed' \in BOOLEAN
             /\ gap' \in 0 .. MaxGap /\ lasted' \in -1 .. l
             /\ agreed' /\ lasted' = -1 => e' <= gap'
             /\ agreed' /\ lasted' >= 0 /\ lasted' < l => e' <= lasted' + MaxGap
             /\ MaxGap = 0 => e' = 0
      PROVE  DebouncerInv'
  BY <1>2, <1>6 DEF DebouncerInv
<1> HIDE DEF e, l
<1>7. CASE Debouncer!get /\ Debouncer!get_same
  <2>1. /\ lastStableTime' = ms /\ ms' = ms /\ UNCHANGED <<raw, debouncedState>>
        /\ gap' = 0 /\ lasted' = -1 /\ agreed' = TRUE
    BY <1>7 DEF Debouncer!get, Debouncer!get_same, Debouncer!time
  <2>2. e' = 0
    BY <1>1, <1>4, <1>5, <2>1
  <2>3. QED
    BY <1>1, <1>2, <1>4, <1>6, <2>1, <2>2 DEF Windows
<1>8. CASE Debouncer!get /\ Debouncer!get_different
  <2>1. /\ UNCHANGED <<ms, raw, lastStableTime>> /\ gap' = 0
        /\ debouncedState' \in BOOLEAN
        /\ lasted' = IF raw = debouncedState' THEN -1 ELSE IF lasted < 0 THEN 0 ELSE lasted
        /\ agreed' <=> agreed /\ debouncedState' = debouncedState
        /\ raw # debouncedState
    BY <1>4, <1>8 DEF Debouncer!get, Debouncer!get_different
  <2>2. e' = e
    BY <1>3, <1>4, <1>5, <2>1
  <2>3. agreed' \in BOOLEAN
    BY <1>4, <1>8 DEF Debouncer!get, Debouncer!get_different
  <2>4. agreed' => lasted' >= 0
    BY <1>4, <2>1
  <2>5. lasted' \in -1 .. l
    BY <1>2, <1>4, <2>1
  <2>6. agreed' /\ lasted' < l => e' <= lasted' + MaxGap
    BY <1>1, <1>2, <1>3, <1>4, <2>1, <2>2 DEF Windows
  <2>7. QED
    BY <1>1, <1>4, <1>6, <2>1, <2>2, <2>3, <2>4, <2>5, <2>6 DEF Windows
<1>9. CASE Debouncer!Passes
  <2>1. /\ gap < MaxGap /\ gap' = gap + 1
        /\ ms' = IF ms = Modulus - 1 THEN 0 ELSE ms + 1
        /\ lasted' = IF lasted < 0 \/ lasted = l THEN lasted ELSE lasted + 1
        /\ UNCHANGED <<raw, debouncedState, lastStableTime, agreed>>
    BY <1>4, <1>9, NextTime DEF Debouncer!Passes, Debouncer!tick, l
  <2>2. ms' \in 0 .. Modulus - 1 /\ e' \in Nat /\ e' <= e + 1
    BY <1>1, <1>3, <1>4, <1>5, <2>1
  <2>3. QED
    BY <1>1, <1>2, <1>3, <1>4, <1>6, <2>1, <2>2 DEF Windows
<1>10. CASE Debouncer!input
  <2>1. UNCHANGED <<ms, debouncedState, lastStableTime, gap, lasted, agreed>> /\ raw' \in BOOLEAN
    BY <1>10 DEF Debouncer!input
  <2>2. e' = e
    BY <1>3, <1>4, <1>5, <2>1
  <2>3. QED
    BY <1>4, <1>6, <2>1, <2>2
<1>11. CASE UNCHANGED Debouncer!vars
  BY <1>11 DEF Debouncer!vars, DebouncerInv, Debouncer!Elapsed, Debouncer!time, Debouncer!Longest
<1>12. QED
  BY <1>7, <1>8, <1>9, <1>10, <1>11 DEF Debouncer!Next, Debouncer!get

\* The output changes only after the raw input was seen different for the
\* whole transition time, short of one sampling gap, if a sample has confirmed
\* the value before (TimeDebouncer::get); for all windows, gaps and widths of
\* the clock, and wherever it runs over.
THEOREM DebounceTheorem == Debouncer!Spec => ConfirmedChangesAfterWindow
<1>1. Debouncer!Init => DebouncerInv
  <2> SUFFICES ASSUME Debouncer!Init PROVE DebouncerInv
    OBVIOUS
  <2>1. Windows /\ Modulus \in Nat \ {0}
    BY SignalsAssumption DEF Debouncer!TimeDebouncerAssumption, Windows
  <2>2. Debouncer!Longest \in Nat
    BY <2>1 DEF Debouncer!Longest, Windows
  <2>3. Debouncer!Elapsed(lastStableTime) = 0
    BY <2>1, Difference DEF Debouncer!Init, Debouncer!Elapsed, Debouncer!time
  <2>4. QED
    BY <2>1, <2>2, <2>3 DEF Debouncer!Init, DebouncerInv, Debouncer!time, Windows
<1>2. DebouncerInv /\ [Debouncer!Next]_(Debouncer!vars)
        => [debouncedState' # debouncedState /\ agreed
              => Debouncer!LastedEnough]_(Debouncer!vars)
  <2> SUFFICES ASSUME DebouncerInv, Debouncer!Next, debouncedState' # debouncedState, agreed
               PROVE  Debouncer!LastedEnough
    OBVIOUS
  <2>1. Debouncer!get_different
    BY DEF Debouncer!Next, Debouncer!get, Debouncer!get_same, Debouncer!Passes, Debouncer!input
  <2>2. ~(Debouncer!Elapsed(lastStableTime) <= Debouncer!transitionTimeMs)
    BY <2>1 DEF Debouncer!get_different, Debouncer!InWindow
  <2>3. Windows
    BY SignalsAssumption DEF Debouncer!TimeDebouncerAssumption, Windows
  <2>4. /\ Debouncer!transitionTimeMs \in Nat
        /\ Debouncer!transitionTimeMs + MaxGap <= Debouncer!Longest
        /\ Debouncer!Longest \in Nat
    BY <2>3 DEF Debouncer!transitionTimeMs, Debouncer!Longest, Windows
  <2>5. Debouncer!Elapsed(lastStableTime) \in Nat
    BY ElapsedMeans
  <2>6. QED
    BY <2>2, <2>3, <2>4, <2>5 DEF DebouncerInv, Debouncer!LastedEnough, Windows
<1>3. QED
  BY <1>1, <1>2, DebouncerStep, PTL
  DEF Debouncer!Spec, ConfirmedChangesAfterWindow,
      Debouncer!ConfirmedChangesAfterWindow

-----------------------------------------------------------------------------
(* StateMachine.                                                            *)

MachineInv ==
  /\ ms \in 0 .. Modulus - 1
  /\ timeoutMs \in Nat /\ stateStartMs \in Nat

LEMMA MillisecondsMean ==
  ASSUME NEW t \in Nat
  PROVE  /\ (t * UsPerMs) % Modulus \in 0 .. Modulus - 1
         /\ ((t * UsPerMs) % Modulus) \div UsPerMs \in Nat
BY SignalsAssumption DEF Machine!StateMachineAssumption

\* Within a lap the millisecond count goes up by one at a time.
LEMMA CountsUp ==
  ASSUME NEW t \in 0 .. Modulus - 1,
         NEW x, x = ((t * UsPerMs) % Modulus) \div UsPerMs,
         NEW y, y = ((((t + 1) % Modulus) * UsPerMs) % Modulus) \div UsPerMs,
         y > x
  PROVE  y = x + 1
<1>1. Modulus \in Nat \ {0} /\ UsPerMs \in Nat \ {0}
  BY SignalsAssumption DEF Machine!StateMachineAssumption
<1> DEFINE u == (t * UsPerMs) % Modulus
<1>2. u \in 0 .. Modulus - 1 /\ x \in Nat
  BY <1>1
<1>3. CASE t = Modulus - 1
  <2>1. (t + 1) % Modulus = 0
    BY <1>1, <1>3
  <2>2. y = 0
    BY <1>1, <2>1
  <2>3. QED
    BY <1>2, <2>2
<1>4. CASE t # Modulus - 1
  <2>1. (t + 1) % Modulus = t + 1
    BY <1>1, <1>4
  <2>2. (t + 1) * UsPerMs = t * UsPerMs + UsPerMs
    BY <1>1, Times
  <2> DEFINE v == (t * UsPerMs + UsPerMs) % Modulus
  <2>3. y = v \div UsPerMs /\ v \in 0 .. Modulus - 1
    BY <1>1, <2>1, <2>2
  <2>4. v = (u + UsPerMs) % Modulus
    BY <1>1
  <2> HIDE DEF u, v
  <2>5. CASE u + UsPerMs < Modulus
    <3>1. v = u + UsPerMs
      BY <1>1, <1>2, <2>4, <2>5
    <3>2. (u + UsPerMs) \div UsPerMs = u \div UsPerMs + 1
      BY <1>1, <1>2
    <3>3. QED
      BY <2>3, <3>1, <3>2 DEF u
  <2>6. CASE u + UsPerMs >= Modulus
    <3>1. v < UsPerMs
      BY <1>1, <1>2, <2>3, <2>4, <2>6
    <3>2. y = 0
      BY <1>1, <2>3, <3>1
    <3>3. QED
      BY <1>2, <3>2
  <2>7. QED
    BY <1>1, <1>2, <2>5, <2>6
<1>5. QED
  BY <1>3, <1>4

LEMMA MachineInvStep == MachineInv /\ [Machine!Next]_(Machine!vars) => MachineInv'
<1> SUFFICES ASSUME MachineInv, [Machine!Next]_(Machine!vars) PROVE MachineInv'
  OBVIOUS
<1>1. Modulus \in Nat \ {0} /\ UsPerMs \in Nat \ {0} /\ Timeouts \subseteq Nat
  BY SignalsAssumption DEF Machine!StateMachineAssumption
<1>2. Machine!timeMs \in Nat
  BY MillisecondsMean DEF MachineInv, Machine!timeMs, Machine!timeUs, Machine!time
<1>3. CASE Machine!Passes
  BY <1>1, <1>3 DEF Machine!Passes, Machine!tick, MachineInv
<1>4. CASE UNCHANGED Machine!vars
  BY <1>4 DEF Machine!vars, MachineInv
<1>5. ASSUME UNCHANGED ms, timeoutMs' \in Nat, stateStartMs' \in {stateStartMs, Machine!timeMs}
      PROVE  MachineInv'
  BY <1>2, <1>5 DEF MachineInv
<1>6. QED
  BY <1>1, <1>3, <1>4, <1>5
  DEF Machine!Next, MachineInv, Machine!init, Machine!setPlainState, Machine!setState,
      Machine!reset, Machine!inState

\* What the mapping puts for the count-down of the promise.
Past == Machine!isPastWindow(stateStartMs, timeoutMs)
Left ==
  IF timeoutMs = 0 THEN 0 ELSE IF Past THEN -1 ELSE stateStartMs + timeoutMs - Machine!timeMs

LEMMA MachineRefines ==
  ASSUME ~WrapInWindow, MachineInv, [Machine!Next]_(Machine!vars)
  PROVE  [Machine!Promised!Next]_(Machine!Promised!vars)
<1>1. Modulus \in Nat \ {0} /\ UsPerMs \in Nat \ {0} /\ Timeouts \subseteq Nat
  BY SignalsAssumption DEF Machine!StateMachineAssumption
<1>2. Machine!timeMs \in Nat
  BY MillisecondsMean DEF MachineInv, Machine!timeMs, Machine!timeUs, Machine!time
<1>3. ASSUME UNCHANGED ms PROVE Machine!timeMs' = Machine!timeMs
  BY <1>3 DEF Machine!timeMs, Machine!timeUs, Machine!time
<1>4. ASSUME NEW s \in States, Machine!init(s) PROVE Machine!Promised!SetHome(s)
  <2>1. /\ initialState' = s
        /\ UNCHANGED <<machine, timeoutState, timeoutMs, stateStartMs, calls>>
        /\ Machine!timeMs' = Machine!timeMs
    BY <1>3, <1>4 DEF Machine!init
  <2>2. QED
    BY <2>1 DEF Machine!Promised!SetHome, Machine!isPastWindow
<1>5. ASSUME NEW s \in States, Machine!Called, Machine!setPlainState(s)
      PROVE  Machine!Promised!Set(s)
  BY <1>5 DEF Machine!Called, Machine!setPlainState, Machine!Promised!Set,
              Machine!Promised!Disarmed
<1>6. ASSUME NEW s \in States, NEW next \in States, NEW t \in Timeouts,
             Machine!Called, Machine!setState(s, t, next)
      PROVE  Machine!Promised!Set(s) \/ (t # 0 /\ Machine!Promised!SetFor(s, t, next))
  <2>1. /\ machine' = s /\ stateStartMs' = Machine!timeMs
        /\ timeoutMs' = t /\ timeoutState' = next
        /\ calls' = calls + 1 /\ UNCHANGED initialState
        /\ Machine!timeMs' = Machine!timeMs
    BY <1>3, <1>6 DEF Machine!setState, Machine!Called
  <2>2. CASE t = 0
    BY <2>1, <2>2 DEF Machine!Promised!Set, Machine!Promised!Disarmed
  <2>3. CASE t # 0
    <3>1. ~(Machine!timeMs' > stateStartMs' + timeoutMs')
      BY <1>1, <1>2, <2>1
    <3>2. stateStartMs' + timeoutMs' - Machine!timeMs' = t
      BY <1>1, <1>2, <2>1
    <3>3. QED
      BY <2>1, <2>3, <3>1, <3>2 DEF Machine!Promised!SetFor, Machine!isPastWindow
  <2>4. QED
    BY <2>2, <2>3
<1>7. ASSUME Machine!reset PROVE Machine!Promised!Reset
  BY <1>7 DEF Machine!reset, Machine!Promised!Reset, Machine!Promised!Disarmed
<1>8. ASSUME Machine!inState PROVE Machine!Promised!Ask
  BY <1>8 DEF Machine!inState, Machine!IsDue, Machine!setPlainState, Machine!Promised!Ask,
              Machine!Promised!Disarmed
<1>9. ASSUME Machine!Passes
      PROVE  Machine!Promised!Passes \/ UNCHANGED Machine!Promised!vars
  <2>1. UNCHANGED <<machine, initialState, timeoutState, timeoutMs, stateStartMs, calls>>
    BY <1>9 DEF Machine!Passes
  <2>2. CASE timeoutMs = 0
    BY <2>1, <2>2 DEF Machine!Promised!vars
  <2>3. CASE timeoutMs # 0
    <3>1. Machine!timeMs' > Machine!timeMs /\ ms' = (ms + 1) % Modulus
      BY <1>9, <2>3 DEF Machine!Passes, Machine!tick
    <3>2. Machine!timeMs' = Machine!timeMs + 1
      BY <3>1, CountsUp DEF MachineInv, Machine!timeMs, Machine!timeUs, Machine!time
    <3>3. stateStartMs \in Nat /\ timeoutMs \in Nat
      BY DEF MachineInv
    <3>4. CASE Machine!timeMs > stateStartMs + timeoutMs
      <4>1. Machine!timeMs' > stateStartMs' + timeoutMs'
        BY <1>2, <2>1, <3>2, <3>3, <3>4
      <4>2. QED
        BY <2>1, <3>4, <4>1 DEF Machine!Promised!vars, Machine!isPastWindow
    <3>5. CASE ~(Machine!timeMs > stateStartMs + timeoutMs)
      <4>1. stateStartMs + timeoutMs - Machine!timeMs \in Nat
        BY <1>2, <3>3, <3>5
      <4>2. Left >= 0 /\ Left = stateStartMs + timeoutMs - Machine!timeMs
        BY <2>3, <3>5, <4>1 DEF Left, Past, Machine!isPastWindow
      <4>3. ASSUME Machine!timeMs' > stateStartMs' + timeoutMs' PROVE Left' = Left - 1
        <5>1. stateStartMs + timeoutMs - Machine!timeMs - 1 = -1
          BY <1>2, <2>1, <3>2, <3>3, <3>5, <4>3
        <5>2. Left' = -1
          BY <2>1, <2>3, <4>3 DEF Left, Past, Machine!isPastWindow
        <5>3. QED
          BY <1>2, <3>3, <4>1, <4>2, <5>1, <5>2
      <4>4. ASSUME ~(Machine!timeMs' > stateStartMs' + timeoutMs') PROVE Left' = Left - 1
        <5>1. stateStartMs' + timeoutMs' - Machine!timeMs'
                = stateStartMs + timeoutMs - Machine!timeMs - 1
          BY <1>2, <2>1, <3>2, <3>3
        <5>2. Left' = stateStartMs' + timeoutMs' - Machine!timeMs'
          BY <2>1, <2>3, <4>4 DEF Left, Past, Machine!isPastWindow
        <5>3. QED
          BY <1>2, <3>3, <4>1, <4>2, <5>1, <5>2
      <4>5. Left' = Left - 1
        BY <4>3, <4>4
      <4>6. QED
        BY <2>1, <2>3, <4>2, <4>5 DEF Machine!Promised!Passes, Left, Past
    <3>6. QED
      BY <3>4, <3>5
  <2>4. QED
    BY <2>2, <2>3
<1>10. CASE UNCHANGED Machine!vars
  <2>1. UNCHANGED <<machine, initialState, timeoutState, timeoutMs, stateStartMs, calls>>
        /\ Machine!timeMs' = Machine!timeMs
    BY <1>3, <1>10 DEF Machine!vars
  <2>2. QED
    BY <2>1 DEF Machine!Promised!vars, Machine!isPastWindow
<1>11. QED
  BY <1>4, <1>5, <1>6, <1>7, <1>8, <1>9, <1>10 DEF Machine!Next, Machine!Promised!Next

\* StateMachine keeps the promise of TimedState: a time-out belongs to the
\* state it was set with, runs out neither early nor late, and never reaches
\* into a state set or reset after it (StateMachine.cpp); for all states,
\* time-outs and widths of the clock, as long as timeMs does not start again
\* from 0 while a time-out runs.
THEOREM TimedStateTheorem ==
  ASSUME ~WrapInWindow
  PROVE  Machine!Spec => ImplementsTimedState
<1>1. Machine!Init => MachineInv
  BY SignalsAssumption DEF Machine!StateMachineAssumption, Machine!Init, MachineInv
<1>2. Machine!Init => Machine!Promised!Init
  BY DEF Machine!Init, Machine!Promised!Init
<1>3. QED
  BY <1>1, <1>2, MachineInvStep, MachineRefines, PTL
  DEF Machine!Spec, ImplementsTimedState, Machine!ImplementsTimedState, Machine!Promised!Spec
=============================================================================
