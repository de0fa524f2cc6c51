--------------------------- MODULE DTMFDetector2 ---------------------------
(***************************************************************************)
(* The detection states of DTMFDetector2 (DTMFDetector2.cpp): from the     *)
(* symbol that each 8 ms block of audio seems to hold to the key presses   *)
(* that are reported.  The filters that look at the audio (_detectVSC) are *)
(* outside the model; they may find anything.                              *)
(*                                                                         *)
(* An operator whose name ends in _Bug is a plausible mistake in the one   *)
(* that follows it; it is part of no action.                               *)
(***************************************************************************)
EXTENDS Integers

CONSTANTS
  Symbols,     \* the symbols of the keypad
  None         \* 0: no symbol in the block

ASSUME SymbolAssumption == Symbols # {} /\ None \notin Symbols

THR_BLOCKS_20MS == 2
THR_BLOCKS_40MS == 4

VARIABLES
  state,           \* _state
  invalidCount,    \* _invalidCount; past THR_BLOCKS_40MS it stays
  validCount, dropCount, potentialSymbol,
  isDSC, detectedSymbol,
  history,         \* the last eight blocks, the newest at 8
  reported         \* what the last block reported, None if nothing

counts == <<invalidCount, validCount, dropCount>>
vars == <<state, counts, potentialSymbol, isDSC, detectedSymbol,
          history, reported>>

Found == Symbols \cup {None}

Init ==
  /\ state = "INVALID" /\ invalidCount = 0 /\ validCount = 0 /\ dropCount = 0
  /\ potentialSymbol = None /\ isDSC = FALSE /\ detectedSymbol = None
  /\ history = [i \in 1..8 |-> CHOOSE s \in Symbols : TRUE]
  /\ reported = None

\* The counter of silence is looked at as it was before this block.
SilenceBefore == invalidCount >= THR_BLOCKS_40MS

invalid(sym) ==
  /\ state = "INVALID"
  /\ IF sym # None /\ SilenceBefore
       THEN state' = "PRE_DSC" /\ potentialSymbol' = sym /\ validCount' = 1
       ELSE UNCHANGED <<state, potentialSymbol, validCount>>
  /\ UNCHANGED <<dropCount, isDSC, detectedSymbol>> /\ reported' = None

\* Does not count up to the block just seen.
Persisted_Bug == validCount >= THR_BLOCKS_40MS

Persisted == validCount + 1 >= THR_BLOCKS_40MS

pre_dsc(sym) ==
  /\ state = "PRE_DSC"
  /\ IF sym = potentialSymbol
       THEN /\ validCount' = validCount + 1
            /\ UNCHANGED potentialSymbol
            /\ IF Persisted
                 THEN /\ state' = "DSC" /\ isDSC' = TRUE /\ detectedSymbol' = sym
                      /\ reported' = sym
                 ELSE UNCHANGED <<state, isDSC, detectedSymbol>> /\ reported' = None
       ELSE /\ state' = "INVALID" /\ potentialSymbol' = None
            /\ UNCHANGED <<validCount, isDSC, detectedSymbol>> /\ reported' = None
  /\ UNCHANGED dropCount

dsc(sym) ==
  /\ state = "DSC"
  /\ IF sym = potentialSymbol
       THEN UNCHANGED <<state, dropCount>>
       ELSE state' = "DSC_DROP" /\ dropCount' = 1
  /\ UNCHANGED <<validCount, potentialSymbol, isDSC, detectedSymbol>>
  /\ reported' = None

dsc_drop(sym) ==
  /\ state = "DSC_DROP"
  /\ \/ /\ sym = potentialSymbol
        /\ state' = "DSC"
        /\ UNCHANGED <<dropCount, potentialSymbol>>
     \/ /\ sym # potentialSymbol
        /\ dropCount' = dropCount + 1
        /\ IF dropCount + 1 > THR_BLOCKS_20MS
             THEN state' = "INVALID" /\ potentialSymbol' = None
             ELSE UNCHANGED <<state, potentialSymbol>>
  /\ UNCHANGED <<validCount, isDSC, detectedSymbol>> /\ reported' = None

Shifted(h, sym) == [i \in 1..8 |-> IF i = 8 THEN sym ELSE h[i + 1]]

processBlock(sym) ==
  /\ invalidCount' = IF sym # None THEN 0
                     ELSE IF SilenceBefore THEN invalidCount ELSE invalidCount + 1
  /\ invalid(sym) \/ pre_dsc(sym) \/ dsc(sym) \/ dsc_drop(sym)
  /\ history' = Shifted(history, sym)

\* popDetection() when there is something to return.
popDetection ==
  /\ isDSC
  /\ isDSC' = FALSE
  /\ UNCHANGED <<state, counts, potentialSymbol, detectedSymbol, history, reported>>

Next == popDetection \/ \E sym \in Found : processBlock(sym)

Spec == Init /\ [][Next]_vars

-----------------------------------------------------------------------------
\* Four blocks of silence, then four blocks of one symbol.
Pressed(h) ==
  /\ \A i \in 1..4 : h[i] = None
  /\ h[8] # None /\ \A i \in 5..7 : h[i] = h[8]

\* A symbol is reported by a block exactly if that block is the fourth of the
\* symbol after at least four of silence ("The gap between symbols must be at
\* least 40ms", "A symbol must be transmitted for at least 40ms"): once per
\* press, whatever went on before, and never again after a drop-out.
ReportsEachPress == reported = IF Pressed(history) THEN history[8] ELSE None
=============================================================================
