---------------------------- MODULE DTMFDetector ----------------------------
(***************************************************************************)
(* The detection logic of the older DTMFDetector (DTMFDetector.cpp): a     *)
(* history of 10 ms blocks, and a queue of results.  Audio comes in frames *)
(* of two blocks; the filters that look for a symbol in a block are        *)
(* outside the model and may find anything.                                *)
(***************************************************************************)
EXTENDS Naturals, Sequences

CONSTANTS
  Symbols,
  None,         \* 0: no symbol in the block
  ResultSize    \* _resultSize

DTMFDetectorAssumption == None \notin Symbols /\ ResultSize \in Nat

VARIABLES
  vscHist,          \* _vscHist, the newest at 1
  inDSC, detectedSymbol,
  result,           \* _result, the oldest first
  half,             \* play() is between the two blocks of a frame
  since             \* the latest run of blocks since the last recognition (or
                    \* reset) that did not hold its symbol; from 4 on it stays

vars == <<vscHist, inDSC, detectedSymbol, result, half, since>>

Found == Symbols \cup {None}

Init ==
  /\ vscHist = [i \in 1..8 |-> None] /\ inDSC = FALSE /\ detectedSymbol = None
  /\ result = <<>> /\ half = FALSE /\ since = 4

\* Whether a symbol is being recognised survives.
reset ==
  /\ ~half
  /\ vscHist' = [i \in 1..8 |-> None] /\ result' = <<>> /\ since' = 4
  /\ UNCHANGED <<inDSC, detectedSymbol, half>>

Shifted(h, sym) == [i \in 1..8 |-> IF i = 1 THEN sym ELSE h[i - 1]]

\* Looks at one block too many.
Recognised_Bug(h) == h[1] # None /\ \A i \in 2..5 : h[i] = h[1]

Recognised(h) == h[1] # None /\ \A i \in 2..4 : h[i] = h[1]

\* Takes a single differing block for the end.
Ceased_Bug(h) == h[1] # detectedSymbol

Ceased(h) == \A i \in 1..4 : h[i] # detectedSymbol

recognise(h) ==
  /\ ~inDSC /\ Recognised(h)
  /\ inDSC' = TRUE /\ detectedSymbol' = h[1]
  /\ result' = IF Len(result) < ResultSize THEN Append(result, h[1]) ELSE result
  /\ since' = 0

listen(h) ==
  /\ inDSC \/ ~Recognised(h)
  /\ inDSC' = (inDSC /\ ~Ceased(h))
  /\ since' = IF since = 4 THEN 4 ELSE IF h[1] = detectedSymbol THEN 0 ELSE since + 1
  /\ UNCHANGED <<detectedSymbol, result>>

processShortBlock(sym) ==
  LET h == Shifted(vscHist, sym)
  IN  /\ vscHist' = h
      /\ recognise(h) \/ listen(h)
      /\ half' = ~half

pullResult ==
  /\ ~half /\ result # <<>>
  /\ result' = Tail(result)
  /\ UNCHANGED <<vscHist, inDSC, detectedSymbol, half, since>>

Next == (\E sym \in Found : processShortBlock(sym)) \/ pullResult \/ reset

Spec == Init /\ [][Next]_vars

-----------------------------------------------------------------------------
\* A symbol is recognised only if the last four blocks held it ("requires a
\* consistent detection over 40ms"), and only if the symbol recognised before
\* has been away for four blocks in a row ("an interruption of at least
\* 40ms"): one press, interrupted or not, never becomes two.
OneResultPerPress ==
  [][~inDSC /\ inDSC'
       => since = 4 /\ \A i \in 1..4 : vscHist'[i] = detectedSymbol']_vars

Pressed(s) == \A i \in 1..8 : vscHist[i] = IF i <= 4 THEN s ELSE None

\* And every press is: after four blocks of a symbol that follow four without
\* any, that symbol is the one recognised.
PressIsRecognised ==
  \A s \in Symbols : Pressed(s) => inDSC /\ detectedSymbol = s
=============================================================================
