--------------------------- MODULE TimeDebouncer ---------------------------
(***************************************************************************)
(* TimeDebouncer (TimeDebouncer.h): turns a raw input into one that        *)
(* changes only after the raw input has been different for a while.  The   *)
(* raw input is looked at, and time measured, only when get() is called.   *)
(***************************************************************************)
EXTENDS Clock

CONSTANTS
  activeTimeMs, inactiveTimeMs,   \* setActiveTime(), setInactiveTime()
  MaxGap                          \* longest time between two calls of get()

TimeDebouncerAssumption ==
  /\ Modulus \in Nat \ {0} /\ MaxGap \in Nat
  /\ activeTimeMs \in Nat /\ activeTimeMs + MaxGap < Modulus
  /\ inactiveTimeMs \in Nat /\ inactiveTimeMs + MaxGap < Modulus

VARIABLES
  raw,              \* _rawValue
  debouncedState, lastStableTime,
  gap,              \* time since the last get()
  lasted,           \* time since a get() first saw the raw input different
                    \* from the debounced one; -1 if the last one did not
  agreed            \* some get() since the last change saw the two agree

vars == <<ms, raw, debouncedState, lastStableTime, gap, lasted, agreed>>

Init ==
  /\ ms = 0 /\ raw \in BOOLEAN
  /\ debouncedState = raw /\ lastStableTime = time
  /\ gap = 0 /\ lasted = -1 /\ agreed = TRUE

transitionTimeMs == IF debouncedState THEN inactiveTimeMs ELSE activeTimeMs

\* Compares the times themselves, which the clock may have run over between.
InWindow_Bug == time <= lastStableTime + transitionTimeMs

InWindow == Elapsed(lastStableTime) <= transitionTimeMs

\* Uses the window of the state it would change to.
get_different_Bug ==
  /\ raw # debouncedState
  /\ LET window == IF raw THEN inactiveTimeMs ELSE activeTimeMs
     IN  debouncedState' = (debouncedState # (Elapsed(lastStableTime) > window))
  /\ UNCHANGED lastStableTime

get_different ==
  /\ raw # debouncedState
  /\ debouncedState' = IF InWindow THEN debouncedState ELSE ~debouncedState
  /\ UNCHANGED lastStableTime

get_same ==
  /\ raw = debouncedState
  /\ lastStableTime' = time
  /\ UNCHANGED debouncedState

\* The longest time told apart.
Longest == activeTimeMs + inactiveTimeMs + MaxGap

get ==
  /\ get_same \/ get_different
  /\ gap' = 0
  /\ lasted' = IF raw = debouncedState' THEN -1 ELSE IF lasted < 0 THEN 0 ELSE lasted
  /\ agreed' = (raw = debouncedState \/ (agreed /\ debouncedState' = debouncedState))
  /\ UNCHANGED <<ms, raw>>

Passes ==
  /\ gap < MaxGap
  /\ tick
  /\ gap' = gap + 1
  /\ lasted' = IF lasted < 0 \/ lasted = Longest THEN lasted ELSE lasted + 1
  /\ UNCHANGED <<raw, debouncedState, lastStableTime, agreed>>

input ==
  /\ raw' = ~raw
  /\ UNCHANGED <<ms, debouncedState, lastStableTime, gap, lasted, agreed>>

Next == get \/ Passes \/ input

\* Time goes on, and the application keeps asking.
Spec == Init /\ [][Next]_vars /\ WF_vars(Passes) /\ WF_vars(get)

-----------------------------------------------------------------------------
LastedEnough ==
  (IF lasted < 0 THEN 0 ELSE lasted) + MaxGap > transitionTimeMs

\* "converts it into a debounced value based on configured transition time
\* minimums" (the class comment): the value changes only if the raw input was
\* seen different for the whole transition time, short of the one interval
\* that sampling leaves open.
ChangesAfterWindow ==
  [][debouncedState' # debouncedState => LastedEnough]_vars

\* The same, when the new value has been confirmed by a sample before: then
\* the time is measured from that sample, also across the point where the
\* clock runs over.
ConfirmedChangesAfterWindow ==
  [][debouncedState' # debouncedState /\ agreed => LastedEnough]_vars

\* An input that stays for good gets through, wherever the clock runs over.
Settles ==
  /\ <>[]raw => <>[]debouncedState
  /\ <>[]~raw => <>[]~debouncedState
=============================================================================
