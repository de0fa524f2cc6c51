----------------------------- MODULE MCSignals -----------------------------
(***************************************************************************)
(* The components that turn time or samples into events, side by side: a   *)
(* behaviour uses one of them, so that their states add up instead of      *)
(* multiplying.  The millisecond clock is that of the state machine or of  *)
(* the debouncer, whichever is used.                                       *)
(***************************************************************************)
EXTENDS DTMFDetector2

CONSTANTS Modulus, UsPerMs, States, Timeouts, MaxCalls, WrapInWindow,
          ActiveMs, InactiveMs, MaxGap, Word, Intervals, Steps, MaxUs, ResultSize

VARIABLES
  user, ms,
  machine, initialState, timeoutState, timeoutMs, stateStartMs, calls,
  raw, debouncedState, lastStableTime, gap, lasted, agreed,
  now, intervalUs, lastPointUs, due,
  vscHist, inDSC, oldSymbol, result, half, since

machineVars  == <<machine, initialState, timeoutState, timeoutMs, stateStartMs, calls>>
debounceVars == <<raw, debouncedState, lastStableTime, gap, lasted, agreed>>
timerVars    == <<now, intervalUs, lastPointUs, due>>
oldVars      == <<vscHist, inDSC, oldSymbol, result, half, since>>

Machine == INSTANCE StateMachine WITH state <- machine

Debouncer ==
  INSTANCE TimeDebouncer WITH activeTimeMs <- ActiveMs, inactiveTimeMs <- InactiveMs

Timer == INSTANCE StdPollTimer

Old == INSTANCE DTMFDetector WITH detectedSymbol <- oldSymbol

ASSUME SignalsAssumption ==
  /\ Machine!StateMachineAssumption /\ Debouncer!TimeDebouncerAssumption
  /\ Timer!StdPollTimerAssumption /\ Old!DTMFDetectorAssumption

all == <<user, ms, machineVars, debounceVars, timerVars, oldVars, vars>>

\* The unused components start in one state each.
MCInit ==
  /\ user \in {"machine", "debouncer", "timer", "old", "new"}
  /\ Init /\ Machine!Init /\ Debouncer!Init /\ Timer!Init /\ Old!Init
  /\ user = "machine" \/ machine = 0
  /\ user = "debouncer" \/ ~raw
  /\ user = "timer" \/ (now = 0 /\ \A us \in Intervals : intervalUs <= us % Word)

MachineAlone(A) ==
  /\ user = "machine" /\ A
  /\ UNCHANGED <<user, debounceVars, timerVars, oldVars, vars>>

DebouncerAlone(A) ==
  /\ user = "debouncer" /\ A
  /\ UNCHANGED <<user, machineVars, timerVars, oldVars, vars>>

TimerAlone(A) ==
  /\ user = "timer" /\ A
  /\ UNCHANGED <<user, ms, machineVars, debounceVars, oldVars, vars>>

OldAlone(A) ==
  /\ user = "old" /\ A
  /\ UNCHANGED <<user, ms, machineVars, debounceVars, timerVars, vars>>

NewAlone(A) ==
  /\ user = "new" /\ A
  /\ UNCHANGED <<user, ms, machineVars, debounceVars, timerVars, oldVars>>

MCNext ==
  \/ MachineAlone(Machine!Next) \/ DebouncerAlone(Debouncer!Next)
  \/ TimerAlone(Timer!Next) \/ OldAlone(Old!Next) \/ NewAlone(Next)

MCSpec ==
  /\ MCInit /\ [][MCNext]_all
  /\ WF_all(MachineAlone(Machine!Passes)) /\ WF_all(MachineAlone(Machine!inState))
  /\ WF_all(DebouncerAlone(Debouncer!Passes)) /\ WF_all(DebouncerAlone(Debouncer!get))

ImplementsTimedState == Machine!ImplementsTimedState
TimeoutsFire == Machine!TimeoutsFire
ConfirmedChangesAfterWindow == Debouncer!ConfirmedChangesAfterWindow
Settles == Debouncer!Settles
NoTickLost == Timer!NoTickLost
OneResultPerPress == Old!OneResultPerPress
PressIsRecognised == Old!PressIsRecognised
=============================================================================
