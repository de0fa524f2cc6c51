---------------------------- MODULE StateMachine ----------------------------
(***************************************************************************)
(* StateMachine (StateMachine.cpp): a state with an optional time-out.     *)
(* Nothing runs by itself: the time-out is looked at when somebody asks    *)
(* for the state.                                                          *)
(*                                                                         *)
(* An operator whose name ends in _Bug is a plausible mistake in the one   *)
(* that follows it; it is part of no action.                               *)
(***************************************************************************)
EXTENDS Clock

CONSTANTS
  States,        \* the application's states, 0 among them
  Timeouts,      \* the time-outs it asks for, 0 for none
  MaxCalls,      \* bound: calls of setState()
  WrapInWindow   \* may timeMs start again from 0 while a time-out runs?

StateMachineAssumption ==
  /\ Modulus \in Nat \ {0} /\ UsPerMs \in Nat \ {0}
  /\ 0 \in States /\ Timeouts \subseteq Nat
  /\ MaxCalls \in Nat /\ WrapInWindow \in BOOLEAN

VARIABLES
  state, initialState, timeoutState, timeoutMs,
  stateStartMs,
  calls          \* how often setState() has been called

vars == <<ms, state, initialState, timeoutState, timeoutMs, stateStartMs, calls>>

Init ==
  /\ ms = 0
  /\ state \in States /\ initialState = state
  /\ timeoutState = 0 /\ timeoutMs = 0 /\ stateStartMs = 0
  /\ calls = 0

\* The application's counterpart of init(), at any time: the state itself
\* stays what it was.
init(s) ==
  /\ initialState' = s
  /\ UNCHANGED <<ms, state, timeoutState, timeoutMs, stateStartMs, calls>>

reset ==
  /\ state' = initialState /\ timeoutMs' = 0
  /\ UNCHANGED <<ms, initialState, timeoutState, stateStartMs, calls>>

\* Leaves the previous time-out running.
setPlainState_Bug(s) ==
  /\ state' = s /\ stateStartMs' = timeMs
  /\ UNCHANGED <<ms, timeoutMs, timeoutState, initialState>>

setPlainState(s) ==
  /\ state' = s /\ stateStartMs' = timeMs
  /\ timeoutMs' = 0 /\ timeoutState' = 0
  /\ UNCHANGED <<ms, initialState>>

setState(s, t, next) ==
  /\ WrapInWindow \/ timeMs + t < LapEnd
  /\ state' = s /\ stateStartMs' = timeMs
  /\ timeoutMs' = t /\ timeoutState' = next
  /\ UNCHANGED <<ms, initialState>>

Called == calls < MaxCalls /\ calls' = calls + 1

\* Compares with the start of the state alone.
IsDue_Bug == timeoutMs # 0 /\ timeMs > timeoutMs

IsDue == timeoutMs # 0 /\ isPastWindow(stateStartMs, timeoutMs)

\* inState() and the comparison operators: checkTimeout() first.
inState ==
  /\ IsDue
  /\ setPlainState(timeoutState)
  /\ UNCHANGED calls

Passes ==
  /\ tick
  /\ WrapInWindow \/ timeoutMs = 0 \/ timeMs' > timeMs
  /\ UNCHANGED <<state, initialState, timeoutState, timeoutMs, stateStartMs, calls>>

Next ==
  \/ \E s \in States : init(s)
  \/ \E s \in States : Called /\ setPlainState(s)
  \/ \E s, next \in States, t \in Timeouts : Called /\ setState(s, t, next)
  \/ reset \/ inState \/ Passes

\* Time goes on, and somebody keeps asking, often enough (a lap of timeMs is
\* 71 minutes) not to miss every lap in which the time-out is due.
Spec == Init /\ [][Next]_vars /\ WF_vars(Passes) /\ SF_vars(inState)

-----------------------------------------------------------------------------
Promised ==
  INSTANCE TimedState WITH
    home <- initialState,
    armed <- timeoutMs # 0,
    left <- IF timeoutMs = 0 THEN 0
            ELSE IF isPastWindow(stateStartMs, timeoutMs) THEN -1
            ELSE stateStartMs + timeoutMs - timeMs,
    to <- IF timeoutMs = 0 THEN 0 ELSE timeoutState

\* A time-out belongs to the state it was set with: it runs out neither early
\* nor late, leads where it was told to, and never reaches into a state that
\* was set, or reset, after it, although setting, resetting and running out
\* each touch only some of the variables.
ImplementsTimedState == Promised!Spec

\* A state that was set with a time-out does not last: "Deals with optional
\* state time-outs automatically".
TimeoutsFire == timeoutMs # 0 ~> timeoutMs = 0
=============================================================================
