----------------------------- MODULE TimedState -----------------------------
(***************************************************************************)
(* What StateMachine promises ("Deals with optional state time-outs        *)
(* automatically", StateMachine.h): a state that may carry a count-down,   *)
(* and that gives way to another one when it is asked for after the        *)
(* count-down has run out.                                                 *)
(***************************************************************************)
EXTENDS Integers

CONSTANTS States, Timeouts

VARIABLES
  state, home,   \* the state, and the one to go back to on a reset
  armed,         \* the state has a time-out
  left,          \* milliseconds until it is due, -1 once it is; 0 if unarmed
  to,            \* where it leads, 0 if unarmed
  calls          \* how often a state was set: no state gives way by itself
                 \* but by running out

vars == <<state, home, armed, left, to, calls>>

Init ==
  /\ state \in States /\ home = state /\ armed = FALSE /\ left = 0 /\ to = 0
  /\ calls = 0

Disarmed == armed' = FALSE /\ left' = 0 /\ to' = 0

Set(s) == state' = s /\ Disarmed /\ calls' = calls + 1 /\ UNCHANGED home

SetFor(s, t, next) ==
  /\ state' = s /\ armed' = TRUE /\ left' = t /\ to' = next
  /\ calls' = calls + 1
  /\ UNCHANGED home

Ask ==
  /\ armed /\ left = -1
  /\ state' = to /\ Disarmed
  /\ UNCHANGED <<home, calls>>

Reset == state' = home /\ Disarmed /\ UNCHANGED <<home, calls>>

SetHome(s) == home' = s /\ UNCHANGED <<state, armed, left, to, calls>>

Passes ==
  /\ armed /\ left >= 0
  /\ left' = left - 1
  /\ UNCHANGED <<state, home, armed, to, calls>>

Next ==
  \/ \E s \in States : Set(s) \/ SetHome(s)
  \/ \E s, next \in States, t \in Timeouts \ {0} : SetFor(s, t, next)
  \/ Ask \/ Reset \/ Passes

Spec == Init /\ [][Next]_vars
=============================================================================
