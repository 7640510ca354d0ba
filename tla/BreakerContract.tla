--------------------------- MODULE BreakerContract --------------------------
(***************************************************************************)
(* The circuit breaker as a program with one caller would find it: three   *)
(* states, a count of failures and the time since the circuit opened.      *)
(* There are no goroutines here, so no call that is still running when the *)
(* state changes: a result either belongs to the state it is found in, or, *)
(* in the open state, only touches the count and the date.                 *)
(***************************************************************************)
EXTENDS Naturals

CONSTANTS FailureThreshold, ResetTimeout

VARIABLES
  state,
  failures,   \* consecutive failures, saturated at FailureThreshold
  openAge     \* the time since the circuit opened, saturated at ResetTimeout

vars == <<state, failures, openAge>>

OneMore == IF failures < FailureThreshold THEN failures + 1 ELSE failures

Init ==
  /\ state = "CLOSED"
  /\ failures = 0
  /\ openAge = ResetTimeout

Open == state' = "OPEN" /\ openAge' = 0

Success ==
  /\ state # "HALF_OPEN"
  /\ failures' = 0
  /\ UNCHANGED <<state, openAge>>

Failure ==
  /\ state # "HALF_OPEN"
  /\ failures' = OneMore
  /\ IF OneMore >= FailureThreshold THEN Open ELSE UNCHANGED <<state, openAge>>

ResetTimeoutOver ==
  /\ state = "OPEN"
  /\ openAge >= ResetTimeout
  /\ state' = "HALF_OPEN"
  /\ UNCHANGED <<failures, openAge>>

ProbeSucceeds ==
  /\ state = "HALF_OPEN"
  /\ state' = "CLOSED"
  /\ failures' = 0
  /\ UNCHANGED openAge

ProbeFails ==
  /\ state = "HALF_OPEN"
  /\ failures' = OneMore
  /\ Open

TimePasses ==
  /\ openAge < ResetTimeout
  /\ openAge' = openAge + 1
  /\ UNCHANGED <<state, failures>>

Next ==
  \/ Success \/ Failure
  \/ ResetTimeoutOver
  \/ ProbeSucceeds \/ ProbeFails
  \/ TimePasses

Spec == Init /\ [][Next]_vars
=============================================================================
