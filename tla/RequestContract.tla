--------------------------- MODULE RequestContract --------------------------
(***************************************************************************)
(* What Client.Request promises its callers and the service, with nothing  *)
(* of how.  A request returns "ok" and was carried out once, or an error   *)
(* and was not carried out, except for the attempts that ended without a   *)
(* definite answer: each of them, and there are no more than Budget, may   *)
(* be carried out once more, also when the request has returned.  "moved"  *)
(* is no error, of a request answered without being carried out.           *)
(***************************************************************************)
EXTENDS Naturals

CONSTANTS
  Calls,     \* the goroutines that issue requests
  Budget,    \* how often a request may be carried out
  Failures   \* the errors that say the last attempt was not carried out

VARIABLES
  pending,   \* the goroutines whose request has not returned
  executed,  \* how often the service has carried out the last request
  unclear,   \* how many of its attempts ended without a definite answer
  outcome    \* what the last request returned

vars == <<pending, executed, unclear, outcome>>

Init ==
  /\ pending = {}
  /\ executed = [c \in Calls |-> 0]
  /\ unclear = [c \in Calls |-> 0]
  /\ outcome = [c \in Calls |-> "none"]

Call(c) ==
  /\ c \notin pending
  /\ pending' = pending \cup {c}
  /\ executed' = [executed EXCEPT ![c] = 0]
  /\ unclear' = [unclear EXCEPT ![c] = 0]
  /\ outcome' = [outcome EXCEPT ![c] = "none"]

\* The one definite execution: still to be had, or behind an "ok".
Due(c) == IF c \in pending \/ outcome[c] = "ok" THEN 1 ELSE 0

CarryOut(c) ==
  /\ executed[c] < Budget
  /\ executed[c] < unclear[c] + Due(c)
  /\ executed' = [executed EXCEPT ![c] = @ + 1]
  /\ UNCHANGED <<pending, unclear, outcome>>

Lose(c) ==
  /\ c \in pending
  /\ unclear[c] < Budget
  /\ unclear' = [unclear EXCEPT ![c] = @ + 1]
  /\ UNCHANGED <<pending, executed, outcome>>

Return(c, o) ==
  /\ c \in pending
  /\ pending' = pending \ {c}
  /\ outcome' = [outcome EXCEPT ![c] = o]
  /\ UNCHANGED executed

Succeed(c) ==
  /\ executed[c] > 0
  /\ Return(c, "ok")
  /\ UNCHANGED unclear

Fail(c, o) ==
  /\ executed[c] <= unclear[c]
  /\ Return(c, o)
  /\ UNCHANGED unclear

GiveUp(c) ==
  /\ unclear[c] < Budget
  /\ executed[c] <= unclear[c] + 1
  /\ Return(c, "transient")
  /\ unclear' = [unclear EXCEPT ![c] = @ + 1]

Next ==
  \E c \in Calls :
    \/ Call(c)
    \/ CarryOut(c)
    \/ Lose(c)
    \/ Succeed(c)
    \/ \E o \in Failures \cup {"moved"} : Fail(c, o)
    \/ GiveUp(c)

Spec == Init /\ [][Next]_vars
=============================================================================
