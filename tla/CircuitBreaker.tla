--------------------------- MODULE CircuitBreaker ---------------------------
(***************************************************************************)
(* The circuit breaker of internal/http/circuit_breaker.go.                *)
(*                                                                         *)
(* The mutex covers the bookkeeping before and after the protected         *)
(* function, never the function itself: a call is admitted in one step,    *)
(* runs while other calls come and go, and is settled in another step.     *)
(* Every critical section of the source is one action here.                *)
(*                                                                         *)
(* Time is a discrete clock.  openedAt is kept as openAge, the time that   *)
(* has passed since; the code only compares it with resetTimeout, so it    *)
(* saturates there.  A running call is at most Timeout old: the bound      *)
(* config.Timeout puts on http.Client.Do and on reading the body.          *)
(*                                                                         *)
(* totalRequests and successCount are written and reported by GetStats,    *)
(* and no decision reads them: see BreakerStats.                           *)
(***************************************************************************)
EXTENDS Naturals, FiniteSets

CONSTANTS
  Calls,             \* the goroutines that call Execute
  FailureThreshold,  \* CircuitBreakerConfig.FailureThreshold
  ResetTimeout,      \* CircuitBreakerConfig.ResetTimeout, in ticks
  HalfOpenRequests,  \* CircuitBreakerConfig.HalfOpenRequests
  Timeout,           \* Config.Timeout, in ticks: how old a running call gets
  MayPanic,          \* may the protected function panic?
  MayReset           \* may somebody call Reset?

ASSUME CallsAssumption == IsFiniteSet(Calls)

ASSUME ConfigAssumption ==
  /\ FailureThreshold \in Nat
  /\ ResetTimeout \in Nat
  /\ HalfOpenRequests \in Nat
  /\ Timeout \in Nat
  /\ MayPanic \in BOOLEAN
  /\ MayReset \in BOOLEAN

VARIABLES
  state,             \* cb.state
  failureCount,      \* cb.failureCount, saturated at FailureThreshold
  halfOpenAttempts,  \* cb.halfOpenAttempts
  openAge,           \* time.Since(cb.openedAt), saturated at ResetTimeout
  call,              \* where each goroutine is: outside, or inside which fn()
  age                \* how long its fn() has been running

vars == <<state, failureCount, halfOpenAttempts, openAge, call, age>>

Running == {c \in Calls : call[c] # "idle"}
Probes  == {c \in Calls : call[c] = "executeHalfOpen"}

(***************************************************************************)
(* The failure count is only ever compared with the threshold.             *)
(***************************************************************************)
CountFailure(n) == IF n < FailureThreshold THEN n + 1 ELSE n

TypeOK ==
  /\ state \in {"CLOSED", "OPEN", "HALF_OPEN"}
  /\ failureCount \in 0 .. FailureThreshold
  /\ halfOpenAttempts \in Nat
  /\ openAge \in 0 .. ResetTimeout
  /\ call \in [Calls -> {"idle", "executeClosed", "executeHalfOpen"}]
  /\ age \in [Calls -> 0 .. Timeout]
-----------------------------------------------------------------------------
(***************************************************************************)
(* NewCircuitBreaker: closed, and openedAt the zero time, long ago.        *)
(***************************************************************************)
Init ==
  /\ state = "CLOSED"
  /\ failureCount = 0
  /\ halfOpenAttempts = 0
  /\ openAge = ResetTimeout
  /\ call = [c \in Calls |-> "idle"]
  /\ age = [c \in Calls |-> 0]

Elapsed == openAge >= ResetTimeout

Enter(c, how) ==
  /\ call[c] = "idle"
  /\ call' = [call EXCEPT ![c] = how]
  /\ age' = [age EXCEPT ![c] = 0]

Leave(c, how) ==
  /\ call[c] = how
  /\ call' = [call EXCEPT ![c] = "idle"]
  /\ age' = [age EXCEPT ![c] = 0]

\* Mutant: OpenProbe that leaves the claim of the first attempt to later.
OpenProbeUnclaimed(c) ==
  /\ state = "OPEN"
  /\ Elapsed
  /\ Enter(c, "executeHalfOpen")
  /\ state' = "HALF_OPEN"
  /\ halfOpenAttempts' = 0
  /\ UNCHANGED <<failureCount, openAge>>

\* Mutant: OpenReject that restarts the open period.
OpenRejectExtends(c) ==
  /\ state = "OPEN"
  /\ ~Elapsed
  /\ call[c] = "idle"
  /\ openAge' = 0
  /\ UNCHANGED <<state, failureCount, halfOpenAttempts, call, age>>

\* Mutant: HalfOpenProbe without the increment.
HalfOpenProbeUnclaimed(c) ==
  /\ state = "HALF_OPEN"
  /\ halfOpenAttempts < HalfOpenRequests
  /\ Enter(c, "executeHalfOpen")
  /\ UNCHANGED <<state, failureCount, halfOpenAttempts, openAge>>

(***************************************************************************)
(* Execute: the arms of its switch, each one critical section.             *)
(***************************************************************************)
OpenProbe(c) ==
  /\ state = "OPEN"
  /\ Elapsed
  /\ Enter(c, "executeHalfOpen")
  /\ state' = "HALF_OPEN"
  /\ halfOpenAttempts' = 1
  /\ UNCHANGED <<failureCount, openAge>>

OpenReject(c) ==
  /\ state = "OPEN"
  /\ ~Elapsed
  /\ call[c] = "idle"
  /\ UNCHANGED vars

HalfOpenProbe(c) ==
  /\ state = "HALF_OPEN"
  /\ halfOpenAttempts < HalfOpenRequests
  /\ Enter(c, "executeHalfOpen")
  /\ halfOpenAttempts' = halfOpenAttempts + 1
  /\ UNCHANGED <<state, failureCount, openAge>>

HalfOpenReject(c) ==
  /\ state = "HALF_OPEN"
  /\ halfOpenAttempts >= HalfOpenRequests
  /\ call[c] = "idle"
  /\ UNCHANGED vars

ClosedAdmit(c) ==
  /\ state = "CLOSED"
  /\ Enter(c, "executeClosed")
  /\ UNCHANGED <<state, failureCount, halfOpenAttempts, openAge>>

Admit(c)   == OpenProbe(c) \/ HalfOpenProbe(c) \/ ClosedAdmit(c)
Reject(c)  == OpenReject(c) \/ HalfOpenReject(c)
Execute(c) == Admit(c) \/ Reject(c)

\* Mutant: ClosedSuccess that closes the circuit, as a probe's success does.
ClosedSuccessCloses(c) ==
  /\ Leave(c, "executeClosed")
  /\ state' = "CLOSED"
  /\ failureCount' = 0
  /\ UNCHANGED <<halfOpenAttempts, openAge>>

\* Mutant: ClosedFailure that opens the circuit and forgets openedAt.
ClosedFailureUndated(c) ==
  /\ Leave(c, "executeClosed")
  /\ failureCount' = CountFailure(failureCount)
  /\ state' = IF failureCount' >= FailureThreshold THEN "OPEN" ELSE state
  /\ UNCHANGED <<halfOpenAttempts, openAge>>

\* Mutant: HalfOpenSuccess that frees the attempts and stays half-open.
HalfOpenSuccessStays(c) ==
  /\ Leave(c, "executeHalfOpen")
  /\ failureCount' = 0
  /\ halfOpenAttempts' = 0
  /\ UNCHANGED <<state, openAge>>

\* Mutant: HalfOpenFailure that opens the circuit and forgets openedAt.
HalfOpenFailureUndated(c) ==
  /\ Leave(c, "executeHalfOpen")
  /\ state' = "OPEN"
  /\ failureCount' = CountFailure(failureCount)
  /\ UNCHANGED <<halfOpenAttempts, openAge>>

\* Mutant: HalfOpenFailure that counts the failure and does not reopen.
HalfOpenFailureStays(c) ==
  /\ Leave(c, "executeHalfOpen")
  /\ failureCount' = CountFailure(failureCount)
  /\ UNCHANGED <<state, halfOpenAttempts, openAge>>

\* Mutant: GetState that keeps the attempts of the period before.
GetStateKeepsAttempts ==
  /\ state = "OPEN"
  /\ Elapsed
  /\ state' = "HALF_OPEN"
  /\ UNCHANGED <<failureCount, halfOpenAttempts, openAge, call, age>>

(***************************************************************************)
(* The second critical section of executeClosed, taken in whatever state   *)
(* the breaker is by the time fn returns.                                  *)
(***************************************************************************)
ClosedSuccess(c) ==
  /\ Leave(c, "executeClosed")
  /\ failureCount' = 0
  /\ UNCHANGED <<state, halfOpenAttempts, openAge>>

ClosedFailure(c) ==
  /\ Leave(c, "executeClosed")
  /\ failureCount' = CountFailure(failureCount)
  /\ IF failureCount' >= FailureThreshold
       THEN state' = "OPEN" /\ openAge' = 0
       ELSE UNCHANGED <<state, openAge>>
  /\ UNCHANGED halfOpenAttempts

(***************************************************************************)
(* The second critical section of executeHalfOpen, likewise.               *)
(***************************************************************************)
HalfOpenSuccess(c) ==
  /\ Leave(c, "executeHalfOpen")
  /\ state' = "CLOSED"
  /\ failureCount' = 0
  /\ halfOpenAttempts' = 0
  /\ UNCHANGED openAge

HalfOpenFailure(c) ==
  /\ Leave(c, "executeHalfOpen")
  /\ state' = "OPEN"
  /\ openAge' = 0
  /\ failureCount' = CountFailure(failureCount)
  /\ UNCHANGED halfOpenAttempts

Succeed(c) == ClosedSuccess(c) \/ HalfOpenSuccess(c)
Fail(c)    == ClosedFailure(c) \/ HalfOpenFailure(c)
Settle(c)  == Succeed(c) \/ Fail(c)

(***************************************************************************)
(* fn panics: neither executeClosed nor executeHalfOpen has deferred       *)
(* anything yet, so the goroutine leaves and the breaker learns nothing.   *)
(***************************************************************************)
Panic(c) ==
  /\ MayPanic
  /\ \E how \in {"executeClosed", "executeHalfOpen"} : Leave(c, how)
  /\ UNCHANGED <<state, failureCount, halfOpenAttempts, openAge>>

GetState ==
  /\ state = "OPEN"
  /\ Elapsed
  /\ state' = "HALF_OPEN"
  /\ halfOpenAttempts' = 0
  /\ UNCHANGED <<failureCount, openAge, call, age>>

Reset ==
  /\ MayReset
  /\ state' = "CLOSED"
  /\ failureCount' = 0
  /\ halfOpenAttempts' = 0
  /\ openAge' = ResetTimeout
  /\ UNCHANGED <<call, age>>

(***************************************************************************)
(* One unit of time.  It waits for the calls whose timeout is due.         *)
(***************************************************************************)
Tick ==
  /\ \A c \in Running : age[c] < Timeout
  /\ openAge' = IF Elapsed THEN openAge ELSE openAge + 1
  /\ age' = [c \in Calls |-> IF c \in Running THEN age[c] + 1 ELSE age[c]]
  /\ UNCHANGED <<state, failureCount, halfOpenAttempts, call>>

CallStep(c) == Execute(c) \/ Settle(c) \/ Panic(c)

Next ==
  \/ \E c \in Calls : CallStep(c)
  \/ GetState
  \/ Reset
  \/ Tick

Spec == Init /\ [][Next]_vars

(***************************************************************************)
(* Time passes, a running call returns (its timeout sees to that), and the *)
(* application keeps making calls.                                         *)
(***************************************************************************)
Fairness ==
  /\ WF_vars(Tick)
  /\ \A c \in Calls : WF_vars(Settle(c)) /\ WF_vars(Execute(c))

FairSpec == Spec /\ Fairness
-----------------------------------------------------------------------------
(***************************************************************************)
(* A half-open circuit has at most HalfOpenRequests probes in flight (one  *)
(* if that option is zero: OpenProbe does not look at it), and so has a    *)
(* circuit in any other state: probes of an earlier half-open period never *)
(* add up with those of this one.  It takes Timeout < ResetTimeout.        *)
(***************************************************************************)
MaxProbes == IF HalfOpenRequests > 0 THEN HalfOpenRequests ELSE 1

ProbeLimit == Cardinality(Probes) <= MaxProbes

(***************************************************************************)
(* While the circuit is half-open only probes are running: a call that was *)
(* admitted before the circuit tripped never decides whether the service   *)
(* has recovered.  It takes Timeout < ResetTimeout as well.                *)
(***************************************************************************)
ProbesDecide == state = "HALF_OPEN" => Running = Probes

(***************************************************************************)
(* An open circuit "prevents cascading failures when a downstream service  *)
(* is unhealthy": once the calls from before have had their Timeout,       *)
(* nothing is on its way to the service.                                   *)
(***************************************************************************)
OpenShields == state = "OPEN" /\ openAge > Timeout => Running = {}

(***************************************************************************)
(* A half-open circuit is never stuck: it has room for another probe, or a *)
(* probe is running whose result ends the half-open state.  No timer and   *)
(* no other call ever does.                                                *)
(***************************************************************************)
HalfOpenCanMove ==
  state = "HALF_OPEN" => halfOpenAttempts < HalfOpenRequests \/ Probes # {}

(***************************************************************************)
(* "ResetTimeout is the duration the circuit stays open before             *)
(* transitioning to half-open": no result that comes in late, of a call or *)
(* of a probe, ends the open state earlier.                                *)
(***************************************************************************)
OpenHolds == [][state = "OPEN" /\ state' # "OPEN" => Elapsed]_vars

(***************************************************************************)
(* A closed circuit opens after FailureThreshold failures without a        *)
(* success between them, and never on fewer because of a probe that        *)
(* outlived its half-open period.                                          *)
(***************************************************************************)
TripsAtThreshold ==
  [][state = "CLOSED" /\ state' = "OPEN" => failureCount' >= FailureThreshold]_vars

(***************************************************************************)
(* An open circuit gets its probe: late failures push openedAt forward,    *)
(* rejections do not, and only the calls from before it opened can fail    *)
(* late.                                                                   *)
(***************************************************************************)
OpenIsProbed == state = "OPEN" ~> state # "OPEN"

(***************************************************************************)
(* Once calls stop failing the circuit closes and stays closed, whatever   *)
(* happened before.                                                        *)
(***************************************************************************)
Recovery ==
  <>[][~\E c \in Calls : Fail(c)]_vars => <>[](state = "CLOSED")

Contract == INSTANCE BreakerContract WITH failures <- failureCount

(***************************************************************************)
(* The breaker, used by any number of goroutines, is the three-state       *)
(* machine of BreakerContract: no call that outlives the state it was      *)
(* admitted in makes a transition that machine does not have.  It takes    *)
(* Timeout < ResetTimeout, a single probe and no Reset.                    *)
(***************************************************************************)
ThreeStates == Contract!Spec
=============================================================================
