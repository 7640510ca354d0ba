------------------------------ MODULE Request -------------------------------
(***************************************************************************)
(* A request of the SDK's HTTP client (internal/http/client.go, retry.go): *)
(* the retry loop of WithRetry around retryFn, which runs one attempt      *)
(* through the circuit breaker and rotates to the secondary API key on the *)
(* first 401.  All requests of a client share one breaker (CircuitBreaker) *)
(* and one service.                                                        *)
(*                                                                         *)
(* What a goroutine does between two points where others can see or        *)
(* disturb it (the breaker's lock, the network, the backoff timer) is one  *)
(* action.  Answers are classes of outcome: 401 "auth"; 403, 404, any      *)
(* other 4xx and a body that cannot be marshalled "fatal"; 408, 429, 5xx,  *)
(* an error of http.Client.Do or of reading the body "transient", the only *)
(* one that is recoverable.  Whatever is below 400 returns no error: "ok"  *)
(* if the service has carried out the attempt, "moved" if it has not (a    *)
(* 304, a 3xx that is not followed, the answer to the GET that a           *)
(* redirected POST becomes).                                               *)
(***************************************************************************)
EXTENDS Integers, FiniteSets

CONSTANTS
  Calls,             \* the goroutines that issue requests
  MaxRetries,        \* RetryConfig.MaxRetries
  Delays,            \* the waits CalculateDelay and Retry-After can ask for
  SecondaryKey,      \* is Config.SecondaryAPIKey set?
  Faults,            \* what the environment of this instance may do
  FailureThreshold, ResetTimeout, HalfOpenRequests, Timeout

ASSUME RequestAssumption ==
  /\ IsFiniteSet(Calls)
  /\ MaxRetries \in Int
  /\ Delays \subseteq Nat
  /\ Delays # {}
  /\ SecondaryKey \in BOOLEAN
  /\ Faults \subseteq {"outage", "cancel", "bad request", "redirect", "revoke"}
  /\ FailureThreshold \in Nat
  /\ ResetTimeout \in Nat
  /\ HalfOpenRequests \in Nat
  /\ Timeout \in Nat

VARIABLES
  state, failureCount, halfOpenAttempts, openAge, call, age,  \* the breaker
  pc,         \* per request: where it is
  attempt,    \* attempt, the loop variable of WithRetry
  key,        \* currentKey; it is "secondary" iff attempted401Rotation
  wait,       \* what is left of the backoff timer
  cancelled,  \* is ctx done?
  result,     \* what Request has returned
  healthy,    \* the service: does it answer as it should?
  valid,      \* the service: the API keys it takes
  accepted,   \* the service: how often it has carried out the request
  stray,      \* attempts the client gave up that may still reach the service
  lost,       \* attempts of the request that ended "transient"
  refused     \* the service: the keys it has answered the request 401 for

breakerVars == <<state, failureCount, halfOpenAttempts, openAge, call, age>>
loopVars    == <<attempt, key, wait, result>>
countVars   == <<accepted, stray, lost>>
serviceVars == <<healthy, valid, countVars, refused>>
vars == <<breakerVars, pc, loopVars, cancelled, serviceVars>>

Breaker == INSTANCE CircuitBreaker WITH MayPanic <- FALSE, MayReset <- FALSE

Outcomes ==
  {"none", "ok", "moved", "auth", "fatal", "transient", "rejected", "cancelled"}
Keys     == {"primary", "secondary"}

TypeOK ==
  /\ Breaker!TypeOK
  /\ pc \in [Calls -> {"idle", "ready", "sent", "accepted", "backoff"}]
  /\ attempt \in [Calls -> Nat]
  /\ key \in [Calls -> Keys]
  /\ wait \in [Calls -> Nat]
  /\ cancelled \in [Calls -> BOOLEAN]
  /\ result \in [Calls -> Outcomes]
  /\ healthy \in BOOLEAN
  /\ valid \subseteq Keys
  /\ accepted \in [Calls -> Nat]
  /\ stray \in [Calls -> Nat]
  /\ lost \in [Calls -> Nat]
  /\ refused \in [Calls -> SUBSET Keys]

Init ==
  /\ Breaker!Init
  /\ pc = [c \in Calls |-> "idle"]
  /\ attempt = [c \in Calls |-> 0]
  /\ key = [c \in Calls |-> "primary"]
  /\ wait = [c \in Calls |-> 0]
  /\ cancelled = [c \in Calls |-> FALSE]
  /\ result = [c \in Calls |-> "none"]
  /\ healthy = TRUE
  /\ valid = Keys
  /\ accepted = [c \in Calls |-> 0]
  /\ stray = [c \in Calls |-> 0]
  /\ lost = [c \in Calls |-> 0]
  /\ refused = [c \in Calls |-> {}]
-----------------------------------------------------------------------------
(***************************************************************************)
(* Steps of WithRetry and retryFn.                                         *)
(***************************************************************************)
Return(c, outcome) ==
  /\ pc' = [pc EXCEPT ![c] = "idle"]
  /\ result' = [result EXCEPT ![c] = outcome]
  /\ attempt' = [attempt EXCEPT ![c] = 0]

Start(c) ==
  /\ pc[c] = "idle"
  /\ pc' = [pc EXCEPT ![c] = IF MaxRetries >= 0 THEN "ready" ELSE "idle"]
  /\ result' = [result EXCEPT ![c] = IF MaxRetries >= 0 THEN "none" ELSE "ok"]
  /\ key' = [key EXCEPT ![c] = "primary"]
  /\ cancelled' = [cancelled EXCEPT ![c] = FALSE]
  /\ accepted' = [accepted EXCEPT ![c] = 0]
  /\ stray' = [stray EXCEPT ![c] = 0]
  /\ lost' = [lost EXCEPT ![c] = 0]
  /\ refused' = [refused EXCEPT ![c] = {}]
  /\ UNCHANGED <<breakerVars, attempt, wait, healthy, valid>>

(***************************************************************************)
(* retryFn has failed: rotate, give up, or go on to the next attempt.      *)
(***************************************************************************)
Rotates(c, outcome) ==
  outcome = "auth" /\ key[c] = "primary" /\ SecondaryKey

Recoverable(c, outcome) == outcome = "transient" \/ Rotates(c, outcome)

\* Mutant: Retry with <= for <, one attempt too many.
RetryOneMore(c) ==
  /\ attempt[c] <= MaxRetries
  /\ attempt' = [attempt EXCEPT ![c] = @ + 1]
  /\ pc' = [pc EXCEPT ![c] = "backoff"]
  /\ \E d \in Delays : wait' = [wait EXCEPT ![c] = d]
  /\ UNCHANGED result

\* Mutant: Retry that does not count the attempt.
RetryUncounted(c) ==
  /\ attempt[c] < MaxRetries
  /\ pc' = [pc EXCEPT ![c] = "backoff"]
  /\ \E d \in Delays : wait' = [wait EXCEPT ![c] = d]
  /\ UNCHANGED <<attempt, result>>

Retry(c) ==
  /\ attempt[c] < MaxRetries
  /\ attempt' = [attempt EXCEPT ![c] = @ + 1]
  /\ pc' = [pc EXCEPT ![c] = "backoff"]
  /\ \E d \in Delays : wait' = [wait EXCEPT ![c] = d]
  /\ UNCHANGED result

GiveUp(c, outcome) ==
  /\ ~(Recoverable(c, outcome) /\ attempt[c] < MaxRetries)
  /\ Return(c, outcome)
  /\ UNCHANGED wait

HandleError(c, outcome) ==
  /\ key' = [key EXCEPT ![c] = IF Rotates(c, outcome) THEN "secondary" ELSE @]
  /\ \/ Recoverable(c, outcome) /\ Retry(c)
     \/ GiveUp(c, outcome)

(***************************************************************************)
(* The breaker admits the attempt, or refuses it: CircuitOpenError is not  *)
(* recoverable.                                                            *)
(***************************************************************************)
Send(c) ==
  /\ pc[c] = "ready"
  /\ Breaker!Admit(c)
  /\ pc' = [pc EXCEPT ![c] = "sent"]
  /\ UNCHANGED <<loopVars, cancelled, serviceVars>>

\* Mutant: Rejected that is only logged, the attempt sent all the same.
RejectedIgnored(c) ==
  /\ pc[c] = "ready"
  /\ Breaker!Reject(c)
  /\ pc' = [pc EXCEPT ![c] = "sent"]
  /\ UNCHANGED <<loopVars, cancelled, serviceVars>>

Rejected(c) ==
  /\ pc[c] = "ready"
  /\ Breaker!Reject(c)
  /\ Return(c, "rejected")
  /\ UNCHANGED <<key, wait, cancelled, serviceVars>>

(***************************************************************************)
(* The service, and the answer on its way back.  A done context fails the  *)
(* attempt in http.Client.Do; a service that is not healthy may answer 408,*)
(* 429 or 5xx, or not at all, whether it has carried out the request or    *)
(* not.                                                                    *)
(***************************************************************************)
Accept(c) ==
  /\ pc[c] = "sent"
  /\ ~cancelled[c]
  /\ key[c] \in valid
  /\ accepted' = [accepted EXCEPT ![c] = @ + 1]
  /\ pc' = [pc EXCEPT ![c] = "accepted"]
  /\ UNCHANGED <<breakerVars, loopVars, cancelled, healthy, valid, stray, lost, refused>>

\* Mutant: Succeeds of a retryFn that keeps the error of an earlier attempt.
SucceedsStale(c) ==
  /\ pc[c] = "accepted"
  /\ Breaker!Succeed(c)
  /\ IF attempt[c] > 0
       THEN HandleError(c, "transient")
       ELSE Return(c, "ok") /\ UNCHANGED <<key, wait>>
  /\ UNCHANGED <<cancelled, serviceVars>>

\* Mutant: Succeeds that looks at the context before it returns the answer.
SucceedsUnlessDone(c) ==
  /\ pc[c] = "accepted"
  /\ Breaker!Succeed(c)
  /\ Return(c, IF cancelled[c] THEN "cancelled" ELSE "ok")
  /\ UNCHANGED <<key, wait, cancelled, serviceVars>>

Succeeds(c) ==
  /\ pc[c] = "accepted"
  /\ Breaker!Succeed(c)
  /\ Return(c, "ok")
  /\ UNCHANGED <<key, wait, cancelled, serviceVars>>

\* err == nil of an attempt that was not carried out.
Redirected(c) ==
  /\ "redirect" \in Faults
  /\ pc[c] = "sent"
  /\ ~cancelled[c]
  /\ Breaker!Succeed(c)
  /\ Return(c, "moved")
  /\ UNCHANGED <<key, wait, cancelled, serviceVars>>

Transient(c) ==
  /\ pc[c] \in {"sent", "accepted"}
  /\ ~healthy \/ cancelled[c]
  /\ Breaker!Fail(c)
  /\ HandleError(c, "transient")
  /\ stray' = [stray EXCEPT ![c] = IF pc[c] = "sent" /\ key[c] \in valid THEN @ + 1 ELSE @]
  /\ lost' = [lost EXCEPT ![c] = @ + 1]
  /\ UNCHANGED <<cancelled, healthy, valid, accepted, refused>>

(***************************************************************************)
(* An attempt the client has given up reaches the service all the same:    *)
(* beside a later attempt, in the backoff, or when Request has returned.   *)
(***************************************************************************)
Late(c) ==
  /\ stray[c] > 0
  /\ stray' = [stray EXCEPT ![c] = @ - 1]
  /\ accepted' = [accepted EXCEPT ![c] = @ + 1]
  /\ UNCHANGED <<breakerVars, pc, loopVars, cancelled, healthy, valid, lost, refused>>

Unauthorized(c) ==
  /\ pc[c] = "sent"
  /\ ~cancelled[c]
  /\ key[c] \notin valid
  /\ refused' = [refused EXCEPT ![c] = @ \cup {key[c]}]
  /\ Breaker!Fail(c)
  /\ HandleError(c, "auth")
  /\ UNCHANGED <<cancelled, healthy, valid, countVars>>

BadRequest(c) ==
  /\ "bad request" \in Faults
  /\ pc[c] = "sent"
  /\ ~cancelled[c]
  /\ Breaker!Fail(c)
  /\ HandleError(c, "fatal")
  /\ UNCHANGED <<cancelled, serviceVars>>

(***************************************************************************)
(* The select of the backoff: with both the timer and the context ready it *)
(* takes either.                                                           *)
(***************************************************************************)
\* Mutant: TimerFires that waits for a circuit that only an attempt can probe.
TimerFiresUnlessOpen(c) ==
  /\ pc[c] = "backoff"
  /\ wait[c] = 0
  /\ state # "OPEN"
  /\ pc' = [pc EXCEPT ![c] = "ready"]
  /\ UNCHANGED <<breakerVars, loopVars, cancelled, serviceVars>>

TimerFires(c) ==
  /\ pc[c] = "backoff"
  /\ wait[c] = 0
  /\ pc' = [pc EXCEPT ![c] = "ready"]
  /\ UNCHANGED <<breakerVars, loopVars, cancelled, serviceVars>>

BackoffCancelled(c) ==
  /\ pc[c] = "backoff"
  /\ cancelled[c]
  /\ Return(c, "cancelled")
  /\ wait' = [wait EXCEPT ![c] = 0]
  /\ UNCHANGED <<breakerVars, key, cancelled, serviceVars>>
-----------------------------------------------------------------------------
(***************************************************************************)
(* The environment: callers cancel, the service has outages, its operators *)
(* revoke the primary key once clients carry a secondary one.              *)
(***************************************************************************)
Cancel(c) ==
  /\ "cancel" \in Faults
  /\ pc[c] # "idle"
  /\ cancelled' = [cancelled EXCEPT ![c] = TRUE]
  /\ UNCHANGED <<breakerVars, pc, loopVars, serviceVars>>

Outage ==
  /\ "outage" \in Faults
  /\ healthy' = ~healthy
  /\ UNCHANGED <<breakerVars, pc, loopVars, cancelled, valid, countVars, refused>>

Revoke ==
  /\ "revoke" \in Faults
  /\ valid' = valid \ {"primary"}
  /\ UNCHANGED <<breakerVars, pc, loopVars, cancelled, healthy, countVars, refused>>

\* Mutant: Tick that runs the backoff timer past its end.
TickPastEnd ==
  /\ Breaker!Tick
  /\ wait' = [c \in Calls |-> wait[c] - 1]
  /\ UNCHANGED <<pc, attempt, key, result, cancelled, serviceVars>>

Tick ==
  /\ Breaker!Tick
  /\ wait' = [c \in Calls |-> IF wait[c] > 0 THEN wait[c] - 1 ELSE 0]
  /\ UNCHANGED <<pc, attempt, key, result, cancelled, serviceVars>>

Answer(c) ==
  \/ Accept(c) \/ Succeeds(c) \/ Redirected(c)
  \/ Transient(c) \/ Unauthorized(c) \/ BadRequest(c)
Attempt(c) == Send(c) \/ Rejected(c)
Backoff(c) == TimerFires(c) \/ BackoffCancelled(c)

Next ==
  \/ \E c \in Calls :
       Start(c) \/ Attempt(c) \/ Answer(c) \/ Backoff(c) \/ Late(c) \/ Cancel(c)
  \/ Outage
  \/ Revoke
  \/ Tick

Spec == Init /\ [][Next]_vars

(***************************************************************************)
(* The application keeps issuing requests, a goroutine that can run does,  *)
(* time passes, and an attempt in flight gets an answer or times out.      *)
(***************************************************************************)
Fairness ==
  /\ WF_vars(Tick)
  /\ \A c \in Calls :
       /\ WF_vars(Start(c))
       /\ WF_vars(Attempt(c))
       /\ WF_vars(Answer(c))
       /\ WF_vars(Backoff(c))

FairSpec == Spec /\ Fairness
-----------------------------------------------------------------------------
(***************************************************************************)
(* However many answers are lost, the service carries out a request at     *)
(* most MaxRetries + 1 times, the attempts that may still reach it         *)
(* included: rotating to the secondary key spends a retry and is no second *)
(* budget.                                                                 *)
(***************************************************************************)
RetryBudget == \A c \in Calls : accepted[c] + stray[c] <= MaxRetries + 1

(***************************************************************************)
(* Only a lost answer duplicates a request.  Beside the attempt whose      *)
(* success it returns, the service carries out no more than the attempts   *)
(* that ended "transient", now or late: a request that returned another    *)
(* error, and met no transient one on its way, is not carried out.         *)
(***************************************************************************)
OnlyLossDuplicates ==
  \A c \in Calls :
    accepted[c] + stray[c] <=
      lost[c] + (IF pc[c] = "accepted" \/ result[c] = "ok" THEN 1 ELSE 0)

(***************************************************************************)
(* A final 401 means that every key the client has was tried.              *)
(***************************************************************************)
AuthErrorIsFinal ==
  SecondaryKey =>
    \A c \in Calls : result[c] = "auth" => refused[c] = Keys

(***************************************************************************)
(* CircuitOpenError says the request "is rejected without being            *)
(* attempted": nothing of it was carried out.                              *)
(***************************************************************************)
RejectedMeansUntouched ==
  \A c \in Calls : result[c] = "rejected" => accepted[c] = 0

Contract == INSTANCE RequestContract WITH
  Budget   <- MaxRetries + 1,
  Failures <- {"auth", "fatal", "rejected", "cancelled"},
  pending  <- {c \in Calls : pc[c] # "idle"},
  executed <- accepted,
  unclear  <- lost,
  outcome  <- result

(***************************************************************************)
(* A request keeps its contract: it is carried out once, and returns "ok", *)
(* or not at all, and returns an error, except for the attempts that ended *)
(* without a definite answer; those may be carried out also after it has   *)
(* returned.                                                               *)
(***************************************************************************)
KeepsContract == Contract!Spec

(***************************************************************************)
(* Every step of a request is a step of the breaker, or leaves it alone.   *)
(***************************************************************************)
BreakerSpec == Breaker!Spec

(***************************************************************************)
(* What the service sees of the breaker.  With Timeout < ResetTimeout no   *)
(* request waits for an answer of it once the circuit has been open for    *)
(* Timeout, and at most MaxProbes do while it is half-open, however many   *)
(* goroutines retry.  (The attempts the client has given up are not among  *)
(* them: the breaker has settled those.)                                   *)
(***************************************************************************)
InFlight == {c \in Calls : pc[c] \in {"sent", "accepted"}}

ServiceIsShielded ==
  /\ state = "OPEN" /\ openAge > Timeout => InFlight = {}
  /\ state = "HALF_OPEN" => Cardinality(InFlight) <= Breaker!MaxProbes

(***************************************************************************)
(* The steps a request has left: an attempt is four at most.               *)
(***************************************************************************)
Stage == [accepted |-> 1, sent |-> 2, ready |-> 3, backoff |-> 4]

StepsLeft(c) ==
  IF pc[c] = "idle" THEN 0 ELSE 4 * (MaxRetries - attempt[c]) + Stage[pc[c]]

(***************************************************************************)
(* Whatever happens to a request brings its return nearer: nothing (a      *)
(* rotation, a lost answer, a timeout) gives it an attempt back.           *)
(***************************************************************************)
RequestProgress ==
  [][\A c \in Calls : pc[c] # "idle" =>
       \/ StepsLeft(c)' < StepsLeft(c)
       \/ UNCHANGED <<pc[c], attempt[c], key[c], lost[c], result[c]>>]_vars

(***************************************************************************)
(* Every request returns, whatever the service and the breaker do.         *)
(***************************************************************************)
EveryRequestReturns == \A c \in Calls : pc[c] # "idle" ~> pc[c] = "idle"

(***************************************************************************)
(* The client recovers with the service: once the service is healthy,      *)
(* takes both keys and redirects nobody, and nobody cancels or sends bad   *)
(* requests, requests succeed again and again.  It takes a breaker that leaves the open state *)
(* and a retry loop that does not hold its requests back for ever.         *)
(***************************************************************************)
Disturbance == \E c \in Calls : Cancel(c) \/ BadRequest(c) \/ Redirected(c)

Served == []<>(\E c \in Calls : result[c] = "ok")

ServedWhenHealthy ==
  <>[][~Disturbance]_vars /\ <>[](healthy /\ valid = Keys) => Served

(***************************************************************************)
(* "Key rotation -- WithSecondaryAPIKey for seamless failover": the same   *)
(* when only the secondary key is valid.                                   *)
(***************************************************************************)
SeamlessFailover ==
  <>[][~Disturbance]_vars /\ <>[](healthy /\ "secondary" \in valid) => Served
=============================================================================
