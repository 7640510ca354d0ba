# Verification of the Huefy Go SDK

TLA+ models of `huefy-go`, the Go client of the Huefy e-mail API, their model
checking with TLC, and theorems about them checked by TLAPS. All paths are
relative to the repository root (`src/...`).

## 1. The system

| Component | Source | State it keeps | Operations |
|---|---|---|---|
| Circuit breaker | `internal/http/circuit_breaker.go` | `state`, `failureCount`, `halfOpenAttempts`, `openedAt`, statistics, all under one mutex | `Execute`, `GetState`, `Reset`, `GetStats` |
| Retry loop | `internal/http/retry.go` | per request: `attempt`, `lastErr`, a timer | `WithRetry`, `CalculateDelay`, `ParseRetryAfter` |
| HTTP client | `internal/http/client.go` | the breaker, the configuration, per request `currentKey` and `attempted401Rotation` | `Request`, `doRequestFull`, `buildErrorFromResponse`, `parseRateLimitHeaders` |
| Configuration | `config/options.go` | options, set once | `With...` options, `DefaultConfig` |
| Base client | `client/client.go` | the HTTP client | `HealthCheck`, `Request`, `Close` |
| E-mail client | `huefy_client.go`, `validators/`, `models/` | none; changes the caller's request in place | `SendEmail`, `SendBulkEmails`, validation, normalisation |
| Errors | `errors/errors.go` | none | constructors, `IsRecoverable` |
| Sanitiser | `errors/sanitizer.go` | a global configuration behind an `RWMutex` | `SanitizeErrorMessage`, `Set`/`GetDefaultSanitizationConfig` |
| Security | `security/security.go` | none | PII scan, request signing |

How they interact: `SendEmail` validates and normalises the request and calls
`Client.Request`. That is `WithRetry` around `retryFn`; each attempt goes through
`CircuitBreaker.Execute`, which runs `doRequestFull` outside its lock. All
goroutines that use a client share one breaker, one configuration and one
service. The user's code runs inside the protected function: the transport, the
logger, the rate-limit callbacks.

What is hard: calls are admitted and settled in two critical sections with
arbitrary time between them; results come in late and out of order; the request's
context may be done at any time; answers are lost after the service has carried
the request out; the key rotation is local to a request and the breaker is
shared; the protected function may panic. `PROJECT.json` lists every hazard at its
line, with the properties that watch it.

What makes each part correct:

- breaker: probes are limited; only they decide the half-open state; it is never
  stuck; the open state lasts; a healthy service gets a closed circuit again;
- request: a bounded number of executions, also by attempts that arrive late; only an
  attempt without a definite answer is carried out beside the one the request
  returns; it returns; a final error tells the truth; failover works;
- breaker statistics: they add up while calls run; a caller who waits until the
  `ResetAt` it was given is let in;
- delays: they do not shrink, they respect the server's hint, and beyond `MaxDelay` there is
  only that hint, also where the arithmetic overflows;
- rate-limit callbacks: every answer reaches them, warnings below 20 % only;
- e-mail client: what is carried out is what the application meant, whoever shares the
  request object and however often it is submitted; a refused request is left alone;
- PII scan: it ends, on cyclic data too, and misses no field of a map it reaches through maps
  (neither the code nor the model looks into slices);
- sanitiser: a message is sanitised with one configuration, whoever changes the
  configuration meanwhile.

## 2. Modules

| Module | What it is |
|---|---|
| `CircuitBreaker` | the breaker: one action per critical section, time, panics, `Reset` |
| `BreakerContract` | abstract: the breaker as a program with one caller would find it |
| `BreakerStats` | `CircuitBreaker` with the counters of `GetStats` and the `ResetAt` of rejections |
| `MCCircuitBreaker`, `MCBreakerStats` | the two for TLC, with the symmetry of the goroutines |
| `CircuitBreakerProofs`, `BreakerStatsProofs` | theorems about them |
| `Request` | the retry loop, the key rotation and the service, composed with the breaker (`INSTANCE CircuitBreaker`) |
| `RequestContract` | abstract: what `Client.Request` promises its callers and the service |
| `MCRequest` | the same for TLC |
| `RequestProofs` | theorems about `Request`; carries the breaker's theorems over (`INSTANCE CircuitBreakerProofs`) |
| `EmailClient` | the e-mail client and its validators on top of `RequestContract` (`INSTANCE`), with a request object goroutines share |
| `MCEmailClient`, `EmailClientProofs` | the requests of its instance; theorems about it |
| `Backoff` | the delays of the retry loop in integers of a fixed width |
| `RateLimit` | from responses to the two rate-limit callbacks |
| `PIIScan` | the walk of `DetectPotentialPII` over a heap of maps |
| `Sanitizer` | an error message against goroutines that change the global configuration |
| `Parts`, `MCParts` | the four before as one specification, for TLC |
| `HttpProofs`, `PIIScanProofs`, `SanitizerProofs` | theorems about them (`HttpProofs`: `Backoff` and `RateLimit`) |
| `PartsProofs` | `Parts` implements each of the four |

Definitions that start with a comment `Mutant:` are wrong variants of the action
that follows them. They are no part of a specification: each is put in place of
that action to see that a property notices.

### CircuitBreaker

`state`, `failureCount` and `halfOpenAttempts` are the fields of the struct.
`openedAt` is `openAge`, the time since, saturated at `ResetTimeout` because the
code only asks whether `ResetTimeout` has passed; the zero time is "long ago".
`failureCount` saturates at the threshold for the same reason. `call[c]` says
whether goroutine `c` is inside the `fn()` of `executeClosed` or of
`executeHalfOpen`, `age[c]` for how long. The arms of the `switch` in `Execute` are
`OpenProbe`, `OpenReject`, `HalfOpenProbe`, `HalfOpenReject` and `ClosedAdmit`; the
second critical sections are `ClosedSuccess`, `ClosedFailure`, `HalfOpenSuccess`
and `HalfOpenFailure`, which, as in the code, do not look at the state they find.
`Panic` is `fn` panicking: nothing is deferred yet, so the goroutine leaves and
nothing is settled. `Tick` advances the clock and waits for calls whose timeout is
due: `http.Client.Timeout` covers `Do` and the reading of the body.

`Timeout` is an assumption on the part of `fn` the SDK does not bound: logger and
rate-limit callbacks. With `Timeout = 0` in the SDK (no timeout), or callbacks that
block, take `Timeout` as large as they get.

### BreakerStats

`totalRequests` and `successCount` decide nothing, so every step is a
step of `CircuitBreaker` conjoined with what it counts, and the properties of
`CircuitBreaker` are checked on the module that has both. `lastFailureTime`, which
`GetStats` passes on, is left out. `resetIn` is the time until the `ResetAt` of the last
rejection; it is dropped when a failure is recorded, since the code then moves
`openedAt` and the hint is out of date by design. `totalRequests` and `successCount` are
bounded by `StatBound`, where they saturate.

### Request

Per goroutine, `pc` is where its request is: `ready` (about to call
`Execute`), `sent` (inside `httpClient.Do`), `accepted` (the service has carried it
out, the answer is on its way), `backoff` (in the `select` of `WithRetry`), `idle`
(returned, `result` says with what). `key` is `currentKey`;
`attempted401Rotation` is `key = "secondary"`, since both are set together. The
service has `healthy`, the set of `valid` keys, and a log: `accepted` and
`refused`. Outcomes are classes (`ok`, `moved`, `auth`, `fatal`, `transient`) as
`doRequestFull`, `buildErrorFromResponse` and `NetworkError` make them; only `transient` is
recoverable, and `auth` when it rotates.

`doRequestFull` takes every status below 400 for a success (`client.go:206`). So a 304, a 3xx
without `Location`, or the answer to the GET that a redirected POST becomes returns no
error although nothing was carried out: `Redirected`, with the outcome `moved`. The caller cannot
tell it from `ok`; the properties can, and promise nothing for it but that
nothing was carried out. (A 307 or 308 repeats the POST, and is as any attempt.)

An attempt the client gives up, by its timeout or its context, is not called back:
`http.Client.Do` is abandoned (`client.go:195`), the request may be on its way. `Transient` counts
such an attempt in `stray`, and `Late` carries it out at any time: during the backoff, beside the next
attempt, or when `Request` has returned. `lost` counts the attempts that ended `transient`. The three
counts are about the goroutine's last request; executions of one before it are no longer
followed once it starts the next.

What a goroutine does between two points where others can see or disturb it is one
action. So the settling of the breaker, the rotation in `retryFn` and the
next turn of the loop in `WithRetry` are one step: they share nothing but the breaker.

Abstractions: whether an attempt given up before it was carried out will still reach the service is
left open, also where the code cannot have sent it (a context that was done before `Do`).
`http.Transport` may repeat an idempotent GET by itself on a dead connection; a health
check is one, a send is not, and the model counts attempts, not transmissions. `Delays` is a set of waits; a timer that has fired may be served
arbitrarily late, as a goroutine may be scheduled late. The SDK itself never
calls `Reset` or `GetState` on its breaker, so `Request` does not either, and the protected
function does not panic here (`breaker_panic` shows what happens if it does).

### EmailClient

`Client.Request` is taken by its contract: `RequestContract` is instantiated with the
variables `pending`, `executed`, `unclear` and `outcome`, and its actions are conjoined to the
e-mail client's own steps. The service may carry out a body on the `wire` after the call has
returned; that is followed until the goroutine, or the application with another request, begins
anew. Of the answers without an error, `moved` is decoded like `ok`. `Request` implements that contract
(`KeepsContract`), so what is said here of one request object is said of the whole
stack below.

The state is the shared request `req`, what it was when the application made it
(`original`, a variable the properties need, not the code), the program counters and local
variables of the goroutines, the bodies on the `wire` and those carried out (`mailed`). A text is
its core, with space around it or not, in upper case or not: what `TrimSpace`, `ToLower`,
the regular expression and the length checks can tell apart. A recipient has one of
the Go types the `switch`es name (`form`). `SendEmail` and `SendBulkEmails` are one
sequence of actions; they differ in when the recipients are normalised and in
what the validators look at. `Attempt` marshals `req` as it is *now*, on every retry. A struct
leaves out an empty type and an empty `data` object (`omitempty`, `models/email.go:23-24`, `:56-57`), a
map keeps both. The body is then decoded and encoded once more to sort its keys, which takes every
number through `float64`: `Canonical` rounds a whole number of 64 bits, of either sign, to
the nearest that 53 bits hold. `SameMail` promises the numbers from -2^53 to 2^53. The template
data stands for all numbers in it; those in a recipient's `data` go the same way and are not told apart.

A string or an interface is two machine words, so a store that changes both is
two actions with a torn value between. `Submit` lets goroutines share a request only if
none of its stores changes two words (`Shareable`): a key without space, and recipients
whose dynamic type the normalisation keeps. That is the discipline an application would
need; no document states it, and `README.md:62`, "safe for concurrent use across
goroutines", may be read to deny it: it is true of the client, not of a request object two calls share. With `Shareable` replaced by `TRUE`, TLC finds `SameMail`
violated: one goroutine marshals while the other is half-way through its store. Two
goroutines writing equal words remains a data race for the race detector.

`HealthCheck` is here too, since it goes through the same `Client.Request`. What the
PII scan logs before validation is `PIIScan`.

### Backoff

Durations are `-Word .. Word - 1`. The conversion of a `float64` that does not fit is
either the smallest integer (amd64) or the nearest (arm64); both are modelled. The
jitter is every factor from 0.8 to 1.2. `ParseRetryAfter` multiplies seconds with
`time.Second` in wrapping arithmetic. A recoverable status is one `buildErrorFromResponse`
marks. There is no second key here, so a 401 is final. A request also ends before its attempts are used
up when the context is done during a wait (`ContextDone`) or the breaker refuses a retry (`Refused`).

### RateLimit

The service answers with one request less remaining each time; a goroutine gets from its
answer to the callbacks in its own time. `finished` remembers which answers had complete
headers and have returned. An answer is told from the others by `remaining`, so a new window
waits until the answers of the old one are dealt with.

### PIIScan

A document is a heap of maps: nested, shared, cyclic. The recursion is a stack of frames,
each with the keys `range` still owes; `\E f` is Go's random order of iteration. A report
remembers the map its last field is in, which the code does not keep: the
properties need it to say that a field of a *shared* map is reported once.

### Sanitizer

A message is the set of its sensitive pieces, a configuration a set of categories, and the
patterns are applied in the order of `buildPatterns`. `GetDefaultSanitizationConfig` copies
under the read lock, `SetDefaultSanitizationConfig` keeps the caller's pointer. The
application may edit a struct that is not the default, at any time; to edit the default in
place is a data race, and out of the model. A nil default makes the reader panic
(`Panicked`).

### Parts

`RateLimit`, `PIIScan`, `Backoff` and `Sanitizer` share no variable. `Parts` is
their sum: the variable `part` says which of them a behaviour exercises and the others
stand still. So one run checks all four without multiplying their states, and each
property is about the module that defines it.

## 3. Runs

| Run | Instance | Result |
|---|---|---|
| `breaker_safety` | `BreakerStats`, 4 goroutines, threshold 3, `ResetTimeout` 4, `Timeout` 3, 2 probes, panics and `Reset` | `StatsTypeOK` (with the `TypeOK` of `CircuitBreaker`), `ProbeLimit`, `ProbesDecide`, `OpenShields`, `ResetAtIsRight` hold |
| `breaker_default` | `BreakerStats`, 3 goroutines, threshold 2, `ResetTimeout` 4, `Timeout` 3, 1 probe, fairness | `HalfOpenCanMove`, `StatsAddUp`, `OpenHolds`, `TripsAtThreshold`, `OpenIsProbed`, `Recovery`, `ThreeStates` (it implements `BreakerContract`) hold |
| `breaker_two_probes` | `HalfOpenRequests` = 2 | `TripsAtThreshold` fails |
| `breaker_slow_call` | `Timeout` > `ResetTimeout` | `OpenHolds` fails |
| `breaker_panic` | a probe may panic | `HalfOpenCanMove` fails |
| `request_default` | 2 requests, `MaxRetries` 2, threshold 1, all faults, fairness | `TypeOK`, `RetryBudget`, `OnlyLossDuplicates`, `ServiceIsShielded`, `RequestProgress`, `EveryRequestReturns`, `ServedWhenHealthy`, `KeepsContract` (it implements `RequestContract`) hold |
| `request_rotation` | the primary key is revoked, fairness | `SeamlessFailover` fails |
| `request_last_attempt` | a revoked key and an outage | `AuthErrorIsFinal` fails |
| `request_masked` | an outage | `RejectedMeansUntouched` fails |
| `email_default` | 2 goroutines, 28 requests of every form and fault, 2 executions each | `TypeOK`, `SameMail`, `JudgedAsMeant`, `InvalidIsUntouched` hold |
| `parts_default` | `Parts`: a limit of 6 and 2 goroutines; every heap of 3 maps described in `MCDocuments`; 12 configurations, 5 attempts, a word of 128 values; 2 structs, 3 messages | `PartsTypeOK`, `WarnsBelowAFifth`, `SuccessesAreReported`, `ReportsAreReal`, `EachReportedOnce`, `DepthIsBounded`, `ScanProgress`, `ScanEnds`, `DelayIsBounded`, `RetriesBackOff`, `RetryAfterIsHonoured`, `DelaysNeverShrink`, `OneConfigPerMessage` hold |
| `rate_limit_errors` | the same | `EveryResponseIsReported` fails |

What the failing runs show, each against a line of the repository:

- `breaker_two_probes`: one probe's success closes the circuit, the other's failure
  opens it: one failure instead of `FailureThreshold` "consecutive failures"
  (`README.md:91`).
- `breaker_slow_call`: a call from before the trip fails during the half-open period and
  reopens the circuit under the running probe, whose success then closes it at
  once; "the duration the circuit stays open" (`config/options.go:82`) is cut short.
  The two options default to the same 30 s; on that boundary the window is the
  time between the admission of a call and the trip, and it opens fully with
  `WithTimeout` above 30 s.
- `breaker_panic`: a panicking probe keeps its attempt. The half-open state has no
  timer, so it never "tests whether the service has recovered" again
  (`circuit_breaker.go:19`).
- `request_rotation`: two 401s in a row open the breaker. From then on the probe of each
  half-open period starts with the primary key (`client.go:93`), gets 401, reopens
  the circuit, and its retry with the secondary key, about a second later, is rejected. No request
  succeeds again, with a healthy service and a valid secondary key
  ("seamless failover", `README.md:60`).
- `request_last_attempt`: a 401 on the last attempt rotates and then gives up.
- `request_masked`: `CircuitOpenError`, "rejected without being attempted"
  (`circuit_breaker.go:37`), for a request whose first attempt was carried out.
- `rate_limit_errors`: `doRequestFull` returns for statuses from 400 on before it reads
  the headers, so "called after each response when rate limit headers are present"
  (`config/options.go:55`) is not true of a 429.

Where code and documents disagree and a run would only restate one line:
`README.md:82` gives the default 3 as `MaxAttempts`, "Total attempts including the first", but the field is
`MaxRetries`, "the maximum number of retry attempts" (`options.go:64`), and a request makes
`MaxRetries + 1` attempts, 4 by default (`retry_test.go:112`): `RetryBudget` has the code's number;
`RetryableStatusCodes`, "the list of HTTP status codes that trigger a retry"
(`config/options.go:73`), is never read: what is retried is fixed in `buildErrorFromResponse`, which also
retries a 501 or a 505 that is not in the list; "below 20%" (`options.go:58`) is an integer division and misses one
number of limits that 5 does not divide; a Retry-After may exceed "the maximum delay between retries"
(`options.go:70`), by intention; the formula above `CalculateDelay` lacks
its second cap; the defaults in the comments at `options.go:67` and `:70` (1 s, 30 s) are not
those of `DefaultConfig` (500 ms, 10 s).

What else the modelling brought up: the data of a `map[string]string` recipient passes as a text the
first time and, normalised to a `map[string]any`, is refused the second (`TextData`
excepts such requests); it is not scanned for PII either, nor is the data of bulk
recipients. Whole numbers beyond 2^53, of either sign, in template data are rounded by the canonical JSON
(`Precision`). A redirect may answer a send without an error and without a mail (`moved`). The path pattern runs before the one for connection strings and
leaves the query of a string without a port; `Redacted` allows that and no more. The
`Cause` of an error is not sanitised. `SetDefaultSanitizationConfig(nil)`
makes the next failing request panic.

Bounds. Stragglers, one probe too many, and a third party need three calls; the
fourth in `breaker_safety` is for two probes beside two old calls. Times matter only
in their order: `Timeout` one below `ResetTimeout` is the tightest case of
`Timeout < ResetTimeout`, one above it the tightest of the opposite. `MaxRetries` = 2 lets a lost
answer, a rotation and a success happen in one request. The threshold of 1 in `request_default` trips the
circuit within a request, between its attempts, and across the two. One value for `Delays` is
enough since a fired timer may be served late. The saturations are exact: the code
compares with the bound and nothing else. `StatBound` is 1 in `breaker_safety`, where no property
reads the counters, and 6 in `breaker_default`, enough for three calls to trip the
circuit, be rejected, probe and close it; `StatsAddUp` speaks of counters below it.
In `email_default` two goroutines are what a race takes, `Budget` 2 gives a retry, `MaxBulk` 2 has a
bulk of none, one, the maximum and one more, `Precision` 4 numbers below, at and beyond it, of both signs, with a tie that rounds to the even. In
`parts_default` a `Limit` of 6 has numbers that warn, that do not and that the
division rounds away; three maps can be nested twice, shared and cyclic; a
word of 128 values holds a base delay of 3 through all four doublings and
one of 10 through two; `Second` 5 makes a Retry-After of 15 wrap to a negative
and one of 30 to a positive duration. The theorems do not depend on the bounds.

Fairness. `Tick`: time passes. `Settle`/`Answer`: a running call returns, by its timeout
at the latest. `Execute`/`Start`/`Attempt`/`Backoff`: the application keeps calling and the
Go scheduler runs what can run. `ScanStep`: the walk is a loop of one goroutine. No fairness on `GetState`, `Reset`, `Panic`, or on anything
the environment may do. `Recovery`, `ServedWhenHealthy` and `SeamlessFailover`
assume that the disturbance ends, as a premise of the property.

## 4. Theorems

`CircuitBreakerProofs`, for any finite set of goroutines and any configuration:

- `TypeCorrect`.
- `HalfOpenNeverStuck` (no panics, `HalfOpenRequests > 0`): `HalfOpenCanMove` is
  not inductive. `ClaimsAreProbes` is: in the half-open state either no attempt is
  claimed or a probe is running, since the first result of a probe ends the state.
- `ProbesAreLimited`, `OnlyProbesDecide`, `OpenCircuitShields`
  (`Timeout < ResetTimeout`), from one inductive invariant `DrainInv`: a call running in an
  open circuit is at least as old as the open period (`Stragglers`), so nobody is
  left when it ends; a half-open period starts empty and counts whom it admits
  (`ProbesCounted`).
- `OpenForResetTimeout`, `OpensAtThreshold` (also `HalfOpenRequests <= 1` and no
  `Reset`): with `DrainInv`, outside the half-open state no probe is running
  (`SingleProbeInv`), so no probe's result can end an open period or open a closed
  circuit.

- `BreakerMeetsContract` (the same assumptions): `CircuitBreaker` implements
  `BreakerContract`. In that machine there is no call that outlives a state, so the
  step that matters is that a result found in the half-open state is a probe's
  and every other one is not: `SingleProbeInv` and `ProbesCounted`.

The failing runs show that the assumptions on panics, on `Timeout` and on the number of
probes are needed.

`RequestProofs`, for any number of requests and any faults:

- `BreakerRefined`: the composition implements `CircuitBreaker`. With it the
  breaker's theorems hold of the composition: `RequestsProbeInTurn`,
  `RequestsNeverStuckHalfOpen`.
- `RequestTypeCorrect`.
- `BudgetKept`, `DuplicatesAreLost` (`MaxRetries >= 0`), from `Budget`: before attempt
  `n` is answered at most `n` attempts were carried out or may be late, and these are attempts that
  ended `transient`, but for the one whose success is on its way or returned.
- `RequestMeetsContract` (`MaxRetries >= 0`): `Request` implements `RequestContract`
  with `pending <- {c : pc[c] # "idle"}`, `executed <- accepted`, `unclear <- lost`, `outcome <- result`.
  Starting is the call; `Accept` carries the request out, and so does `Late`, after the return too; an
  attempt that ends `transient` is lost, with a retry or with the return. The contract allows one
  execution for the success and one for each attempt lost, so what is to be shown is where an
  execution comes from: a success that is returned has its own, an answer that is a
  definite error has none.
- `RequestsProgress` (`MaxRetries >= 0`): `StepsLeft` is a natural number and every step of a
  request makes it smaller; a step of anything else leaves the request alone or makes it smaller
  too. This is the half of `EveryRequestReturns` that needs no fairness: an endless
  request could only be one that takes no step.
- `RequestsOpenAndTrip` (`Timeout < ResetTimeout`, `HalfOpenRequests <= 1`): `OpenHolds` and
  `TripsAtThreshold` of the shared breaker, carried over from `CircuitBreaker`.
- `ServiceShielded` (`Timeout < ResetTimeout`): the breaker's bounds are bounds on the service's load.
  The breaker counts its own calls (`Running`), the service sees attempts (`InFlight`: `pc` is `sent` or
  `accepted`). `InFlightInv` says that these are the same goroutines, since nothing but `Send` admits
  and nothing but an answer or a timeout settles; then `OpenShields`, `ProbesDecide` and `ProbeLimit` speak
  of attempts.
- `AuthErrorsAreFinal`, `OutcomesAreTrue`, `RejectedIsUntouched`: when two of the failing
  properties do hold. A 401 is final only after both keys were tried if
  there is one retry at least and no outage that spends it (`RotationInv`: a request still on
  the primary key is at its first attempt, so the rotation has a retry left). Without outages and
  cancellations no answer is lost (`OnceInv`), so `ok` means carried out exactly once, every
  error, `CircuitOpenError` among them, and a redirect not at all, neither then nor late. So the lost answer, and
  nothing in the breaker or the rotation, is what `request_masked` needs.

`BreakerStatsProofs`, for any number of goroutines and any configuration:

- `StatsImplementBreaker`: every step of `BreakerStats` is a step of `CircuitBreaker`, so the
  theorems above hold of it.
- `StatsTypeCorrect`; `ResetAtSuffices`, from the stronger fact that the hint and the age of the open period
  always add up to `ResetTimeout` at least.
- `StatisticsAddUp` (no `Reset`): the sum is inductive for counters below `StatBound`; a call that is admitted
  enters `Running` as it is counted, one that is settled moves from there to exactly one counter.

`HttpProofs`:

- `SuccessesReachTheCallback`, `WarningsAreBelowAFifth`, for any limit: what a goroutine
  between the two callbacks holds is already reported (`UpdatedInv`), and what has returned was
  warned of if it is low (`ReturnedInv`).
- `DelaysAreBounded`, `EveryRetryBacksOff`, `RetryAfterIsAMinimum`, for any word size, delays, statuses and headers: the delay of a
  waiting request is the longer of one member of `CalculateDelay(tries)` and the hint
  (`WaitInv`); the rest are lemmas about those two operators.
- `BackoffNeverShrinks`: `DelaysNeverShrink`, for any base delay and number of retries. The exponential is four
  fifths at least and six fifths at most of itself (`WithinAFifth`), and the next one is its double: 0.8 * 2 > 1.2.
  That 2^n doubles is induction over the numbers, which the library's rule states with
  an operator. `InductiveSetIsNat` states it with a set, and follows from
  `WFMin`: a number outside the set would have a least one. With it `Pow2` exists (`TablesExist`,
  `TablesAgree`, `Pow2Exists`) and obeys its own recursion (`Pow2Doubles`).

`PIIScanProofs`, for any finite heap: `ScanTypeCorrect`, `EveryReportIsReal`,
`EveryFieldIsReportedOnce`, `RecursionIsBounded`. The invariant `ScanInv` says that the frames are of
different visited maps (`FramesInv`, which bounds the depth), that the path of each frame
leads to its map (`PathsInv`), and that a visited map without a frame, or a key a frame no longer
owes, has been dealt with: reported if sensitive, its map visited (`TodoInv`). When the stack is
empty the visited maps are closed under reference, so they are all that can be reached.
`EveryStepIsProgress`: `WorkLeft`, twice the fields of maps not visited or still owed by a frame
(`Pending`) plus the depth of the stack, is a natural number that every step makes smaller: a visit takes one field off
and adds one frame at most. It is the half of `ScanEnds` that needs no fairness, for any
finite set of field names (`IsFiniteSet(Fields)`, as a Go map has).

`SanitizerProofs`: `OneConfigurationPerMessage`, since what is left of a message in front of
pattern `i` is what the first `i - 1` patterns of the copy make of it, and the copy was a default
of the call.

`PartsProofs`: `PartsImplementTheirModules`, so the theorems about the four parts hold of the specification
`parts_default` checks, and `PartsTypeCorrect`.

`EmailClientProofs`, for any requests, any number of goroutines and any contract budget:
`EmailTypeCorrect`, `EveryMailIsTheSame`, `RequestsAreJudgedAsMeant`, `InvalidRequestsAreUntouched`. In the
invariant the key and the recipients of the shared request are the original ones or their
normal forms, unless the goroutine that stores them is half-way, and then it is the only one
(`KeyInv`, `ToInv`); what a goroutine has stored stays (`PhaseInv`), so that each of its bodies
says what was meant, and still does when its call has returned (`BodyInv`); and the verdicts are right (`JudgeInv`). It rests on lemmas about the
operators: normalising is idempotent, keeps the meaning and does not change what the
validators say, except for the text data of a `map[string]string`; rounding to `float64` stays in the
64 bits and keeps what 53 bits hold (`CanonicalFits`).
`ClientKeepsContract`: the client is itself a behaviour of `RequestContract`, so conjoining the two takes
nothing away from either. `SuccessIsMailed`: a send that returns with the answer of an attempt that was carried out, decodable or not,
was of a valid request and has mailed what was meant, and nothing else; the contract promises a count (`executed`), the client's
bodies are a set (`mailed`), and `CarriedInv` ties the two.

Only model-checked: the liveness properties (`OpenIsProbed`, `Recovery`,
`EveryRequestReturns`, `ServedWhenHealthy`, `ScanEnds`), since liveness under fairness and `ENABLED` are
beyond the prover. For `EveryRequestReturns` and `ScanEnds` the variant is proved; what is left to TLC is
that fairness keeps taking steps. Every other property of a passing run is a theorem. `SentIsMailed` and `OutcomeIsTrue` (without outages and
cancellations) are theorems only, and so is `BreakerRefined`.

Note on `HalfOpenRequests = 0`, what a `CircuitBreakerConfig` literal without that
field gives: `OpenProbe` does not look at the option, so `Execute` alone admits
one probe; but `GetState` enters the half-open state with no attempt left to
claim, hence the assumption `HalfOpenRequests > 0`. And with `MaxRetries < 0` the loop never runs:
`Request` returns neither a body nor an error, which `RequestContract` does not allow; hence
the assumption `MaxRetries >= 0`.

## 5. Not modelled, and what is left

Not modelled, and why:

- `types/`, `internal/version/`, `exports.go`: declarations, a console logger and aliases; no
  state and no decision.
- `sdk-lab/`: a harness that drives the SDK against stubs, no part of the library.
- Request signing: an attempt is stamped and signed in one straight line just before it is sent, and
  `VerifyRequestSignature`, which the client never calls, compares an age and an HMAC. A model of it could
  only restate that comparison.
- `SignPayload`, `GetKeyID`, `IsServerKey`, `IsClientKey`: pure, one line of decision each, and not
  used by the rest. HMAC, JSON and the regular expressions are taken by what they do to the
  data the properties tell apart.
- `NewClient`, the option functions, `Close`, `GetLogger`: they assign fields or forward.
- A request the application itself changes while a call with it is running, and the
  default sanitising configuration edited in place: data races of the application.

What could follow: a property for editing the caller's *template data* during a backoff, once
the documentation says whether that is allowed; the composition of `EmailClient` with `Request`
itself in place of its contract, whose states are beyond an instance of useful size.
