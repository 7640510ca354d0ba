------------------------------ MODULE Backoff -------------------------------
(***************************************************************************)
(* How long the retry loop waits: CalculateDelay, ParseRetryAfter and      *)
(* their use in WithRetry (internal/http/retry.go), with the status codes  *)
(* buildErrorFromResponse makes recoverable (internal/http/client.go).     *)
(*                                                                         *)
(* Durations are signed integers of a fixed width.  The conversion of a    *)
(* float64 that does not fit depends on the machine: amd64 gives the       *)
(* smallest integer, arm64 the nearest.  The jitter is any factor between  *)
(* 0.8 and 1.2.  There is no secondary key here: a 401 is final.           *)
(***************************************************************************)
EXTENDS Integers

CONSTANTS
  Word,        \* durations are -Word .. Word - 1; 2^63 in the code
  Second,      \* time.Second
  MaxRetries,  \* RetryConfig.MaxRetries
  Configs,     \* the RetryConfigs an instance looks at: base and max delay
  Statuses,    \* the HTTP statuses of failed attempts; 0: no response
  RetryAfters  \* the Retry-After headers: form and number

ASSUME BackoffAssumption ==
  /\ Word \in Nat \ {0}
  /\ Second \in Nat \ {0}
  /\ MaxRetries \in Nat
  /\ Configs # {}
  /\ Configs \subseteq [base : Nat, max : Nat]
  /\ \A c \in Configs : c.base < Word /\ c.max < Word
  /\ Statuses \subseteq Nat
  /\ RetryAfters \subseteq [form : {"none", "seconds", "date"}, n : Int]

VARIABLES
  cfg,     \* the configuration of the client
  phase,   \* "trying", "waiting" or "returned"
  tries,   \* attempt, the loop variable of WithRetry
  status,  \* the status of the last attempt that failed; 0 for none
  asked,   \* its Retry-After header
  delay    \* the last delay computed

backoffVars == <<cfg, phase, tries, status, asked, delay>>

Duration == (-Word) .. (Word - 1)
NoHeader == [form |-> "none", n |-> 0]

BackoffTypeOK ==
  /\ cfg \in Configs
  /\ phase \in {"trying", "waiting", "returned"}
  /\ tries \in 0 .. MaxRetries
  /\ status \in Statuses \cup {0}
  /\ asked \in RetryAfters \cup {NoHeader}
  /\ delay \in Duration

BackoffInit ==
  /\ cfg = CHOOSE c \in Configs : TRUE
  /\ phase = "returned"
  /\ tries = 0
  /\ status = 0
  /\ asked = NoHeader
  /\ delay = 0
-----------------------------------------------------------------------------
(***************************************************************************)
(* Arithmetic of int64 and the conversion of a float64 to it.              *)
(***************************************************************************)
Wrap(x) == ((x + Word) % (2 * Word)) - Word

FloatToInt(x) ==
  IF x \in Duration THEN {x} ELSE {-Word, IF x < 0 THEN -Word ELSE Word - 1}

\* math.Pow(2, float64(attempt))
Pow2[n \in Nat] == IF n = 0 THEN 1 ELSE 2 * Pow2[n - 1]

Cap(d) == IF d > cfg.max THEN cfg.max ELSE d

\* Mutant: full jitter, any factor between 0 and 1.2.
FullJitter(d) ==
  IF d >= 0 THEN 0 .. ((6 * d) \div 5) ELSE (-((-6 * d) \div 5)) .. 0

(***************************************************************************)
(* float64(delay) * jitter, truncated towards zero.                        *)
(***************************************************************************)
Jitter(d) ==
  IF d >= 0 THEN ((4 * d) \div 5) .. ((6 * d) \div 5)
            ELSE (-((-6 * d) \div 5)) .. (-((-4 * d) \div 5))

\* Mutant: only the exponential is capped, not what the jitter makes of it.
CalculateDelayCappedOnce(n) ==
  UNION {UNION {FloatToInt(j) : j \in Jitter(Cap(e))} : e \in FloatToInt(cfg.base * Pow2[n])}

CalculateDelay(n) ==
  {Cap(d) : d \in
    UNION {UNION {FloatToInt(j) : j \in Jitter(Cap(e))} : e \in FloatToInt(cfg.base * Pow2[n])}}

\* Mutant: the seconds are not scaled to a duration.
ParseRetryAfterUnscaled(h) ==
  CASE h.form = "seconds" -> Wrap(h.n)
    [] h.form = "date"    -> IF h.n < 0 THEN 0 ELSE h.n
    [] OTHER              -> 0

(***************************************************************************)
(* The hint of the header, 0 for none: seconds times time.Second wraps,    *)
(* a date is the time until then, 0 if it is past and at most Word - 1     *)
(* (time.Until saturates).                                                 *)
(***************************************************************************)
ParseRetryAfter(h) ==
  CASE h.form = "seconds" -> Wrap(h.n * Second)
    [] h.form = "date"    -> IF h.n < 0 THEN 0 ELSE IF h.n \in Duration THEN h.n ELSE Word - 1
    [] OTHER              -> 0

Longer(d, hint) == IF hint > 0 /\ hint > d THEN hint ELSE d

(***************************************************************************)
(* An attempt without a response is a NetworkError, recoverable.           *)
(***************************************************************************)
RecoverableStatus(s) == s \in {0, 408, 429} \/ s >= 500
-----------------------------------------------------------------------------
(***************************************************************************)
(* A request, of a client with any of the configurations.                  *)
(***************************************************************************)
NewRequest ==
  /\ phase = "returned"
  /\ cfg' \in Configs
  /\ phase' = "trying"
  /\ tries' = 0
  /\ status' = 0
  /\ asked' = NoHeader
  /\ delay' = 0

\* Mutant: <= for <, one attempt too many.
WaitOneMore(s, h) ==
  /\ phase = "trying"
  /\ RecoverableStatus(s)
  /\ tries <= MaxRetries
  /\ tries' = tries + 1
  /\ status' = s
  /\ asked' = h
  /\ \E d \in CalculateDelay(tries + 1) : delay' = Longer(d, ParseRetryAfter(h))
  /\ phase' = "waiting"
  /\ UNCHANGED cfg

Wait(s, h) ==
  /\ phase = "trying"
  /\ RecoverableStatus(s)
  /\ tries < MaxRetries
  /\ tries' = tries + 1
  /\ status' = s
  /\ asked' = h
  /\ \E d \in CalculateDelay(tries + 1) : delay' = Longer(d, ParseRetryAfter(h))
  /\ phase' = "waiting"
  /\ UNCHANGED cfg

Stop(s, h) ==
  /\ phase = "trying"
  /\ ~(RecoverableStatus(s) /\ tries < MaxRetries)
  /\ status' = s
  /\ asked' = h
  /\ phase' = "returned"
  /\ UNCHANGED <<cfg, tries, delay>>

\* A network error carries no header.
FailedAttempt(s, h) == (s = 0 => h = NoHeader) /\ (Wait(s, h) \/ Stop(s, h))

Succeed ==
  /\ phase = "trying"
  /\ phase' = "returned"
  /\ status' = 0
  /\ asked' = NoHeader
  /\ UNCHANGED <<cfg, tries, delay>>

\* CircuitOpenError ends a request at any attempt.
Refused ==
  /\ phase = "trying"
  /\ phase' = "returned"
  /\ status' = 0
  /\ asked' = NoHeader
  /\ UNCHANGED <<cfg, tries, delay>>

(***************************************************************************)
(* The select of the backoff: the timer, or a context that is done.        *)
(***************************************************************************)
TimerEnds ==
  /\ phase = "waiting"
  /\ phase' = "trying"
  /\ UNCHANGED <<cfg, tries, status, asked, delay>>

ContextDone ==
  /\ phase = "waiting"
  /\ phase' = "returned"
  /\ UNCHANGED <<cfg, tries, status, asked, delay>>

BackoffNext ==
  \/ NewRequest
  \/ \E s \in Statuses, h \in RetryAfters : FailedAttempt(s, h)
  \/ Succeed
  \/ Refused
  \/ TimerEnds
  \/ ContextDone

BackoffSpec == BackoffInit /\ [][BackoffNext]_backoffVars
-----------------------------------------------------------------------------
(***************************************************************************)
(* "MaxDelay is the maximum delay between retries": beyond it only what    *)
(* the server has asked for, and never beyond that, whatever overflows.    *)
(***************************************************************************)
DelayIsBounded ==
  phase = "waiting" => delay <= cfg.max \/ delay = ParseRetryAfter(asked)

(***************************************************************************)
(* A retry does back off: by 80 % of the exponential delay at least, or of *)
(* MaxDelay, as long as neither leaves the integers.                       *)
(***************************************************************************)
Fits == cfg.base * Pow2[tries] \in 0 .. (Word - 1) /\ 6 * cfg.max < 5 * Word

RetriesBackOff ==
  phase = "waiting" /\ Fits => delay >= (4 * Cap(cfg.base * Pow2[tries])) \div 5

(***************************************************************************)
(* The server's Retry-After is a minimum: of seconds whenever they fit     *)
(* into a duration, of a date always.                                      *)
(***************************************************************************)
RetryAfterIsHonoured ==
  phase = "waiting" /\ asked.n > 0 =>
    /\ asked.form = "seconds" /\ asked.n * Second < Word => delay >= asked.n * Second
    /\ asked.form = "date" /\ asked.n < Word => delay >= asked.n

(***************************************************************************)
(* A retry waits no shorter than the one before, although the jitter may   *)
(* lengthen that and shorten this, until the delay reaches MaxDelay.       *)
(***************************************************************************)
DelaysNeverShrink ==
  [][phase' = "waiting" /\ tries > 0 /\ asked.form = "none"
     /\ Fits' /\ cfg.base * Pow2[tries'] <= cfg.max => delay' >= delay]_backoffVars
=============================================================================
