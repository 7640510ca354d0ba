----------------------------- MODULE HttpProofs -----------------------------
(***************************************************************************)
(* Theorems about what internal/http does around one attempt: RateLimit,   *)
(* for any limit and any goroutines, and Backoff, for any width of a       *)
(* duration, any configurations and any headers.                           *)
(***************************************************************************)
EXTENDS RateLimit, Backoff, WellFoundedInduction, TLAPS

(***************************************************************************)
(* limit/5 is the integer division: less than it is below a fifth, and all *)
(* that is below a fifth by a whole request.                               *)
(***************************************************************************)
LEMMA LowIsBelowAFifth ==
  \A r \in 0 .. Limit : /\ Low(r) => 5 * r < Limit
                        /\ 5 * (r + 1) <= Limit => Low(r)
BY RateLimitAssumption DEF Low

(***************************************************************************)
(* A goroutine that has made the update has done so for its own answer,    *)
(* and what has returned has been through both callbacks.                  *)
(***************************************************************************)
UpdatedInv ==
  \A g \in Readers : stage[g] = "updated" =>
    got[g].status = "ok" /\ got[g].complete /\ got[g].remaining \in reported

ReturnedInv ==
  /\ \A r \in warned : Low(r) /\ r \in reported
  /\ \A a \in finished : a.status = "ok" =>
       a.remaining \in reported /\ (Low(a.remaining) => a.remaining \in warned)

RateInv == RateTypeOK /\ UpdatedInv /\ ReturnedInv

LEMMA RateInitInv == RateInit => RateInv
BY RateLimitAssumption DEF RateInit, RateInv, RateTypeOK, UpdatedInv, ReturnedInv, Answer

LEMMA RateRespondInv ==
  ASSUME RateInv, NEW g \in Readers, Respond(g)
  PROVE  RateInv'
<1>1. RateTypeOK'
  BY RateLimitAssumption DEF RateInv, RateTypeOK, Respond
<1>2. UpdatedInv'
  BY DEF RateInv, RateTypeOK, UpdatedInv, Respond
<1>3. ReturnedInv'
  BY DEF RateInv, ReturnedInv, Respond
<1> QED BY <1>1, <1>2, <1>3 DEF RateInv

LEMMA UpdateInv ==
  ASSUME RateInv, NEW g \in Readers, Update(g)
  PROVE  RateInv'
<1>1. RateTypeOK'
  BY DEF RateInv, RateTypeOK, Update, Answer
<1>2. UpdatedInv'
  BY DEF RateInv, RateTypeOK, UpdatedInv, Update
<1>3. ReturnedInv'
  BY DEF RateInv, ReturnedInv, Update
<1> QED BY <1>1, <1>2, <1>3 DEF RateInv

(***************************************************************************)
(* A request returns without callbacks, or after its update.               *)
(***************************************************************************)
LEMMA FinishInv ==
  ASSUME RateInv, NEW g \in Readers, NoCallback(g) \/ Warn(g) \/ NoWarning(g)
  PROVE  RateInv'
<1>1. /\ stock' = stock /\ got' = got /\ reported' = reported
      /\ stage' = [stage EXCEPT ![g] = "idle"]
      /\ finished' = IF got[g].complete THEN finished \cup {got[g]} ELSE finished
  BY DEF NoCallback, Warn, NoWarning, Finish
<1>2. got[g] \in Answer /\ got[g].remaining \in 0 .. Limit
  BY DEF RateInv, RateTypeOK, Answer
<1>3. warned' \in {warned, warned \cup {got[g].remaining}}
  BY DEF NoCallback, Warn, NoWarning
<1>4. RateTypeOK'
  BY <1>1, <1>2, <1>3 DEF RateInv, RateTypeOK
<1>5. UpdatedInv'
  BY <1>1 DEF RateInv, RateTypeOK, UpdatedInv
<1>6. ReturnedInv'
  <2>1. CASE NoCallback(g)
    BY <1>1, <2>1 DEF NoCallback, RateInv, ReturnedInv, Low
  <2>2. CASE Warn(g)
    BY <1>1, <2>2 DEF Warn, RateInv, UpdatedInv, ReturnedInv, Low
  <2>3. CASE NoWarning(g)
    BY <1>1, <2>3 DEF NoWarning, RateInv, UpdatedInv, ReturnedInv, Low
  <2> QED BY <2>1, <2>2, <2>3
<1> QED BY <1>4, <1>5, <1>6 DEF RateInv

LEMMA NewWindowInv == RateInv /\ NewWindow => RateInv'
BY RateLimitAssumption DEF NewWindow, RateInv, RateTypeOK, UpdatedInv, ReturnedInv

LEMMA RateInvariant == RateSpec => []RateInv
<1>1. RateInv /\ [RateNext]_rateVars => RateInv'
  <2> SUFFICES ASSUME RateInv, [RateNext]_rateVars PROVE RateInv'
    OBVIOUS
  <2>1. CASE UNCHANGED rateVars
    BY <2>1 DEF rateVars, RateInv, RateTypeOK, UpdatedInv, ReturnedInv, Low
  <2> QED BY <2>1, RateRespondInv, UpdateInv, FinishInv, NewWindowInv DEF RateNext, Read
<1> QED BY RateInitInv, <1>1, PTL DEF RateSpec

(***************************************************************************)
(* The variables keep their types.                                         *)
(***************************************************************************)
THEOREM RateLimitTypeCorrect == RateSpec => []RateTypeOK
BY RateInvariant, PTL DEF RateInv

(***************************************************************************)
(* OnRateLimitWarning is called below 20 % of the limit, after the update, *)
(* and an answer that is a whole request below 20 % is never without it.   *)
(***************************************************************************)
THEOREM WarningsAreBelowAFifth == RateSpec => []WarnsBelowAFifth
<1>1. RateInv => WarnsBelowAFifth
  <2> SUFFICES ASSUME RateInv PROVE WarnsBelowAFifth
    OBVIOUS
  <2>1. ASSUME NEW r \in warned
        PROVE  5 * r < Limit /\ r \in reported
    <3>1. r \in 0 .. Limit /\ Low(r) /\ r \in reported
      BY DEF RateInv, RateTypeOK, ReturnedInv
    <3>2. Low(r) => 5 * r < Limit
      BY <3>1, LowIsBelowAFifth
    <3> QED BY <3>1, <3>2
  <2>2. ASSUME NEW a \in finished, a.status = "ok", 5 * (a.remaining + 1) <= Limit
        PROVE  a.remaining \in warned
    <3>1. a.remaining \in 0 .. Limit
      BY DEF RateInv, RateTypeOK, Answer
    <3> QED BY <2>2, <3>1, LowIsBelowAFifth DEF RateInv, ReturnedInv
  <2> QED BY <2>1, <2>2 DEF WarnsBelowAFifth
<1> QED BY RateInvariant, <1>1, PTL

(***************************************************************************)
(* A successful answer is reported before its request returns.             *)
(***************************************************************************)
THEOREM SuccessesReachTheCallback == RateSpec => []SuccessesAreReported
<1>1. RateInv => SuccessesAreReported
  BY DEF RateInv, ReturnedInv, SuccessesAreReported
<1> QED BY RateInvariant, <1>1, PTL
-----------------------------------------------------------------------------
(***************************************************************************)
(* Induction over Nat for a set of numbers, from a least counterexample:   *)
(* the theorems of NaturalsInduction take an operator, this one a set.     *)
(***************************************************************************)
LEMMA InductiveSetIsNat ==
  ASSUME NEW S \in SUBSET Nat, 0 \in S, \A n \in S : n + 1 \in S
  PROVE  S = Nat
<1> DEFINE T == Nat \ S
           L == OpToRel(<, Nat)
<1>1. \A i, j \in Nat : i < j => <<i, j>> \in L
  BY Zenon DEF OpToRel
<1>2. IsWellFoundedOn(L, Nat)
  BY NatLessThanWellFounded
<1> HIDE DEF L
<1> SUFFICES ASSUME T # {} PROVE FALSE
  OBVIOUS
<1>3. PICK x \in T : \A y \in T : <<y, x>> \notin L
  <2>1. T \subseteq Nat
    OBVIOUS
  <2> HIDE DEF T
  <2> QED BY <1>2, <2>1, WFMin
<1>4. x - 1 \in T
  OBVIOUS
<1>5. x - 1 < x /\ x \in Nat /\ x - 1 \in Nat
  BY <1>4
<1> QED BY <1>1, <1>3, <1>4, <1>5

(***************************************************************************)
(* Pow2 satisfies its recursion equation: there is a table of the powers   *)
(* up to any k, the tables agree, and together they are such a function.   *)
(***************************************************************************)
IsTable(k, g) ==
  /\ g \in [0 .. k -> Nat]
  /\ g[0] = 1
  /\ \A i \in 1 .. k : g[i] = 2 * g[i - 1]

LEMMA TablesExist == \A k \in Nat : \E g : IsTable(k, g)
<1> DEFINE S == {k \in Nat : \E g : IsTable(k, g)}
<1>1. 0 \in S
  <2>1. IsTable(0, [i \in 0 .. 0 |-> 1])
    BY DEF IsTable
  <2> QED BY <2>1
<1>2. ASSUME NEW k \in S
      PROVE  k + 1 \in S
  <2>1. PICK g : IsTable(k, g)
    OBVIOUS
  <2>2. IsTable(k + 1, [i \in 0 .. (k + 1) |-> IF i = k + 1 THEN 2 * g[k] ELSE g[i]])
    BY <2>1 DEF IsTable
  <2> QED BY <2>2
<1>3. S = Nat
  <2>1. S \in SUBSET Nat
    OBVIOUS
  <2> HIDE DEF S
  <2> QED BY <1>1, <1>2, <2>1, InductiveSetIsNat
<1> QED BY <1>3

LEMMA TablesAgree ==
  ASSUME NEW k \in Nat, NEW l \in Nat, k <= l,
         NEW g, NEW h, IsTable(k, g), IsTable(l, h)
  PROVE  \A i \in 0 .. k : g[i] = h[i]
<1> DEFINE S == {i \in Nat : i <= k => g[i] = h[i]}
<1>1. 0 \in S
  BY DEF IsTable
<1>2. ASSUME NEW i \in S
      PROVE  i + 1 \in S
  <2> SUFFICES ASSUME i + 1 <= k PROVE g[i + 1] = h[i + 1]
    OBVIOUS
  <2>1. g[i] = h[i] /\ i + 1 \in 1 .. k /\ i + 1 \in 1 .. l /\ (i + 1) - 1 = i
    OBVIOUS
  <2> QED BY <2>1 DEF IsTable
<1>3. S = Nat
  <2>1. S \in SUBSET Nat
    OBVIOUS
  <2> HIDE DEF S
  <2> QED BY <1>1, <1>2, <2>1, InductiveSetIsNat
<1> QED BY <1>3

LEMMA Pow2Exists == \E p : p = [n \in Nat |-> IF n = 0 THEN 1 ELSE 2 * p[n - 1]]
<1> DEFINE p == [n \in Nat |-> (CHOOSE g : IsTable(n, g))[n]]
<1>1. \A k \in Nat : IsTable(k, CHOOSE g : IsTable(k, g))
  BY TablesExist
<1>2. p[0] = 1
  BY <1>1 DEF IsTable
<1>3. \A n \in Nat : p[n + 1] = 2 * p[n]
  <2> TAKE n \in Nat
  <2> DEFINE g == CHOOSE t : IsTable(n, t)
             h == CHOOSE t : IsTable(n + 1, t)
  <2>1. IsTable(n, g) /\ IsTable(n + 1, h)
    BY <1>1
  <2>2. p[n] = g[n] /\ p[n + 1] = h[n + 1]
    OBVIOUS
  <2> HIDE DEF g, h, p
  <2>3. g[n] = h[n]
    BY <2>1, TablesAgree
  <2>4. h[n + 1] = 2 * h[n]
    BY <2>1 DEF IsTable
  <2> QED BY <2>2, <2>3, <2>4
<1>4. DOMAIN p = Nat /\ p = [n \in Nat |-> p[n]]
  OBVIOUS
<1> HIDE DEF p
<1>5. ASSUME NEW n \in Nat
      PROVE  p[n] = IF n = 0 THEN 1 ELSE 2 * p[n - 1]
  <2>1. n # 0 => n - 1 \in Nat /\ (n - 1) + 1 = n
    OBVIOUS
  <2> QED BY <2>1, <1>2, <1>3
<1> QED BY <1>4, <1>5, Zenon

LEMMA Pow2Doubles ==
  /\ Pow2 \in [Nat -> Nat]
  /\ \A n \in Nat : Pow2[n + 1] = 2 * Pow2[n]
<1>1. Pow2 = [n \in Nat |-> IF n = 0 THEN 1 ELSE 2 * Pow2[n - 1]]
  BY Pow2Exists, Zenon DEF Pow2
<1>2. Pow2[0] = 1
  BY <1>1
<1>3. ASSUME NEW n \in Nat
      PROVE  Pow2[n + 1] = 2 * Pow2[n]
  <2>1. n + 1 \in Nat /\ n + 1 # 0 /\ (n + 1) - 1 = n
    OBVIOUS
  <2> QED BY <1>1, <2>1
<1> DEFINE S == {n \in Nat : Pow2[n] \in Nat}
<1>4. S = Nat
  <2>1. 0 \in S /\ \A n \in S : n + 1 \in S
    BY <1>2, <1>3
  <2>2. S \in SUBSET Nat
    OBVIOUS
  <2> HIDE DEF S
  <2> QED BY <2>1, <2>2, InductiveSetIsNat
<1>5. \A n \in Nat : Pow2[n] \in Nat
  BY <1>4
<1>6. Pow2 = [n \in Nat |-> Pow2[n]]
  BY <1>1, Zenon
<1> QED BY <1>3, <1>5, <1>6

USE BackoffAssumption

(***************************************************************************)
(* The arithmetic stays within a duration, whatever is put into it.        *)
(***************************************************************************)
LEMMA FloatFits == \A x : FloatToInt(x) \subseteq Duration
BY DEF FloatToInt, Duration

LEMMA WrapFits == \A x \in Int : Wrap(x) \in Duration
BY DEF Wrap, Duration

LEMMA WrapExact == \A x \in Duration : Wrap(x) = x
BY DEF Wrap, Duration

LEMMA CapFits ==
  ASSUME cfg \in Configs
  PROVE  \A d \in Duration : Cap(d) \in Duration /\ Cap(d) <= cfg.max
BY DEF Cap, Duration

LEMMA DelayFits ==
  ASSUME cfg \in Configs, NEW n, NEW d \in CalculateDelay(n)
  PROVE  d \in Duration /\ d <= cfg.max
<1>1. \E x \in Duration : d = Cap(x)
  BY FloatFits DEF CalculateDelay
<1> QED BY <1>1, CapFits

LEMMA HintFits ==
  ASSUME NEW h \in RetryAfters \cup {NoHeader}
  PROVE  ParseRetryAfter(h) \in Duration
<1>1. h.n \in Int /\ h.form \in {"none", "seconds", "date"} /\ h.n * Second \in Int
  BY DEF NoHeader
<1>2. 0 \in Duration /\ Word - 1 \in Duration
  BY DEF Duration
<1>3. Wrap(h.n * Second) \in Duration
  BY <1>1, WrapFits
<1> QED BY <1>1, <1>2, <1>3 DEF ParseRetryAfter

(***************************************************************************)
(* What is known of a delay while it is waited for.                        *)
(***************************************************************************)
WaitInv ==
  phase = "waiting" =>
    /\ DelayIsBounded
    /\ delay >= ParseRetryAfter(asked) \/ ParseRetryAfter(asked) <= 0
    /\ \E d \in CalculateDelay(tries) : delay >= d

(***************************************************************************)
(* Until the next failure the delay is the one computed for this attempt,  *)
(* unless the server has asked for another.                                *)
(***************************************************************************)
DelayInv ==
  phase # "returned" /\ tries > 0 /\ asked.form = "none" => delay \in CalculateDelay(tries)

BackoffInv == BackoffTypeOK /\ WaitInv /\ DelayInv

LEMMA BackoffInitInv == BackoffInit => BackoffInv
<1> SUFFICES ASSUME BackoffInit PROVE BackoffInv
  OBVIOUS
<1>1. cfg \in Configs
  BY DEF BackoffInit
<1>2. 0 \in Duration
  BY DEF Duration
<1> QED
  BY <1>1, <1>2 DEF BackoffInit, BackoffInv, BackoffTypeOK, WaitInv, DelayInv

LEMMA WaitStep ==
  ASSUME BackoffInv, NEW s \in Statuses, NEW h \in RetryAfters, Wait(s, h)
  PROVE  BackoffInv'
<1>1. PICK d \in CalculateDelay(tries + 1) : delay' = Longer(d, ParseRetryAfter(h))
  BY DEF Wait
<1>2. /\ phase' = "waiting" /\ tries' = tries + 1 /\ tries < MaxRetries
      /\ asked' = h /\ status' = s /\ cfg' = cfg /\ cfg \in Configs
      /\ tries \in 0 .. MaxRetries
  BY DEF Wait, BackoffInv, BackoffTypeOK
<1>3. d \in Duration /\ d <= cfg.max
  BY <1>1, <1>2, DelayFits
<1>4. ParseRetryAfter(h) \in Duration /\ ParseRetryAfter(asked)' = ParseRetryAfter(h)
  BY <1>2, HintFits DEF ParseRetryAfter
<1>5. CalculateDelay(tries)' = CalculateDelay(tries + 1)
  BY <1>2 DEF CalculateDelay, Cap
<1>6. delay' \in Duration /\ delay' >= d
  BY <1>1, <1>3, <1>4 DEF Longer, Duration
<1>7. delay' <= cfg.max \/ delay' = ParseRetryAfter(h)
  BY <1>1, <1>3 DEF Longer
<1>8. delay' >= ParseRetryAfter(h) \/ ParseRetryAfter(h) <= 0
  BY <1>1, <1>3, <1>4 DEF Longer, Duration
<1>9. BackoffTypeOK'
  BY <1>2, <1>6 DEF BackoffTypeOK
<1>10. WaitInv'
  BY <1>2, <1>4, <1>5, <1>6, <1>7, <1>8 DEF WaitInv, DelayIsBounded
<1>11. DelayInv'
  <2> SUFFICES ASSUME h.form = "none" PROVE delay' \in CalculateDelay(tries + 1)
    BY <1>2, <1>5 DEF DelayInv
  <2>1. ParseRetryAfter(h) = 0
    BY DEF ParseRetryAfter
  <2> QED BY <1>1, <2>1 DEF Longer
<1> QED BY <1>2, <1>9, <1>10, <1>11 DEF BackoffInv

LEMMA BackoffStepInv == BackoffInv /\ [BackoffNext]_backoffVars => BackoffInv'
<1> SUFFICES ASSUME BackoffInv, [BackoffNext]_backoffVars PROVE BackoffInv'
  OBVIOUS
<1> USE DEF BackoffInv, BackoffTypeOK
<1>1. CASE NewRequest
  <2>1. 0 \in Duration
    BY DEF Duration
  <2> QED
    BY <1>1, <2>1 DEF NewRequest, WaitInv, DelayInv
<1>2. ASSUME NEW s \in Statuses, NEW h \in RetryAfters, FailedAttempt(s, h)
      PROVE  BackoffInv'
  <2>1. CASE Wait(s, h)
    BY <2>1, WaitStep
  <2>2. CASE Stop(s, h)
    BY <2>2 DEF Stop, WaitInv, DelayInv
  <2> QED BY <1>2, <2>1, <2>2 DEF FailedAttempt
<1>3. CASE Succeed \/ Refused \/ ContextDone
  BY <1>3 DEF Succeed, Refused, ContextDone, WaitInv, DelayInv
<1>4. CASE TimerEnds
  <2>1. CalculateDelay(tries)' = CalculateDelay(tries)
    BY <1>4 DEF TimerEnds, CalculateDelay, Cap
  <2> QED
    BY <1>4, <2>1 DEF TimerEnds, WaitInv, DelayInv
<1>5. CASE UNCHANGED backoffVars
  <2>1. CalculateDelay(tries)' = CalculateDelay(tries)
    BY <1>5 DEF backoffVars, CalculateDelay, Cap
  <2>2. ParseRetryAfter(asked)' = ParseRetryAfter(asked)
    BY <1>5 DEF backoffVars, ParseRetryAfter
  <2> QED
    BY <1>5, <2>1, <2>2 DEF backoffVars, WaitInv, DelayInv, DelayIsBounded
<1> QED
  BY <1>1, <1>2, <1>3, <1>4, <1>5 DEF BackoffNext

LEMMA BackoffInvHolds == BackoffSpec => []BackoffInv
BY BackoffInitInv, BackoffStepInv, PTL DEF BackoffSpec

(***************************************************************************)
(* Every delay is a duration, every count of attempts within MaxRetries.   *)
(***************************************************************************)
THEOREM BackoffTypeCorrect == BackoffSpec => []BackoffTypeOK
<1>1. BackoffInv => BackoffTypeOK
  BY DEF BackoffInv
<1> QED BY BackoffInvHolds, <1>1, PTL

(***************************************************************************)
(* CalculateDelay and Retry-After: no wait is longer than MaxDelay or what *)
(* the server has asked for, whichever conversion overflows.               *)
(***************************************************************************)
THEOREM DelaysAreBounded == BackoffSpec => []DelayIsBounded
<1>1. BackoffInv => DelayIsBounded
  BY DEF BackoffInv, WaitInv, DelayIsBounded
<1> QED BY BackoffInvHolds, <1>1, PTL

(***************************************************************************)
(* The jitter takes or adds at most a fifth of the exponential delay.      *)
(***************************************************************************)
LEMMA WithinAFifth ==
  ASSUME cfg \in Configs, 6 * cfg.max < 5 * Word,
         NEW n, cfg.base * Pow2[n] \in 0 .. (Word - 1),
         NEW d \in CalculateDelay(n)
  PROVE  /\ d >= (4 * Cap(cfg.base * Pow2[n])) \div 5
         /\ d <= (6 * Cap(cfg.base * Pow2[n])) \div 5
<1> DEFINE e == cfg.base * Pow2[n]
<1>1. e \in 0 .. (Word - 1) /\ cfg.max \in 0 .. (Word - 1) /\ 6 * cfg.max < 5 * Word
  OBVIOUS
<1>2. FloatToInt(e) = {e}
  BY <1>1 DEF FloatToInt, Duration
<1>3. Cap(e) \in 0 .. (Word - 1) /\ 6 * Cap(e) < 5 * Word /\ Cap(e) <= cfg.max
  BY <1>1 DEF Cap
<1>4. PICK j \in Jitter(Cap(e)) : d \in {Cap(x) : x \in FloatToInt(j)}
  BY <1>2 DEF CalculateDelay
<1>5. j \in Int /\ j >= (4 * Cap(e)) \div 5 /\ j <= (6 * Cap(e)) \div 5
  BY <1>3, <1>4 DEF Jitter
<1>6. j \in Duration
  BY <1>3, <1>5 DEF Duration
<1>7. d = Cap(j)
  BY <1>4, <1>6 DEF FloatToInt
<1>8. (4 * Cap(e)) \div 5 <= cfg.max
  BY <1>1, <1>3
<1> QED
  BY <1>1, <1>3, <1>5, <1>7, <1>8 DEF Cap

(***************************************************************************)
(* Until the exponential leaves the integers, every retry backs off by at  *)
(* least 80 % of it or of MaxDelay.                                        *)
(***************************************************************************)
THEOREM EveryRetryBacksOff == BackoffSpec => []RetriesBackOff
<1>1. BackoffInv => RetriesBackOff
  <2> SUFFICES ASSUME BackoffInv, phase = "waiting", Fits
               PROVE  delay >= (4 * Cap(cfg.base * Pow2[tries])) \div 5
    BY DEF RetriesBackOff
  <2>1. PICK d \in CalculateDelay(tries) : delay >= d
    BY DEF BackoffInv, WaitInv
  <2>2. d >= (4 * Cap(cfg.base * Pow2[tries])) \div 5
    BY WithinAFifth DEF BackoffInv, BackoffTypeOK, Fits
  <2>3. d \in Int /\ delay \in Int /\ (4 * Cap(cfg.base * Pow2[tries])) \div 5 \in Int
    BY DelayFits DEF BackoffInv, BackoffTypeOK, Duration, Fits, Cap
  <2> QED BY <2>1, <2>2, <2>3
<1> QED BY BackoffInvHolds, <1>1, PTL

(***************************************************************************)
(* The next delay is no shorter than the one before although the jitter    *)
(* may lengthen that by a fifth and shorten this by a fifth: it doubles.   *)
(***************************************************************************)
LEMMA NextDelayIsNoShorter ==
  ASSUME BackoffInv, NEW s \in Statuses, NEW h \in RetryAfters, Wait(s, h),
         tries > 0, asked.form = "none", Fits',
         cfg.base * Pow2[tries'] <= cfg.max
  PROVE  delay' >= delay
<1> DEFINE e == cfg.base * Pow2[tries]
<1>1. PICK d \in CalculateDelay(tries + 1) : delay' = Longer(d, ParseRetryAfter(h))
  BY DEF Wait
<1>2. /\ tries' = tries + 1 /\ cfg' = cfg /\ phase = "trying"
      /\ tries \in Nat /\ cfg \in Configs /\ cfg.base \in Nat /\ cfg.max \in Nat
  BY DEF Wait, BackoffInv, BackoffTypeOK
<1>3. delay \in CalculateDelay(tries)
  BY <1>2 DEF BackoffInv, DelayInv
<1>4. e \in Nat /\ cfg.base * Pow2[tries + 1] = 2 * e
  <2>1. Pow2[tries] \in Nat /\ Pow2[tries + 1] = 2 * Pow2[tries]
    BY <1>2, Pow2Doubles
  <2> QED BY <1>2, <2>1
<1>5. 2 * e \in 0 .. (Word - 1) /\ 2 * e <= cfg.max /\ 6 * cfg.max < 5 * Word
  BY <1>2, <1>4 DEF Fits
<1>6. Cap(e) = e /\ Cap(2 * e) = 2 * e
  BY <1>2, <1>4, <1>5 DEF Cap
<1>7. delay <= (6 * e) \div 5
  BY <1>2, <1>3, <1>4, <1>5, <1>6, WithinAFifth
<1>8. d >= (4 * (2 * e)) \div 5
  BY <1>1, <1>2, <1>4, <1>5, <1>6, WithinAFifth
<1>9. d \in Int /\ delay \in Int /\ delay' >= d
  <2>1. d \in Duration /\ delay \in Duration /\ ParseRetryAfter(h) \in Duration
    BY <1>2, <1>3, DelayFits, HintFits
  <2> QED BY <1>1, <2>1 DEF Duration, Longer
<1>10. delay' \in Int
  BY <1>1, <1>9, HintFits DEF Longer, Duration
<1> QED BY <1>4, <1>7, <1>8, <1>9, <1>10

(***************************************************************************)
(* No retry waits shorter than the one before, in spite of the jitter,     *)
(* until the exponential reaches MaxDelay: for every base delay, MaxDelay, *)
(* jitter and number of retries.                                           *)
(***************************************************************************)
THEOREM BackoffNeverShrinks == BackoffSpec => DelaysNeverShrink
<1>1. BackoffInv /\ [BackoffNext]_backoffVars =>
        [phase' = "waiting" /\ tries > 0 /\ asked.form = "none"
         /\ Fits' /\ cfg.base * Pow2[tries'] <= cfg.max => delay' >= delay]_backoffVars
  <2> SUFFICES ASSUME BackoffInv, BackoffNext, phase' = "waiting", tries > 0,
                      asked.form = "none", Fits', cfg.base * Pow2[tries'] <= cfg.max
               PROVE  delay' >= delay
    OBVIOUS
  <2>1. PICK s \in Statuses, h \in RetryAfters : Wait(s, h)
    BY DEF BackoffNext, NewRequest, FailedAttempt, Stop, Succeed, Refused, TimerEnds, ContextDone
  <2> QED BY <2>1, NextDelayIsNoShorter
<1> QED BY BackoffInvHolds, <1>1, PTL DEF BackoffSpec, DelaysNeverShrink

(***************************************************************************)
(* Retry-After is a minimum for every wait, of seconds that fit into a     *)
(* duration and of any date.                                               *)
(***************************************************************************)
THEOREM RetryAfterIsAMinimum == BackoffSpec => []RetryAfterIsHonoured
<1>1. BackoffInv => RetryAfterIsHonoured
  <2> SUFFICES ASSUME BackoffInv, phase = "waiting", asked.n > 0
               PROVE  /\ asked.form = "seconds" /\ asked.n * Second < Word
                           => delay >= asked.n * Second
                      /\ asked.form = "date" /\ asked.n < Word => delay >= asked.n
    BY DEF RetryAfterIsHonoured
  <2>1. asked.n \in Int /\ asked.n * Second \in Int /\ asked.n * Second > 0 /\ delay \in Int
    BY DEF BackoffInv, BackoffTypeOK, NoHeader, Duration
  <2>2. ASSUME asked.form = "seconds", asked.n * Second < Word
        PROVE  delay >= asked.n * Second
    <3>1. Wrap(asked.n * Second) = asked.n * Second
      BY <2>1, <2>2, WrapExact DEF Duration
    <3>2. ParseRetryAfter(asked) = asked.n * Second
      BY <2>2, <3>1 DEF ParseRetryAfter
    <3> QED BY <2>1, <3>2 DEF BackoffInv, WaitInv
  <2>3. ASSUME asked.form = "date", asked.n < Word
        PROVE  delay >= asked.n
    <3>1. ParseRetryAfter(asked) = asked.n
      BY <2>1, <2>3 DEF ParseRetryAfter, Duration
    <3> QED BY <2>1, <3>1 DEF BackoffInv, WaitInv
  <2> QED BY <2>2, <2>3
<1> QED BY BackoffInvHolds, <1>1, PTL
=============================================================================
