----------------------------- MODULE RateLimit ------------------------------
(***************************************************************************)
(* How responses become rate-limit callbacks: the tail of doRequestFull    *)
(* and parseRateLimitHeaders of internal/http/client.go.                   *)
(*                                                                         *)
(* The service answers requests one after the other, each answer with one  *)
(* request less remaining; every goroutine gets from its answer to the     *)
(* callbacks in its own time.  Both callbacks are set.  An answer is told  *)
(* from the others of its window by the number that remains.               *)
(***************************************************************************)
EXTENDS Integers

CONSTANTS
  Readers,   \* the goroutines that use the client
  Limit      \* X-RateLimit-Limit: what the service allows in a window

ASSUME RateLimitAssumption == Limit \in Nat

VARIABLES
  stock,     \* the service: requests left in this window
  stage,     \* where a goroutine is with its answer
  got,       \* its answer
  reported,  \* what OnRateLimitUpdate was called with
  warned,    \* what OnRateLimitWarning was called with
  finished   \* the answers with complete headers whose request has returned

rateVars == <<stock, stage, got, reported, warned, finished>>

(***************************************************************************)
(* complete: all three X-RateLimit headers are there and are numbers.      *)
(***************************************************************************)
Answer == [status : {"ok", "error"}, complete : BOOLEAN, remaining : 0 .. Limit]

RateTypeOK ==
  /\ stock \in 0 .. Limit
  /\ stage \in [Readers -> {"idle", "answered", "updated"}]
  /\ got \in [Readers -> Answer]
  /\ reported \subseteq 0 .. Limit
  /\ warned \subseteq 0 .. Limit
  /\ finished \subseteq Answer

RateInit ==
  /\ stock = Limit
  /\ stage = [g \in Readers |-> "idle"]
  /\ got = [g \in Readers |-> [status |-> "ok", complete |-> FALSE, remaining |-> 0]]
  /\ reported = {}
  /\ warned = {}
  /\ finished = {}
-----------------------------------------------------------------------------
Respond(g) ==
  /\ stage[g] = "idle"
  /\ stock > 0
  /\ stock' = stock - 1
  /\ stage' = [stage EXCEPT ![g] = "answered"]
  /\ \E a \in Answer : a.remaining = stock - 1 /\ got' = [got EXCEPT ![g] = a]
  /\ UNCHANGED <<reported, warned, finished>>

Finish(g) ==
  /\ stage' = [stage EXCEPT ![g] = "idle"]
  /\ finished' = IF got[g].complete THEN finished \cup {got[g]} ELSE finished

(***************************************************************************)
(* Statuses from 400 on return before the headers are read, and so do      *)
(* headers that are missing or malformed before the callbacks.             *)
(***************************************************************************)
NoCallback(g) ==
  /\ stage[g] = "answered"
  /\ got[g].status = "error" \/ ~got[g].complete
  /\ Finish(g)
  /\ UNCHANGED <<stock, got, reported, warned>>

\* Mutant: an answer that needs a warning gets the warning instead.
UpdateUnlessLow(g) ==
  /\ stage[g] = "answered"
  /\ got[g].status = "ok" /\ got[g].complete
  /\ stage' = [stage EXCEPT ![g] = "updated"]
  /\ reported' = IF got[g].remaining = 0 THEN reported ELSE reported \cup {got[g].remaining}
  /\ UNCHANGED <<stock, got, warned, finished>>

Update(g) ==
  /\ stage[g] = "answered"
  /\ got[g].status = "ok" /\ got[g].complete
  /\ stage' = [stage EXCEPT ![g] = "updated"]
  /\ reported' = reported \cup {got[g].remaining}
  /\ UNCHANGED <<stock, got, warned, finished>>

\* Mutant: the fifth is rounded up, and the comparison takes it in.
LowRoundedUp(remaining) == Limit > 0 /\ remaining <= (Limit + 4) \div 5

Low(remaining) == Limit > 0 /\ remaining < Limit \div 5

Warn(g) ==
  /\ stage[g] = "updated"
  /\ Low(got[g].remaining)
  /\ warned' = warned \cup {got[g].remaining}
  /\ Finish(g)
  /\ UNCHANGED <<stock, got, reported>>

NoWarning(g) ==
  /\ stage[g] = "updated"
  /\ ~Low(got[g].remaining)
  /\ Finish(g)
  /\ UNCHANGED <<stock, got, reported, warned>>

(***************************************************************************)
(* The next window.  It waits for the answers of this one, only to tell    *)
(* answers apart by what remains.                                          *)
(***************************************************************************)
NewWindow ==
  /\ stock = 0
  /\ \A g \in Readers : stage[g] = "idle"
  /\ stock' = Limit
  /\ reported' = {}
  /\ warned' = {}
  /\ finished' = {}
  /\ UNCHANGED <<stage, got>>

Read(g) == NoCallback(g) \/ Update(g) \/ Warn(g) \/ NoWarning(g)

RateNext ==
  \/ \E g \in Readers : Respond(g) \/ Read(g)
  \/ NewWindow

RateSpec == RateInit /\ [][RateNext]_rateVars
-----------------------------------------------------------------------------
(***************************************************************************)
(* "OnRateLimitWarning is called when remaining requests fall below 20% of *)
(* the limit": never at 20 % or more, never without the update before it,  *)
(* and no successful answer below 20 % returns without a warning, except   *)
(* for the one number that limit/5, an integer, rounds away.               *)
(***************************************************************************)
WarnsBelowAFifth ==
  /\ \A r \in warned : 5 * r < Limit /\ r \in reported
  /\ \A a \in finished :
       a.status = "ok" /\ 5 * (a.remaining + 1) <= Limit => a.remaining \in warned

(***************************************************************************)
(* A successful answer with complete headers reaches OnRateLimitUpdate     *)
(* before its request returns, whatever other goroutines do meanwhile.     *)
(***************************************************************************)
SuccessesAreReported ==
  \A a \in finished : a.status = "ok" => a.remaining \in reported

(***************************************************************************)
(* "OnRateLimitUpdate is called after each response when rate limit        *)
(* headers are present": also after a 429, the response that says the      *)
(* limit is reached.                                                       *)
(***************************************************************************)
EveryResponseIsReported == \A a \in finished : a.remaining \in reported
=============================================================================
