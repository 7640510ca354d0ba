----------------------------- MODULE EmailClient ----------------------------
(***************************************************************************)
(* The email client (huefy_client.go) and its validators                   *)
(* (validators/email_validators.go) on top of Client.Request, which is     *)
(* taken by its contract (RequestContract, implemented by Request).        *)
(*                                                                         *)
(* SendEmail and SendBulkEmails validate the caller's request, normalise   *)
(* it in place, and let Client.Request marshal it again for every attempt. *)
(* An application may submit the same request object again, one call after *)
(* the other, or from several goroutines at once.  Those race: a string or *)
(* an interface is two machine words, and between the two stores it is     *)
(* torn.  Goroutines may share a request only if that does not matter      *)
(* (Shareable), because no store of theirs changes two words.              *)
(*                                                                         *)
(* A text is what it says (its core), with or without space around it, in  *)
(* upper case or not.  The template data is a whole number, and stands for *)
(* those in it, in the 64 bits that Go has for one: up to 2048 * Precision *)
(* either way.  A request may be carried out when its call has returned;   *)
(* that is followed until the goroutine, or the application with another   *)
(* request, begins anew.                                                   *)
(***************************************************************************)
EXTENDS Integers, Sequences, FiniteSets

CONSTANTS
  Senders,    \* the goroutines that use the client
  Budget,     \* how often Client.Request may have a request carried out
  Failures,   \* its errors that say the last attempt was not carried out
  Cores,      \* what a text can say
  Addresses,  \* the cores the regular expression for emails matches
  TooLong,    \* the cores over the maximum length
  MaxBulk,    \* MaxBulkEmails
  Precision,  \* 2^53: float64 holds every whole number up to it
  NoData,     \* nil template data
  Drafts      \* the requests of the application an instance looks at

VARIABLES
  req,       \* the request object the goroutines share
  original,  \* what it was when the application made it
  at,        \* per goroutine: how far it is
  local,     \* its local variables: the key and the recipients to store
  wire,      \* the bodies of its attempts under way
  mailed,    \* the bodies the service has carried out for its last call
  result,    \* what its last call returned
  pending, executed, unclear, outcome   \* Client.Request

emailVars == <<req, original, at, local, wire, mailed, result>>
requestVars == <<pending, executed, unclear, outcome>>
vars == <<emailVars, requestVars>>

Contract == INSTANCE RequestContract WITH Calls <- Senders

Text(core) == [core |-> core, space |-> "none", case |-> "lower"]

Empty   == Text("empty")     \* the text of no characters
Absent  == Text("absent")    \* the key of a map is missing, or nil
NotText == Text("nontext")   \* it holds something that is no string

Torn == Text("torn")   \* the two words of it belong to different values

(***************************************************************************)
(* The words that stand for no text have no space and no case, and the     *)
(* empty text no case.  A map[string]string holds texts only.              *)
(***************************************************************************)
WellFormed(t) ==
  /\ t.core \in {"absent", "nontext", "torn"} => t = Text(t.core)
  /\ t.core = "empty" => t.case = "lower"

Texts      == {t \in [core : Cores, space : {"none", "around"}, case : {"lower", "upper"}] :
                 WellFormed(t)}
Strings    == {"string", "*string"}
Objects    == {"object", "*object"}
Forms      == Strings \cup Objects \cup {"map", "stringmap", "nil", "other", "torn"}
Recipients == {r \in [form : Forms, email : Texts, type : Texts,
                      data : {"absent", "empty", "object", "text", "other"}] :
                r.form = "stringmap" => r.data \in {"absent", "text"}}
Wholes     == -(2048 * Precision) .. 2048 * Precision
Requests   == [kind : {"single", "bulk"}, key : Texts, to : Seq(Recipients),
               data : Wholes \cup {NoData}]
Outcomes   == Failures \cup {"ok", "moved", "transient"}   \* of Client.Request
Results    == Failures \cup {"none", "ok", "transient", "invalid", "undecoded"}

ASSUME EmailAssumption ==
  /\ Budget \in Nat
  /\ MaxBulk \in Nat \ {0}
  /\ Precision \in Nat \ {0}
  /\ NoData \notin Int
  /\ Drafts # {}
  /\ Drafts \subseteq Requests
  /\ \A d \in Drafts : d.kind = "single" => Len(d.to) = 1
  /\ {"empty", "absent", "nontext", "torn"} \subseteq Cores \ Addresses
  /\ Failures \cap {"none", "ok", "moved", "transient", "invalid", "undecoded"} = {}
-----------------------------------------------------------------------------
(***************************************************************************)
(* Texts and their validation.                                             *)
(***************************************************************************)
TrimSpace(t) == [t EXCEPT !.space = "none"]
ToLower(t)   == [t EXCEPT !.case = "lower"]

NormalType(t) == ToLower(TrimSpace(t))

ValidateEmail(t) ==
  /\ t # Empty
  /\ TrimSpace(t).core \notin TooLong
  /\ TrimSpace(t).core \in Addresses

ValidateTemplateKey(t) ==
  /\ t # Empty
  /\ TrimSpace(t) # Empty
  /\ TrimSpace(t).core \notin TooLong

ValidateEmailData(n) == n # NoData

ValidateBulkCount(n) == n > 0 /\ n <= MaxBulk

RecipientTypes == {"to", "cc", "bcc"}

\* Mutant: the type is looked up as it is written.
ValidateRecipientTypeAsIs(t) ==
  t = Absent \/ t = Empty \/ t \in {Text(c) : c \in RecipientTypes}

ValidateRecipientType(t) ==
  \/ t = Absent
  \/ t # NotText /\ (NormalType(t) = Empty \/ NormalType(t) \in {Text(c) : c \in RecipientTypes})

ValidateRecipientData(d) == d \in {"absent", "empty", "object"}

(***************************************************************************)
(* A value of the struct always has an email, a type and an object; only   *)
(* map[string]any needs the checks of its fields.  The data of a           *)
(* map[string]string is not looked at.                                     *)
(***************************************************************************)
ValidateRecipient(r) ==
  \/ r.form \in Strings /\ ValidateEmail(r.email)
  \/ /\ r.form \in Objects \cup {"map"}
     /\ ValidateEmail(r.email)
     /\ ValidateRecipientType(r.type)
     /\ ValidateRecipientData(r.data)
  \/ /\ r.form = "stringmap"
     /\ ValidateEmail(r.email)
     /\ ValidateRecipientType(r.type)

ValidateSendEmailInput(q) ==
  /\ ValidateTemplateKey(q.key)
  /\ ValidateEmailData(q.data)
  /\ ValidateRecipient(q.to[1])

ValidateBulk(q) ==
  /\ ValidateBulkCount(Len(q.to))
  /\ ValidateTemplateKey(q.key)
  /\ \A i \in DOMAIN q.to : ValidateRecipient(q.to[i])

Validates(q) == IF q.kind = "bulk" THEN ValidateBulk(q) ELSE ValidateSendEmailInput(q)

NormalForm(form) ==
  CASE form = "*string"        -> "string"
    [] form = "*object"        -> "object"
    [] form = "stringmap" -> "map"
    [] OTHER                   -> form

\* Mutant: the type of a recipient object keeps its case.
NormalizeKeepCase(r) ==
  [form |-> NormalForm(r.form), email |-> TrimSpace(r.email),
   type |-> TrimSpace(r.type), data |-> r.data]

(***************************************************************************)
(* normalizeSendEmailRecipient, and the same for a recipient of a bulk.    *)
(***************************************************************************)
Normalize(r) ==
  [form |-> NormalForm(r.form), email |-> TrimSpace(r.email),
   type |-> NormalType(r.type), data |-> r.data]

NormalizeAll(to) == [i \in DOMAIN to |-> Normalize(to[i])]

(***************************************************************************)
(* What a request marshals to.  A number goes through float64 when the     *)
(* keys are sorted: to the nearest multiple of Ulp, of two the even one.   *)
(* (Its text is the shortest that float64 reads as that.)                  *)
(***************************************************************************)
Ulps == {1, 2, 4, 8, 16, 32, 64, 128, 256, 512, 1024, 2048}

Within(n, most) == -most <= n /\ n <= most

Ulp(n) == CHOOSE u \in Ulps : /\ Within(n, u * Precision)
                              /\ \A v \in Ulps : Within(n, v * Precision) => u <= v

RoundTo(n, u) ==
  LET q == n \div u
      r == n % u
  IN  u * (IF 2 * r > u \/ (2 * r = u /\ q % 2 = 1) THEN q + 1 ELSE q)

Canonical(n) == IF n = NoData THEN NoData ELSE RoundTo(n, Ulp(n))

(***************************************************************************)
(* A struct omits an empty type, and data that is an empty object.         *)
(***************************************************************************)
MarshalRecipient(r) ==
  [form  |-> IF r.form \in Strings THEN "string" ELSE "object",
   email |-> r.email,
   type  |-> IF r.form \in Objects /\ r.type = Empty THEN Absent ELSE r.type,
   data  |-> IF r.form \in Objects /\ r.data = "empty" THEN "absent" ELSE r.data]

Body(q) ==
  [kind |-> q.kind, key |-> q.key, data |-> Canonical(q.data),
   to   |-> [i \in DOMAIN q.to |-> MarshalRecipient(q.to[i])]]

(***************************************************************************)
(* The stores of a call into the request change at most one word each: the *)
(* key is written back as it was, the recipient keeps its dynamic type,    *)
(* and a slice of recipients its length.                                   *)
(***************************************************************************)
Shareable(q) ==
  /\ q.key.space = "none" /\ q.key # Torn
  /\ \A i \in DOMAIN q.to :
       q.to[i].form # "torn" /\ NormalForm(q.to[i].form) = q.to[i].form
-----------------------------------------------------------------------------
Steps == {"idle", "checked", "storingKey", "keyed", "normalised",
          "storingRecipient", "requesting", "health"}

Locals  == [key : Texts, to : Seq(Recipients)]
NoLocal == [key |-> Empty, to |-> <<>>]

TypeOK ==
  /\ req \in Requests
  /\ original \in Drafts
  /\ at \in [Senders -> Steps]
  /\ local \in [Senders -> Locals]
  /\ wire \in [Senders -> SUBSET Requests]
  /\ mailed \in [Senders -> SUBSET Requests]
  /\ result \in [Senders -> Results]
  /\ pending = {g \in Senders : at[g] \in {"requesting", "health"}}

Init ==
  /\ original = CHOOSE d \in Drafts : TRUE
  /\ req = original
  /\ at = [g \in Senders |-> "idle"]
  /\ local = [g \in Senders |-> NoLocal]
  /\ wire = [g \in Senders |-> {}]
  /\ mailed = [g \in Senders |-> {}]
  /\ result = [g \in Senders |-> "none"]
  /\ Contract!Init

(***************************************************************************)
(* The application makes its next request.                                 *)
(***************************************************************************)
Draft(d) ==
  /\ \A g \in Senders : at[g] = "idle"
  /\ req' = d
  /\ original' = d
  /\ wire' = [g \in Senders |-> {}]
  /\ mailed' = [g \in Senders |-> {}]
  /\ result' = [g \in Senders |-> "none"]
  /\ UNCHANGED <<at, local, requestVars>>

Alone(g) == \A h \in Senders \ {g} : at[h] \in {"idle", "health"}

Go(g, step) == at' = [at EXCEPT ![g] = step]

\* Mutant: the loop of a bulk normalises in place what it has validated.
RefuseHalfNormalised(g) ==
  /\ ~Validates(req)
  /\ req' = [req EXCEPT !.to = [i \in DOMAIN @ |->
               IF ValidateRecipient(@[i]) THEN Normalize(@[i]) ELSE @[i]]]
  /\ result' = [result EXCEPT ![g] = "invalid"]
  /\ UNCHANGED <<at, local>>

Refuse(g) ==
  /\ ~Validates(req)
  /\ result' = [result EXCEPT ![g] = "invalid"]
  /\ UNCHANGED <<req, at, local>>

(***************************************************************************)
(* SendBulkEmails makes its normalised recipients in the loop that         *)
(* validates, SendEmail after it has written the key.                      *)
(***************************************************************************)
Approve(g) ==
  /\ Validates(req)
  /\ Go(g, "checked")
  /\ result' = [result EXCEPT ![g] = "none"]
  /\ local' = [local EXCEPT ![g].to = IF req.kind = "bulk" THEN NormalizeAll(req.to) ELSE <<>>]
  /\ UNCHANGED req

Submit(g) ==
  /\ at[g] = "idle"
  /\ Shareable(req) \/ Alone(g)
  /\ mailed' = [mailed EXCEPT ![g] = {}]
  /\ wire' = [wire EXCEPT ![g] = {}]
  /\ Refuse(g) \/ Approve(g)
  /\ UNCHANGED <<original, requestVars>>

(***************************************************************************)
(* The stores into the request, each of two words.                         *)
(***************************************************************************)
StoreKey(g) ==
  /\ at[g] = "checked"
  /\ local' = [local EXCEPT ![g].key = TrimSpace(req.key)]
  /\ req' = IF req.key.space = "around" THEN [req EXCEPT !.key = Torn] ELSE req
  /\ Go(g, "storingKey")
  /\ UNCHANGED <<original, wire, mailed, result, requestVars>>

KeyStored(g) ==
  /\ at[g] = "storingKey"
  /\ req' = [req EXCEPT !.key = local[g].key]
  /\ Go(g, IF req.kind = "bulk" THEN "normalised" ELSE "keyed")
  /\ UNCHANGED <<original, local, wire, mailed, result, requestVars>>

NormalizeRecipient(g) ==
  /\ at[g] = "keyed"
  /\ local' = [local EXCEPT ![g].to = NormalizeAll(req.to)]
  /\ Go(g, "normalised")
  /\ UNCHANGED <<req, original, wire, mailed, result, requestVars>>

Tear(r) == IF NormalForm(r.form) = r.form THEN r ELSE [r EXCEPT !.form = "torn"]

StoreRecipient(g) ==
  /\ at[g] = "normalised"
  /\ req' = [req EXCEPT !.to = [i \in DOMAIN @ |-> Tear(@[i])]]
  /\ Go(g, "storingRecipient")
  /\ UNCHANGED <<original, local, wire, mailed, result, requestVars>>

(***************************************************************************)
(* The recipients are written back and Client.Request is called.           *)
(***************************************************************************)
RequestMail(g) ==
  /\ at[g] = "storingRecipient"
  /\ req' = [req EXCEPT !.to = local[g].to]
  /\ local' = [local EXCEPT ![g] = NoLocal]
  /\ Go(g, "requesting")
  /\ Contract!Call(g)
  /\ UNCHANGED <<original, wire, mailed, result>>

(***************************************************************************)
(* An attempt: the body is marshalled as the request is now, while those   *)
(* of the attempts before may still be under way.  The attempts are not    *)
(* counted: the contract bounds what comes of them.                        *)
(***************************************************************************)
Attempt(g) ==
  /\ at[g] = "requesting"
  /\ wire' = [wire EXCEPT ![g] = @ \cup {Body(req)}]
  /\ UNCHANGED <<req, original, at, local, mailed, result, requestVars>>

(***************************************************************************)
(* The service carries out one of the bodies, while the call waits for it  *)
(* or when it has returned.                                                *)
(***************************************************************************)
CarryOut(g) ==
  /\ at[g] \in {"requesting", "idle"}
  /\ \E b \in wire[g] : mailed' = [mailed EXCEPT ![g] = @ \cup {b}]
  /\ Contract!CarryOut(g)
  /\ UNCHANGED <<req, original, at, local, wire, result>>

LoseAnswer(g) ==
  /\ Contract!Lose(g)
  /\ UNCHANGED emailVars

HealthCheck(g) ==
  /\ at[g] = "idle"
  /\ Go(g, "health")
  /\ result' = [result EXCEPT ![g] = "none"]
  /\ mailed' = [mailed EXCEPT ![g] = {}]
  /\ wire' = [wire EXCEPT ![g] = {}]
  /\ Contract!Call(g)
  /\ UNCHANGED <<req, original, local>>

(***************************************************************************)
(* The service answers a health check, or carries out late what is no      *)
(* longer followed.                                                        *)
(***************************************************************************)
AnswerHealth(g) ==
  /\ at[g] \in {"health", "idle"}
  /\ wire[g] = {}
  /\ Contract!CarryOut(g)
  /\ UNCHANGED emailVars

\* Mutant: a body that does not decode gives neither a response nor an error.
DecodesToNothing(o) == IF o \in {"ok", "moved"} THEN {"ok", "nothing"} ELSE {o}

(***************************************************************************)
(* The answer of a redirect, or of one not followed, is decoded like any.  *)
(***************************************************************************)
DecodesTo(o) == IF o \in {"ok", "moved"} THEN {"ok", "undecoded"} ELSE {o}

Returned(g, o) ==
  \/ o = "ok" /\ Contract!Succeed(g)
  \/ o \in Failures \cup {"moved"} /\ Contract!Fail(g, o)
  \/ o = "transient" /\ Contract!GiveUp(g)

(***************************************************************************)
(* Client.Request returns, and its body is decoded.                        *)
(***************************************************************************)
Respond(g, o) ==
  /\ Returned(g, o)
  /\ Go(g, "idle")
  /\ \E r \in DecodesTo(o) : result' = [result EXCEPT ![g] = r]
  /\ UNCHANGED <<req, original, local, wire, mailed>>

Send(g) ==
  \/ Submit(g)
  \/ StoreKey(g)
  \/ KeyStored(g)
  \/ NormalizeRecipient(g)
  \/ StoreRecipient(g)
  \/ RequestMail(g)

Next ==
  \/ \E d \in Drafts : Draft(d)
  \/ \E g \in Senders :
       \/ Send(g)
       \/ Attempt(g)
       \/ CarryOut(g)
       \/ LoseAnswer(g)
       \/ HealthCheck(g)
       \/ AnswerHealth(g)
       \/ \E o \in Outcomes : Respond(g, o)

Spec == Init /\ [][Next]_vars
-----------------------------------------------------------------------------
(***************************************************************************)
(* A body says what the application meant, whatever the form it came in:   *)
(* nothing but the space around texts and the case of a type is lost, and  *)
(* of a struct the type and the data that are empty.  Numbers beyond       *)
(* Precision are excepted.                                                 *)
(***************************************************************************)
SameText(t, meant) == t = [core |-> meant.core, space |-> "none", case |-> meant.case]

SameRecipient(r, meant) ==
  /\ r.form = "string" <=> meant.form \in Strings
  /\ SameText(r.email, meant.email)
  /\ \/ r.data = meant.data
     \/ r.data = "absent" /\ meant.data = "empty" /\ meant.form \in Objects
  /\ \/ r.type = Text(meant.type.core)
     \/ r.type = Absent /\ meant.type.core = "empty" /\ meant.form \in Objects

SaysTheSame(b, meant) ==
  /\ b.kind = meant.kind
  /\ SameText(b.key, meant.key)
  /\ Len(b.to) = Len(meant.to)
  /\ \A i \in DOMAIN meant.to : SameRecipient(b.to[i], meant.to[i])
  /\ meant.data \in -Precision .. Precision \cup {NoData} => b.data = meant.data

(***************************************************************************)
(* Every mail carried out is the one the application meant, by whichever   *)
(* attempt, by whichever of the goroutines that share the request, and in  *)
(* the second submission of a request the first one has normalised.        *)
(***************************************************************************)
SameMail == \A g \in Senders : \A b \in mailed[g] : SaysTheSame(b, original)

(***************************************************************************)
(* What the API documents: a key, data, 1 to MaxBulk recipients with an    *)
(* address, "to", "cc", "bcc" or no type, and an object for data.  Said of *)
(* the cores: space around a text makes it no worse.                       *)
(***************************************************************************)
FitRecipient(r) ==
  /\ r.form \in Strings \cup Objects \cup {"map", "stringmap"}
  /\ r.email.core \in Addresses \ TooLong
  /\ r.form \notin Strings =>
       /\ r.type.core \in RecipientTypes \cup {"empty", "absent"}
       /\ r.data \in {"absent", "empty", "object"}

Fit(q) ==
  /\ q.key.core \notin TooLong \cup {"empty"}
  /\ q.kind = "single" => q.data # NoData
  /\ Len(q.to) \in 1 .. MaxBulk
  /\ \A i \in DOMAIN q.to : FitRecipient(q.to[i])

(***************************************************************************)
(* The one thing the validators let pass: the "data" of a map[string]string*)
(* is a text, in the first submission.  The map[string]any it becomes is   *)
(* refused in the second.                                                  *)
(***************************************************************************)
TextData(q) == \E i \in DOMAIN q.to : q.to[i].form = "stringmap" /\ q.to[i].data = "text"

(***************************************************************************)
(* A request is judged by what the application meant, in every submission: *)
(* whoever calls it invalid is right, and nothing is mailed that is unfit. *)
(***************************************************************************)
JudgedAsMeant ==
  ~TextData(original) =>
    \A g \in Senders :
      /\ result[g] = "invalid" => ~Fit(original)
      /\ mailed[g] # {} => Fit(original)

(***************************************************************************)
(* An invalid request is all or nothing: not a recipient of it is mailed   *)
(* or changed, so that the application can mend it and try again.          *)
(***************************************************************************)
InvalidIsUntouched ==
  ~TextData(original) =>
    \A g \in Senders : result[g] = "invalid" => req = original /\ mailed[g] = {}
=============================================================================
