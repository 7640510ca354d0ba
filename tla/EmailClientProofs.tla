------------------------- MODULE EmailClientProofs --------------------------
(***************************************************************************)
(* Theorems about EmailClient, for any goroutines and any requests.        *)
(*                                                                         *)
(* First what the pure functions of the client and its validators do:      *)
(* normalising twice is normalising once (NormalizeAgain), a request is    *)
(* valid before and after (JudgeAgain), and what is marshalled of a        *)
(* normalised request says what the original said (BodySaysTheSame).       *)
(* Then the invariant of the goroutines that store into one request.       *)
(***************************************************************************)
EXTENDS EmailClient, TLAPS

LEMMA NoAddress == {"empty", "absent", "nontext", "torn"} \cap Addresses = {}
BY EmailAssumption

LEMMA TextFields ==
  ASSUME NEW t \in Texts
  PROVE  /\ TrimSpace(t) = [core |-> t.core, space |-> "none", case |-> t.case]
         /\ NormalType(t) = Text(t.core)
         /\ TrimSpace(t) \in Texts /\ NormalType(t) \in Texts
         /\ t = [core |-> t.core, space |-> t.space, case |-> t.case]
         /\ t.core \in Cores /\ t.space \in {"none", "around"} /\ t.case \in {"lower", "upper"}
         /\ WellFormed(t)
<1>1. /\ t \in [core : Cores, space : {"none", "around"}, case : {"lower", "upper"}] /\ WellFormed(t)
  BY DEF Texts
<1>2. TrimSpace(t) = [core |-> t.core, space |-> "none", case |-> t.case]
  BY <1>1 DEF TrimSpace
<1>3. NormalType(t) = Text(t.core)
  BY <1>1, <1>2 DEF NormalType, ToLower, Text
<1>4. TrimSpace(t) \in Texts
  BY <1>1, <1>2 DEF Texts, WellFormed, Text
<1>5. NormalType(t) \in Texts
  BY <1>1, <1>3 DEF Texts, WellFormed, Text
<1> QED BY <1>1, <1>2, <1>3, <1>4, <1>5

LEMMA SomeTexts == \A c \in Cores : Text(c) \in Texts
BY DEF Texts, WellFormed, Text

LEMMA FormFacts ==
  ASSUME NEW form \in Forms
  PROVE  /\ NormalForm(form) \in Forms
         /\ NormalForm(NormalForm(form)) = NormalForm(form)
         /\ form # "torn" => NormalForm(form) # "torn"
         /\ NormalForm(form) \in Strings <=> form \in Strings
         /\ NormalForm(form) # "stringmap"
BY DEF NormalForm, Forms, Strings, Objects

(***************************************************************************)
(* Recipients.                                                             *)
(***************************************************************************)
LEMMA RecipientFields ==
  ASSUME NEW r \in Recipients
  PROVE  /\ r = [form |-> r.form, email |-> r.email, type |-> r.type, data |-> r.data]
         /\ r.form \in Forms /\ r.email \in Texts /\ r.type \in Texts
         /\ r.data \in {"absent", "empty", "object", "text", "other"}
         /\ r.form = "stringmap" => r.data \in {"absent", "text"}
BY DEF Recipients

LEMMA NormalizeFields ==
  ASSUME NEW r \in Recipients
  PROVE  /\ Normalize(r) = [form |-> NormalForm(r.form), email |-> TrimSpace(r.email),
                            type |-> NormalType(r.type), data |-> r.data]
         /\ Normalize(r) \in Recipients
<1>1. /\ r = [form |-> r.form, email |-> r.email, type |-> r.type, data |-> r.data]
      /\ r.form \in Forms /\ r.email \in Texts /\ r.type \in Texts
      /\ r.data \in {"absent", "empty", "object", "text", "other"}
  BY RecipientFields
<1>2. Normalize(r) = [form |-> NormalForm(r.form), email |-> TrimSpace(r.email),
                      type |-> NormalType(r.type), data |-> r.data]
  BY <1>1 DEF Normalize
<1>3. TrimSpace(r.email) \in Texts /\ NormalType(r.type) \in Texts
  BY <1>1, TextFields
<1>4. NormalForm(r.form) \in Forms \ {"stringmap"}
  BY <1>1, FormFacts
<1> QED BY <1>1, <1>2, <1>3, <1>4 DEF Recipients

LEMMA NormalizeAgain ==
  ASSUME NEW r \in Recipients
  PROVE  Normalize(Normalize(r)) = Normalize(r)
<1> DEFINE n == Normalize(r)
<1>1. /\ r.form \in Forms /\ r.email \in Texts /\ r.type \in Texts
      /\ n \in Recipients /\ n.form = NormalForm(r.form) /\ n.email = TrimSpace(r.email)
      /\ n.type = NormalType(r.type)
      /\ n = [form |-> n.form, email |-> n.email, type |-> n.type, data |-> n.data]
  BY RecipientFields, NormalizeFields
<1> HIDE DEF n
<1>2. NormalForm(n.form) = n.form
  BY <1>1, FormFacts
<1>3. TrimSpace(n.email) = n.email
  BY <1>1, TextFields
<1>4. NormalType(n.type) = n.type
  <2>1. n.type = Text(r.type.core)
    BY <1>1, TextFields
  <2>2. n.type.core = r.type.core /\ n.type \in Texts
    BY <1>1, <2>1 DEF Text, Recipients
  <2> QED BY <2>1, <2>2, TextFields
<1>5. Normalize(n) = n
  BY <1>1, <1>2, <1>3, <1>4, NormalizeFields
<1> QED BY <1>5 DEF n

(***************************************************************************)
(* What the validators say of an email, a type and a key depends on the    *)
(* cores alone.                                                            *)
(***************************************************************************)
LEMMA EmailByCore == \A t \in Texts : ValidateEmail(t) <=> t.core \in Addresses \ TooLong
<1> TAKE t \in Texts
<1>1. TrimSpace(t).core = t.core
  BY TextFields
<1>2. t = Empty => t.core = "empty"
  BY DEF Empty, Text
<1> QED BY <1>1, <1>2, NoAddress DEF ValidateEmail

LEMMA TypeByCore ==
  \A t \in Texts : ValidateRecipientType(t) <=> t.core \in RecipientTypes \cup {"empty", "absent"}
<1> TAKE t \in Texts
<1>1. NormalType(t) = Text(t.core) /\ WellFormed(t)
  BY TextFields
<1>2. \A c, d : Text(c) = Text(d) <=> c = d
  BY DEF Text
<1>3. t = Absent <=> t.core = "absent"
  BY <1>1 DEF WellFormed, Absent, Text
<1>4. t = NotText <=> t.core = "nontext"
  BY <1>1 DEF WellFormed, NotText, Text
<1>5. NormalType(t) = Empty <=> t.core = "empty"
  BY <1>1, <1>2 DEF Empty
<1>6. NormalType(t) \in {Text(c) : c \in RecipientTypes} <=> t.core \in RecipientTypes
  BY <1>1, <1>2
<1> QED BY <1>3, <1>4, <1>5, <1>6 DEF ValidateRecipientType, RecipientTypes

LEMMA KeyByCore == \A t \in Texts : ValidateTemplateKey(t) <=> t.core \notin TooLong \cup {"empty"}
<1> TAKE t \in Texts
<1>1. /\ TrimSpace(t) = [core |-> t.core, space |-> "none", case |-> t.case]
      /\ WellFormed(t) /\ t.case \in {"lower", "upper"}
  BY TextFields
<1>2. t = Empty => t.core = "empty"
  BY DEF Empty, Text
<1>3. TrimSpace(t) = Empty <=> t.core = "empty"
  BY <1>1 DEF Empty, Text, WellFormed
<1> QED BY <1>1, <1>2, <1>3 DEF ValidateTemplateKey

LEMMA RecipientByFitness ==
  ASSUME NEW r \in Recipients
  PROVE  /\ FitRecipient(r) => ValidateRecipient(r)
         /\ ValidateRecipient(r) /\ ~(r.form = "stringmap" /\ r.data = "text")
              => FitRecipient(r)
<1>1. /\ r.form \in Forms /\ r.email \in Texts /\ r.type \in Texts
      /\ r.form = "stringmap" => r.data \in {"absent", "text"}
  BY RecipientFields
<1>2. /\ ValidateEmail(r.email) <=> r.email.core \in Addresses \ TooLong
      /\ ValidateRecipientType(r.type) <=> r.type.core \in RecipientTypes \cup {"empty", "absent"}
  BY <1>1, EmailByCore, TypeByCore
<1> QED
  BY <1>1, <1>2 DEF ValidateRecipient, FitRecipient, ValidateRecipientData, Strings, Objects

(***************************************************************************)
(* A recipient that passes after it was normalised passed before; and the  *)
(* other way round, but for the text in a map of strings.                  *)
(***************************************************************************)
LEMMA JudgeAgain ==
  ASSUME NEW r \in Recipients
  PROVE  /\ ValidateRecipient(Normalize(r)) => ValidateRecipient(r)
         /\ ValidateRecipient(r) /\ ~(r.form = "stringmap" /\ r.data = "text")
              => ValidateRecipient(Normalize(r))
<1> DEFINE n == Normalize(r)
<1>1. /\ r.form \in Forms /\ r.email \in Texts /\ r.type \in Texts
      /\ n.form = NormalForm(r.form) /\ n.data = r.data
      /\ n.email = TrimSpace(r.email) /\ n.type = NormalType(r.type)
      /\ n.email \in Texts /\ n.type \in Texts
      /\ r.form = "stringmap" => r.data \in {"absent", "text"}
  BY RecipientFields, NormalizeFields DEF Recipients
<1>2. n.email.core = r.email.core /\ n.type.core = r.type.core
  <2>1. TrimSpace(r.email) = [core |-> r.email.core, space |-> "none", case |-> r.email.case]
    BY <1>1, TextFields
  <2>2. n.type = Text(r.type.core)
    BY <1>1, TextFields
  <2> QED BY <1>1, <2>1, <2>2 DEF Text
<1> HIDE DEF n
<1>3. /\ ValidateEmail(n.email) <=> ValidateEmail(r.email)
      /\ ValidateRecipientType(n.type) <=> ValidateRecipientType(r.type)
  BY <1>1, <1>2, EmailByCore, TypeByCore
<1>4. /\ ValidateRecipient(n) => ValidateRecipient(r)
      /\ ValidateRecipient(r) /\ ~(r.form = "stringmap" /\ r.data = "text")
           => ValidateRecipient(n)
  BY <1>1, <1>3
  DEF ValidateRecipient, ValidateRecipientData, NormalForm, Forms, Strings, Objects
<1> QED BY <1>4 DEF n

LEMMA SpecialTexts == Absent \in Texts /\ Torn \in Texts /\ Empty \in Texts
BY EmailAssumption, SomeTexts DEF Absent, Torn, Empty

LEMMA MarshalType == \A r \in Recipients : MarshalRecipient(r) \in Recipients
<1> TAKE r \in Recipients
<1> DEFINE b == MarshalRecipient(r)
<1>1. r.email \in Texts /\ r.type \in Texts /\ r.data \in {"absent", "empty", "object", "text", "other"}
  BY RecipientFields
<1>2. /\ b = [form |-> b.form, email |-> b.email, type |-> b.type, data |-> b.data]
      /\ b.form \in {"string", "object"} /\ b.email \in Texts /\ b.type \in Texts
      /\ b.data \in {"absent", "empty", "object", "text", "other"}
  BY <1>1, SpecialTexts DEF MarshalRecipient
<1> HIDE DEF b
<1>3. b \in Recipients
  BY <1>1, <1>2 DEF Recipients, Forms, Strings, Objects
<1> QED BY <1>3 DEF b

LEMMA RecipientSaysTheSame ==
  ASSUME NEW r \in Recipients, ValidateRecipient(r)
  PROVE  SameRecipient(MarshalRecipient(Normalize(r)), r)
<1> DEFINE n == Normalize(r)
           b == MarshalRecipient(n)
<1>1. /\ r.form \in Forms /\ r.email \in Texts /\ r.type \in Texts
      /\ r.data \in {"absent", "empty", "object", "text", "other"}
      /\ n \in Recipients
      /\ n = [form |-> n.form, email |-> n.email, type |-> n.type, data |-> n.data]
      /\ n.form = NormalForm(r.form) /\ n.data = r.data
      /\ n.email = TrimSpace(r.email) /\ n.type = NormalType(r.type)
  BY RecipientFields, NormalizeFields
<1> HIDE DEF n
<1>2. /\ b.form = IF n.form \in Strings THEN "string" ELSE "object"
      /\ b.type = IF n.form \in Objects /\ n.type = Empty THEN Absent ELSE n.type
      /\ b.email = n.email
      /\ b.data = IF n.form \in Objects /\ n.data = "empty" THEN "absent" ELSE n.data
      /\ b = [form |-> b.form, email |-> b.email, type |-> b.type, data |-> b.data]
  BY <1>1 DEF MarshalRecipient
<1> HIDE DEF b
<1>3. b.form = "string" <=> r.form \in Strings
  BY <1>1, <1>2, FormFacts
<1>4. SameText(b.email, r.email)
  BY <1>1, <1>2, TextFields DEF SameText
<1>5. n.form \in Objects <=> r.form \in Objects
  BY <1>1 DEF NormalForm, Forms, Objects
<1>6. n.type = Text(r.type.core)
  BY <1>1, TextFields
<1>7. n.type = Empty => r.type.core = "empty"
  BY <1>6 DEF Empty, Text
<1>8. SameRecipient(b, r)
  BY <1>1, <1>2, <1>3, <1>4, <1>5, <1>6, <1>7 DEF SameRecipient
<1> QED BY <1>8 DEF b, n
-----------------------------------------------------------------------------
(***************************************************************************)
(* Requests.                                                               *)
(***************************************************************************)
LEMMA SeqFacts ==
  ASSUME NEW s \in Seq(Recipients)
  PROVE  /\ Len(s) \in Nat /\ DOMAIN s = 1 .. Len(s)
         /\ \A i \in 1 .. Len(s) : s[i] \in Recipients
         /\ s = [i \in 1 .. Len(s) |-> s[i]]
OBVIOUS

LEMMA SeqMade ==
  ASSUME NEW n \in Nat, NEW s, s = [i \in 1 .. n |-> s[i]], \A i \in 1 .. n : s[i] \in Recipients
  PROVE  s \in Seq(Recipients) /\ Len(s) = n
OBVIOUS

LEMMA NormalizeAllFields ==
  ASSUME NEW to \in Seq(Recipients)
  PROVE  /\ NormalizeAll(to) \in Seq(Recipients)
         /\ Len(NormalizeAll(to)) = Len(to)
         /\ \A i \in 1 .. Len(to) : NormalizeAll(to)[i] = Normalize(to[i])
         /\ NormalizeAll(to) = [i \in 1 .. Len(to) |-> Normalize(to[i])]
<1> DEFINE N == NormalizeAll(to)
<1>1. Len(to) \in Nat /\ \A i \in 1 .. Len(to) : to[i] \in Recipients
  BY SeqFacts
<1>2. N = [i \in 1 .. Len(to) |-> Normalize(to[i])]
  BY SeqFacts DEF NormalizeAll
<1>3. \A i \in 1 .. Len(to) : N[i] = Normalize(to[i]) /\ N[i] \in Recipients
  BY <1>1, <1>2, NormalizeFields
<1>4. N = [i \in 1 .. Len(to) |-> N[i]]
  BY <1>2
<1> HIDE DEF N
<1>5. N \in Seq(Recipients) /\ Len(N) = Len(to)
  BY <1>1, <1>3, <1>4, SeqMade
<1> QED BY <1>2, <1>3, <1>5 DEF N

(***************************************************************************)
(* Every recipient is the original one, or that one normalised.            *)
(***************************************************************************)
Mixed(to, from) ==
  /\ Len(to) = Len(from)
  /\ \A i \in 1 .. Len(from) : to[i] \in {from[i], Normalize(from[i])}

LEMMA MixedNormal ==
  ASSUME NEW from \in Seq(Recipients), NEW to \in Seq(Recipients), Mixed(to, from)
  PROVE  NormalizeAll(to) = NormalizeAll(from)
<1>1. \A i \in 1 .. Len(from) : from[i] \in Recipients
  BY SeqFacts
<1>2. \A i \in 1 .. Len(from) : Normalize(to[i]) = Normalize(from[i])
  BY <1>1, NormalizeAgain DEF Mixed
<1>3. /\ NormalizeAll(to) = [i \in 1 .. Len(from) |-> Normalize(to[i])]
      /\ NormalizeAll(from) = [i \in 1 .. Len(from) |-> Normalize(from[i])]
  BY NormalizeAllFields DEF Mixed
<1> QED BY <1>2, <1>3

LEMMA RequestFields ==
  ASSUME NEW q \in Requests
  PROVE  /\ q.kind \in {"single", "bulk"} /\ q.key \in Texts
         /\ q.to \in Seq(Recipients) /\ q.data \in Wholes \cup {NoData}
BY DEF Requests

(***************************************************************************)
(* The request as it may be while goroutines write it, but for what is     *)
(* torn.                                                                   *)
(***************************************************************************)
Variant(q, meant) ==
  /\ q.kind = meant.kind /\ q.data = meant.data
  /\ q.key \in {meant.key, TrimSpace(meant.key)}
  /\ Mixed(q.to, meant.to)

LEMMA VariantJudged ==
  ASSUME NEW q \in Requests, NEW meant \in Requests, Variant(q, meant),
         meant.kind = "single" => Len(meant.to) = 1
  PROVE  /\ Validates(q) => Validates(meant)
         /\ Validates(q) /\ ~TextData(meant) => Fit(meant)
         /\ ~Validates(q) /\ ~TextData(meant) => ~Fit(meant)
<1>1. /\ meant.kind \in {"single", "bulk"} /\ meant.key \in Texts
      /\ meant.to \in Seq(Recipients) /\ Len(meant.to) \in Nat
      /\ DOMAIN meant.to = 1 .. Len(meant.to)
      /\ \A i \in 1 .. Len(meant.to) : meant.to[i] \in Recipients
      /\ q.to \in Seq(Recipients) /\ DOMAIN q.to = 1 .. Len(meant.to)
      /\ Len(q.to) = Len(meant.to)
      /\ q.key \in Texts /\ q.kind = meant.kind /\ q.data = meant.data
      /\ \A i \in 1 .. Len(meant.to) : q.to[i] \in {meant.to[i], Normalize(meant.to[i])}
  BY RequestFields, SeqFacts DEF Variant, Mixed
<1>2. /\ ValidateTemplateKey(q.key) <=> meant.key.core \notin TooLong \cup {"empty"}
      /\ ValidateTemplateKey(meant.key) <=> meant.key.core \notin TooLong \cup {"empty"}
  <2>1. q.key.core = meant.key.core
    BY <1>1, TextFields DEF Variant
  <2> QED BY <1>1, <2>1, KeyByCore
<1>3. ASSUME NEW i \in 1 .. Len(meant.to)
      PROVE  /\ ValidateRecipient(q.to[i]) => ValidateRecipient(meant.to[i])
             /\ FitRecipient(meant.to[i]) => ValidateRecipient(meant.to[i])
             /\ ~TextData(meant) => /\ ValidateRecipient(q.to[i]) <=> ValidateRecipient(meant.to[i])
                                    /\ ValidateRecipient(meant.to[i]) <=> FitRecipient(meant.to[i])
  <2>1. ~TextData(meant) => ~(meant.to[i].form = "stringmap" /\ meant.to[i].data = "text")
    BY <1>1 DEF TextData
  <2> QED BY <1>1, <2>1, JudgeAgain, RecipientByFitness
<1>4. CASE meant.kind = "single"
  <2>0. Len(meant.to) = 1
    BY <1>4
  <2>1. Len(meant.to) = 1 /\ 1 \in 1 .. Len(meant.to) /\ \A i \in 1 .. Len(meant.to) : i = 1
    BY <2>0
  <2>2. Len(meant.to) \in 1 .. MaxBulk
    BY <2>1, EmailAssumption
  <2>3. \A x : x \in {meant, q} =>
          (Validates(x) <=> /\ meant.key.core \notin TooLong \cup {"empty"}
                            /\ meant.data # NoData
                            /\ ValidateRecipient(x.to[1]))
    BY <1>1, <1>2, <1>4 DEF Validates, ValidateSendEmailInput, ValidateEmailData
  <2>4. Fit(meant) <=> /\ meant.key.core \notin TooLong \cup {"empty"}
                       /\ meant.data # NoData
                       /\ FitRecipient(meant.to[1])
    BY <1>1, <1>4, <2>1, <2>2 DEF Fit
  <2> QED BY <1>3, <2>1, <2>3, <2>4
<1>5. CASE meant.kind = "bulk"
  <2>1. \A n \in Nat : ValidateBulkCount(n) <=> n \in 1 .. MaxBulk
    BY EmailAssumption DEF ValidateBulkCount
  <2>2. \A x : x \in {meant, q} =>
          (Validates(x) <=> /\ meant.key.core \notin TooLong \cup {"empty"}
                            /\ Len(meant.to) \in 1 .. MaxBulk
                            /\ \A i \in 1 .. Len(meant.to) : ValidateRecipient(x.to[i]))
    BY <1>1, <1>2, <1>5, <2>1 DEF Validates, ValidateBulk
  <2>3. Fit(meant) <=> /\ meant.key.core \notin TooLong \cup {"empty"}
                       /\ Len(meant.to) \in 1 .. MaxBulk
                       /\ \A i \in 1 .. Len(meant.to) : FitRecipient(meant.to[i])
    BY <1>1, <1>5 DEF Fit
  <2> QED BY <1>3, <2>2, <2>3
<1> QED BY <1>1, <1>4, <1>5

LEMMA ValidRecipients ==
  ASSUME NEW q \in Requests, Validates(q), q.kind = "single" => Len(q.to) = 1
  PROVE  \A i \in 1 .. Len(q.to) : ValidateRecipient(q.to[i])
<1>1. q.kind \in {"single", "bulk"} /\ DOMAIN q.to = 1 .. Len(q.to)
  BY RequestFields, SeqFacts
<1>2. CASE q.kind = "single"
  <2>1. \A i \in 1 .. Len(q.to) : i = 1
    BY <1>2
  <2> QED BY <1>2, <2>1 DEF Validates, ValidateSendEmailInput
<1>3. CASE q.kind = "bulk"
  BY <1>1, <1>3 DEF Validates, ValidateBulk
<1> QED BY <1>1, <1>2, <1>3

(***************************************************************************)
(* A number that goes through float64 stays in its range, and one that     *)
(* float64 holds is kept.                                                  *)
(***************************************************************************)
LEMMA UlpFits ==
  ASSUME NEW n \in Wholes
  PROVE  /\ Ulp(n) \in Ulps /\ Within(n, Ulp(n) * Precision)
         /\ Within(n, Precision) => Ulp(n) = 1
<1> DEFINE Least(u) == /\ Within(n, u * Precision)
                       /\ \A v \in Ulps : Within(n, v * Precision) => u <= v
<1>1. n \in Int /\ Precision \in Nat
  BY EmailAssumption DEF Wholes
<1>2. \E u \in Ulps : Least(u)
  BY <1>1 DEF Wholes, Within, Ulps
<1>3. Ulp(n) \in Ulps /\ Least(Ulp(n))
  BY <1>2 DEF Ulp
<1>4. 1 \in Ulps /\ (Within(n, Precision) => Within(n, 1 * Precision)) /\ \A u \in Ulps : u >= 1 /\ u \in Nat
  BY <1>1 DEF Ulps
<1>5. Within(n, Precision) => Ulp(n) <= 1
  BY <1>3, <1>4
<1> QED BY <1>3, <1>4, <1>5

LEMMA RoundFits ==
  ASSUME NEW u \in Ulps, NEW n \in Int, Within(n, u * Precision)
  PROVE  /\ RoundTo(n, u) \in Int /\ Within(RoundTo(n, u), u * Precision)
         /\ u = 1 => RoundTo(n, u) = n
<1> DEFINE q == n \div u
           r == n % u
<1>1. Precision \in Nat /\ u \in Nat \ {0}
  BY EmailAssumption DEF Ulps
<1>2. q \in Int /\ r \in 0 .. u - 1 /\ n = u * q + r
  BY <1>1
<1>3. \/ RoundTo(n, u) = u * q
      \/ RoundTo(n, u) = u * (q + 1) /\ r # 0
  BY <1>1, <1>2 DEF RoundTo
<1> HIDE DEF q, r
<1>4. RoundTo(n, u) \in Int /\ Within(RoundTo(n, u), u * Precision)
  BY <1>1, <1>2, <1>3 DEF Ulps, Within
<1>5. u = 1 => r = 0 /\ u * q = n
  BY <1>1, <1>2
<1> QED BY <1>3, <1>4, <1>5

LEMMA CanonicalFits ==
  ASSUME NEW n \in Wholes \cup {NoData}
  PROVE  /\ Canonical(n) \in Wholes \cup {NoData}
         /\ n \in -Precision .. Precision \cup {NoData} => Canonical(n) = n
<1>1. CASE n = NoData
  BY <1>1 DEF Canonical
<1>2. CASE n # NoData
  <2>1. Precision \in Nat /\ n \in Wholes /\ n \in Int /\ Canonical(n) = RoundTo(n, Ulp(n))
    BY <1>2, EmailAssumption DEF Canonical, Wholes
  <2>2. Ulp(n) \in Ulps /\ Within(n, Ulp(n) * Precision) /\ (Within(n, Precision) => Ulp(n) = 1)
    BY <2>1, UlpFits
  <2>3. /\ Canonical(n) \in Int /\ Within(Canonical(n), Ulp(n) * Precision)
        /\ Ulp(n) = 1 => Canonical(n) = n
    BY <2>1, <2>2, RoundFits
  <2>4. \A u \in Ulps : \A c \in Int : Within(c, u * Precision) => c \in Wholes
    BY <2>1 DEF Ulps, Within, Wholes
  <2>5. n \in -Precision .. Precision => Within(n, Precision)
    BY <2>1 DEF Within
  <2> QED BY <1>2, <2>2, <2>3, <2>4, <2>5
<1> QED BY <1>1, <1>2

(***************************************************************************)
(* What is marshalled of a normalised request says what was meant.         *)
(***************************************************************************)
LEMMA BodyType ==
  ASSUME NEW q \in Requests
  PROVE  Body(q) \in Requests
<1> DEFINE to == [i \in 1 .. Len(q.to) |-> MarshalRecipient(q.to[i])]
<1>1. /\ q.kind \in {"single", "bulk"} /\ q.key \in Texts /\ q.data \in Wholes \cup {NoData}
      /\ DOMAIN q.to = 1 .. Len(q.to) /\ Len(q.to) \in Nat
      /\ \A i \in 1 .. Len(q.to) : q.to[i] \in Recipients
  BY RequestFields, SeqFacts
<1>2. Body(q) = [kind |-> q.kind, key |-> q.key, data |-> Canonical(q.data), to |-> to]
  BY <1>1 DEF Body
<1>3. \A i \in 1 .. Len(q.to) : to[i] \in Recipients
  BY <1>1, MarshalType
<1>4. to = [i \in 1 .. Len(q.to) |-> to[i]]
  OBVIOUS
<1> HIDE DEF to
<1>5. to \in Seq(Recipients) /\ Canonical(q.data) \in Wholes \cup {NoData}
  BY <1>1, <1>3, <1>4, SeqMade, CanonicalFits
<1> QED BY <1>1, <1>2, <1>5 DEF Requests

LEMMA BodySaysTheSame ==
  ASSUME NEW q \in Requests, NEW meant \in Requests, Validates(meant),
         meant.kind = "single" => Len(meant.to) = 1,
         q.kind = meant.kind, q.data = meant.data,
         q.key = TrimSpace(meant.key), q.to = NormalizeAll(meant.to)
  PROVE  SaysTheSame(Body(q), meant)
<1> DEFINE b == Body(q)
<1>1. /\ meant.key \in Texts /\ meant.to \in Seq(Recipients) /\ meant.data \in Wholes \cup {NoData}
      /\ DOMAIN meant.to = 1 .. Len(meant.to) /\ Len(meant.to) \in Nat
      /\ \A i \in 1 .. Len(meant.to) : meant.to[i] \in Recipients
      /\ Len(q.to) = Len(meant.to) /\ DOMAIN q.to = 1 .. Len(meant.to)
      /\ \A i \in 1 .. Len(meant.to) : q.to[i] = Normalize(meant.to[i])
  BY RequestFields, SeqFacts, NormalizeAllFields
<1>2. /\ b.kind = meant.kind /\ b.key = q.key /\ b.data = Canonical(meant.data)
      /\ b.to = [i \in 1 .. Len(meant.to) |-> MarshalRecipient(q.to[i])]
  BY <1>1 DEF Body
<1> HIDE DEF b
<1>3. Len(b.to) = Len(meant.to)
  BY <1>1, <1>2
<1>4. \A i \in 1 .. Len(meant.to) : b.to[i] = MarshalRecipient(Normalize(meant.to[i]))
  BY <1>1, <1>2
<1>5. \A i \in 1 .. Len(meant.to) : SameRecipient(b.to[i], meant.to[i])
  BY <1>1, <1>4, ValidRecipients, RecipientSaysTheSame
<1>6. SameText(b.key, meant.key)
  BY <1>1, <1>2, TextFields DEF SameText
<1>7. meant.data \in -Precision .. Precision \cup {NoData} => b.data = meant.data
  BY <1>1, <1>2, CanonicalFits
<1>8. SaysTheSame(b, meant)
  BY <1>1, <1>2, <1>3, <1>5, <1>6, <1>7 DEF SaysTheSame
<1> QED BY <1>8 DEF b
-----------------------------------------------------------------------------
(***************************************************************************)
(* The invariant.  The request is the original, its key and recipients as  *)
(* they were or normalised; only while a goroutine stores one of them may  *)
(* that be torn.  As long as storing can tear it, the goroutine is alone   *)
(* (KeyInv, ToInv).  What a goroutine has stored stays (PhaseInv), so that *)
(* its bodies say what was meant (BodyInv).                                *)
(***************************************************************************)
K == TrimSpace(original.key)
N == NormalizeAll(original.to)

Busy(g) == at[g] \notin {"idle", "health"}
OneBusy == \A g, h \in Senders : Busy(g) /\ Busy(h) => g = h
Plain(to) ==
  \A i \in 1 .. Len(to) : to[i].form # "torn" /\ NormalForm(to[i].form) = to[i].form

KeyInv ==
  /\ \/ req.key \in {original.key, K}
     \/ req.key = Torn /\ \E h \in Senders : at[h] = "storingKey"
  /\ req.key # K => OneBusy

ToInv ==
  /\ \/ Mixed(req.to, original.to)
     \/ ~Plain(req.to) /\ \E h \in Senders : at[h] = "storingRecipient"
  /\ Len(req.to) = Len(original.to)
  /\ ~Plain(req.to) => OneBusy

Phase(g) ==
  /\ at[g] \in {"checked", "storingKey"} /\ original.kind = "bulk" => local[g].to = N
  /\ at[g] = "storingKey" => local[g].key = K
  /\ at[g] \in {"keyed", "normalised", "storingRecipient", "requesting"} => req.key = K
  /\ at[g] \in {"normalised", "storingRecipient"} => local[g].to = N
  /\ at[g] = "requesting" => req.to = N

PhaseInv == \A g \in Senders : Phase(g)

BodyInv ==
  \A g \in Senders :
    /\ \A b \in wire[g] \cup mailed[g] : SaysTheSame(b, original)
    /\ Busy(g) \/ wire[g] # {} \/ mailed[g] # {} => Validates(original)

JudgeInv ==
  /\ req.kind = original.kind /\ req.data = original.data
  /\ ~Validates(original) => req = original
  /\ ~TextData(original) =>
       \A g \in Senders : result[g] = "invalid" => ~Fit(original)

Inv == TypeOK /\ KeyInv /\ ToInv /\ PhaseInv /\ BodyInv /\ JudgeInv

LEMMA DraftFacts ==
  ASSUME NEW d \in Drafts
  PROVE  d \in Requests /\ (d.kind = "single" => Len(d.to) = 1)
BY EmailAssumption

LEMMA RequestExcept ==
  ASSUME NEW q \in Requests
  PROVE  /\ \A k \in Texts :
              LET r == [q EXCEPT !.key = k] IN
                r \in Requests /\ r.key = k /\ r.kind = q.kind /\ r.to = q.to /\ r.data = q.data
         /\ \A t \in Seq(Recipients) :
              LET r == [q EXCEPT !.to = t] IN
                r \in Requests /\ r.to = t /\ r.kind = q.kind /\ r.key = q.key /\ r.data = q.data
BY DEF Requests

LEMMA RequestEqual ==
  ASSUME NEW q \in Requests, NEW r \in Requests,
         q.kind = r.kind, q.key = r.key, q.to = r.to, q.data = r.data
  PROVE  q = r
BY DEF Requests

(***************************************************************************)
(* The original: what is stored of it, once it is validated, is plain.     *)
(***************************************************************************)
LEMMA OriginalFacts ==
  ASSUME TypeOK
  PROVE  /\ original \in Requests /\ req \in Requests
         /\ original.kind = "single" => Len(original.to) = 1
         /\ original.kind \in {"single", "bulk"}
         /\ original.key \in Texts /\ original.to \in Seq(Recipients)
         /\ Len(original.to) \in Nat
         /\ \A i \in 1 .. Len(original.to) : original.to[i] \in Recipients
         /\ req.key \in Texts /\ req.to \in Seq(Recipients)
         /\ \A i \in 1 .. Len(req.to) : req.to[i] \in Recipients
         /\ K \in Texts /\ N \in Seq(Recipients) /\ Len(N) = Len(original.to)
         /\ \A i \in 1 .. Len(original.to) : N[i] = Normalize(original.to[i])
<1>1. /\ original \in Requests /\ req \in Requests
      /\ original.kind = "single" => Len(original.to) = 1
  BY DraftFacts DEF TypeOK
<1>2. /\ original.key \in Texts /\ original.to \in Seq(Recipients)
      /\ req.key \in Texts /\ req.to \in Seq(Recipients)
      /\ original.kind \in {"single", "bulk"}
  BY <1>1, RequestFields
<1> QED BY <1>1, <1>2, SeqFacts, TextFields, NormalizeAllFields DEF K, N

LEMMA Untorn ==
  ASSUME TypeOK, Validates(original)
  PROVE  /\ \A i \in 1 .. Len(original.to) :
              original.to[i].form # "torn" /\ N[i].form # "torn"
         /\ Plain(N) /\ Mixed(N, original.to)
<1>1. ASSUME NEW i \in 1 .. Len(original.to)
      PROVE  /\ original.to[i].form # "torn" /\ N[i].form # "torn"
             /\ NormalForm(N[i].form) = N[i].form
  <2>1. original.to[i] \in Recipients /\ N[i] = Normalize(original.to[i])
    BY OriginalFacts
  <2>2. ValidateRecipient(original.to[i])
    BY OriginalFacts, ValidRecipients
  <2>3. original.to[i].form # "torn" /\ original.to[i].form \in Forms
    BY <2>1, <2>2, RecipientFields DEF ValidateRecipient, Strings, Objects
  <2>4. N[i].form = NormalForm(original.to[i].form)
    BY <2>1, NormalizeFields
  <2> QED BY <2>3, <2>4, FormFacts
<1>2. Len(N) = Len(original.to) /\ \A i \in 1 .. Len(original.to) : N[i] = Normalize(original.to[i])
  BY OriginalFacts
<1> QED BY <1>1, <1>2 DEF Plain, Mixed

LEMMA TearFacts ==
  ASSUME NEW r \in Recipients
  PROVE  /\ Tear(r) \in Recipients
         /\ NormalForm(r.form) = r.form => Tear(r) = r
         /\ NormalForm(r.form) # r.form => Tear(r).form = "torn"
<1>1. CASE NormalForm(r.form) = r.form
  BY <1>1 DEF Tear
<1>2. CASE NormalForm(r.form) # r.form
  <2>1. Tear(r) = [r EXCEPT !.form = "torn"]
    BY <1>2 DEF Tear
  <2>2. [r EXCEPT !.form = "torn"] \in Recipients /\ [r EXCEPT !.form = "torn"].form = "torn"
    BY DEF Recipients, Forms
  <2> QED BY <1>2, <2>1, <2>2
<1> QED BY <1>1, <1>2

LEMMA Step ==
  ASSUME TypeOK, NEW g \in Senders, NEW s \in Steps, Go(g, s)
  PROVE  /\ at' \in [Senders -> Steps] /\ at'[g] = s
         /\ \A h \in Senders \ {g} : at'[h] = at[h]
BY DEF TypeOK, Go
-----------------------------------------------------------------------------
LEMMA InitInv == Init => Inv
<1> SUFFICES ASSUME Init PROVE Inv
  OBVIOUS
<1>1. /\ original \in Drafts /\ req = original
      /\ at = [g \in Senders |-> "idle"] /\ local = [g \in Senders |-> NoLocal]
      /\ wire = [g \in Senders |-> {}] /\ mailed = [g \in Senders |-> {}]
      /\ result = [g \in Senders |-> "none"] /\ pending = {}
  BY EmailAssumption DEF Init, Contract!Init
<1>2. NoLocal \in Locals
  BY SpecialTexts DEF NoLocal, Locals
<1>3. TypeOK
  <2>1. pending = {g \in Senders : at[g] \in {"requesting", "health"}}
    BY <1>1
  <2>2. at \in [Senders -> Steps]
    BY <1>1 DEF Steps
  <2> QED BY <1>1, <1>2, <2>1, <2>2, DraftFacts DEF TypeOK, Results
<1>4. \A g \in Senders : /\ ~Busy(g) /\ at[g] = "idle"
                         /\ wire[g] = {} /\ mailed[g] = {} /\ result[g] = "none"
  BY <1>1 DEF Busy
<1> QED
  BY <1>1, <1>3, <1>4
  DEF Inv, KeyInv, ToInv, PhaseInv, Phase, BodyInv, JudgeInv, OneBusy, Mixed

LEMMA DraftInv ==
  ASSUME Inv, NEW d \in Drafts, Draft(d)
  PROVE  Inv'
<1>1. /\ original' = d /\ req' = d /\ d \in Drafts
      /\ at' = at /\ local' = local /\ pending' = pending /\ wire' = [g \in Senders |-> {}]
      /\ mailed' = [g \in Senders |-> {}] /\ result' = [g \in Senders |-> "none"]
      /\ \A g \in Senders : at[g] = "idle"
  BY DEF Draft, requestVars
<1>2. TypeOK'
  BY <1>1, DraftFacts DEF Inv, TypeOK, Results
<1>3. \A g \in Senders : /\ ~Busy(g)' /\ at'[g] = "idle"
                         /\ wire'[g] = {} /\ mailed'[g] = {} /\ result'[g] = "none"
  BY <1>1 DEF Busy
<1> QED
  BY <1>1, <1>2, <1>3
  DEF Inv, KeyInv, ToInv, PhaseInv, Phase, BodyInv, JudgeInv, OneBusy, Mixed

(***************************************************************************)
(* A goroutine that may begin finds nothing torn; and what could tear the  *)
(* request of somebody else has been stored.                               *)
(***************************************************************************)
LEMMA MayBegin ==
  ASSUME Inv, NEW g \in Senders, at[g] = "idle", Shareable(req) \/ Alone(g)
  PROVE  /\ Variant(req, original)
         /\ Alone(g) \/ (req.key = K /\ Plain(req.to))
<1>1. /\ req.key \in Texts /\ original.key \in Texts
      /\ DOMAIN req.to = 1 .. Len(req.to)
      /\ req.kind = original.kind /\ req.data = original.data
  BY OriginalFacts, SeqFacts DEF Inv, JudgeInv
<1>2. CASE Alone(g)
  <2>1. \A h \in Senders : at[h] \in {"idle", "health"}
    BY <1>2 DEF Alone
  <2> QED BY <1>1, <1>2, <2>1 DEF Inv, KeyInv, ToInv, Variant, K
<1>3. CASE Shareable(req)
  <2>1. Plain(req.to)
    BY <1>1, <1>3 DEF Shareable, Plain
  <2>2. req.key \in {original.key, K} /\ req.key.space = "none"
    BY <1>3 DEF Shareable, Inv, KeyInv
  <2>3. req.key = K
    <3>1. CASE req.key = original.key
      <4>1. K = [core |-> req.key.core, space |-> "none", case |-> req.key.case]
        BY <1>1, <3>1, TextFields DEF K
      <4>2. req.key = [core |-> req.key.core, space |-> req.key.space, case |-> req.key.case]
        BY <1>1, TextFields
      <4> QED BY <2>2, <4>1, <4>2
    <3> QED BY <2>2, <3>1
  <2> QED BY <1>1, <2>1, <2>2, <2>3 DEF Inv, ToInv, Variant, K
<1> QED BY <1>2, <1>3

LEMMA RefuseInv ==
  ASSUME Inv, NEW g \in Senders, Submit(g), Refuse(g)
  PROVE  Inv'
<1>1. /\ at[g] = "idle" /\ ~Validates(req)
      /\ Shareable(req) \/ Alone(g)
      /\ req' = req /\ original' = original /\ at' = at /\ local' = local
      /\ pending' = pending
      /\ wire' = [wire EXCEPT ![g] = {}] /\ mailed' = [mailed EXCEPT ![g] = {}]
      /\ result' = [result EXCEPT ![g] = "invalid"]
  BY DEF Submit, Refuse, requestVars
<1>2. ~TextData(original) => ~Fit(original)
  BY <1>1, MayBegin, OriginalFacts, VariantJudged DEF Inv
<1>3. TypeOK'
  BY <1>1 DEF Inv, TypeOK, Results
<1>4. \A h \in Senders :
        /\ wire'[h] \subseteq wire[h] /\ mailed'[h] \subseteq mailed[h]
        /\ result'[h] \in {result[h], "invalid"}
  BY <1>1 DEF Inv, TypeOK
<1>5. K' = K /\ N' = N /\ OneBusy' = OneBusy /\ \A h : Busy(h)' = Busy(h)
  BY <1>1 DEF K, N, OneBusy, Busy
<1>6. KeyInv' /\ ToInv' /\ PhaseInv'
  BY <1>1, <1>5 DEF Inv, KeyInv, ToInv, PhaseInv, Phase, Plain
<1>7. BodyInv'
  BY <1>1, <1>4, <1>5 DEF Inv, BodyInv
<1>8. JudgeInv'
  BY <1>1, <1>2, <1>4 DEF Inv, JudgeInv
<1> QED BY <1>3, <1>6, <1>7, <1>8 DEF Inv

LEMMA ApproveInv ==
  ASSUME Inv, NEW g \in Senders, Submit(g), Approve(g)
  PROVE  Inv'
<1>1. /\ at[g] = "idle" /\ Validates(req)
      /\ Shareable(req) \/ Alone(g)
      /\ req' = req /\ original' = original /\ Go(g, "checked")
      /\ pending' = pending
      /\ wire' = [wire EXCEPT ![g] = {}] /\ mailed' = [mailed EXCEPT ![g] = {}]
      /\ result' = [result EXCEPT ![g] = "none"]
      /\ local' = [local EXCEPT ![g].to =
                     IF req.kind = "bulk" THEN NormalizeAll(req.to) ELSE <<>>]
  BY DEF Submit, Approve, requestVars
<1>2. TypeOK
  BY DEF Inv
<1>3. Variant(req, original) /\ (Alone(g) \/ (req.key = K /\ Plain(req.to)))
  BY <1>1, MayBegin
<1>4. Validates(original) /\ NormalizeAll(req.to) = N
  BY <1>1, <1>2, <1>3, OriginalFacts, VariantJudged, MixedNormal DEF Variant, N
<1>5. /\ at' \in [Senders -> Steps] /\ at'[g] = "checked"
      /\ \A h \in Senders \ {g} : at'[h] = at[h]
  BY <1>1, <1>2, Step DEF Steps
<1>6. /\ local' \in [Senders -> Locals]
      /\ req.kind = "bulk" => local'[g].to = N
      /\ \A h \in Senders \ {g} : local'[h] = local[h]
  <2>1. local \in [Senders -> Locals] /\ N \in Seq(Recipients) /\ <<>> \in Seq(Recipients)
    BY <1>2, OriginalFacts DEF TypeOK
  <2>2. (IF req.kind = "bulk" THEN NormalizeAll(req.to) ELSE <<>>) \in Seq(Recipients)
    BY <1>4, <2>1
  <2> QED BY <1>1, <1>4, <2>1, <2>2 DEF Locals
<1>7. /\ wire'[g] = {} /\ mailed'[g] = {} /\ result'[g] = "none"
      /\ wire' \in [Senders -> SUBSET Requests] /\ mailed' \in [Senders -> SUBSET Requests]
      /\ result' \in [Senders -> Results]
      /\ \A h \in Senders \ {g} :
           wire'[h] = wire[h] /\ mailed'[h] = mailed[h] /\ result'[h] = result[h]
  BY <1>1, <1>2 DEF TypeOK, Results
<1>8. TypeOK'
  <2>1. pending' = {h \in Senders : at'[h] \in {"requesting", "health"}}
    BY <1>1, <1>2, <1>5 DEF TypeOK
  <2> QED BY <1>1, <1>2, <1>5, <1>6, <1>7, <2>1 DEF TypeOK
<1>9. K' = K /\ N' = N
  BY <1>1 DEF K, N
<1>10. Alone(g) => OneBusy'
  BY <1>5 DEF Alone, OneBusy, Busy
<1>11. KeyInv'
  <2>1. \A h \in Senders : at[h] = "storingKey" => at'[h] = "storingKey"
    BY <1>1, <1>5
  <2> QED BY <1>1, <1>3, <1>9, <1>10, <2>1 DEF Inv, KeyInv
<1>12. ToInv'
  <2>1. Plain(req.to)' = Plain(req.to)
    BY <1>1 DEF Plain
  <2> QED BY <1>1, <1>3, <1>10, <2>1 DEF Inv, ToInv, Variant
<1>13. PhaseInv'
  BY <1>1, <1>2, <1>5, <1>6, <1>9 DEF Inv, PhaseInv, Phase, JudgeInv
<1>14. BodyInv'
  BY <1>1, <1>4, <1>5, <1>7 DEF Inv, BodyInv, Busy
<1>15. JudgeInv'
  BY <1>1, <1>4, <1>7 DEF Inv, JudgeInv
<1> QED BY <1>8, <1>11, <1>12, <1>13, <1>14, <1>15 DEF Inv
-----------------------------------------------------------------------------
(***************************************************************************)
(* The stores.                                                             *)
(***************************************************************************)
LEMMA StillBusy ==
  ASSUME Inv, NEW g \in Senders, NEW s \in Steps \ {"idle", "health"},
         Busy(g), Go(g, s), original' = original
  PROVE  /\ at' \in [Senders -> Steps] /\ at'[g] = s
         /\ \A h \in Senders \ {g} : at'[h] = at[h]
         /\ \A h \in Senders : Busy(h)' = Busy(h)
         /\ OneBusy' = OneBusy /\ K' = K /\ N' = N
         /\ Validates(original)
<1>1. /\ at' \in [Senders -> Steps] /\ at'[g] = s
      /\ \A h \in Senders \ {g} : at'[h] = at[h]
  BY Step DEF Inv
<1>2. \A h \in Senders : Busy(h)' = Busy(h)
  BY <1>1 DEF Busy
<1>3. OneBusy' = OneBusy
  BY <1>2 DEF OneBusy
<1>4. Validates(original)
  BY DEF Inv, BodyInv
<1> QED BY <1>1, <1>2, <1>3, <1>4 DEF K, N

LEMMA StoreKeyInv ==
  ASSUME Inv, NEW g \in Senders, StoreKey(g)
  PROVE  Inv'
<1>1. /\ at[g] = "checked" /\ Busy(g) /\ Go(g, "storingKey")
      /\ local' = [local EXCEPT ![g].key = TrimSpace(req.key)]
      /\ req' = IF req.key.space = "around" THEN [req EXCEPT !.key = Torn] ELSE req
      /\ original' = original /\ wire' = wire /\ mailed' = mailed
      /\ result' = result /\ pending' = pending
  BY DEF StoreKey, Busy, requestVars
<1>2. TypeOK /\ req \in Requests /\ req.key \in Texts /\ original.key \in Texts /\ K \in Texts
  BY OriginalFacts DEF Inv
<1>3. /\ at' \in [Senders -> Steps] /\ at'[g] = "storingKey"
      /\ \A h \in Senders \ {g} : at'[h] = at[h]
      /\ \A h \in Senders : Busy(h)' = Busy(h)
      /\ OneBusy' = OneBusy /\ K' = K /\ N' = N /\ Validates(original)
  BY <1>1, StillBusy DEF Steps
<1>4. req.key \in {original.key, K}
  BY <1>1 DEF Inv, KeyInv, OneBusy, Busy
<1>5. TrimSpace(req.key) = K /\ K.space = "none"
  <2>1. K = [core |-> original.key.core, space |-> "none", case |-> original.key.case]
    BY <1>2, TextFields DEF K
  <2>2. TrimSpace(K) = [core |-> K.core, space |-> "none", case |-> K.case]
    BY <1>2, TextFields
  <2>3. TrimSpace(K) = K
    BY <2>1, <2>2
  <2> QED BY <1>4, <2>1, <2>3 DEF K
<1>6. /\ req' \in Requests /\ req'.kind = req.kind /\ req'.to = req.to /\ req'.data = req.data
      /\ req'.key \in {req.key, Torn}
      /\ req'.key = req.key \/ OneBusy
  <2>1. CASE req.key.space = "around"
    <3>1. req' = [req EXCEPT !.key = Torn] /\ req.key # K
      BY <1>1, <1>5, <2>1
    <3>2. OneBusy
      BY <3>1 DEF Inv, KeyInv
    <3> QED BY <1>2, <3>1, <3>2, RequestExcept, SpecialTexts
  <2>2. CASE req.key.space # "around"
    BY <1>1, <1>2, <2>2
  <2> QED BY <2>1, <2>2
<1>7. /\ local' \in [Senders -> Locals] /\ local'[g].key = K /\ local'[g].to = local[g].to
      /\ \A h \in Senders \ {g} : local'[h] = local[h]
  BY <1>1, <1>2, <1>5 DEF TypeOK, Locals
<1>8. TypeOK'
  <2>1. pending' = {h \in Senders : at'[h] \in {"requesting", "health"}}
    BY <1>1, <1>2, <1>3 DEF TypeOK
  <2> QED BY <1>1, <1>2, <1>3, <1>6, <1>7, <2>1 DEF TypeOK
<1>9. KeyInv'
  BY <1>1, <1>3, <1>4, <1>6 DEF Inv, KeyInv
<1>10. ToInv'
  <2>1. Plain(req.to)' = Plain(req.to)
    BY <1>6 DEF Plain
  <2>2. \A h \in Senders : at[h] = "storingRecipient" => at'[h] = "storingRecipient"
    BY <1>1, <1>3
  <2> QED BY <1>1, <1>3, <1>6, <2>1, <2>2 DEF Inv, ToInv
<1>11. PhaseInv'
  <2> SUFFICES ASSUME NEW h \in Senders
               PROVE  Phase(h)'
    BY DEF PhaseInv
  <2>1. Phase(h)
    BY DEF Inv, PhaseInv
  <2>2. Phase(g)
    BY DEF Inv, PhaseInv
  <2>3. CASE h = g
    BY <1>1, <1>3, <1>7, <2>2, <2>3 DEF Phase
  <2>4. CASE h # g
    <3>1. Busy(h) => req'.key = req.key
      BY <1>1, <1>6, <2>4 DEF OneBusy
    <3> QED BY <1>1, <1>3, <1>6, <1>7, <2>1, <2>4, <3>1 DEF Busy, Phase
  <2> QED BY <2>3, <2>4
<1>12. BodyInv' /\ JudgeInv'
  BY <1>1, <1>3, <1>6 DEF Inv, BodyInv, JudgeInv
<1> QED BY <1>8, <1>9, <1>10, <1>11, <1>12 DEF Inv

LEMMA KeyStoredInv ==
  ASSUME Inv, NEW g \in Senders, KeyStored(g)
  PROVE  Inv'
<1> DEFINE s == IF req.kind = "bulk" THEN "normalised" ELSE "keyed"
<1>1. /\ at[g] = "storingKey" /\ Busy(g) /\ Go(g, s) /\ s \in Steps \ {"idle", "health"}
      /\ req' = [req EXCEPT !.key = local[g].key]
      /\ original' = original /\ local' = local /\ wire' = wire /\ mailed' = mailed
      /\ result' = result /\ pending' = pending
  BY DEF KeyStored, Busy, Steps, requestVars
<1>2. /\ TypeOK /\ req \in Requests /\ K \in Texts /\ local[g].key = K
      /\ req.kind = "bulk" => local[g].to = N
  BY <1>1, OriginalFacts DEF Inv, PhaseInv, JudgeInv, Phase
<1>3. /\ at' \in [Senders -> Steps] /\ at'[g] = s
      /\ \A h \in Senders \ {g} : at'[h] = at[h]
      /\ \A h \in Senders : Busy(h)' = Busy(h)
      /\ OneBusy' = OneBusy /\ K' = K /\ N' = N /\ Validates(original)
  BY <1>1, StillBusy
<1>4. s \in {"normalised", "keyed"} /\ (s = "normalised" => req.kind = "bulk")
  OBVIOUS
<1> HIDE DEF s
<1>5. /\ req' \in Requests /\ req'.kind = req.kind /\ req'.to = req.to /\ req'.data = req.data
      /\ req'.key = K
  BY <1>1, <1>2, RequestExcept
<1>6. TypeOK'
  <2>1. pending' = {h \in Senders : at'[h] \in {"requesting", "health"}}
    BY <1>1, <1>2, <1>3, <1>4 DEF TypeOK
  <2> QED BY <1>1, <1>2, <1>3, <1>5, <2>1 DEF TypeOK
<1>7. KeyInv'
  BY <1>3, <1>5 DEF KeyInv
<1>8. ToInv'
  <2>1. Plain(req.to)' = Plain(req.to)
    BY <1>5 DEF Plain
  <2>2. \A h \in Senders : at[h] = "storingRecipient" => at'[h] = "storingRecipient"
    BY <1>1, <1>3
  <2> QED BY <1>1, <1>3, <1>5, <2>1, <2>2 DEF Inv, ToInv
<1>9. PhaseInv'
  <2> SUFFICES ASSUME NEW h \in Senders
               PROVE  Phase(h)'
    BY DEF PhaseInv
  <2>1. Phase(h)
    BY DEF Inv, PhaseInv
  <2>2. CASE h = g
    BY <1>1, <1>2, <1>3, <1>4, <1>5, <2>2 DEF Phase
  <2>3. CASE h # g
    BY <1>1, <1>3, <1>5, <2>1, <2>3 DEF Phase
  <2> QED BY <2>2, <2>3
<1>10. BodyInv' /\ JudgeInv'
  BY <1>1, <1>3, <1>5 DEF Inv, BodyInv, JudgeInv
<1> QED BY <1>6, <1>7, <1>8, <1>9, <1>10 DEF Inv

LEMMA NormalizeRecipientInv ==
  ASSUME Inv, NEW g \in Senders, NormalizeRecipient(g)
  PROVE  Inv'
<1>1. /\ at[g] = "keyed" /\ Busy(g) /\ Go(g, "normalised")
      /\ local' = [local EXCEPT ![g].to = NormalizeAll(req.to)]
      /\ req' = req /\ original' = original /\ wire' = wire /\ mailed' = mailed
      /\ result' = result /\ pending' = pending
  BY DEF NormalizeRecipient, Busy, requestVars
<1>2. /\ TypeOK /\ req.to \in Seq(Recipients) /\ original.to \in Seq(Recipients)
      /\ N \in Seq(Recipients)
  BY OriginalFacts DEF Inv
<1>3. /\ at' \in [Senders -> Steps] /\ at'[g] = "normalised"
      /\ \A h \in Senders \ {g} : at'[h] = at[h]
      /\ \A h \in Senders : Busy(h)' = Busy(h)
      /\ OneBusy' = OneBusy /\ K' = K /\ N' = N /\ Validates(original)
  BY <1>1, StillBusy DEF Steps
<1>4. NormalizeAll(req.to) = N
  <2>1. Mixed(req.to, original.to)
    BY <1>1 DEF Inv, ToInv, OneBusy, Busy
  <2> QED BY <1>2, <2>1, MixedNormal DEF N
<1>5. /\ local' \in [Senders -> Locals] /\ local'[g].to = N
      /\ \A h \in Senders \ {g} : local'[h] = local[h]
  BY <1>1, <1>2, <1>4 DEF TypeOK, Locals
<1>6. TypeOK'
  <2>1. pending' = {h \in Senders : at'[h] \in {"requesting", "health"}}
    BY <1>1, <1>2, <1>3 DEF TypeOK
  <2> QED BY <1>1, <1>2, <1>3, <1>5, <2>1 DEF TypeOK
<1>7. \A h \in Senders : /\ at[h] = "storingRecipient" => at'[h] = "storingRecipient"
                         /\ at[h] = "storingKey" => at'[h] = "storingKey"
  BY <1>1, <1>3
<1>8. KeyInv' /\ ToInv'
  <2>1. Plain(req.to)' = Plain(req.to)
    BY <1>1 DEF Plain
  <2> QED BY <1>1, <1>3, <1>7, <2>1 DEF Inv, KeyInv, ToInv
<1>9. PhaseInv'
  <2> SUFFICES ASSUME NEW h \in Senders
               PROVE  Phase(h)'
    BY DEF PhaseInv
  <2>1. Phase(h)
    BY DEF Inv, PhaseInv
  <2> QED BY <1>1, <1>3, <1>5, <2>1 DEF Phase
<1>10. BodyInv' /\ JudgeInv'
  BY <1>1, <1>3 DEF Inv, BodyInv, JudgeInv
<1> QED BY <1>6, <1>8, <1>9, <1>10 DEF Inv
(***************************************************************************)
(* What is torn by storing recipients is not plain; and a plain request    *)
(* is not torn.                                                            *)
(***************************************************************************)
LEMMA TornRecipients ==
  ASSUME NEW from \in Seq(Recipients), NEW to, to = [i \in DOMAIN from |-> Tear(from[i])]
  PROVE  /\ to \in Seq(Recipients) /\ Len(to) = Len(from)
         /\ Plain(from) => to = from
         /\ Plain(to) => Plain(from) \/ \E i \in 1 .. Len(from) : from[i].form = "torn"
<1>1. /\ Len(from) \in Nat /\ DOMAIN from = 1 .. Len(from)
      /\ \A i \in 1 .. Len(from) : from[i] \in Recipients
      /\ from = [i \in 1 .. Len(from) |-> from[i]]
  BY SeqFacts
<1>2. to = [i \in 1 .. Len(from) |-> to[i]] /\ \A i \in 1 .. Len(from) : to[i] = Tear(from[i])
  BY <1>1
<1>3. \A i \in 1 .. Len(from) :
        /\ to[i] \in Recipients
        /\ NormalForm(from[i].form) = from[i].form => to[i] = from[i]
        /\ NormalForm(from[i].form) # from[i].form => to[i].form = "torn"
  BY <1>1, <1>2, TearFacts
<1>4. to \in Seq(Recipients) /\ Len(to) = Len(from)
  BY <1>1, <1>2, <1>3, SeqMade
<1>5. ASSUME Plain(from) PROVE to = from
  <2>1. \A i \in 1 .. Len(from) : to[i] = from[i]
    BY <1>3, <1>5 DEF Plain
  <2> QED BY <1>1, <1>2, <2>1
<1>6. ASSUME Plain(to), \A i \in 1 .. Len(from) : from[i].form # "torn"
      PROVE  Plain(from)
  BY <1>3, <1>4, <1>6 DEF Plain
<1> QED BY <1>4, <1>5, <1>6

LEMMA StoreRecipientInv ==
  ASSUME Inv, NEW g \in Senders, StoreRecipient(g)
  PROVE  Inv'
<1> DEFINE torn == [i \in DOMAIN req.to |-> Tear(req.to[i])]
<1>1. /\ at[g] = "normalised" /\ Busy(g) /\ Go(g, "storingRecipient")
      /\ req' = [req EXCEPT !.to = torn]
      /\ original' = original /\ local' = local /\ wire' = wire /\ mailed' = mailed
      /\ result' = result /\ pending' = pending
  BY DEF StoreRecipient, Busy, requestVars
<1>2. /\ TypeOK /\ req \in Requests /\ req.to \in Seq(Recipients)
      /\ original.to \in Seq(Recipients)
  BY OriginalFacts DEF Inv
<1>3. /\ at' \in [Senders -> Steps] /\ at'[g] = "storingRecipient"
      /\ \A h \in Senders \ {g} : at'[h] = at[h]
      /\ \A h \in Senders : Busy(h)' = Busy(h)
      /\ OneBusy' = OneBusy /\ K' = K /\ N' = N /\ Validates(original)
  BY <1>1, StillBusy DEF Steps
<1>4. /\ torn \in Seq(Recipients) /\ Len(torn) = Len(req.to)
      /\ Plain(req.to) => torn = req.to
      /\ Plain(torn) => Plain(req.to) \/ \E i \in 1 .. Len(req.to) : req.to[i].form = "torn"
  BY <1>2, TornRecipients
<1> HIDE DEF torn
<1>5. /\ req' \in Requests /\ req'.kind = req.kind /\ req'.key = req.key /\ req'.data = req.data
      /\ req'.to = torn
  BY <1>1, <1>2, <1>4, RequestExcept
<1>6. Plain(req.to) => req' = req
  BY <1>2, <1>4, <1>5, RequestEqual
<1>7. ~Plain(req.to) => OneBusy /\ ~Plain(torn)
  <2> SUFFICES ASSUME ~Plain(req.to) PROVE OneBusy /\ ~Plain(torn)
    OBVIOUS
  <2>1. OneBusy
    BY DEF Inv, ToInv
  <2>2. Mixed(req.to, original.to)
    BY <1>1, <2>1 DEF Inv, ToInv, OneBusy, Busy
  <2>3. \A i \in 1 .. Len(original.to) :
          original.to[i].form # "torn" /\ Normalize(original.to[i]).form # "torn"
    BY <1>2, <1>3, Untorn, OriginalFacts
  <2>4. \A i \in 1 .. Len(req.to) : req.to[i].form # "torn"
    BY <2>2, <2>3 DEF Mixed
  <2> QED BY <1>4, <2>1, <2>4
<1>8. TypeOK'
  <2>1. pending' = {h \in Senders : at'[h] \in {"requesting", "health"}}
    BY <1>1, <1>2, <1>3 DEF TypeOK
  <2> QED BY <1>1, <1>2, <1>3, <1>5, <2>1 DEF TypeOK
<1>9. KeyInv'
  <2>1. \A h \in Senders : at[h] = "storingKey" => at'[h] = "storingKey"
    BY <1>1, <1>3
  <2> QED BY <1>1, <1>3, <1>5, <2>1 DEF Inv, KeyInv
<1>10. ToInv'
  <2>1. Plain(req.to)' = Plain(torn)
    BY <1>5 DEF Plain
  <2>2. CASE Plain(req.to)
    BY <1>1, <1>4, <1>5, <2>1, <2>2 DEF Inv, ToInv
  <2>3. CASE ~Plain(req.to)
    BY <1>1, <1>3, <1>4, <1>5, <1>7, <2>1, <2>3 DEF Inv, ToInv
  <2> QED BY <2>2, <2>3
<1>11. PhaseInv'
  <2> SUFFICES ASSUME NEW h \in Senders
               PROVE  Phase(h)'
    BY DEF PhaseInv
  <2>1. Phase(h) /\ Phase(g)
    BY DEF Inv, PhaseInv
  <2>2. CASE h = g
    BY <1>1, <1>3, <1>5, <2>1, <2>2 DEF Phase
  <2>3. CASE h # g
    <3>1. Busy(h) => req'.to = req.to
      BY <1>1, <1>6, <1>7, <2>3 DEF OneBusy
    <3> QED BY <1>1, <1>3, <1>5, <2>1, <2>3, <3>1 DEF Phase, Busy
  <2> QED BY <2>2, <2>3
<1>12. BodyInv' /\ JudgeInv'
  BY <1>1, <1>3, <1>5 DEF Inv, BodyInv, JudgeInv
<1> QED BY <1>8, <1>9, <1>10, <1>11, <1>12 DEF Inv

LEMMA RequestMailInv ==
  ASSUME Inv, NEW g \in Senders, RequestMail(g)
  PROVE  Inv'
<1>1. /\ at[g] = "storingRecipient" /\ Busy(g) /\ Go(g, "requesting")
      /\ req' = [req EXCEPT !.to = local[g].to]
      /\ local' = [local EXCEPT ![g] = NoLocal]
      /\ original' = original /\ wire' = wire /\ mailed' = mailed /\ result' = result
      /\ pending' = pending \cup {g}
  BY DEF RequestMail, Busy, Contract!Call
<1>2. /\ TypeOK /\ req \in Requests /\ N \in Seq(Recipients) /\ Len(N) = Len(original.to)
      /\ local[g].to = N
  BY <1>1, OriginalFacts DEF Inv, PhaseInv, Phase
<1>3. /\ at' \in [Senders -> Steps] /\ at'[g] = "requesting"
      /\ \A h \in Senders \ {g} : at'[h] = at[h]
      /\ \A h \in Senders : Busy(h)' = Busy(h)
      /\ OneBusy' = OneBusy /\ K' = K /\ N' = N /\ Validates(original)
  BY <1>1, StillBusy DEF Steps
<1>4. /\ req' \in Requests /\ req'.kind = req.kind /\ req'.key = req.key /\ req'.data = req.data
      /\ req'.to = N
  BY <1>1, <1>2, RequestExcept
<1>5. /\ local' \in [Senders -> Locals]
      /\ \A h \in Senders \ {g} : local'[h] = local[h]
  BY <1>1, <1>2, SpecialTexts DEF TypeOK, Locals, NoLocal
<1>6. TypeOK'
  <2>1. pending' = {h \in Senders : at'[h] \in {"requesting", "health"}}
    BY <1>1, <1>2, <1>3 DEF TypeOK
  <2> QED BY <1>1, <1>2, <1>3, <1>4, <1>5, <2>1 DEF TypeOK
<1>7. KeyInv'
  <2>1. \A h \in Senders : at[h] = "storingKey" => at'[h] = "storingKey"
    BY <1>1, <1>3
  <2> QED BY <1>1, <1>3, <1>4, <2>1 DEF Inv, KeyInv
<1>8. ToInv'
  <2>1. Plain(N) /\ Mixed(N, original.to)
    BY <1>2, <1>3, Untorn
  <2>2. Plain(req.to)' /\ Mixed(req.to, original.to)'
    BY <1>1, <1>4, <2>1 DEF Plain, Mixed
  <2>3. Len(req'.to) = Len(original'.to)
    BY <1>1, <1>2, <1>4
  <2> QED BY <2>2, <2>3 DEF ToInv
<1>9. PhaseInv'
  <2> SUFFICES ASSUME NEW h \in Senders
               PROVE  Phase(h)'
    BY DEF PhaseInv
  <2>1. Phase(h) /\ Phase(g)
    BY DEF Inv, PhaseInv
  <2>2. CASE h = g
    BY <1>1, <1>3, <1>4, <2>1, <2>2 DEF Phase
  <2>3. CASE h # g
    BY <1>1, <1>3, <1>4, <1>5, <2>1, <2>3 DEF Phase
  <2> QED BY <2>2, <2>3
<1>10. BodyInv' /\ JudgeInv'
  BY <1>1, <1>3, <1>4 DEF Inv, BodyInv, JudgeInv
<1> QED BY <1>6, <1>7, <1>8, <1>9, <1>10 DEF Inv
-----------------------------------------------------------------------------
(***************************************************************************)
(* The request under way, and the end of it.  These leave the object and   *)
(* the local variables alone.                                              *)
(***************************************************************************)
LEMMA ObjectAlone ==
  ASSUME Inv, req' = req, original' = original, local' = local,
         \A h \in Senders : at'[h] = at[h] \/ at'[h] \in {"idle", "health"},
         \A h \in Senders : at[h] \in {"storingKey", "storingRecipient"} => at'[h] = at[h]
  PROVE  KeyInv' /\ ToInv' /\ PhaseInv'
<1>1. K' = K /\ N' = N /\ Plain(req.to)' = Plain(req.to)
  BY DEF K, N, Plain
<1>2. OneBusy => OneBusy'
  BY DEF OneBusy, Busy
<1>3. KeyInv'
  BY <1>1, <1>2 DEF Inv, KeyInv
<1>4. ToInv'
  BY <1>1, <1>2 DEF Inv, ToInv
<1>5. PhaseInv'
  BY <1>1 DEF Inv, PhaseInv, Phase
<1> QED BY <1>3, <1>4, <1>5

LEMMA AttemptInv ==
  ASSUME Inv, NEW g \in Senders, Attempt(g)
  PROVE  Inv'
<1>1. /\ at[g] = "requesting" /\ Busy(g)
      /\ wire' = [wire EXCEPT ![g] = @ \cup {Body(req)}]
      /\ req' = req /\ original' = original /\ at' = at /\ local' = local
      /\ mailed' = mailed /\ result' = result /\ pending' = pending
  BY DEF Attempt, Busy, requestVars
<1>2. /\ original \in Requests /\ req \in Requests
      /\ original.kind = "single" => Len(original.to) = 1
  BY OriginalFacts DEF Inv
<1>3. SaysTheSame(Body(req), original)
  <2>1. /\ req.key = TrimSpace(original.key) /\ req.to = NormalizeAll(original.to)
        /\ req.kind = original.kind /\ req.data = original.data /\ Validates(original)
    BY <1>1 DEF Inv, PhaseInv, Phase, JudgeInv, BodyInv, K, N
  <2> QED BY <1>2, <2>1, BodySaysTheSame
<1>4. /\ wire' \in [Senders -> SUBSET Requests] /\ wire'[g] = wire[g] \cup {Body(req)}
      /\ \A h \in Senders \ {g} : wire'[h] = wire[h]
  BY <1>1, <1>2, BodyType DEF Inv, TypeOK
<1>5. TypeOK'
  BY <1>1, <1>4 DEF Inv, TypeOK
<1>6. BodyInv'
  BY <1>1, <1>3, <1>4 DEF Inv, BodyInv, Busy
<1>7. JudgeInv'
  BY <1>1 DEF Inv, JudgeInv
<1> QED BY <1>1, <1>5, <1>6, <1>7, ObjectAlone DEF Inv

LEMMA CarryOutInv ==
  ASSUME Inv, NEW g \in Senders, CarryOut(g)
  PROVE  Inv'
<1>1. PICK b \in wire[g] : mailed' = [mailed EXCEPT ![g] = @ \cup {b}]
  BY DEF CarryOut
<1>2. /\ req' = req /\ original' = original /\ at' = at /\ local' = local
      /\ wire' = wire /\ result' = result /\ pending' = pending
  BY DEF CarryOut, Contract!CarryOut
<1>3. SaysTheSame(b, original) /\ Validates(original)
  BY <1>2 DEF Inv, BodyInv
<1>4. /\ mailed' \in [Senders -> SUBSET Requests] /\ mailed'[g] = mailed[g] \cup {b}
      /\ \A h \in Senders \ {g} : mailed'[h] = mailed[h]
  <2>1. b \in Requests
    BY DEF Inv, TypeOK
  <2> QED BY <1>1, <2>1 DEF Inv, TypeOK
<1>5. TypeOK'
  BY <1>2, <1>4 DEF Inv, TypeOK
<1>6. BodyInv'
  BY <1>2, <1>3, <1>4 DEF Inv, BodyInv, Busy
<1>7. JudgeInv'
  BY <1>2 DEF Inv, JudgeInv
<1> QED BY <1>2, <1>5, <1>6, <1>7, ObjectAlone DEF Inv

LEMMA HealthCheckInv ==
  ASSUME Inv, NEW g \in Senders, HealthCheck(g)
  PROVE  Inv'
<1>1. /\ at[g] = "idle" /\ Go(g, "health") /\ pending' = pending \cup {g}
      /\ result' = [result EXCEPT ![g] = "none"] /\ mailed' = [mailed EXCEPT ![g] = {}]
      /\ wire' = [wire EXCEPT ![g] = {}]
      /\ req' = req /\ original' = original /\ local' = local
  BY DEF HealthCheck, Contract!Call
<1>2. /\ at' \in [Senders -> Steps] /\ at'[g] = "health"
      /\ \A h \in Senders \ {g} : at'[h] = at[h]
  BY <1>1, Step DEF Inv, Steps
<1>3. /\ wire' \in [Senders -> SUBSET Requests] /\ mailed' \in [Senders -> SUBSET Requests]
      /\ result' \in [Senders -> Results]
      /\ wire'[g] = {} /\ mailed'[g] = {} /\ result'[g] = "none"
      /\ \A h \in Senders \ {g} :
           wire'[h] = wire[h] /\ mailed'[h] = mailed[h] /\ result'[h] = result[h]
  BY <1>1 DEF Inv, TypeOK, Results
<1>4. TypeOK'
  <2>1. pending' = {h \in Senders : at'[h] \in {"requesting", "health"}}
    BY <1>1, <1>2 DEF Inv, TypeOK
  <2> QED BY <1>1, <1>2, <1>3, <2>1 DEF Inv, TypeOK
<1>5. BodyInv'
  BY <1>1, <1>2, <1>3 DEF Inv, BodyInv, Busy
<1>6. JudgeInv'
  BY <1>1, <1>3 DEF Inv, JudgeInv
<1>7. KeyInv' /\ ToInv' /\ PhaseInv'
  BY <1>1, <1>2, ObjectAlone
<1> QED BY <1>4, <1>5, <1>6, <1>7 DEF Inv

LEMMA RespondInv ==
  ASSUME Inv, NEW g \in Senders, NEW o \in Outcomes, Respond(g, o)
  PROVE  Inv'
<1>1. PICK r \in DecodesTo(o) : result' = [result EXCEPT ![g] = r]
  BY DEF Respond
<1>2. /\ g \in pending /\ pending' = pending \ {g} /\ Go(g, "idle")
      /\ req' = req /\ original' = original /\ local' = local
      /\ wire' = wire /\ mailed' = mailed
  BY DEF Respond, Returned, Contract!Succeed, Contract!Fail, Contract!GiveUp, Contract!Return
<1>3. at[g] \in {"requesting", "health"}
  BY <1>2 DEF Inv, TypeOK
<1>4. /\ at' \in [Senders -> Steps] /\ at'[g] = "idle"
      /\ \A h \in Senders \ {g} : at'[h] = at[h]
  BY <1>2, Step DEF Inv, Steps
<1>5. r \in Results /\ r # "invalid"
  BY EmailAssumption DEF DecodesTo, Outcomes, Results
<1>6. /\ result' \in [Senders -> Results]
      /\ result'[g] = r /\ \A h \in Senders \ {g} : result'[h] = result[h]
  BY <1>1, <1>5 DEF Inv, TypeOK
<1>7. TypeOK'
  <2>1. pending' = {h \in Senders : at'[h] \in {"requesting", "health"}}
    BY <1>2, <1>4 DEF Inv, TypeOK
  <2> QED BY <1>2, <1>4, <1>6, <2>1 DEF Inv, TypeOK
<1>8. BodyInv'
  BY <1>2, <1>4 DEF Inv, BodyInv, Busy
<1>9. JudgeInv'
  BY <1>2, <1>5, <1>6 DEF Inv, JudgeInv
<1>10. KeyInv' /\ ToInv' /\ PhaseInv'
  BY <1>2, <1>3, <1>4, ObjectAlone
<1> QED BY <1>7, <1>8, <1>9, <1>10 DEF Inv

LEMMA StutterInv == Inv /\ UNCHANGED emailVars /\ pending' = pending => Inv'
<1> SUFFICES ASSUME Inv, UNCHANGED emailVars, pending' = pending PROVE Inv'
  OBVIOUS
<1>1. /\ req' = req /\ original' = original /\ at' = at /\ local' = local /\ wire' = wire
      /\ mailed' = mailed /\ result' = result /\ pending' = pending
  BY DEF emailVars
<1>2. TypeOK' /\ BodyInv' /\ JudgeInv'
  BY <1>1 DEF Inv, TypeOK, BodyInv, JudgeInv, Busy
<1> QED BY <1>1, <1>2, ObjectAlone DEF Inv

LEMMA EmailInvariant == Spec => []Inv
<1>1. Inv /\ [Next]_vars => Inv'
  <2> SUFFICES ASSUME Inv, [Next]_vars PROVE Inv'
    OBVIOUS
  <2>1. CASE \E d \in Drafts : Draft(d)
    BY <2>1, DraftInv
  <2>2. ASSUME NEW g \in Senders, Send(g)
        PROVE  Inv'
    <3>1. Submit(g) => Refuse(g) \/ Approve(g)
      BY DEF Submit
    <3> QED BY <2>2, <3>1, RefuseInv, ApproveInv, StoreKeyInv, KeyStoredInv,
               NormalizeRecipientInv, StoreRecipientInv, RequestMailInv DEF Send
  <2>3. ASSUME NEW g \in Senders,
               \/ Attempt(g) \/ CarryOut(g) \/ HealthCheck(g)
               \/ \E o \in Outcomes : Respond(g, o)
        PROVE  Inv'
    BY <2>3, AttemptInv, CarryOutInv, HealthCheckInv, RespondInv
  <2>4. ASSUME NEW g \in Senders, LoseAnswer(g) \/ AnswerHealth(g)
        PROVE  Inv'
    BY <2>4, StutterInv DEF LoseAnswer, AnswerHealth, Contract!Lose, Contract!CarryOut
  <2>5. CASE UNCHANGED vars
    BY <2>5, StutterInv DEF vars, requestVars
  <2> QED BY <2>1, <2>2, <2>3, <2>4, <2>5 DEF Next
<1> QED BY InitInv, <1>1, PTL DEF Spec
-----------------------------------------------------------------------------
(***************************************************************************)
(* The variables keep their types, and a goroutine is in Client.Request    *)
(* exactly while it sends or asks for the health.                          *)
(***************************************************************************)
THEOREM EmailTypeCorrect == Spec => []TypeOK
BY EmailInvariant, PTL DEF Inv

(***************************************************************************)
(* Every mail carried out says what the application meant.                 *)
(***************************************************************************)
THEOREM EveryMailIsTheSame == Spec => []SameMail
<1>1. Inv => SameMail
  BY DEF Inv, BodyInv, SameMail
<1> QED BY EmailInvariant, <1>1, PTL

(***************************************************************************)
(* A request is judged by what the application meant, in every submission. *)
(***************************************************************************)
THEOREM RequestsAreJudgedAsMeant == Spec => []JudgedAsMeant
<1>1. Inv => JudgedAsMeant
  <2> SUFFICES ASSUME Inv, ~TextData(original), NEW g \in Senders
               PROVE  /\ result[g] = "invalid" => ~Fit(original)
                      /\ mailed[g] # {} => Fit(original)
    BY DEF JudgedAsMeant
  <2>1. Validates(original) => Fit(original)
    <3>1. Variant(original, original)
      BY DEF Variant, Mixed
    <3> QED BY <3>1, OriginalFacts, VariantJudged DEF Inv
  <2> QED BY <2>1 DEF Inv, BodyInv, JudgeInv
<1> QED BY EmailInvariant, <1>1, PTL

(***************************************************************************)
(* An invalid request is left as it was, and nothing of it is mailed.      *)
(***************************************************************************)
THEOREM InvalidRequestsAreUntouched == Spec => []InvalidIsUntouched
<1>1. Inv => InvalidIsUntouched
  <2> SUFFICES ASSUME Inv, ~TextData(original), NEW g \in Senders, result[g] = "invalid"
               PROVE  req = original /\ mailed[g] = {}
    BY DEF InvalidIsUntouched
  <2>1. Validates(original) => Fit(original)
    <3>1. Variant(original, original)
      BY DEF Variant, Mixed
    <3> QED BY <3>1, OriginalFacts, VariantJudged DEF Inv
  <2> QED BY <2>1 DEF Inv, BodyInv, JudgeInv
<1> QED BY EmailInvariant, <1>1, PTL
-----------------------------------------------------------------------------
(***************************************************************************)
(* The email client is a caller the contract of Client.Request allows:     *)
(* each of its steps is one of RequestContract or leaves that alone.  What *)
(* is proved above assumes nothing of the stack below but the contract,    *)
(* and asks nothing more of it.                                            *)
(***************************************************************************)
THEOREM ClientKeepsContract == Spec => Contract!Spec
<1>1. Init => Contract!Init
  BY DEF Init
<1>2. [Next]_vars => [Contract!Next]_(Contract!vars)
  <2> SUFFICES ASSUME [Next]_vars PROVE Contract!Next \/ UNCHANGED Contract!vars
    OBVIOUS
  <2> USE DEF Contract!Next, Contract!vars, requestVars
  <2>1. CASE \E d \in Drafts : Draft(d)
    BY <2>1 DEF Draft
  <2>2. ASSUME NEW g \in Senders, Send(g)
        PROVE  Contract!Next \/ UNCHANGED Contract!vars
    BY <2>2 DEF Send, Submit, StoreKey, KeyStored, NormalizeRecipient, StoreRecipient,
                RequestMail
  <2>3. ASSUME NEW g \in Senders,
               \/ Attempt(g) \/ CarryOut(g) \/ LoseAnswer(g) \/ HealthCheck(g)
               \/ AnswerHealth(g)
        PROVE  Contract!Next \/ UNCHANGED Contract!vars
    BY <2>3 DEF Attempt, CarryOut, LoseAnswer, HealthCheck, AnswerHealth
  <2>4. ASSUME NEW g \in Senders, NEW o \in Outcomes, Respond(g, o)
        PROVE  Contract!Next
    BY <2>4 DEF Respond, Returned
  <2>5. CASE UNCHANGED vars
    BY <2>5 DEF vars
  <2> QED BY <2>1, <2>2, <2>3, <2>4, <2>5 DEF Next
<1> QED BY <1>1, <1>2, PTL DEF Spec, Contract!Spec

(***************************************************************************)
(* What the service has carried out for a call that is under way is among  *)
(* the mails, by the contract's count and by the email client's set.       *)
(***************************************************************************)
CarriedInv ==
  /\ executed \in [Senders -> Nat]
  /\ DOMAIN outcome = Senders
  /\ \A g \in Senders : at[g] = "requesting" /\ executed[g] > 0 => mailed[g] # {}

LEMMA CarriedHolds == Spec => []CarriedInv
<1>1. Init => CarriedInv
  BY DEF Init, Contract!Init, CarriedInv
<1>2. TypeOK /\ CarriedInv /\ [Next]_vars => CarriedInv'
  <2> SUFFICES ASSUME TypeOK, CarriedInv, [Next]_vars PROVE CarriedInv'
    OBVIOUS
  <2> USE DEF TypeOK, CarriedInv, requestVars
  <2>1. CASE \E d \in Drafts : Draft(d)
    BY <2>1 DEF Draft
  <2>2. ASSUME NEW g \in Senders,
               \/ Submit(g) \/ StoreKey(g) \/ KeyStored(g)
               \/ NormalizeRecipient(g) \/ StoreRecipient(g)
        PROVE  CarriedInv'
    BY <2>2 DEF Submit, Refuse, Approve, StoreKey, KeyStored, NormalizeRecipient,
                StoreRecipient, Go
  <2>3. ASSUME NEW g \in Senders, RequestMail(g) \/ HealthCheck(g)
        PROVE  CarriedInv'
    BY <2>3 DEF RequestMail, HealthCheck, Go, Contract!Call
  <2>4. ASSUME NEW g \in Senders, CarryOut(g)
        PROVE  CarriedInv'
    BY <2>4 DEF CarryOut, Contract!CarryOut
  <2>5. ASSUME NEW g \in Senders, AnswerHealth(g)
        PROVE  CarriedInv'
    BY <2>5 DEF AnswerHealth, emailVars, Contract!CarryOut
  <2>6. ASSUME NEW g \in Senders, NEW o \in Outcomes, Respond(g, o)
        PROVE  CarriedInv'
    BY <2>6 DEF Respond, Returned, Go, Contract!Succeed, Contract!Fail, Contract!GiveUp,
                Contract!Return
  <2>7. ASSUME NEW g \in Senders, Attempt(g) \/ LoseAnswer(g)
        PROVE  CarriedInv'
    BY <2>7 DEF Attempt, LoseAnswer, emailVars, Contract!Lose
  <2>8. CASE UNCHANGED vars
    BY <2>8 DEF vars, emailVars
  <2> QED BY <2>1, <2>2, <2>3, <2>4, <2>5, <2>6, <2>7, <2>8 DEF Next, Send
<1> QED BY <1>1, <1>2, EmailTypeCorrect, PTL DEF Spec

(***************************************************************************)
(* A call of SendEmail or SendBulkEmails that returns with the answer of   *)
(* an attempt that was carried out, decoded or not, had a valid request    *)
(* and has mailed what the application meant, and nothing else.  A call    *)
(* without an error whose answer was that of a redirect is excepted: it    *)
(* has this answer from somewhere else.                                    *)
(***************************************************************************)
SentIsMailed ==
  [][\A g \in Senders :
       at[g] = "requesting" /\ at'[g] = "idle" /\ outcome'[g] = "ok" =>
         /\ mailed[g] # {}
         /\ \A b \in mailed[g] : SaysTheSame(b, original)
         /\ Validates(original)]_vars

(***************************************************************************)
(* For any requests, goroutines that share them and failures on the way,   *)
(* success means that the mail was sent: SentIsMailed.                     *)
(***************************************************************************)
THEOREM SuccessIsMailed == Spec => SentIsMailed
<1> DEFINE Told ==
      \A g \in Senders :
        at[g] = "requesting" /\ at'[g] = "idle" /\ outcome'[g] = "ok" =>
          /\ mailed[g] # {}
          /\ \A b \in mailed[g] : SaysTheSame(b, original)
          /\ Validates(original)
<1>1. Inv /\ CarriedInv /\ [Next]_vars => [Told]_vars
  <2> SUFFICES ASSUME Inv, CarriedInv, Next, NEW g \in Senders,
                      at[g] = "requesting", at'[g] = "idle", outcome'[g] = "ok"
               PROVE  /\ mailed[g] # {}
                      /\ \A b \in mailed[g] : SaysTheSame(b, original)
                      /\ Validates(original)
    OBVIOUS
  <2>1. (\A b \in mailed[g] : SaysTheSame(b, original)) /\ Validates(original)
    BY DEF Inv, BodyInv, Busy
  <2>2. PICK h \in Senders : at' # at /\ (Send(h) \/ HealthCheck(h)
                                \/ \E o \in Outcomes : Respond(h, o))
    BY DEF Next, Draft, Attempt, CarryOut, LoseAnswer, AnswerHealth, emailVars
  <2>3. h = g
    BY <2>2 DEF Inv, TypeOK, Send, Submit, Refuse, Approve, StoreKey, KeyStored,
                NormalizeRecipient, StoreRecipient, RequestMail, HealthCheck, Respond, Go
  <2>4. PICK o \in Outcomes : Respond(g, o)
    BY <2>2, <2>3 DEF Send, Submit, StoreKey, KeyStored, NormalizeRecipient, StoreRecipient,
                      RequestMail, HealthCheck
  <2>5. outcome'[g] = o
    BY <2>4 DEF Respond, Returned, CarriedInv, Contract!Succeed, Contract!Fail, Contract!GiveUp,
                Contract!Return
  <2>6. executed[g] > 0
    BY <2>4, <2>5, EmailAssumption DEF Respond, Returned, Contract!Succeed
  <2> QED BY <2>1, <2>6 DEF CarriedInv
<1> QED BY <1>1, EmailInvariant, CarriedHolds, PTL DEF Spec, SentIsMailed
=============================================================================
