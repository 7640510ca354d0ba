--------------------------- MODULE SanitizerProofs --------------------------
(***************************************************************************)
(* Proofs about Sanitizer.  The copy of the configuration is one of the    *)
(* defaults since the call, and what is left of the message is always what *)
(* the patterns applied so far make of it (Applied).                       *)
(***************************************************************************)
EXTENDS Sanitizer, TLAPS

Applied(n) == {Patterns[i] : i \in {j \in 1 .. 5 : j < n}} \cap copy

CopyInv ==
  /\ at = 0 => Current \subseteq during
  /\ at \in 1 .. 5 => copy \in during
  /\ at = Idle /\ during # {} => copy \in during

LeftInv ==
  /\ at = 0 => left = original
  /\ at \in 1 .. 5 => left = Redacted(original, Applied(at))
  /\ at = Idle /\ during # {} => left = Redacted(original, Applied(at))

SanitizerInv == SanitizerTypeOK /\ CopyInv /\ LeftInv

LEMMA FivePatterns ==
  /\ Len(Patterns) = 5 /\ Idle = 6 /\ Panicked = 7
  /\ Patterns[1] = "path" /\ Patterns[2] = "ip" /\ Patterns[3] = "key"
  /\ Patterns[4] = "email" /\ Patterns[5] = "connection"
  /\ Categories = {"path", "ip", "key", "email", "connection"}
<1>1. Len(Patterns) = 5
  BY DEF Patterns
<1>2. /\ Patterns[1] = "path" /\ Patterns[2] = "ip" /\ Patterns[3] = "key"
      /\ Patterns[4] = "email" /\ Patterns[5] = "connection"
  BY DEF Patterns
<1>3. 1 .. 5 = {1, 2, 3, 4, 5}
  OBVIOUS
<1>4. Categories = {"path", "ip", "key", "email", "connection"}
  BY <1>1, <1>2, <1>3 DEF Categories
<1> QED
  BY <1>1, <1>2, <1>4 DEF Idle, Panicked

(***************************************************************************)
(* Applying one more pattern: the one for paths comes first.               *)
(***************************************************************************)
LEMMA OneMore ==
  ASSUME NEW message, NEW f, NEW c \in Categories, c = "path" => f = {}
  PROVE  ReplaceAll(Redacted(message, f), c) = Redacted(message, f \cup {c})
<1>1. CASE c = "path"
  BY <1>1 DEF ReplaceAll, Redacted
<1>2. CASE c = "connection"
  BY <1>2 DEF ReplaceAll, Redacted
<1>3. CASE c \in {"ip", "key", "email"}
  BY <1>3 DEF ReplaceAll, Redacted
<1> QED
  BY <1>1, <1>2, <1>3, FivePatterns

(***************************************************************************)
(* A step that changes none of these changes nothing of what is left.      *)
(***************************************************************************)
LEMMA LeftUnchanged ==
  ASSUME LeftInv, UNCHANGED <<at, copy, original, left>>, at = Idle => during' = during
  PROVE  LeftInv'
<1>1. Applied(at)' = Applied(at)
  BY DEF Applied
<1>2. Redacted(original, Applied(at))' = Redacted(original, Applied(at))
  BY <1>1 DEF Redacted
<1>3. Idle' = Idle
  BY DEF Idle, Patterns
<1> QED
  BY <1>2, <1>3 DEF LeftInv

LEMMA NoneApplied == Applied(1) = {}
BY DEF Applied

LEMMA AllApplied ==
  ASSUME copy \subseteq Categories
  PROVE  Applied(Idle) = copy
<1>1. {j \in 1 .. 5 : j < Idle} = {1, 2, 3, 4, 5}
  BY FivePatterns
<1>2. {Patterns[i] : i \in {1, 2, 3, 4, 5}} = Categories
  BY FivePatterns
<1> QED
  BY <1>1, <1>2 DEF Applied

LEMMA NextApplied ==
  ASSUME NEW n \in 1 .. 5
  PROVE  Applied(n + 1) =
           IF Patterns[n] \in copy THEN Applied(n) \cup {Patterns[n]} ELSE Applied(n)
BY DEF Applied

LEMMA SanitizerInitInv == SanitizerInit => SanitizerInv
<1> SUFFICES ASSUME SanitizerInit PROVE SanitizerInv
  OBVIOUS
<1>1. SanitizerTypeOK
  BY SanitizerAssumption, FivePatterns DEF SanitizerInit, SanitizerTypeOK
<1>2. CopyInv /\ LeftInv
  BY FivePatterns DEF SanitizerInit, CopyInv, LeftInv
<1> QED
  BY <1>1, <1>2 DEF SanitizerInv

LEMMA ApplyPatternInv == SanitizerInv /\ ApplyPattern => SanitizerInv'
<1> SUFFICES ASSUME SanitizerInv, ApplyPattern PROVE SanitizerInv'
  OBVIOUS
<1> USE FivePatterns
<1>0. /\ at \in 1 .. 5 /\ at' = at + 1 /\ UNCHANGED <<copy, original, during>>
      /\ left = Redacted(original, Applied(at))
      /\ copy \in during
      /\ UNCHANGED <<default, flags>>
  BY DEF ApplyPattern, SanitizerInv, LeftInv, CopyInv
<1>1. Applied(at)' = Applied(at + 1)
  BY <1>0 DEF Applied
<1>2. left' = Redacted(original, Applied(at + 1))
  <2>1. CASE Patterns[at] \in copy
    <3>1. left' = ReplaceAll(left, Patterns[at])
      BY <2>1 DEF ApplyPattern, Uses
    <3>2. Patterns[at] = "path" => at = 1
      BY <1>0
    <3>3. Patterns[at] = "path" => Applied(at) = {}
      BY <3>2, NoneApplied
    <3>4. Patterns[at] \in Categories
      BY <1>0
    <3>5. ReplaceAll(Redacted(original, Applied(at)), Patterns[at])
            = Redacted(original, Applied(at) \cup {Patterns[at]})
      BY ONLY <3>3, <3>4, OneMore
    <3> QED
      BY <1>0, <2>1, <3>1, <3>5, NextApplied
  <2>2. CASE Patterns[at] \notin copy
    BY <1>0, <2>2, NextApplied DEF ApplyPattern, Uses
  <2> QED
    BY <2>1, <2>2
<1>3. SanitizerTypeOK'
  <2>1. left' \in SUBSET Pieces
    BY DEF ApplyPattern, ReplaceAll, SanitizerInv, SanitizerTypeOK, Pieces
  <2> QED
    BY <1>0, <2>1 DEF SanitizerInv, SanitizerTypeOK
<1>4. LeftInv'
  <2>1. Redacted(original, Applied(at))' = Redacted(original, Applied(at + 1))
    BY <1>0, <1>1 DEF Redacted
  <2> QED
    BY <1>0, <1>2, <2>1 DEF LeftInv
<1>5. CopyInv'
  BY <1>0 DEF CopyInv
<1> QED
  BY <1>3, <1>4, <1>5 DEF SanitizerInv

LEMMA SanitizerStepInv ==
  SanitizerInv /\ [SanitizerNext]_sanitizerVars => SanitizerInv'
<1> SUFFICES ASSUME SanitizerInv, [SanitizerNext]_sanitizerVars
             PROVE  SanitizerInv'
  OBVIOUS
<1> USE FivePatterns, SanitizerAssumption DEF SanitizerInv, SanitizerTypeOK
<1>1. CASE SanitizeErrorMessage
  <2>1. SanitizerTypeOK'
    BY <1>1 DEF SanitizeErrorMessage, Current
  <2> QED
    BY <1>1, <2>1 DEF SanitizeErrorMessage, CopyInv, LeftInv, Current
<1>2. CASE GetDefaultSanitizationConfig
  <2>1. CASE default = Nil
    <3>1. at' = 7 /\ UNCHANGED <<default, flags, copy, original, left, during>>
      BY <1>2, <2>1 DEF GetDefaultSanitizationConfig
    <3> QED
      BY <3>1 DEF CopyInv, LeftInv
  <2>2. CASE default # Nil
    <3>1. /\ at = 0 /\ at' = 1 /\ copy' = flags[default]
          /\ UNCHANGED <<default, flags, original, left, during>>
      BY <1>2, <2>2 DEF GetDefaultSanitizationConfig
    <3>2. SanitizerTypeOK'
      BY <2>2, <3>1
    <3>3. CopyInv'
      BY <2>2, <3>1 DEF CopyInv, Current
    <3>4. Redacted(original, Applied(at))' = original
      <4>1. Applied(at)' = {}
        BY <3>1 DEF Applied
      <4> QED
        BY <3>1, <4>1 DEF Redacted
    <3>5. LeftInv'
      BY <3>1, <3>4 DEF LeftInv
    <3> QED
      BY <3>2, <3>3, <3>5
  <2> QED
    BY <2>1, <2>2
<1>3. CASE ApplyPattern
  BY <1>3, ApplyPatternInv
<1>4. ASSUME NEW s \in Structs \cup {Nil}, SetDefaultSanitizationConfig(s)
      PROVE  SanitizerInv'
  <2>1. SanitizerTypeOK'
    <3>1. during' \subseteq SUBSET Categories
      <4>1. s # Nil => flags[s] \in SUBSET Categories
        OBVIOUS
      <4>2. during' = during \/ (s # Nil /\ during' = during \cup {flags[s]})
        BY <1>4 DEF SetDefaultSanitizationConfig
      <4>3. during \subseteq SUBSET Categories
        OBVIOUS
      <4> QED
        BY ONLY <4>1, <4>2, <4>3
    <3> QED
      BY <1>4, <3>1 DEF SetDefaultSanitizationConfig
  <2>2. CopyInv'
    BY <1>4 DEF SetDefaultSanitizationConfig, CopyInv, Current
  <2>3. LeftInv'
    BY <1>4, LeftUnchanged DEF SetDefaultSanitizationConfig
  <2> QED
    BY <2>1, <2>2, <2>3
<1>5. ASSUME NEW s \in Structs, Edit(s)
      PROVE  SanitizerInv'
  <2>1. SanitizerTypeOK'
    <3>1. PICK f \in FlagSets : flags' = [flags EXCEPT ![s] = f]
      BY <1>5 DEF Edit
    <3>2. flags' \in [Structs -> SUBSET Categories]
      BY <3>1
    <3> QED
      BY <1>5, <3>2 DEF Edit
  <2>2. CopyInv'
    BY <1>5 DEF Edit, CopyInv, Current
  <2>3. LeftInv'
    BY <1>5, LeftUnchanged DEF Edit
  <2> QED
    BY <2>1, <2>2, <2>3
<1>6. CASE UNCHANGED sanitizerVars
  <2>1. SanitizerTypeOK' /\ CopyInv'
    BY <1>6 DEF sanitizerVars, CopyInv, Current
  <2>2. LeftInv'
    BY <1>6, LeftUnchanged DEF sanitizerVars
  <2> QED
    BY <2>1, <2>2
<1> QED
  BY <1>1, <1>2, <1>3, <1>4, <1>5, <1>6 DEF SanitizerNext

(***************************************************************************)
(* Type correctness of the sanitising goroutine and the configurations.    *)
(***************************************************************************)
THEOREM SanitizerTypeCorrect == SanitizerSpec => []SanitizerTypeOK
<1>1. SanitizerInv => SanitizerTypeOK
  BY DEF SanitizerInv
<1> QED
  BY SanitizerInitInv, SanitizerStepInv, <1>1, PTL DEF SanitizerSpec

(***************************************************************************)
(* For any configurations and messages, whoever sets and edits them        *)
(* meanwhile: SanitizeErrorMessage applies one configuration, which was    *)
(* the default at some moment of the call.                                 *)
(***************************************************************************)
THEOREM OneConfigurationPerMessage == SanitizerSpec => []OneConfigPerMessage
<1>1. SanitizerInv => OneConfigPerMessage
  <2> SUFFICES ASSUME SanitizerInv, at = Idle, during # {}
               PROVE  \E f \in during : left = Redacted(original, f)
    BY DEF OneConfigPerMessage
  <2> QED
    BY AllApplied DEF SanitizerInv, SanitizerTypeOK, CopyInv, LeftInv
<1> QED
  BY SanitizerInitInv, SanitizerStepInv, <1>1, PTL DEF SanitizerSpec
=============================================================================
