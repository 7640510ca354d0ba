----------------------------- MODULE Sanitizer ------------------------------
(***************************************************************************)
(* The sanitising of an error message (errors/sanitizer.go) at the end of  *)
(* a failed Client.Request, against goroutines that set the global default *)
(* configuration and prepare the next one meanwhile.                       *)
(*                                                                         *)
(* SetDefaultSanitizationConfig keeps the caller's pointer, so the caller  *)
(* must not change the default in place: that would be a data race with    *)
(* the copy GetDefaultSanitizationConfig makes under the lock.  A struct   *)
(* that is not the default any more may be changed, also while a message   *)
(* is being sanitised with it.                                             *)
(*                                                                         *)
(* A message is the set of the sensitive pieces in it.                     *)
(***************************************************************************)
EXTENDS Naturals, Sequences

CONSTANTS
  Structs,   \* the ErrorSanitizationConfig structs of the application
  Initial,   \* the one init() makes
  Nil,       \* the nil pointer
  FlagSets,  \* the categories a configuration may switch on
  Messages   \* the messages an instance looks at

VARIABLES
  default,   \* defaultSanitizationConfig
  flags,     \* the contents of the structs
  at,        \* the sanitising goroutine: which pattern is next; 0 before the
             \* configuration is read, Idle outside, Panicked
  copy,      \* its copy of the configuration
  original,  \* its message
  left,      \* what is left of it
  during     \* the defaults there have been since the call

sanitizerVars == <<default, flags, at, copy, original, left, during>>

(***************************************************************************)
(* buildPatterns: the patterns in the order they are applied, by category. *)
(* The three for API keys stand next to each other: they are one here.     *)
(***************************************************************************)
Patterns   == <<"path", "ip", "key", "email", "connection">>
Categories == {Patterns[i] : i \in 1 .. Len(Patterns)}
Pieces     == Categories \cup {"connection with path", "query"}

ASSUME SanitizerAssumption ==
  /\ Initial \in Structs
  /\ Nil \notin Structs
  /\ FlagSets \subseteq SUBSET Categories
  /\ Messages \subseteq SUBSET Pieces

Idle     == Len(Patterns) + 1
Panicked == Idle + 1

SanitizerTypeOK ==
  /\ default \in Structs \cup {Nil}
  /\ flags \in [Structs -> SUBSET Categories]
  /\ at \in 0 .. Panicked
  /\ copy \in SUBSET Categories
  /\ original \in SUBSET Pieces
  /\ left \in SUBSET Pieces
  /\ during \subseteq SUBSET Categories

SanitizerInit ==
  /\ default = Initial
  /\ flags = [s \in Structs |-> Categories]
  /\ at = Idle
  /\ copy = {}
  /\ original = {}
  /\ left = {}
  /\ during = {}
-----------------------------------------------------------------------------
Current == IF default = Nil THEN {} ELSE {flags[default]}

SanitizeErrorMessage ==
  /\ at \in {Idle, Panicked}
  /\ at' = 0
  /\ original' \in Messages
  /\ left' = original'
  /\ during' = Current
  /\ UNCHANGED <<default, flags, copy>>

(***************************************************************************)
(* Under the read lock: a copy, or a panic if the default is nil.          *)
(***************************************************************************)
GetDefaultSanitizationConfig ==
  /\ at = 0
  /\ IF default = Nil
       THEN at' = Panicked /\ UNCHANGED copy
       ELSE at' = 1 /\ copy' = flags[default]
  /\ UNCHANGED <<default, flags, original, left, during>>

\* Mutant: the flags are read when their pattern's turn comes.
UsesCurrent(category) == default # Nil /\ category \in flags[default]

Uses(category) == category \in copy

(***************************************************************************)
(* What a pattern makes of a message.  The pattern for paths also matches  *)
(* the "/host/db" of a connection string without a port; its head is no    *)
(* connection string any more, and its query stays.                        *)
(***************************************************************************)
ReplaceAll(message, category) ==
  LET hit == {category} \cup
        (IF category \in {"path", "connection"} THEN {"connection with path"} ELSE {})
  IN  (message \ hit) \cup
        (IF category = "path" /\ "connection with path" \in message THEN {"query"} ELSE {})

ApplyPattern ==
  /\ at \in 1 .. Len(Patterns)
  /\ left' = IF Uses(Patterns[at]) THEN ReplaceAll(left, Patterns[at]) ELSE left
  /\ at' = at + 1
  /\ UNCHANGED <<default, flags, copy, original, during>>

SetDefaultSanitizationConfig(s) ==
  /\ default' = s
  /\ during' = IF at = Idle \/ s = Nil THEN during ELSE during \cup {flags[s]}
  /\ UNCHANGED <<flags, at, copy, original, left>>

(***************************************************************************)
(* The application changes a struct that is not the default.               *)
(***************************************************************************)
Edit(s) ==
  /\ s # default
  /\ \E f \in FlagSets : flags' = [flags EXCEPT ![s] = f]
  /\ UNCHANGED <<default, at, copy, original, left, during>>

SanitizerNext ==
  \/ SanitizeErrorMessage
  \/ GetDefaultSanitizationConfig
  \/ ApplyPattern
  \/ \E s \in Structs \cup {Nil} : SetDefaultSanitizationConfig(s)
  \/ \E s \in Structs : Edit(s)

SanitizerSpec == SanitizerInit /\ [][SanitizerNext]_sanitizerVars
-----------------------------------------------------------------------------
(***************************************************************************)
(* What one configuration makes of a message: nothing is left of the       *)
(* categories it names but the query of a connection string whose path was *)
(* replaced before it.                                                     *)
(***************************************************************************)
Redacted(message, f) ==
  LET hidden == f \cup (IF f \cap {"path", "connection"} # {} THEN {"connection with path"} ELSE {})
  IN  (message \ hidden) \cup
        (IF "path" \in f /\ "connection with path" \in message THEN {"query"} ELSE {})

(***************************************************************************)
(* A message is sanitised with one configuration, which was the default at *)
(* some moment of the call: never with a mixture of two, and never with    *)
(* one the application was still preparing.                                *)
(***************************************************************************)
OneConfigPerMessage ==
  at = Idle /\ during # {} => \E f \in during : left = Redacted(original, f)
=============================================================================
