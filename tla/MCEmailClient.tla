--------------------------- MODULE MCEmailClient ----------------------------
(***************************************************************************)
(* EmailClient for TLC: the requests of the instance.                      *)
(***************************************************************************)
EXTENDS EmailClient, TLC

Padded(core) == [Text(core) EXCEPT !.space = "around"]
Loud(core)   == [Text(core) EXCEPT !.space = "around", !.case = "upper"]

MCCores ==
  {"ann@huefy", "bob@huefy", "welcome", "a very long address", "a very long key",
   "to", "cc", "bcc", "reply", "empty", "absent", "nontext", "torn"}

MCAddresses == {"ann@huefy", "bob@huefy", "a very long address"}
MCTooLong   == {"a very long address", "a very long key"}

Ann(form, type, data) ==
  [form |-> form, email |-> Text("ann@huefy"), type |-> type, data |-> data]

Bob(form, type, data) ==
  [form |-> form, email |-> Padded("bob@huefy"), type |-> type, data |-> data]

Single(key, r, n) == [kind |-> "single", key |-> key, to |-> <<r>>, data |-> n]
Bulk(key, to)     == [kind |-> "bulk", key |-> key, to |-> to, data |-> NoData]

Key == Text("welcome")

(***************************************************************************)
(* Singles the validators take, in each form: with space around the key,   *)
(* the email and the type, a type in upper case, an empty one, an empty    *)
(* object for data, numbers up to Precision and beyond it of either sign,  *)
(* and the text in a map of strings.                                       *)
(***************************************************************************)
FitSingles ==
  {Single(Key, Bob("string", Absent, "absent"), 0),
   Single(Padded("welcome"), Bob("*string", Absent, "absent"), 0),
   Single(Key, Bob("object", Loud("cc"), "object"), 4),
   Single(Key, Bob("*object", Padded("empty"), "object"), 5),
   Single(Key, Bob("object", Text("cc"), "empty"), -4),
   Single(Key, Bob("map", Loud("bcc"), "empty"), -5),
   Single(Key, Bob("map", Text("bcc"), "object"), 9),
   Single(Key, Ann("map", Absent, "absent"), 0),
   Single(Padded("welcome"), Bob("stringmap", Loud("to"), "absent"), 7),
   Single(Key, Bob("stringmap", Absent, "text"), 0)}

(***************************************************************************)
(* One that is refused for each of its reasons.                            *)
(***************************************************************************)
UnfitSingles ==
  {Single(Empty, Ann("string", Absent, "absent"), 0),
   Single(Padded("empty"), Ann("string", Absent, "absent"), 0),
   Single(Text("a very long key"), Ann("string", Absent, "absent"), 0),
   Single(Key, Ann("string", Absent, "absent"), NoData),
   Single(Key, Ann("nil", Absent, "absent"), 0),
   Single(Key, Ann("other", Absent, "absent"), 0),
   Single(Key, Ann("object", Text("reply"), "absent"), 0),
   Single(Key, Ann("map", NotText, "absent"), 0),
   Single(Key, Ann("map", Absent, "text"), 0),
   Single(Key, Ann("stringmap", Text("reply"), "text"), 0),
   Single(Key, [Ann("map", Absent, "absent") EXCEPT !.email = NotText], 0),
   Single(Key, [Ann("string", Absent, "absent") EXCEPT !.email = Empty], 0),
   Single(Key, [Ann("string", Absent, "absent") EXCEPT !.email = Text("a very long address")], 0)}

(***************************************************************************)
(* Bulks of none, one, MaxBulk and one more; one with a recipient that is  *)
(* refused after one that is normalised.                                   *)
(***************************************************************************)
Bulks ==
  {Bulk(Key, <<>>),
   Bulk(Padded("welcome"), <<Bob("object", Loud("cc"), "object")>>),
   Bulk(Key, <<Ann("object", Padded("empty"), "empty"), Bob("object", Loud("to"), "absent")>>),
   Bulk(Key, <<Ann("object", Empty, "absent"), Bob("object", Empty, "absent"),
               Ann("object", Empty, "absent")>>),
   Bulk(Key, <<Bob("object", Loud("cc"), "object"), Ann("object", Text("reply"), "absent")>>)}

MCDrafts == FitSingles \cup UnfitSingles \cup Bulks
=============================================================================
