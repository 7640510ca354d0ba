------------------------------ MODULE MCParts -------------------------------
(***************************************************************************)
(* Parts for TLC: the documents, configurations, headers and messages the  *)
(* instance looks at.                                                      *)
(***************************************************************************)
EXTENDS Parts

CONSTANTS m1, m2, m3

(***************************************************************************)
(* Every heap of three maps with two fields, "email" a sensitive name and  *)
(* "note" not: nested, shared, cyclic, and with a map under a sensitive    *)
(* name.  To keep them few, "note" holds no leaf, which would change       *)
(* nothing, and m3 refers to itself and m1 only.                           *)
(***************************************************************************)
MCDocuments ==
  LET With(email, note) == [f \in {"email", "note"} |-> IF f = "email" THEN email ELSE note]
      Of(refs) == {With(e, n) : e \in refs \cup {Absent, Leaf}, n \in refs \cup {Absent}}
  IN  {[m \in {m1, m2, m3} |-> CASE m = m1 -> a [] m = m2 -> b [] OTHER -> c] :
         a \in Of({m1, m2, m3}), b \in Of({m1, m2, m3}), c \in Of({m1})}

(***************************************************************************)
(* Zero and usual base delays, one above its MaxDelay for any attempt, one *)
(* that overflows; MaxDelays below, above and near the largest duration.   *)
(***************************************************************************)
MCConfigs == [base : {0, 1, 3, 10}, max : {20, 50, 60}]

MCStatuses == {0, 404, 408, 501}

MCRetryAfters ==
  {NoHeader}
    \cup [form : {"seconds"}, n : {-2, 3, 15, 30}]
    \cup [form : {"date"}, n : {-3, 40, 100}]

MCFlagSets == {{}, {"path", "email"}, {"connection"}}

MCMessages ==
  {{"path", "email"}, {"connection with path", "email"}, {"connection", "path"}}
=============================================================================
