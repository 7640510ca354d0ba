---------------------------- MODULE PIIScanProofs ---------------------------
(***************************************************************************)
(* Theorems about PIIScan, for any maps, fields and documents.             *)
(*                                                                         *)
(* The invariant has three parts.  The frames on the stack are of          *)
(* different maps, all visited (FramesInv).  The path of a frame leads to  *)
(* its map (PathsInv).  A field of a visited map is still owed by its      *)
(* frame, or it is done: reported if its name is sensitive, and the map it *)
(* refers to is visited (TodoInv).                                         *)
(***************************************************************************)
EXTENDS PIIScan, SequenceTheorems, FiniteSetTheorems, TLAPS

Last(path) == path[Len(path)]

FramesInv ==
  /\ scanning <=> stack # <<>>
  /\ visited = {} => stack = <<>> /\ found = {}
  /\ visited # {} => Root \in visited
  /\ \A i \in 1 .. Len(stack) :
       stack[i].map \in visited /\ stack[i].todo \subseteq Keys(stack[i].map)
  /\ \A i, j \in 1 .. Len(stack) : stack[i].map = stack[j].map => i = j
  /\ Len(stack) <= Cardinality(visited)

Way(path, m) ==
  \E via \in [1 .. Len(path) + 1 -> Maps] :
    /\ via[1] = Root
    /\ \A i \in 1 .. Len(path) : doc[via[i]][path[i]] = via[i + 1]
    /\ via[Len(path) + 1] = m

PathsInv == \A i \in 1 .. Len(stack) : Way(stack[i].path, stack[i].map)

Reported(m, f) == \E r \in found : r.map = m /\ Last(r.path) = f

TodoInv ==
  /\ \A r \in found : r.map \in visited /\ ~Owed(r.map, Last(r.path))
  /\ \A r, s \in found : r.map = s.map /\ Last(r.path) = Last(s.path) => r = s
  /\ \A m \in visited : \A f \in Keys(m) :
       \/ Owed(m, f)
       \/ /\ f \in Sensitive => Reported(m, f)
          /\ doc[m][f] \in Maps => doc[m][f] \in visited

ScanInv == ScanTypeOK /\ FramesInv /\ PathsInv /\ ReportsAreReal /\ TodoInv
-----------------------------------------------------------------------------
(***************************************************************************)
(* The stack: putting a frame on it, and changing the one on top.          *)
(***************************************************************************)
LEMMA OneElement ==
  ASSUME NEW S, NEW e \in S
  PROVE  <<e>> \in Seq(S) /\ Len(<<e>>) = 1 /\ <<e>>[1] = e
OBVIOUS

LEMMA PushFrame ==
  ASSUME NEW S, NEW s \in Seq(S), NEW e \in S
  PROVE  /\ <<e>> \o s \in Seq(S)
         /\ Len(<<e>> \o s) = Len(s) + 1
         /\ (<<e>> \o s)[1] = e
         /\ \A i \in 2 .. Len(s) + 1 : (<<e>> \o s)[i] = s[i - 1]
<1>1. <<e>> \in Seq(S) /\ Len(<<e>>) = 1 /\ <<e>>[1] = e /\ Len(s) \in Nat
  BY OneElement, LenProperties
<1>2. /\ <<e>> \o s \in Seq(S)
      /\ Len(<<e>> \o s) = 1 + Len(s)
      /\ \A i \in 1 .. 1 + Len(s) :
           (<<e>> \o s)[i] = IF i <= 1 THEN <<e>>[i] ELSE s[i - 1]
  BY <1>1, ConcatProperties
<1> QED BY <1>1, <1>2

LEMMA ReplaceTop ==
  ASSUME NEW S, NEW s \in Seq(S), s # <<>>, NEW e \in S
  PROVE  /\ <<e>> \o Tail(s) \in Seq(S)
         /\ Len(<<e>> \o Tail(s)) = Len(s)
         /\ (<<e>> \o Tail(s))[1] = e
         /\ \A i \in 2 .. Len(s) : (<<e>> \o Tail(s))[i] = s[i]
<1>1. /\ Tail(s) \in Seq(S) /\ Len(Tail(s)) = Len(s) - 1
      /\ \A i \in 1 .. Len(Tail(s)) : Tail(s)[i] = s[i + 1]
  BY HeadTailProperties
<1>2. Len(s) \in Nat
  BY LenProperties
<1> QED BY <1>1, <1>2, PushFrame

(***************************************************************************)
(* The frame on top.                                                       *)
(***************************************************************************)
LEMMA TopFrame ==
  ASSUME ScanTypeOK, stack # <<>>
  PROVE  /\ Here = stack[1] /\ Here \in Frame
         /\ Len(stack) \in Nat \ {0}
         /\ \A i \in 1 .. Len(stack) : stack[i] \in Frame
<1>1. stack \in Seq(Frame)
  BY DEF ScanTypeOK
<1>2. Len(stack) \in Nat \ {0}
  BY <1>1, EmptySeq
<1>3. \A i \in 1 .. Len(stack) : stack[i] \in Frame
  BY <1>1, ElementOfSeq
<1> QED BY <1>1, <1>2, <1>3 DEF Here

LEMMA BelowIsPath ==
  ASSUME ScanTypeOK, stack # <<>>, NEW f \in Fields
  PROVE  /\ Below(f) \in Seq(Fields) /\ Below(f) # <<>>
         /\ Len(Here.path) \in Nat
         /\ Len(Below(f)) = Len(Here.path) + 1
         /\ Last(Below(f)) = f
         /\ \A i \in 1 .. Len(Here.path) : Below(f)[i] = Here.path[i]
<1>1. Here.path \in Seq(Fields)
  BY TopFrame DEF Frame
<1>2. Len(Here.path) \in Nat
  BY <1>1, LenProperties
<1> QED BY <1>1, <1>2, AppendProperties DEF Below, Last

LEMMA RestOfStack ==
  ASSUME ScanTypeOK, stack # <<>>, NEW f \in Fields
  PROVE  /\ Rest(f) \in Seq(Frame)
         /\ Len(Rest(f)) = Len(stack)
         /\ Rest(f)[1].map = Here.map
         /\ Rest(f)[1].path = Here.path
         /\ Rest(f)[1].todo = Here.todo \ {f}
         /\ \A i \in 2 .. Len(stack) : Rest(f)[i] = stack[i]
<1> DEFINE e == [Here EXCEPT !.todo = @ \ {f}]
<1>1. Here \in Frame /\ stack \in Seq(Frame)
  BY TopFrame DEF ScanTypeOK
<1>2. e.map = Here.map /\ e.path = Here.path /\ e.todo = Here.todo \ {f}
  BY <1>1 DEF Frame
<1>3. e \in Frame
  BY <1>1 DEF Frame
<1> HIDE DEF e
<1>4. /\ <<e>> \o Tail(stack) \in Seq(Frame)
      /\ Len(<<e>> \o Tail(stack)) = Len(stack)
      /\ (<<e>> \o Tail(stack))[1] = e
      /\ \A i \in 2 .. Len(stack) : (<<e>> \o Tail(stack))[i] = stack[i]
  BY <1>1, <1>3, ReplaceTop
<1>5. Rest(f) = <<e>> \o Tail(stack)
  BY DEF Rest, e
<1> QED BY <1>2, <1>4, <1>5
-----------------------------------------------------------------------------
(***************************************************************************)
(* What a visit of a field does to the stack: the field is no longer owed  *)
(* by the frame on top, and a map entered has a frame above that.          *)
(***************************************************************************)
LEMMA Visiting ==
  ASSUME ScanInv, NEW f \in Fields, Visit(f)
  PROVE  /\ stack # <<>> /\ Here = stack[1] /\ Len(stack) \in Nat \ {0}
         /\ f \in Here.todo /\ f \in Keys(Here.map) /\ Here.map \in visited
         /\ doc' = doc /\ scanning' = scanning
<1>1. stack # <<>>
  BY DEF ScanInv, FramesInv, Visit
<1> QED BY <1>1, TopFrame DEF ScanInv, FramesInv, Visit

LEMMA Staying ==
  ASSUME ScanInv, NEW f \in Fields, Visit(f), StayInMap(f)
  PROVE  /\ visited' = visited /\ doc[Here.map][f] \notin Maps \ visited
         /\ stack' \in Seq(Frame) /\ Len(stack') = Len(stack)
         /\ stack'[1].map = Here.map /\ stack'[1].path = Here.path
         /\ stack'[1].todo = Here.todo \ {f}
         /\ \A i \in 2 .. Len(stack) : stack'[i] = stack[i]
<1>1. stack # <<>>
  BY Visiting
<1> QED BY <1>1, RestOfStack DEF ScanInv, StayInMap

LEMMA Descending ==
  ASSUME ScanInv, NEW f \in Fields, Visit(f), Descend(f)
  PROVE  /\ doc[Here.map][f] \in Maps \ visited
         /\ visited' = visited \cup {doc[Here.map][f]}
         /\ stack' \in Seq(Frame) /\ Len(stack') = Len(stack) + 1
         /\ stack'[1].map = doc[Here.map][f] /\ stack'[1].path = Below(f)
         /\ stack'[1].todo = Keys(doc[Here.map][f])
         /\ stack'[2].map = Here.map /\ stack'[2].path = Here.path
         /\ stack'[2].todo = Here.todo \ {f}
         /\ \A i \in 3 .. Len(stack) + 1 : stack'[i] = stack[i - 1]
<1> DEFINE child == doc[Here.map][f]
           top   == NewFrame(child, Below(f))
<1>1. stack # <<>> /\ Len(stack) \in Nat \ {0}
  BY Visiting
<1>2. child \in Maps \ visited /\ visited' = visited \cup {child}
  BY DEF Descend
<1>3. Below(f) \in Seq(Fields)
  BY <1>1, BelowIsPath DEF ScanInv
<1>4. top \in Frame /\ top.map = child /\ top.path = Below(f) /\ top.todo = Keys(child)
  BY <1>2, <1>3 DEF NewFrame, Frame, Keys
<1>5. stack' = <<top>> \o Rest(f)
  BY DEF Descend
<1> HIDE DEF child, top
<1>6. /\ Rest(f) \in Seq(Frame) /\ Len(Rest(f)) = Len(stack)
      /\ Rest(f)[1].map = Here.map /\ Rest(f)[1].path = Here.path
      /\ Rest(f)[1].todo = Here.todo \ {f}
      /\ \A i \in 2 .. Len(stack) : Rest(f)[i] = stack[i]
  BY <1>1, RestOfStack DEF ScanInv
<1>7. /\ stack' \in Seq(Frame) /\ Len(stack') = Len(stack) + 1 /\ stack'[1] = top
      /\ \A i \in 2 .. Len(stack) + 1 : stack'[i] = Rest(f)[i - 1]
  BY <1>4, <1>5, <1>6, PushFrame
<1>8. stack'[2] = Rest(f)[1]
  BY <1>1, <1>7
<1>9. ASSUME NEW i \in 3 .. Len(stack) + 1
      PROVE  stack'[i] = stack[i - 1]
  <2>1. i \in 2 .. Len(stack) + 1 /\ i - 1 \in 2 .. Len(stack)
    BY <1>1
  <2> QED BY <1>6, <1>7, <2>1
<1> QED BY <1>2, <1>4, <1>6, <1>7, <1>8, <1>9 DEF child

LEMMA VisitedFinite == ScanTypeOK => IsFiniteSet(visited) /\ Cardinality(visited) \in Nat
BY ScanAssumption, FS_Subset, FS_CardinalityType DEF ScanTypeOK

LEMMA VisitFrames ==
  ASSUME ScanInv, NEW f \in Fields, Visit(f)
  PROVE  FramesInv'
<1> USE DEF FramesInv
<1>1. /\ stack # <<>> /\ Here = stack[1] /\ Len(stack) \in Nat \ {0}
      /\ f \in Here.todo /\ Here.map \in visited /\ doc' = doc /\ scanning' = scanning
      /\ scanning
  BY Visiting DEF Visit
<1>2. Keys(Here.map)' = Keys(Here.map') /\ \A m : Keys(m)' = Keys(m)
  BY <1>1 DEF Keys
<1>3. CASE StayInMap(f)
  <2>1. /\ visited' = visited /\ Len(stack') = Len(stack) /\ stack' # <<>>
        /\ stack'[1].map = Here.map /\ stack'[1].todo = Here.todo \ {f}
        /\ \A i \in 2 .. Len(stack) : stack'[i] = stack[i]
    BY <1>1, <1>3, Staying, EmptySeq
  <2>2. \A i \in 1 .. Len(stack) :
          stack'[i].map = stack[i].map /\ stack'[i].todo \subseteq stack[i].todo
    BY <1>1, <2>1
  <2> QED BY <1>1, <1>2, <2>1, <2>2 DEF ScanInv
<1>4. CASE Descend(f)
  <2> DEFINE child == doc[Here.map][f]
  <2>1. /\ child \in Maps \ visited /\ visited' = visited \cup {child}
        /\ Len(stack') = Len(stack) + 1 /\ stack' # <<>>
        /\ stack'[1].map = child /\ stack'[1].todo = Keys(child)
        /\ stack'[2].map = Here.map /\ stack'[2].todo = Here.todo \ {f}
        /\ \A i \in 3 .. Len(stack) + 1 : stack'[i] = stack[i - 1]
    BY <1>1, <1>4, Descending, EmptySeq
  <2> HIDE DEF child
  <2>2. \A i \in 2 .. Len(stack) + 1 :
          /\ stack'[i].map = stack[i - 1].map
          /\ stack'[i].todo \subseteq stack[i - 1].todo
          /\ i - 1 \in 1 .. Len(stack)
    BY <1>1, <2>1
  <2>3. Cardinality(visited') = Cardinality(visited) + 1 /\ Cardinality(visited) \in Nat
    BY <2>1, VisitedFinite, FS_AddElement DEF ScanInv
  <2>4. \A i \in 1 .. Len(stack') :
          stack'[i].map \in visited' /\ stack'[i].todo \subseteq Keys(stack'[i].map)
    BY <1>1, <2>1, <2>2 DEF ScanInv
  <2>5. \A i, j \in 1 .. Len(stack') : stack'[i].map = stack'[j].map => i = j
    BY <1>1, <2>1, <2>2 DEF ScanInv
  <2>6. Len(stack') <= Cardinality(visited')
    BY <1>1, <2>1, <2>3 DEF ScanInv
  <2> QED BY <1>1, <1>2, <2>1, <2>4, <2>5, <2>6 DEF ScanInv
<1> QED BY <1>3, <1>4 DEF Visit

(***************************************************************************)
(* The ways to the maps on the stack, and to what is reported.             *)
(***************************************************************************)
LEMMA WayBelow ==
  ASSUME ScanTypeOK, stack # <<>>, NEW f \in Fields, Way(Here.path, Here.map)
  PROVE  /\ LeadsTo(Below(f), Here.map)
         /\ \A m \in Maps : doc[Here.map][f] = m => Way(Below(f), m)
<1> DEFINE n == Len(Here.path)
<1>1. /\ n \in Nat /\ Len(Below(f)) = n + 1 /\ Last(Below(f)) = f
      /\ \A i \in 1 .. n : Below(f)[i] = Here.path[i]
  BY BelowIsPath
<1>2. Below(f)[n + 1] = f
  BY <1>1 DEF Last
<1> HIDE DEF n
<1>3. PICK via \in [1 .. n + 1 -> Maps] :
        /\ via[1] = Root
        /\ \A i \in 1 .. n : doc[via[i]][Here.path[i]] = via[i + 1]
        /\ via[n + 1] = Here.map
  BY DEF Way, n
<1>4. LeadsTo(Below(f), Here.map)
  <2>1. via \in [1 .. Len(Below(f)) -> Maps] /\ via[Len(Below(f))] = Here.map
    BY <1>1, <1>3
  <2>2. \A i \in 1 .. Len(Below(f)) - 1 : doc[via[i]][Below(f)[i]] = via[i + 1]
    BY <1>1, <1>3
  <2> QED BY <1>3, <2>1, <2>2 DEF LeadsTo
<1>5. ASSUME NEW m \in Maps, doc[Here.map][f] = m
      PROVE  Way(Below(f), m)
  <2> DEFINE on == [i \in 1 .. n + 2 |-> IF i = n + 2 THEN m ELSE via[i]]
  <2>1. on \in [1 .. Len(Below(f)) + 1 -> Maps] /\ on[1] = Root
    BY <1>1, <1>3
  <2>2. on[Len(Below(f)) + 1] = m
    BY <1>1
  <2>3. ASSUME NEW i \in 1 .. Len(Below(f))
        PROVE  doc[on[i]][Below(f)[i]] = on[i + 1]
    <3>1. CASE i = n + 1
      <4>1. on[i] = Here.map /\ on[i + 1] = m
        BY <1>1, <1>3, <3>1
      <4> QED BY <1>2, <1>5, <3>1, <4>1
    <3>2. CASE i \in 1 .. n
      <4>1. on[i] = via[i] /\ on[i + 1] = via[i + 1]
        BY <1>1, <1>3, <3>2
      <4> QED BY <1>1, <1>3, <3>2, <4>1
    <3> QED BY <1>1, <3>1, <3>2
  <2> HIDE DEF on
  <2> QED BY <2>1, <2>2, <2>3 DEF Way
<1> QED BY <1>4, <1>5

LEMMA VisitPaths ==
  ASSUME ScanInv, NEW f \in Fields, Visit(f)
  PROVE  PathsInv' /\ ReportsAreReal'
<1>1. /\ stack # <<>> /\ Here = stack[1] /\ Len(stack) \in Nat \ {0}
      /\ f \in Keys(Here.map) /\ doc' = doc
  BY Visiting
<1>2. \A p, m : Way(p, m)' = Way(p, m) /\ LeadsTo(p, m)' = LeadsTo(p, m)
  BY <1>1 DEF Way, LeadsTo
<1>3. Way(Here.path, Here.map) /\ \A i \in 1 .. Len(stack) : Way(stack[i].path, stack[i].map)
  BY <1>1 DEF ScanInv, PathsInv
<1>4. PathsInv'
  <2>1. CASE StayInMap(f)
    <3>1. /\ Len(stack') = Len(stack)
          /\ stack'[1].map = Here.map /\ stack'[1].path = Here.path
          /\ \A i \in 2 .. Len(stack) : stack'[i] = stack[i]
      BY <2>1, Staying
    <3>2. ASSUME NEW i \in 1 .. Len(stack')
          PROVE  Way(stack'[i].path, stack'[i].map)
      BY <1>1, <1>3, <3>1
    <3> QED BY <1>2, <3>2 DEF PathsInv
  <2>2. CASE Descend(f)
    <3>1. /\ doc[Here.map][f] \in Maps
          /\ Len(stack') = Len(stack) + 1
          /\ stack'[1].map = doc[Here.map][f] /\ stack'[1].path = Below(f)
          /\ stack'[2].map = Here.map /\ stack'[2].path = Here.path
          /\ \A i \in 3 .. Len(stack) + 1 : stack'[i] = stack[i - 1]
      BY <2>2, Descending
    <3>2. Way(Below(f), doc[Here.map][f])
      BY <1>1, <1>3, <3>1, WayBelow DEF ScanInv
    <3>3. ASSUME NEW i \in 1 .. Len(stack')
          PROVE  Way(stack'[i].path, stack'[i].map)
      <4>1. CASE i = 1
        BY <3>1, <3>2, <4>1
      <4>2. CASE i = 2
        BY <1>3, <3>1, <4>2
      <4>3. CASE i \in 3 .. Len(stack) + 1
        <5>1. i - 1 \in 1 .. Len(stack)
          BY <1>1, <4>3
        <5> QED BY <1>3, <3>1, <4>3, <5>1
      <4> QED BY <1>1, <3>1, <4>1, <4>2, <4>3
    <3> QED BY <1>2, <3>3 DEF PathsInv
  <2> QED BY <2>1, <2>2 DEF Visit
<1>5. ReportsAreReal'
  <2> DEFINE new == [map |-> Here.map, path |-> Below(f)]
  <2>1. \A r \in found : r.path # <<>> /\ LeadsTo(r.path, r.map)
          /\ r.path[Len(r.path)] \in Sensitive \cap Keys(r.map)
    BY DEF ScanInv, ReportsAreReal
  <2>2. f \in Sensitive => /\ new.path # <<>> /\ LeadsTo(new.path, new.map)
                           /\ new.path[Len(new.path)] \in Sensitive \cap Keys(new.map)
    BY <1>1, <1>3, BelowIsPath, WayBelow DEF ScanInv, Last
  <2>3. found' = IF f \in Sensitive THEN found \cup {new} ELSE found
    BY DEF Visit, ReportField, IsPotentialPIIField
  <2>4. \A m : Keys(m)' = Keys(m)
    BY <1>1 DEF Keys
  <2> HIDE DEF new
  <2>5. \A r \in found' : r.path # <<>> /\ LeadsTo(r.path, r.map)
          /\ r.path[Len(r.path)] \in Sensitive \cap Keys(r.map)
    BY <2>1, <2>2, <2>3
  <2> QED BY <1>2, <2>4, <2>5 DEF ReportsAreReal
<1> QED BY <1>4, <1>5

(***************************************************************************)
(* What is owed after a visit: what was, less the field that is visited,   *)
(* and every field of a map just entered.                                  *)
(***************************************************************************)
LEMMA OwedAfter ==
  ASSUME ScanInv, NEW f \in Fields, Visit(f)
  PROVE  /\ visited' = visited \cup ({doc[Here.map][f]} \cap Maps)
         /\ \A m, g : Owed(m, g)' <=>
              \/ m \in visited' \ visited /\ g \in Keys(m)
              \/ Owed(m, g) /\ ~(m = Here.map /\ g = f)
<1>1. /\ stack # <<>> /\ Here = stack[1] /\ Len(stack) \in Nat \ {0}
  BY Visiting
<1>2. \A i, j \in 1 .. Len(stack) : stack[i].map = stack[j].map => i = j
  BY DEF ScanInv, FramesInv
<1>3. \A i \in 1 .. Len(stack) : stack[i].map \in visited
  BY DEF ScanInv, FramesInv
<1>4. CASE StayInMap(f)
  <2>1. /\ visited' = visited /\ doc[Here.map][f] \notin Maps \ visited
        /\ Len(stack') = Len(stack)
        /\ stack'[1].map = Here.map /\ stack'[1].todo = Here.todo \ {f}
        /\ \A i \in 2 .. Len(stack) : stack'[i] = stack[i]
    BY <1>4, Staying
  <2>2. ASSUME NEW m, NEW g
        PROVE  Owed(m, g)' <=> Owed(m, g) /\ ~(m = Here.map /\ g = f)
    <3>1. ASSUME NEW i \in 1 .. Len(stack)
          PROVE  (stack'[i].map = m /\ g \in stack'[i].todo)
                   <=> (stack[i].map = m /\ g \in stack[i].todo /\ ~(m = Here.map /\ g = f))
      <4>1. CASE i = 1
        BY <1>1, <2>1, <4>1
      <4>2. CASE i \in 2 .. Len(stack)
        BY <1>1, <1>2, <2>1, <4>2
      <4> QED BY <1>1, <4>1, <4>2
    <3> QED BY <2>1, <3>1 DEF Owed
  <2> QED BY <2>1, <2>2
<1>5. CASE Descend(f)
  <2> DEFINE child == doc[Here.map][f]
  <2>1. /\ child \in Maps \ visited /\ visited' = visited \cup {child}
        /\ Len(stack') = Len(stack) + 1
        /\ stack'[1].map = child /\ stack'[1].todo = Keys(child)
        /\ stack'[2].map = Here.map /\ stack'[2].todo = Here.todo \ {f}
        /\ \A i \in 3 .. Len(stack) + 1 : stack'[i] = stack[i - 1]
    BY <1>5, Descending
  <2>2. visited' = visited \cup ({child} \cap Maps)
    BY <2>1
  <2> HIDE DEF child
  <2>3. ASSUME NEW m, NEW g
        PROVE  Owed(m, g)' <=> \/ m \in visited' \ visited /\ g \in Keys(m)
                               \/ Owed(m, g) /\ ~(m = Here.map /\ g = f)
    <3> DEFINE Over(i) == stack'[i].map = m /\ g \in stack'[i].todo
               Under(i) == /\ stack[i].map = m /\ g \in stack[i].todo
                           /\ ~(m = Here.map /\ g = f)
    <3>1. Over(1) <=> m \in visited' \ visited /\ g \in Keys(m)
      BY <2>1
    <3>2. ASSUME NEW i \in 1 .. Len(stack)
          PROVE  Over(i + 1) <=> Under(i)
      <4>1. CASE i = 1
        BY <1>1, <2>1, <4>1
      <4>2. CASE i \in 2 .. Len(stack)
        <5>1. i + 1 \in 3 .. Len(stack) + 1 /\ (i + 1) - 1 = i
          BY <1>1, <4>2
        <5>2. stack'[i + 1] = stack[i]
          BY <2>1, <5>1
        <5>3. stack[i].map # Here.map
          BY <1>1, <1>2, <4>2
        <5> QED BY <5>2, <5>3
      <4> QED BY <1>1, <4>1, <4>2
    <3>3. Owed(m, g)' <=> \E i \in 1 .. Len(stack) + 1 : Over(i)
      BY <2>1 DEF Owed
    <3>4. (Owed(m, g) /\ ~(m = Here.map /\ g = f)) <=> \E i \in 1 .. Len(stack) : Under(i)
      BY DEF Owed
    <3>5. (\E i \in 1 .. Len(stack) + 1 : Over(i))
            <=> (Over(1) \/ \E i \in 1 .. Len(stack) : Over(i + 1))
      <4> HIDE DEF Over
      <4>1. ASSUME NEW i \in 1 .. Len(stack) + 1, Over(i)
            PROVE  Over(1) \/ \E j \in 1 .. Len(stack) : Over(j + 1)
        <5>1. CASE i = 1
          BY <4>1, <5>1
        <5>2. CASE i # 1
          <6>1. i - 1 \in 1 .. Len(stack) /\ (i - 1) + 1 = i
            BY <1>1, <5>2
          <6> QED BY <4>1, <6>1
        <5> QED BY <5>1, <5>2
      <4>2. 1 \in 1 .. Len(stack) + 1
        BY <1>1
      <4>3. \A j \in 1 .. Len(stack) : j + 1 \in 1 .. Len(stack) + 1
        BY <1>1
      <4> QED BY <4>1, <4>2, <4>3
    <3> HIDE DEF Over, Under
    <3> QED BY <3>1, <3>2, <3>3, <3>4, <3>5
  <2> QED BY <2>2, <2>3 DEF child
<1> QED BY <1>4, <1>5 DEF Visit

LEMMA VisitTodo ==
  ASSUME ScanInv, NEW f \in Fields, Visit(f)
  PROVE  TodoInv'
<1> DEFINE H   == Here.map
           new == [map |-> Here.map, path |-> Below(f)]
<1>1. /\ stack # <<>> /\ Here = stack[1] /\ Len(stack) \in Nat \ {0}
      /\ f \in Here.todo /\ H \in visited /\ doc' = doc
  BY Visiting
<1>2. Owed(H, f)
  BY <1>1 DEF Owed
<1>3. new.map = H /\ Last(new.path) = f
  BY <1>1, BelowIsPath DEF ScanInv
<1>4. found' = IF f \in Sensitive THEN found \cup {new} ELSE found
  BY DEF Visit, ReportField, IsPotentialPIIField
<1>5. /\ visited' = visited \cup ({doc[H][f]} \cap Maps)
      /\ \A m, g : Owed(m, g)' <=>
           \/ m \in visited' \ visited /\ g \in Keys(m)
           \/ Owed(m, g) /\ ~(m = H /\ g = f)
  BY OwedAfter
<1>6. TodoInv
  BY DEF ScanInv
<1> HIDE DEF new, H
<1>7. ASSUME NEW r \in found'
      PROVE  r.map \in visited' /\ ~Owed(r.map, Last(r.path))'
  <2>1. CASE r \in found
    BY <1>5, <1>6, <2>1 DEF TodoInv
  <2>2. CASE r = new
    BY <1>1, <1>3, <1>5, <2>2
  <2> QED BY <1>4, <2>1, <2>2
<1>8. ASSUME NEW r \in found', NEW s \in found', r.map = s.map, Last(r.path) = Last(s.path)
      PROVE  r = s
  <2>1. CASE r \in found /\ s \in found
    BY <1>6, <1>8, <2>1 DEF TodoInv
  <2>2. \A q \in found : ~(q.map = H /\ Last(q.path) = f)
    BY <1>2, <1>6 DEF TodoInv
  <2> QED BY <1>3, <1>4, <1>8, <2>1, <2>2
<1>9. ASSUME NEW m \in visited', NEW g \in Keys(m)
      PROVE  \/ Owed(m, g)'
             \/ /\ g \in Sensitive => Reported(m, g)'
                /\ doc[m][g] \in Maps => doc[m][g] \in visited'
  <2>1. CASE m \notin visited
    BY <1>5, <1>9, <2>1
  <2>2. CASE m \in visited /\ m = H /\ g = f
    BY <1>3, <1>4, <1>5, <2>2 DEF Reported
  <2>3. CASE m \in visited /\ ~(m = H /\ g = f)
    BY <1>4, <1>5, <1>6, <1>9, <2>3 DEF TodoInv, Reported
  <2> QED BY <2>1, <2>2, <2>3
<1>10. \A m : Keys(m)' = Keys(m)
  BY <1>1 DEF Keys
<1> QED
  BY <1>1, <1>7, <1>8, <1>9, <1>10 DEF TodoInv

LEMMA VisitTypes ==
  ASSUME ScanInv, NEW f \in Fields, Visit(f)
  PROVE  ScanTypeOK'
<1>1. /\ stack # <<>> /\ Here = stack[1] /\ doc' = doc /\ scanning' = scanning
      /\ Here \in Frame
  BY Visiting, TopFrame DEF ScanInv, Visit
<1>2. ScanTypeOK /\ Below(f) \in Seq(Fields)
  BY <1>1, BelowIsPath DEF ScanInv
<1>3. visited' \subseteq Maps
  BY <1>2, OwedAfter DEF ScanTypeOK
<1>4. stack' \in Seq(Frame)
  BY Staying, Descending DEF Visit
<1>5. [map |-> Here.map, path |-> Below(f)] \in Report
  BY <1>1, <1>2 DEF Frame, Report
<1>6. found' \subseteq Report
  BY <1>2, <1>5 DEF Visit, ReportField, ScanTypeOK
<1> QED BY <1>1, <1>2, <1>3, <1>4, <1>6 DEF ScanTypeOK
-----------------------------------------------------------------------------
(***************************************************************************)
(* The other actions.                                                      *)
(***************************************************************************)
LEMMA InitInv == ScanInit => ScanInv
<1> SUFFICES ASSUME ScanInit PROVE ScanInv
  OBVIOUS
<1>1. stack = <<>> /\ Len(stack) = 0 /\ visited = {} /\ found = {} /\ ~scanning
  BY DEF ScanInit
<1>2. ScanTypeOK
  BY EmptySeq DEF ScanInit, ScanTypeOK
<1>3. FramesInv
  BY <1>1, <1>2, VisitedFinite, FS_EmptySet DEF FramesInv
<1>4. PathsInv /\ ReportsAreReal /\ TodoInv
  BY <1>1 DEF PathsInv, ReportsAreReal, TodoInv
<1> QED BY <1>2, <1>3, <1>4 DEF ScanInv

LEMMA CallInv == ScanInv /\ ScanCall => ScanInv'
<1> SUFFICES ASSUME ScanInv, ScanCall PROVE ScanInv'
  OBVIOUS
<1> DEFINE top == [map |-> Root, path |-> <<>>, todo |-> Keys(Root)']
<1>1. /\ visited' = {Root} /\ stack' = <<top>> /\ found' = {} /\ scanning'
      /\ doc' \in [Maps -> [Fields -> Maps \cup {Absent, Leaf}]]
  BY ScanAssumption DEF ScanCall
<1>2. Root \in Maps
  BY ScanAssumption
<1>3. top.map = Root /\ top.path = <<>> /\ top.todo = Keys(Root)'
  OBVIOUS
<1>4. top \in Frame
  BY <1>2, EmptySeq DEF Frame, Keys
<1> HIDE DEF top
<1>5. stack' \in Seq(Frame) /\ Len(stack') = 1 /\ stack'[1] = top /\ stack' # <<>>
  BY <1>1, <1>4, OneElement, EmptySeq
<1>6. ScanTypeOK'
  BY <1>1, <1>2, <1>5 DEF ScanTypeOK, ScanCall
<1>7. FramesInv'
  <2>1. Cardinality({Root}) = 1
    BY FS_Singleton
  <2>2. \A i \in 1 .. Len(stack') : i = 1
    BY <1>5
  <2>3. Keys(stack[1].map)' = Keys(Root)'
    BY <1>3, <1>5 DEF Keys
  <2> QED BY <1>1, <1>3, <1>5, <2>1, <2>2, <2>3 DEF FramesInv
<1>8. PathsInv'
  <2>1. Len(<<>>) = 0
    OBVIOUS
  <2>2. PICK via \in [1 .. Len(<<>>) + 1 -> Maps] : via = [i \in 1 .. Len(<<>>) + 1 |-> Root]
    BY <1>2
  <2>3. via[1] = Root /\ via[Len(<<>>) + 1] = Root /\ \A i \in 1 .. Len(<<>>) : FALSE
    BY <2>1, <2>2
  <2>4. Way(<<>>, Root)'
    BY <2>3 DEF Way
  <2>5. \A i \in 1 .. Len(stack') : i = 1
    BY <1>5
  <2> QED BY <1>3, <1>5, <2>4, <2>5 DEF PathsInv
<1>9. ReportsAreReal'
  BY <1>1 DEF ReportsAreReal
<1>10. TodoInv'
  <2>1. \A g \in Keys(Root)' : Owed(Root, g)'
    <3>1. 1 \in 1 .. Len(stack')
      BY <1>5
    <3> QED BY <1>3, <1>5, <3>1 DEF Owed
  <2> QED BY <1>1, <2>1 DEF TodoInv
<1> QED BY <1>6, <1>7, <1>8, <1>9, <1>10 DEF ScanInv

(***************************************************************************)
(* A frame that returns owes nothing, and the frames below keep theirs.    *)
(***************************************************************************)
LEMMA OwedAfterReturn ==
  ASSUME ScanInv, ReturnFromMap
  PROVE  \A m, g : Owed(m, g)' <=> Owed(m, g)
<1>1. stack # <<>> /\ Here.todo = {} /\ stack' = Tail(stack)
  BY DEF ScanInv, FramesInv, ReturnFromMap
<1>2. stack \in Seq(Frame) /\ Here = stack[1] /\ Len(stack) \in Nat \ {0}
  BY <1>1, TopFrame DEF ScanInv, ScanTypeOK
<1>3. /\ Len(stack') = Len(stack) - 1
      /\ \A i \in 1 .. Len(stack') : stack'[i] = stack[i + 1] /\ i + 1 \in 1 .. Len(stack)
  BY <1>1, <1>2, HeadTailProperties
<1> TAKE m, g
<1>4. ASSUME NEW i \in 1 .. Len(stack), stack[i].map = m, g \in stack[i].todo
      PROVE  Owed(m, g)'
  <2>1. i # 1
    BY <1>1, <1>2, <1>4
  <2>2. i - 1 \in 1 .. Len(stack') /\ (i - 1) + 1 = i
    BY <1>2, <1>3, <2>1
  <2>3. stack'[i - 1] = stack[i]
    BY <1>3, <2>2
  <2> QED BY <1>4, <2>2, <2>3 DEF Owed
<1>5. ASSUME NEW i \in 1 .. Len(stack'), stack'[i].map = m, g \in stack'[i].todo
      PROVE  Owed(m, g)
  BY <1>3, <1>5 DEF Owed
<1> QED BY <1>4, <1>5 DEF Owed

LEMMA ReturnInv == ScanInv /\ ReturnFromMap => ScanInv'
<1> SUFFICES ASSUME ScanInv, ReturnFromMap PROVE ScanInv'
  OBVIOUS
<1>1. /\ stack # <<>> /\ scanning /\ Here.todo = {}
      /\ stack' = Tail(stack) /\ scanning' = (stack' # <<>>)
      /\ doc' = doc /\ visited' = visited /\ found' = found
  BY DEF ScanInv, FramesInv, ReturnFromMap
<1>2. /\ ScanTypeOK /\ stack \in Seq(Frame) /\ Here = stack[1]
      /\ Len(stack) \in Nat \ {0}
  BY <1>1, TopFrame DEF ScanInv, ScanTypeOK
<1>3. /\ stack' \in Seq(Frame) /\ Len(stack') = Len(stack) - 1
      /\ \A i \in 1 .. Len(stack') : stack'[i] = stack[i + 1] /\ i + 1 \in 1 .. Len(stack)
  BY <1>1, <1>2, HeadTailProperties
<1>4. \A m : Keys(m)' = Keys(m)
  BY <1>1 DEF Keys
<1>5. ScanTypeOK'
  BY <1>1, <1>2, <1>3 DEF ScanTypeOK
<1>6. FramesInv'
  <2>1. FramesInv /\ Cardinality(visited) \in Nat
    BY <1>2, VisitedFinite DEF ScanInv
  <2>2. \A i \in 1 .. Len(stack') :
          stack'[i].map \in visited' /\ stack'[i].todo \subseteq Keys(stack[i].map)'
    <3>1. \A i \in 1 .. Len(stack') : Keys(stack[i].map)' = Keys(stack[i + 1].map)
      BY <1>1, <1>3 DEF Keys
    <3> QED BY <1>1, <1>3, <2>1, <3>1 DEF FramesInv
  <2>3. \A i, j \in 1 .. Len(stack') : stack'[i].map = stack'[j].map => i = j
    BY <1>2, <1>3, <2>1 DEF FramesInv
  <2>4. Len(stack') <= Cardinality(visited')
    BY <1>1, <1>2, <1>3, <2>1 DEF FramesInv
  <2>5. visited # {}
    BY <1>1, <2>1 DEF FramesInv
  <2> QED BY <1>1, <2>1, <2>2, <2>3, <2>4, <2>5 DEF FramesInv
<1>7. PathsInv' /\ ReportsAreReal'
  <2>1. \A p, m : Way(p, m)' = Way(p, m) /\ LeadsTo(p, m)' = LeadsTo(p, m)
    BY <1>1 DEF Way, LeadsTo
  <2>2. \A i \in 1 .. Len(stack') : Way(stack'[i].path, stack'[i].map)
    BY <1>3 DEF ScanInv, PathsInv
  <2>3. PathsInv'
    BY <2>1, <2>2 DEF PathsInv
  <2>4. \A r \in found : r.path # <<>> /\ LeadsTo(r.path, r.map)
          /\ r.path[Len(r.path)] \in Sensitive \cap Keys(r.map)
    BY DEF ScanInv, ReportsAreReal
  <2> QED BY <1>1, <1>4, <2>1, <2>3, <2>4 DEF ReportsAreReal
<1>8. TodoInv'
  <2>1. \A m, g : Owed(m, g)' <=> Owed(m, g)
    BY OwedAfterReturn
  <2>2. TodoInv
    BY DEF ScanInv
  <2>3. \A r \in found' : r.map \in visited' /\ ~Owed(r.map, Last(r.path))'
    BY <1>1, <2>1, <2>2 DEF TodoInv
  <2>4. \A m \in visited' : \A f \in Keys(m)' :
          \/ Owed(m, f)'
          \/ /\ f \in Sensitive => Reported(m, f)'
             /\ doc'[m][f] \in Maps => doc'[m][f] \in visited'
    BY <1>1, <1>4, <2>1, <2>2 DEF TodoInv, Reported
  <2> QED BY <1>1, <2>2, <2>3, <2>4 DEF TodoInv
<1> QED BY <1>5, <1>6, <1>7, <1>8 DEF ScanInv

LEMMA WarnInv == ScanInv /\ WarnIfPotentialPII => ScanInv'
<1> SUFFICES ASSUME ScanInv, WarnIfPotentialPII PROVE ScanInv'
  OBVIOUS
<1>1. /\ ~scanning /\ scanning' = scanning /\ stack' = stack /\ stack = <<>>
      /\ visited' = {} /\ found' = {} /\ Len(stack) = 0
      /\ doc' = [m \in Maps |-> [f \in Fields |-> Absent]]
  BY DEF ScanInv, FramesInv, WarnIfPotentialPII
<1>2. ScanTypeOK'
  BY <1>1 DEF ScanInv, ScanTypeOK
<1>3. FramesInv'
  BY <1>1, FS_EmptySet DEF FramesInv
<1>4. PathsInv' /\ ReportsAreReal' /\ TodoInv'
  BY <1>1 DEF PathsInv, ReportsAreReal, TodoInv
<1> QED BY <1>2, <1>3, <1>4 DEF ScanInv

LEMMA StutterInv == ScanInv /\ UNCHANGED scanVars => ScanInv'
<1> SUFFICES ASSUME ScanInv, UNCHANGED scanVars PROVE ScanInv'
  OBVIOUS
<1>1. /\ doc' = doc /\ visited' = visited /\ stack' = stack
      /\ found' = found /\ scanning' = scanning
  BY DEF scanVars
<1>2. \A m : Keys(m)' = Keys(m)
  BY <1>1 DEF Keys
<1>3. ScanTypeOK'
  BY <1>1 DEF ScanInv, ScanTypeOK
<1>4. FramesInv'
  BY <1>1, <1>2 DEF ScanInv, FramesInv, Keys
<1>5. PathsInv' /\ ReportsAreReal'
  BY <1>1, <1>2 DEF ScanInv, PathsInv, ReportsAreReal, Way, LeadsTo, Keys
<1>6. TodoInv'
  BY <1>1, <1>2 DEF ScanInv, TodoInv, Owed, Reported, Keys
<1> QED BY <1>3, <1>4, <1>5, <1>6 DEF ScanInv

LEMMA ScanInvariant == ScanSpec => []ScanInv
<1>1. ScanInv /\ [ScanNext]_scanVars => ScanInv'
  <2>1. ASSUME ScanInv, NEW f \in Fields, Visit(f)
        PROVE  ScanInv'
    BY <2>1, VisitTypes, VisitFrames, VisitPaths, VisitTodo DEF ScanInv
  <2> QED BY <2>1, CallInv, ReturnInv, WarnInv, StutterInv DEF ScanNext, ScanStep
<1> QED BY InitInv, <1>1, PTL DEF ScanSpec
-----------------------------------------------------------------------------
(***************************************************************************)
(* The variables keep their types.                                         *)
(***************************************************************************)
THEOREM ScanTypeCorrect == ScanSpec => []ScanTypeOK
BY ScanInvariant, PTL DEF ScanInv

(***************************************************************************)
(* Every path that DetectPotentialPII returns leads, from the data that    *)
(* was passed in, to a field that is there and has a sensitive name.       *)
(***************************************************************************)
THEOREM EveryReportIsReal == ScanSpec => []ReportsAreReal
BY ScanInvariant, PTL DEF ScanInv

(***************************************************************************)
(* At the end of a scan the maps visited are closed under the references,  *)
(* so that they hold all that can be reached; and nothing is owed: every   *)
(* sensitive field of theirs has been reported, under one path.            *)
(***************************************************************************)
THEOREM EveryFieldIsReportedOnce == ScanSpec => []EachReportedOnce
<1>1. ScanInv => EachReportedOnce
  <2> SUFFICES ASSUME ScanInv PROVE EachReportedOnce
    OBVIOUS
  <2>1. \A r, s \in found :
          r.map = s.map /\ r.path[Len(r.path)] = s.path[Len(s.path)] => r = s
    BY DEF ScanInv, TodoInv, Last
  <2>2. ASSUME Finished
        PROVE  \A m \in Reachable : \A f \in Keys(m) \cap Sensitive :
                 \E r \in found : r.map = m /\ r.path[Len(r.path)] = f
    <3>1. stack = <<>> /\ Len(stack) = 0 /\ Root \in visited /\ visited \subseteq Maps
      BY <2>2 DEF Finished, ScanInv, FramesInv, ScanTypeOK
    <3>2. \A m, f : ~Owed(m, f)
      BY <3>1 DEF Owed
    <3>3. \A m \in visited : \A f \in Keys(m) :
            /\ f \in Sensitive => Reported(m, f)
            /\ doc[m][f] \in Maps => doc[m][f] \in visited
      BY <3>2 DEF ScanInv, TodoInv
    <3>4. \A m \in Maps : \A f \in Keys(m) : doc[m][f] \in Maps \cup {Leaf}
      BY DEF ScanInv, ScanTypeOK, Keys
    <3>5. Closed(visited)
      BY <3>1, <3>3, <3>4 DEF Closed, Children
    <3>6. Reachable \subseteq visited
      BY <3>1, <3>5 DEF Reachable
    <3> QED BY <3>3, <3>6 DEF Reported, Last
  <2> QED BY <2>1, <2>2 DEF EachReportedOnce
<1> QED BY ScanInvariant, <1>1, PTL

(***************************************************************************)
(* The recursion is never deeper than there are maps, on cyclic data too.  *)
(***************************************************************************)
THEOREM RecursionIsBounded == ScanSpec => []DepthIsBounded
<1>1. ScanInv => DepthIsBounded
  <2> SUFFICES ASSUME ScanInv PROVE DepthIsBounded
    OBVIOUS
  <2>1. /\ Cardinality(visited) <= Cardinality(Maps)
        /\ Cardinality(visited) \in Nat /\ Cardinality(Maps) \in Nat
    BY ScanAssumption, FS_Subset, FS_CardinalityType DEF ScanInv, ScanTypeOK
  <2>2. Len(stack) <= Cardinality(visited) /\ Len(stack) \in Nat
    BY LenProperties DEF ScanInv, FramesInv, ScanTypeOK
  <2> QED BY <2>1, <2>2 DEF DepthIsBounded
<1> QED BY ScanInvariant, <1>1, PTL

(***************************************************************************)
(* Every step of DetectPotentialPII brings the end of the scan nearer.     *)
(* Entering a map turns fields of a map not entered into fields owed by    *)
(* its frame, and the field that refers to it is visited for good.         *)
(***************************************************************************)
LEMMA PendingFinite == IsFiniteSet(Pending) /\ Cardinality(Pending) \in Nat
<1>1. Pending \subseteq Maps \X Fields
  BY DEF Pending
<1>2. IsFiniteSet(Maps \X Fields)
  BY ScanAssumption, FS_Product
<1> QED BY <1>1, <1>2, FS_Subset, FS_CardinalityType

LEMMA VisitProgress ==
  ASSUME ScanInv, NEW f \in Fields, Visit(f)
  PROVE  WorkLeft' < WorkLeft
<1> DEFINE H == Here.map
<1>1. /\ Len(stack) \in Nat \ {0} /\ stack # <<>> /\ Here = stack[1]
      /\ f \in Here.todo /\ f \in Keys(H) /\ H \in visited /\ doc' = doc
  BY Visiting
<1>2. /\ visited' = visited \cup ({doc[H][f]} \cap Maps)
      /\ \A m, g : Owed(m, g)' <=>
           \/ m \in visited' \ visited /\ g \in Keys(m)
           \/ Owed(m, g) /\ ~(m = H /\ g = f)
  BY OwedAfter
<1>3. H \in Maps /\ Owed(H, f)
  BY <1>1 DEF Owed, ScanInv, ScanTypeOK
<1>4. \A m : Keys(m)' = Keys(m)
  BY <1>1 DEF Keys
<1>5. <<H, f>> \in Pending
  BY <1>1, <1>3 DEF Pending
<1>6. Pending' = Pending \ {<<H, f>>}
  <2> HIDE DEF H
  <2>1. ASSUME NEW m \in Maps, NEW g \in Fields, g \in Keys(m)
        PROVE  (m \notin visited' \/ Owed(m, g)')
                 <=> (m \notin visited \/ Owed(m, g)) /\ ~(m = H /\ g = f)
    BY <1>1, <1>2, <2>1
  <2>2. ASSUME NEW m \in Maps, NEW g \in Fields
        PROVE  <<m, g>> \in Pending' <=> <<m, g>> \in Pending \ {<<H, f>>}
    BY <1>4, <2>1 DEF Pending
  <2>3. Pending \subseteq Maps \X Fields /\ Pending' \subseteq Maps \X Fields
    BY DEF Pending
  <2> QED BY <2>2, <2>3
<1>7. Cardinality(Pending') = Cardinality(Pending) - 1
  BY <1>5, <1>6, PendingFinite, FS_RemoveElement
<1>8. Len(stack') \in {Len(stack), Len(stack) + 1}
  BY Staying, Descending DEF Visit
<1> QED BY <1>1, <1>7, <1>8, PendingFinite DEF WorkLeft

LEMMA ReturnProgress ==
  ASSUME ScanInv, ReturnFromMap
  PROVE  WorkLeft' < WorkLeft
<1>1. /\ stack # <<>> /\ stack \in Seq(Frame) /\ stack' = Tail(stack)
      /\ doc' = doc /\ visited' = visited
  BY DEF ScanInv, ScanTypeOK, FramesInv, ReturnFromMap
<1>2. Len(stack) \in Nat /\ Len(stack') = Len(stack) - 1
  BY <1>1, HeadTailProperties, LenProperties
<1>3. Pending' = Pending
  BY <1>1, OwedAfterReturn DEF Pending, Keys
<1> QED BY <1>2, <1>3, PendingFinite DEF WorkLeft

(***************************************************************************)
(* So a scan takes at most WorkLeft steps from where it is, for any maps,  *)
(* shared and cyclic, and any order of iteration: WorkLeft is a natural    *)
(* number that each step makes smaller.                                    *)
(***************************************************************************)
THEOREM EveryStepIsProgress == ScanSpec => [](WorkLeft \in Nat) /\ ScanProgress
<1>1. ScanInv => WorkLeft \in Nat
  <2> SUFFICES ASSUME ScanInv PROVE WorkLeft \in Nat
    OBVIOUS
  <2>1. Len(stack) \in Nat
    BY LenProperties DEF ScanInv, ScanTypeOK
  <2> QED BY <2>1, PendingFinite DEF WorkLeft
<1>2. ScanInv /\ [ScanNext]_scanVars => [ScanStep => WorkLeft' < WorkLeft]_scanVars
  BY VisitProgress, ReturnProgress DEF ScanStep
<1> QED BY ScanInvariant, <1>1, <1>2, PTL DEF ScanSpec, ScanProgress
=============================================================================
