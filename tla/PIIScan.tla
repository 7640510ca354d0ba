------------------------------ MODULE PIIScan -------------------------------
(***************************************************************************)
(* DetectPotentialPII of security/security.go: the recursive walk over     *)
(* nested maps with a visited set, called by WarnIfPotentialPII.           *)
(*                                                                         *)
(* A document is a heap of maps.  A field of a map is absent, holds a leaf *)
(* (anything that is not a map[string]any, a list of maps too) or refers   *)
(* to a map; maps may be shared and cyclic.  Go iterates over a map in any *)
(* order.  The frames of the recursion are a stack.                        *)
(***************************************************************************)
EXTENDS Naturals, Sequences, FiniteSets

CONSTANTS
  Maps,       \* the maps of the heap
  Root,       \* the map that is passed in
  Fields,     \* field names
  Sensitive,  \* the names IsPotentialPIIField matches
  Documents,  \* the contents of the heap an instance looks at
  Absent,     \* no such field
  Leaf        \* a value that is not a map

ASSUME ScanAssumption ==
  /\ IsFiniteSet(Maps)
  /\ IsFiniteSet(Fields)
  /\ Root \in Maps
  /\ Absent \notin Maps /\ Leaf \notin Maps /\ Absent # Leaf
  /\ Documents \subseteq [Maps -> [Fields -> Maps \cup {Absent, Leaf}]]

VARIABLES
  doc,      \* the heap
  visited,  \* the maps entered so far
  stack,    \* the frames: a map, its path and the keys range still owes
  found,    \* the paths reported, each with the map its last field is in
  scanning  \* is the scan running?

scanVars == <<doc, visited, stack, found, scanning>>

Frame  == [map : Maps, path : Seq(Fields), todo : SUBSET Fields]
Report == [map : Maps, path : Seq(Fields)]

ScanTypeOK ==
  /\ doc \in [Maps -> [Fields -> Maps \cup {Absent, Leaf}]]
  /\ visited \subseteq Maps
  /\ stack \in Seq(Frame)
  /\ found \subseteq Report
  /\ scanning \in BOOLEAN

Keys(m)  == {f \in Fields : doc[m][f] # Absent}
Children(m) == {doc[m][f] : f \in Keys(m)} \ {Leaf}

IsPotentialPIIField(f) == f \in Sensitive

NewFrame(m, path) == [map |-> m, path |-> path, todo |-> Keys(m)]

ScanInit ==
  /\ doc = [m \in Maps |-> [f \in Fields |-> Absent]]
  /\ visited = {}
  /\ stack = <<>>
  /\ found = {}
  /\ scanning = FALSE
-----------------------------------------------------------------------------
(***************************************************************************)
(* Somebody sends data; with a nil logger nothing is scanned.              *)
(***************************************************************************)
ScanCall ==
  /\ visited = {}
  /\ doc' \in Documents
  /\ visited' = {Root}
  /\ stack' = <<[map |-> Root, path |-> <<>>, todo |-> Keys(Root)']>>
  /\ found' = {}
  /\ scanning' = TRUE

Here     == Head(stack)
Below(f) == Append(Here.path, f)
Rest(f)  == <<[Here EXCEPT !.todo = @ \ {f}]>> \o Tail(stack)

\* Mutant: only the leaves are looked at, not the names of nested maps.
ReportLeaf(f) ==
  found' = IF IsPotentialPIIField(f) /\ doc[Here.map][f] = Leaf
             THEN found \cup {[map |-> Here.map, path |-> Below(f)]}
             ELSE found

\* Mutant: the path is the bare key, without the prefix.
ReportUnprefixed(f) ==
  found' = IF IsPotentialPIIField(f)
             THEN found \cup {[map |-> Here.map, path |-> <<f>>]}
             ELSE found

ReportField(f) ==
  found' = IF IsPotentialPIIField(f)
             THEN found \cup {[map |-> Here.map, path |-> Below(f)]}
             ELSE found

\* Mutant: an entered map is not marked (the depth is capped for TLC).
DescendUnmarked(f) ==
  /\ doc[Here.map][f] \in Maps \ visited
  /\ Len(stack) <= 2 * Cardinality(Maps)
  /\ stack' = <<NewFrame(doc[Here.map][f], Below(f))>> \o Rest(f)
  /\ UNCHANGED visited

(***************************************************************************)
(* The recursive call: a map that is visited already returns at once.      *)
(***************************************************************************)
Descend(f) ==
  /\ doc[Here.map][f] \in Maps \ visited
  /\ visited' = visited \cup {doc[Here.map][f]}
  /\ stack' = <<NewFrame(doc[Here.map][f], Below(f))>> \o Rest(f)

StayInMap(f) ==
  /\ doc[Here.map][f] \notin Maps \ visited
  /\ stack' = Rest(f)
  /\ UNCHANGED visited

Visit(f) ==
  /\ scanning
  /\ f \in Here.todo
  /\ ReportField(f)
  /\ Descend(f) \/ StayInMap(f)
  /\ UNCHANGED <<doc, scanning>>

ReturnFromMap ==
  /\ scanning
  /\ Here.todo = {}
  /\ stack' = Tail(stack)
  /\ scanning' = (Tail(stack) # <<>>)
  /\ UNCHANGED <<doc, visited, found>>

(***************************************************************************)
(* The caller has logged its warning, if anything was found.               *)
(***************************************************************************)
WarnIfPotentialPII ==
  /\ ~scanning
  /\ doc' = [m \in Maps |-> [f \in Fields |-> Absent]]
  /\ visited' = {}
  /\ found' = {}
  /\ UNCHANGED <<stack, scanning>>

ScanStep == ReturnFromMap \/ \E f \in Fields : Visit(f)

ScanNext == ScanCall \/ ScanStep \/ WarnIfPotentialPII

ScanSpec == ScanInit /\ [][ScanNext]_scanVars

(***************************************************************************)
(* The walk is a loop of one goroutine: it takes its next step.            *)
(***************************************************************************)
ScanFairness == WF_scanVars(ScanStep)
-----------------------------------------------------------------------------
(***************************************************************************)
(* "It returns a slice of dot-separated field paths": every path reported  *)
(* leads from the data that was passed in to a field that is there and has *)
(* a sensitive name.                                                       *)
(***************************************************************************)
LeadsTo(path, m) ==
  \E via \in [1 .. Len(path) -> Maps] :
    /\ via[1] = Root
    /\ \A i \in 1 .. Len(path) - 1 : doc[via[i]][path[i]] = via[i + 1]
    /\ via[Len(path)] = m

ReportsAreReal ==
  \A r \in found :
    /\ r.path # <<>>
    /\ LeadsTo(r.path, r.map)
    /\ r.path[Len(r.path)] \in Sensitive \cap Keys(r.map)

(***************************************************************************)
(* A finished scan has reported every sensitive field of every map that    *)
(* can be reached, however it is nested, shared or cyclic, and under one   *)
(* path only: which one, for a shared map, depends on the order of Go's    *)
(* iteration.                                                              *)
(***************************************************************************)
Closed(S)   == Root \in S /\ \A m \in S : Children(m) \subseteq S
Reachable   == {m \in Maps : \A S \in SUBSET Maps : Closed(S) => m \in S}
Finished    == ~scanning /\ visited # {}

EachReportedOnce ==
  /\ Finished =>
       \A m \in Reachable : \A f \in Keys(m) \cap Sensitive :
         \E r \in found : r.map = m /\ r.path[Len(r.path)] = f
  /\ \A r, s \in found :
       r.map = s.map /\ r.path[Len(r.path)] = s.path[Len(s.path)] => r = s

(***************************************************************************)
(* The visited set "guards against infinite recursion": the recursion is   *)
(* never deeper than there are maps.                                       *)
(***************************************************************************)
DepthIsBounded == Len(stack) <= Cardinality(Maps)

(***************************************************************************)
(* The work that is left: the fields still to be visited (of a map not     *)
(* entered, or owed by a frame), each at the price of at most one more     *)
(* frame, and the frames to return from.                                   *)
(***************************************************************************)
Owed(m, f) == \E i \in 1 .. Len(stack) : stack[i].map = m /\ f \in stack[i].todo

Pending ==
  {p \in Maps \X Fields :
     p[2] \in Keys(p[1]) /\ (p[1] \notin visited \/ Owed(p[1], p[2]))}

WorkLeft == 2 * Cardinality(Pending) + Len(stack)

(***************************************************************************)
(* Every step of detectPIIRecursive is progress towards its end, on cyclic *)
(* data too and in any order of iteration.                                 *)
(***************************************************************************)
ScanProgress == [][ScanStep => WorkLeft' < WorkLeft]_scanVars

(***************************************************************************)
(* Every scan ends, on cyclic data too.                                    *)
(***************************************************************************)
ScanEnds == scanning ~> ~scanning
=============================================================================
