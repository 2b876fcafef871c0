---------------------------- MODULE MCSimulator ----------------------------
(* Small instances of Simulator: a calendar of two years of two months,    *)
(* with days of two hours.                                                 *)
EXTENDS Simulator, TLC

CONSTANTS x1, x2  \* relays that are exits

Calendar == <<<<2, 3>>, <<3, 2>>>>

At(y, m, d, h) == Time(DaysBefore(y, m, d), h, 0, 0)

Load(e, g, d, m) == [E |-> e, G |-> g, D |-> d, M |-> m]

DocumentAt(t, exits) ==
  [loads |-> "ok", valid_after |-> t, load |-> Load(1, 1, 1, 1), exits |-> exits]

FileAt(y, m, d, h, exits) ==
  [year |-> y, month |-> m, time |-> At(y, m, d, h), doc |-> DocumentAt(At(y, m, d, h), exits)]

(* An edge; what it does not name is None.                                 *)
EdgeOf(y, m, d, h, min) == [year |-> y, month |-> m, day |-> d, hour |-> h, minute |-> min]

Edges ==
  {EdgeOf(1, 1, None, None, None), EdgeOf(1, 2, None, None, None),
   EdgeOf(2, 1, None, None, None), EdgeOf(1, 2, 3, None, None), EdgeOf(2, 1, 1, None, None),
   EdgeOf(1, 1, 2, 1, None), EdgeOf(2, 1, 1, 0, 1), EdgeOf(2, 1, 3, 1, 0),
   EdgeOf(1, 3, None, None, None), EdgeOf(2, 1, 4, None, None), EdgeOf(1, 2, 1, 2, None)}

Options(number) ==
  [from : Edges, to : Edges, guards : {number}, guardsBw : {1}, exits : {number}, exitsBw : {1}]

(* The exits x1 and x2 come and go.  The consensuses lie at the ends of    *)
(* months and years, and within a day.                                     *)
First == FileAt(1, 1, 2, 1, {x1})
Second == FileAt(1, 2, 3, 0, {x1, x2})
Third == FileAt(2, 1, 1, 0, {x2})
Fourth == FileAt(2, 1, 3, 1, {x1})

Faulty(file) ==
  {[file EXCEPT !.doc.loads = "error"], [file EXCEPT !.doc.loads = "panic"],
   [file EXCEPT !.doc.valid_after = None]}

Some == {First, Second, Third, Fourth}

ArchiveSet ==
  {Some, {}, {First, Third}} \cup {{First, Second, f} : f \in Faulty(Third)}

WholeYear == EdgeOf(1, 1, None, None, None)

(* Every load up to MaxLoad, in one consensus.                             *)
Study(MaxLoad) ==
  {{[Second EXCEPT !.doc.load = Load(e, g, d, m)]} : e, g, d, m \in 0 .. MaxLoad}

Smallest ==
  [cli : Options(0) \cup Options(1) \cup {o \in Options(3) : o.from = WholeYear},
   archive : ArchiveSet]

Studied ==
  [cli : {o \in Options(1) : o.from = WholeYear /\ o.to = EdgeOf(1, 2, None, None, None)},
   archive : Study(7)]

AllInputs == Smallest \cup Studied
=============================================================================
