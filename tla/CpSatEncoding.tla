---------------------------- MODULE CpSatEncoding ----------------------------
(***************************************************************************)
(* The Boolean model CpSatSolver.solve hands to CP-SAT.  There is one      *)
(* variable per <<event, candidate>>; an assignment of the variables is    *)
(* the set X of those that are 1.  The auxiliary variables are functions   *)
(* of X where the constraints determine them, and sets of admitted values  *)
(* where the objective is what settles them.                               *)
(***************************************************************************)
EXTENDS Timetable

ExactlyOne(p, X) ==
  \A e \in Events(p) : \E c \in p.event[e].cands : { x \in X : x[1] = e } = {<<e, c>>}
AtMostOne(X, bucket) == \A x, y \in X \cap bucket : x = y

ResourceBucket(p, r, a) ==
  { x \in Choice(p) : a \in x[2].atoms /\ r \in Resources(p, x[1], x[2]) }
ResourcesFree(p, X) ==
  \A r \in UNION { Resources(p, x[1], x[2]) : x \in Choice(p) }, a \in p.atoms :
    AtMostOne(X, ResourceBucket(p, r, a))

DistinctDayBucket(p, g, d) ==
  { x \in Choice(p) : p.event[x[1]].group = g /\ Day(x[2]) = d }
DaysDistinct(p, X) ==
  \A g \in Groups(p), d \in Days(p) : AtMostOne(X, DistinctDayBucket(p, g, d))

LocksSet(p, X) == \A e \in DOMAIN p.lock : <<e, p.lock[e]>> \in X

(***************************************************************************)
(* Internal gaps, one resource and one day at a time.                      *)
(***************************************************************************)
Covering(p, X, kind, r, d, o) ==
  { x \in X : r \in Held(p, kind, x[1]) /\ <<d, o>> \in x[2].atoms }
\* occupied == sum(choices): the sum has to fit a Boolean variable.
OccupancyFits(p, X, kind) ==
  \A r \in HeldBy(p, kind), a \in p.atoms :
    Cardinality(Covering(p, X, kind, r, a[1], a[2])) <= 1
Bit(b) == IF b THEN 1 ELSE 0
\* Mutated form: nothing forces a gap to be counted.
GapBits_Uncounted(before, after, occupied) ==
  { g \in 0..1 : g <= before /\ g <= after /\ g + occupied <= 1 }
GapBits(before, after, occupied) ==
  { g \in 0..1 : /\ g <= before
                 /\ g <= after
                 /\ g + occupied <= 1
                 /\ g >= before + after - occupied - 1 }
GapAt(p, X, kind, r, d, o) ==
  LET Occ(q) == Covering(p, X, kind, r, d, q) # {}
  IN GapBits(Bit(\E q \in Orders(p, d) : q < o /\ Occ(q)),
             Bit(\E q \in Orders(p, d) : q > o /\ Occ(q)),
             Bit(Occ(o)))
GapCells(p, kind) ==
  { <<r, a>> : r \in HeldBy(p, kind), a \in p.atoms }
\* Minimising takes the least admitted value of each gap variable.
GapExpression(p, X, kind) ==
  SumFunction([x \in GapCells(p, kind) |-> Min(GapAt(p, X, kind, x[1], x[2][1], x[2][2]))])

(***************************************************************************)
(* Load imbalance: the weekly load is a constant of the model.             *)
(***************************************************************************)
WeeklyLoad(p, kind, r) ==
  SumFunction([e \in { f \in Events(p) : r \in Held(p, kind, f) } |-> p.event[e].duration])
Deviation(p, X, kind, r, d) ==
  Abs(Cardinality(Days(p)) *
        SumFunction([x \in { y \in X : r \in Held(p, kind, y[1]) /\ Day(y[2]) = d } |->
                       p.event[x[1]].duration])
      - WeeklyLoad(p, kind, r))
DeviationsFit(p, X, kind) ==
  \A r \in HeldBy(p, kind), d \in Days(p) :
    Deviation(p, X, kind, r, d) <= WeeklyLoad(p, kind, r) * Cardinality(Days(p))
ImbalanceExpression(p, X, kind) ==
  SumFunction([x \in HeldBy(p, kind) \X Days(p) |-> Deviation(p, X, kind, x[1], x[2])])

(***************************************************************************)
(* The whole model.  A part of the objective with weight 0 is not built,   *)
(* and neither are its constraints.                                        *)
(***************************************************************************)
HardConstraints(p, X) ==
  /\ ExactlyOne(p, X)
  /\ ResourcesFree(p, X)
  /\ DaysDistinct(p, X)
  /\ LocksSet(p, X)
Satisfies(p, X) ==
  /\ HardConstraints(p, X)
  /\ p.weight.section # 0 => OccupancyFits(p, X, "section")
  /\ p.weight.instructor # 0 => OccupancyFits(p, X, "instructor")
  /\ p.weight.load # 0 =>
       DeviationsFit(p, X, "section") /\ DeviationsFit(p, X, "instructor")
Objective(p, X) ==
  p.weight.preference * SumFunction([x \in X |-> x[2].penalty])
    + (IF p.weight.section = 0 THEN 0
       ELSE p.weight.section * GapExpression(p, X, "section"))
    + (IF p.weight.instructor = 0 THEN 0
       ELSE p.weight.instructor * GapExpression(p, X, "instructor"))
    + (IF p.weight.load = 0 THEN 0
       ELSE p.weight.load * (ImbalanceExpression(p, X, "section")
                               + ImbalanceExpression(p, X, "instructor")))
==============================================================================
