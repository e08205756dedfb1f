------------------------------ MODULE Timetable ------------------------------
(***************************************************************************)
(* A scheduling problem as both engines receive it, the independent        *)
(* validator and the common scorer (scheduler/domain).                     *)
(*                                                                         *)
(* A problem p is a record:                                                *)
(*   atoms   the schedulable time atoms, each <<day, order>>               *)
(*   event   event id -> [sections, instructors, duration, caps, lab,      *)
(*                        reqs, group, cands]                              *)
(*   room    room -> [lab, free, caps, grants]   (frozen room evidence)    *)
(*   free    instructor -> atoms                 (frozen availability)     *)
(*   lock    a partial function, event id -> the candidate it must use     *)
(*   weight  [preference, section, instructor, load]                       *)
(* Event ids are integers, in the order in which the code sorts them.      *)
(* A candidate is [room, start, atoms, penalty]; its day is start[1].  An  *)
(* assignment vector is a set A of pairs <<event id, candidate>>.          *)
(***************************************************************************)
EXTENDS Integers, FiniteSets, FiniteSetsExt

\* The null group, college or department.
None == "none"
NoGroup == <<>>

Events(p) == DOMAIN p.event
Day(c) == c.start[1]
Days(p) == { a[1] : a \in p.atoms }
Choice(p) == UNION { { <<e, c>> : c \in p.event[e].cands } : e \in Events(p) }

\* What an event occupies when it sits on candidate c.
Held(p, kind, e) ==
  IF kind = "section" THEN p.event[e].sections ELSE p.event[e].instructors
Resources(p, e, c) ==
  {<<"room", c.room>>}
    \cup { <<"instructor", i>> : i \in p.event[e].instructors }
    \cup { <<"section", x>> : x \in p.event[e].sections }

(***************************************************************************)
(* The contract every problem satisfies: ProblemInstance refuses others.   *)
(***************************************************************************)
SameDayRun(p, c) ==
  /\ c.atoms \subseteq p.atoms
  /\ \A a \in c.atoms : a[1] = Day(c)
  /\ c.atoms = { <<Day(c), c.start[2] + k>> : k \in 0..(Cardinality(c.atoms) - 1) }
Contract(p) ==
  /\ \A e \in Events(p) :
       /\ p.event[e].cands # {}
       /\ p.event[e].duration > 0
       /\ DOMAIN p.event[e].reqs \subseteq p.event[e].sections
       /\ \A c \in p.event[e].cands : SameDayRun(p, c) /\ c.penalty >= 0
  /\ DOMAIN p.lock \subseteq Events(p)
  /\ \A e \in DOMAIN p.lock : p.lock[e] \in p.event[e].cands

(***************************************************************************)
(* The validator.  A violation is <<rule, resource, events>>: two events   *)
(* that meet on a resource count once, however many atoms they share.      *)
(***************************************************************************)
Chosen(A, e) == { x \in A : x[1] = e }
Resolved(p, A) ==
  [ e \in { f \in Events(p) : \E c \in p.event[f].cands : Chosen(A, f) = {<<f, c>>} }
      |-> CHOOSE c \in p.event[e].cands : Chosen(A, e) = {<<e, c>>} ]

SelectionViolations(p, A) ==
  { <<"unknown_event", None, <<x[1]>>>> : x \in { y \in A : y[1] \notin Events(p) } }
    \cup { <<"missing", None, <<e>>>> : e \in { f \in Events(p) : Chosen(A, f) = {} } }
    \cup { <<"duplicate", None, <<e>>>> :
             e \in { f \in Events(p) : Cardinality(Chosen(A, f)) > 1 } }
    \cup { <<"invalid", None, <<e>>>> :
             e \in { f \in Events(p) : \E c \in { x[2] : x \in Chosen(A, f) } :
                       Chosen(A, f) = {<<f, c>>} /\ c \notin p.event[f].cands } }

LockViolations(p, s) ==
  { <<"lock", None, <<e>>>> :
      e \in { f \in DOMAIN p.lock : ~(f \in DOMAIN s /\ s[f] = p.lock[f]) } }

\* A MAJOR subject is governed by the unit that owns its curriculum, any
\* other by the unit that offers it.
GrantMatches(req, grant) ==
  /\ grant.class = req.class
  /\ LET major == req.class = "MAJOR"
     IN IF grant.dept # None
          THEN grant.dept = (IF major THEN req.ownDept ELSE req.offDept)
          ELSE grant.college = (IF major THEN req.ownCollege ELSE req.offCollege)

\* The reasons why candidate c is illegal for event e on its own.
RoomFaults(p, e, c) ==
  LET ev == p.event[e]
      rm == p.room[c.room]
  IN { <<"room_unavailable", c.room>> : a \in c.atoms \ rm.free }
       \cup { <<"capability", c.room>> : k \in ev.caps \ rm.caps }
       \cup { <<"laboratory", c.room>> : x \in {y \in {ev.lab} : y /\ ~rm.lab} }
       \cup { <<"authorization", x>> :
                x \in { y \in DOMAIN ev.reqs :
                          \A g \in rm.grants : ~GrantMatches(ev.reqs[y], g) } }
LocalFaults(p, e, c) ==
  LET ev == p.event[e]
  IN { <<"no_authorization_evidence", x>> : x \in ev.sections \ DOMAIN ev.reqs }
       \cup { <<"duration", c.room>> : n \in {Cardinality(c.atoms)} \ {ev.duration} }
       \cup (IF c.room \in DOMAIN p.room THEN RoomFaults(p, e, c)
                                         ELSE {<<"no_room_evidence", c.room>>})
       \cup { <<"no_instructor_evidence", i>> : i \in ev.instructors \ DOMAIN p.free }
       \cup { <<"instructor_unavailable", i>> :
                i \in { j \in ev.instructors \cap DOMAIN p.free : ~(c.atoms \subseteq p.free[j]) } }
LocalViolations(p, s) ==
  UNION { { <<f[1], f[2], <<e>>>> : f \in LocalFaults(p, e, s[e]) } : e \in DOMAIN s }

OrderedPairs(S) == { x \in S \X S : x[1] < x[2] }
Users(p, s, r, a) ==
  { e \in DOMAIN s : r \in Resources(p, e, s[e]) /\ a \in s[e].atoms }
ResourceConflicts(p, s) ==
  UNION { { <<"conflict", r, pair>> : pair \in OrderedPairs(Users(p, s, r, a)) } :
            r \in UNION { Resources(p, e, s[e]) : e \in DOMAIN s }, a \in p.atoms }

GroupMates(p, s, g, d) ==
  { e \in DOMAIN s : p.event[e].group = g /\ Day(s[e]) = d }
Groups(p) == { p.event[e].group : e \in Events(p) } \ {NoGroup}
DistinctDayConflicts(p, s) ==
  UNION { { <<"distinct_day", g, pair>> : pair \in OrderedPairs(GroupMates(p, s, g, d)) } :
            g \in Groups(p), d \in Days(p) }

Conflicts(p, s) == ResourceConflicts(p, s) \cup DistinctDayConflicts(p, s)

Violations(p, A) ==
  LET s == Resolved(p, A)
  IN SelectionViolations(p, A) \cup LockViolations(p, s)
       \cup LocalViolations(p, s) \cup Conflicts(p, s)
Feasible(p, A) == Violations(p, A) = {}

(***************************************************************************)
(* The scorer.  It also scores schedules with conflicts: two events on the *)
(* same atom occupy it once and load the day twice.                        *)
(***************************************************************************)
Abs(n) == IF n < 0 THEN -n ELSE n
Orders(p, d) == { a[2] : a \in { b \in p.atoms : b[1] = d } }
HeldBy(p, kind) == UNION { Held(p, kind, e) : e \in Events(p) }
\* The events of s that hold resource r on day d.
OnDay(p, s, kind, r, d) ==
  { e \in DOMAIN s : r \in Held(p, kind, e) /\ Day(s[e]) = d }
Occupied(p, s, kind, r, d) ==
  UNION { { a[2] : a \in s[e].atoms } : e \in OnDay(p, s, kind, r, d) }
InternalGaps(p, occ, d) ==
  IF Cardinality(occ) < 2 THEN {}
  ELSE { o \in Orders(p, d) \ occ : Min(occ) <= o /\ o <= Max(occ) }
GapAtoms(p, s, kind) ==
  SumFunction([x \in HeldBy(p, kind) \X Days(p) |->
                 Cardinality(InternalGaps(p, Occupied(p, s, kind, x[1], x[2]), x[2]))])
DayLoad(p, s, kind, r, d) ==
  SumFunction([e \in OnDay(p, s, kind, r, d) |-> Cardinality(s[e].atoms)])
LoadImbalance(p, s, kind) ==
  LET D == Days(p)
      Weekly(r) == SumFunction([d \in D |-> DayLoad(p, s, kind, r, d)])
  IN SumFunction([x \in HeldBy(p, kind) \X D |->
                    Abs(DayLoad(p, s, kind, x[1], x[2]) * Cardinality(D) - Weekly(x[1]))])

\* weighted_total of the ObjectiveBreakdown; A selects one candidate per event.
Score(p, A) ==
  LET s == Resolved(p, A)
  IN p.weight.preference * SumFunction([e \in DOMAIN s |-> s[e].penalty])
       + p.weight.section * GapAtoms(p, s, "section")
       + p.weight.instructor * GapAtoms(p, s, "instructor")
       + p.weight.load * (LoadImbalance(p, s, "section") + LoadImbalance(p, s, "instructor"))
==============================================================================
