------------------------ MODULE ScheduleSearchProofs ------------------------
(***************************************************************************)
(* For every revision the database can hold: the builder against the       *)
(* validator, what follows for CP-SAT, and the genetic search, from the    *)
(* conflicts that greedy construction counts to the answer (IInv).         *)
(***************************************************************************)
EXTENDS ScheduleSearch, CpSatEncodingProofs, FunctionTheorems, SequenceTheorems

\* A window of n atoms has n atoms.
LEMMA WindowSize ==
  ASSUME NEW a, a[2] \in Int, NEW n \in Nat \ {0}
  PROVE  Cardinality(Window(a, n)) = n
<1> DEFINE W == Window(a, n)
           f == [k \in 0..(n - 1) |-> <<a[1], a[2] + k>>]
<1>1. f \in Bijection(0..(n - 1), W)
  <2>1. f \in [0..(n - 1) -> W]
    BY DEF Window
  <2>2. ASSUME NEW k \in 0..(n - 1), NEW l \in 0..(n - 1), f[k] = f[l] PROVE k = l
    <3>1. <<a[1], a[2] + k>> = <<a[1], a[2] + l>>
      BY <2>2
    <3>2. a[2] + k = a[2] + l
      BY <3>1
    <3> QED BY <3>2
  <2>3. ASSUME NEW x \in W PROVE \E k \in 0..(n - 1) : f[k] = x
    BY DEF Window
  <2> HIDE DEF f, W
  <2> QED BY <2>1, <2>2, <2>3 DEF Bijection, Injection, IsInjective, Surjection
<1>2. IsFiniteSet(0..(n - 1)) /\ Cardinality(0..(n - 1)) = n
  BY FS_Interval
<1> HIDE DEF f, W
<1>3. ExistsBijection(0..(n - 1), W)
  BY <1>1 DEF ExistsBijection
<1>4. Cardinality(W) = n
  BY <1>2, <1>3, FS_Bijection
<1> QED BY <1>4 DEF W

\* A grant names one unit, so the builder's test with two alternatives and the
\* validator's test with a preference for the department agree.
LEMMA AuthorizationsAgree ==
  ASSUME NEW t, RowsOK(t), NEW r \in DOMAIN t.rooms, NEW id \in DOMAIN t.meeting,
         NEW x \in DOMAIN t.meeting[id].links
  PROVE  AuthorizationMatches(t.rooms[r].grants, t.meeting[id].links[x], t.meeting[id]) <=>
           \E g \in t.rooms[r].grants :
             GrantMatches(Requirement(t.meeting[id].links[x], t.meeting[id]), g)
<1> DEFINE m == t.meeting[id]
           link == m.links[x]
<1>1. /\ m.offCollege # None /\ m.offDept # None /\ link.college # None
  BY DEF RowsOK
<1>2. ASSUME NEW g \in t.rooms[r].grants
      PROVE  /\ g.college = None => g.dept # None
             /\ g.dept = None => g.college # None
             /\ g.dept # None => g.college = None
  BY DEF RowsOK
<1> HIDE DEF m, link
<1>3. ASSUME NEW g \in t.rooms[r].grants
      PROVE  GrantMatches(Requirement(link, m), g) <=>
               /\ g.class = link.class
               /\ \/ /\ g.dept # None
                     /\ g.dept = (IF link.class = "MAJOR" THEN link.dept ELSE m.offDept)
                  \/ /\ g.college # None
                     /\ g.college = (IF link.class = "MAJOR" THEN link.college ELSE m.offCollege)
  BY <1>2 DEF GrantMatches, Requirement
<1>4. AuthorizationMatches(t.rooms[r].grants, link, m) <=>
        \E g \in t.rooms[r].grants : GrantMatches(Requirement(link, m), g)
  BY <1>3 DEF AuthorizationMatches
<1> QED BY <1>4 DEF m, link

\* What RevisionIssues ensures for the builder's later steps.
Profiles(t) ==
  /\ Profiled(t.rooms) = DOMAIN t.rooms
  /\ Teaching(t) \subseteq Profiled(t.people)

LEMMA BuildableProfiles ==
  ASSUME NEW t, NEW w, Buildable(t, w)
  PROVE  Profiles(t)
<1>1. RevisionIssues(t) = {}
  BY DEF Buildable
<1>2. ASSUME ~(DOMAIN t.rooms = Profiled(t.rooms)) PROVE FALSE
  <2>1. "MISSING_ROOM_AVAILABILITY_PROFILE" \in RevisionIssues(t)
    BY <1>2 DEF RevisionIssues, When
  <2> QED BY <1>1, <2>1
<1>3. ASSUME ~(Teaching(t) \subseteq Profiled(t.people)) PROVE FALSE
  <2>1. "MISSING_INSTRUCTOR_AVAILABILITY_PROFILE" \in RevisionIssues(t)
    BY <1>3 DEF RevisionIssues, When
  <2> QED BY <1>1, <2>1
<1> QED BY <1>2, <1>3 DEF Profiles

\* The builder's filter for a placement, its lock apart.
Legal(t, m, r, start) ==
  /\ RoomServes(t, m, r)
  /\ Window(start, m.duration) \subseteq Available(t, t.rooms[r].free)
  /\ \A i \in m.instructors :
       /\ i \in Profiled(t.people)
       /\ Window(start, m.duration) \subseteq Available(t, t.people[i].free)

\* The validator finds no fault with a placement exactly if the filter passes it.
LEMMA FaultlessIsLegal ==
  ASSUME NEW t, NEW w, RowsOK(t), Profiles(t), NEW id \in DOMAIN t.meeting,
         NEW r \in DOMAIN t.rooms, NEW start \in Windows(t, t.meeting[id].duration)
  PROVE  LocalFaults(Problem(t, w), id, Placement(t, t.meeting[id], r, start)) = {}
           <=> Legal(t, t.meeting[id], r, start)
<1> DEFINE p == Problem(t, w)
           m == t.meeting[id]
           ev == p.event[id]
           c == Placement(t, m, r, start)
           Unauthorized == { x \in DOMAIN m.links :
                               \A g \in t.rooms[r].grants : ~GrantMatches(Requirement(m.links[x], m), g) }
<1>1. /\ ev.sections = DOMAIN m.links /\ ev.instructors = m.instructors
      /\ ev.duration = m.duration /\ ev.caps = m.caps /\ ev.lab = m.lab
      /\ ev.reqs = [x \in DOMAIN m.links |-> Requirement(m.links[x], m)]
  <2>1. ev = EventOf(t, id)
    BY DEF Problem
  <2> QED BY <2>1 DEF EventOf
<1>2. c.room = r /\ c.atoms = Window(start, m.duration)
  BY DEF Placement
<1>3. /\ r \in DOMAIN p.room
      /\ p.room[r].lab = t.rooms[r].lab /\ p.room[r].caps = t.rooms[r].caps
      /\ p.room[r].grants = t.rooms[r].grants
      /\ p.room[r].free = Available(t, t.rooms[r].free)
  <2>1. r \in Profiled(t.rooms)
    BY DEF Profiles
  <2> QED BY <2>1 DEF Problem
<1>4. /\ m.instructors \subseteq DOMAIN p.free
      /\ m.instructors \subseteq Profiled(t.people)
      /\ \A i \in m.instructors : p.free[i] = Available(t, t.people[i].free)
  <2>1. m.instructors \subseteq Teaching(t)
    BY DEF Teaching
  <2>2. Teaching(t) \cap Profiled(t.people) = Teaching(t)
    BY DEF Profiles
  <2>3. p.free = [i \in Teaching(t) \cap Profiled(t.people) |-> Available(t, t.people[i].free)]
    BY DEF Problem
  <2> QED BY <2>1, <2>2, <2>3 DEF Profiles
<1>5. Cardinality(c.atoms) = m.duration
  <2>1. start[2] \in Int
    BY DEF Windows, Usable, RowsOK
  <2>2. m.duration \in Nat \ {0}
    BY DEF RowsOK
  <2> QED BY <1>2, <2>1, <2>2, WindowSize
<1>6. Unauthorized = {} <=>
        \A x \in DOMAIN m.links : AuthorizationMatches(t.rooms[r].grants, m.links[x], m)
  BY AuthorizationsAgree
<1>7. m.lab \in BOOLEAN
  BY DEF RowsOK
<1>8. r \in Profiled(t.rooms)
  BY DEF Profiles
<1> HIDE DEF c, p, m
<1>9. RoomFaults(p, id, c) = {} <=>
        /\ c.atoms \subseteq Available(t, t.rooms[r].free)
        /\ m.caps \subseteq t.rooms[r].caps
        /\ m.lab => t.rooms[r].lab
        /\ Unauthorized = {}
  <2>1. { x \in DOMAIN ev.reqs : \A g \in p.room[r].grants : ~GrantMatches(ev.reqs[x], g) } = Unauthorized
    BY <1>1, <1>3
  <2>2. {<<"room_unavailable", r>> : a \in c.atoms \ p.room[r].free} = {}
          <=> c.atoms \subseteq Available(t, t.rooms[r].free)
    BY <1>3
  <2>3. {<<"capability", r>> : k \in ev.caps \ p.room[r].caps} = {}
          <=> m.caps \subseteq t.rooms[r].caps
    BY <1>1, <1>3
  <2>4. {<<"laboratory", r>> : x \in {y \in {ev.lab} : y /\ ~p.room[r].lab}} = {}
          <=> (m.lab => t.rooms[r].lab)
    BY <1>1, <1>3, <1>7
  <2> HIDE DEF ev, Unauthorized
  <2>5. {<<"authorization", x>> : x \in Unauthorized} = {} <=> Unauthorized = {}
    OBVIOUS
  <2>6. RoomFaults(p, id, c) =
          {<<"room_unavailable", r>> : a \in c.atoms \ p.room[r].free}
            \cup {<<"capability", r>> : k \in ev.caps \ p.room[r].caps}
            \cup {<<"laboratory", r>> : x \in {y \in {ev.lab} : y /\ ~p.room[r].lab}}
            \cup {<<"authorization", x>> : x \in Unauthorized}
    BY <1>2, <2>1 DEF RoomFaults, ev
  <2> QED BY <2>2, <2>3, <2>4, <2>5, <2>6
<1>10. LocalFaults(p, id, c) = {} <=>
         /\ RoomFaults(p, id, c) = {}
         /\ \A i \in m.instructors : c.atoms \subseteq Available(t, t.people[i].free)
  <2>1. ev.sections \ DOMAIN ev.reqs = {}
    BY <1>1
  <2>2. {Cardinality(c.atoms)} \ {ev.duration} = {}
    BY <1>1, <1>5
  <2>3. ev.instructors \ DOMAIN p.free = {}
    BY <1>1, <1>4
  <2>4. { <<"instructor_unavailable", i>> :
            i \in { j \in ev.instructors \cap DOMAIN p.free : ~(c.atoms \subseteq p.free[j]) } } = {}
          <=> \A i \in m.instructors : c.atoms \subseteq Available(t, t.people[i].free)
    <3> DEFINE Away == { j \in ev.instructors \cap DOMAIN p.free : ~(c.atoms \subseteq p.free[j]) }
    <3>1. ev.instructors \cap DOMAIN p.free = m.instructors
      BY <1>1, <1>4
    <3>2. Away = {} <=> \A i \in m.instructors : c.atoms \subseteq Available(t, t.people[i].free)
      BY <1>4, <3>1
    <3> HIDE DEF Away
    <3>3. { <<"instructor_unavailable", i>> : i \in Away } = {} <=> Away = {}
      OBVIOUS
    <3> QED BY <3>2, <3>3 DEF Away
  <2> HIDE DEF Unauthorized
  <2>5. LocalFaults(p, id, c) =
          RoomFaults(p, id, c)
            \cup { <<"instructor_unavailable", i>> :
                     i \in { j \in ev.instructors \cap DOMAIN p.free : ~(c.atoms \subseteq p.free[j]) } }
    BY <1>2, <1>3, <2>1, <2>2, <2>3 DEF LocalFaults, ev
  <2> QED BY <2>4, <2>5
<1> HIDE DEF ev, Unauthorized
<1>11. LocalFaults(p, id, c) = {} <=> Legal(t, m, r, start)
  BY <1>2, <1>4, <1>6, <1>8, <1>9, <1>10 DEF Legal, RoomServes
<1> QED BY <1>11 DEF p, c, m

\* The placements the builder enumerates for a meeting, its lock apart.
Placements(t, id) ==
  { Placement(t, t.meeting[id], x[1], x[2]) :
      x \in (DOMAIN t.rooms) \X Windows(t, t.meeting[id].duration) }
Locked(t, id, c) ==
  id \in DOMAIN t.pin => t.pin[id] = [room |-> c.room, start |-> c.start]

\* The candidates are the placements that the validator finds no fault with and
\* that the lock names, for every revision the database can hold.
LEMMA BuilderIsExact ==
  ASSUME NEW t, NEW w, RowsOK(t), Profiles(t), NEW id \in DOMAIN t.meeting
  PROVE  Candidates(t, id) =
           { c \in Placements(t, id) : LocalFaults(Problem(t, w), id, c) = {} /\ Locked(t, id, c) }
<1> DEFINE m == t.meeting[id]
           P == (DOMAIN t.rooms) \X Windows(t, m.duration)
           Kept(y) == /\ Legal(t, m, y[1], y[2])
                      /\ id \in DOMAIN t.pin => t.pin[id].room = y[1] /\ t.pin[id].start = y[2]
<1>1. Candidates(t, id) = { Placement(t, m, x[1], x[2]) : x \in { y \in P : Kept(y) } }
  BY DEF Candidates, Legal
<1>2. ASSUME NEW y \in P
      PROVE  Kept(y) <=> /\ LocalFaults(Problem(t, w), id, Placement(t, m, y[1], y[2])) = {}
                         /\ Locked(t, id, Placement(t, m, y[1], y[2]))
  <2>1. y[1] \in DOMAIN t.rooms /\ y[2] \in Windows(t, m.duration)
    OBVIOUS
  <2>2. LocalFaults(Problem(t, w), id, Placement(t, m, y[1], y[2])) = {} <=> Legal(t, m, y[1], y[2])
    BY <2>1, FaultlessIsLegal
  <2>3. Placement(t, m, y[1], y[2]).room = y[1] /\ Placement(t, m, y[1], y[2]).start = y[2]
    BY DEF Placement
  <2>4. ASSUME id \in DOMAIN t.pin
        PROVE  t.pin[id] = [room |-> y[1], start |-> y[2]]
                 <=> t.pin[id].room = y[1] /\ t.pin[id].start = y[2]
    <3>1. t.pin[id] = [room |-> t.pin[id].room, start |-> t.pin[id].start]
      BY <2>4 DEF RowsOK
    <3> QED BY <3>1
  <2> QED BY <2>2, <2>3, <2>4 DEF Locked
<1>3. Placements(t, id) = { Placement(t, m, x[1], x[2]) : x \in P }
  BY DEF Placements
<1> HIDE DEF P, Kept, m
<1> QED BY <1>1, <1>2, <1>3

(***************************************************************************)
(* What the builder makes is well formed.                                  *)
(***************************************************************************)
WeightsOK(w) ==
  w.preference \in Nat /\ w.section \in Nat /\ w.instructor \in Nat /\ w.load \in Nat

LEMMA PenaltyIsNatural ==
  ASSUME NEW t, RowsOK(t), NEW id \in DOMAIN t.meeting, NEW A, IsFiniteSet(A)
  PROVE  Penalty(t, t.meeting[id], A) \in Nat
<1> DEFINE m == t.meeting[id]
           S == m.instructors \X A
           f == [x \in S |-> SlotPenalty(t, x[1], x[2])]
<1>1. IsFiniteSet(S)
  BY FS_Product DEF RowsOK
<1>2. ASSUME NEW i \in m.instructors
      PROVE  /\ i \in DOMAIN t.prefs /\ IsFiniteSet(DOMAIN t.prefs[i])
             /\ \A a \in DOMAIN t.prefs[i] : t.prefs[i][a].avoid \in Nat /\ t.prefs[i][a].reward \in Nat
  BY DEF RowsOK
<1>3. ASSUME NEW i \in m.instructors
      PROVE  /\ Ceiling(t, i) \in Nat
             /\ \A a \in DOMAIN t.prefs[i] : Ceiling(t, i) >= t.prefs[i][a].reward
  <2> DEFINE g == [a \in DOMAIN t.prefs[i] |-> t.prefs[i][a].reward]
             R == { g[a] : a \in DOMAIN t.prefs[i] }
             Z == {0} \cup R
  <2>1. IsFiniteSet(R)
    BY <1>2, FiniteImage
  <2>2. \A a \in DOMAIN t.prefs[i] : g[a] \in R /\ g[a] \in Nat /\ g[a] = t.prefs[i][a].reward
    BY <1>2
  <2>3. IsFiniteSet({0})
    BY FS_Singleton
  <2>4. R \subseteq Nat
    BY <2>2
  <2>5. Ceiling(t, i) = Max(Z)
    <3>1. R = { t.prefs[i][a].reward : a \in DOMAIN t.prefs[i] }
      OBVIOUS
    <3> HIDE DEF R
    <3> QED BY <3>1 DEF Ceiling
  <2> HIDE DEF g, R
  <2>6. IsFiniteSet(Z) /\ Z \subseteq Int /\ Z # {}
    <3>1. IsFiniteSet(Z)
      BY <2>1, <2>3, FS_Union
    <3>2. Z \subseteq Int /\ Z # {}
      BY <2>4
    <3> QED BY <3>1, <3>2
  <2>7. Max(Z) \in Z /\ \A y \in Z : Max(Z) >= y
    <3> HIDE DEF Z
    <3> QED BY <2>6, GreatestInteger
  <2>8. Z \subseteq Nat
    BY <2>4
  <2>9. \A a \in DOMAIN t.prefs[i] : t.prefs[i][a].reward \in Z
    BY <2>2
  <2> HIDE DEF Z
  <2> QED BY <2>5, <2>7, <2>8, <2>9
<1>4. ASSUME NEW x \in S PROVE f[x] \in Int /\ f[x] >= 0
  <2> DEFINE i == x[1]
             a == x[2]
  <2>1. i \in m.instructors
    OBVIOUS
  <2>2. SlotPenalty(t, i, a) \in Nat
    <3>1. CASE a \in DOMAIN t.prefs[i]
      <4>1. /\ t.prefs[i][a].avoid \in Nat /\ t.prefs[i][a].reward \in Nat
            /\ Ceiling(t, i) \in Nat /\ Ceiling(t, i) >= t.prefs[i][a].reward
        BY <1>2, <1>3, <2>1, <3>1
      <4>2. SlotPenalty(t, i, a) = (t.prefs[i][a].avoid - t.prefs[i][a].reward) + Ceiling(t, i)
        BY <3>1 DEF SlotPenalty
      <4> QED BY <4>1, <4>2
    <3>2. CASE a \notin DOMAIN t.prefs[i]
      <4>1. SlotPenalty(t, i, a) = 0 + Ceiling(t, i)
        BY <3>2 DEF SlotPenalty
      <4> QED BY <1>3, <2>1, <4>1
    <3> QED BY <3>1, <3>2
  <2>3. f[x] = SlotPenalty(t, i, a)
    OBVIOUS
  <2> QED BY <2>2, <2>3
<1>5. Penalty(t, m, A) = SumFunctionOnSet(f, S)
  BY DEF Penalty, SumFunction
<1> HIDE DEF f, S
<1>6. SumFunctionOnSet(f, S) \in Int /\ SumFunctionOnSet(f, S) >= 0
  BY <1>1, <1>4, SumType, SumNonNegative
<1>7. Penalty(t, m, A) \in Nat
  BY <1>5, <1>6
<1> QED BY <1>7 DEF m

\* A candidate is a placement in a window of the revision that its lock allows.
LEMMA CandidateIsPlacement ==
  ASSUME NEW t, RowsOK(t), NEW id \in DOMAIN t.meeting, NEW c \in Candidates(t, id)
  PROVE  /\ \E r \in DOMAIN t.rooms, a \in Windows(t, t.meeting[id].duration) :
              c = Placement(t, t.meeting[id], r, a)
         /\ Locked(t, id, c)
         /\ c.atoms \subseteq Usable(t) /\ c.start[2] \in Int
         /\ c.atoms = Window(c.start, t.meeting[id].duration)
         /\ Cardinality(c.atoms) = t.meeting[id].duration
         /\ t.meeting[id].duration \in Nat \ {0}
         /\ c.penalty \in Nat
<1> DEFINE m == t.meeting[id]
<1>1. PICK y \in (DOMAIN t.rooms) \X Windows(t, m.duration) :
        /\ c = Placement(t, m, y[1], y[2])
        /\ id \in DOMAIN t.pin => t.pin[id].room = y[1] /\ t.pin[id].start = y[2]
  BY DEF Candidates
<1>2. /\ y[1] \in DOMAIN t.rooms /\ y[2] \in Windows(t, m.duration)
      /\ c.room = y[1] /\ c.start = y[2] /\ c.atoms = Window(y[2], m.duration)
      /\ c.penalty = Penalty(t, m, Window(y[2], m.duration))
  BY <1>1 DEF Placement
<1>3. Window(y[2], m.duration) \subseteq Usable(t) /\ y[2] \in Usable(t)
  BY <1>2 DEF Windows
<1>4. y[2][2] \in Int /\ m.duration \in Nat \ {0}
  BY <1>3 DEF Usable, RowsOK
<1>5. Cardinality(Window(y[2], m.duration)) = m.duration
  BY <1>4, WindowSize
<1>6. IsFiniteSet(Window(y[2], m.duration))
  <2>1. IsFiniteSet(Usable(t))
    BY FS_Subset DEF Usable, RowsOK
  <2> QED BY <1>3, <2>1, FS_Subset
<1>7. c.penalty \in Nat
  BY <1>2, <1>6, PenaltyIsNatural
<1>8. Locked(t, id, c)
  <2>1. id \in DOMAIN t.pin => t.pin[id] = [room |-> t.pin[id].room, start |-> t.pin[id].start]
    BY DEF RowsOK
  <2> QED BY <1>1, <1>2, <2>1 DEF Locked
<1> QED BY <1>1, <1>2, <1>3, <1>4, <1>5, <1>7, <1>8

LEMMA FinitelyManyCandidates ==
  ASSUME NEW t, RowsOK(t), NEW id \in DOMAIN t.meeting
  PROVE  IsFiniteSet(Candidates(t, id))
<1> DEFINE m == t.meeting[id]
           P == (DOMAIN t.rooms) \X Windows(t, m.duration)
           f == [x \in P |-> Placement(t, m, x[1], x[2])]
<1>1. IsFiniteSet(Windows(t, m.duration))
  BY FS_Subset DEF Windows, Usable, RowsOK
<1>2. IsFiniteSet(P)
  BY <1>1, FS_Product DEF RowsOK
<1>3. IsFiniteSet({ f[x] : x \in P })
  BY <1>2, FiniteImage
<1>4. Candidates(t, id) \subseteq { f[x] : x \in P }
  <2> SUFFICES ASSUME NEW c \in Candidates(t, id) PROVE \E x \in P : c = f[x]
    OBVIOUS
  <2>1. PICK r \in DOMAIN t.rooms, a \in Windows(t, m.duration) : c = Placement(t, m, r, a)
    BY CandidateIsPlacement
  <2>2. <<r, a>> \in P /\ f[<<r, a>>] = c
    BY <2>1
  <2> QED BY <2>2
<1> QED BY <1>3, <1>4, FS_Subset

\* What MeetingIssues ensures.
LEMMA BuildableCandidates ==
  ASSUME NEW t, NEW w, Buildable(t, w), NEW id \in DOMAIN t.meeting
  PROVE  Candidates(t, id) # {}
<1> SUFFICES ASSUME Candidates(t, id) = {} PROVE FALSE
  OBVIOUS
<1> DEFINE m == t.meeting[id]
           Issues == When(DOMAIN m.links = {}, {"MEETING_WITHOUT_SECTION"})
               \cup When(m.instructors = {}, {"MEETING_WITHOUT_INSTRUCTOR"})
               \cup When(DOMAIN m.links \cap t.retired # {}, {"INACTIVE_SECTION"})
               \cup When(m.instructors \cap t.retired # {}, {"INACTIVE_INSTRUCTOR"})
               \cup When(Candidates(t, id) = {}, {"EMPTY_CANDIDATE_DOMAIN"})
<1>1. "EMPTY_CANDIDATE_DOMAIN" \in Issues
  BY DEF When
<1>2. Issues \subseteq MeetingIssues(t)
  BY DEF MeetingIssues
<1> HIDE DEF Issues
<1>3. MeetingIssues(t) = {}
  BY DEF Buildable
<1> QED BY <1>1, <1>2, <1>3

\* The parts of a built problem.
LEMMA BuiltParts ==
  ASSUME NEW t, NEW w, NEW p, p = Problem(t, w)
  PROVE  /\ p.atoms = Usable(t) /\ Events(p) = DOMAIN t.meeting /\ p.weight = w
         /\ DOMAIN p.lock = DOMAIN t.pin \cap DOMAIN t.meeting
         /\ \A id \in DOMAIN t.meeting :
              /\ p.event[id].cands = Candidates(t, id)
              /\ p.event[id].sections = DOMAIN t.meeting[id].links
              /\ p.event[id].instructors = t.meeting[id].instructors
              /\ p.event[id].duration = t.meeting[id].duration
              /\ DOMAIN p.event[id].reqs = DOMAIN t.meeting[id].links
         /\ \A id \in DOMAIN p.lock : p.lock[id] = CHOOSE c \in Candidates(t, id) : TRUE
<1>1. /\ p.atoms = Usable(t) /\ Events(p) = DOMAIN t.meeting /\ p.weight = w
      /\ p.lock = [id \in DOMAIN t.pin \cap DOMAIN t.meeting |-> CHOOSE c \in Candidates(t, id) : TRUE]
  BY DEF Problem, Events
<1>2. ASSUME NEW id \in DOMAIN t.meeting PROVE p.event[id] = EventOf(t, id)
  BY DEF Problem
<1>3. ASSUME NEW id \in DOMAIN t.meeting
      PROVE  /\ p.event[id].cands = Candidates(t, id)
             /\ p.event[id].sections = DOMAIN t.meeting[id].links
             /\ p.event[id].instructors = t.meeting[id].instructors
             /\ p.event[id].duration = t.meeting[id].duration
             /\ DOMAIN p.event[id].reqs = DOMAIN t.meeting[id].links
  <2> DEFINE ev == EventOf(t, id)
  <2>1. /\ ev.cands = Candidates(t, id) /\ ev.sections = DOMAIN t.meeting[id].links
        /\ ev.instructors = t.meeting[id].instructors /\ ev.duration = t.meeting[id].duration
    BY DEF EventOf
  <2>2. ev.reqs = [x \in DOMAIN t.meeting[id].links |-> Requirement(t.meeting[id].links[x], t.meeting[id])]
    BY DEF EventOf
  <2>3. DOMAIN ev.reqs = DOMAIN t.meeting[id].links
    BY <2>2
  <2>4. p.event[id] = ev
    BY <1>2
  <2> HIDE DEF ev
  <2> QED BY <2>1, <2>3, <2>4
<1>4. \A id \in DOMAIN p.lock : p.lock[id] = CHOOSE c \in Candidates(t, id) : TRUE
  BY <1>1
<1>5. DOMAIN p.lock = DOMAIN t.pin \cap DOMAIN t.meeting
  BY <1>1
<1> QED BY <1>1, <1>3, <1>4, <1>5

LEMMA BuiltLocks ==
  ASSUME NEW t, NEW w, RowsOK(t), Buildable(t, w), NEW p, p = Problem(t, w)
  PROVE  /\ DOMAIN p.lock = DOMAIN t.pin \cap Events(p)
         /\ \A e \in DOMAIN p.lock :
              /\ p.lock[e] \in p.event[e].cands
              /\ t.pin[e] = [room |-> p.lock[e].room, start |-> p.lock[e].start]
<1>1. DOMAIN p.lock = DOMAIN t.pin \cap Events(p) /\ Events(p) = DOMAIN t.meeting
  BY BuiltParts
<1>2. ASSUME NEW e \in DOMAIN p.lock
      PROVE  /\ p.lock[e] \in p.event[e].cands
             /\ t.pin[e] = [room |-> p.lock[e].room, start |-> p.lock[e].start]
  <2>1. e \in DOMAIN t.meeting /\ e \in DOMAIN t.pin
    BY <1>1
  <2>2. p.event[e].cands = Candidates(t, e) /\ p.lock[e] = CHOOSE c \in Candidates(t, e) : TRUE
    BY <2>1, BuiltParts
  <2>3. Candidates(t, e) # {}
    BY <2>1, BuildableCandidates
  <2>4. p.lock[e] \in Candidates(t, e)
    BY <2>2, <2>3
  <2>5. Locked(t, e, p.lock[e])
    BY <2>1, <2>4, CandidateIsPlacement
  <2> QED BY <2>1, <2>2, <2>4, <2>5 DEF Locked
<1> QED BY <1>1, <1>2

\* Every problem that reaches an engine is well formed, in particular it satisfies
\* the contract.
LEMMA BuiltIsWellFormed ==
  ASSUME NEW t, NEW w, RowsOK(t), WeightsOK(w), Buildable(t, w), NEW p, p = Problem(t, w)
  PROVE  WellFormed(p)
<1>1. /\ p.atoms = Usable(t) /\ Events(p) = DOMAIN t.meeting /\ p.weight = w
      /\ \A id \in DOMAIN t.meeting :
              /\ p.event[id].cands = Candidates(t, id)
              /\ p.event[id].sections = DOMAIN t.meeting[id].links
              /\ p.event[id].instructors = t.meeting[id].instructors
              /\ p.event[id].duration = t.meeting[id].duration
              /\ DOMAIN p.event[id].reqs = DOMAIN t.meeting[id].links
  BY BuiltParts
<1>2. DOMAIN p.lock \subseteq Events(p) /\ \A e \in DOMAIN p.lock : p.lock[e] \in p.event[e].cands
  <2>1. /\ DOMAIN p.lock = DOMAIN t.pin \cap Events(p)
        /\ \A e \in DOMAIN p.lock : p.lock[e] \in p.event[e].cands
    BY BuiltLocks
  <2> QED BY <2>1
<1>3. ASSUME NEW e \in Events(p), NEW c \in p.event[e].cands
      PROVE  /\ SameDayRun(p, c) /\ c.penalty \in Nat
             /\ Cardinality(c.atoms) = p.event[e].duration
  <2>1. e \in DOMAIN t.meeting /\ c \in Candidates(t, e)
    BY <1>1
  <2> DEFINE n == t.meeting[e].duration
  <2>2. /\ c.atoms \subseteq Usable(t) /\ c.start[2] \in Int
        /\ c.atoms = Window(c.start, n)
        /\ Cardinality(c.atoms) = n /\ n \in Nat \ {0}
        /\ c.penalty \in Nat
    BY <2>1, CandidateIsPlacement
  <2>3. \A a \in c.atoms : a[1] = Day(c)
    BY <2>2 DEF Window, Day
  <2>4. c.atoms = { <<Day(c), c.start[2] + k>> : k \in 0..(Cardinality(c.atoms) - 1) }
    BY <2>2 DEF Window, Day
  <2> QED BY <1>1, <2>1, <2>2, <2>3, <2>4 DEF SameDayRun
<1>4. ASSUME NEW e \in Events(p)
      PROVE  /\ p.event[e].cands # {} /\ IsFiniteSet(p.event[e].cands)
             /\ p.event[e].duration \in Nat /\ p.event[e].duration > 0
             /\ DOMAIN p.event[e].reqs \subseteq p.event[e].sections
             /\ IsFiniteSet(p.event[e].sections) /\ IsFiniteSet(p.event[e].instructors)
  <2>1. e \in DOMAIN t.meeting
    BY <1>1
  <2>2. Candidates(t, e) # {} /\ IsFiniteSet(Candidates(t, e))
    BY <2>1, BuildableCandidates, FinitelyManyCandidates
  <2>3. /\ t.meeting[e].duration \in Nat \ {0}
        /\ IsFiniteSet(DOMAIN t.meeting[e].links) /\ IsFiniteSet(t.meeting[e].instructors)
    BY <2>1 DEF RowsOK
  <2> QED BY <1>1, <2>1, <2>2, <2>3
<1>5. IsFiniteSet(Events(p)) /\ Events(p) \subseteq Int
  BY <1>1 DEF RowsOK
<1>6. IsFiniteSet(p.atoms) /\ \A a \in p.atoms : a = <<a[1], a[2]>> /\ a[2] \in Int
  BY <1>1, FS_Subset DEF RowsOK, Usable
<1>7. Contract(p)
  BY <1>2, <1>3, <1>4 DEF Contract
<1> QED BY <1>1, <1>3, <1>4, <1>5, <1>6, <1>7 DEF WellFormed, WeightsOK

(***************************************************************************)
(* Conflicts of a partial schedule, and chromosomes.                       *)
(***************************************************************************)
\* The candidates of p are legal on their own.
Faultless(p) == \A e \in Events(p) : \A c \in p.event[e].cands : LocalFaults(p, e, c) = {}
\* At most one candidate per event.
Partial(p, s) ==
  DOMAIN s \subseteq Events(p) /\ \A e \in DOMAIN s : s[e] \in p.event[e].cands

LEMMA ResourceConflictMember ==
  ASSUME NEW p, WellFormed(p), NEW s, Partial(p, s), NEW v
  PROVE  v \in ResourceConflicts(p, s) <=>
           \E e, f \in DOMAIN s : \E r \in Resources(p, e, s[e]) \cap Resources(p, f, s[f]) :
             v = <<"conflict", r, <<e, f>>>> /\ e < f /\ s[e].atoms \cap s[f].atoms # {}
<1> DEFINE R == UNION { Resources(p, e, s[e]) : e \in DOMAIN s }
           V(r, a) == { <<"conflict", r, pair>> : pair \in OrderedPairs(Users(p, s, r, a)) }
<1>1. ResourceConflicts(p, s) = UNION { V(r, a) : r \in R, a \in p.atoms }
  BY DEF ResourceConflicts
<1>2. ASSUME v \in ResourceConflicts(p, s)
      PROVE  \E e, f \in DOMAIN s : \E r \in Resources(p, e, s[e]) \cap Resources(p, f, s[f]) :
               v = <<"conflict", r, <<e, f>>>> /\ e < f /\ s[e].atoms \cap s[f].atoms # {}
  <2>1. PICK r \in R, a \in p.atoms : v \in V(r, a)
    BY <1>1, <1>2
  <2>2. PICK pair \in OrderedPairs(Users(p, s, r, a)) : v = <<"conflict", r, pair>>
    BY <2>1
  <2>3. PICK e \in Users(p, s, r, a), f \in Users(p, s, r, a) : pair = <<e, f>> /\ e < f
    BY <2>2 DEF OrderedPairs
  <2> HIDE DEF R, V
  <2>4. /\ e \in DOMAIN s /\ f \in DOMAIN s
        /\ r \in Resources(p, e, s[e]) \cap Resources(p, f, s[f])
        /\ a \in s[e].atoms \cap s[f].atoms
    BY <2>3 DEF Users
  <2> QED BY <2>2, <2>3, <2>4
<1>3. ASSUME NEW e \in DOMAIN s, NEW f \in DOMAIN s,
             NEW r \in Resources(p, e, s[e]) \cap Resources(p, f, s[f]),
             v = <<"conflict", r, <<e, f>>>>, e < f, s[e].atoms \cap s[f].atoms # {}
      PROVE  v \in ResourceConflicts(p, s)
  <2>1. PICK a : a \in s[e].atoms \cap s[f].atoms
    BY <1>3
  <2>2. a \in p.atoms
    <3>1. e \in Events(p) /\ s[e] \in p.event[e].cands
      BY DEF Partial
    <3> QED BY <2>1, <3>1, CandidateTimes
  <2>3. <<e, f>> \in OrderedPairs(Users(p, s, r, a))
    BY <1>3, <2>1 DEF OrderedPairs, Users
  <2>4. v \in V(r, a)
    BY <1>3, <2>3
  <2>5. r \in R
    OBVIOUS
  <2> HIDE DEF R, V
  <2> QED BY <1>1, <2>2, <2>4, <2>5
<1> QED BY <1>2, <1>3

LEMMA DistinctDayMember ==
  ASSUME NEW p, WellFormed(p), NEW s, Partial(p, s), NEW v
  PROVE  v \in DistinctDayConflicts(p, s) <=>
           \E e, f \in DOMAIN s :
             /\ v = <<"distinct_day", p.event[e].group, <<e, f>>>> /\ e < f
             /\ p.event[e].group # NoGroup /\ p.event[f].group = p.event[e].group
             /\ Day(s[e]) = Day(s[f])
<1> DEFINE V(g, d) == { <<"distinct_day", g, pair>> : pair \in OrderedPairs(GroupMates(p, s, g, d)) }
<1>1. DistinctDayConflicts(p, s) = UNION { V(g, d) : g \in Groups(p), d \in Days(p) }
  BY DEF DistinctDayConflicts
<1>2. ASSUME v \in DistinctDayConflicts(p, s)
      PROVE  \E e, f \in DOMAIN s :
               /\ v = <<"distinct_day", p.event[e].group, <<e, f>>>> /\ e < f
               /\ p.event[e].group # NoGroup /\ p.event[f].group = p.event[e].group
               /\ Day(s[e]) = Day(s[f])
  <2>1. PICK g \in Groups(p), d \in Days(p) : v \in V(g, d)
    BY <1>1, <1>2
  <2>2. PICK pair \in OrderedPairs(GroupMates(p, s, g, d)) : v = <<"distinct_day", g, pair>>
    BY <2>1
  <2>3. PICK e \in GroupMates(p, s, g, d), f \in GroupMates(p, s, g, d) : pair = <<e, f>> /\ e < f
    BY <2>2 DEF OrderedPairs
  <2>4. g # NoGroup
    BY DEF Groups
  <2> HIDE DEF V
  <2>5. /\ e \in DOMAIN s /\ p.event[e].group = g /\ Day(s[e]) = d
        /\ f \in DOMAIN s /\ p.event[f].group = g /\ Day(s[f]) = d
    BY <2>3 DEF GroupMates
  <2> QED BY <2>2, <2>3, <2>4, <2>5
<1>3. ASSUME NEW e \in DOMAIN s, NEW f \in DOMAIN s,
             v = <<"distinct_day", p.event[e].group, <<e, f>>>>, e < f,
             p.event[e].group # NoGroup, p.event[f].group = p.event[e].group,
             Day(s[e]) = Day(s[f])
      PROVE  v \in DistinctDayConflicts(p, s)
  <2> DEFINE g == p.event[e].group
             d == Day(s[e])
  <2>1. e \in Events(p) /\ s[e] \in p.event[e].cands
    BY DEF Partial
  <2>2. d \in Days(p) /\ g \in Groups(p)
    BY <1>3, <2>1, CandidateTimes DEF Groups
  <2>3. <<e, f>> \in OrderedPairs(GroupMates(p, s, g, d))
    BY <1>3 DEF OrderedPairs, GroupMates
  <2>4. v \in V(g, d)
    BY <1>3, <2>3
  <2> HIDE DEF V, g, d
  <2> QED BY <1>1, <2>2, <2>4
<1> QED BY <1>2, <1>3

LEMMA FiniteResources ==
  ASSUME NEW p, WellFormed(p), NEW e \in Events(p), NEW c
  PROVE  IsFiniteSet(Resources(p, e, c))
<1> DEFINE I == p.event[e].instructors
           X == p.event[e].sections
           f == [i \in I |-> <<"instructor", i>>]
           g == [x \in X |-> <<"section", x>>]
<1>1. IsFiniteSet(I) /\ IsFiniteSet(X)
  BY DEF WellFormed
<1>2. IsFiniteSet({ f[i] : i \in I }) /\ IsFiniteSet({ g[x] : x \in X })
  BY <1>1, FiniteImage
<1>3. IsFiniteSet({<<"room", c.room>>})
  BY FS_Singleton
<1>4. IsFiniteSet({<<"room", c.room>>} \cup { f[i] : i \in I })
  BY <1>2, <1>3, FS_Union
<1>5. IsFiniteSet(({<<"room", c.room>>} \cup { f[i] : i \in I }) \cup { g[x] : x \in X })
  BY <1>2, <1>4, FS_Union
<1>6. Resources(p, e, c) = ({<<"room", c.room>>} \cup { f[i] : i \in I }) \cup { g[x] : x \in X }
  BY DEF Resources
<1> QED BY <1>5, <1>6

LEMMA FiniteConflicts ==
  ASSUME NEW p, WellFormed(p), NEW s, Partial(p, s)
  PROVE  IsFiniteSet(Conflicts(p, s))
<1> DEFINE E == DOMAIN s
           h == [e \in E |-> Resources(p, e, s[e])]
           R == UNION { h[e] : e \in E }
           P == E \X E
           f == [x \in R \X P |-> <<"conflict", x[1], x[2]>>]
           g == [x \in P |-> <<"distinct_day", p.event[x[1]].group, x>>]
<1>1. IsFiniteSet(E)
  BY FS_Subset DEF WellFormed, Partial
<1>2. IsFiniteSet(R)
  <2>1. IsFiniteSet({ h[e] : e \in E })
    BY <1>1, FiniteImage
  <2>2. \A T \in { h[e] : e \in E } : IsFiniteSet(T)
    BY FiniteResources DEF Partial
  <2> HIDE DEF h
  <2> QED BY <2>1, <2>2, FS_UNION
<1>3. IsFiniteSet(P)
  BY <1>1, FS_Product
<1>4. IsFiniteSet(R \X P)
  BY <1>2, <1>3, FS_Product
<1>5. IsFiniteSet({ f[x] : x \in R \X P }) /\ IsFiniteSet({ g[x] : x \in P })
  BY <1>3, <1>4, FiniteImage
<1>6. ResourceConflicts(p, s) \subseteq { f[x] : x \in R \X P }
  <2> SUFFICES ASSUME NEW v \in ResourceConflicts(p, s) PROVE \E x \in R \X P : v = f[x]
    OBVIOUS
  <2>1. PICK e \in E, k \in E :
          \E q \in Resources(p, e, s[e]) \cap Resources(p, k, s[k]) : v = <<"conflict", q, <<e, k>>>>
    BY ResourceConflictMember
  <2> PICK r \in Resources(p, e, s[e]) \cap Resources(p, k, s[k]) : v = <<"conflict", r, <<e, k>>>>
    BY <2>1
  <2>2. r \in h[e]
    OBVIOUS
  <2>3. r \in R
    BY <2>2
  <2>4. <<r, <<e, k>>>> \in R \X P
    BY <2>3
  <2>5. f[<<r, <<e, k>>>>] = v
    BY <2>4
  <2> QED BY <2>4, <2>5
<1>7. DistinctDayConflicts(p, s) \subseteq { g[x] : x \in P }
  <2> SUFFICES ASSUME NEW v \in DistinctDayConflicts(p, s) PROVE \E x \in P : v = g[x]
    OBVIOUS
  <2>1. PICK e \in E, k \in E : v = <<"distinct_day", p.event[e].group, <<e, k>>>>
    BY DistinctDayMember
  <2>2. <<e, k>> \in P /\ g[<<e, k>>] = v
    BY <2>1
  <2> QED BY <2>2
<1> HIDE DEF f, g, R, P
<1>8. IsFiniteSet(ResourceConflicts(p, s)) /\ IsFiniteSet(DistinctDayConflicts(p, s))
  BY <1>5, <1>6, <1>7, FS_Subset
<1> QED BY <1>8, FS_Union DEF Conflicts

\* The assignment vector of a chromosome selects one candidate per event, and
\* the validator resolves it to the chromosome again.
LEMMA VectorSelects ==
  ASSUME NEW p, WellFormed(p), NEW g \in Chromosomes(p)
  PROVE  /\ Selects(p, Vector(g)) /\ Resolved(p, Vector(g)) = g
         /\ Partial(p, g) /\ DOMAIN g = Events(p)
         /\ IsFiniteSet(Vector(g))
<1> DEFINE X == Vector(g)
<1>1. DOMAIN g = Events(p) /\ g = [e \in Events(p) |-> g[e]] /\ \A e \in Events(p) : g[e] \in p.event[e].cands
  BY DEF Chromosomes
<1>2. X = { <<e, g[e]>> : e \in Events(p) }
  BY <1>1 DEF Vector
<1>3. X \subseteq Choice(p)
  BY <1>1, <1>2 DEF Choice
<1>4. ASSUME NEW e \in Events(p) PROVE { x \in X : x[1] = e } = {<<e, g[e]>>}
  BY <1>2
<1>5. ExactlyOne(p, X)
  BY <1>1, <1>4 DEF ExactlyOne
<1>6. Selects(p, X)
  BY <1>3, <1>5 DEF Selects
<1>7. Total(p, Resolved(p, X)) /\ \A e \in Events(p) : <<e, Resolved(p, X)[e]>> \in X
  BY <1>6, SelectionIsTotal
<1>8. \A e \in Events(p) : Resolved(p, X)[e] = g[e]
  BY <1>2, <1>7
<1>9. Resolved(p, X) = [e \in Events(p) |-> Resolved(p, X)[e]]
  BY <1>7 DEF Total, Resolved
<1>10. Resolved(p, X) = g
  BY <1>1, <1>8, <1>9
<1>11. IsFiniteSet(X)
  <2> DEFINE f == [e \in Events(p) |-> <<e, g[e]>>]
  <2>1. IsFiniteSet({ f[e] : e \in Events(p) })
    BY FiniteImage DEF WellFormed
  <2>2. X = { f[e] : e \in Events(p) }
    BY <1>2
  <2> QED BY <2>1, <2>2
<1> QED BY <1>1, <1>6, <1>10, <1>11 DEF Partial

\* What the validator can say of a chromosome.
LEMMA ViolationsOfChromosome ==
  ASSUME NEW p, WellFormed(p), Faultless(p), NEW g \in Chromosomes(p)
  PROVE  Violations(p, Vector(g)) = LockViolations(p, g) \cup Conflicts(p, g)
<1>1. /\ Resolved(p, Vector(g)) = g /\ Selects(p, Vector(g)) /\ DOMAIN g = Events(p)
      /\ Partial(p, g)
  BY VectorSelects
<1>2. SelectionViolations(p, Vector(g)) = {}
  BY <1>1, SelectionIsTotal, ExactlyOneIsSelection DEF Selects
<1>3. LocalViolations(p, g) = {}
  <2>1. \A e \in DOMAIN g : LocalFaults(p, e, g[e]) = {}
    BY <1>1 DEF Faultless, Partial
  <2> QED BY <2>1 DEF LocalViolations
<1> QED BY <1>1, <1>2, <1>3 DEF Violations

\* A fitness is a number of violations and a score.
LEMMA FitnessIsPair ==
  ASSUME NEW p, WellFormed(p), Faultless(p), NEW g \in Chromosomes(p)
  PROVE  Evaluate(p, g) \in Nat \X Int
<1>1. IsFiniteSet(Conflicts(p, g))
  BY VectorSelects, FiniteConflicts
<1>2. IsFiniteSet(LockViolations(p, g))
  <2> DEFINE L == { e \in DOMAIN p.lock : ~(e \in DOMAIN g /\ g[e] = p.lock[e]) }
             f == [e \in L |-> <<"lock", None, <<e>>>>]
  <2>1. IsFiniteSet(L)
    BY FS_Subset DEF WellFormed, Contract
  <2>2. IsFiniteSet({ f[e] : e \in L })
    BY <2>1, FiniteImage
  <2>3. LockViolations(p, g) = { f[e] : e \in L }
    BY DEF LockViolations
  <2> QED BY <2>2, <2>3
<1>3. Cardinality(Violations(p, Vector(g))) \in Nat
  BY <1>1, <1>2, ViolationsOfChromosome, FS_Union, FS_CardinalityType
<1>4. Score(p, Vector(g)) \in Int
  BY VectorSelects, ObjectiveIsScore DEF Selects
<1> QED BY <1>3, <1>4 DEF Evaluate

(***************************************************************************)
(* The stable sort by fitness.                                             *)
(***************************************************************************)
\* A list of n individuals whose fitness is a pair of integers.
Fits(s, n) ==
  /\ DOMAIN s = 1..n
  /\ \A k \in 1..n : s[k].fit \in Int \X Int

\* What Sorted orders by: fitness, then the place in the list.
SortsBefore(s, j, i) == Less(s[j].fit, s[i].fit) \/ (s[j].fit = s[i].fit /\ j < i)
Earlier(s, i) == { j \in DOMAIN s : SortsBefore(s, j, i) }
RankOf(s, i) == 1 + Cardinality(Earlier(s, i))
PlaceOf(s, k) == CHOOSE i \in DOMAIN s : RankOf(s, i) = k

LEMMA SortedByPlace ==
  ASSUME NEW s
  PROVE  Sorted(s) = [k \in DOMAIN s |-> s[PlaceOf(s, k)]]
BY DEF Sorted, PlaceOf, RankOf, Earlier, SortsBefore

LEMMA SortingIsStrictOrder ==
  ASSUME NEW n \in Nat, NEW s, Fits(s, n), NEW i \in 1..n, NEW j \in 1..n, NEW k \in 1..n
  PROVE  /\ ~SortsBefore(s, i, i)
         /\ SortsBefore(s, i, j) /\ SortsBefore(s, j, k) => SortsBefore(s, i, k)
         /\ i # j => SortsBefore(s, i, j) \/ SortsBefore(s, j, i)
<1> DEFINE a == s[i].fit
           b == s[j].fit
           c == s[k].fit
<1>1. a \in Int \X Int /\ b \in Int \X Int /\ c \in Int \X Int
  BY DEF Fits
<1>2. /\ a = b <=> a[1] = b[1] /\ a[2] = b[2]
      /\ b = c <=> b[1] = c[1] /\ b[2] = c[2]
      /\ a = c <=> a[1] = c[1] /\ a[2] = c[2]
      /\ a[1] \in Int /\ a[2] \in Int /\ b[1] \in Int /\ b[2] \in Int /\ c[1] \in Int /\ c[2] \in Int
  <2> HIDE DEF a, b, c
  <2> QED BY <1>1
<1>3. /\ SortsBefore(s, i, j) <=> Less(a, b) \/ (a = b /\ i < j)
      /\ SortsBefore(s, j, i) <=> Less(b, a) \/ (b = a /\ j < i)
      /\ SortsBefore(s, j, k) <=> Less(b, c) \/ (b = c /\ j < k)
      /\ SortsBefore(s, i, k) <=> Less(a, c) \/ (a = c /\ i < k)
      /\ SortsBefore(s, i, i) <=> Less(a, a) \/ (a = a /\ i < i)
  BY DEF SortsBefore
<1> HIDE DEF a, b, c
<1> QED BY <1>2, <1>3 DEF Less

LEMMA RanksAreOrdered ==
  ASSUME NEW n \in Nat, NEW s, Fits(s, n), NEW i \in 1..n, NEW j \in 1..n, SortsBefore(s, i, j)
  PROVE  RankOf(s, i) < RankOf(s, j)
<1> DEFINE A == Earlier(s, i)
           B == Earlier(s, j)
<1>1. A \subseteq 1..n /\ B \subseteq 1..n /\ IsFiniteSet(1..n)
  BY FS_Interval DEF Earlier, Fits
<1>2. IsFiniteSet(A) /\ IsFiniteSet(B)
  BY <1>1, FS_Subset
<1>3. i \notin A /\ i \in B
  BY SortingIsStrictOrder DEF Earlier, Fits
<1>4. A \subseteq B
  <2> SUFFICES ASSUME NEW k \in A PROVE k \in B
    OBVIOUS
  <2>1. k \in 1..n /\ SortsBefore(s, k, i)
    BY DEF Earlier, Fits
  <2>2. SortsBefore(s, k, j)
    BY <2>1, SortingIsStrictOrder
  <2> QED BY <2>1, <2>2 DEF Earlier, Fits
<1> HIDE DEF A, B
<1>5. Cardinality(A) <= Cardinality(B) /\ Cardinality(A) # Cardinality(B)
  BY <1>2, <1>3, <1>4, FS_Subset
<1>6. Cardinality(A) \in Nat /\ Cardinality(B) \in Nat
  BY <1>2, FS_CardinalityType
<1>7. 1 + Cardinality(A) < 1 + Cardinality(B)
  BY <1>5, <1>6
<1> QED BY <1>7 DEF RankOf, A, B

\* Every rank is taken, so Sorted's choices are proper.
LEMMA PlacesExist ==
  ASSUME NEW n \in Nat, NEW s, Fits(s, n), NEW k \in 1..n
  PROVE  PlaceOf(s, k) \in 1..n /\ RankOf(s, PlaceOf(s, k)) = k
<1> DEFINE f == [i \in 1..n |-> RankOf(s, i)]
<1>1. ASSUME NEW i \in 1..n PROVE RankOf(s, i) \in 1..n
  <2> DEFINE A == Earlier(s, i)
  <2>1. IsFiniteSet(1..n) /\ Cardinality(1..n) = n
    BY FS_Interval
  <2>2. A \in SUBSET ((1..n) \ {i})
    BY SortingIsStrictOrder DEF Earlier, Fits
  <2>3. IsFiniteSet((1..n) \ {i}) /\ Cardinality((1..n) \ {i}) = n - 1
    BY <2>1, FS_RemoveElement
  <2> HIDE DEF A
  <2>4. IsFiniteSet(A) /\ Cardinality(A) <= Cardinality((1..n) \ {i})
    BY <2>2, <2>3, FS_Subset
  <2>5. Cardinality(A) \in Nat
    BY <2>4, FS_CardinalityType
  <2>6. 1 + Cardinality(A) \in 1..n
    BY <2>3, <2>4, <2>5
  <2> QED BY <2>6 DEF RankOf, A
<1>2. ASSUME NEW i \in 1..n, NEW j \in 1..n, i # j PROVE RankOf(s, i) # RankOf(s, j)
  <2>1. RankOf(s, i) \in Int /\ RankOf(s, j) \in Int
    BY <1>1
  <2>2. RankOf(s, i) < RankOf(s, j) \/ RankOf(s, j) < RankOf(s, i)
    BY <1>2, SortingIsStrictOrder, RanksAreOrdered
  <2> QED BY <2>1, <2>2
<1>3. f \in [1..n -> 1..n]
  BY <1>1
<1>4. \A i, j \in 1..n : f[i] = f[j] => i = j
  BY <1>2
<1> HIDE DEF f
<1>5. f \in Injection(1..n, 1..n)
  BY <1>3, <1>4, Fun_IsInj
<1>6. f \in Surjection(1..n, 1..n)
  BY <1>5, FS_Injection, FS_Interval
<1>7. \E i \in 1..n : f[i] = k
  BY <1>6, Fun_SurjectionProperties
<1>8. \E i \in DOMAIN s : RankOf(s, i) = k
  BY <1>7 DEF Fits, f
<1>9. PlaceOf(s, k) \in DOMAIN s /\ RankOf(s, PlaceOf(s, k)) = k
  BY <1>8 DEF PlaceOf
<1> QED BY <1>9 DEF Fits

\* No later individual is better than an earlier one.
Ordered(s) == \A k, l \in DOMAIN s : k < l => ~Less(s[l].fit, s[k].fit)

\* Sorted returns the individuals it was given, in order.
LEMMA SortedIsOrdered ==
  ASSUME NEW n \in Nat, NEW s, Fits(s, n)
  PROVE  /\ DOMAIN Sorted(s) = 1..n
         /\ \A k \in 1..n : \E i \in 1..n : Sorted(s)[k] = s[i]
         /\ Ordered(Sorted(s))
<1>1. DOMAIN Sorted(s) = 1..n /\ \A k \in 1..n : Sorted(s)[k] = s[PlaceOf(s, k)]
  BY SortedByPlace DEF Fits
<1>2. \A k \in 1..n : \E i \in 1..n : Sorted(s)[k] = s[i]
  BY <1>1, PlacesExist
<1>3. ASSUME NEW k \in 1..n, NEW l \in 1..n, k < l
      PROVE  ~Less(Sorted(s)[l].fit, Sorted(s)[k].fit)
  <2> DEFINE i == PlaceOf(s, k)
             j == PlaceOf(s, l)
  <2>1. i \in 1..n /\ j \in 1..n /\ RankOf(s, i) = k /\ RankOf(s, j) = l
    BY PlacesExist
  <2> HIDE DEF i, j
  <2>2. ~SortsBefore(s, j, i)
    <3>1. SortsBefore(s, j, i) => l < k
      BY <2>1, RanksAreOrdered
    <3> QED BY <1>3, <3>1
  <2>3. ~Less(s[j].fit, s[i].fit)
    BY <2>2 DEF SortsBefore
  <2> QED BY <1>1, <2>3 DEF i, j
<1> QED BY <1>1, <1>2, <1>3 DEF Ordered

\* If the list begins with the first m of an ordered list, no rank up to m is
\* worse after sorting.
LEMMA SortingKeepsElites ==
  ASSUME NEW n \in Nat, NEW s, Fits(s, n), NEW old, Ordered(old),
         NEW m \in 1..n, 1..m \subseteq DOMAIN old, \A k \in 1..m : s[k] = old[k],
         NEW k \in 1..m
  PROVE  ~Less(old[k].fit, Sorted(s)[k].fit)
<1> DEFINE i == PlaceOf(s, k)
<1>1. k \in 1..n /\ Sorted(s)[k] = s[i] /\ i \in 1..n /\ RankOf(s, i) = k
  BY SortedByPlace, PlacesExist DEF Fits
<1> HIDE DEF i
<1> SUFFICES ASSUME Less(s[k].fit, s[i].fit) PROVE FALSE
  BY <1>1
<1>2. ASSUME NEW j \in 1..k PROVE Less(s[j].fit, s[i].fit)
  <2>1. j \in 1..m /\ j \in 1..n /\ j <= k
    OBVIOUS
  <2>2. ~Less(s[k].fit, s[j].fit)
    <3>1. CASE j = k
      BY <1>1, <3>1, SortingIsStrictOrder DEF SortsBefore
    <3>2. CASE j < k
      BY <2>1, <3>2 DEF Ordered
    <3> QED BY <2>1, <3>1, <3>2
  <2> DEFINE a == s[j].fit
             b == s[k].fit
             c == s[i].fit
  <2>3. a \in Int \X Int /\ b \in Int \X Int /\ c \in Int \X Int
    BY <1>1, <2>1 DEF Fits
  <2>4. Less(b, c) /\ ~Less(b, a)
    BY <2>2
  <2> HIDE DEF a, b, c
  <2>5. Less(a, c)
    BY <2>3, <2>4 DEF Less
  <2> QED BY <2>5 DEF a, c
<1>3. 1..k \subseteq Earlier(s, i)
  BY <1>1, <1>2 DEF Earlier, SortsBefore, Fits
<1>4. IsFiniteSet(Earlier(s, i))
  <2>1. IsFiniteSet(1..n)
    BY FS_Interval
  <2>2. Earlier(s, i) \subseteq 1..n
    BY DEF Earlier, Fits
  <2> QED BY <2>1, <2>2, FS_Subset
<1>5. Cardinality(1..k) = k
  BY FS_Interval
<1>6. k <= Cardinality(Earlier(s, i)) /\ Cardinality(Earlier(s, i)) \in Nat
  BY <1>3, <1>4, <1>5, FS_Subset, FS_CardinalityType
<1> QED BY <1>1, <1>6 DEF RankOf

(***************************************************************************)
(* The greedy construction's own count of conflicts.                       *)
(***************************************************************************)
LEMMA WithIsPartial ==
  ASSUME NEW p, NEW s, Partial(p, s), NEW e \in Events(p), NEW c \in p.event[e].cands
  PROVE  /\ Partial(p, With(s, e, c)) /\ DOMAIN With(s, e, c) = DOMAIN s \cup {e}
         /\ With(s, e, c)[e] = c
         /\ \A f \in DOMAIN s : f # e => With(s, e, c)[f] = s[f]
BY DEF Partial, With

\* Placing an event does not undo a conflict.
LEMMA ConflictsGrow ==
  ASSUME NEW p, WellFormed(p), NEW s, Partial(p, s),
         NEW e \in Events(p) \ DOMAIN s, NEW c \in p.event[e].cands
  PROVE  Conflicts(p, s) \subseteq Conflicts(p, With(s, e, c))
<1> DEFINE t == With(s, e, c)
<1>1. Partial(p, t) /\ DOMAIN s \subseteq DOMAIN t /\ \A f \in DOMAIN s : t[f] = s[f]
  <2>1. /\ Partial(p, t) /\ DOMAIN t = DOMAIN s \cup {e}
        /\ \A f \in DOMAIN s : f # e => t[f] = s[f]
    BY WithIsPartial
  <2> HIDE DEF t
  <2> QED BY <2>1
<1> HIDE DEF t
<1>2. ASSUME NEW v \in ResourceConflicts(p, s) PROVE v \in ResourceConflicts(p, t)
  <2>1. PICK f \in DOMAIN s, h \in DOMAIN s :
          \E q \in Resources(p, f, s[f]) \cap Resources(p, h, s[h]) :
            v = <<"conflict", q, <<f, h>>>> /\ f < h /\ s[f].atoms \cap s[h].atoms # {}
    BY ResourceConflictMember
  <2>2. t[f] = s[f] /\ t[h] = s[h] /\ f \in DOMAIN t /\ h \in DOMAIN t
    BY <1>1
  <2>3. \E q \in Resources(p, f, t[f]) \cap Resources(p, h, t[h]) :
            v = <<"conflict", q, <<f, h>>>> /\ f < h /\ t[f].atoms \cap t[h].atoms # {}
    BY <2>1, <2>2
  <2> QED BY <1>1, <2>2, <2>3, ResourceConflictMember
<1>3. ASSUME NEW v \in DistinctDayConflicts(p, s) PROVE v \in DistinctDayConflicts(p, t)
  <2>1. PICK f \in DOMAIN s, h \in DOMAIN s :
             /\ v = <<"distinct_day", p.event[f].group, <<f, h>>>> /\ f < h
             /\ p.event[f].group # NoGroup /\ p.event[h].group = p.event[f].group
             /\ Day(s[f]) = Day(s[h])
    BY DistinctDayMember
  <2>2. t[f] = s[f] /\ t[h] = s[h] /\ f \in DOMAIN t /\ h \in DOMAIN t
    BY <1>1
  <2>3. Day(t[f]) = Day(t[h])
    BY <2>1, <2>2
  <2> QED BY <1>1, <2>1, <2>2, <2>3, DistinctDayMember
<1> QED BY <1>2, <1>3 DEF Conflicts, t

\* The pair of two events, the smaller first.
PairOf(e, f) == IF e < f THEN <<e, f>> ELSE <<f, e>>
\* The violation the validator reports for an entry of the incremental count.
Reported(e, x) ==
  IF x[1][1] = "distinct_day" THEN <<"distinct_day", x[1][2], PairOf(e, x[2])>>
                              ELSE <<"conflict", x[1], PairOf(e, x[2])>>

LEMMA IncrementalMember ==
  ASSUME NEW p, NEW s, NEW e, NEW c, NEW x
  PROVE  x \in IncrementalConflicts(p, s, e, c) <=>
           \E f \in DOMAIN s :
             \/ \E q \in Resources(p, e, c) \cap Resources(p, f, s[f]) :
                  x = <<q, f>> /\ s[f].atoms \cap c.atoms # {}
             \/ /\ x = << <<"distinct_day", p.event[e].group>>, f>>
                /\ p.event[e].group # NoGroup /\ p.event[f].group = p.event[e].group
                /\ Day(s[f]) = Day(c)
<1> DEFINE A == { y \in Resources(p, e, c) \X DOMAIN s :
                    y[1] \in Resources(p, y[2], s[y[2]]) /\ s[y[2]].atoms \cap c.atoms # {} }
           H == { h \in DOMAIN s : /\ p.event[e].group # NoGroup
                                   /\ p.event[h].group = p.event[e].group
                                   /\ Day(s[h]) = Day(c) }
           B == { << <<"distinct_day", p.event[e].group>>, f>> : f \in H }
<1>1. IncrementalConflicts(p, s, e, c) = A \cup B
  BY DEF IncrementalConflicts
<1>2. x \in A <=> \E f \in DOMAIN s : \E q \in Resources(p, e, c) \cap Resources(p, f, s[f]) :
                     x = <<q, f>> /\ s[f].atoms \cap c.atoms # {}
  OBVIOUS
<1>3. x \in B <=> \E f \in DOMAIN s :
                    /\ x = << <<"distinct_day", p.event[e].group>>, f>>
                    /\ p.event[e].group # NoGroup /\ p.event[f].group = p.event[e].group
                    /\ Day(s[f]) = Day(c)
  OBVIOUS
<1> HIDE DEF A, B
<1> QED BY <1>1, <1>2, <1>3

LEMMA ResourceTags ==
  ASSUME NEW p, NEW e, NEW c, NEW q \in Resources(p, e, c)
  PROVE  q = <<q[1], q[2]>> /\ q[1] # "distinct_day"
BY DEF Resources

\* An entry of the incremental count is reported as one new violation.
LEMMA ReportedIsNew ==
  ASSUME NEW p, WellFormed(p), NEW s, Partial(p, s),
         NEW e \in Events(p) \ DOMAIN s, NEW c \in p.event[e].cands,
         NEW x \in IncrementalConflicts(p, s, e, c)
  PROVE  Reported(e, x) \in Conflicts(p, With(s, e, c)) \ Conflicts(p, s)
<1> DEFINE t == With(s, e, c)
<1>1. /\ Partial(p, t) /\ DOMAIN t = DOMAIN s \cup {e} /\ t[e] = c
      /\ \A f \in DOMAIN s : t[f] = s[f]
  BY WithIsPartial
<1> HIDE DEF t
<1>2. e \in Int /\ \A f \in DOMAIN s : f \in Int /\ f # e
  BY DEF Partial, WellFormed
<1>3. PICK f \in DOMAIN s :
        \/ \E q \in Resources(p, e, c) \cap Resources(p, f, s[f]) :
             x = <<q, f>> /\ s[f].atoms \cap c.atoms # {}
        \/ /\ x = << <<"distinct_day", p.event[e].group>>, f>>
           /\ p.event[e].group # NoGroup /\ p.event[f].group = p.event[e].group
           /\ Day(s[f]) = Day(c)
  BY IncrementalMember
<1>4. f \in Int /\ f # e /\ t[f] = s[f] /\ t[e] = c /\ f \in DOMAIN t /\ e \in DOMAIN t
  BY <1>1, <1>2
<1>5. ASSUME NEW q \in Resources(p, e, c) \cap Resources(p, f, s[f]),
             x = <<q, f>>, s[f].atoms \cap c.atoms # {}
      PROVE  Reported(e, x) \in Conflicts(p, t) \ Conflicts(p, s)
  <2> DEFINE v == <<"conflict", q, PairOf(e, f)>>
  <2>1. Reported(e, x) = v
    <3>1. x[1] = q /\ x[2] = f /\ q[1] # "distinct_day"
      BY <1>5, ResourceTags
    <3> QED BY <3>1 DEF Reported
  <2>2. v \in ResourceConflicts(p, t)
    <3>1. CASE e < f
      <4>1. v = <<"conflict", q, <<e, f>>>>
        BY <3>1 DEF PairOf
      <4>2. q \in Resources(p, e, t[e]) \cap Resources(p, f, t[f]) /\ t[e].atoms \cap t[f].atoms # {}
        BY <1>4, <1>5
      <4> QED BY <1>1, <1>4, <3>1, <4>1, <4>2, ResourceConflictMember
    <3>2. CASE ~(e < f)
      <4>1. v = <<"conflict", q, <<f, e>>>> /\ f < e
        BY <1>2, <1>4, <3>2 DEF PairOf
      <4>2. q \in Resources(p, f, t[f]) \cap Resources(p, e, t[e]) /\ t[f].atoms \cap t[e].atoms # {}
        BY <1>4, <1>5
      <4> QED BY <1>1, <1>4, <4>1, <4>2, ResourceConflictMember
    <3> QED BY <3>1, <3>2
  <2>3. v \notin Conflicts(p, s)
    <3>1. v \notin DistinctDayConflicts(p, s)
      <4>1. \A g, pair : v # <<"distinct_day", g, pair>>
        OBVIOUS
      <4> QED BY <4>1, DistinctDayMember
    <3>2. v \notin ResourceConflicts(p, s)
      <4> SUFFICES ASSUME v \in ResourceConflicts(p, s) PROVE FALSE
        OBVIOUS
      <4>1. PICK a \in DOMAIN s, b \in DOMAIN s : \E r : v = <<"conflict", r, <<a, b>>>>
        BY ResourceConflictMember
      <4>2. PairOf(e, f) = <<a, b>>
        BY <4>1
      <4>3. e \in {a, b}
        BY <4>2 DEF PairOf
      <4> QED BY <4>3
    <3> QED BY <3>1, <3>2 DEF Conflicts
  <2> QED BY <2>1, <2>2, <2>3 DEF Conflicts
<1>6. ASSUME x = << <<"distinct_day", p.event[e].group>>, f>>,
             p.event[e].group # NoGroup, p.event[f].group = p.event[e].group,
             Day(s[f]) = Day(c)
      PROVE  Reported(e, x) \in Conflicts(p, t) \ Conflicts(p, s)
  <2> DEFINE v == <<"distinct_day", p.event[e].group, PairOf(e, f)>>
  <2>1. Reported(e, x) = v
    <3>1. x[1] = <<"distinct_day", p.event[e].group>> /\ x[2] = f
      BY <1>6
    <3> QED BY <3>1 DEF Reported
  <2>2. v \in DistinctDayConflicts(p, t)
    <3>1. CASE e < f
      <4>1. v = <<"distinct_day", p.event[e].group, <<e, f>>>>
        BY <3>1 DEF PairOf
      <4>2. Day(t[e]) = Day(t[f])
        BY <1>4, <1>6
      <4> QED BY <1>1, <1>4, <1>6, <3>1, <4>1, <4>2, DistinctDayMember
    <3>2. CASE ~(e < f)
      <4>1. v = <<"distinct_day", p.event[f].group, <<f, e>>>> /\ f < e
        BY <1>2, <1>4, <1>6, <3>2 DEF PairOf
      <4>2. Day(t[f]) = Day(t[e])
        BY <1>4, <1>6
      <4> QED BY <1>1, <1>4, <1>6, <4>1, <4>2, DistinctDayMember
    <3> QED BY <3>1, <3>2
  <2>3. v \notin Conflicts(p, s)
    <3>1. v \notin ResourceConflicts(p, s)
      <4>1. \A r, pair : v # <<"conflict", r, pair>>
        OBVIOUS
      <4> QED BY <4>1, ResourceConflictMember
    <3>2. v \notin DistinctDayConflicts(p, s)
      <4> SUFFICES ASSUME v \in DistinctDayConflicts(p, s) PROVE FALSE
        OBVIOUS
      <4>1. PICK a \in DOMAIN s, b \in DOMAIN s : \E g : v = <<"distinct_day", g, <<a, b>>>>
        BY DistinctDayMember
      <4>2. PairOf(e, f) = <<a, b>>
        BY <4>1
      <4>3. e \in {a, b}
        BY <4>2 DEF PairOf
      <4> QED BY <4>3
    <3> QED BY <3>1, <3>2 DEF Conflicts
  <2> QED BY <2>1, <2>2, <2>3 DEF Conflicts
<1> QED BY <1>3, <1>5, <1>6 DEF t

\* Every new violation is the report of an entry.
LEMMA NewIsReported ==
  ASSUME NEW p, WellFormed(p), NEW s, Partial(p, s),
         NEW e \in Events(p) \ DOMAIN s, NEW c \in p.event[e].cands,
         NEW v \in Conflicts(p, With(s, e, c)) \ Conflicts(p, s)
  PROVE  \E x \in IncrementalConflicts(p, s, e, c) : v = Reported(e, x)
<1> DEFINE t == With(s, e, c)
<1>1. /\ Partial(p, t) /\ DOMAIN t = DOMAIN s \cup {e} /\ t[e] = c
      /\ \A f \in DOMAIN s : t[f] = s[f]
  BY WithIsPartial
<1> HIDE DEF t
<1>2. e \in Int /\ \A f \in DOMAIN s : f \in Int /\ f # e
  BY DEF Partial, WellFormed
<1>3. ASSUME v \in ResourceConflicts(p, t)
      PROVE  \E x \in IncrementalConflicts(p, s, e, c) : v = Reported(e, x)
  <2>1. PICK a \in DOMAIN t, b \in DOMAIN t :
          \E q \in Resources(p, a, t[a]) \cap Resources(p, b, t[b]) :
            v = <<"conflict", q, <<a, b>>>> /\ a < b /\ t[a].atoms \cap t[b].atoms # {}
    BY <1>1, <1>3, ResourceConflictMember
  <2> PICK q \in Resources(p, a, t[a]) \cap Resources(p, b, t[b]) :
            v = <<"conflict", q, <<a, b>>>> /\ a < b /\ t[a].atoms \cap t[b].atoms # {}
    BY <2>1
  <2>2. a = e \/ b = e
    <3> SUFFICES ASSUME a # e, b # e PROVE FALSE
      OBVIOUS
    <3>1. a \in DOMAIN s /\ b \in DOMAIN s /\ t[a] = s[a] /\ t[b] = s[b]
      BY <1>1
    <3>2. v \in ResourceConflicts(p, s)
      BY <3>1, ResourceConflictMember
    <3> QED BY <3>2 DEF Conflicts
  <2>3. q[1] # "distinct_day"
    BY ResourceTags
  <2>4. CASE a = e
    <3>1. b \in DOMAIN s /\ t[b] = s[b] /\ t[a] = c
      BY <1>1, <1>2, <2>4
    <3>2. <<q, b>> \in IncrementalConflicts(p, s, e, c)
      BY <2>4, <3>1, IncrementalMember
    <3>3. v = Reported(e, <<q, b>>)
      BY <2>3, <2>4 DEF Reported, PairOf
    <3> QED BY <3>2, <3>3
  <2>5. CASE b = e
    <3>1. a \in DOMAIN s /\ t[a] = s[a] /\ t[b] = c /\ a \in Int /\ e \in Int
      BY <1>1, <1>2, <2>5
    <3>2. <<q, a>> \in IncrementalConflicts(p, s, e, c)
      BY <2>5, <3>1, IncrementalMember
    <3>3. v = Reported(e, <<q, a>>)
      BY <2>3, <2>5, <3>1 DEF Reported, PairOf
    <3> QED BY <3>2, <3>3
  <2> QED BY <2>2, <2>4, <2>5
<1>4. ASSUME v \in DistinctDayConflicts(p, t)
      PROVE  \E x \in IncrementalConflicts(p, s, e, c) : v = Reported(e, x)
  <2>1. PICK a \in DOMAIN t, b \in DOMAIN t :
             /\ v = <<"distinct_day", p.event[a].group, <<a, b>>>> /\ a < b
             /\ p.event[a].group # NoGroup /\ p.event[b].group = p.event[a].group
             /\ Day(t[a]) = Day(t[b])
    BY <1>1, <1>4, DistinctDayMember
  <2>2. a = e \/ b = e
    <3> SUFFICES ASSUME a # e, b # e PROVE FALSE
      OBVIOUS
    <3>1. a \in DOMAIN s /\ b \in DOMAIN s /\ t[a] = s[a] /\ t[b] = s[b]
      BY <1>1
    <3>2. v \in DistinctDayConflicts(p, s)
      BY <2>1, <3>1, DistinctDayMember
    <3> QED BY <3>2 DEF Conflicts
  <2> DEFINE q == <<"distinct_day", p.event[e].group>>
  <2>4. CASE a = e
    <3>1. b \in DOMAIN s /\ t[b] = s[b] /\ t[a] = c
      BY <1>1, <1>2, <2>1, <2>4
    <3>2. <<q, b>> \in IncrementalConflicts(p, s, e, c)
      BY <2>1, <2>4, <3>1, IncrementalMember
    <3>3. v = Reported(e, <<q, b>>)
      BY <2>1, <2>4 DEF Reported, PairOf
    <3> QED BY <3>2, <3>3
  <2>5. CASE b = e
    <3>1. a \in DOMAIN s /\ t[a] = s[a] /\ t[b] = c /\ a \in Int /\ e \in Int
      BY <1>1, <1>2, <2>1, <2>5
    <3>2. <<q, a>> \in IncrementalConflicts(p, s, e, c)
      BY <2>1, <2>5, <3>1, IncrementalMember
    <3>3. v = Reported(e, <<q, a>>)
      BY <2>1, <2>5, <3>1 DEF Reported, PairOf
    <3> QED BY <3>2, <3>3
  <2> QED BY <2>2, <2>4, <2>5
<1> QED BY <1>3, <1>4 DEF Conflicts, t

LEMMA ReportsDiffer ==
  ASSUME NEW p, WellFormed(p), NEW s, Partial(p, s),
         NEW e \in Events(p) \ DOMAIN s, NEW c \in p.event[e].cands,
         NEW x \in IncrementalConflicts(p, s, e, c), NEW y \in IncrementalConflicts(p, s, e, c),
         Reported(e, x) = Reported(e, y)
  PROVE  x = y
<1>1. e \in Int /\ \A f \in DOMAIN s : f \in Int /\ f # e
  BY DEF Partial, WellFormed
<1>2. ASSUME NEW z \in IncrementalConflicts(p, s, e, c)
      PROVE  /\ z = <<z[1], z[2]>> /\ z[2] \in Int /\ z[2] # e
             /\ z[1] = <<z[1][1], z[1][2]>>
  <2>1. PICK f \in DOMAIN s :
        \/ \E q \in Resources(p, e, c) \cap Resources(p, f, s[f]) : z = <<q, f>>
        \/ z = << <<"distinct_day", p.event[e].group>>, f>>
    BY IncrementalMember
  <2>2. ASSUME NEW q \in Resources(p, e, c), z = <<q, f>>
        PROVE  z = <<z[1], z[2]>> /\ z[2] = f /\ z[1] = <<z[1][1], z[1][2]>>
    BY <2>2, ResourceTags
  <2>3. z = << <<"distinct_day", p.event[e].group>>, f>> =>
          z = <<z[1], z[2]>> /\ z[2] = f /\ z[1] = <<z[1][1], z[1][2]>>
    OBVIOUS
  <2> QED BY <1>1, <2>1, <2>2, <2>3
<1>3. PairOf(e, x[2]) = PairOf(e, y[2])
  BY DEF Reported
<1>4. x[2] = y[2]
  BY <1>1, <1>2, <1>3 DEF PairOf
<1>5. x[1] = y[1]
  <2>1. CASE x[1][1] = "distinct_day"
    <3>1. y[1][1] = "distinct_day"
      BY <2>1 DEF Reported
    <3>2. x[1][2] = y[1][2]
      BY <2>1, <3>1 DEF Reported
    <3> QED BY <1>2, <2>1, <3>1, <3>2
  <2>2. CASE x[1][1] # "distinct_day"
    <3>1. y[1][1] # "distinct_day"
      BY <2>2 DEF Reported
    <3> QED BY <2>2, <3>1 DEF Reported
  <2> QED BY <2>1, <2>2
<1> QED BY <1>2, <1>4, <1>5

\* Placing an event adds exactly the conflicts that were counted.
LEMMA CountedIsAdded ==
  ASSUME NEW p, WellFormed(p), NEW s, Partial(p, s),
         NEW e \in Events(p) \ DOMAIN s, NEW c \in p.event[e].cands
  PROVE  Cardinality(Conflicts(p, With(s, e, c)))
           = Cardinality(Conflicts(p, s)) + Cardinality(IncrementalConflicts(p, s, e, c))
<1> DEFINE Before == Conflicts(p, s)
           After == Conflicts(p, With(s, e, c))
           New == After \ Before
           Counted == IncrementalConflicts(p, s, e, c)
           f == [x \in Counted |-> Reported(e, x)]
<1>1. IsFiniteSet(Before) /\ IsFiniteSet(After)
  BY WithIsPartial, FiniteConflicts
<1>2. Before \subseteq After
  BY ConflictsGrow
<1>3. f \in Injection(Counted, New) /\ f \in Surjection(Counted, New)
  <2>1. f \in [Counted -> New]
    BY ReportedIsNew
  <2>2. \A x, y \in Counted : f[x] = f[y] => x = y
    BY ReportsDiffer
  <2>3. \A v \in New : \E x \in Counted : f[x] = v
    BY NewIsReported
  <2> HIDE DEF f, Counted, New
  <2> QED BY <2>1, <2>2, <2>3, Fun_IsInj, Fun_IsSurj
<1> HIDE DEF f, Counted, Before, After
<1>4. IsFiniteSet(New)
  BY <1>1, FS_Difference
<1>5. Cardinality(Counted) = Cardinality(New)
  BY <1>3, <1>4, FS_Injection
<1>6. Cardinality(New) = Cardinality(After) - Cardinality(After \cap Before)
  BY <1>1, FS_Difference
<1>7. After \cap Before = Before
  BY <1>2
<1>8. Cardinality(After) = Cardinality(Before) + Cardinality(Counted)
  <2>1. Cardinality(After) \in Nat /\ Cardinality(Before) \in Nat
    BY <1>1, FS_CardinalityType
  <2>2. Cardinality(After \cap Before) = Cardinality(Before)
    BY <1>7
  <2> HIDE DEF New
  <2> QED BY <1>5, <1>6, <2>1, <2>2
<1> QED BY <1>8 DEF After, Before, Counted

(***************************************************************************)
(* The inductive invariant of the search.                                  *)
(***************************************************************************)
\* From Build on the snapshot is the builder's.
Loaded ==
  /\ job \in DOMAIN Job
  /\ pc \notin {"build", "refused"} =>
       /\ Buildable(Job[job].revision, Job[job].weights)
       /\ problem = Problem(Job[job].revision, Job[job].weights)

\* The individuals a search may hold: chromosomes that keep the locks, each
\* with its own fitness.
Keeps(p, g) == \A e \in DOMAIN p.lock : g[e] = p.lock[e]
Pool(p, fit) ==
  { [genes |-> g, fit |-> fit[g]] : g \in { h \in Chromosomes(p) : Keeps(p, h) } }
FitnessOf(p) == [g \in Chromosomes(p) |-> Evaluate(p, g)]

\* Nothing is under way, or CP-SAT has answered.
Idle ==
  /\ pc \in {"build", "refused", "solve", "start", "done"}
  /\ draft = Empty /\ pop = <<>> /\ next = <<>> /\ best = {} /\ child = {} /\ scan = {}

\* The greedy construction has placed events on candidates, locked ones on their locks.
DraftOK ==
  /\ draft = [e \in DOMAIN draft |-> draft[e]] /\ Partial(problem, draft)
  /\ \A e \in DOMAIN draft \cap DOMAIN problem.lock : draft[e] = problem.lock[e]
\* A scan is at a free event and tries candidates of that event.
ScanOK(x) ==
  /\ x = [at |-> x.at, rest |-> x.rest, todo |-> x.todo, top |-> x.top]
  /\ x.at \in Events(problem) \ DOMAIN problem.lock
  /\ x.rest \subseteq Events(problem) \ DOMAIN problem.lock
  /\ x.todo \subseteq problem.event[x.at].cands
  /\ x.top \in Pool(problem, fitness)
Contents ==
  /\ pop \in Seq(Pool(problem, fitness)) /\ next \in Seq(Pool(problem, fitness))
  /\ best \subseteq Pool(problem, fitness) /\ \A a, b \in best : a = b
  /\ child \subseteq Pool(problem, fitness) /\ \A a, b \in child : a = b
  /\ \A x \in scan : ScanOK(x)
  /\ IF pc = "greedy" THEN DraftOK /\ best = {} ELSE draft = Empty

\* How far each phase is.  The elites stand at the front of the next population
\* from StartGeneration to CloseGeneration.
Sizes ==
  /\ Len(pop) <= PopulationSize /\ Len(next) <= PopulationSize
  /\ pc = "greedy" => Len(pop) < PopulationSize
  /\ pc # "greedy" => Ordered(pop)
  /\ pc = "generation" /\ ~late => Len(pop) = PopulationSize
  /\ pc \in {"breed", "repair", "scan"} =>
       /\ Len(pop) = PopulationSize /\ EliteCount <= Len(next)
       /\ \A k \in 1..EliteCount : next[k] = pop[k]
  /\ pc \in {"repair", "scan"} => Len(next) < PopulationSize
Searching ==
  /\ pc \in {"greedy", "generation", "breed", "repair", "scan", "done"}
  /\ fitness = FitnessOf(problem)
  /\ Contents /\ Sizes

Counters ==
  /\ tries \in 0..RepairAttempts /\ (pc = "scan" => tries > 0)
  /\ gen \in Nat /\ late \in BOOLEAN /\ seen \in BOOLEAN

Answered ==
  /\ pc # "done" => answer = {}
  /\ AnswerIsTrue
  /\ \A a \in answer : a.vector # {} => Keeps(problem, Resolved(problem, a.vector))

IInv == Loaded /\ (Idle \/ Searching) /\ Counters /\ Answered

\* What a built problem gives the engines.
Sound(p) == WellFormed(p) /\ Faultless(p)

LEMMA BuiltIsSound ==
  ASSUME NEW t, NEW w, RowsOK(t), WeightsOK(w), Buildable(t, w), NEW p, p = Problem(t, w)
  PROVE  Sound(p)
<1>1. WellFormed(p)
  BY BuiltIsWellFormed
<1>2. ASSUME NEW e \in Events(p), NEW c \in p.event[e].cands PROVE LocalFaults(p, e, c) = {}
  <2>1. Events(p) = DOMAIN t.meeting
    BY BuiltParts
  <2>2. p.event[e].cands = Candidates(t, e)
    BY <2>1, BuiltParts
  <2>3. Candidates(t, e) =
          { d \in Placements(t, e) : LocalFaults(Problem(t, w), e, d) = {} /\ Locked(t, e, d) }
    BY <2>1, BuildableProfiles, BuilderIsExact
  <2> QED BY <2>2, <2>3
<1> QED BY <1>1, <1>2 DEF Faultless, Sound

LEMMA LoadedIsSound ==
  ASSUME Loaded, pc \notin {"build", "refused"}
  PROVE  /\ Sound(problem)
         /\ DOMAIN problem.lock = DOMAIN Job[job].revision.pin \cap Events(problem)
         /\ \A e \in DOMAIN problem.lock :
              /\ problem.lock[e] \in problem.event[e].cands
              /\ Job[job].revision.pin[e] = [room |-> problem.lock[e].room, start |-> problem.lock[e].start]
<1> DEFINE t == Job[job].revision
           w == Job[job].weights
<1>1. RowsOK(t) /\ WeightsOK(w)
  BY SearchAssumption DEF Loaded, WeightsOK
<1>2. Buildable(t, w) /\ problem = Problem(t, w)
  BY DEF Loaded
<1> HIDE DEF t, w
<1>3. Sound(problem)
  BY <1>1, <1>2, BuiltIsSound
<1>4. /\ DOMAIN problem.lock = DOMAIN t.pin \cap Events(problem)
      /\ \A e \in DOMAIN problem.lock :
           /\ problem.lock[e] \in problem.event[e].cands
           /\ t.pin[e] = [room |-> problem.lock[e].room, start |-> problem.lock[e].start]
  BY <1>1, <1>2, BuiltLocks
<1> QED BY <1>3, <1>4 DEF t

LEMMA PoolMember ==
  ASSUME NEW p, NEW fit, NEW i \in Pool(p, fit)
  PROVE  /\ i = [genes |-> i.genes, fit |-> i.fit]
         /\ i.genes \in Chromosomes(p) /\ Keeps(p, i.genes) /\ i.fit = fit[i.genes]
BY DEF Pool

LEMMA IndividualInPool ==
  ASSUME NEW g, g \in Chromosomes(problem), Keeps(problem, g)
  PROVE  /\ Individual(g) \in Pool(problem, fitness)
         /\ Individual(g).genes = g /\ Individual(g).fit = fitness[g]
BY DEF Individual, Pool

LEMMA PoolFits ==
  ASSUME NEW p, Sound(p), NEW i \in Pool(p, FitnessOf(p))
  PROVE  i.fit \in Nat \X Int /\ i.fit = Evaluate(p, i.genes)
<1>1. i.genes \in Chromosomes(p) /\ i.fit = FitnessOf(p)[i.genes]
  BY PoolMember
<1>2. i.fit = Evaluate(p, i.genes)
  BY <1>1 DEF FitnessOf
<1> QED BY <1>1, <1>2, FitnessIsPair DEF Sound

LEMMA LessIsStrict ==
  ASSUME NEW a \in Nat \X Int, NEW b \in Nat \X Int
  PROVE  ~Less(a, a) /\ (Less(a, b) => ~Less(b, a))
BY DEF Less

LEMMA EliteCountRange ==
  /\ PopulationSize \in Nat /\ PopulationSize >= 2 /\ EliteCount \in 1..PopulationSize
  /\ EliteCount = Max({1, Elites})
<1>1. PopulationSize \in Nat /\ PopulationSize >= 2 /\ Elites \in 0..PopulationSize
  BY SearchAssumption
<1> DEFINE S == {1, Elites}
<1>2. IsFiniteSet(S)
  <2>1. S = {1} \cup {Elites}
    OBVIOUS
  <2>2. IsFiniteSet({1} \cup {Elites})
    BY FS_Singleton, FS_Union
  <2> QED BY <2>1, <2>2
<1>3. S \subseteq Int /\ S # {} /\ 1 \in S /\ \A x \in S : x <= PopulationSize
  BY <1>1
<1>4. EliteCount = Max(S)
  BY DEF EliteCount
<1> HIDE DEF S
<1>5. Max(S) \in S /\ Max(S) >= 1
  BY <1>2, <1>3, GreatestInteger
<1> QED BY <1>1, <1>3, <1>4, <1>5 DEF S

\* What an action of the genetic algorithm starts from.
LEMMA SearchingNow ==
  ASSUME IInv, pc \in {"greedy", "generation", "breed", "repair", "scan"}
  PROVE  /\ Searching /\ Counters /\ Loaded /\ answer = {}
         /\ Sound(problem) /\ fitness = FitnessOf(problem)
         /\ \A i \in Pool(problem, fitness) : i.fit \in Nat \X Int
<1>1. Searching /\ Counters /\ Loaded /\ answer = {}
  BY DEF IInv, Idle, Answered
<1>2. Sound(problem)
  BY <1>1, LoadedIsSound
<1>3. fitness = FitnessOf(problem)
  BY <1>1 DEF Searching
<1> QED BY <1>1, <1>2, <1>3, PoolFits

\* What it has to show when it does not answer.
LEMMA SearchingStays ==
  ASSUME IInv, pc \in {"greedy", "generation", "breed", "repair", "scan"},
         UNCHANGED <<job, problem, answer>>,
         pc' \in {"greedy", "generation", "breed", "repair", "scan"}, Searching', Counters'
  PROVE  IInv'
<1>1. Loaded'
  BY DEF IInv, Loaded
<1>2. Answered'
  <2>1. answer' = {}
    BY SearchingNow
  <2> QED BY <2>1 DEF Answered, AnswerIsTrue
<1> QED BY <1>1, <1>2 DEF IInv

\* A list of individuals has fitness pairs, and so has what is appended to it.
LEMMA PoolListFits ==
  ASSUME NEW P, \A i \in P : i.fit \in Nat \X Int, NEW s \in Seq(P)
  PROVE  Fits(s, Len(s)) /\ Len(s) \in Nat /\ \A k \in 1..Len(s) : s[k] \in P
<1>1. Len(s) \in Nat /\ DOMAIN s = 1..Len(s) /\ \A k \in 1..Len(s) : s[k] \in P
  BY LenProperties, ElementOfSeq
<1>2. \A k \in 1..Len(s) : s[k].fit \in Int \X Int
  BY <1>1
<1> QED BY <1>1, <1>2 DEF Fits

\* The sorted list holds the same kind of individuals.
LEMMA SortedInPool ==
  ASSUME NEW P, \A i \in P : i.fit \in Nat \X Int, NEW s \in Seq(P)
  PROVE  Sorted(s) \in Seq(P) /\ Len(Sorted(s)) = Len(s) /\ Ordered(Sorted(s))
<1>1. Fits(s, Len(s)) /\ Len(s) \in Nat /\ \A k \in 1..Len(s) : s[k] \in P
  BY PoolListFits
<1>2. /\ DOMAIN Sorted(s) = 1..Len(s) /\ Ordered(Sorted(s))
      /\ \A k \in 1..Len(s) : \E i \in 1..Len(s) : Sorted(s)[k] = s[i]
  BY <1>1, SortedIsOrdered
<1>3. \A k \in 1..Len(s) : Sorted(s)[k] \in P
  BY <1>1, <1>2
<1>4. Sorted(s) = [k \in 1..Len(s) |-> Sorted(s)[k]]
  BY <1>2, SortedByPlace
<1>5. Sorted(s) \in [1..Len(s) -> P]
  BY <1>3, <1>4
<1>6. Sorted(s) \in Seq(P) /\ Len(Sorted(s)) = Len(s)
  <2> DEFINE r == Sorted(s)
             n == Len(s)
  <2> HIDE DEF r, n
  <2>1. r \in [1..n -> P] /\ n \in Nat
    BY <1>1, <1>5 DEF r, n
  <2>2. r \in Seq(P)
    BY <2>1
  <2>3. Len(r) = n
    BY <2>1
  <2> QED BY <2>2, <2>3 DEF r, n
<1> QED BY <1>2, <1>6

(***************************************************************************)
(* The actions preserve it.                                                *)
(***************************************************************************)
LEMMA EmptyDraft == DOMAIN Empty = {}
BY DEF Empty

LEMMA InitIInv == Init => IInv
<1> SUFFICES ASSUME Init PROVE IInv
  OBVIOUS
<1>1. Loaded /\ Idle
  BY DEF Init, Loaded, Idle
<1>2. Counters
  <2>1. RepairAttempts \in Nat
    BY SearchAssumption
  <2>2. tries \in 0..RepairAttempts /\ (pc = "scan" => tries > 0) /\ gen \in Nat
    BY <2>1 DEF Init
  <2>3. late \in BOOLEAN /\ seen \in BOOLEAN
    BY DEF Init
  <2> QED BY <2>2, <2>3 DEF Counters
<1>3. Answered
  BY DEF Init, Answered, AnswerIsTrue
<1> QED BY <1>1, <1>2, <1>3 DEF IInv

LEMMA BuildStep ==
  ASSUME IInv, Build
  PROVE  IInv'
<1>1. pc = "build" /\ Idle /\ Counters /\ answer = {} /\ job \in DOMAIN Job
  BY DEF Build, IInv, Searching, Answered, Loaded
<1>2. pc' \in {"solve", "start", "refused"} /\ UNCHANGED <<job, search, late, seen, answer>>
  BY DEF Build
<1>3. Loaded'
  BY <1>1 DEF Build, Loaded
<1>4. Idle'
  BY <1>1, <1>2 DEF Idle, search
<1>5. Counters'
  BY <1>1, <1>2 DEF Counters, search
<1>6. Answered'
  BY <1>1, <1>2 DEF Answered, AnswerIsTrue
<1> QED BY <1>3, <1>4, <1>5, <1>6 DEF IInv

LEMMA StartGeneticStep ==
  ASSUME IInv, StartGenetic
  PROVE  IInv'
<1>1. pc = "start" /\ Idle /\ Counters /\ answer = {} /\ Loaded
  BY DEF StartGenetic, IInv, Searching, Answered
<1>2. /\ pc' = "greedy" /\ fitness' = FitnessOf(problem)
      /\ UNCHANGED <<job, problem, draft, pop, next, best, gen, child, tries, scan, late, seen, answer>>
  BY DEF StartGenetic, FitnessOf, search
<1>3. Loaded'
  BY <1>1, <1>2 DEF Loaded
<1>4. Counters'
  BY <1>1, <1>2 DEF Counters
<1>5. Answered'
  BY <1>1, <1>2 DEF Answered, AnswerIsTrue
<1>6. /\ draft' = Empty /\ pop' = <<>> /\ next' = <<>> /\ best' = {} /\ child' = {} /\ scan' = {}
      /\ fitness' = FitnessOf(problem')
  BY <1>1, <1>2 DEF Idle
<1>7. Contents'
  <2>1. DraftOK'
    BY <1>6, EmptyDraft DEF DraftOK, Partial, Empty
  <2> QED BY <1>2, <1>6, <2>1 DEF Contents
<1>8. Sizes'
  BY <1>2, <1>6, EliteCountRange DEF Sizes
<1>9. Searching'
  BY <1>2, <1>6, <1>7, <1>8 DEF Searching
<1> QED BY <1>3, <1>4, <1>5, <1>9 DEF IInv

LEMMA GreedyPlaceStep ==
  ASSUME IInv, GreedyPlace
  PROVE  IInv'
<1>1. /\ pc = "greedy" /\ pc' = "greedy"
      /\ UNCHANGED <<job, problem, fitness, pop, next, best, gen, child, tries, scan, late, seen, answer>>
  BY DEF GreedyPlace
<1>2. /\ Searching /\ Counters /\ Loaded /\ Sound(problem)
      /\ Contents /\ Sizes /\ DraftOK
  BY <1>1, SearchingNow DEF Searching, Contents
<1>3. PICK e \in Events(problem) \ DOMAIN draft :
        \E d \in GreedyChoices(problem, draft, e) : draft' = With(draft, e, d)
  BY DEF GreedyPlace
<1>4. PICK c \in GreedyChoices(problem, draft, e) : draft' = With(draft, e, c)
  BY <1>3
<1>5. c \in problem.event[e].cands /\ (e \in DOMAIN problem.lock => c = problem.lock[e])
  <2>1. e \in DOMAIN problem.lock => problem.lock[e] \in problem.event[e].cands
    BY <1>1, <1>2, LoadedIsSound
  <2> QED BY <2>1 DEF GreedyChoices
<1>6. DraftOK'
  <2> DEFINE s == With(draft, e, c)
  <2>0. Partial(problem, draft) /\ e \in Events(problem) /\ e \notin DOMAIN draft
    BY <1>2 DEF DraftOK
  <2>1. /\ Partial(problem, s) /\ DOMAIN s = DOMAIN draft \cup {e}
        /\ s[e] = c /\ \A f \in DOMAIN draft : f # e => s[f] = draft[f]
    BY <1>5, <2>0, WithIsPartial
  <2>2. s = [f \in DOMAIN s |-> s[f]]
    BY DEF With
  <2> HIDE DEF s
  <2>3. \A f \in DOMAIN s \cap DOMAIN problem.lock : s[f] = problem.lock[f]
    BY <1>2, <1>5, <2>1 DEF DraftOK
  <2>4. draft' = s
    BY <1>4 DEF s
  <2> QED BY <1>1, <2>1, <2>2, <2>3, <2>4 DEF DraftOK
<1>7. Contents'
  BY <1>1, <1>2, <1>6 DEF Contents, ScanOK
<1>8. Sizes'
  BY <1>1, <1>2 DEF Sizes
<1>9. Searching' /\ Counters'
  BY <1>1, <1>2, <1>7, <1>8 DEF Searching, Counters
<1> QED BY <1>1, <1>9, SearchingStays

\* A complete draft is a chromosome that keeps the locks.
LEMMA DraftIsChromosome ==
  ASSUME DraftOK, DOMAIN draft = Events(problem),
         DOMAIN problem.lock \subseteq Events(problem)
  PROVE  draft \in Chromosomes(problem) /\ Keeps(problem, draft)
<1>1. \A e \in Events(problem) : draft[e] \in problem.event[e].cands
  BY DEF DraftOK, Partial
<1>2. draft \in [Events(problem) -> UNION { problem.event[e].cands : e \in Events(problem) }]
  BY <1>1 DEF DraftOK
<1> QED BY <1>1, <1>2 DEF Chromosomes, Keeps, DraftOK

LEMMA PopulateStep ==
  ASSUME IInv, Populate
  PROVE  IInv'
<1> DEFINE P == Pool(problem, fitness)
           grown == Append(pop, Individual(draft))
<1>1. /\ pc = "greedy" /\ DOMAIN draft = Events(problem) /\ draft' = Empty
      /\ seen' = (seen \/ Clean(Individual(draft)))
      /\ UNCHANGED <<job, problem, fitness, next, gen, child, tries, scan, late, answer>>
  BY DEF Populate
<1>2. /\ Searching /\ Counters /\ Loaded /\ Sound(problem)
      /\ Contents /\ Sizes /\ DraftOK /\ best = {}
      /\ \A i \in P : i.fit \in Nat \X Int
  BY <1>1, SearchingNow DEF Searching, Contents
<1>3. draft \in Chromosomes(problem) /\ Keeps(problem, draft)
  <2>1. DOMAIN problem.lock \subseteq Events(problem)
    BY <1>1, <1>2, LoadedIsSound
  <2> QED BY <1>1, <1>2, <2>1, DraftIsChromosome
<1>4. Individual(draft) \in P
  BY <1>3, IndividualInPool
<1>5. grown \in Seq(P) /\ Len(grown) = Len(pop) + 1 /\ Len(pop) \in Nat /\ Len(pop) < PopulationSize
  <2>1. pop \in Seq(P) /\ Len(pop) < PopulationSize
    BY <1>1, <1>2 DEF Contents, Sizes
  <2> HIDE DEF P
  <2> QED BY <1>4, <2>1
<1>6. Counters'
  <2>1. tries' \in 0..RepairAttempts /\ gen' \in Nat /\ pc' # "scan"
    BY <1>1, <1>2 DEF Counters, Populate
  <2>2. late' \in BOOLEAN /\ seen' \in BOOLEAN
    BY <1>1, <1>2 DEF Counters, Clean
  <2> QED BY <2>1, <2>2 DEF Counters
<1>7. P' = P
  BY <1>1
<1>8. /\ next' \in Seq(P) /\ Len(next') <= PopulationSize
      /\ child' \subseteq P /\ (\A a, b \in child' : a = b) /\ \A x \in scan' : ScanOK(x)'
  BY <1>1, <1>2 DEF Contents, Sizes, ScanOK
<1> HIDE DEF P, grown
<1>9. CASE pop' = grown /\ UNCHANGED <<pc, best>> /\ Len(grown) < PopulationSize
  <2>1. DraftOK'
    BY <1>1, EmptyDraft DEF DraftOK, Partial, Empty
  <2>2. Contents'
    BY <1>1, <1>2, <1>5, <1>7, <1>8, <1>9, <2>1 DEF Contents, P
  <2>3. Sizes'
    BY <1>1, <1>5, <1>8, <1>9, EliteCountRange DEF Sizes
  <2>4. Searching' /\ pc' = "greedy"
    BY <1>1, <1>2, <1>9, <2>2, <2>3 DEF Searching
  <2> QED BY <1>1, <1>6, <2>4, SearchingStays
<1>10. CASE /\ pop' = Sorted(grown) /\ best' = {pop'[1]} /\ pc' = "generation"
            /\ ~(Len(grown) < PopulationSize /\ (Len(grown) < MinimumInitialSize \/ ~late))
  <2>1. pop' \in Seq(P) /\ Len(pop') = Len(pop) + 1 /\ Ordered(pop')
    BY <1>2, <1>5, <1>10, SortedInPool
  <2>2. pop'[1] \in P
    BY <1>5, <2>1
  <2>3. ~late => Len(pop') = PopulationSize
    BY <1>5, <1>10, <2>1, EliteCountRange
  <2>4. Len(pop') <= PopulationSize
    BY <1>5, <2>1, EliteCountRange
  <2>5. Contents'
    BY <1>1, <1>7, <1>8, <1>10, <2>1, <2>2 DEF Contents, P
  <2>6. Sizes'
    BY <1>1, <1>8, <1>10, <2>1, <2>3, <2>4 DEF Sizes
  <2>7. Searching' /\ pc' = "generation"
    BY <1>1, <1>2, <1>10, <2>5, <2>6 DEF Searching
  <2> QED BY <1>1, <1>6, <2>7, SearchingStays
<1> QED BY <1>9, <1>10 DEF Populate, grown

LEMMA StartGenerationStep ==
  ASSUME IInv, StartGeneration
  PROVE  IInv'
<1> DEFINE P == Pool(problem, fitness)
           m == EliteCount
<1>1. /\ pc = "generation" /\ ~late /\ next' = SubSeq(pop, 1, EliteCount) /\ pc' = "breed"
      /\ UNCHANGED <<job, problem, fitness, draft, pop, best, gen, child, tries, scan, late, seen, answer>>
  BY DEF StartGeneration, GoOn
<1>2. /\ Searching /\ Counters /\ Contents /\ Sizes /\ pop \in Seq(P) /\ Len(pop) = PopulationSize
      /\ Ordered(pop)
  BY <1>1, SearchingNow DEF Searching, Contents, Sizes
<1>3. m \in 1..PopulationSize /\ PopulationSize \in Nat
  BY EliteCountRange
<1> HIDE DEF P, m
<1>4. \A k \in 1..m : pop[k] \in P
  BY <1>2, <1>3, ElementOfSeq
<1>5. /\ SubSeq(pop, 1, m) \in Seq(P) /\ Len(SubSeq(pop, 1, m)) = m
      /\ \A k \in 1..m : SubSeq(pop, 1, m)[k] = pop[k]
  <2>1. m \in Int /\ 1 \in Int /\ m >= 1
    BY <1>3
  <2>2. /\ SubSeq(pop, 1, m) \in Seq(P)
        /\ Len(SubSeq(pop, 1, m)) = IF 1 <= m THEN m - 1 + 1 ELSE 0
        /\ \A k \in 1 .. m - 1 + 1 : SubSeq(pop, 1, m)[k] = pop[1 + k - 1]
    BY <1>4, <2>1, SubSeqProperties
  <2> QED BY <2>1, <2>2
<1>6. next' \in Seq(P) /\ Len(next') = m /\ \A k \in 1..m : next'[k] = pop'[k]
  BY <1>1, <1>5 DEF m
<1>7. Contents'
  <2>1. \A x \in scan' : ScanOK(x)'
    BY <1>1, <1>2 DEF Contents, ScanOK
  <2> QED BY <1>1, <1>2, <1>6, <2>1 DEF Contents, P
<1>8. Sizes'
  <2>1. EliteCount' = m
    BY EliteCountRange DEF EliteCount, m
  <2> QED BY <1>1, <1>2, <1>3, <1>6, <2>1 DEF Sizes
<1>9. Searching'
  BY <1>1, <1>2, <1>7, <1>8 DEF Searching
<1>10. Counters'
  BY <1>1, <1>2 DEF Counters
<1> QED BY <1>1, <1>9, <1>10, SearchingStays

LEMMA BreedStep ==
  ASSUME IInv, Breed
  PROVE  IInv'
<1>1. /\ pc = "breed" /\ Len(next) < PopulationSize /\ pc' = "repair" /\ tries' = RepairAttempts
      /\ UNCHANGED <<job, problem, fitness, draft, pop, next, best, gen, scan, late, answer>>
  BY DEF Breed
<1>2. Searching /\ Counters /\ Contents /\ Sizes
  BY <1>1, SearchingNow DEF Searching
<1>3. PICK i \in Offspring : child' = {i} /\ seen' = (seen \/ Clean(i))
  BY DEF Breed
<1>4. i \in Pool(problem, fitness)
  <2>1. PICK g \in UNION { Mutated(problem, h) : h \in UNION { Crossed(problem, x[1].genes, x[2].genes) : x \in Winners \X Winners } } :
          i = Individual(g)
    BY DEF Offspring
  <2>2. g \in Chromosomes(problem) /\ Keeps(problem, g)
    BY DEF Mutated, Keeps
  <2> QED BY <2>1, <2>2, IndividualInPool
<1>5. Contents'
  <2>1. \A x \in scan' : ScanOK(x)'
    BY <1>1, <1>2 DEF Contents, ScanOK
  <2> QED BY <1>1, <1>2, <1>3, <1>4, <2>1 DEF Contents
<1>6. Sizes'
  <2>1. EliteCount' = EliteCount
    BY DEF EliteCount
  <2> QED BY <1>1, <1>2, <2>1 DEF Sizes
<1>7. Searching'
  BY <1>1, <1>2, <1>5, <1>6 DEF Searching
<1>8. Counters'
  <2>1. RepairAttempts \in Nat
    BY SearchAssumption
  <2>2. tries' \in 0..RepairAttempts /\ gen' \in Nat /\ pc' # "scan"
    BY <1>1, <1>2, <2>1 DEF Counters
  <2>3. late' \in BOOLEAN /\ seen' \in BOOLEAN
    BY <1>1, <1>2, <1>3 DEF Counters, Clean
  <2> QED BY <2>2, <2>3 DEF Counters
<1> QED BY <1>1, <1>7, <1>8, SearchingStays

LEMMA FinishStep ==
  ASSUME IInv, Finish
  PROVE  IInv'
<1>1. /\ pc = "generation" /\ answer' = { Verdict(i) : i \in best } /\ pc' = "done"
      /\ UNCHANGED <<job, problem, fitness, draft, pop, next, best, gen, child, tries, scan, late, seen>>
  BY DEF Finish, search
<1>2. /\ Searching /\ Counters /\ Loaded /\ Contents /\ Sizes /\ Sound(problem)
      /\ best \subseteq Pool(problem, fitness)
  BY <1>1, SearchingNow DEF Searching, Contents
<1>3. Loaded'
  BY <1>1, <1>2 DEF Loaded
<1>4. Searching'
  <2>1. Contents'
    BY <1>1, <1>2 DEF Contents, ScanOK
  <2>2. Sizes'
    BY <1>1, <1>2 DEF Sizes
  <2> QED BY <1>1, <1>2, <2>1, <2>2 DEF Searching
<1>5. Counters'
  BY <1>1, <1>2 DEF Counters
<1>6. ASSUME NEW a \in answer'
      PROVE  /\ a.status \in {"FEASIBLE", "NO_SOLUTION"}
             /\ a.status = "FEASIBLE" => Feasible(problem, a.vector)
             /\ Keeps(problem, Resolved(problem, a.vector))
  <2>1. PICK i \in best : a = Verdict(i)
    BY <1>1
  <2>2. i.genes \in Chromosomes(problem) /\ Keeps(problem, i.genes)
    BY <1>2, PoolMember
  <2>3. Resolved(problem, Vector(i.genes)) = i.genes
    BY <1>2, <2>2, VectorSelects DEF Sound
  <2>4. /\ a.vector = Vector(i.genes)
        /\ a.status = IF Feasible(problem, Vector(i.genes)) THEN "FEASIBLE" ELSE "NO_SOLUTION"
    BY <2>1 DEF Verdict
  <2> QED BY <2>2, <2>3, <2>4
<1>7. Answered'
  <2>1. AnswerIsTrue'
    BY <1>1, <1>6 DEF AnswerIsTrue
  <2> QED BY <1>1, <1>6, <2>1 DEF Answered
<1> QED BY <1>3, <1>4, <1>5, <1>7 DEF IInv

\* The next population, filled up from the old one.
LEMMA PaddedInPool ==
  ASSUME IInv, pc = "breed"
  PROVE  /\ Padded \in Seq(Pool(problem, fitness)) /\ Len(Padded) = PopulationSize
         /\ \A k \in 1..EliteCount : Padded[k] = pop[k]
<1> DEFINE P == Pool(problem, fitness)
           n == PopulationSize
<1>1. /\ pop \in Seq(P) /\ Len(pop) = n /\ next \in Seq(P) /\ EliteCount <= Len(next)
      /\ \A k \in 1..EliteCount : next[k] = pop[k]
  BY SearchingNow DEF Searching, Contents, Sizes
<1>2. n \in Nat /\ n >= 2 /\ EliteCount \in 1..n
  BY EliteCountRange
<1>3. Padded = [k \in 1..n |-> IF k <= Len(next) THEN next[k] ELSE pop[((k - 1) % Len(pop)) + 1]]
  BY DEF Padded
<1> HIDE DEF P, n
<1>4. Len(next) \in Nat
  BY <1>1, LenProperties
<1>5. ASSUME NEW k \in 1..n
      PROVE  (IF k <= Len(next) THEN next[k] ELSE pop[((k - 1) % Len(pop)) + 1]) \in P
  <2>1. k <= Len(next) => next[k] \in P
    BY <1>1, <1>4, ElementOfSeq
  <2>2. ((k - 1) % n) + 1 \in 1..n
    BY <1>2
  <2>3. pop[((k - 1) % n) + 1] \in P
    BY <1>1, <2>2, ElementOfSeq
  <2> QED BY <1>1, <2>1, <2>3
<1>6. Padded \in [1..n -> P]
  BY <1>3, <1>5
<1>7. Padded \in Seq(P) /\ Len(Padded) = n
  BY <1>2, <1>6
<1>8. ASSUME NEW k \in 1..EliteCount PROVE Padded[k] = pop[k]
  <2>1. k \in 1..n /\ k <= Len(next)
    BY <1>1, <1>2, <1>4
  <2> QED BY <1>1, <1>3, <2>1
<1> QED BY <1>7, <1>8 DEF P, n

LEMMA CloseGenerationStep ==
  ASSUME IInv, CloseGeneration
  PROVE  IInv'
<1> DEFINE P == Pool(problem, fitness)
           ranked == Sorted(Padded)
<1>1. /\ pc = "breed" /\ pop' = ranked /\ next' = <<>> /\ pc' = "generation"
      /\ best' = { IF Less(ranked[1].fit, b.fit) THEN ranked[1] ELSE b : b \in best }
      /\ gen' = IF Job[job].generations = 0 THEN 0 ELSE gen + 1
      /\ UNCHANGED <<job, problem, fitness, draft, child, tries, scan, late, seen, answer>>
  BY DEF CloseGeneration
<1>2. /\ Searching /\ Counters /\ Contents /\ Sizes /\ \A i \in P : i.fit \in Nat \X Int
  BY <1>1, SearchingNow DEF Searching
<1>3. ranked \in Seq(P) /\ Len(ranked) = PopulationSize /\ Ordered(ranked)
  BY <1>1, <1>2, PaddedInPool, SortedInPool
<1>4. PopulationSize \in Nat /\ PopulationSize >= 2
  BY EliteCountRange
<1> HIDE DEF ranked
<1>5. ranked[1] \in P
  <2> HIDE DEF P
  <2> QED BY <1>3, <1>4
<1>6. best' \subseteq P /\ \A a, b \in best' : a = b
  BY <1>1, <1>2, <1>5 DEF Contents
<1>7. Contents'
  <2>1. \A x \in scan' : ScanOK(x)'
    BY <1>1, <1>2 DEF Contents, ScanOK
  <2> QED BY <1>1, <1>2, <1>3, <1>6, <2>1 DEF Contents
<1>8. Sizes'
  BY <1>1, <1>3, <1>4 DEF Sizes
<1>9. Searching'
  BY <1>1, <1>2, <1>7, <1>8 DEF Searching
<1>10. Counters'
  BY <1>1, <1>2 DEF Counters
<1> QED BY <1>1, <1>9, <1>10, SearchingStays

\* _repair returns an individual and the caller appends it.
LEMMA KeepStep ==
  ASSUME IInv, pc \in {"repair", "scan"}, NEW c \in child, Keep(c),
         UNCHANGED <<job, problem, fitness, draft, pop, best, gen, late, seen, answer>>
  PROVE  IInv'
<1> DEFINE P == Pool(problem, fitness)
<1>1. next' = Append(next, c) /\ child' = {} /\ tries' = 0 /\ scan' = {} /\ pc' = "breed"
  BY DEF Keep
<1>2. Searching /\ Counters /\ Contents /\ Sizes
  BY SearchingNow DEF Searching
<1>3. /\ next \in Seq(P) /\ c \in P /\ Len(next) < PopulationSize /\ Len(pop) = PopulationSize
      /\ EliteCount <= Len(next) /\ \A k \in 1..EliteCount : next[k] = pop[k]
  BY <1>2 DEF Contents, Sizes
<1>4. PopulationSize \in Nat /\ EliteCount \in 1..PopulationSize
  BY EliteCountRange
<1>5. /\ next' \in Seq(P) /\ Len(next') = Len(next) + 1 /\ Len(next) \in Nat
      /\ \A k \in 1..Len(next) : next'[k] = next[k]
  <2> HIDE DEF P
  <2> QED BY <1>1, <1>3
<1>6. Len(next') <= PopulationSize /\ EliteCount <= Len(next')
  BY <1>3, <1>4, <1>5
<1>7. \A k \in 1..EliteCount : next'[k] = pop[k]
  BY <1>3, <1>4, <1>5
<1>8. Contents'
  BY <1>1, <1>2, <1>5 DEF Contents
<1>9. Sizes'
  <2>1. EliteCount' = EliteCount
    BY DEF EliteCount
  <2> QED BY <1>1, <1>2, <1>6, <1>7, <2>1 DEF Sizes
<1>10. Searching'
  BY <1>1, <1>2, <1>8, <1>9 DEF Searching
<1>11. Counters'
  <2>1. RepairAttempts \in Nat
    BY SearchAssumption
  <2>2. tries' \in 0..RepairAttempts /\ gen' \in Nat /\ pc' # "scan"
    BY <1>1, <1>2, <2>1 DEF Counters
  <2>3. late' \in BOOLEAN /\ seen' \in BOOLEAN
    BY <1>2 DEF Counters
  <2> QED BY <2>2, <2>3 DEF Counters
<1> QED BY <1>1, <1>10, <1>11, SearchingStays

\* A repair round has an event to move: the involved ones are free events, and a
\* narrowest one exists.
LEMMA NarrowestExists ==
  ASSUME NEW p, WellFormed(p), NEW S, S \subseteq Events(p), S # {}
  PROVE  Narrowest(p, S) \in S
<1> DEFINE W == { Width(p, e) : e \in S }
<1>1. \A e \in S : Width(p, e) \in Nat
  BY FS_CardinalityType DEF Width, WellFormed
<1>2. W \subseteq Nat /\ W # {}
  <2>1. PICK e \in S : TRUE
    OBVIOUS
  <2>2. Width(p, e) \in W
    OBVIOUS
  <2> QED BY <1>1, <2>2
<1> HIDE DEF W
<1>3. PICK w \in W : \A v \in W : w <= v
  BY <1>2, LeastNumber
<1> DEFINE T == { e \in S : Width(p, e) = w }
<1>4. IsFiniteSet(T) /\ T \subseteq Int /\ T # {}
  <2>1. IsFiniteSet(T)
    BY FS_Subset DEF WellFormed
  <2>2. T # {}
    BY <1>3 DEF W
  <2>3. T \subseteq Int
    BY DEF WellFormed
  <2> QED BY <2>1, <2>2, <2>3
<1> HIDE DEF T
<1>5. Min(T) \in T /\ \A y \in T : Min(T) <= y
  BY <1>4, LeastInteger
<1> DEFINE m == Min(T)
<1>6. m \in S /\ Width(p, m) = w
  BY <1>5 DEF T
<1>7. ASSUME NEW f \in S
      PROVE  Width(p, m) < Width(p, f) \/ (Width(p, m) = Width(p, f) /\ m <= f)
  <2>1. w <= Width(p, f) /\ w \in Nat /\ Width(p, f) \in Nat
    BY <1>1, <1>2, <1>3 DEF W
  <2>2. Width(p, f) = w => m <= f
    BY <1>5 DEF T
  <2> HIDE DEF m
  <2> QED BY <1>6, <2>1, <2>2
<1> HIDE DEF m
<1>8. \E e \in S : \A f \in S :
        Width(p, e) < Width(p, f) \/ (Width(p, e) = Width(p, f) /\ e <= f)
  BY <1>6, <1>7
<1> QED BY <1>8 DEF Narrowest

LEMMA InvolvedAreFree ==
  ASSUME NEW p, Sound(p), NEW g \in Chromosomes(p)
  PROVE  Involved(p, g) \subseteq Events(p) \ DOMAIN p.lock
<1>1. /\ Violations(p, Vector(g)) = LockViolations(p, g) \cup Conflicts(p, g)
      /\ Partial(p, g) /\ DOMAIN g = Events(p) /\ WellFormed(p)
  BY ViolationsOfChromosome, VectorSelects DEF Sound
<1>2. ASSUME NEW v \in LockViolations(p, g)
      PROVE  \A k \in DOMAIN v[3] : v[3][k] \in Events(p)
  <2>1. PICK e \in DOMAIN p.lock : v = <<"lock", None, <<e>>>>
    BY DEF LockViolations
  <2>2. e \in Events(p) /\ v[3] = <<e>>
    BY <1>1, <2>1 DEF WellFormed, Contract
  <2> QED BY <2>2
<1>3. ASSUME NEW v \in Conflicts(p, g)
      PROVE  \A k \in DOMAIN v[3] : v[3][k] \in Events(p)
  <2>1. \E e, f \in DOMAIN g : v[3] = <<e, f>>
    <3>1. CASE v \in ResourceConflicts(p, g)
      <4>1. PICK e \in DOMAIN g, f \in DOMAIN g : \E r : v = <<"conflict", r, <<e, f>>>>
        BY <1>1, <3>1, ResourceConflictMember
      <4> QED BY <4>1
    <3>2. CASE v \in DistinctDayConflicts(p, g)
      <4>1. PICK e \in DOMAIN g, f \in DOMAIN g : \E r : v = <<"distinct_day", r, <<e, f>>>>
        BY <1>1, <3>2, DistinctDayMember
      <4> QED BY <4>1
    <3> QED BY <3>1, <3>2 DEF Conflicts
  <2> QED BY <1>1, <2>1
<1> QED BY <1>1, <1>2, <1>3 DEF Involved

\* The scan that begins at the narrowest event of S.
LEMMA ScanBegins ==
  ASSUME Sound(problem), NEW S, S # {}, S \subseteq Events(problem) \ DOMAIN problem.lock,
         NEW c \in Pool(problem, fitness)
  PROVE  ScanOK(ScanOf(problem, S, c))
<1> DEFINE e == Narrowest(problem, S)
           x == ScanOf(problem, S, c)
<1>1. e \in S
  BY NarrowestExists DEF Sound
<1>2. x = [at |-> e, rest |-> S \ {e}, todo |-> problem.event[e].cands, top |-> c]
  BY DEF ScanOf
<1> HIDE DEF x, e
<1>3. x.at = e /\ x.rest = S \ {e} /\ x.todo = problem.event[e].cands /\ x.top = c
  BY <1>2
<1>4. ScanOK(x)
  BY <1>1, <1>2, <1>3 DEF ScanOK
<1> QED BY <1>4 DEF x

LEMMA RepairRoundStep ==
  ASSUME IInv, RepairRound
  PROVE  IInv'
<1>1. /\ pc = "repair"
      /\ UNCHANGED <<job, problem, fitness, draft, pop, best, gen, late, seen, answer>>
  BY DEF RepairRound
<1>2. Searching /\ Counters /\ Contents /\ Sizes /\ Sound(problem)
  BY <1>1, SearchingNow DEF Searching
<1>3. PICK c \in child :
        LET S == Involved(problem, c.genes)
        IN IF tries = 0 \/ Clean(c) \/ late \/ S = {}
             THEN Keep(c)
             ELSE /\ scan' = {ScanOf(problem, S, c)}
                  /\ pc' = "scan"
                  /\ UNCHANGED <<next, child, tries>>
  BY DEF RepairRound
<1>4. CASE Keep(c)
  BY <1>1, <1>4, KeepStep
<1>5. CASE /\ tries # 0 /\ Involved(problem, c.genes) # {}
           /\ scan' = {ScanOf(problem, Involved(problem, c.genes), c)}
           /\ pc' = "scan" /\ UNCHANGED <<next, child, tries>>
  <2> DEFINE S == Involved(problem, c.genes)
  <2>1. c \in Pool(problem, fitness) /\ c.genes \in Chromosomes(problem)
    BY <1>2, PoolMember DEF Contents
  <2>2. S \subseteq Events(problem) \ DOMAIN problem.lock /\ S # {}
    BY <1>2, <1>5, <2>1, InvolvedAreFree
  <2> HIDE DEF S
  <2>3. ScanOK(ScanOf(problem, S, c))
    BY <1>2, <2>1, <2>2, ScanBegins
  <2>4. \A x \in scan' : ScanOK(x)'
    BY <1>1, <1>5, <2>3 DEF ScanOK, S
  <2>5. Contents'
    BY <1>1, <1>2, <1>5, <2>4 DEF Contents
  <2>6. Sizes'
    <3>1. EliteCount' = EliteCount
      BY DEF EliteCount
    <3> QED BY <1>1, <1>2, <1>5, <3>1 DEF Sizes
  <2>7. Searching'
    BY <1>1, <1>2, <1>5, <2>5, <2>6 DEF Searching
  <2>8. Counters'
    <3>1. tries' \in 0..RepairAttempts /\ tries' > 0 /\ gen' \in Nat
      BY <1>1, <1>2, <1>5, SearchAssumption DEF Counters
    <3>2. late' \in BOOLEAN /\ seen' \in BOOLEAN
      BY <1>1, <1>2 DEF Counters
    <3> QED BY <3>1, <3>2 DEF Counters
  <2> QED BY <1>1, <1>5, <2>7, <2>8, SearchingStays
<1> QED BY <1>3, <1>4, <1>5

\* Moving a free event keeps a chromosome a chromosome that keeps the locks.
LEMMA MovedChromosome ==
  ASSUME NEW p, NEW g \in Chromosomes(p), Keeps(p, g), DOMAIN p.lock \subseteq Events(p),
         NEW e \in Events(p) \ DOMAIN p.lock, NEW c \in p.event[e].cands
  PROVE  [g EXCEPT ![e] = c] \in Chromosomes(p) /\ Keeps(p, [g EXCEPT ![e] = c])
<1> DEFINE h == [g EXCEPT ![e] = c]
<1>1. DOMAIN g = Events(p) /\ \A f \in Events(p) : g[f] \in p.event[f].cands
  BY DEF Chromosomes
<1>2. DOMAIN h = Events(p) /\ h[e] = c /\ \A f \in Events(p) : f # e => h[f] = g[f]
  BY <1>1
<1>3. h = [f \in Events(p) |-> h[f]]
  BY <1>1
<1> HIDE DEF h
<1>4. \A f \in Events(p) : h[f] \in p.event[f].cands
  BY <1>1, <1>2
<1>5. h \in [Events(p) -> UNION { p.event[f].cands : f \in Events(p) }]
  BY <1>3, <1>4
<1>6. h \in Chromosomes(p)
  BY <1>4, <1>5 DEF Chromosomes
<1>7. Keeps(p, h)
  BY <1>2 DEF Keeps
<1> QED BY <1>6, <1>7 DEF h

LEMMA TryCandidateStep ==
  ASSUME IInv, TryCandidate
  PROVE  IInv'
<1>1. /\ pc = "scan" /\ pc' = "scan"
      /\ UNCHANGED <<job, problem, fitness, draft, pop, next, best, gen, child, tries, late, answer>>
  BY DEF TryCandidate
<1>2. Searching /\ Counters /\ Loaded /\ Contents /\ Sizes /\ Sound(problem)
  BY <1>1, SearchingNow DEF Searching
<1>3. PICK x \in scan, c \in child :
        \E cand \in x.todo :
          LET trial == Individual([c.genes EXCEPT ![x.at] = cand])
              skip == cand = c.genes[x.at]
          IN /\ scan' = {[x EXCEPT !.todo = @ \ {cand},
                                !.top = IF ~skip /\ Less(trial.fit, @.fit) THEN trial ELSE @]}
             /\ seen' = (seen \/ (~skip /\ Clean(trial)))
  BY DEF TryCandidate
<1>4. PICK cand \in x.todo :
          LET trial == Individual([c.genes EXCEPT ![x.at] = cand])
              skip == cand = c.genes[x.at]
          IN /\ scan' = {[x EXCEPT !.todo = @ \ {cand},
                                !.top = IF ~skip /\ Less(trial.fit, @.fit) THEN trial ELSE @]}
             /\ seen' = (seen \/ (~skip /\ Clean(trial)))
  BY <1>3
<1> DEFINE trial == Individual([c.genes EXCEPT ![x.at] = cand])
           skip == cand = c.genes[x.at]
           top == IF ~skip /\ Less(trial.fit, x.top.fit) THEN trial ELSE x.top
           y == [x EXCEPT !.todo = x.todo \ {cand}, !.top = top]
<1>5. ScanOK(x) /\ c \in Pool(problem, fitness)
  BY <1>2 DEF Contents
<1>6. trial \in Pool(problem, fitness)
  <2>1. c.genes \in Chromosomes(problem) /\ Keeps(problem, c.genes)
    BY <1>5, PoolMember
  <2>2. DOMAIN problem.lock \subseteq Events(problem)
    BY <1>1, <1>2, LoadedIsSound
  <2>3. x.at \in Events(problem) \ DOMAIN problem.lock /\ cand \in problem.event[x.at].cands
    BY <1>5 DEF ScanOK
  <2> DEFINE h == [c.genes EXCEPT ![x.at] = cand]
  <2>4. h \in Chromosomes(problem) /\ Keeps(problem, h)
    BY <2>1, <2>2, <2>3, MovedChromosome
  <2> HIDE DEF h
  <2>5. Individual(h) \in Pool(problem, fitness)
    BY <2>4, IndividualInPool
  <2> QED BY <2>5 DEF h
<1>7. scan' = {y} /\ seen' = (seen \/ (~skip /\ Clean(trial)))
  BY <1>4
<1>8. top \in Pool(problem, fitness)
  BY <1>5, <1>6 DEF ScanOK
<1> HIDE DEF top, trial, skip
<1>9. /\ y = [at |-> x.at, rest |-> x.rest, todo |-> x.todo \ {cand}, top |-> top]
      /\ y.at = x.at /\ y.rest = x.rest /\ y.todo = x.todo \ {cand} /\ y.top = top
  <2>1. x = [at |-> x.at, rest |-> x.rest, todo |-> x.todo, top |-> x.top]
    BY <1>5 DEF ScanOK
  <2>2. y = [at |-> x.at, rest |-> x.rest, todo |-> x.todo \ {cand}, top |-> top]
    <3> DEFINE z == [x EXCEPT !.todo = x.todo \ {cand}]
    <3>1. z = [at |-> x.at, rest |-> x.rest, todo |-> x.todo \ {cand}, top |-> x.top]
      BY <2>1
    <3>2. [z EXCEPT !.top = top] = [at |-> x.at, rest |-> x.rest, todo |-> x.todo \ {cand}, top |-> top]
      <4> HIDE DEF z
      <4> QED BY <3>1
    <3>3. y = [z EXCEPT !.top = top]
      OBVIOUS
    <3> QED BY <3>2, <3>3
  <2> HIDE DEF y
  <2> QED BY <2>2
<1> HIDE DEF y
<1>10. ScanOK(y)
  BY <1>5, <1>8, <1>9 DEF ScanOK
<1>11. \A z \in scan' : ScanOK(z)'
  BY <1>1, <1>7, <1>10 DEF ScanOK
<1>12. Contents'
  BY <1>1, <1>2, <1>11 DEF Contents
<1>13. Sizes'
  <2>1. EliteCount' = EliteCount
    BY DEF EliteCount
  <2> QED BY <1>1, <1>2, <2>1 DEF Sizes
<1>14. Searching'
  BY <1>1, <1>2, <1>12, <1>13 DEF Searching
<1>15. Counters'
  <2>1. tries' \in 0..RepairAttempts /\ tries' > 0 /\ gen' \in Nat
    BY <1>1, <1>2 DEF Counters
  <2>2. late' \in BOOLEAN /\ seen' \in BOOLEAN
    BY <1>1, <1>2, <1>7 DEF Counters, Clean, skip
  <2> QED BY <2>1, <2>2 DEF Counters
<1> QED BY <1>1, <1>14, <1>15, SearchingStays

LEMMA ScanLateStep ==
  ASSUME IInv, ScanLate
  PROVE  IInv'
<1>1. /\ pc = "scan"
      /\ UNCHANGED <<job, problem, fitness, draft, pop, best, gen, late, seen, answer>>
  BY DEF ScanLate
<1>2. PICK c \in child : Keep(c)
  BY DEF ScanLate
<1> QED BY <1>1, <1>2, KeepStep

LEMMA ScanDoneStep ==
  ASSUME IInv, ScanDone
  PROVE  IInv'
<1>1. /\ pc = "scan"
      /\ UNCHANGED <<job, problem, fitness, draft, pop, best, gen, late, seen, answer>>
  BY DEF ScanDone
<1>2. Searching /\ Counters /\ Contents /\ Sizes /\ Sound(problem)
  BY <1>1, SearchingNow DEF Searching
<1>3. PICK x \in scan, c \in child :
        IF Less(x.top.fit, c.fit)
          THEN /\ child' = {x.top} /\ tries' = tries - 1 /\ scan' = {}
               /\ pc' = "repair" /\ UNCHANGED next
        ELSE IF x.rest = {} THEN Keep(c)
        ELSE scan' = {ScanOf(problem, x.rest, c)} /\ UNCHANGED <<pc, next, child, tries>>
  BY DEF ScanDone
<1>4. ScanOK(x) /\ c \in Pool(problem, fitness)
  BY <1>2 DEF Contents
<1>5. EliteCount' = EliteCount
  BY DEF EliteCount
<1>6. CASE /\ child' = {x.top} /\ tries' = tries - 1 /\ scan' = {}
           /\ pc' = "repair" /\ UNCHANGED next
  <2>1. Contents'
    BY <1>1, <1>2, <1>4, <1>6 DEF Contents, ScanOK
  <2>2. Sizes'
    BY <1>1, <1>2, <1>5, <1>6 DEF Sizes
  <2>3. Searching'
    BY <1>1, <1>2, <1>6, <2>1, <2>2 DEF Searching
  <2>4. Counters'
    <3>1. tries' \in 0..RepairAttempts /\ pc' # "scan" /\ gen' \in Nat
      <4>1. RepairAttempts \in Nat
        BY SearchAssumption
      <4> QED BY <1>1, <1>2, <1>6, <4>1 DEF Counters
    <3>2. late' \in BOOLEAN /\ seen' \in BOOLEAN
      BY <1>1, <1>2 DEF Counters
    <3> QED BY <3>1, <3>2 DEF Counters
  <2> QED BY <1>1, <1>6, <2>3, <2>4, SearchingStays
<1>7. CASE Keep(c)
  BY <1>1, <1>7, KeepStep
<1>8. CASE /\ x.rest # {} /\ scan' = {ScanOf(problem, x.rest, c)}
           /\ UNCHANGED <<pc, next, child, tries>>
  <2>1. ScanOK(ScanOf(problem, x.rest, c))
    BY <1>2, <1>4, <1>8, ScanBegins DEF ScanOK
  <2>2. \A z \in scan' : ScanOK(z)'
    BY <1>1, <1>8, <2>1 DEF ScanOK
  <2>3. Contents'
    BY <1>1, <1>2, <1>8, <2>2 DEF Contents
  <2>4. Sizes'
    BY <1>1, <1>2, <1>5, <1>8 DEF Sizes
  <2>5. Searching'
    BY <1>1, <1>2, <1>8, <2>3, <2>4 DEF Searching
  <2>6. Counters'
    <3>1. tries' \in 0..RepairAttempts /\ tries' > 0 /\ gen' \in Nat
      BY <1>1, <1>2, <1>8 DEF Counters
    <3>2. late' \in BOOLEAN /\ seen' \in BOOLEAN
      BY <1>1, <1>2 DEF Counters
    <3> QED BY <3>1, <3>2 DEF Counters
  <2> QED BY <1>1, <1>8, <2>5, <2>6, SearchingStays
<1> QED BY <1>3, <1>6, <1>7, <1>8

LEMMA TickStep ==
  ASSUME IInv, Tick
  PROVE  IInv'
<1>1. /\ pc \notin Stopped \cup {"build", "solve", "start"} /\ late' = TRUE
      /\ UNCHANGED <<job, problem, fitness, pc, draft, pop, next, best, gen, child, tries, scan, seen, answer>>
  BY DEF Tick, search
<1>2. pc \in {"greedy", "generation", "breed", "repair", "scan"}
  BY <1>1 DEF IInv, Idle, Searching, Stopped
<1>3. Searching /\ Counters /\ Contents /\ Sizes
  BY <1>2, SearchingNow DEF Searching
<1>4. Contents'
  BY <1>1, <1>3 DEF Contents, ScanOK, DraftOK
<1>5. Sizes'
  <2>1. EliteCount' = EliteCount
    BY DEF EliteCount
  <2> QED BY <1>1, <1>3, <2>1 DEF Sizes
<1>6. Searching'
  BY <1>1, <1>3, <1>4, <1>5 DEF Searching
<1>7. Counters'
  BY <1>1, <1>3 DEF Counters
<1> QED BY <1>1, <1>2, <1>6, <1>7, SearchingStays

(***************************************************************************)
(* The exact solver.                                                       *)
(***************************************************************************)
\* A solution of the model passes the validator, scores what the model's
\* objective says, and keeps the locks.
LEMMA SolutionIsSchedule ==
  ASSUME NEW p, Sound(p), NEW X \in Solutions(p)
  PROVE  /\ Feasible(p, X) /\ Objective(p, X) = Score(p, X) /\ Objective(p, X) \in Int
         /\ Keeps(p, Resolved(p, X))
<1>1. WellFormed(p) /\ Faultless(p) /\ X \subseteq Choice(p) /\ HardConstraints(p, X)
  BY DEF Sound, Solutions, Satisfies
<1>2. ExactlyOne(p, X) /\ LocksSet(p, X)
  BY <1>1 DEF HardConstraints
<1>3. Selects(p, X)
  BY <1>1, <1>2 DEF Selects
<1>4. Instance(p, X)
  BY <1>3, SelectionIsTotal
<1>5. Feasible(p, X)
  BY <1>1, <1>4, SolutionsAreFeasible DEF Faultless
<1>6. Objective(p, X) = Score(p, X) /\ Objective(p, X) \in Int
  BY <1>1, <1>2, ObjectiveIsScore
<1>7. Keeps(p, Resolved(p, X))
  <2>1. \A x \in X : x[2] = Resolved(p, X)[x[1]]
    BY <1>3, SelectionIsTotal
  <2>2. \A e \in DOMAIN p.lock : Resolved(p, X)[e] = p.lock[e]
    BY <1>2, <2>1 DEF LocksSet
  <2> QED BY <2>2 DEF Keeps
<1> QED BY <1>5, <1>6, <1>7

\* Every schedule of candidates that passes the validator is a solution.
LEMMA ScheduleIsSolution ==
  ASSUME NEW p, Sound(p), NEW g \in Chromosomes(p), Feasible(p, Vector(g))
  PROVE  Vector(g) \in Solutions(p)
<1>1. WellFormed(p) /\ Faultless(p)
  BY DEF Sound
<1>2. Selects(p, Vector(g)) /\ IsFiniteSet(Vector(g))
  BY <1>1, VectorSelects
<1>3. Instance(p, Vector(g)) /\ Vector(g) \subseteq Choice(p)
  BY <1>2, SelectionIsTotal DEF Selects
<1>4. HardConstraints(p, Vector(g))
  BY <1>1, <1>2, <1>3, SolutionsAreFeasible DEF Faultless
<1>5. Satisfies(p, Vector(g))
  BY <1>1, <1>3, <1>4, SolutionsAreExactlyTheHardOnes
<1> QED BY <1>3, <1>5 DEF Solutions

\* The engine's least objective is below the score of every schedule that passes.
LEMMA LeastObjective ==
  ASSUME NEW p, Sound(p), NEW g \in Chromosomes(p), Feasible(p, Vector(g))
  PROVE  Min({ Objective(p, X) : X \in Solutions(p) }) <= Score(p, Vector(g))
<1> DEFINE S == Solutions(p)
           f == [X \in S |-> Objective(p, X)]
           M == { f[X] : X \in S }
<1>1. IsFiniteSet(S)
  <2>1. IsFiniteSet(Choice(p))
    <3> DEFINE E == Events(p)
               h == [e \in E |-> { <<e, c>> : c \in p.event[e].cands }]
    <3>1. IsFiniteSet({ h[e] : e \in E })
      BY FiniteImage DEF Sound, WellFormed
    <3>2. ASSUME NEW e \in E PROVE IsFiniteSet(h[e])
      <4> DEFINE k == [c \in p.event[e].cands |-> <<e, c>>]
      <4>1. IsFiniteSet({ k[c] : c \in p.event[e].cands })
        BY FiniteImage DEF Sound, WellFormed
      <4>2. h[e] = { k[c] : c \in p.event[e].cands }
        OBVIOUS
      <4> QED BY <4>1, <4>2
    <3>3. Choice(p) = UNION { h[e] : e \in E }
      BY DEF Choice
    <3>4. \A T \in { h[e] : e \in E } : IsFiniteSet(T)
      BY <3>2
    <3> HIDE DEF h
    <3> QED BY <3>1, <3>3, <3>4, FS_UNION
  <2>2. IsFiniteSet(SUBSET Choice(p))
    BY <2>1, FS_SUBSET
  <2> QED BY <2>2, FS_Subset DEF Solutions
<1>2. Vector(g) \in S /\ Objective(p, Vector(g)) = Score(p, Vector(g))
  BY ScheduleIsSolution, SolutionIsSchedule
<1>3. \A X \in S : f[X] = Objective(p, X) /\ f[X] \in Int
  BY SolutionIsSchedule
<1>4. { Objective(p, X) : X \in Solutions(p) } = M
  OBVIOUS
<1> HIDE DEF f, S
<1>5. IsFiniteSet(M)
  BY <1>1, FiniteImage
<1>6. M \subseteq Int /\ f[Vector(g)] \in M
  BY <1>2, <1>3
<1> HIDE DEF M
<1>7. Min(M) <= f[Vector(g)]
  BY <1>5, <1>6, LeastInteger
<1>8. Min(M) <= Score(p, Vector(g))
  BY <1>2, <1>3, <1>7
<1> QED BY <1>4, <1>8

LEMMA CpSolveStep ==
  ASSUME IInv, CpSolve
  PROVE  IInv'
<1> DEFINE S == Solutions(problem)
<1>1. /\ pc = "solve" /\ pc' = "done"
      /\ UNCHANGED <<job, problem, fitness, draft, pop, next, best, gen, child, tries, scan, late>>
  BY DEF CpSolve, search
<1>2. Loaded /\ Idle /\ Counters /\ Sound(problem)
  BY <1>1, LoadedIsSound DEF IInv, Searching
<1>3. PICK x \in EngineAnswers(problem, S) :
        /\ answer' = {Interpret(problem, x[1], x[2])}
        /\ seen' = (x[1] \in {"OPTIMAL", "FEASIBLE"} /\ Feasible(problem, x[2]))
  BY DEF CpSolve
<1> DEFINE a == Interpret(problem, x[1], x[2])
<1>4. /\ a.vector = x[2]
      /\ a.status = IF x[1] \notin {"OPTIMAL", "FEASIBLE"} THEN x[1]
                    ELSE IF ~Feasible(problem, x[2]) THEN "ERROR"
                    ELSE IF Objective(problem, x[2]) # Score(problem, x[2]) THEN "ERROR"
                    ELSE x[1]
  BY DEF Interpret
<1>5. \/ x[1] = "FEASIBLE" /\ x[2] \in S
      \/ /\ x[1] = "OPTIMAL" /\ x[2] \in S
         /\ Objective(problem, x[2]) = Min({ Objective(problem, X) : X \in S })
      \/ x[1] = "INFEASIBLE" /\ x[2] = {} /\ S = {}
      \/ x[1] = "UNKNOWN" /\ x[2] = {}
  BY DEF EngineAnswers, When
<1> HIDE DEF a, S
<1>6. /\ a.status # "ERROR"
      /\ a.status \in {"OPTIMAL", "FEASIBLE"} => Feasible(problem, a.vector)
      /\ a.status \in {"OPTIMAL", "INFEASIBLE"} =>
           \A g \in Chromosomes(problem) :
             Feasible(problem, Vector(g)) =>
               a.status = "OPTIMAL" /\ Score(problem, a.vector) <= Score(problem, Vector(g))
      /\ a.vector # {} => Keeps(problem, Resolved(problem, a.vector))
  <2>1. ASSUME x[1] \in {"OPTIMAL", "FEASIBLE"}, x[2] \in S
        PROVE  /\ a.status = x[1] /\ Feasible(problem, a.vector)
               /\ Objective(problem, a.vector) = Score(problem, a.vector)
               /\ Keeps(problem, Resolved(problem, a.vector))
    <3>1. /\ Feasible(problem, x[2]) /\ Objective(problem, x[2]) = Score(problem, x[2])
          /\ Keeps(problem, Resolved(problem, x[2]))
      BY <1>2, <2>1, SolutionIsSchedule DEF S
    <3> QED BY <1>4, <2>1, <3>1
  <2>2. CASE x[1] = "FEASIBLE" /\ x[2] \in S
    BY <2>1, <2>2
  <2>3. CASE /\ x[1] = "OPTIMAL" /\ x[2] \in S
             /\ Objective(problem, x[2]) = Min({ Objective(problem, X) : X \in S })
    <3>1. /\ a.status = "OPTIMAL" /\ Feasible(problem, a.vector)
          /\ Objective(problem, a.vector) = Score(problem, a.vector)
          /\ Keeps(problem, Resolved(problem, a.vector))
      BY <2>1, <2>3
    <3>2. ASSUME NEW g \in Chromosomes(problem), Feasible(problem, Vector(g))
          PROVE  Score(problem, a.vector) <= Score(problem, Vector(g))
      <4>1. Min({ Objective(problem, X) : X \in S }) <= Score(problem, Vector(g))
        BY <1>2, <3>2, LeastObjective DEF S
      <4>2. Score(problem, a.vector) = Min({ Objective(problem, X) : X \in S })
        BY <1>4, <2>3, <3>1
      <4> QED BY <4>1, <4>2
    <3> QED BY <3>1, <3>2
  <2>4. CASE x[1] = "INFEASIBLE" /\ x[2] = {} /\ S = {}
    <3>1. a.status = "INFEASIBLE" /\ a.vector = {}
      BY <1>4, <2>4
    <3>2. \A g \in Chromosomes(problem) : ~Feasible(problem, Vector(g))
      BY <1>2, <2>4, ScheduleIsSolution DEF S
    <3> QED BY <3>1, <3>2
  <2>5. CASE x[1] = "UNKNOWN" /\ x[2] = {}
    <3>1. a.status = "UNKNOWN" /\ a.vector = {}
      BY <1>4, <2>5
    <3> QED BY <3>1
  <2> QED BY <1>5, <2>2, <2>3, <2>4, <2>5
<1>7. answer' = {a}
  BY <1>3 DEF a
<1>8. Answered'
  <2>1. AnswerIsTrue'
    BY <1>1, <1>6, <1>7 DEF AnswerIsTrue
  <2> QED BY <1>1, <1>6, <1>7, <2>1 DEF Answered
<1>9. Loaded' /\ Idle'
  BY <1>1, <1>2 DEF Loaded, Idle
<1>10. Counters'
  <2>1. tries' \in 0..RepairAttempts /\ gen' \in Nat /\ pc' # "scan"
    BY <1>1, <1>2 DEF Counters
  <2>2. late' \in BOOLEAN /\ seen' \in BOOLEAN
    BY <1>1, <1>2, <1>3 DEF Counters
  <2> QED BY <2>1, <2>2 DEF Counters
<1> QED BY <1>8, <1>9, <1>10 DEF IInv

LEMMA StutterStep ==
  ASSUME IInv, UNCHANGED vars
  PROVE  IInv'
<1>1. UNCHANGED <<job, problem, fitness, pc, draft, pop, next, best, gen, child, tries, scan, late, seen, answer>>
  BY DEF vars, search
<1>2. Loaded'
  BY <1>1 DEF IInv, Loaded
<1>3. Idle => Idle'
  BY <1>1 DEF Idle
<1>4. Searching => Searching'
  <2>1. Contents => Contents'
    BY <1>1 DEF Contents, ScanOK, DraftOK
  <2>2. Sizes => Sizes'
    <3>1. EliteCount' = EliteCount
      BY DEF EliteCount
    <3> QED BY <1>1, <3>1 DEF Sizes
  <2> QED BY <1>1, <2>1, <2>2 DEF Searching
<1>5. Counters'
  BY <1>1 DEF IInv, Counters
<1>6. Answered'
  <2>1. AnswerIsTrue'
    BY <1>1 DEF IInv, Answered, AnswerIsTrue
  <2> QED BY <1>1, <2>1 DEF IInv, Answered
<1> QED BY <1>2, <1>3, <1>4, <1>5, <1>6 DEF IInv

LEMMA NextIInv ==
  ASSUME IInv, [Next]_vars
  PROVE  IInv'
<1>1. CASE Build
  BY <1>1, BuildStep
<1>2. CASE CpSolve
  BY <1>2, CpSolveStep
<1>3. CASE StartGenetic
  BY <1>3, StartGeneticStep
<1>4. CASE GreedyPlace
  BY <1>4, GreedyPlaceStep
<1>5. CASE Populate
  BY <1>5, PopulateStep
<1>6. CASE StartGeneration
  BY <1>6, StartGenerationStep
<1>7. CASE Finish
  BY <1>7, FinishStep
<1>8. CASE Breed
  BY <1>8, BreedStep
<1>9. CASE CloseGeneration
  BY <1>9, CloseGenerationStep
<1>10. CASE RepairRound
  BY <1>10, RepairRoundStep
<1>11. CASE TryCandidate
  BY <1>11, TryCandidateStep
<1>12. CASE ScanLate
  BY <1>12, ScanLateStep
<1>13. CASE ScanDone
  BY <1>13, ScanDoneStep
<1>14. CASE Tick
  BY <1>14, TickStep
<1>15. CASE UNCHANGED vars
  BY <1>15, StutterStep
<1> QED BY <1>1, <1>2, <1>3, <1>4, <1>5, <1>6, <1>7, <1>8, <1>9, <1>10, <1>11, <1>12,
           <1>13, <1>14, <1>15 DEF Next, GeneticStep, Rest

LEMMA Invariant == Spec => []IInv
<1>1. IInv /\ [Next]_vars => IInv'
  BY NextIInv
<1> QED BY <1>1, InitIInv, PTL DEF Spec

(***************************************************************************)
(* The theorems about the specification.                                   *)
(***************************************************************************)
\* Every individual the search holds is a chromosome with its own fitness, and
\* populations, counters and phases keep their types.
THEOREM SearchTypes == Spec => []TypeOK
<1>1. IInv => TypeOK
  <2> SUFFICES ASSUME IInv PROVE TypeOK
    OBVIOUS
  <2>1. /\ job \in DOMAIN Job
        /\ pc \in {"build", "solve", "start", "greedy", "generation", "breed", "repair", "scan"} \cup Stopped
        /\ gen \in Nat /\ tries \in 0..RepairAttempts
    BY DEF IInv, Loaded, Idle, Searching, Counters, Stopped
  <2>2. late \in BOOLEAN /\ seen \in BOOLEAN
    BY DEF IInv, Counters
  <2>3. CASE Idle
    <3>1. PopulationSize \in Nat /\ Len(<<>>) = 0 /\ DOMAIN <<>> = {}
      BY SearchAssumption
    <3> QED BY <2>1, <2>2, <2>3, <3>1 DEF Idle, TypeOK
  <2>4. CASE Searching
    <3> DEFINE P == Pool(problem, fitness)
    <3>1. /\ pop \in Seq(P) /\ next \in Seq(P) /\ best \subseteq P /\ child \subseteq P
          /\ \A x \in scan : x.top \in P
          /\ Len(pop) <= PopulationSize /\ Len(next) <= PopulationSize
          /\ fitness = FitnessOf(problem)
      BY <2>4 DEF Searching, Contents, Sizes, ScanOK
    <3>2. ASSUME NEW i \in P PROVE IndividualOK(i)
      <4>1. i.genes \in Chromosomes(problem) /\ i.fit = fitness[i.genes]
        BY PoolMember
      <4>2. DOMAIN fitness = Chromosomes(problem)
        BY <3>1 DEF FitnessOf
      <4> QED BY <4>1, <4>2 DEF IndividualOK
    <3> HIDE DEF P
    <3>3. \A k \in DOMAIN pop : pop[k] \in P
      BY <3>1, LenProperties, ElementOfSeq
    <3>4. \A k \in DOMAIN next : next[k] \in P
      BY <3>1, LenProperties, ElementOfSeq
    <3>5. \A i \in best \cup child \cup { x.top : x \in scan } : IndividualOK(i)
      BY <3>1, <3>2
    <3>6. /\ \A k \in DOMAIN pop : IndividualOK(pop[k])
          /\ \A k \in DOMAIN next : IndividualOK(next[k])
      BY <3>2, <3>3, <3>4
    <3> QED BY <2>1, <2>2, <3>1, <3>5, <3>6 DEF TypeOK
  <2> QED BY <2>3, <2>4 DEF IInv
<1> QED BY <1>1, Invariant, PTL

\* For every revision: the candidates an engine is given are exactly the
\* placements the validator finds no fault with.
THEOREM BuilderMatchesValidator == Spec => []CandidatesAreExact
<1>1. IInv => CandidatesAreExact
  <2> SUFFICES ASSUME IInv, Fresh, NEW e \in Events(problem)
               PROVE  LET t == Job[job].revision
                      IN problem.event[e].cands =
                           { c \in { Placement(t, t.meeting[e], x[1], x[2]) :
                                       x \in (DOMAIN t.rooms) \X Windows(t, t.meeting[e].duration) } :
                               /\ LocalFaults(problem, e, c) = {}
                               /\ e \in DOMAIN t.pin =>
                                    t.pin[e] = [room |-> c.room, start |-> c.start] }
    BY DEF CandidatesAreExact
  <2> DEFINE t == Job[job].revision
             w == Job[job].weights
  <2>1. RowsOK(t)
    BY SearchAssumption DEF IInv, Loaded
  <2>2. Profiles(t) /\ problem = Problem(t, w)
    BY BuildableProfiles DEF IInv, Loaded, Fresh
  <2> HIDE DEF t, w
  <2>3. e \in DOMAIN t.meeting /\ problem.event[e] = EventOf(t, e)
    BY <2>2 DEF Problem, Events
  <2>4. problem.event[e].cands = Candidates(t, e)
    BY <2>3 DEF EventOf
  <2>5. Candidates(t, e) =
          { c \in Placements(t, e) : LocalFaults(problem, e, c) = {} /\ Locked(t, e, c) }
    BY <2>1, <2>2, <2>3, BuilderIsExact
  <2> QED BY <2>4, <2>5 DEF Placements, Locked, t
<1> QED BY <1>1, Invariant, PTL

\* For every revision: a problem that reaches an engine satisfies the contract of
\* ProblemInstance, its locks are the pins, and they do not contradict each other.
THEOREM BuiltLocksAreSound == Spec => []LocksAreSound
<1>1. IInv => LocksAreSound
  <2> SUFFICES ASSUME IInv, Fresh PROVE LocksAreSound
    BY DEF LocksAreSound
  <2> DEFINE t == Job[job].revision
             p == problem
  <2>1. /\ WellFormed(p) /\ DOMAIN p.lock = DOMAIN t.pin \cap Events(p)
        /\ \A e \in DOMAIN p.lock :
             /\ p.lock[e] \in p.event[e].cands
             /\ t.pin[e] = [room |-> p.lock[e].room, start |-> p.lock[e].start]
    BY LoadedIsSound DEF Sound, IInv, Fresh
  <2>2. Contract(p)
    BY <2>1 DEF WellFormed
  <2>3. Conflicts(p, p.lock) = {}
    <3>1. LockIssues(p) = {}
      BY DEF IInv, Loaded, Fresh, Buildable
    <3> QED BY <3>1 DEF LockIssues, When
  <2>4. Partial(p, p.lock)
    BY <2>1 DEF Partial
  <2>5. ASSUME NEW e \in DOMAIN p.lock, NEW f \in DOMAIN p.lock, e # f
        PROVE  \/ p.lock[e].atoms \cap p.lock[f].atoms = {}
               \/ Resources(p, e, p.lock[e]) \cap Resources(p, f, p.lock[f]) = {}
    <3> SUFFICES ASSUME p.lock[e].atoms \cap p.lock[f].atoms # {},
                        NEW r \in Resources(p, e, p.lock[e]) \cap Resources(p, f, p.lock[f])
                 PROVE  FALSE
      OBVIOUS
    <3>1. e \in Int /\ f \in Int
      BY <2>1 DEF WellFormed
    <3>2. CASE e < f
      <4>1. <<"conflict", r, <<e, f>>>> \in ResourceConflicts(p, p.lock)
        BY <2>1, <2>4, <3>2, ResourceConflictMember
      <4> QED BY <2>3, <4>1 DEF Conflicts
    <3>3. CASE f < e
      <4>1. <<"conflict", r, <<f, e>>>> \in ResourceConflicts(p, p.lock)
        BY <2>1, <2>4, <3>3, ResourceConflictMember
      <4> QED BY <2>3, <4>1 DEF Conflicts
    <3> QED BY <2>5, <3>1, <3>2, <3>3
  <2> QED BY <2>1, <2>2, <2>5 DEF LocksAreSound
<1> QED BY <1>1, Invariant, PTL

\* For every problem and every state of the greedy construction: placing an event
\* adds to the validator's conflicts exactly what the construction counted.
THEOREM GreedyCountsAgree == Spec => []IncrementalAgrees
<1>1. IInv => IncrementalAgrees
  <2> SUFFICES ASSUME IInv, pc = "greedy", NEW e \in Events(problem) \ DOMAIN draft,
                      NEW c \in problem.event[e].cands
               PROVE  Cardinality(Conflicts(problem, With(draft, e, c)))
                        = Cardinality(Conflicts(problem, draft))
                            + Cardinality(IncrementalConflicts(problem, draft, e, c))
    BY DEF IncrementalAgrees
  <2>1. Sound(problem) /\ Searching
    BY SearchingNow
  <2>2. WellFormed(problem) /\ Partial(problem, draft)
    BY <2>1 DEF Sound, Searching, Contents, DraftOK
  <2> QED BY <2>2, CountedIsAdded
<1> QED BY <1>1, Invariant, PTL

\* For every search: no individual, at any moment, and no answer moves an event
\* that the revision locks.
THEOREM SearchHonoursLocks == Spec => []LocksHold
<1>1. IInv => LocksHold
  <2> SUFFICES ASSUME IInv PROVE LocksHold
    OBVIOUS
  <2> DEFINE I == best \cup child \cup { pop[k] : k \in DOMAIN pop } \cup { next[k] : k \in DOMAIN next }
  <2>1. ASSUME pc \notin {"build", "refused"}, NEW g, Keeps(problem, g) PROVE Pins(g)
    <3>1. /\ DOMAIN problem.lock = DOMAIN Job[job].revision.pin \cap Events(problem)
          /\ \A e \in DOMAIN problem.lock :
               Job[job].revision.pin[e] = [room |-> problem.lock[e].room, start |-> problem.lock[e].start]
      BY <2>1, LoadedIsSound DEF IInv
    <3> QED BY <2>1, <3>1 DEF Pins, Keeps
  <2>2. ASSUME NEW i \in I PROVE Pins(i.genes)
    <3>1. ASSUME Idle PROVE FALSE
      <4>1. I = {}
        BY <3>1 DEF Idle
      <4> QED BY <2>2, <4>1
    <3>2. Searching
      BY <3>1 DEF IInv
    <3>3. i \in Pool(problem, fitness)
      <4>1. pop \in Seq(Pool(problem, fitness)) /\ next \in Seq(Pool(problem, fitness))
        BY <3>2 DEF Searching, Contents
      <4>2. \A k \in DOMAIN pop : pop[k] \in Pool(problem, fitness)
        BY <4>1, LenProperties, ElementOfSeq
      <4>3. \A k \in DOMAIN next : next[k] \in Pool(problem, fitness)
        BY <4>1, LenProperties, ElementOfSeq
      <4> QED BY <2>2, <3>2, <4>2, <4>3 DEF Searching, Contents
    <3>4. pc \notin {"build", "refused"}
      BY <3>2 DEF Searching
    <3>5. Keeps(problem, i.genes)
      BY <3>3, PoolMember
    <3> QED BY <2>1, <3>4, <3>5
  <2>3. ASSUME NEW a \in answer, a.vector # {} PROVE Pins(Resolved(problem, a.vector))
    <3>1. pc = "done" /\ Keeps(problem, Resolved(problem, a.vector))
      BY <2>3 DEF IInv, Answered
    <3> QED BY <2>1, <3>1
  <2> HIDE DEF I
  <2>4. \A i \in best \cup child \cup { pop[k] : k \in DOMAIN pop } \cup { next[k] : k \in DOMAIN next } :
          Pins(i.genes)
    BY <2>2 DEF I
  <2> QED BY <2>3, <2>4 DEF LocksHold
<1> QED BY <1>1, Invariant, PTL

\* For every revision, set of weights and choice of the engines: CP-SAT's own
\* solution is never turned into ERROR, INFEASIBLE and OPTIMAL mean what they say
\* in terms of the validator and the scorer, and FEASIBLE schedules are feasible.
THEOREM AnswersAreTrue == Spec => []AnswerIsTrue
<1>1. IInv => AnswerIsTrue
  BY DEF IInv, Answered
<1> QED BY <1>1, Invariant, PTL

\* Every solution of the Boolean model passes the validator and scores what the
\* model's objective says.
SolutionsPass ==
  pc = "solve" => \A X \in Solutions(problem) :
                    Feasible(problem, X) /\ Objective(problem, X) = Score(problem, X)

\* For every revision: whatever solution CP-SAT returns, solve does not turn it
\* into ERROR, neither as rejected by the validator nor for its objective.
THEOREM CpSatIsNeverRejected == Spec => []SolutionsPass
<1>1. IInv => SolutionsPass
  <2>1. IInv /\ pc = "solve" => Sound(problem)
    BY LoadedIsSound DEF IInv
  <2> QED BY <2>1, SolutionIsSchedule DEF SolutionsPass
<1> QED BY <1>1, Invariant, PTL

(***************************************************************************)
(* What a step never makes worse.                                          *)
(***************************************************************************)
LEMMA IncumbentImproves ==
  ASSUME IInv, [Next]_vars, NEW b \in best, NEW c \in best'
  PROVE  ~Less(b.fit, c.fit)
<1>1. /\ Searching /\ Sound(problem) /\ b \in Pool(problem, fitness) /\ \A a \in best : a = b
      /\ \A i \in Pool(problem, fitness) : i.fit \in Nat \X Int
  <2>1. Searching
    BY DEF IInv, Idle
  <2>2. Sound(problem)
    BY <2>1, LoadedIsSound DEF IInv, Searching
  <2> QED BY <2>1, <2>2, PoolFits DEF Searching, Contents
<1>2. pc # "greedy"
  BY <1>1 DEF Searching, Contents
<1>3. CASE CloseGeneration
  <2> DEFINE top == Sorted(Padded)[1]
  <2>1. best' = { IF Less(top.fit, a.fit) THEN top ELSE a : a \in best } /\ pc = "breed"
    BY <1>3 DEF CloseGeneration
  <2>2. top \in Pool(problem, fitness)
    <3>1. Sorted(Padded) \in Seq(Pool(problem, fitness)) /\ Len(Sorted(Padded)) = PopulationSize
      BY <1>1, <2>1, PaddedInPool, SortedInPool
    <3> QED BY <3>1, EliteCountRange, ElementOfSeq
  <2> HIDE DEF top
  <2>3. c = IF Less(top.fit, b.fit) THEN top ELSE b
    BY <1>1, <2>1
  <2> QED BY <1>1, <2>2, <2>3, LessIsStrict
<1>4. CASE best' = best
  BY <1>1, <1>4, LessIsStrict
<1>5. best' = best \/ CloseGeneration
  <2>1. ~Populate /\ ~GreedyPlace /\ ~StartGenetic
    BY <1>1, <1>2 DEF Populate, GreedyPlace, StartGenetic, Searching
  <2>2. CASE UNCHANGED vars
    BY <2>2 DEF vars, search
  <2>3. CASE Build \/ CpSolve \/ Tick \/ Rest
    BY <2>3 DEF Build, CpSolve, Tick, Rest, vars, search
  <2>4. CASE StartGeneration \/ Finish \/ Breed
    BY <2>4 DEF StartGeneration, Finish, Breed, search
  <2>5. CASE RepairRound \/ TryCandidate \/ ScanLate \/ ScanDone
    BY <2>5 DEF RepairRound, TryCandidate, ScanLate, ScanDone
  <2> QED BY <2>1, <2>2, <2>3, <2>4, <2>5 DEF Next, GeneticStep
<1> QED BY <1>3, <1>4, <1>5

LEMMA ElitesStay ==
  ASSUME IInv, [Next]_vars, pc = "breed", pc' = "generation", NEW k \in 1..Max({1, Elites})
  PROVE  ~Less(pop[k].fit, pop'[k].fit)
<1>1. CloseGeneration
  <2>1. CASE UNCHANGED vars
    BY <2>1 DEF vars
  <2>2. CASE Next
    BY <2>2 DEF Next, GeneticStep, Build, CpSolve, StartGenetic, GreedyPlace, Populate, StartGeneration,
                Finish, Breed, RepairRound, TryCandidate, ScanLate, ScanDone, Tick, Rest, Stopped
  <2> QED BY <2>1, <2>2
<1>2. pop' = Sorted(Padded)
  BY <1>1 DEF CloseGeneration
<1>3. /\ pop \in Seq(Pool(problem, fitness)) /\ Len(pop) = PopulationSize /\ Ordered(pop)
      /\ \A i \in Pool(problem, fitness) : i.fit \in Nat \X Int
  BY SearchingNow DEF Searching, Contents, Sizes
<1>4. /\ Padded \in Seq(Pool(problem, fitness)) /\ Len(Padded) = PopulationSize
      /\ \A l \in 1..EliteCount : Padded[l] = pop[l]
  BY PaddedInPool
<1>5. PopulationSize \in Nat /\ EliteCount \in 1..PopulationSize /\ k \in 1..EliteCount
  BY EliteCountRange
<1>6. Fits(Padded, PopulationSize)
  BY <1>3, <1>4, PoolListFits
<1>7. 1..EliteCount \subseteq DOMAIN pop
  <2>1. DOMAIN pop = 1..PopulationSize
    BY <1>3, LenProperties
  <2> QED BY <1>5, <2>1
<1> HIDE DEF EliteCount
<1>8. ~Less(pop[k].fit, Sorted(Padded)[k].fit)
  BY <1>3, <1>4, <1>5, <1>6, <1>7, SortingKeepsElites
<1> QED BY <1>2, <1>8

LEMMA RepairImproves ==
  ASSUME IInv, [Next]_vars, pc \in {"repair", "scan"}, NEW b \in child,
         NEW c \in child' \cup (IF next' = next THEN {} ELSE {next'[Len(next')]})
  PROVE  ~Less(b.fit, c.fit)
<1>1. /\ child \subseteq Pool(problem, fitness) /\ (\A a \in child : a = b)
      /\ next \in Seq(Pool(problem, fitness))
      /\ \A x \in scan : x.top \in Pool(problem, fitness)
      /\ \A i \in Pool(problem, fitness) : i.fit \in Nat \X Int
  BY SearchingNow DEF Searching, Contents, ScanOK
<1>2. ~Less(b.fit, b.fit)
  BY <1>1, LessIsStrict
<1>3. CASE UNCHANGED <<child, next>>
  BY <1>1, <1>2, <1>3
<1>4. ASSUME NEW d \in child, Keep(d) PROVE ~Less(b.fit, c.fit)
  <2>1. next' = Append(next, d) /\ child' = {}
    BY <1>4 DEF Keep
  <2>2. next'[Len(next')] = d
    BY <1>1, <1>4, <2>1
  <2> QED BY <1>1, <1>2, <1>4, <2>1, <2>2
<1>5. CASE \E x \in scan : child' = {x.top} /\ Less(x.top.fit, b.fit) /\ UNCHANGED next
  <2>1. PICK x \in scan : child' = {x.top} /\ Less(x.top.fit, b.fit) /\ UNCHANGED next
    BY <1>5
  <2>2. c = x.top
    BY <2>1
  <2> QED BY <1>1, <2>1, <2>2, LessIsStrict
<1>6. CASE RepairRound
  BY <1>3, <1>4, <1>6 DEF RepairRound
<1>7. CASE TryCandidate
  BY <1>3, <1>7 DEF TryCandidate
<1>8. CASE ScanLate
  BY <1>4, <1>8 DEF ScanLate
<1>9. CASE ScanDone
  <2>1. PICK x \in scan, d \in child :
          IF Less(x.top.fit, d.fit)
            THEN /\ child' = {x.top} /\ tries' = tries - 1 /\ scan' = {}
                 /\ pc' = "repair" /\ UNCHANGED next
          ELSE IF x.rest = {} THEN Keep(d)
          ELSE scan' = {ScanOf(problem, x.rest, d)} /\ UNCHANGED <<pc, next, child, tries>>
    BY <1>9 DEF ScanDone
  <2>2. d = b
    BY <1>1
  <2> QED BY <1>3, <1>4, <1>5, <2>1, <2>2
<1>10. CASE Tick \/ UNCHANGED vars
  BY <1>3, <1>10 DEF Tick, vars, search
<1> QED BY <1>6, <1>7, <1>8, <1>9, <1>10
        DEF Next, GeneticStep, Build, CpSolve, StartGenetic, GreedyPlace, Populate, StartGeneration,
            Finish, Breed, CloseGeneration, Rest, Stopped

\* For every search: the incumbent never gets worse, a generation worsens no elite
\* rank, and a repair never returns a child worse than the one it was given.
THEOREM SearchNeverWorse == Spec => NeverWorse
<1>1. IInv /\ [Next]_vars =>
        [ /\ \A b \in best, c \in best' : ~Less(b.fit, c.fit)
          /\ pc = "breed" /\ pc' = "generation" =>
               \A k \in 1..Max({1, Elites}) : ~Less(pop[k].fit, pop'[k].fit)
          /\ pc \in {"repair", "scan"} =>
               \A b \in child, c \in child' \cup (IF next' = next THEN {} ELSE {next'[Len(next')]}) :
                 ~Less(b.fit, c.fit) ]_vars
  BY IncumbentImproves, ElitesStay, RepairImproves
<1> QED BY <1>1, Invariant, PTL DEF Spec, NeverWorse
==============================================================================
