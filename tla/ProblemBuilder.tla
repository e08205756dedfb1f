---------------------------- MODULE ProblemBuilder ----------------------------
(***************************************************************************)
(* From the rows of a term revision to the problem both engines solve      *)
(* (scheduler/services/problem_builder.py).                                *)
(*                                                                         *)
(* A revision t is a record:                                               *)
(*   status   the RevisionStatus;  ours: the profile belongs to the term   *)
(*   slots    <<day, sequence>> -> [from, to, usable]  (active, no break)  *)
(*   rooms    the campus's active rooms -> [lab, caps, grants, profiled,   *)
(*            free]; profiled: it has an availability profile              *)
(*   people   instructor -> [profiled, free]                               *)
(*   prefs    instructor -> slot -> [avoid, reward]                        *)
(*   meeting  id -> [links, instructors, duration, caps, lab, offering,    *)
(*            group, offCollege, offDept]; links is section -> [class,     *)
(*            college, dept], the subject as the section's curriculum has  *)
(*            it, its dept perhaps None                                    *)
(*   pin      a partial function, id -> [room, start]  (LockedAssignment)  *)
(*   retired  the sections and instructors that are no longer active       *)
(***************************************************************************)
EXTENDS Timetable

When(cond, S) == IF cond THEN S ELSE {}

\* What the columns and constraints of the database guarantee of a revision:
\* tables are finite, weights and durations are positive, references resolve.
RowsOK(t) ==
  /\ IsFiniteSet(DOMAIN t.slots) /\ IsFiniteSet(DOMAIN t.meeting) /\ IsFiniteSet(DOMAIN t.rooms)
  /\ \A a \in DOMAIN t.slots : a = <<a[1], a[2]>> /\ a[2] \in Int
  /\ DOMAIN t.meeting \subseteq Int
  /\ \A id \in DOMAIN t.meeting :
       /\ t.meeting[id].duration \in Nat \ {0}
       /\ t.meeting[id].lab \in BOOLEAN
       /\ IsFiniteSet(DOMAIN t.meeting[id].links) /\ IsFiniteSet(t.meeting[id].instructors)
       /\ t.meeting[id].instructors \subseteq DOMAIN t.prefs
       /\ t.meeting[id].offCollege # None /\ t.meeting[id].offDept # None
       /\ \A x \in DOMAIN t.meeting[id].links : t.meeting[id].links[x].college # None
  /\ \A i \in DOMAIN t.prefs :
       /\ IsFiniteSet(DOMAIN t.prefs[i])
       /\ \A a \in DOMAIN t.prefs[i] : t.prefs[i][a].avoid \in Nat /\ t.prefs[i][a].reward \in Nat
  /\ \A r \in DOMAIN t.rooms : \A g \in t.rooms[r].grants : (g.college = None) # (g.dept = None)
  /\ \A id \in DOMAIN t.pin : t.pin[id] = [room |-> t.pin[id].room, start |-> t.pin[id].start]

Usable(t) == { a \in DOMAIN t.slots : t.slots[a].usable }
Profiled(who) == { x \in DOMAIN who : who[x].profiled }
Available(t, free) == { a \in free : t.slots[a].usable }

\* The atoms from start on that are usable, consecutive and adjacent in time.
Window(start, n) == { <<start[1], start[2] + k>> : k \in 0..(n - 1) }
Windows(t, n) ==
  { a \in Usable(t) :
      /\ Window(a, n) \subseteq Usable(t)
      /\ \A k \in 1..(n - 1) :
           t.slots[<<a[1], a[2] + k>>].from = t.slots[<<a[1], a[2] + k - 1>>].to }

\* Mutated form: a null department equals a null department.
AuthorizationMatches_NullUnits(grants, link, m) ==
  LET major == link.class = "MAJOR"
      college == IF major THEN link.college ELSE m.offCollege
      dept == IF major THEN link.dept ELSE m.offDept
  IN \E g \in grants :
       g.class = link.class /\ (g.dept = dept \/ (g.college # None /\ g.college = college))

\* May a room with these grants take the section that is linked to meeting m?
AuthorizationMatches(grants, link, m) ==
  LET major == link.class = "MAJOR"
      college == IF major THEN link.college ELSE m.offCollege
      dept == IF major THEN link.dept ELSE m.offDept
  IN \E g \in grants :
       /\ g.class = link.class
       /\ \/ g.dept # None /\ g.dept = dept
          \/ g.college # None /\ g.college = college

Requirement(link, m) ==
  [class |-> link.class, ownCollege |-> link.college, ownDept |-> link.dept,
   offCollege |-> m.offCollege, offDept |-> m.offDept]

RoomServes(t, m, r) ==
  /\ r \in Profiled(t.rooms)
  /\ m.lab => t.rooms[r].lab
  /\ m.caps \subseteq t.rooms[r].caps
  /\ \A x \in DOMAIN m.links : AuthorizationMatches(t.rooms[r].grants, m.links[x], m)

\* Avoided slots cost their weight, a preferred one saves its own against the
\* dearest preference of that instructor.
Ceiling(t, i) == Max({0} \cup { t.prefs[i][a].reward : a \in DOMAIN t.prefs[i] })
SlotPenalty(t, i, a) ==
  LET stated == a \in DOMAIN t.prefs[i]
  IN (IF stated THEN t.prefs[i][a].avoid - t.prefs[i][a].reward ELSE 0) + Ceiling(t, i)
Penalty(t, m, atoms) ==
  SumFunction([x \in m.instructors \X atoms |-> SlotPenalty(t, x[1], x[2])])

Placement(t, m, r, start) ==
  LET atoms == Window(start, m.duration)
  IN [room |-> r, start |-> start, atoms |-> atoms, penalty |-> Penalty(t, m, atoms)]

\* Mutated form: a lock fixes the room alone.
Candidates_PinsRoomOnly(t, id) ==
  LET m == t.meeting[id]
  IN { Placement(t, m, x[1], x[2]) : x \in
         { y \in (DOMAIN t.rooms) \X Windows(t, m.duration) :
             LET atoms == Window(y[2], m.duration)
             IN /\ RoomServes(t, m, y[1])
                /\ atoms \subseteq Available(t, t.rooms[y[1]].free)
                /\ \A i \in m.instructors :
                     /\ i \in Profiled(t.people)
                     /\ atoms \subseteq Available(t, t.people[i].free)
                /\ id \in DOMAIN t.pin =>
                     t.pin[id].room = y[1] } }

Candidates(t, id) ==
  LET m == t.meeting[id]
  IN { Placement(t, m, x[1], x[2]) : x \in
         { y \in (DOMAIN t.rooms) \X Windows(t, m.duration) :
             LET atoms == Window(y[2], m.duration)
             IN /\ RoomServes(t, m, y[1])
                /\ atoms \subseteq Available(t, t.rooms[y[1]].free)
                /\ \A i \in m.instructors :
                     /\ i \in Profiled(t.people)
                     /\ atoms \subseteq Available(t, t.people[i].free)
                /\ id \in DOMAIN t.pin =>
                     t.pin[id].room = y[1] /\ t.pin[id].start = y[2] } }

Teaching(t) == UNION { t.meeting[id].instructors : id \in DOMAIN t.meeting }

\* What build_problem refuses before it looks at the locks.
RevisionIssues(t) ==
  When(t.status \notin {"VALIDATED", "COMMITTED"}, {"REVISION_NOT_VALIDATED"})
    \cup When(~t.ours, {"OBJECTIVE_TERM_MISMATCH"})
    \cup When(Usable(t) = {}, {"NO_TIME_SLOTS"})
    \cup When(DOMAIN t.meeting = {}, {"NO_MEETINGS"})
    \cup When(DOMAIN t.rooms = {}, {"NO_ROOMS"})
    \cup When(DOMAIN t.rooms # Profiled(t.rooms), {"MISSING_ROOM_AVAILABILITY_PROFILE"})
    \cup When(~(Teaching(t) \subseteq Profiled(t.people)),
              {"MISSING_INSTRUCTOR_AVAILABILITY_PROFILE"})
MeetingIssues(t) ==
  UNION { LET m == t.meeting[id]
          IN When(DOMAIN m.links = {}, {"MEETING_WITHOUT_SECTION"})
               \cup When(m.instructors = {}, {"MEETING_WITHOUT_INSTRUCTOR"})
               \cup When(DOMAIN m.links \cap t.retired # {}, {"INACTIVE_SECTION"})
               \cup When(m.instructors \cap t.retired # {}, {"INACTIVE_INSTRUCTOR"})
               \cup When(Candidates(t, id) = {}, {"EMPTY_CANDIDATE_DOMAIN"}) :
          id \in DOMAIN t.meeting }

EventOf(t, id) ==
  LET m == t.meeting[id]
  IN [sections |-> DOMAIN m.links, instructors |-> m.instructors,
      duration |-> m.duration, caps |-> m.caps, lab |-> m.lab,
      reqs |-> [x \in DOMAIN m.links |-> Requirement(m.links[x], m)],
      group |-> IF m.group = None THEN NoGroup ELSE <<m.offering, m.group>>,
      cands |-> Candidates(t, id)]

Problem(t, weights) ==
  [ atoms |-> Usable(t),
    event |-> [id \in DOMAIN t.meeting |-> EventOf(t, id)],
    room |-> [r \in Profiled(t.rooms) |->
                [lab |-> t.rooms[r].lab, caps |-> t.rooms[r].caps,
                 grants |-> t.rooms[r].grants, free |-> Available(t, t.rooms[r].free)]],
    free |-> [i \in Teaching(t) \cap Profiled(t.people) |-> Available(t, t.people[i].free)],
    lock |-> [id \in DOMAIN t.pin \cap DOMAIN t.meeting |->
                CHOOSE c \in Candidates(t, id) : TRUE],
    weight |-> weights ]

\* Mutated form: only the rooms of the locks are compared.
LockIssues_RoomsOnly(p) ==
  When({ v \in ResourceConflicts(p, p.lock) : v[2][1] = "room" } # {}, {"CONFLICTING_LOCKS"})
\* Locks that contradict each other: the conflicts of the locked placements.
LockIssues(p) == When(Conflicts(p, p.lock) # {}, {"CONFLICTING_LOCKS"})

Buildable(t, weights) ==
  /\ RevisionIssues(t) = {}
  /\ MeetingIssues(t) = {}
  /\ LockIssues(Problem(t, weights)) = {}
==============================================================================
