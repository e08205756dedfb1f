----------------------------- MODULE Regeneration -----------------------------
(***************************************************************************)
(* Pinning placements of a reviewed ScheduleVersion (LockedAssignment) and *)
(* regenerating child versions under the pins: lock_schedule_assignments,  *)
(* ScheduleRegenerateView, build_and_store_snapshot, create_run and the    *)
(* draft that a run leaves, for the versions of one dataset revision.      *)
(*                                                                         *)
(* A regeneration is a chain of transactions at READ COMMITTED: pin,       *)
(* build and store the snapshot, submit the runs.  Requests, workers and   *)
(* the administration pages interleave with it at every link.  A meeting   *)
(* is one time atom long; what else happens to a version between draft     *)
(* and archive is in ScheduleReview.                                       *)
(***************************************************************************)
EXTENDS Naturals, FiniteSets

CONSTANTS
  Versions,   \* ScheduleVersion rows, present or to come
  Originals,  \* those that exist at the beginning
  Meetings,   \* MeetingRequirement rows of the revision
  Rooms,
  Slots,      \* start slots, in the order of a week
  Related,    \* pairs of meetings that share a section or an instructor
  Requests,   \* lock and regeneration requests that may be in flight at once
  Runs,       \* submitted runs that may be open at once
  None,       \* no placement, pin, version, request or run
  HandSources, \* bound on the versions the page of the pins names as a source
  MaxEdits,   \* bound on what the administration pages write
  MaxRequests \* bound on the requests that are received

\* REVIEWED is UNDER_REVIEW or APPROVED: neither pins nor runs tell them apart.
Stages == {"ABSENT", "DRAFT", "REVIEWED", "ARCHIVED", "DELETED"}
Existing == Stages \ {"ABSENT", "DELETED"}
Placements == [room : Rooms, start : Slots]
Pins == [at : Placements, source : Versions \cup {None}, byHand : BOOLEAN]
Tables == [Meetings -> Placements \cup {None}]
Jobs == [version : Versions, wanted : SUBSET Meetings,
         step : {"checked", "pinning", "pinned", "stored"},
         seen : Tables, waiting : Meetings \cup {None}, held : SUBSET Meetings,
         table : Tables, changed : SUBSET Meetings]
OpenRuns == [parent : Versions, table : Tables, asked : Tables,
             changed : SUBSET Meetings]

ASSUME RegenerationAssumption ==
  /\ Originals \subseteq Versions /\ HandSources \subseteq Versions
  /\ Slots \subseteq Nat
  /\ \A m, n \in Meetings : <<m, n>> \in Related => <<n, m>> \in Related
  /\ None \notin Versions \cup Meetings \cup Placements \cup Pins \cup Jobs \cup OpenRuns
  /\ MaxEdits \in Nat /\ MaxRequests \in Nat

VARIABLES
  stage,     \* ScheduleVersion.status; ABSENT before, DELETED after its life
  place,     \* the version's ScheduleAssignment rows
  parent,    \* ScheduleVersion.parent
  basis,     \* the pins in the version's ProblemSnapshot
  pins,      \* the active LockedAssignment of each meeting
  snapshots, \* the stored ProblemSnapshots, each the pins it froze
  request,   \* per request, how far it is
  run,       \* per open run, its snapshot and configuration
  reopened,  \* history: the versions a stale form took back a stage
  edits,     \* how often the administration pages wrote
  received   \* how many requests were received

vars == <<stage, place, parent, basis, pins, snapshots, request, run, reopened,
          edits, received>>
lineage == <<stage, place, parent, basis, reopened>>

TypeOK ==
  /\ stage \in [Versions -> Stages]
  /\ place \in [Versions -> Tables]
  /\ parent \in [Versions -> Versions \cup {None}]
  /\ basis \in [Versions -> Tables]
  /\ pins \in [Meetings -> Pins \cup {None}]
  /\ snapshots \in SUBSET Tables
  /\ request \in [Requests -> Jobs \cup {None}]
  /\ run \in [Runs -> OpenRuns \cup {None}]
  /\ reopened \in SUBSET Versions
  /\ edits \in 0..MaxEdits
  /\ received \in 0..MaxRequests

-----------------------------------------------------------------------------
NoTable == [m \in Meetings |-> None]
Placed(t) == {m \in Meetings : t[m] # None}

Clash(t, m, n) ==
  /\ t[m].start = t[n].start
  /\ t[m].room = t[n].room \/ <<m, n>> \in Related

\* No two placements of the table contradict each other.
Sound(t) == \A m, n \in Placed(t) : m # n => ~Clash(t, m, n)

\* The schedules the validator accepts for a snapshot with these pins.
Schedules(t) ==
  {f \in [Meetings -> Placements] :
     Sound(f) /\ \A m \in Placed(t) : f[m] = t[m]}

\* What build_problem reads in one statement: the active pins.
Table == [m \in Meetings |-> IF pins[m] = None THEN None ELSE pins[m].at]

Init ==
  /\ stage = [v \in Versions |-> IF v \in Originals THEN "REVIEWED" ELSE "ABSENT"]
  /\ place \in {f \in [Versions -> Schedules(NoTable) \cup {NoTable}] :
                  \A v \in Versions : f[v] = NoTable <=> v \notin Originals}
  /\ parent = [v \in Versions |-> None]
  /\ basis = [v \in Versions |-> NoTable]
  /\ pins = [m \in Meetings |-> None]
  /\ snapshots = {NoTable}
  /\ request = [q \in Requests |-> None]
  /\ run = [r \in Runs |-> None]
  /\ reopened = {}
  /\ edits = 0
  /\ received = 0

-----------------------------------------------------------------------------
(* A request, from the row its view loads to the runs it submits.          *)

\* Mutated form: any version's placements may be pinned.
Lockable_AnyStage(s) == s \in Existing
Lockable(s) == s = "REVIEWED"

Job(v, wanted) ==
  [version |-> v, wanted |-> wanted,
   step |-> IF wanted = {} THEN "pinned" ELSE "checked",
   seen |-> NoTable, waiting |-> None, held |-> {}, table |-> NoTable,
   changed |-> {}]

AtStep(q, s) == request[q] # None /\ request[q].step = s
Held(q) == IF request[q] = None THEN {} ELSE request[q].held
\* The rows that update_or_create has still to lock and write.
ToPin(j) == Placed(j.seen) \ j.held

Ends(q) == request' = [request EXCEPT ![q] = None]

\* The status is tested on the row the view loaded.  A regeneration without
\* assignments to pin starts at the snapshot and takes a version of any stage.
Receive(q) ==
  /\ request[q] = None
  /\ received < MaxRequests
  /\ \E v \in Versions, wanted \in SUBSET Meetings :
       /\ stage[v] \in Existing
       /\ wanted # {} => Lockable(stage[v])
       /\ request' = [request EXCEPT ![q] = Job(v, wanted)]
  /\ received' = received + 1
  /\ UNCHANGED <<lineage, pins, snapshots, run, edits>>

\* schedule.assignments.filter(pk__in=...), another statement.
Selected(j) ==
  [m \in Meetings |-> IF m \in j.wanted /\ stage[j.version] \in Existing
                        THEN place[j.version][m] ELSE None]

ReadPlacements(q) ==
  /\ AtStep(q, "checked")
  /\ Placed(Selected(request[q])) # {}
  /\ request' = [request EXCEPT ![q] =
                   [@ EXCEPT !.step = "pinning", !.seen = Selected(request[q])]]
  /\ UNCHANGED <<lineage, pins, snapshots, run, edits, received>>

\* Mutated form: the assignments come in no particular order.
Earliest_Unordered(j, m) == TRUE
\* ScheduleAssignment.Meta.ordering: by day and sequence of the start slot.
Earliest(j, m) == \A n \in ToPin(j) : j.seen[m].start <= j.seen[n].start

\* update_or_create asks for the row of the next meeting ...
Approach(q) ==
  /\ AtStep(q, "pinning")
  /\ request[q].waiting = None
  /\ \E m \in ToPin(request[q]) :
       /\ Earliest(request[q], m)
       /\ request' = [request EXCEPT ![q] = [@ EXCEPT !.waiting = m]]
  /\ UNCHANGED <<lineage, pins, snapshots, run, edits, received>>

\* ... and waits while another transaction has locked or inserted it.
LockRow(q) ==
  /\ AtStep(q, "pinning")
  /\ request[q].waiting # None
  /\ \A p \in Requests \ {q} : request[q].waiting \notin Held(p)
  /\ request' = [request EXCEPT ![q] =
                   [@ EXCEPT !.held = Held(q) \cup {request[q].waiting}, !.waiting = None]]
  /\ UNCHANGED <<lineage, pins, snapshots, run, edits, received>>

\* Mutated form: get_or_create leaves a pin that is already active.
PinnedBy_KeepsExisting(j) ==
  [m \in Meetings |->
     IF m \in j.held /\ pins[m] = None
       THEN [at |-> j.seen[m], source |-> j.version, byHand |-> FALSE] ELSE pins[m]]
PinnedBy(j) ==
  [m \in Meetings |->
     IF m \in j.held
       THEN [at |-> j.seen[m], source |-> j.version, byHand |-> FALSE] ELSE pins[m]]

\* History: the other requests and the runs note which pins move under them.
Moved == {m \in Meetings : Table'[m] # Table[m]}
Noted(j) ==
  IF j = None \/ (j # None /\ j.step \in {"checked", "pinning"}) THEN j
  ELSE [j EXCEPT !.changed = @ \cup Moved]
NotedByRuns ==
  [r \in Runs |-> IF run[r] = None THEN None
                  ELSE [run[r] EXCEPT !.changed = @ \cup Moved]]

\* All rows become visible at once; the foreign key refuses a deleted source.
\* ScheduleLockView is done then, ScheduleRegenerateView goes on.
CommitPins(q) ==
  /\ AtStep(q, "pinning")
  /\ request[q].waiting = None
  /\ ToPin(request[q]) = {}
  /\ stage[request[q].version] \in Existing
  /\ pins' = PinnedBy(request[q])
  /\ \E goesOn \in BOOLEAN :
       request' = [p \in Requests |->
         IF p # q THEN Noted(request[p])
         ELSE IF goesOn THEN [request[q] EXCEPT !.step = "pinned", !.held = {}]
         ELSE None]
  /\ run' = NotedByRuns
  /\ UNCHANGED <<lineage, snapshots, edits, received>>

\* Mutated form: the hash leaves the pins out.
SameContent_IgnoresPins(s, t) == TRUE
\* Equal snapshot_hash.
SameContent(s, t) == s = t
StoredAs(t) ==
  IF \E s \in snapshots : SameContent(s, t)
    THEN CHOOSE s \in snapshots : SameContent(s, t) ELSE t

\* build_and_store_snapshot: the pins committed by now are read in one statement,
\* and only the hash tells whether another request stored the same problem.
Build(q) ==
  /\ AtStep(q, "pinned")
  /\ Sound(Table)
  /\ LET t == StoredAs(Table)
     IN  /\ snapshots' = snapshots \cup {t}
         /\ request' = [request EXCEPT ![q] = [@ EXCEPT !.step = "stored", !.table = t]]
  /\ UNCHANGED <<lineage, pins, run, edits, received>>

\* create_run and queue_run, once per algorithm.
Submit(q) ==
  /\ AtStep(q, "stored")
  /\ stage[request[q].version] \in Existing
  /\ \E r \in Runs :
       /\ run[r] = None
       /\ run' = [run EXCEPT ![r] =
            [parent |-> request[q].version, table |-> request[q].table,
             asked |-> request[q].seen, changed |-> request[q].changed]]
  /\ UNCHANGED <<lineage, pins, snapshots, request, edits, received>>

Finish(q) ==
  /\ AtStep(q, "stored")
  /\ Ends(q)
  /\ UNCHANGED <<lineage, pins, snapshots, run, edits, received>>

\* Nothing is selected, or the pins contradict each other (PREFLIGHT_FAILED).
Refuse(q) ==
  /\ \/ AtStep(q, "checked") /\ Placed(Selected(request[q])) = {}
     \/ AtStep(q, "pinned") /\ ~Sound(Table)
  /\ Ends(q)
  /\ UNCHANGED <<lineage, pins, snapshots, run, edits, received>>

\* The victim of a deadlock, a deleted source, a lost connection, a broker
\* error: the transaction under way rolls back, what is committed stays.
Fail(q) ==
  /\ request[q] # None
  /\ Ends(q)
  /\ UNCHANGED <<lineage, pins, snapshots, run, edits, received>>

-----------------------------------------------------------------------------
(* The runs.                                                               *)

\* Mutated form: a parent that is gone does not matter.
ParentStands_Unchecked(v) == TRUE
ParentStands(v) == stage[v] \in Existing

\* persist_result with _create_schedule_version.
Publish(r) ==
  /\ run[r] # None
  /\ ParentStands(run[r].parent)
  /\ \E v \in Versions, f \in Schedules(run[r].table) :
       /\ stage[v] = "ABSENT"
       /\ stage' = [stage EXCEPT ![v] = "DRAFT"]
       /\ place' = [place EXCEPT ![v] = f]
       /\ parent' = [parent EXCEPT ![v] = run[r].parent]
       /\ basis' = [basis EXCEPT ![v] = run[r].table]
  /\ run' = [run EXCEPT ![r] = None]
  /\ UNCHANGED <<pins, snapshots, request, reopened, edits, received>>

\* Infeasible, out of time, cancelled, failed.
EndWithoutDraft(r) ==
  /\ run[r] # None
  /\ run' = [run EXCEPT ![r] = None]
  /\ UNCHANGED <<lineage, pins, snapshots, request, edits, received>>

-----------------------------------------------------------------------------
(* What happens to the versions and the pins meanwhile.                    *)

\* submit_for_review validates the draft against its own snapshot.
SubmitForReview(v) ==
  /\ stage[v] = "DRAFT"
  /\ place[v] \in Schedules(basis[v])
  /\ stage' = [stage EXCEPT ![v] = "REVIEWED"]
  /\ UNCHANGED <<place, parent, basis, pins, snapshots, request, run, reopened,
                 edits, received>>

\* The approval of another version of the term.
Archive(v) ==
  /\ stage[v] = "REVIEWED"
  /\ \E u \in Versions \ {v} : stage[u] = "REVIEWED"
  /\ stage' = [stage EXCEPT ![v] = "ARCHIVED"]
  /\ UNCHANGED <<place, parent, basis, pins, snapshots, request, run, reopened,
                 edits, received>>

\* The rows after one was edited, deleted or left as it is: a form that changes
\* several is as good as several forms.
Edited(t) == {[t EXCEPT ![m] = p] : m \in Meetings, p \in Placements \cup {None}}

\* A form that loaded the version earlier writes its status back; if it
\* loaded a draft, it also writes placements, which nothing validates.
SaveForm(v) ==
  /\ edits < MaxEdits
  /\ stage[v] \in Existing
  /\ \/ /\ place' \in {[place EXCEPT ![v] = t] : t \in Edited(place[v])}
        /\ stage' = [stage EXCEPT ![v] = "DRAFT"]
        /\ reopened' = reopened \cup {u \in {v} : stage[v] # "DRAFT"}
     \/ /\ stage[v] = "ARCHIVED" \/ v \in reopened
        /\ stage' = [stage EXCEPT ![v] = "REVIEWED"]
        /\ reopened' = reopened \cup {v}
        /\ UNCHANGED place
  /\ edits' = edits + 1
  /\ UNCHANGED <<parent, basis, pins, snapshots, request, run, received>>

\* The page deletes a version that no child and no pin refers to (nor an
\* approval, which is not modelled).  Its number never comes back.
Delete(v) ==
  /\ edits < MaxEdits
  /\ stage[v] \in {"DRAFT", "REVIEWED"}
  /\ \A u \in Versions : parent[u] # v
  /\ \A m \in Meetings : pins[m] # None => pins[m].source # v
  /\ stage' = [stage EXCEPT ![v] = "DELETED"]
  /\ parent' = [parent EXCEPT ![v] = None]
  /\ edits' = edits + 1
  /\ UNCHANGED <<place, basis, pins, snapshots, request, run, reopened, received>>

\* The page of the pins sets or removes one, at any place and with any source.
WritePin(m) ==
  /\ edits < MaxEdits
  /\ \A q \in Requests : m \notin Held(q)
  /\ \E pin \in {None} \cup
         [at : Placements, byHand : {TRUE},
          source : {None} \cup {v \in HandSources : stage[v] \in Existing}] :
       pins' = [pins EXCEPT ![m] = pin]
  /\ request' = [q \in Requests |-> Noted(request[q])]
  /\ run' = NotedByRuns
  /\ edits' = edits + 1
  /\ UNCHANGED <<lineage, snapshots, received>>

-----------------------------------------------------------------------------
Pinning(q) ==
  ReadPlacements(q) \/ Approach(q) \/ LockRow(q) \/ CommitPins(q)
Regenerating(q) == Build(q) \/ Submit(q) \/ Finish(q)

Next ==
  \/ \E q \in Requests :
       Receive(q) \/ Pinning(q) \/ Regenerating(q) \/ Refuse(q) \/ Fail(q)
  \/ \E r \in Runs : Publish(r) \/ EndWithoutDraft(r)
  \/ \E v \in Versions :
       SubmitForReview(v) \/ Archive(v) \/ SaveForm(v) \/ Delete(v)
  \/ \E m \in Meetings : WritePin(m)

Spec == Init /\ [][Next]_vars

-----------------------------------------------------------------------------
(* Properties                                                              *)

\* A pin taken from a version is that version's placement of the meeting as
\* long as no stale form reopened the version: the status is read before the
\* placements and the rows are written later still, but the placements of a
\* version under review stand still (workflow.py:240).
PinsMatchTheirSource ==
  \A m \in Meetings :
    pins[m] # None /\ ~pins[m].byHand /\ pins[m].source \notin reopened \cup {None} =>
      pins[m].at = place[pins[m].source][m]

\* The snapshot of a run has exactly the pins that are active, but for those
\* that moved after the request committed its own, and among them each
\* placement the request was to carry over, wherever other requests, pages,
\* and the reuse of a stored snapshot come in between.
RunsCarryPins ==
  \A r \in Runs : run[r] # None =>
    \A m \in Meetings \ run[r].changed :
      /\ run[r].table[m] = Table[m]
      /\ run[r].asked[m] # None => run[r].table[m] = run[r].asked[m]

\* A child is a child of the version the request named, sits on every pin
\* that did not move since the request committed its own, and with that on
\* every placement it was to carry over (README.md:31, README.md:151).
ChildHonoursPins ==
  [][\A v \in Versions : stage[v] = "ABSENT" /\ stage'[v] # "ABSENT" =>
       \E r \in Runs :
         /\ run[r] # None /\ parent'[v] = run[r].parent
         /\ Sound(place'[v])
         /\ \A m \in Meetings \ run[r].changed :
              /\ pins[m] # None => place'[v][m] = pins[m].at
              /\ run[r].asked[m] # None => place'[v][m] = run[r].asked[m]]_vars

\* What refers to a version finds it: the parent of a child, the source of a
\* pin, although runs and requests keep only its number while pages delete.
NothingOrphaned ==
  /\ \A v \in Versions : parent[v] # None => stage[parent[v]] \in Existing
  /\ \A m \in Meetings :
       pins[m] # None /\ pins[m].source # None => stage[pins[m].source] \in Existing

WaitsFor(p, q) ==
  /\ p # q /\ request[p] # None
  /\ request[p].waiting # None /\ request[p].waiting \in Held(q)

\* Two requests that pin from one version that nobody reopened block each
\* other only over meetings that start at the same slot: the order of the
\* assignments is what keeps them apart (workflow.py:251).
NoMutualWait ==
  \A p, q \in Requests :
    /\ WaitsFor(p, q) /\ WaitsFor(q, p)
    /\ request[p].version = request[q].version
    /\ request[p].version \notin reopened
    => request[p].seen[request[p].waiting].start
         = request[q].seen[request[q].waiting].start

-----------------------------------------------------------------------------
(* What the properties rest on                                             *)

\* A request locks rows in its one loop, in the order of their start.
Ordered(j) ==
  /\ j.step # "pinning" => j.held = {} /\ j.waiting = None
  /\ j.held \subseteq Placed(j.seen)
  /\ \A m \in j.held, n \in ToPin(j) : j.seen[m].start <= j.seen[n].start
  /\ j.waiting # None => j.waiting \in ToPin(j) /\ Earliest(j, j.waiting)
LocksInOrder == \A q \in Requests : request[q] # None => Ordered(request[q])

\* What a lock request read of a version that nobody reopened is still true.
StillTrue(j) ==
  j.step \in {"checked", "pinning"} /\ j.version \notin reopened =>
    /\ stage[j.version] \in {"REVIEWED", "ARCHIVED", "DELETED"}
    /\ \A m \in Placed(j.seen) : j.seen[m] = place[j.version][m]
ReadingsHold == \A q \in Requests : request[q] # None => StillTrue(request[q])

\* After its pins are committed a request finds them as it left them, but for
\* those it noted as moved, and so does the table it builds.
KeepsPins(j) ==
  /\ j.step = "checked" => j.seen = NoTable
  /\ j.step \in {"checked", "pinning"} => j.changed = {}
  /\ j.step = "pinned" => \A m \in Placed(j.seen) \ j.changed : Table[m] = j.seen[m]
  /\ j.step = "stored" =>
       /\ Sound(j.table)
       /\ \A m \in Meetings \ j.changed :
            /\ j.table[m] = Table[m]
            /\ j.seen[m] # None => j.table[m] = j.seen[m]
RequestsKeepPins == \A q \in Requests : request[q] # None => KeepsPins(request[q])

SourcesAreReviewed ==
  \A m \in Meetings :
    pins[m] # None /\ ~pins[m].byHand /\ pins[m].source \notin reopened \cup {None} =>
      stage[pins[m].source] # "DRAFT"

RegenerationInv ==
  /\ TypeOK
  /\ LocksInOrder
  /\ ReadingsHold
  /\ RequestsKeepPins
  /\ SourcesAreReviewed
  /\ NothingOrphaned
  /\ PinsMatchTheirSource
  /\ RunsCarryPins
=============================================================================
