-------------------------- MODULE RegenerationProofs --------------------------
(***************************************************************************)
(* RegenerationInv is inductive for every number of versions, meetings,    *)
(* rooms, slots, requests, runs and edits; the properties of Regeneration  *)
(* follow from it.  One lemma per conjunct of the invariant, one step per  *)
(* action that can disturb it.                                             *)
(***************************************************************************)
EXTENDS Regeneration, TLAPS

USE RegenerationAssumption

LEMMA InitInv == Init => RegenerationInv
<1> SUFFICES ASSUME Init PROVE RegenerationInv
  OBVIOUS
<1>1. TypeOK
  BY DEF Init, TypeOK, Schedules, Tables, NoTable, Stages, Placements
<1>2. Table = NoTable
  BY DEF Init, Table, NoTable
<1> QED
  BY <1>1 DEF Init, RegenerationInv, LocksInOrder, ReadingsHold, RequestsKeepPins,
    SourcesAreReviewed, NothingOrphaned, PinsMatchTheirSource, RunsCarryPins

-----------------------------------------------------------------------------
(* Types.                                                                  *)

LEMMA TableTyped == TypeOK => Table \in Tables
BY DEF TypeOK, Table, Tables, Pins

LEMMA NotedTyped ==
  ASSUME NEW j \in Jobs \cup {None} PROVE Noted(j) \in Jobs \cup {None}
<1>1. Moved \in SUBSET Meetings
  BY DEF Moved
<1> QED
  BY <1>1 DEF Noted, Jobs

LEMMA NotedFields ==
  ASSUME NEW j \in Jobs
  PROVE  /\ Noted(j) # None
         /\ Noted(j).version = j.version /\ Noted(j).step = j.step
         /\ Noted(j).seen = j.seen /\ Noted(j).table = j.table
         /\ Noted(j).waiting = j.waiting /\ Noted(j).held = j.held
         /\ Noted(j).changed = IF j.step \in {"checked", "pinning"} THEN j.changed
                               ELSE j.changed \cup Moved
<1>1. Moved \in SUBSET Meetings
  BY DEF Moved
<1> QED
  BY <1>1 DEF Noted, Jobs

LEMMA NotedByRunsTyped ==
  ASSUME TypeOK PROVE NotedByRuns \in [Runs -> OpenRuns \cup {None}]
<1>1. Moved \in SUBSET Meetings
  BY DEF Moved
<1> QED
  BY <1>1 DEF NotedByRuns, TypeOK, OpenRuns

LEMMA JobTyped ==
  ASSUME NEW v \in Versions, NEW wanted \in SUBSET Meetings
  PROVE Job(v, wanted) \in Jobs
BY DEF Job, Jobs, NoTable, Tables

LEMMA StoredAsItself == ASSUME NEW t PROVE StoredAs(t) = t
BY DEF StoredAs, SameContent

LEMMA JobUpdated ==
  ASSUME NEW j \in Jobs, NEW t \in Tables
  PROVE  /\ [j EXCEPT !.step = "pinning", !.seen = t] \in Jobs
         /\ [j EXCEPT !.step = "stored", !.table = t] \in Jobs
         /\ [j EXCEPT !.step = "pinned", !.held = {}] \in Jobs
<1>1. [j EXCEPT !.step = "pinning", !.seen = t] \in Jobs
  BY DEF Jobs
<1>2. [j EXCEPT !.step = "stored", !.table = t] \in Jobs
  BY DEF Jobs
<1>3. [j EXCEPT !.step = "pinned", !.held = {}] \in Jobs
  BY DEF Jobs
<1> QED
  BY <1>1, <1>2, <1>3

LEMMA TypeStep == TypeOK /\ LocksInOrder /\ [Next]_vars => TypeOK'
<1> SUFFICES ASSUME TypeOK, LocksInOrder, [Next]_vars PROVE TypeOK'
  OBVIOUS
<1> USE DEF TypeOK, lineage
<1>1. ASSUME NEW q \in Requests, Receive(q) PROVE TypeOK'
  BY <1>1, JobTyped DEF Receive
<1>2. ASSUME NEW q \in Requests, ReadPlacements(q) PROVE TypeOK'
  <2>1. Selected(request[q]) \in Tables
    BY <1>2 DEF ReadPlacements, AtStep, Selected, Tables, Jobs
  <2>2. request[q] \in Jobs
    BY <1>2 DEF ReadPlacements, AtStep
  <2> QED
    BY <1>2, <2>1, <2>2, JobUpdated DEF ReadPlacements
<1>3. ASSUME NEW q \in Requests, Approach(q) PROVE TypeOK'
  BY <1>3 DEF Approach, AtStep, Jobs, ToPin, Placed
<1>4. ASSUME NEW q \in Requests, LockRow(q) PROVE TypeOK'
  <2>1. request[q] \in Jobs
    BY <1>4 DEF LockRow, AtStep
  <2>2. request[q].waiting \in Meetings
    BY <1>4, <2>1 DEF LockRow, Jobs
  <2>3. Held(q) \cup {request[q].waiting} \in SUBSET Meetings
    BY <2>1, <2>2 DEF Held, Jobs
  <2>4. [request[q] EXCEPT !.held = Held(q) \cup {request[q].waiting},
                           !.waiting = None] \in Jobs
    BY <2>1, <2>3 DEF Jobs
  <2> QED
    BY <1>4, <2>4 DEF LockRow
<1>5. ASSUME NEW q \in Requests, CommitPins(q) PROVE TypeOK'
  <2>1. request[q] \in Jobs
    BY <1>5 DEF CommitPins, AtStep
  <2>2. \A m \in request[q].held :
          [at |-> request[q].seen[m], source |-> request[q].version, byHand |-> FALSE] \in Pins
    BY <1>5, <2>1 DEF CommitPins, AtStep, LocksInOrder, Ordered, Placed, Jobs, Tables, Pins
  <2>3. pins' \in [Meetings -> Pins \cup {None}]
    BY <1>5, <2>1, <2>2 DEF CommitPins, PinnedBy
  <2>4. [request[q] EXCEPT !.step = "pinned", !.held = {}] \in Jobs
    BY <2>1, JobUpdated DEF Jobs
  <2>5. PICK goesOn \in BOOLEAN :
          request' = [p \in Requests |->
            IF p # q THEN Noted(request[p])
            ELSE IF goesOn THEN [request[q] EXCEPT !.step = "pinned", !.held = {}]
            ELSE None]
    BY <1>5 DEF CommitPins
  <2>6. request' \in [Requests -> Jobs \cup {None}]
    BY <2>4, <2>5, NotedTyped
  <2> QED
    BY <1>5, <2>3, <2>6, NotedByRunsTyped DEF CommitPins
<1>6. ASSUME NEW q \in Requests, Build(q) PROVE TypeOK'
  <2>1. request[q] \in Jobs
    BY <1>6 DEF Build, AtStep
  <2> QED
    BY <1>6, <2>1, TableTyped, StoredAsItself, JobUpdated DEF Build
<1>7. ASSUME NEW q \in Requests, Submit(q) PROVE TypeOK'
  BY <1>7 DEF Submit, AtStep, Jobs, OpenRuns
<1>8. ASSUME NEW q \in Requests, Finish(q) \/ Refuse(q) \/ Fail(q) PROVE TypeOK'
  BY <1>8 DEF Finish, Refuse, Fail, Ends
<1>9. ASSUME NEW r \in Runs, Publish(r) PROVE TypeOK'
  BY <1>9 DEF Publish, OpenRuns, Schedules, Tables, Stages
<1>10. ASSUME NEW r \in Runs, EndWithoutDraft(r) PROVE TypeOK'
  BY <1>10 DEF EndWithoutDraft
<1>11. ASSUME NEW v \in Versions, SubmitForReview(v) \/ Archive(v) PROVE TypeOK'
  BY <1>11 DEF SubmitForReview, Archive, Stages
<1>12. ASSUME NEW v \in Versions, SaveForm(v) PROVE TypeOK'
  <2>1. ASSUME NEW s \in Edited(place[v]) PROVE s \in Tables
    <3>1. PICK m \in Meetings, p \in Placements \cup {None} :
            s = [place[v] EXCEPT ![m] = p]
      BY <2>1 DEF Edited
    <3>2. place[v] \in Tables
      BY DEF TypeOK
    <3> QED
      BY <3>1, <3>2 DEF Tables
  <2>2. place' \in [Versions -> Tables]
    BY <1>12, <2>1 DEF SaveForm
  <2> QED
    BY <1>12, <2>2 DEF SaveForm, Stages
<1>13. ASSUME NEW v \in Versions, Delete(v) PROVE TypeOK'
  BY <1>13 DEF Delete, Stages
<1>14. ASSUME NEW m \in Meetings, WritePin(m) PROVE TypeOK'
  <2>1. pins' \in [Meetings -> Pins \cup {None}]
    BY <1>14 DEF WritePin, Pins
  <2> QED
    BY <1>14, <2>1, NotedTyped, NotedByRunsTyped DEF WritePin
<1>15. CASE UNCHANGED vars
  BY <1>15 DEF vars
<1> QED
  BY <1>1, <1>2, <1>3, <1>4, <1>5, <1>6, <1>7, <1>8, <1>9, <1>10, <1>11,
     <1>12, <1>13, <1>14, <1>15 DEF Next, Pinning, Regenerating

-----------------------------------------------------------------------------
(* The locks.                                                              *)

LEMMA NotedOrdered ==
  ASSUME NEW j \in Jobs, Ordered(j) PROVE Ordered(Noted(j))
BY NotedFields DEF Ordered, ToPin, Earliest

LEMMA LockingFields ==
  ASSUME TypeOK, NEW q \in Requests, Approach(q) \/ LockRow(q),
         NEW p \in Requests, request'[p] # None
  PROVE  /\ request[p] # None
         /\ request'[p].version = request[p].version /\ request'[p].step = request[p].step
         /\ request'[p].seen = request[p].seen /\ request'[p].table = request[p].table
         /\ request'[p].changed = request[p].changed
<1>1. request[p] # None
  BY DEF TypeOK, Approach, LockRow, AtStep
<1>2. CASE p # q
  BY <1>1, <1>2 DEF TypeOK, Approach, LockRow
<1>3. CASE p = q /\ Approach(q)
  BY <1>1, <1>3 DEF TypeOK, Approach, Jobs
<1>4. CASE p = q /\ LockRow(q)
  BY <1>1, <1>4 DEF TypeOK, LockRow, Jobs
<1> QED
  BY <1>2, <1>3, <1>4

LEMMA OrderStep == TypeOK /\ LocksInOrder /\ [Next]_vars => LocksInOrder'
<1> SUFFICES ASSUME TypeOK, LocksInOrder, [Next]_vars,
                    NEW p \in Requests, request'[p] # None
             PROVE  Ordered(request'[p])
  BY DEF LocksInOrder
<1>0. request[p] # None => request[p] \in Jobs /\ Ordered(request[p])
  BY DEF TypeOK, LocksInOrder
<1> USE DEF TypeOK
<1>1. ASSUME NEW q \in Requests, Receive(q) PROVE Ordered(request'[p])
  BY <1>0, <1>1 DEF Receive, Job, Ordered, Placed, ToPin, NoTable
<1>2. ASSUME NEW q \in Requests, ReadPlacements(q) PROVE Ordered(request'[p])
  BY <1>0, <1>2 DEF ReadPlacements, AtStep, Ordered, Jobs
<1>3. ASSUME NEW q \in Requests, Approach(q) PROVE Ordered(request'[p])
  BY <1>0, <1>3 DEF Approach, AtStep, Ordered, Jobs, ToPin, Earliest
<1>4. ASSUME NEW q \in Requests, LockRow(q) PROVE Ordered(request'[p])
  BY <1>0, <1>4 DEF LockRow, AtStep, Held, Ordered, Jobs, ToPin, Earliest
<1>5. ASSUME NEW q \in Requests, CommitPins(q) PROVE Ordered(request'[p])
  <2>1. CASE p = q
    BY <1>0, <1>5, <2>1 DEF CommitPins, AtStep, Ordered, Jobs, ToPin
  <2>2. CASE p # q
    BY <1>0, <1>5, <2>2, NotedOrdered DEF CommitPins, Noted
  <2> QED
    BY <2>1, <2>2
<1>6. ASSUME NEW q \in Requests, Build(q) PROVE Ordered(request'[p])
  BY <1>0, <1>6 DEF Build, AtStep, Ordered, Jobs, ToPin
<1>7. ASSUME NEW q \in Requests, Finish(q) \/ Refuse(q) \/ Fail(q)
      PROVE  Ordered(request'[p])
  BY <1>0, <1>7 DEF Finish, Refuse, Fail, Ends
<1>8. ASSUME NEW m \in Meetings, WritePin(m) PROVE Ordered(request'[p])
  BY <1>0, <1>8, NotedOrdered DEF WritePin, Noted
<1>9. CASE UNCHANGED request
  BY <1>0, <1>9
<1> QED
  BY <1>1, <1>2, <1>3, <1>4, <1>5, <1>6, <1>7, <1>8, <1>9
  DEF Next, Pinning, Regenerating, vars, Submit, Publish, EndWithoutDraft,
      SubmitForReview, Archive, SaveForm, Delete

-----------------------------------------------------------------------------
(* What the requests read.                                                 *)

LEMMA NotedStillTrue ==
  ASSUME NEW j \in Jobs, NEW k, k = Noted(j), StillTrue(j), UNCHANGED lineage
  PROVE  StillTrue(k)'
<1> QED
  BY NotedFields DEF StillTrue, lineage

LEMMA ReadingsStep == TypeOK /\ RequestsKeepPins /\ ReadingsHold /\ [Next]_vars => ReadingsHold'
<1> SUFFICES ASSUME TypeOK, RequestsKeepPins, ReadingsHold, [Next]_vars,
                    NEW p \in Requests, request'[p] # None
             PROVE  StillTrue(request[p])'
  BY DEF ReadingsHold
<1>0. request[p] # None => request[p] \in Jobs /\ StillTrue(request[p])
  BY DEF TypeOK, ReadingsHold
<1> USE DEF TypeOK, lineage
<1>1. ASSUME NEW q \in Requests, Receive(q) PROVE StillTrue(request[p])'
  BY <1>0, <1>1 DEF Receive, Job, StillTrue, Placed, NoTable, Lockable
<1>2. ASSUME NEW q \in Requests, ReadPlacements(q) PROVE StillTrue(request[p])'
  <2>1. CASE p = q
    BY <1>0, <1>2, <2>1 DEF ReadPlacements, AtStep, StillTrue, Selected, Placed, Jobs
  <2>2. CASE p # q
    BY <1>0, <1>2, <2>2 DEF ReadPlacements, StillTrue
  <2> QED
    BY <2>1, <2>2
<1>3. ASSUME NEW q \in Requests, Approach(q) \/ LockRow(q) PROVE StillTrue(request[p])'
  <2>1. /\ request[p] # None /\ request'[p].version = request[p].version
        /\ request'[p].step = request[p].step /\ request'[p].seen = request[p].seen
    BY <1>0, <1>3, LockingFields
  <2> QED
    BY <1>0, <1>3, <2>1 DEF Approach, LockRow, StillTrue
<1>4. ASSUME NEW q \in Requests, CommitPins(q) PROVE StillTrue(request[p])'
  <2>1. CASE p = q
    BY <1>0, <1>4, <2>1 DEF CommitPins, AtStep, StillTrue, Jobs
  <2>2. CASE p # q
    BY <1>0, <1>4, <2>2, NotedStillTrue DEF CommitPins, Noted
  <2> QED
    BY <2>1, <2>2
<1>5. ASSUME NEW q \in Requests, Build(q) PROVE StillTrue(request[p])'
  BY <1>0, <1>5, StoredAsItself DEF Build, AtStep, StillTrue, Jobs
<1>6. ASSUME NEW q \in Requests, Finish(q) \/ Refuse(q) \/ Fail(q)
      PROVE  StillTrue(request[p])'
  BY <1>0, <1>6 DEF Finish, Refuse, Fail, Ends, StillTrue
<1>7. ASSUME NEW r \in Runs, Publish(r) PROVE StillTrue(request[p])'
  BY <1>0, <1>7 DEF Publish, StillTrue, Jobs
<1>8. ASSUME NEW v \in Versions, SubmitForReview(v) \/ Archive(v)
      PROVE  StillTrue(request[p])'
  BY <1>0, <1>8 DEF SubmitForReview, Archive, StillTrue, Jobs
<1>9. ASSUME NEW v \in Versions, SaveForm(v) PROVE StillTrue(request[p])'
  BY <1>0, <1>9 DEF SaveForm, StillTrue, Jobs
<1>10. ASSUME NEW v \in Versions, Delete(v) PROVE StillTrue(request[p])'
  BY <1>0, <1>10 DEF Delete, StillTrue, Jobs
<1>11. ASSUME NEW m \in Meetings, WritePin(m) PROVE StillTrue(request[p])'
  BY <1>0, <1>11, NotedStillTrue DEF WritePin, Noted
<1>12. CASE UNCHANGED <<request, lineage>>
  BY <1>0, <1>12 DEF StillTrue
<1> QED
  BY <1>1, <1>2, <1>3, <1>4, <1>5, <1>6, <1>7, <1>8, <1>9, <1>10, <1>11, <1>12
  DEF Next, Pinning, Regenerating, vars, Submit, EndWithoutDraft

-----------------------------------------------------------------------------
(* What the requests carry.                                                *)

LEMMA NotedKeepsPins ==
  ASSUME NEW j \in Jobs, NEW k, k = Noted(j), KeepsPins(j)
  PROVE  KeepsPins(k)'
<1>1. \A m \in Meetings \ Moved : Table'[m] = Table[m]
  BY DEF Moved
<1>2. CASE j.step \in {"checked", "pinning"}
  BY <1>2 DEF Noted, KeepsPins
<1>3. CASE j.step = "pinned"
  BY <1>1, <1>3, NotedFields DEF KeepsPins, Placed
<1>4. CASE j.step = "stored"
  BY <1>1, <1>4, NotedFields DEF KeepsPins
<1> QED
  BY <1>2, <1>3, <1>4 DEF Jobs

LEMMA KeepsStep ==
  TypeOK /\ LocksInOrder /\ RequestsKeepPins /\ [Next]_vars => RequestsKeepPins'
<1> SUFFICES ASSUME TypeOK, LocksInOrder, RequestsKeepPins, [Next]_vars,
                    NEW p \in Requests, request'[p] # None
             PROVE  KeepsPins(request[p])'
  BY DEF RequestsKeepPins
<1>0. request[p] # None =>
        request[p] \in Jobs /\ Ordered(request[p]) /\ KeepsPins(request[p])
  BY DEF TypeOK, LocksInOrder, RequestsKeepPins
<1> USE DEF TypeOK
<1>1. ASSUME NEW q \in Requests, Receive(q) PROVE KeepsPins(request[p])'
  BY <1>0, <1>1 DEF Receive, Job, KeepsPins, Table, Placed, NoTable
<1>2. ASSUME NEW q \in Requests, ReadPlacements(q) \/ Approach(q) \/ LockRow(q)
      PROVE  KeepsPins(request[p])'
  <2>1. CASE ReadPlacements(q)
    <3>1. CASE p = q
      <4>1. request'[p].step = "pinning" /\ request'[p].changed = request[p].changed
        BY <1>0, <2>1, <3>1 DEF ReadPlacements, AtStep, Jobs
      <4> QED
        BY <1>0, <2>1, <3>1, <4>1 DEF ReadPlacements, AtStep, KeepsPins
    <3>2. CASE p # q
      <4>1. request'[p] = request[p] /\ UNCHANGED Table
        BY <2>1, <3>2 DEF ReadPlacements, Table
      <4> QED
        BY <1>0, <4>1 DEF KeepsPins
    <3> QED
      BY <3>1, <3>2
  <2>2. CASE Approach(q) \/ LockRow(q)
    <3>1. /\ request[p] # None /\ request'[p].step = request[p].step
          /\ request'[p].seen = request[p].seen /\ request'[p].table = request[p].table
          /\ request'[p].changed = request[p].changed
      BY <2>2, LockingFields
    <3>2. UNCHANGED Table
      BY <2>2 DEF Approach, LockRow, Table
    <3> QED
      BY <1>0, <3>1, <3>2 DEF KeepsPins
  <2> QED
    BY <1>2, <2>1, <2>2
<1>3. ASSUME NEW q \in Requests, CommitPins(q) PROVE KeepsPins(request[p])'
  <2>1. CASE p = q
    <3>1. request[p].held = Placed(request[p].seen)
      BY <1>0, <1>3, <2>1 DEF CommitPins, AtStep, ToPin, Ordered
    <3>2. ASSUME NEW m \in Placed(request[p].seen)
          PROVE  Table'[m] = request[p].seen[m]
      <4>1. m \in Meetings /\ m \in request[p].held
        BY <3>1 DEF Placed
      <4>2. pins'[m] = [at |-> request[p].seen[m], source |-> request[p].version,
                     byHand |-> FALSE]
        BY <1>3, <2>1, <4>1 DEF CommitPins, PinnedBy
      <4>3. pins'[m] \in Pins
        BY <1>0, <1>3, <2>1, <4>1, <4>2 DEF CommitPins, AtStep, Placed, Jobs, Pins, Tables
      <4> QED
        BY <4>1, <4>2, <4>3 DEF Table
    <3> QED
      BY <1>0, <1>3, <2>1, <3>2 DEF CommitPins, AtStep, KeepsPins, Jobs
  <2>2. CASE p # q
    BY <1>0, <1>3, <2>2, NotedKeepsPins DEF CommitPins, Noted
  <2> QED
    BY <2>1, <2>2
<1>4. ASSUME NEW q \in Requests, Build(q) PROVE KeepsPins(request[p])'
  <2>1. UNCHANGED Table
    BY <1>4 DEF Build, Table
  <2>2. CASE p = q
    <3>1. /\ request'[q].step = "stored" /\ request'[q].table = Table
          /\ request'[q].seen = request[q].seen /\ request'[q].changed = request[q].changed
      BY <1>0, <1>4, <2>2, StoredAsItself DEF Build, AtStep, Jobs
    <3>2. \A m \in Meetings \ request[q].changed :
            request[q].seen[m] # None => Table[m] = request[q].seen[m]
      BY <1>0, <1>4, <2>2 DEF Build, AtStep, KeepsPins, Placed
    <3> QED
      BY <1>4, <2>1, <2>2, <3>1, <3>2 DEF Build, KeepsPins
  <2>3. CASE p # q
    BY <1>0, <1>4, <2>1, <2>3 DEF Build, KeepsPins
  <2> QED
    BY <2>2, <2>3
<1>5. ASSUME NEW q \in Requests, Finish(q) \/ Refuse(q) \/ Fail(q)
      PROVE  KeepsPins(request[p])'
  <2>1. UNCHANGED Table
    BY <1>5 DEF Finish, Refuse, Fail, Table
  <2> QED
    BY <1>0, <1>5, <2>1 DEF Finish, Refuse, Fail, Ends, KeepsPins
<1>6. ASSUME NEW m \in Meetings, WritePin(m) PROVE KeepsPins(request[p])'
  BY <1>0, <1>6, NotedKeepsPins DEF WritePin, Noted
<1>7. CASE UNCHANGED <<request, pins>>
  <2>1. UNCHANGED Table
    BY <1>7 DEF Table
  <2> QED
    BY <1>0, <1>7, <2>1 DEF KeepsPins
<1> QED
  BY <1>1, <1>2, <1>3, <1>4, <1>5, <1>6, <1>7
  DEF Next, Pinning, Regenerating, vars, Submit, Publish, EndWithoutDraft,
      SubmitForReview, Archive, SaveForm, Delete

-----------------------------------------------------------------------------
(* The pins and their sources.                                             *)

LEMMA OrphansStep == TypeOK /\ NothingOrphaned /\ [Next]_vars => NothingOrphaned'
<1> SUFFICES ASSUME TypeOK, NothingOrphaned, [Next]_vars PROVE NothingOrphaned'
  OBVIOUS
<1> USE DEF TypeOK, NothingOrphaned, lineage, Existing
<1>1. ASSUME NEW q \in Requests, CommitPins(q) PROVE NothingOrphaned'
  <2>1. \A m \in Meetings : m \notin request[q].held => pins'[m] = pins[m]
    BY <1>1 DEF CommitPins, PinnedBy
  <2>2. \A m \in Meetings : m \in request[q].held => pins'[m].source = request[q].version
    BY <1>1 DEF CommitPins, PinnedBy
  <2> QED
    BY <1>1, <2>1, <2>2 DEF CommitPins
<1>2. ASSUME NEW r \in Runs, Publish(r) PROVE NothingOrphaned'
  BY <1>2 DEF Publish, ParentStands, Stages
<1>3. ASSUME NEW v \in Versions, SubmitForReview(v) \/ Archive(v) PROVE NothingOrphaned'
  <2>1. /\ \A u \in Versions : stage[u] \in Existing => stage'[u] \in Existing
        /\ UNCHANGED <<parent, pins>>
    BY <1>3 DEF SubmitForReview, Archive, Stages
  <2> QED
    BY <2>1 DEF Pins
<1>4. ASSUME NEW v \in Versions, SaveForm(v) PROVE NothingOrphaned'
  <2>1. /\ \A u \in Versions : stage[u] \in Existing => stage'[u] \in Existing
        /\ UNCHANGED <<parent, pins>>
    BY <1>4 DEF SaveForm, Stages
  <2> QED
    BY <2>1 DEF Pins
<1>5. ASSUME NEW v \in Versions, Delete(v) PROVE NothingOrphaned'
  BY <1>5 DEF Delete
<1>6. ASSUME NEW m \in Meetings, WritePin(m) PROVE NothingOrphaned'
  BY <1>6 DEF WritePin
<1>7. CASE UNCHANGED <<lineage, pins>>
  BY <1>7
<1> QED
  BY <1>1, <1>2, <1>3, <1>4, <1>5, <1>6, <1>7
  DEF Next, Pinning, Regenerating, vars, Receive, ReadPlacements, Approach, LockRow,
      Build, Submit, Finish, Refuse, Fail, EndWithoutDraft

LEMMA SourcesStep ==
  TypeOK /\ LocksInOrder /\ ReadingsHold /\ SourcesAreReviewed /\ NothingOrphaned
    /\ PinsMatchTheirSource /\ [Next]_vars
    => SourcesAreReviewed' /\ PinsMatchTheirSource'
<1> SUFFICES ASSUME TypeOK, LocksInOrder, ReadingsHold, SourcesAreReviewed,
                    NothingOrphaned, PinsMatchTheirSource, [Next]_vars,
                    NEW n \in Meetings, pins'[n] # None, ~pins'[n].byHand,
                    pins'[n].source \notin reopened' \cup {None}
             PROVE  /\ stage'[pins'[n].source] # "DRAFT"
                    /\ pins'[n].at = place'[pins'[n].source][n]
  BY DEF SourcesAreReviewed, PinsMatchTheirSource
<1> USE DEF lineage
<1>0. ASSUME pins'[n] = pins[n], reopened \subseteq reopened'
      PROVE  /\ pins[n] \in Pins /\ pins[n].source \in Versions
             /\ stage[pins[n].source] \in Existing \ {"DRAFT"}
             /\ pins[n].at = place[pins[n].source][n]
  BY <1>0 DEF TypeOK, Pins, SourcesAreReviewed, PinsMatchTheirSource, NothingOrphaned
<1>1. ASSUME NEW q \in Requests, CommitPins(q)
      PROVE  /\ stage'[pins'[n].source] # "DRAFT"
             /\ pins'[n].at = place'[pins'[n].source][n]
  <2>1. CASE n \in request[q].held
    <3>1. pins'[n] = [at |-> request[q].seen[n], source |-> request[q].version,
                   byHand |-> FALSE]
      BY <1>1, <2>1 DEF CommitPins, PinnedBy
    <3>2. request[q] # None /\ Ordered(request[q]) /\ StillTrue(request[q])
      BY <1>1 DEF CommitPins, AtStep, LocksInOrder, ReadingsHold
    <3> QED
      BY <1>1, <2>1, <3>1, <3>2 DEF CommitPins, AtStep, Ordered, StillTrue
  <2>2. CASE n \notin request[q].held
    <3>1. pins'[n] = pins[n]
      BY <1>1, <2>2 DEF CommitPins, PinnedBy
    <3> QED
      BY <1>0, <1>1, <3>1 DEF CommitPins
  <2> QED
    BY <2>1, <2>2
<1>2. ASSUME NEW r \in Runs, Publish(r)
      PROVE  /\ stage'[pins'[n].source] # "DRAFT"
             /\ pins'[n].at = place'[pins'[n].source][n]
  BY <1>0, <1>2 DEF Publish, TypeOK, Existing
<1>3. ASSUME NEW v \in Versions, SubmitForReview(v) \/ Archive(v)
      PROVE  /\ stage'[pins'[n].source] # "DRAFT"
             /\ pins'[n].at = place'[pins'[n].source][n]
  BY <1>0, <1>3 DEF SubmitForReview, Archive, TypeOK
<1>4. ASSUME NEW v \in Versions, SaveForm(v)
      PROVE  /\ stage'[pins'[n].source] # "DRAFT"
             /\ pins'[n].at = place'[pins'[n].source][n]
  BY <1>0, <1>4 DEF SaveForm, TypeOK
<1>5. ASSUME NEW v \in Versions, Delete(v)
      PROVE  /\ stage'[pins'[n].source] # "DRAFT"
             /\ pins'[n].at = place'[pins'[n].source][n]
  BY <1>0, <1>5 DEF Delete, TypeOK
<1>6. ASSUME NEW m \in Meetings, WritePin(m)
      PROVE  /\ stage'[pins'[n].source] # "DRAFT"
             /\ pins'[n].at = place'[pins'[n].source][n]
  <2>1. CASE n = m
    BY <1>6, <2>1 DEF WritePin, TypeOK
  <2>2. CASE n # m
    BY <1>0, <1>6, <2>2 DEF WritePin, TypeOK
  <2> QED
    BY <2>1, <2>2
<1>7. CASE UNCHANGED <<lineage, pins>>
  BY <1>0, <1>7
<1> QED
  BY <1>1, <1>2, <1>3, <1>4, <1>5, <1>6, <1>7
  DEF Next, Pinning, Regenerating, vars, Receive, ReadPlacements, Approach, LockRow,
      Build, Submit, Finish, Refuse, Fail, EndWithoutDraft

-----------------------------------------------------------------------------
(* The runs.                                                               *)

LEMMA NotedRunsCarry ==
  ASSUME TypeOK, RunsCarryPins, run' = NotedByRuns PROVE RunsCarryPins'
<1> SUFFICES ASSUME NEW r \in Runs, run'[r] # None, NEW m \in Meetings \ run'[r].changed
             PROVE  /\ run'[r].table[m] = Table'[m]
                    /\ run'[r].asked[m] # None => run'[r].table[m] = run'[r].asked[m]
  BY DEF RunsCarryPins
<1>1. run[r] # None /\ run[r] \in OpenRuns
  BY DEF NotedByRuns, TypeOK
<1>2. /\ run'[r].table = run[r].table /\ run'[r].asked = run[r].asked
      /\ run'[r].changed = run[r].changed \cup Moved
  BY <1>1 DEF NotedByRuns, OpenRuns
<1>3. Table'[m] = Table[m]
  BY <1>2 DEF Moved
<1> QED
  BY <1>1, <1>2, <1>3 DEF RunsCarryPins

LEMMA RunsStep ==
  TypeOK /\ RequestsKeepPins /\ RunsCarryPins /\ [Next]_vars => RunsCarryPins'
<1> SUFFICES ASSUME TypeOK, RequestsKeepPins, RunsCarryPins, [Next]_vars
             PROVE  RunsCarryPins'
  OBVIOUS
<1>1. ASSUME NEW q \in Requests, CommitPins(q) PROVE RunsCarryPins'
  BY <1>1, NotedRunsCarry DEF CommitPins
<1>2. ASSUME NEW m \in Meetings, WritePin(m) PROVE RunsCarryPins'
  BY <1>2, NotedRunsCarry DEF WritePin
<1>3. ASSUME NEW q \in Requests, Submit(q) PROVE RunsCarryPins'
  <2>1. UNCHANGED Table
    BY <1>3 DEF Submit, Table
  <2>2. KeepsPins(request[q])
    BY <1>3 DEF Submit, AtStep, RequestsKeepPins
  <2>3. PICK r \in Runs :
          run' = [run EXCEPT ![r] =
            [parent |-> request[q].version, table |-> request[q].table,
             asked |-> request[q].seen, changed |-> request[q].changed]]
    BY <1>3 DEF Submit
  <2> QED
    BY <1>3, <2>1, <2>2, <2>3 DEF Submit, AtStep, KeepsPins, RunsCarryPins, TypeOK
<1>4. ASSUME NEW r \in Runs, run' = [run EXCEPT ![r] = None], UNCHANGED pins
      PROVE  RunsCarryPins'
  <2>1. UNCHANGED Table
    BY <1>4 DEF Table
  <2> QED
    BY <1>4, <2>1 DEF RunsCarryPins, TypeOK
<1>5. CASE UNCHANGED <<run, pins>>
  BY <1>5 DEF RunsCarryPins, Table
<1> QED
  BY <1>1, <1>2, <1>3, <1>4, <1>5
  DEF Next, Pinning, Regenerating, vars, Receive, ReadPlacements, Approach, LockRow,
      Build, Finish, Refuse, Fail, Publish, EndWithoutDraft, SubmitForReview,
      Archive, SaveForm, Delete

-----------------------------------------------------------------------------
(* The theorems.                                                           *)

LEMMA NextInv == RegenerationInv /\ [Next]_vars => RegenerationInv'
BY TypeStep, OrderStep, ReadingsStep, KeepsStep, OrphansStep, SourcesStep, RunsStep
DEF RegenerationInv

\* Types, lock order, what requests and runs carry, the sources of the pins:
\* for any number of versions, meetings, requests, runs and edits.
THEOREM RegenerationInvariant == Spec => []RegenerationInv
BY InitInv, NextInv, PTL DEF Spec

THEOREM RegenerationTyped == Spec => []TypeOK
<1>1. RegenerationInv => TypeOK
  BY DEF RegenerationInv
<1> QED
  BY <1>1, RegenerationInvariant, PTL

\* A lock never pins a placement its source does not have, stale forms on the
\* source apart.
THEOREM PinsAreTrue == Spec => []PinsMatchTheirSource
<1>1. RegenerationInv => PinsMatchTheirSource
  BY DEF RegenerationInv
<1> QED
  BY <1>1, RegenerationInvariant, PTL

\* Neither a concurrent request nor the reuse of a snapshot takes a pin out of
\* a run, or a pin into it.
THEOREM RunsCarryTheirPins == Spec => []RunsCarryPins
<1>1. RegenerationInv => RunsCarryPins
  BY DEF RegenerationInv
<1> QED
  BY <1>1, RegenerationInvariant, PTL

\* No child without its parent, no pin without its source.
THEOREM NothingIsOrphaned == Spec => []NothingOrphaned
<1>1. RegenerationInv => NothingOrphaned
  BY DEF RegenerationInv
<1> QED
  BY <1>1, RegenerationInvariant, PTL

\* The order of the assignments keeps two lock requests on one version apart:
\* each waits for a row that starts no earlier than all it holds.
THEOREM NobodyWaitsMutually == Spec => []NoMutualWait
<1>1. ASSUME RegenerationInv PROVE NoMutualWait
  <2> SUFFICES ASSUME NEW p \in Requests, NEW q \in Requests,
                      WaitsFor(p, q), WaitsFor(q, p),
                      request[p].version = request[q].version,
                      request[p].version \notin reopened
               PROVE  request[p].seen[request[p].waiting].start
                        = request[q].seen[request[q].waiting].start
    BY DEF NoMutualWait
  <2> DEFINE v == request[p].version
             m == request[p].waiting
             n == request[q].waiting
  <2>1. /\ request[p] \in Jobs /\ Ordered(request[p]) /\ StillTrue(request[p])
        /\ request[q] \in Jobs /\ Ordered(request[q]) /\ StillTrue(request[q])
    BY <1>1 DEF WaitsFor, RegenerationInv, TypeOK, LocksInOrder, ReadingsHold
  <2>2. m \in request[q].held /\ n \in request[p].held
    BY <2>1 DEF WaitsFor, Held
  <2>3. m \in ToPin(request[p]) /\ n \in ToPin(request[q])
    BY <2>1 DEF WaitsFor, Ordered
  <2>4. /\ request[p].seen[n].start <= request[p].seen[m].start
        /\ request[q].seen[m].start <= request[q].seen[n].start
    BY <2>1, <2>2, <2>3 DEF Ordered
  <2>5. {m, n} \subseteq Placed(request[p].seen) \cap Placed(request[q].seen)
    BY <2>1, <2>2, <2>3 DEF Ordered, ToPin
  <2>6. /\ request[p].step = "pinning" /\ request[q].step = "pinning"
    BY <2>1, <2>2 DEF Ordered
  <2>7. /\ request[p].seen[m] = place[v][m] /\ request[q].seen[m] = place[v][m]
        /\ request[p].seen[n] = place[v][n] /\ request[q].seen[n] = place[v][n]
    BY <2>1, <2>5, <2>6 DEF StillTrue
  <2>8. request[p].seen[m] \in Placements /\ request[q].seen[n] \in Placements
    BY <2>1, <2>5 DEF Placed, Jobs, Tables
  <2>9. request[p].seen[m].start \in Nat /\ request[q].seen[n].start \in Nat
    BY <2>8 DEF Placements
  <2> QED
    BY <2>4, <2>7, <2>9
<1> QED
  BY <1>1, RegenerationInvariant, PTL

\* Children sit on the pins that stood still since their request.
THEOREM ChildrenHonourPins == Spec => ChildHonoursPins
<1>1. ASSUME RegenerationInv, [Next]_vars,
             NEW v \in Versions, stage[v] = "ABSENT", stage'[v] # "ABSENT"
      PROVE  \E r \in Runs :
               /\ run[r] # None /\ parent'[v] = run[r].parent
               /\ Sound(place'[v])
               /\ \A m \in Meetings \ run[r].changed :
                    /\ pins[m] # None => place'[v][m] = pins[m].at
                    /\ run[r].asked[m] # None => place'[v][m] = run[r].asked[m]
  <2> USE DEF RegenerationInv, TypeOK
  <2>0. ASSUME NEW u \in Versions, SaveForm(u) PROVE FALSE
    <3>1. stage[u] \in Existing
      BY <2>0 DEF SaveForm
    <3>2. \A w \in Versions \ {u} : stage'[w] = stage[w]
      BY <1>1, <2>0 DEF SaveForm
    <3> QED
      BY <1>1, <3>1, <3>2 DEF Existing
  <2>1. \E r \in Runs : Publish(r)
    BY <1>1, <2>0 DEF Next, Pinning, Regenerating, vars, lineage, Receive,
      ReadPlacements, Approach, LockRow, CommitPins, Build, Submit, Finish, Refuse,
      Fail, EndWithoutDraft, SubmitForReview, Archive, Delete, WritePin, Existing
  <2>2. PICK r \in Runs : Publish(r)
    BY <2>1
  <2>3. PICK u \in Versions, f \in Schedules(run[r].table) :
          /\ stage[u] = "ABSENT" /\ stage' = [stage EXCEPT ![u] = "DRAFT"]
          /\ place' = [place EXCEPT ![u] = f]
          /\ parent' = [parent EXCEPT ![u] = run[r].parent]
    BY <2>2 DEF Publish
  <2>4. u = v /\ place'[v] = f /\ parent'[v] = run[r].parent
    BY <1>1, <2>3
  <2>5. Sound(f) /\ \A m \in Placed(run[r].table) : f[m] = run[r].table[m]
    BY <2>3 DEF Schedules
  <2>6. ASSUME NEW m \in Meetings \ run[r].changed
        PROVE  /\ pins[m] # None => f[m] = pins[m].at
               /\ run[r].asked[m] # None => f[m] = run[r].asked[m]
    <3>1. /\ run[r].table[m] = Table[m]
          /\ run[r].asked[m] # None => run[r].table[m] = run[r].asked[m]
      BY <1>1, <2>2 DEF Publish, RunsCarryPins
    <3>2. pins[m] # None => Table[m] = pins[m].at /\ pins[m].at \in Placements
      BY <1>1 DEF Table, Pins
    <3> QED
      BY <2>5, <3>1, <3>2 DEF Placed
  <2> QED
    BY <2>2, <2>4, <2>5, <2>6 DEF Publish
<1>2. RegenerationInv /\ [Next]_vars =>
        [\A v \in Versions : stage[v] = "ABSENT" /\ stage'[v] # "ABSENT" =>
           \E r \in Runs :
             /\ run[r] # None /\ parent'[v] = run[r].parent
             /\ Sound(place'[v])
             /\ \A m \in Meetings \ run[r].changed :
                  /\ pins[m] # None => place'[v][m] = pins[m].at
                  /\ run[r].asked[m] # None => place'[v][m] = run[r].asked[m]]_vars
  BY <1>1
<1> QED
  BY <1>2, RegenerationInvariant, PTL DEF Spec, ChildHonoursPins
=============================================================================
