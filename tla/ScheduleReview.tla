---------------------------- MODULE ScheduleReview ----------------------------
(***************************************************************************)
(* Validation, college review and approval of the ScheduleVersions of one  *)
(* term (services/workflow.py), and the administration page that edits a   *)
(* version.  Requests read rows without locking them, and PostgreSQL runs  *)
(* their transactions at READ COMMITTED: what a request saw may be stale   *)
(* when it writes.  A transaction that holds the version's row lock keeps  *)
(* away editors, other lockers, and reviews, whose foreign key is checked  *)
(* against the locked row.  A request that raises leaves no trace.         *)
(***************************************************************************)
EXTENDS Naturals, Sequences

CONSTANTS
  Versions,   \* ScheduleVersion rows of the term
  Colleges,   \* the colleges whose sections the versions place
  Requests,   \* review requests that may be in flight at once
  Editors,    \* requests to the administration page of a version
  None,       \* no request, no form
  MaxReviews  \* bound on the reviews of one version by one college

Stages == {"ABSENT", "DRAFT", "UNDER_REVIEW", "APPROVED", "ARCHIVED"}
Immutable == {"APPROVED", "ARCHIVED"}
Decisions == {"COMMENT", "CHANGES_REQUESTED", "ENDORSED"}
Reviews == [version: Versions, college: Colleges, decision: Decisions]
Forms == [version: Versions, loaded: Stages, saving: BOOLEAN]

ASSUME ReviewAssumption ==
  /\ None \notin Reviews \cup Forms
  /\ MaxReviews \in Nat

VARIABLES
  stage,      \* ScheduleVersion.status
  sound,      \* whether the placements satisfy every hard rule now
  verdict,    \* the version's ValidationResult
  reviews,    \* per version and college, its reviews as they were recorded
  approval,   \* the versions with a ScheduleApproval row
  approving,  \* how far a transaction of approve_schedule is, holding the row
  superseded, \* the approved versions that transaction selected
  request,    \* per review request, the review it was admitted with
  form        \* per editor, the version it loaded and the status it saw

vars == <<stage, sound, verdict, reviews, approval, approving, superseded,
          request, form>>

TypeOK ==
  /\ stage \in [Versions -> Stages]
  /\ sound \in [Versions -> BOOLEAN]
  /\ verdict \in [Versions -> {"none", "violated", "feasible"}]
  /\ reviews \in [Versions -> [Colleges -> Seq(Decisions)]]
  /\ approval \in SUBSET Versions
  /\ approving \in [Versions -> {"no", "checked", "selected"}]
  /\ superseded \in [Versions -> SUBSET Versions]
  /\ request \in [Requests -> Reviews \cup {None}]
  /\ form \in [Editors -> Forms \cup {None}]

Init ==
  /\ stage = [v \in Versions |-> "ABSENT"]
  /\ sound = [v \in Versions |-> FALSE]
  /\ verdict = [v \in Versions |-> "none"]
  /\ reviews = [v \in Versions |-> [c \in Colleges |-> <<>>]]
  /\ approval = {}
  /\ approving = [v \in Versions |-> "no"]
  /\ superseded = [v \in Versions |-> {}]
  /\ request = [q \in Requests |-> None]
  /\ form = [e \in Editors |-> None]

-----------------------------------------------------------------------------
\* An approval that reads the version without locking its row.
RowLocked_Unlocked(v) == FALSE
\* select_for_update in approve_schedule, held until it commits.
RowLocked(v) == approving[v] # "no"

Approved == {v \in Versions : stage[v] = "APPROVED"}

\* Any endorsement counts, also one that was followed by a change request.
Endorses_EverEndorsed(s) == \E i \in 1..Len(s) : s[i] = "ENDORSED"
\* Comments are skipped; the latest remaining decision of a college counts.
Endorses(s) ==
  \E i \in 1..Len(s) :
    /\ s[i] = "ENDORSED"
    /\ \A j \in 1..Len(s) : j > i => s[j] = "COMMENT"

\* Without the unique index a college may endorse again.
Recordable_NoIndex(s, d) == TRUE
\* One endorsement per version and college, by the partial unique index.
Recordable(s, d) == d = "ENDORSED" => \A i \in 1..Len(s) : s[i] # "ENDORSED"

-----------------------------------------------------------------------------
\* The stored verdict.
Verdict(v) == IF sound[v] THEN "feasible" ELSE "violated"

\* persist_result stores a validated draft.
Publish(v) ==
  /\ stage[v] = "ABSENT"
  /\ stage' = [stage EXCEPT ![v] = "DRAFT"]
  /\ sound' = [sound EXCEPT ![v] = TRUE]
  /\ verdict' = [verdict EXCEPT ![v] = "feasible"]
  /\ UNCHANGED <<reviews, approval, approving, superseded, request, form>>

ValidateVersion(v) ==
  /\ stage[v] # "ABSENT"
  /\ ~RowLocked(v)
  /\ verdict' = [verdict EXCEPT ![v] = Verdict(v)]
  /\ UNCHANGED <<stage, sound, reviews, approval, approving, superseded,
                 request, form>>

\* Lock, validation, status check and save are one transaction; an unsound
\* version rolls it back, verdict included.
SubmitForReview(v) ==
  /\ ~RowLocked(v)
  /\ sound[v]
  /\ stage[v] = "DRAFT"
  /\ verdict' = [verdict EXCEPT ![v] = "feasible"]
  /\ stage' = [stage EXCEPT ![v] = "UNDER_REVIEW"]
  /\ UNCHANGED <<sound, reviews, approval, approving, superseded, request, form>>

\* review_schedule looks at the status of the row its view loaded.
AdmitReview(q) ==
  /\ request[q] = None
  /\ \E r \in Reviews :
       /\ stage[r.version] = "UNDER_REVIEW"
       /\ request' = [request EXCEPT ![q] = r]
  /\ UNCHANGED <<stage, sound, verdict, reviews, approval, approving,
                 superseded, form>>

\* The insert, which waits for the version's row and nothing else.
RecordReview(q) ==
  /\ request[q] # None
  /\ LET r == request[q]
         past == reviews[r.version][r.college]
     IN  /\ ~RowLocked(r.version)
         /\ Recordable(past, r.decision)
         /\ Len(past) < MaxReviews
         /\ reviews' =
              [reviews EXCEPT ![r.version][r.college] = Append(@, r.decision)]
  /\ request' = [request EXCEPT ![q] = None]
  /\ UNCHANGED <<stage, sound, verdict, approval, approving, superseded, form>>

\* A second endorsement is refused; any request may also fail or be lost.
DropReview(q) ==
  /\ request[q] # None
  /\ request' = [request EXCEPT ![q] = None]
  /\ UNCHANGED <<stage, sound, verdict, reviews, approval, approving,
                 superseded, form>>

-----------------------------------------------------------------------------
(* approve_schedule: the checks under the row lock, the selection of the   *)
(* version to archive, and the commit.                                     *)

CheckApproval(v) ==
  /\ ~RowLocked(v)
  /\ stage[v] = "UNDER_REVIEW"
  /\ sound[v]
  /\ \A c \in Colleges : Endorses(reviews[v][c])
  /\ approving' = [approving EXCEPT ![v] = "checked"]
  /\ UNCHANGED <<stage, sound, verdict, reviews, approval, superseded,
                 request, form>>

\* The archiving saved in a transaction of its own.
SelectSuperseded_ArchivesEarly(v) ==
  /\ approving[v] = "checked"
  /\ approving' = [approving EXCEPT ![v] = "selected"]
  /\ superseded' = [superseded EXCEPT ![v] = Approved]
  /\ stage' = [u \in Versions |-> IF u \in Approved THEN "ARCHIVED" ELSE stage[u]]
  /\ UNCHANGED <<sound, verdict, reviews, approval, request, form>>

\* The rows its query sees; two approvals may select the same version.
SelectSuperseded(v) ==
  /\ approving[v] = "checked"
  /\ approving' = [approving EXCEPT ![v] = "selected"]
  /\ superseded' = [superseded EXCEPT ![v] = Approved]
  /\ UNCHANGED <<stage, sound, verdict, reviews, approval, request, form>>

\* The selected versions that are still approved make room for v.
Successor(v) ==
  [u \in Versions |->
     IF u = v THEN "APPROVED"
     ELSE IF u \in superseded[v] /\ stage[u] = "APPROVED" THEN "ARCHIVED"
     ELSE stage[u]]

\* Without uniq_approved_schedule_per_term.
TermIsFree_NoIndex(v) == TRUE
\* A version approved since the selection violates the unique index.
TermIsFree(v) == Approved \subseteq superseded[v]

\* verdict, stage and approval row become visible together; a second
\* approval row for v is refused.
CommitApproval(v) ==
  /\ approving[v] = "selected"
  /\ TermIsFree(v)
  /\ v \notin approval
  /\ stage' = Successor(v)
  /\ verdict' = [verdict EXCEPT ![v] = "feasible"]
  /\ approval' = approval \cup {v}
  /\ approving' = [approving EXCEPT ![v] = "no"]
  /\ superseded' = [superseded EXCEPT ![v] = {}]
  /\ UNCHANGED <<sound, reviews, request, form>>

\* A constraint or the database makes the transaction roll back.
RollBackApproval(v) ==
  /\ RowLocked(v)
  /\ approving' = [approving EXCEPT ![v] = "no"]
  /\ superseded' = [superseded EXCEPT ![v] = {}]
  /\ UNCHANGED <<stage, sound, verdict, reviews, approval, request, form>>

-----------------------------------------------------------------------------
(* The administration page: load the row, compare it with the stored one   *)
(* in ScheduleVersion.save, write every column back.                       *)

\* A page on which the status may be chosen.
ShownStages_Editable(v) == Stages \ {"ABSENT"}
\* status is a read-only field of the page: a form carries the one it loaded.
ShownStages(v) == {stage[v]}

LoadForm(e) ==
  /\ form[e] = None
  /\ \E v \in Versions : \E s \in ShownStages(v) :
       /\ stage[v] # "ABSENT"
       /\ form' = [form EXCEPT ![e] =
                     [version |-> v, loaded |-> s, saving |-> FALSE]]
  /\ UNCHANGED <<stage, sound, verdict, reviews, approval, approving,
                 superseded, request>>

\* What ScheduleVersion.save accepts of a status over the stored one.
SaveAccepts(loaded, stored) ==
  /\ stored = "ARCHIVED" => loaded = "ARCHIVED"
  /\ stored = "APPROVED" => loaded \in Immutable
  /\ loaded = "APPROVED" => stored = "APPROVED"

CheckForm(e) ==
  /\ form[e] # None
  /\ ~form[e].saving
  /\ SaveAccepts(form[e].loaded, stage[form[e].version])
  /\ form' = [form EXCEPT ![e].saving = TRUE]
  /\ UNCHANGED <<stage, sound, verdict, reviews, approval, approving,
                 superseded, request>>

\* The update waits for the row lock.  A form that loaded a draft also edits
\* its placements, and no validation follows.
SaveForm(e) ==
  /\ form[e] # None
  /\ form[e].saving
  /\ LET v == form[e].version
         loaded == form[e].loaded
     IN  /\ ~RowLocked(v)
         /\ loaded = "APPROVED" => Approved \subseteq {v}
         /\ stage' = [stage EXCEPT ![v] = loaded]
         /\ \E s \in IF loaded = "DRAFT" THEN BOOLEAN ELSE {sound[v]} :
              sound' = [sound EXCEPT ![v] = s]
  /\ form' = [form EXCEPT ![e] = None]
  /\ UNCHANGED <<verdict, reviews, approval, approving, superseded, request>>

AbandonForm(e) ==
  /\ form[e] # None
  /\ form' = [form EXCEPT ![e] = None]
  /\ UNCHANGED <<stage, sound, verdict, reviews, approval, approving,
                 superseded, request>>

-----------------------------------------------------------------------------
Version(v) ==
  Publish(v) \/ ValidateVersion(v) \/ SubmitForReview(v)

Approval(v) ==
  \/ CheckApproval(v) \/ SelectSuperseded(v)
  \/ CommitApproval(v) \/ RollBackApproval(v)

Review(q) == AdmitReview(q) \/ RecordReview(q) \/ DropReview(q)

Edit(e) == LoadForm(e) \/ CheckForm(e) \/ SaveForm(e) \/ AbandonForm(e)

Next ==
  \/ \E v \in Versions : Version(v) \/ Approval(v)
  \/ \E q \in Requests : Review(q)
  \/ \E e \in Editors : Edit(e)

Spec == Init /\ [][Next]_vars

-----------------------------------------------------------------------------
(* Properties                                                              *)

\* At most one version of the term is approved, whichever approvals run at
\* the same time and whatever stale forms write back.
OneApproved == \A u, v \in Approved : u = v

\* An approved or archived version went through approve_schedule: no form
\* brings a version into those stages by itself.
FinalStagesWereApproved ==
  \A v \in Versions : stage[v] \in Immutable => v \in approval

\* An approval row appears only for a version that at that moment is under
\* review, satisfies every hard rule and is endorsed by the latest decision of
\* every college, although reviews and edits arrive while it is approved; it
\* appears together with the stage, and the version it replaces is archived.
ApprovalIsEarned ==
  [][\A v \in approval' \ approval :
       /\ stage[v] = "UNDER_REVIEW" /\ sound[v] /\ sound'[v]
       /\ \A c \in Colleges : Endorses(reviews'[v][c])
       /\ verdict'[v] = "feasible"
       /\ \A u \in Versions : stage'[u] = "APPROVED" <=> u = v]_vars

\* The college endorsed the version and later asked for changes.
Withdrawn(v, c) ==
  \E i, j \in 1..Len(reviews[v][c]) :
    /\ i < j
    /\ reviews[v][c][i] = "ENDORSED"
    /\ reviews[v][c][j] = "CHANGES_REQUESTED"

\* A college that withdrew its endorsement has closed the version for good:
\* the unique index leaves it no way to endorse again, so approve_schedule
\* never accepts the version (docs/architecture.md:159 asks for a child).
WithdrawalIsFinal ==
  [][\A v \in approval' \ approval, c \in Colleges : ~Withdrawn(v, c)]_vars

\* Only a stale form takes the approved version away from its term: reviews
\* and competing approvals never do, for archiving the old version and
\* approving the new one are one transaction.
TermStaysApproved ==
  [][Approved # {} /\ (\A e \in Editors : ~SaveForm(e)) => Approved' # {}]_vars

\* README.md:152: approved versions are immutable.  They may only be archived.
ApprovedIsImmutable ==
  [][\A v \in Versions : stage[v] = "APPROVED" => stage'[v] \in Immutable]_vars

-----------------------------------------------------------------------------
(* What the properties rest on                                             *)

\* The row lock keeps what approve_schedule checked true until it commits.
ApprovingIsChecked ==
  \A v \in Versions :
    RowLocked(v) =>
      /\ stage[v] = "UNDER_REVIEW" /\ sound[v]
      /\ \A c \in Colleges : Endorses(reviews[v][c])

\* A form shows a final stage only of a version with an approval row.
FormsShowTheTruth ==
  \A e \in Editors :
    form[e] # None /\ form[e].loaded \in Immutable => form[e].version \in approval

\* At most one endorsement per version and college.
EndorsedOnce ==
  \A v \in Versions, c \in Colleges : \A i, j \in 1..Len(reviews[v][c]) :
    reviews[v][c][i] = "ENDORSED" /\ reviews[v][c][j] = "ENDORSED" => i = j

WorkflowInv ==
  /\ TypeOK
  /\ OneApproved
  /\ FinalStagesWereApproved
  /\ ApprovingIsChecked
  /\ FormsShowTheTruth
  /\ EndorsedOnce
=============================================================================
