------------------------- MODULE ScheduleReviewProofs -------------------------
(***************************************************************************)
(* Proofs about ScheduleReview.  WorkflowInv is inductive as it stands:    *)
(* the row lock keeps what approve_schedule checked (ApprovingIsChecked),  *)
(* a form can only write back a final stage that was earned                *)
(* (FormsShowTheTruth), and the unique indexes do the rest.                *)
(***************************************************************************)
EXTENDS ScheduleReview, TLAPS

\* An appended decision becomes the last element of a college's history.
LEMMA AppendedHistory ==
  ASSUME NEW s \in Seq(Decisions), NEW d \in Decisions
  PROVE  /\ Append(s, d) \in Seq(Decisions)
         /\ Len(Append(s, d)) = Len(s) + 1
         /\ \A i \in 1..Len(s) : Append(s, d)[i] = s[i]
         /\ Append(s, d)[Len(s) + 1] = d
  OBVIOUS

\* The unique index keeps a history with at most one endorsement.
LEMMA RecordedOnce ==
  ASSUME NEW s \in Seq(Decisions), NEW d \in Decisions, Recordable(s, d),
         \A i, j \in 1..Len(s) : s[i] = "ENDORSED" /\ s[j] = "ENDORSED" => i = j
  PROVE  \A i, j \in 1..Len(Append(s, d)) :
           Append(s, d)[i] = "ENDORSED" /\ Append(s, d)[j] = "ENDORSED" => i = j
<1> SUFFICES ASSUME NEW i \in 1..(Len(s) + 1), NEW j \in 1..(Len(s) + 1),
                    Append(s, d)[i] = "ENDORSED", Append(s, d)[j] = "ENDORSED"
             PROVE  i = j
  BY AppendedHistory
<1>1. Len(s) \in Nat
  OBVIOUS
<1>2. CASE i \in 1..Len(s) /\ j \in 1..Len(s)
  BY <1>2, AppendedHistory
<1>3. CASE i = Len(s) + 1 /\ j = Len(s) + 1
  BY <1>3
<1>4. CASE i \in 1..Len(s) /\ j = Len(s) + 1
  BY <1>1, <1>4, AppendedHistory DEF Recordable
<1>5. CASE i = Len(s) + 1 /\ j \in 1..Len(s)
  BY <1>1, <1>5, AppendedHistory DEF Recordable
<1> QED
  BY <1>1, <1>2, <1>3, <1>4, <1>5

\* A term without versions satisfies the invariant.
LEMMA InitInv == Init => WorkflowInv
  BY DEF Init, WorkflowInv, TypeOK, OneApproved, Approved, FinalStagesWereApproved,
         ApprovingIsChecked, RowLocked, FormsShowTheTruth, EndorsedOnce, Stages,
         Immutable, Decisions

-----------------------------------------------------------------------------
(* One lemma per kind of step                                              *)

\* Publication, validation and submission keep the invariant.
LEMMA VersionStep ==
  ASSUME WorkflowInv, NEW v \in Versions, Version(v)
  PROVE  WorkflowInv'
<1> USE DEF WorkflowInv
<1>1. TypeOK'
  <2>1. CASE Publish(v)
    BY <2>1 DEF TypeOK, Publish, Stages
  <2>2. CASE ValidateVersion(v)
    <3>1. Verdict(v) \in {"none", "violated", "feasible"}
      BY DEF Verdict
    <3> QED
      BY <2>2, <3>1 DEF TypeOK, ValidateVersion
  <2>3. CASE SubmitForReview(v)
    BY <2>3 DEF TypeOK, SubmitForReview, Stages
  <2> QED
    BY <2>1, <2>2, <2>3 DEF Version
<1>2. /\ ~RowLocked(v) \/ stage[v] = "ABSENT"
      /\ \A u \in Versions : u # v => stage'[u] = stage[u] /\ sound'[u] = sound[u]
      /\ stage'[v] = stage[v] \/ stage'[v] \in {"DRAFT", "UNDER_REVIEW"}
      /\ UNCHANGED <<reviews, approval, approving, form>>
      /\ stage[v] # "UNDER_REVIEW" \/ UNCHANGED <<stage, sound>>
  BY DEF TypeOK, Version, Publish, ValidateVersion, SubmitForReview
<1>3. OneApproved' /\ FinalStagesWereApproved'
  BY <1>2 DEF OneApproved, Approved, FinalStagesWereApproved, Immutable
<1>4. ApprovingIsChecked'
  BY <1>2 DEF ApprovingIsChecked, RowLocked
<1>5. FormsShowTheTruth' /\ EndorsedOnce'
  BY <1>2 DEF FormsShowTheTruth, EndorsedOnce
<1> QED
  BY <1>1, <1>3, <1>4, <1>5

\* The steps of approve_schedule keep the invariant.
LEMMA ApprovalStep ==
  ASSUME WorkflowInv, NEW v \in Versions, Approval(v)
  PROVE  WorkflowInv'
<1> USE DEF WorkflowInv
<1>1. CASE CheckApproval(v) \/ SelectSuperseded(v) \/ RollBackApproval(v)
  <2>1. TypeOK'
    <3>1. Approved \in SUBSET Versions /\ {} \in SUBSET Versions
      BY DEF Approved
    <3>2. CASE CheckApproval(v)
      BY <3>2 DEF TypeOK, CheckApproval
    <3>3. CASE SelectSuperseded(v)
      BY <3>1, <3>3 DEF TypeOK, SelectSuperseded
    <3>4. CASE RollBackApproval(v)
      BY <3>1, <3>4 DEF TypeOK, RollBackApproval
    <3> QED
      BY <1>1, <3>2, <3>3, <3>4
  <2>2. UNCHANGED <<stage, sound, reviews, approval, form>>
    BY <1>1 DEF CheckApproval, SelectSuperseded, RollBackApproval
  <2>3. ApprovingIsChecked'
    BY <1>1, <2>2
       DEF TypeOK, CheckApproval, SelectSuperseded, RollBackApproval,
           ApprovingIsChecked, RowLocked
  <2>4. /\ OneApproved' /\ FinalStagesWereApproved'
        /\ FormsShowTheTruth' /\ EndorsedOnce'
    BY <2>2 DEF OneApproved, Approved, FinalStagesWereApproved, FormsShowTheTruth,
                EndorsedOnce
  <2> QED
    BY <2>1, <2>3, <2>4
<1>2. CASE CommitApproval(v)
  <2>1. TypeOK'
    BY <1>2 DEF TypeOK, CommitApproval, Successor, Stages
  <2>2. \A u \in Versions :
          stage'[u] = IF u = v THEN "APPROVED"
                      ELSE IF stage[u] = "APPROVED" THEN "ARCHIVED" ELSE stage[u]
    BY <1>2 DEF CommitApproval, Successor, TermIsFree, Approved
  <2>3. /\ approval' = approval \cup {v}
        /\ UNCHANGED <<sound, reviews, form>>
        /\ approving'[v] = "no"
        /\ \A u \in Versions : u # v => approving'[u] = approving[u]
    BY <1>2 DEF CommitApproval, TypeOK
  <2>4. OneApproved' /\ FinalStagesWereApproved'
    BY <2>2, <2>3 DEF OneApproved, Approved, FinalStagesWereApproved, Immutable
  <2>5. ApprovingIsChecked'
    BY <2>2, <2>3 DEF ApprovingIsChecked, RowLocked
  <2>6. FormsShowTheTruth' /\ EndorsedOnce'
    BY <2>3 DEF FormsShowTheTruth, EndorsedOnce
  <2> QED
    BY <2>1, <2>4, <2>5, <2>6
<1> QED
  BY <1>1, <1>2 DEF Approval

\* Admitting, recording and dropping reviews keep the invariant.
LEMMA ReviewStep ==
  ASSUME WorkflowInv, NEW q \in Requests, Review(q)
  PROVE  WorkflowInv'
<1> USE DEF WorkflowInv
<1>1. /\ UNCHANGED <<stage, sound, verdict, approval, approving, superseded, form>>
      /\ OneApproved' /\ FinalStagesWereApproved' /\ FormsShowTheTruth'
  BY DEF Review, AdmitReview, RecordReview, DropReview, OneApproved, Approved,
         FinalStagesWereApproved, FormsShowTheTruth
<1>2. CASE AdmitReview(q) \/ DropReview(q)
  BY <1>1, <1>2
     DEF AdmitReview, DropReview, TypeOK, ApprovingIsChecked, RowLocked, EndorsedOnce
<1>3. CASE RecordReview(q)
  <2> DEFINE r == request[q]
             s == reviews[r.version][r.college]
  <2>1. /\ r \in Reviews /\ r.version \in Versions /\ r.college \in Colleges
        /\ r.decision \in Decisions
        /\ s \in Seq(Decisions)
    BY <1>3 DEF RecordReview, TypeOK, Reviews
  <2>2. /\ ~RowLocked(r.version) /\ Recordable(s, r.decision)
        /\ reviews' = [reviews EXCEPT ![r.version][r.college] =
                         Append(@, r.decision)]
        /\ request' = [request EXCEPT ![q] = None]
    BY <1>3 DEF RecordReview
  <2>3. Append(s, r.decision) \in Seq(Decisions)
    BY <2>1, AppendedHistory
  <2>4. \A v \in Versions, c \in Colleges :
          reviews'[v][c] = IF v = r.version /\ c = r.college
                           THEN Append(s, r.decision) ELSE reviews[v][c]
    BY <2>1, <2>2 DEF TypeOK
  <2>5. TypeOK'
    BY <1>1, <2>1, <2>2, <2>3 DEF TypeOK
  <2>6. ApprovingIsChecked'
    BY <1>1, <2>2, <2>4 DEF ApprovingIsChecked, RowLocked
  <2>7. EndorsedOnce'
    <3>1. SUFFICES ASSUME NEW v \in Versions, NEW c \in Colleges
                   PROVE  \A i, j \in 1..Len(reviews'[v][c]) :
                            /\ reviews'[v][c][i] = "ENDORSED"
                            /\ reviews'[v][c][j] = "ENDORSED"
                            => i = j
      BY DEF EndorsedOnce
    <3>2. \A i, j \in 1..Len(s) : s[i] = "ENDORSED" /\ s[j] = "ENDORSED" => i = j
      BY <2>1 DEF EndorsedOnce
    <3>3. CASE v = r.version /\ c = r.college
      <4>1. reviews'[v][c] = Append(s, r.decision)
        BY <2>4, <3>3
      <4>2. PICK t \in Seq(Decisions) : t = s
        BY <2>1
      <4>3. PICK d \in Decisions : d = r.decision
        BY <2>1
      <4>4. \A i, j \in 1..Len(Append(t, d)) :
              Append(t, d)[i] = "ENDORSED" /\ Append(t, d)[j] = "ENDORSED" => i = j
        <5>1. Recordable(t, d)
          BY <2>2, <4>2, <4>3
        <5>2. \A i, j \in 1..Len(t) :
                t[i] = "ENDORSED" /\ t[j] = "ENDORSED" => i = j
          BY <3>2, <4>2
        <5> QED
          BY <5>1, <5>2, RecordedOnce
      <4>5. reviews'[v][c] = Append(t, d)
        BY <4>1, <4>2, <4>3
      <4> HIDE DEF r, s
      <4> QED
        BY <4>4, <4>5
    <3>4. CASE ~(v = r.version /\ c = r.college)
      <4>1. reviews'[v][c] = reviews[v][c]
        BY <2>4, <3>4
      <4> QED
        BY <4>1 DEF EndorsedOnce
    <3> QED
      BY <3>3, <3>4
  <2> QED
    BY <1>1, <2>5, <2>6, <2>7
<1> QED
  BY <1>2, <1>3 DEF Review

\* The administration page keeps the invariant.
LEMMA EditStep ==
  ASSUME WorkflowInv, NEW e \in Editors, Edit(e)
  PROVE  WorkflowInv'
<1> USE DEF WorkflowInv
<1>1. /\ UNCHANGED <<verdict, reviews, approval, approving, superseded, request>>
      /\ EndorsedOnce'
  BY DEF Edit, LoadForm, CheckForm, SaveForm, AbandonForm, EndorsedOnce
<1>2. CASE LoadForm(e)
  <2>1. PICK v \in Versions :
          form' = [form EXCEPT ![e] =
                     [version |-> v, loaded |-> stage[v], saving |-> FALSE]]
    BY <1>2 DEF LoadForm, ShownStages
  <2>2. UNCHANGED <<stage, sound>>
    BY <1>2 DEF LoadForm
  <2>3. TypeOK'
    BY <1>1, <2>1, <2>2 DEF TypeOK, Forms
  <2>4. FormsShowTheTruth'
    BY <1>1, <2>1 DEF TypeOK, FormsShowTheTruth, FinalStagesWereApproved
  <2>5. OneApproved' /\ FinalStagesWereApproved' /\ ApprovingIsChecked'
    BY <1>1, <2>2 DEF OneApproved, Approved, FinalStagesWereApproved,
                      ApprovingIsChecked, RowLocked
  <2> QED
    BY <1>1, <2>3, <2>4, <2>5
<1>3. CASE CheckForm(e) \/ AbandonForm(e)
  <2>1. UNCHANGED <<stage, sound>>
    BY <1>3 DEF CheckForm, AbandonForm
  <2>2. TypeOK'
    BY <1>1, <1>3 DEF TypeOK, Forms, CheckForm, AbandonForm
  <2>3. FormsShowTheTruth'
    BY <1>1, <1>3 DEF TypeOK, Forms, CheckForm, AbandonForm, FormsShowTheTruth
  <2>4. OneApproved' /\ FinalStagesWereApproved' /\ ApprovingIsChecked'
    BY <1>1, <2>1 DEF OneApproved, Approved, FinalStagesWereApproved,
                      ApprovingIsChecked, RowLocked
  <2> QED
    BY <1>1, <2>2, <2>3, <2>4
<1>4. CASE SaveForm(e)
  <2> DEFINE v == form[e].version
             loaded == form[e].loaded
  <2>1. /\ form[e] # None /\ v \in Versions /\ loaded \in Stages
        /\ ~RowLocked(v)
        /\ loaded = "APPROVED" => Approved \subseteq {v}
        /\ stage' = [stage EXCEPT ![v] = loaded]
        /\ \E s \in BOOLEAN : sound' = [sound EXCEPT ![v] = s]
        /\ form' = [form EXCEPT ![e] = None]
    BY <1>4 DEF SaveForm, TypeOK, Forms
  <2>2. TypeOK'
    BY <1>1, <2>1 DEF TypeOK
  <2>3. /\ stage'[v] = loaded
        /\ \A u \in Versions : u # v => stage'[u] = stage[u] /\ sound'[u] = sound[u]
    BY <2>1 DEF TypeOK
  <2>4. OneApproved'
    BY <2>1, <2>3 DEF OneApproved, Approved
  <2>5. FinalStagesWereApproved' /\ FormsShowTheTruth'
    BY <1>1, <2>1, <2>3 DEF TypeOK, FinalStagesWereApproved, FormsShowTheTruth
  <2>6. ApprovingIsChecked'
    BY <1>1, <2>1, <2>3 DEF ApprovingIsChecked, RowLocked
  <2> QED
    BY <1>1, <2>2, <2>4, <2>5, <2>6
<1> QED
  BY <1>2, <1>3, <1>4 DEF Edit

\* The invariant is inductive.
LEMMA NextInv == WorkflowInv /\ [Next]_vars => WorkflowInv'
<1> SUFFICES ASSUME WorkflowInv, [Next]_vars PROVE WorkflowInv'
  OBVIOUS
<1>1. CASE Next
  BY <1>1, VersionStep, ApprovalStep, ReviewStep, EditStep DEF Next
<1>2. CASE UNCHANGED vars
  BY <1>2 DEF vars, WorkflowInv, TypeOK, OneApproved, Approved,
              FinalStagesWereApproved, ApprovingIsChecked, RowLocked,
              FormsShowTheTruth, EndorsedOnce
<1> QED
  BY <1>1, <1>2

\* The workflow invariant holds whatever versions, colleges, requests and
\* editors there are: types, one approved version, final stages only through
\* approve_schedule, checks that stay true under the row lock.
THEOREM WorkflowInvariant == Spec => []WorkflowInv
<1>1. Init => WorkflowInv
  BY InitInv
<1>2. WorkflowInv /\ [Next]_vars => WorkflowInv'
  BY NextInv
<1> QED
  BY <1>1, <1>2, PTL DEF Spec

\* Every variable keeps its type.
THEOREM ReviewTypeCorrect == Spec => []TypeOK
<1>1. WorkflowInv => TypeOK
  BY DEF WorkflowInv
<1> QED
  BY <1>1, WorkflowInvariant, PTL

\* No two versions of a term are approved at once, for any number of
\* concurrent approvals (approve_schedule) and stale administration forms.
THEOREM OneApprovedPerTerm == Spec => []OneApproved
<1>1. WorkflowInv => OneApproved
  BY DEF WorkflowInv
<1> QED
  BY <1>1, WorkflowInvariant, PTL

\* Approved and archived versions carry an approval row.
THEOREM FinalStagesEarned == Spec => []FinalStagesWereApproved
<1>1. WorkflowInv => FinalStagesWereApproved
  BY DEF WorkflowInv
<1> QED
  BY <1>1, WorkflowInvariant, PTL

\* Only CommitApproval adds an approval row.
LEMMA ApprovalsAdded ==
  ASSUME Next, NEW v \in approval' \ approval, v \in Versions
  PROVE  CommitApproval(v)
<1>1. ASSUME NEW u \in Versions, Version(u) PROVE FALSE
  BY <1>1 DEF Version, Publish, ValidateVersion, SubmitForReview
<1>2. ASSUME NEW q \in Requests, Review(q) PROVE FALSE
  BY <1>2 DEF Review, AdmitReview, RecordReview, DropReview
<1>3. ASSUME NEW e \in Editors, Edit(e) PROVE FALSE
  BY <1>3 DEF Edit, LoadForm, CheckForm, SaveForm, AbandonForm
<1>4. ASSUME NEW u \in Versions, Approval(u) PROVE CommitApproval(v)
  BY <1>4 DEF Approval, CheckApproval, SelectSuperseded, RollBackApproval,
              CommitApproval
<1> QED
  BY <1>1, <1>2, <1>3, <1>4 DEF Next

\* Every approval row is earned: see ApprovalIsEarned.  The checks of
\* approve_schedule are still true when its transaction commits.
THEOREM ApprovalsAreEarned == Spec => ApprovalIsEarned
<1>1. ASSUME WorkflowInv, WorkflowInv', Next, NEW v \in approval' \ approval
      PROVE  /\ stage[v] = "UNDER_REVIEW" /\ sound[v] /\ sound'[v]
             /\ \A c \in Colleges : Endorses(reviews'[v][c])
             /\ verdict'[v] = "feasible"
             /\ \A u \in Versions : stage'[u] = "APPROVED" <=> u = v
  <2>1. v \in Versions /\ CommitApproval(v)
    BY <1>1, ApprovalsAdded DEF WorkflowInv, TypeOK
  <2>2. /\ stage[v] = "UNDER_REVIEW" /\ sound[v]
        /\ \A c \in Colleges : Endorses(reviews[v][c])
        /\ UNCHANGED <<sound, reviews>>
    BY <1>1, <2>1 DEF WorkflowInv, ApprovingIsChecked, RowLocked, CommitApproval
  <2>3. verdict'[v] = "feasible"
    BY <1>1, <2>1 DEF CommitApproval, WorkflowInv, TypeOK
  <2>4. \A u \in Versions : stage'[u] = "APPROVED" <=> u = v
    BY <2>1 DEF CommitApproval, Successor, TermIsFree, Approved
  <2> QED
    BY <2>2, <2>3, <2>4
<1>2. WorkflowInv /\ WorkflowInv' /\ [Next]_vars =>
        [\A v \in approval' \ approval :
           /\ stage[v] = "UNDER_REVIEW" /\ sound[v] /\ sound'[v]
           /\ \A c \in Colleges : Endorses(reviews'[v][c])
           /\ verdict'[v] = "feasible"
           /\ \A u \in Versions : stage'[u] = "APPROVED" <=> u = v]_vars
  BY <1>1
<1> QED
  BY <1>2, WorkflowInvariant, PTL DEF Spec, ApprovalIsEarned

\* A college that endorsed a version and then asked for changes has closed
\* it: approve_schedule never accepts it again.
THEOREM WithdrawalsAreFinal == Spec => WithdrawalIsFinal
<1>1. ASSUME WorkflowInv, Next, NEW v \in approval' \ approval, NEW c \in Colleges,
             WorkflowInv', Withdrawn(v, c)
      PROVE  FALSE
  <2>1. v \in Versions /\ CommitApproval(v)
    BY <1>1, ApprovalsAdded DEF WorkflowInv, TypeOK
  <2> DEFINE s == reviews[v][c]
  <2>2. PICK i, j \in 1..Len(s) :
          i < j /\ s[i] = "ENDORSED" /\ s[j] = "CHANGES_REQUESTED"
    BY <1>1 DEF Withdrawn
  <2>3. Endorses(s)
    BY <1>1, <2>1 DEF WorkflowInv, ApprovingIsChecked, RowLocked, CommitApproval
  <2>4. PICK k \in 1..Len(s) :
          s[k] = "ENDORSED" /\ \A m \in 1..Len(s) : m > k => s[m] = "COMMENT"
    BY <2>3 DEF Endorses
  <2>5. i = k
    BY <1>1, <2>1, <2>2, <2>4 DEF WorkflowInv, EndorsedOnce
  <2>6. s[j] = "COMMENT"
    BY <2>2, <2>4, <2>5
  <2> QED
    BY <2>2, <2>6
<1>2. WorkflowInv /\ WorkflowInv' /\ [Next]_vars =>
        [\A v \in approval' \ approval, c \in Colleges : ~Withdrawn(v, c)]_vars
  BY <1>1
<1> QED
  BY <1>2, WorkflowInvariant, PTL DEF Spec, WithdrawalIsFinal

\* Saved forms apart, a term never loses its approved version: only
\* CommitApproval takes that stage away, and it gives it to its own version in
\* the same transaction.
THEOREM TermsStayApproved == Spec => TermStaysApproved
<1>1. ASSUME WorkflowInv, Next, NEW u \in Approved,
             \A e \in Editors : ~SaveForm(e)
      PROVE  Approved' # {}
  <2>0. u \in Versions /\ stage[u] = "APPROVED"
    BY <1>1 DEF Approved
  <2>1. CASE \E v \in Versions : CommitApproval(v)
    <3>1. PICK v \in Versions : CommitApproval(v)
      BY <2>1
    <3>2. stage'[v] = "APPROVED"
      BY <3>1 DEF CommitApproval, Successor
    <3> QED
      BY <3>1, <3>2 DEF Approved
  <2>2. CASE ~\E v \in Versions : CommitApproval(v)
    <3>1. stage'[u] = stage[u]
      <4>1. ASSUME NEW v \in Versions, Version(v) PROVE stage'[u] = stage[u]
        BY <1>1, <2>0, <4>1 DEF Version, Publish, ValidateVersion, SubmitForReview,
                                WorkflowInv, TypeOK
      <4>2. ASSUME NEW v \in Versions, Approval(v) PROVE stage'[u] = stage[u]
        BY <2>2, <4>2 DEF Approval, CheckApproval, SelectSuperseded, RollBackApproval
      <4>3. ASSUME NEW q \in Requests, Review(q) PROVE stage'[u] = stage[u]
        BY <4>3 DEF Review, AdmitReview, RecordReview, DropReview
      <4>4. ASSUME NEW e \in Editors, Edit(e) PROVE stage'[u] = stage[u]
        BY <1>1, <4>4 DEF Edit, LoadForm, CheckForm, AbandonForm
      <4> QED
        BY <1>1, <4>1, <4>2, <4>3, <4>4 DEF Next
    <3> QED
      BY <2>0, <3>1 DEF Approved
  <2> QED
    BY <2>1, <2>2
<1>2. WorkflowInv /\ [Next]_vars =>
        [Approved # {} /\ (\A e \in Editors : ~SaveForm(e)) => Approved' # {}]_vars
  BY <1>1
<1> QED
  BY <1>2, WorkflowInvariant, PTL DEF Spec, TermStaysApproved
=============================================================================
