\* Two versions of a term under review and approval, one stale form.
SPECIFICATION Spec
CONSTANTS
  Versions = {v1, v2}
  Colleges = {c1}
  Requests = {q1, q2}
  Editors = {e1}
  None = None
  MaxReviews = 2
\* The workflow may rest: nobody has to review or approve.
CHECK_DEADLOCK FALSE
SYMMETRY Symmetry
INVARIANTS
  OneApproved
  FinalStagesWereApproved
  WorkflowInv
PROPERTIES
  ApprovalIsEarned
  WithdrawalIsFinal
  TermStaysApproved
