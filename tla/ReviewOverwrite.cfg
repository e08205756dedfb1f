\* Does an approved version stay approved until it is archived?
SPECIFICATION Spec
CONSTANTS
  Versions = {v1}
  Colleges = {c1}
  Requests = {q1}
  Editors = {e1}
  None = None
  MaxReviews = 1
\* The workflow may rest: nobody has to review or approve.
CHECK_DEADLOCK FALSE
SYMMETRY Symmetry
PROPERTIES
  ApprovedIsImmutable
