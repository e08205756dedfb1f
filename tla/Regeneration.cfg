\* Two versions with different placements, two requests, one run at a time.
SPECIFICATION Spec
CONSTANTS
  Versions = {v1, v2, c1}
  Originals = {v1, v2}
  Meetings = {m1, m2}
  Rooms = {r1}
  Slots = {1, 2}
  Related <- NoneRelated
  Requests = {q1, q2}
  Runs = {r}
  None = None
  HandSources = {c1}
  MaxEdits = 1
  MaxRequests = 2
\* Nobody has to ask for anything.
CHECK_DEADLOCK FALSE
SYMMETRY Symmetry
INVARIANTS
  RegenerationInv
  PinsMatchTheirSource
  RunsCarryPins
  NoMutualWait
PROPERTIES
  ChildHonoursPins
