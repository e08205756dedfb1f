\* Two imports, a clone, and two requests of any kind at once.
SPECIFICATION Spec
CONSTANTS
  Home = home
  Terms = {home, next}
  Workbooks = {w1, w2}
  Batches <- MCBatches
  Clean = {w1, w2}
  RowData = {r1, r2}
  RoomData = {a, b}
  Sheets <- MCSheets
  Buildable <- MCBuildable
  Revisions = {i1, i2}
  Requests = {q1, q2}
  FormNumbers = {2}
  FormHashes <- MCFormHashes
  None = None
  home = home
  next = next
  r1 = r1
  r2 = r2
  a = a
  w1 = w1
  w2 = w2
CHECK_DEADLOCK FALSE
SYMMETRY MCSymmetry
INVARIANTS
  ImportsAreKept
  NumbersIdentify
PROPERTIES
  FrozenExceptLateWriters
  RoomFrozenExceptLatePages
