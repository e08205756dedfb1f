\* A valid workbook, and those that differ from it in one or two sheets.
SPECIFICATION Spec
CONSTANTS
  Workbooks <- MCWorkbooks
  Campus <- MCCampus
  CaseFolded <- MCCaseFolded
  Unreadable = Unreadable
  None = None
CHECK_DEADLOCK FALSE
INVARIANTS
  NothingDangles
  RefusedForAKnownReason
  CommittedIsUsable
