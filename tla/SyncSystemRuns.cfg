SPECIFICATION Spec
CONSTANTS
  Device = {d1}
  Item = {i1, i2}
  Content <- MCContent
  NoRow = NoRow
  Uploaded <- NewOrJoining
  NoNote = NoNote
  PageLimit = 2
  Run = {r1, r2}
  Lockable = {}
  Trashable = {i1}
  Crashes = TRUE
  MaxVersion = 2
  MaxEdits = 2
  MaxEditors = 1
  MaxWraps = 0
SYMMETRY RunSymmetry
INVARIANTS TypeOK SyncedMeansAccepted CursorWithinServer CursorBelowUnapplied
CHECK_DEADLOCK FALSE
