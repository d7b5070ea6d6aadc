SPECIFICATION Spec
CONSTANTS
  Device = {d1}
  Item = {i1}
  Content <- MCContent
  NoRow = NoRow
  Uploaded <- NewUser
  NoNote = NoNote
  PageLimit = 1
  Run = {r1}
  Lockable = {}
  Trashable = {i1}
  Crashes = FALSE
  MaxVersion = 2
  MaxEdits = 2
  MaxEditors = 1
  MaxWraps = 0
INVARIANTS SyncedMeansSent
CHECK_DEADLOCK FALSE
