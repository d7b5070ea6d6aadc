SPECIFICATION Spec
CONSTANTS
  Device = {d1, d2}
  Item = {i1}
  Content <- MCContent
  NoRow = NoRow
  Uploaded <- Joining
  NoNote = NoNote
  PageLimit = 1
  Run = {r1}
  Lockable = {d2}
  Trashable = {}
  Crashes = FALSE
  MaxVersion = 3
  MaxEdits = 3
  MaxEditors = 1
  MaxWraps = 1
INVARIANTS VersionNamesContent
CHECK_DEADLOCK FALSE
