SPECIFICATION FairSpec
CONSTANTS
  Device = {d1}
  Item = {i1}
  Content <- MCContent
  NoRow = NoRow
  Uploaded <- NewUser
  NoNote = NoNote
  PageLimit = 2
  Run = {r1}
  Lockable = {}
  Trashable = {i1}
  Crashes = TRUE
  MaxVersion = 3
  MaxEdits = 3
  MaxEditors = 1
  MaxWraps = 0
PROPERTIES PushProgress
CHECK_DEADLOCK FALSE
