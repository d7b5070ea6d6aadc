SPECIFICATION Spec
CONSTANTS
  Account = {a1, a2}
  Request = {r1, r2}
  Token = {t1, t2, t3}
  PushToken = {p1}
  Device = {d1}
  None = None
INVARIANTS OneAccountPerEmail RotatedIsRefused DeletedIsGone
CHECK_DEADLOCK FALSE
