SPECIFICATION Spec
CONSTANTS
  User = {u1, u2}
  Owner = u1
  MaxViews = 1
  Reader = {r1, r2}
  Toggler = {q1, q2}
  Comment = {c1, c2}
  None = None
  MaxLost = 1
  MaxCount = 2
SYMMETRY Symmetry
INVARIANTS TypeOK ViewsBounded ReactionsCounted RepliesHaveParents
CHECK_DEADLOCK FALSE
