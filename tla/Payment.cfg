SPECIFICATION FairSpec
CONSTANTS
  User = {u1}
  Session = {s1}
  Worker = {w1, w2}
  Failures = TRUE
  Nobody = Nobody
  NoEvent = NoEvent
INVARIANTS RefundRevokes CompletedMeansGranted
PROPERTIES ImplementsEntitlement PaidIsGranted
CHECK_DEADLOCK FALSE
