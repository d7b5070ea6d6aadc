SPECIFICATION FairSpec
CONSTANTS
  Caller = {c1, c2, c3, c4}
  FailureThreshold = 3
  SuccessThreshold = 3
  HalfOpenMaxReqs = 2
  Streams = TRUE
INVARIANTS TypeOK ProbesBounded
PROPERTIES TripsOnConsecutive Recovers
