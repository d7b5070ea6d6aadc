SPECIFICATION StreamFairSpec
CONSTANTS
  Buffer = 2
  MaxRetries = 2
  MaxTasks = 1
  MaxLines = 5
INVARIANTS DoneMeansWhole RetriesUsedUp
PROPERTIES RequestEnds ReaderEnds JobStored
CHECK_DEADLOCK FALSE
