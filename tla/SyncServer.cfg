SPECIFICATION FairSpec
CONSTANTS
  Item = {i1, i2}
  Content = {x}
  NoRow = NoRow
  Client = {c1}
  PageLimit = 1
  MaxBatch = 2
  Failures = TRUE
  MaxVersion = 2
  MaxLog = 1
INVARIANTS TypeOK PagingComplete LatestCoversPage
PROPERTIES ImplementsVersionedStore PagingTerminates
