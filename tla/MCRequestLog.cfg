SPECIFICATION Spec
CONSTANTS
  h1 = h1
  h2 = h2
  purger = purger
  sampler = sampler
  Handlers = {h1, h2}
  Duties <- MCDuties
  LastId <- MCLastId
  Backlog <- MCBacklog
  Filters <- MCFilters
  MaxRows <- MCMaxRows
  Oldest <- MCOldest
  Batch = 2
  PoolSize = 2
  Failures = 1
INVARIANTS ConnectionsExact PayloadsFindable ErasedStaysErased
PROPERTIES PoolRefills RetentionHolds
CHECK_DEADLOCK FALSE
