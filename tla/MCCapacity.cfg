SPECIFICATION Spec
CONSTANTS
  c1 = c1
  c2 = c2
  c3 = c3
  NoUsage = NoUsage
  Callers = {c1, c2, c3}
  Reservations = {1, 3}
  Usages = {2}
  HasRequestBucket = TRUE
  RequestCost = 1
  RequestBurst = 2
  HasTokenBucket = TRUE
  TokenBurst = 2
  HasSemaphore = TRUE
  MaxConcurrency = 1
INVARIANTS SlotsConserved GaugesExact TokensAccounted Paced
PROPERTIES LimitSpec QueuedDecided
