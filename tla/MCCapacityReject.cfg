SPECIFICATION Spec
CONSTANTS
  c1 = c1
  c2 = c2
  c3 = c3
  NoUsage = NoUsage
  Callers = {c1, c2, c3}
  Reservations = {1, 3}
  Usages = {2}
  HasRequestBucket = TRUE
  RequestCost = 2
  RequestBurst = 1
  HasTokenBucket = FALSE
  TokenBurst = 2
  HasSemaphore = FALSE
  MaxConcurrency = 1
INVARIANT GaugesExact
