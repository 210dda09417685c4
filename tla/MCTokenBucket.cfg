SPECIFICATION Spec
CONSTANTS
  c1 = c1
  c2 = c2
  c3 = c3
  Callers = {c1, c2, c3}
  Amounts = {0, 1, 3, 4}
  MaxCalls = 4
  InitialCapacity = 3
  Capacities = {2, 4}
  MaxReconfigures = 1
INVARIANT NoFreeTokens
PROPERTY QueuedCallersServed
