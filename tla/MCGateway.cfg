SPECIFICATION Spec
CONSTANTS
  r1 = r1
  r2 = r2
  p = p
  q = q
  s = s
  alias = alias
  direct = direct
  Requests = {r1, r2}
  Kinds = {"reply", "stream"}
  Providers = {p, q}
  Selectors = {alias, direct}
  Tables <- ChangingTables
  MaxConcurrency = 1
  Unservable = {}
  Faults = {"cancel", "body", "drain", "abandon", "database"}
  MaxReloads = 1
  MaxResets = 0
INVARIANTS SlotsExact GaugeExact FailoverInOrder
CHECK_DEADLOCK FALSE
PROPERTY LimitsKept
