SPECIFICATION Spec
CONSTANTS
  r1 = r1
  r2 = r2
  p = p
  q = q
  s = s
  alias = alias
  direct = direct
  Requests = {r1, r2}
  Kinds = {"reply", "stream"}
  Providers = {p, q, s}
  Selectors = {alias, direct}
  Tables <- StableTables
  MaxConcurrency = 1
  Unservable = {s}
  Faults = {"database"}
  MaxReloads = 0
  MaxResets = 1
INVARIANTS GaugeNeverOverstates ForwardedIsLogged
PROPERTY QueuedAreAnswered
