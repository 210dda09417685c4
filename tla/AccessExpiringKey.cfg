SPECIFICATION Spec
CONSTANTS
  u = u
  v = v
  w = w
  k = k
  l1 = l1
  l2 = l2
  r1 = r1
  r2 = r2
  c1 = c1
  Users = {u, v, w}
  Initial = {u, v}
  Clients = {u, v}
  Logins = {l1}
  Requests = {r1}
  Operations <- ExpiringKeys
  Calls = {c1}
  Keys = {k}
  Attempts = 1
  Faults = {}
INVARIANT KeysWorkUntilExpiry
CHECK_DEADLOCK FALSE
