SPECIFICATION Spec
CONSTANTS
  u = u
  v = v
  w = w
  k = k
  l1 = l1
  l2 = l2
  r1 = r1
  r2 = r2
  c1 = c1
  Users = {u, v, w}
  Initial = {u, v}
  Clients = {u, v}
  Logins = {l1, l2}
  Requests = {r1, r2}
  Operations <- MCOperations
  Calls = {c1}
  Keys = {k}
  Attempts = 1
  Faults = {"audit", "grant"}
SYMMETRY Interchangeable
INVARIANTS OneFounder AdministratorRemains AuthorityIsCurrent RevokedIsRefused ChangesAreAudited
PROPERTY ThrottleHolds
CHECK_DEADLOCK FALSE
