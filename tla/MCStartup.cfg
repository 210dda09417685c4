SPECIFICATION Spec
CONSTANTS
  u1 = u1
  u2 = u2
  k1 = k1
  k2 = k2
  c1 = c1
  c2 = c2
  r1 = r1
  r2 = r2
  None = None
  NoKey = NoKey
  Urls = {u1, u2}
  Keys = {k1, k2}
  Ciphers = {c1, c2}
  Seeded = seeded
  Providers = {seeded, added}
  Requests = {r1, r2}
  MaxStarts = 3
SYMMETRY Interchangeable
INVARIANTS AddressesAgree KeyServed PlainKeyRemoved
CHECK_DEADLOCK FALSE
