SPECIFICATION Spec
CONSTANTS
  a1 = a1
  a2 = a2
  d = d
  p = p
  Admins = {a1, a2}
  Operations <- EveryOperation
  Providers = {d, p}
  InitialProviders = {d}
  Default = d
  CheckKinds = {"refresh", "discover"}
  MaxNotes = 2
INVARIANTS SavedIsAppliedInTurn DefaultServes
PROPERTIES HealthNeverRegresses LockFreed
