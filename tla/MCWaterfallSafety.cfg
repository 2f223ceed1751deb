\* Two racing requests, every target status, a second pass through the waterfall.
CONSTANTS
  NULL = NULL
  Sessions = {s1, s2}
  Opps = {o1}
  Amounts = {10}
  Dates = {1}
  Targets = {"identified", "validated", "approved", "implementation", "realised", "rejected", "expired", "other"}
  MaxEvents = 3
  MaxEntries = 2
SPECIFICATION Spec
SYMMETRY SessionSymmetry
INVARIANTS
  TypeOK
  ChainUnbroken
  SnapshotIsLatestEvent
  ApprovedBeforeImplementation
  NoDoubleRealisation
  LockProtectsVersion
