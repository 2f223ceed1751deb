\* One ingest and its correction.
CONSTANTS
  NULL = NULL
  wc1 = wc1
  wc2 = wc2
  inv = inv
  fx = fx
  age = age
  route = route
  a = a
  b = b
  Grains = {wc1, wc2, age, inv, fx, route}
  LedgerOf <- MCLedgerOf
  DayOf <- MCDayOf
  Items = {a, b}
  Batches <- MCBatches
  Requests = {r1, r2}
SPECIFICATION Spec
CHECK_DEADLOCK FALSE
INVARIANTS
  CorrectionsReachReaders
