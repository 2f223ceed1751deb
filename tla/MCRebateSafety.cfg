\* Ingests that lock both periods race with each other, closes and receipts.
CONSTANTS
  NULL = NULL
  p1 = p1
  p2 = p2
  i1 = i1
  i2 = i2
  t1 = t1
  t2 = t2
  Periods = {p1, p2}
  Docs = {i1, t1, t2}
  StartOf <- MCStartOf
  EndOf <- MCEndOf
  Terms <- MCTerms
  Parts = 2
  KindOf <- MCKindOf
  RowsOf <- MCRowsOf
  Sessions = {s1, s2}
  Spends = {5}
  Receipts = {3}
  Recorded = {p1, p2}
  FirstDay = 4
  LastDay = 4
SPECIFICATION Spec
SYMMETRY SessionSymmetry
INVARIANTS
  TypeOK
  ExpectedMatchesSpend
  OpenAggregatesAreComplete
PROPERTIES
  SourceNeverDowngrades
  NothingIsUndone
