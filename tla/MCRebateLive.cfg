\* Liveness and refinement: every request is answered and the periods implement the log.
CONSTANTS
  NULL = NULL
  p1 = p1
  p2 = p2
  i1 = i1
  i2 = i2
  t1 = t1
  t2 = t2
  Periods = {p1, p2}
  Docs = {t1, t2}
  StartOf <- MCStartOf
  EndOf <- MCEndOf
  Terms <- MCTerms
  Parts = 2
  KindOf <- MCKindOf
  RowsOf <- MCRowsOf
  Sessions = {s1, s2}
  Spends = {40}
  Receipts = {}
  Recorded = {p2}
  FirstDay = 3
  LastDay = 4
SPECIFICATION FairSpec
PROPERTIES
  RequestsFinish
  ImplementsEvidenceLog
