\* Three requests while a supplier joins.
CONSTANTS
  NULL = NULL
  LetterScore <- MCLetterScore
  EndsWith <- MCEndsWith
  StartsWith <- MCStartsWith
  sA = sA
  sB = sB
  sC = sC
  Suppliers = {sA, sB, sC}
  Established = {sA, sB}
  Invoiced = {sA}
  Purchases <- MCPurchases
  ItemsOf <- MCItemsOf
  Requests = {r1, r2, r3}
SYMMETRY RequestSymmetry
SPECIFICATION Spec
CHECK_DEADLOCK FALSE
INVARIANTS
  LaterScansNeverRepeat
  ScansCoverWhatTheyRead
