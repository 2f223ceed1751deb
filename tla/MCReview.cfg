\* Two buyers resolve, quantify and negotiate the lines of one review.
CONSTANTS
  NULL = NULL
  oldList = oldList
  newList = newList
  a = a
  b = b
  x = x
  y = y
  z = z
  Sessions = {s1, s2}
  Files = {oldList, newList}
  TypeOf <- MCTypeOf
  RowsOf <- MCTwoRows
  Catalog <- MCCatalog
  Quantities = {3}
  SellingPrices = {0, 30}
  Targets = {21}
  Outcomes = {22}
  MaxRuns = 1
  MaxEdits = 3
SPECIFICATION Spec
SYMMETRY SessionSymmetry
INVARIANTS
  MovementFollowsPrices
PROPERTIES
  MatchingLosesNothing
  EntriesSurvive
