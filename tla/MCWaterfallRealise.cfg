\* Expected violation of RealisedFromImplementation.
CONSTANTS
  NULL = NULL
  Sessions = {s1, s2}
  Opps = {o1}
  Amounts = {10}
  Dates = {1}
  Targets = {"identified", "validated", "approved", "implementation", "rejected"}
  MaxEvents = 2
  MaxEntries = 1
SPECIFICATION Spec
SYMMETRY SessionSymmetry
PROPERTIES
  RealisedFromImplementation
