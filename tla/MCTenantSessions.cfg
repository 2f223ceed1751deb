\* Three requests on two connections.
CONSTANTS
  NULL = NULL
  u1 = u1
  u2 = u2
  u3 = u3
  o1 = o1
  o2 = o2
  o3 = o3
  Users = {u1, u2, u3}
  Organisations = {o1, o2, o3}
  FoundsOf <- MCFoundsOf
  Members <- MCMembers
  Inactive = {u2}
  SelfRegistration = TRUE
  Connections = {c1, c2}
  Requests = {r1, r2, r3}
SYMMETRY RequestSymmetry
SPECIFICATION Spec
INVARIANTS
  CreatesAreReadBack
  MembershipsAreWhole
PROPERTIES
  AnswersComeFromTheTables
