\* Three concurrent requests on one contract over the days of its last phases.
CONSTANTS
  NULL = NULL
  title = title
  payment = payment
  x1 = x1
  x2 = x2
  other = other
  Thresholds = {2, 1}
  SoonDays = 1
  ContractIds = {c1}
  Offered <- MCOffered
  Extractions = {x1, x2}
  FieldsOf <- MCFieldsOf
  TextFields = {title}
  TypedFields = {payment}
  OtherFields = {other}
  Selections <- MCSelections
  Requests = {r1, r2, r3}
  ReviewTool = TRUE
  LastDay = 4
SYMMETRY RequestSymmetry
SPECIFICATION Spec
CHECK_DEADLOCK FALSE
INVARIANTS
  AnsweredCheckIsComplete
  AlertsAreGivenOnce
  StoredStatusIsNeverAhead
  OnlyVerifiedTermsArePromoted
