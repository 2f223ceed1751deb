\* Liveness and refinement: every request is answered and the register implements the log.
CONSTANTS
  NULL = NULL
  Sessions = {s1, s2}
  Opps = {o1}
  Amounts = {10}
  Dates = {1}
  Targets = {"validated", "approved", "implementation"}
  MaxEvents = 3
  MaxEntries = 1
SPECIFICATION FairSpec
PROPERTIES
  RequestsFinish
  ImplementsEvidenceLog
