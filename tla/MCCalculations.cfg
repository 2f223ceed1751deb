\* Every order of up to three bands with spend below, at and above every threshold, and the
\* questions with the boundaries of every calculation among their values.
CONSTANTS
  NULL = NULL
  Refused = Refused
  Parts = 4
  Thresholds = {0, 41, 43, 78}
  Rates = {500, 2500}
  MaxSpend = 24
  Steps = {1, 8}
  StorageMax = 30000
SPECIFICATION Spec
CHECK_DEADLOCK FALSE
INVARIANTS
  TiersMeet
  RemainderMeetsTier
  ReportsAgree
  ClassesAndContributorsAgree
  PartsAddUp
  UnknownStaysUnknown
  PaybackAgreesWithNpv
  VariantsAreNeverMatched
  RenewalsKeepTheirMonth
PROPERTIES
  MoreSpendMoreRebate
