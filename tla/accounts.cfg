SPECIFICATION FairSpec
CONSTANTS
  None = None
  Workers = {w1, w2}
  Typed <- TypedNumbers
  MaxDigits = 6
  MaxCodes = 2
  MaxUsers = 1
  MaxSuffix = 0
  Events = {"request", "verify", "tick", "crash", "staff"}
CHECK_DEADLOCK FALSE
INVARIANTS TypeOK SupersededIsUsed BurnedForAReason OwnerLogsIn
PROPERTIES UsedCodeIsRefused CodeGivesAccount
