SPECIFICATION Spec
CONSTANTS
  Workers = {w1, w2}
  Payments = {bazaar, wallet}
  Registered = {bazaar}
  Price = 2
  Asked = {1, 2}
  MaxRefunds = 3
  Events = {"refund", "consume", "raise", "crash"}
SYMMETRY Symmetric
CHECK_DEADLOCK FALSE
INVARIANTS TypeOK RecordedIsMoved MovedIsRecorded FullNeverAfterPartial LogTellsRefunds
