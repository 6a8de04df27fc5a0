SPECIFICATION FairSpec
CONSTANTS
  None = None
  Workers = {w1, w2}
  Users = {u1}
  MAX_OPEN_REQUESTS = 2
  MAX_FREE_REQUESTS_PER_DAY = 3
  Day = 1
  MaxRequests = 2
  MaxTime = 0
  Events = {"free", "paid", "pay", "staff", "retrieve", "delete"}
CHECK_DEADLOCK FALSE
INVARIANTS TypeOK QueueFits
PROPERTIES RegisteredIsEnqueued HintsSettle
