SPECIFICATION Spec
CONSTANTS
  None = None
  Workers = {w1}
  Users = {u1}
  MAX_OPEN_REQUESTS = 2
  MAX_FREE_REQUESTS_PER_DAY = 3
  Day = 1
  MaxRequests = 4
  MaxTime = 2
  Events = {"free", "paid", "pay", "staff", "retrieve", "tick", "crash"}
CHECK_DEADLOCK FALSE
INVARIANTS OpenLimit DailyLimit
PROPERTIES PlaceOnlyImproves
