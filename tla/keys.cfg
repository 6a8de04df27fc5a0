SPECIFICATION Spec
CONSTANTS
  None = None
  u1 = u1
  r1 = r1
  r2 = r2
  i1 = i1
  i2 = i2
  i3 = i3
  w1 = w1
  w2 = w2
  Workers = {w1, w2}
  Users = {u1}
  Requests = {r1}
  Intents = {i1}
  Resolve <- ToFirst
  Keys = {"k"}
  Refs = {"a"}
  Amounts = {1, 2}
  MaxLog = 2
  MaxPayments = 2
  OpeningBalances = {}
  RequestOwner <- OneOwner
  Plan <- AllPaid
  ExpectedAmount <- ExpectTwo
  CoinPrice <- FreeOfCharge
  HasSku <- WithSku
  CoinRateTable <- Rates
  NullableJoinLock = FALSE
  Events = {"init", "verify", "enqueue", "staff", "admin_consumed", "admin_success"}
CHECK_DEADLOCK FALSE
SYMMETRY WorkerSymmetry
INVARIANTS AuditTrail
PROPERTIES SuccessQueuesRequest KeepsPromise
