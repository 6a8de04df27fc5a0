SPECIFICATION Spec
CONSTANTS
  None = None
  u1 = u1
  r1 = r1
  r2 = r2
  i1 = i1
  i2 = i2
  i3 = i3
  w1 = w1
  w2 = w2
  Workers = {w1}
  Users = {u1}
  Requests = {r1}
  Intents = {i1}
  Resolve <- ToFirst
  Keys = {"k"}
  Refs = {"a"}
  Amounts = {2}
  MaxLog = 2
  MaxPayments = 3
  OpeningBalances = {}
  RequestOwner <- OneOwner
  Plan <- AllPaid
  ExpectedAmount <- NoExpectation
  CoinPrice <- PriceOne
  HasSku <- OneSku
  CoinRateTable <- Rates
  NullableJoinLock = TRUE
  Events = {"init", "callback", "verify", "enqueue", "wallet", "staff", "admin_success", "admin_failed", "crash", "update"}
CHECK_DEADLOCK FALSE
INVARIANTS WorkIsConsumed
PROPERTIES KeyIsStable
