SPECIFICATION Spec
CONSTANTS
  None = None
  u1 = u1
  r1 = r1
  r2 = r2
  i1 = i1
  i2 = i2
  i3 = i3
  w1 = w1
  w2 = w2
  Workers = {w1, w2}
  Users = {u1}
  Requests = {r1, r2}
  Intents = {i1, i2, i3}
  Resolve <- ToBoth
  Keys = {}
  Refs = {"a", ""}
  Amounts = {2}
  MaxLog = 2
  MaxPayments = 2
  OpeningBalances = {1, 2}
  RequestOwner <- OneOwner
  Plan <- AllPaid
  ExpectedAmount <- NoExpectation
  CoinPrice <- PriceOne
  HasSku <- NoSku
  CoinRateTable <- Rates
  NullableJoinLock = TRUE
  Events = {"init", "callback", "enqueue", "wallet", "crash"}
CHECK_DEADLOCK FALSE
SYMMETRY WorkerSymmetry
INVARIANTS ChargedOnce TypeOK LedgerAddsUp OneEntryPerPayment EntriesArePaidFor
PROPERTIES KeepsPromise PaidQueueNeedsSuccess
