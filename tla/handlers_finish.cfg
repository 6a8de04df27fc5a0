SPECIFICATION FairSpec
CONSTANTS
  None = None
  u1 = u1
  r1 = r1
  r2 = r2
  i1 = i1
  i2 = i2
  i3 = i3
  w1 = w1
  w2 = w2
  Workers = {w1, w2}
  Users = {u1}
  Requests = {r1}
  Intents = {i1}
  Resolve <- ToFirst
  Keys = {"k"}
  Refs = {"a"}
  Amounts = {2}
  MaxLog = 2
  MaxPayments = 1
  OpeningBalances = {1, 2}
  RequestOwner <- OneOwner
  Plan <- AllPaid
  ExpectedAmount <- NoExpectation
  CoinPrice <- PriceOne
  HasSku <- NoSku
  CoinRateTable <- Rates
  NullableJoinLock = TRUE
  Events = {"init", "callback", "enqueue", "staff", "wallet"}
CHECK_DEADLOCK FALSE
PROPERTIES HandlersFinish WalletPays
