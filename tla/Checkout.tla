---- MODULE Checkout ----
(***************************************************************************)
(* What billing promises a user, with every handler one indivisible action  *)
(* and no workers, locks, rollbacks, attached payments or idempotency keys: *)
(* a payment settles together with its request entering the paid queue and  *)
(* its coins reaching the wallet; a wallet charge is one debit, one payment *)
(* and one transition; a request otherwise follows the table of statuses.   *)
(* Billing implements it.                                                   *)
(***************************************************************************)
EXTENDS RequestStatus, CoinRates, Ledger

CONSTANTS Users, Requests, Intents, Amounts, MaxPayments,
          OpeningBalances,
          RequestOwner, CoinPrice, Resolve, None

VARIABLES payment,    \* [1 .. MaxPayments -> [status, intent, provider, amount]]
          request,    \* [Requests -> [status, log]]
          wallet      \* [Users -> wallet]

promised == <<payment, request, wallet>>

Absent == [status |-> "absent", intent |-> None, provider |-> None,
           amount |-> 0]

Init ==
  /\ payment = [p \in 1 .. MaxPayments |-> Absent]
  /\ request = [r \in Requests |-> [status |-> "SUBMITTED", log |-> <<>>]]
  /\ wallet \in [Users -> {NoWallet} \cup
                           {WalletWith(b) : b \in OpeningBalances}]

NoOtherSuccess(p, intent) ==
  \A q \in 1 .. MaxPayments :
    payment[q].status = "success" /\ payment[q].intent = intent => q = p

Open(p) ==
  /\ payment[p] = Absent
  /\ \E i \in Intents, g \in {"iran_gw", "bazaar_iap"}, a \in Amounts,
        s \in {"initiated", "pending"} :
       payment' = [payment EXCEPT ![p] = [status |-> s, intent |-> i,
                                          provider |-> g, amount |-> a]]
  /\ UNCHANGED <<request, wallet>>

Fail(p) ==
  /\ payment[p] # Absent
  /\ payment' = [payment EXCEPT ![p].status = "failed"]
  /\ UNCHANGED <<request, wallet>>

(* The request enters the paid queue, or is there already.                  *)
EnterPaidQueue(r) ==
  \/ /\ request[r].status = "QUEUED_PAID"
     /\ UNCHANGED request
  \/ /\ TransitionAllowed(request[r].status, "QUEUED_PAID")
     /\ request' = [request EXCEPT ![r] = Moved(@, "QUEUED_PAID")]

(* The coins of a payment are booked once, if its rate gives any.           *)
BookCoins(p, u) ==
  LET coins == CoinsGranted(payment[p].provider, payment[p].amount) IN
  \/ /\ HasDeposit(wallet[u], p) \/ coins = {}
     /\ UNCHANGED wallet
  \/ /\ ~ HasDeposit(wallet[u], p)
     /\ \E c \in coins :
          wallet' = [wallet EXCEPT ![u] = Booked(@, c, p)]

Settle(p) ==
  LET r == Resolve[payment[p].intent] IN
  /\ payment[p] # Absent
  /\ NoOtherSuccess(p, payment[p].intent)
  /\ payment' = [payment EXCEPT ![p].status = "success"]
  /\ EnterPaidQueue(r)
  /\ BookCoins(p, RequestOwner[r])

(* A charge happens once per request: it needs a request waiting for        *)
(* payment and takes it to the paid queue.                                  *)
Charge(p) ==
  /\ payment[p] = Absent
  /\ \E i \in Intents :
       LET r == Resolve[i]
           u == RequestOwner[r]
       IN /\ NoOtherSuccess(p, i)
          /\ request[r].status = "PAYMENT_REQUIRED"
          /\ 0 < CoinPrice[r] /\ CoinPrice[r] <= wallet[u].balance
          /\ payment' = [payment EXCEPT ![p] =
                           [status |-> "success", intent |-> i,
                            provider |-> "wallet", amount |-> 0]]
          /\ request' = [request EXCEPT ![r] = Moved(@, "QUEUED_PAID")]
          /\ wallet' = [wallet EXCEPT ![u] = Booked(@, 0 - CoinPrice[r], p)]

(* Everything but the paid queue is reached by a move of its own.           *)
Advance(r, target) ==
  /\ target # "QUEUED_PAID"
  /\ TransitionAllowed(request[r].status, target)
  /\ request' = [request EXCEPT ![r] = Moved(@, target)]
  /\ UNCHANGED <<payment, wallet>>

Next ==
  \/ \E p \in 1 .. MaxPayments : Open(p) \/ Fail(p) \/ Settle(p) \/ Charge(p)
  \/ \E r \in Requests, target \in Statuses : Advance(r, target)

Spec == Init /\ [][Next]_promised
====
