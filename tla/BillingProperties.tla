---- MODULE BillingProperties ----
(***************************************************************************)
(* What Billing promises: its type invariant, invariants, action properties *)
(* and liveness, and the statements of the tests and comments that the code *)
(* does not keep.                                                           *)
(***************************************************************************)
EXTENDS Billing

----------------------------------------------------------------------------
(* Properties.                                                              *)

(* Rows keep their types, in the committed and in the uncommitted database, *)
(* and so do the handlers' local variables.                                 *)
TypedTables(table) ==
  /\ \A p \in PaymentId : table[PaymentRow(p)] \in PaymentRecord
  /\ \A r \in Requests : table[RequestRow(r)] \in RequestRecord
  /\ \A u \in Users : table[WalletRow(u)] \in WalletRecord
  /\ \A k \in Keys : table[KeyRow(k)] \in PaymentId \cup {NoPayment}

TypeOK ==
  /\ TypedTables(db) /\ TypedTables(work)
  /\ owner \in [Rows -> Workers \cup {None}]
  /\ pc \in [Workers -> Steps]
  /\ job \in [Workers -> Jobs]

PaidInLog(request) ==
  \E n \in DOMAIN request.log : request.log[n][2] = "QUEUED_PAID"

PaymentRequest(p) == RequestRow(Resolve[db[PaymentRow(p)].intent])

(* The wallet ledger adds up: the entries chain from the opening balance to *)
(* the balance, whatever credits, debits and rollbacks interleaved.  This   *)
(* is what the row lock before each read-modify-write of a balance is for.  *)
LedgerOf(wallet) ==
  LET entry == wallet.entries IN
  /\ wallet.balance = IF entry = <<>> THEN wallet.opening
                      ELSE entry[Len(entry)].after
  /\ \A n \in DOMAIN entry :
       entry[n].after = (IF n = 1 THEN wallet.opening ELSE entry[n - 1].after)
                        + entry[n].coins

LedgerAddsUp == \A u \in Users : LedgerOf(db[WalletRow(u)])

(* A payment books at most one ledger entry: a callback that is repeated,   *)
(* or that races an administrator, does not credit the wallet again.        *)
BookedOnce(wallet) ==
  \A m, n \in DOMAIN wallet.entries :
    wallet.entries[m].payment = wallet.entries[n].payment => m = n

OneEntryPerPayment == \A u \in Users : BookedOnce(db[WalletRow(u)])

(* apply_success and pay_with_wallet are all or nothing: coins move only    *)
(* for a payment whose request went through the paid queue.                 *)
EntriesArePaidFor ==
  \A u \in Users :
    \A n \in DOMAIN db[WalletRow(u)].entries :
      PaidInLog(db[PaymentRequest(db[WalletRow(u)].entries[n].payment)])

(* No request is charged to a wallet twice, although the success check of   *)
(* pay_with_wallet is made per intent and a request has several intents.    *)
ChargedOnce ==
  \A u \in Users :
    LET entry == db[WalletRow(u)].entries IN
    \A m, n \in DOMAIN entry :
      (/\ entry[m].coins < 0 /\ entry[n].coins < 0
       /\ PaymentRequest(entry[m].payment) = PaymentRequest(entry[n].payment))
      => m = n

(* RequestTransition is the "audit log of status transitions": its rows     *)
(* lead from SUBMITTED to the status the request has, by allowed moves.     *)
TrailOf(request) ==
  LET log == request.log IN
  /\ request.status = IF log = <<>> THEN "SUBMITTED" ELSE log[Len(log)][2]
  /\ \A n \in DOMAIN log :
       /\ log[n][1] = IF n = 1 THEN "SUBMITTED" ELSE log[n - 1][2]
       /\ TransitionAllowed(log[n][1], log[n][2])

AuditTrail == \A r \in Requests : TrailOf(db[RequestRow(r)])

(* A payment turns successful only together with its request being in the   *)
(* paid queue: never for a request canceled, started or unpaid meanwhile.   *)
SuccessQueuesRequest ==
  [][\A p \in PaymentId :
       (/\ db[PaymentRow(p)].status # "success"
        /\ db'[PaymentRow(p)].status = "success")
       => db'[PaymentRequest(p)'].status = "QUEUED_PAID"]_vars

(* A request enters the paid queue only with a successful payment that      *)
(* names it.                                                                *)
PaidQueueNeedsSuccess ==
  [][\A r \in Requests :
       (/\ db[RequestRow(r)].status # "QUEUED_PAID"
        /\ db'[RequestRow(r)].status = "QUEUED_PAID")
       => \E p \in PaymentId : /\ db'[PaymentRow(p)].status = "success"
                               /\ Resolve[db'[PaymentRow(p)].intent] = r]_vars

(* What Checkout shows of the committed rows: no reference, no consumed     *)
(* mark, no attached payment, no key.                                       *)
PaymentView(value) == [status |-> value.status, intent |-> value.intent,
                       provider |-> value.provider, amount |-> value.amount]

RequestView(value) == [status |-> value.status, log |-> value.log]

PaymentsShown == [p \in PaymentId |-> PaymentView(db[PaymentRow(p)])]

RequestsShown == [r \in Requests |-> RequestView(db[RequestRow(r)])]

WalletsShown == [u \in Users |-> db[WalletRow(u)]]

(* Billing implements Checkout: what other workers can see of a handler     *)
(* happens in one step, or not at all.                                      *)
Promise == INSTANCE Checkout WITH payment <- PaymentsShown,
                                  request <- RequestsShown,
                                  wallet <- WalletsShown

KeepsPromise == Promise!Spec

(* Every handler ends: no statement waits for ever, because the locks are   *)
(* released at the end of every transaction and rings are broken.           *)
HandlersFinish == \A w \in Workers : pc[w] # "idle" ~> pc[w] = "idle"

----------------------------------------------------------------------------
(* What the documentation or the tests expect and the code does not keep.   *)

(* test_api_init.py: a key stands for one payment.                          *)
KeyIsStable ==
  [][\A k \in Keys : db[KeyRow(k)] # NoPayment
                       => db'[KeyRow(k)] = db[KeyRow(k)]]_vars

(* A request in progress has consumed the payment it points to.             *)
WorkIsConsumed ==
  \A r \in Requests :
    LET request == db[RequestRow(r)] IN
    (/\ request.status = "IN_PROGRESS" /\ request.payment # NoPayment)
    => db[PaymentRow(request.payment)].consumed

(* test_wallet.py: a user who has the coins can pay a request with them.  A *)
(* client that tries again and again does not wait for ever (or the bound   *)
(* on payments is used up).                                                 *)
WalletPays ==
  (\A w \in Workers : SF_vars(WalletBegin(w))) =>
  \A r \in Requests :
    (/\ db[RequestRow(r)].status = "PAYMENT_REQUIRED"
     /\ CoinPrice[r] > 0
     /\ db[WalletRow(RequestOwner[r])].balance >= CoinPrice[r])
    ~> \/ db[RequestRow(r)].status # "PAYMENT_REQUIRED"
       \/ \A p \in PaymentId : Exists(db[PaymentRow(p)])
====
