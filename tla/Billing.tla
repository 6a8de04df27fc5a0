---- MODULE Billing ----
(***************************************************************************)
(* Payments, wallets and story requests under concurrent web processes      *)
(* (billing/services.py, billing/api/views.py, billing/admin.py and the     *)
(* transition part of story_requests/services.py).                          *)
(*                                                                          *)
(* Each handler is a sequence of statements inside one transaction, and the *)
(* statements of several workers interleave.  A statement that cannot be    *)
(* told apart from the one before it by any other worker is joined to it.   *)
(***************************************************************************)
EXTENDS Integers, Sequences, FiniteSets, RequestStatus, CoinRates, Ledger

CONSTANTS
  Workers, Users, Requests, Intents, Keys, Refs, Amounts, None,
  MaxPayments,      \* bound: how many payments are ever inserted
  MaxLog,           \* bound: an update begins on a log of at most this length
  OpeningBalances,  \* balances of the wallets that exist from the start
  RequestOwner,     \* [Requests -> Users]
  Plan,             \* [Requests -> Plans]
  ExpectedAmount,   \* [Requests -> Nat], 0 when meta_json has none
  CoinPrice,        \* [Requests -> Nat], 0 when there is no priced product
  HasSku,           \* [Requests -> BOOLEAN]: the product names a Bazaar SKU
  Resolve,          \* [Intents -> Requests]: get_request_by_intent
  NullableJoinLock, \* the database can lock the nullable side of a join
  Events            \* which handlers and failures the environment provides

VARIABLES db, work, owner,
          pc,       \* [Workers -> Steps]: the next statement of the handler
          job       \* [Workers -> Jobs]: the handler's local variables

vars == <<db, work, owner, pc, job>>

PaymentId == 1 .. MaxPayments
NoPayment == 0
Providers == {"iran_gw", "bazaar_iap", "wallet"}
Gateways == {"iran_gw", "bazaar_iap"}
AllEvents == {"init", "callback", "verify", "admin_success", "admin_failed",
              "admin_consumed", "enqueue", "staff", "wallet", "update", "crash"}

PaymentRow(p) == <<"payment", p>>
RequestRow(r) == <<"request", r>>
WalletRow(u) == <<"wallet", u>>
KeyRow(k) == <<"key", k>>

Rows == ({"payment"} \X PaymentId) \cup ({"request"} \X Requests)
          \cup ({"wallet"} \X Users) \cup ({"key"} \X Keys)

INSTANCE Transactions

ASSUME ConstantsOk ==
  /\ MaxPayments \in Nat /\ MaxLog \in Nat
  /\ OpeningBalances \subseteq Nat
  /\ Amounts \subseteq Nat
  /\ RequestOwner \in [Requests -> Users]
  /\ Plan \in [Requests -> Plans]
  /\ ExpectedAmount \in [Requests -> Nat]
  /\ CoinPrice \in [Requests -> Nat]
  /\ HasSku \in [Requests -> BOOLEAN]
  /\ Resolve \in [Intents -> Requests]
  /\ NullableJoinLock \in BOOLEAN
  /\ Events \subseteq AllEvents
  /\ CoinRateTable \subseteq [provider : Providers, base : Nat, coins : Nat,
                              active : BOOLEAN]
  /\ None \notin Workers \cup Keys \cup Refs

----------------------------------------------------------------------------
(* Rows.                                                                    *)

PaymentRecord == [status : PaymentStatuses \cup {"absent"},
                  intent : Intents \cup {None},
                  provider : Providers \cup {None},
                  amount : Nat,
                  ref : Refs \cup {"MANUAL", None},
                  consumed : BOOLEAN]

AbsentPayment == [status |-> "absent", intent |-> None, provider |-> None,
                  amount |-> 0, ref |-> None, consumed |-> FALSE]

NewPayment(intent, provider, amount, status) ==
  [status |-> status, intent |-> intent, provider |-> provider,
   amount |-> amount, ref |-> None, consumed |-> FALSE]

RequestRecord == [status : Statuses,
                  payment : PaymentId \cup {NoPayment},
                  log : Seq(Statuses \X Statuses)]

NewRequest == [status |-> "SUBMITTED", payment |-> NoPayment, log |-> <<>>]

Entries == [coins : Int, after : Nat, payment : PaymentId]

WalletRecord == [open : BOOLEAN, opening : Nat, balance : Nat,
                 entries : Seq(Entries)]

----------------------------------------------------------------------------
(* Handlers.                                                                *)

Steps == {"idle", "init_key", "init_insert", "init_bind", "init_attach",
          "init_provider", "lock_payment", "apply", "mark_paid", "transition",
          "credit", "create_wallet", "consume", "wallet_request",
          "wallet_debit", "wallet_pay", "update_save"}

Jobs == [intent : Intents \cup {None},
         request : Requests \cup {None},
         provider : Providers \cup {None},
         amount : Nat,
         key : Keys \cup {None},
         payment : PaymentId \cup {NoPayment},
         ref : Refs \cup {"MANUAL", None},
         ok : BOOLEAN,            \* the provider reported success
         sku : BOOLEAN,           \* the product id sent is the expected one
         image : RequestRecord]   \* the request row as an update read it

NoJob == [intent |-> None, request |-> None, provider |-> None, amount |-> 0,
          key |-> None, payment |-> NoPayment, ref |-> None, ok |-> TRUE,
          sku |-> TRUE, image |-> NewRequest]

Start(w, step, args) ==
  /\ pc[w] = "idle"
  /\ pc' = [pc EXCEPT ![w] = step]
  /\ job' = [job EXCEPT ![w] = args]
  /\ UNCHANGED <<db, work, owner>>

Goto(w, step) == /\ pc' = [pc EXCEPT ![w] = step]
                 /\ UNCHANGED job

End(w) == /\ pc' = [pc EXCEPT ![w] = "idle"]
          /\ job' = [job EXCEPT ![w] = NoJob]

(* The handler commits its last writes and returns.                         *)
Return(w, change) == Commit(w, change) /\ End(w)

(* Mutant: the connection goes back to the pool with its transaction open.  *)
RaiseHolding(w) == UNCHANGED <<db, work, owner>> /\ End(w)

(* The handler raises, or returns without having written: nothing remains.  *)
Raise(w) == Rollback(w) /\ End(w)

(* The write of one row.                                                    *)
Put(x, value) == [y \in {x} |-> value]

----------------------------------------------------------------------------
(* What the queries on payments return.                                     *)

Exists(payment) == payment.status # "absent"

(* Payment.objects.for_intent(intent).successful().exists()                 *)
Succeeded(w, intent) ==
  \E p \in PaymentId : /\ Seen(w, PaymentRow(p)).status = "success"
                       /\ Seen(w, PaymentRow(p)).intent = intent

(* filter(intent_id, provider).order_by("-created_at").first(); identifiers *)
(* are handed out in the order of insertion.                                *)
Latest(intent, provider) ==
  LET matching == {p \in PaymentId : /\ Exists(db[PaymentRow(p)])
                                     /\ db[PaymentRow(p)].intent = intent
                                     /\ db[PaymentRow(p)].provider = provider}
  IN {p \in matching : \A q \in matching : q <= p}

(* The identifier the next insert takes: one above every row there is.      *)
NextPayment == {p \in 1 .. (MaxPayments + 1) :
                  /\ p = 1 \/ Exists(work[PaymentRow(p - 1)])
                  /\ \A q \in PaymentId : Exists(work[PaymentRow(q)]) => q < p}

(* Handlers on their way to an insert: the bound leaves room for all.       *)
Inserting == {w \in Workers : pc[w] \in {"init_key", "init_insert",
                               "wallet_request", "wallet_debit", "wallet_pay"}}

WithinBounds ==
  \A p \in NextPayment : p + Cardinality(Inserting) <= MaxPayments

(* The two partial unique constraints of Payment.                           *)
Conflict(one, other) ==
  \/ /\ one.status = "success" /\ other.status = "success"
     /\ one.intent = other.intent
  \/ /\ one.ref # None /\ one.ref = other.ref
     /\ one.provider = other.provider

Clash(w, p, payment) ==
  {q \in PaymentId \ {p} : Conflict(Seen(w, PaymentRow(q)), payment)}

(* Workers whose uncommitted row the unique index makes w wait for.         *)
IndexWait(w, p, payment) ==
  {owner[PaymentRow(q)] :
     q \in {q \in PaymentId \ {p} : /\ ~ Available(w, PaymentRow(q))
                                    /\ Conflict(work[PaymentRow(q)], payment)}}

----------------------------------------------------------------------------
(* create_payment, called by PaymentInitView.  The caller is the owner of   *)
(* the request: anybody else is refused before anything is written.         *)

(* The check for an earlier success; a retry may name any key and amount.   *)
InitBegin(w) ==
  /\ "init" \in Events
  /\ WithinBounds
  /\ \E i \in Intents, g \in Gateways, a \in Amounts, k \in Keys \cup {None} :
       /\ ~ Succeeded(w, i)
       /\ Start(w, IF k = None THEN "init_insert" ELSE "init_key",
                [NoJob EXCEPT !.intent = i, !.request = Resolve[i],
                              !.provider = g, !.amount = a, !.key = k])

(* select_for_update().filter(key).first(): locks the key if it is there.   *)
InitLockKey(w) ==
  /\ pc[w] = "init_key"
  /\ LET x == KeyRow(job[w].key) IN
     \/ /\ db[x] = NoPayment
        /\ Goto(w, "init_insert")
        /\ UNCHANGED <<db, work, owner>>
     \/ /\ db[x] # NoPayment
        /\ LockRow(w, x)
        /\ pc' = [pc EXCEPT ![w] = "init_insert"]
        /\ job' = [job EXCEPT ![w].payment = work[x]]

(* Mutant: any paid request may be paid for, whatever its status.           *)
InitAcceptedAnyStatus(w) ==
  LET expected == ExpectedAmount[job[w].request] IN
  /\ Plan[job[w].request] = "paid"
  /\ job[w].payment = NoPayment
  /\ expected # 0 => expected = job[w].amount

(* Mutant: the payment the key is bound to is overlooked.                   *)
InitAcceptedAnyKey(w) ==
  LET expected == ExpectedAmount[job[w].request] IN
  /\ Plan[job[w].request] = "paid"
  /\ Seen(w, RequestRow(job[w].request)).status \in PayableStatuses
  /\ expected # 0 => expected = job[w].amount

(* The request as create_payment reads it, without a lock.                  *)
InitAccepted(w) ==
  LET request == Seen(w, RequestRow(job[w].request))
      expected == ExpectedAmount[job[w].request]
  IN /\ Plan[job[w].request] = "paid"
     /\ request.status \in PayableStatuses
     /\ job[w].payment = NoPayment
     /\ expected # 0 => expected = job[w].amount

(* Refused, or the key's earlier payment is returned.                       *)
InitRefused(w) ==
  /\ pc[w] = "init_insert"
  /\ ~ InitAccepted(w)
  /\ Raise(w)

InitInsert(w) ==
  /\ pc[w] = "init_insert"
  /\ InitAccepted(w)
  /\ \E p \in NextPayment \cap PaymentId :
       /\ Write(w, Put(PaymentRow(p), NewPayment(job[w].intent,
                         job[w].provider, job[w].amount, "initiated")))
       /\ job' = [job EXCEPT ![w].payment = p]
       /\ pc' = [pc EXCEPT ![w] = IF job[w].key = None THEN "init_attach"
                                  ELSE "init_bind"]

(* IdempotencyKey.update_or_create: binds the key, whatever it was bound to *)
(* by a transaction that committed meanwhile.                               *)
InitBindKey(w) ==
  /\ pc[w] = "init_bind"
  /\ Write(w, Put(KeyRow(job[w].key), job[w].payment))
  /\ Goto(w, "init_attach")

(* get_or_create looks the key up and then validates its own row: a key     *)
(* bound by a commit between the two is a ValidationError nobody catches.   *)
InitKeyTaken(w) ==
  /\ pc[w] = "init_bind"
  /\ db[KeyRow(job[w].key)] # NoPayment
  /\ Raise(w)

(* _attach_payment_to_story_request writes only the payment column; the     *)
(* status is not read again.                                                *)
InitAttach(w) ==
  /\ pc[w] = "init_attach"
  /\ LET x == RequestRow(job[w].request) IN
       Write(w, Put(x, [work[x] EXCEPT !.payment = job[w].payment]))
  /\ Goto(w, "init_provider")

(* provider_impl.init_payment and the final save: a redirect makes the      *)
(* payment pending, the Bazaar SDK leaves it initiated.  A provider that    *)
(* fails rolls everything back: that is Crash.                              *)
InitProvider(w) ==
  /\ pc[w] = "init_provider"
  /\ LET x == PaymentRow(job[w].payment)
         status == IF job[w].provider = "iran_gw" THEN "pending"
                   ELSE "initiated"
     IN Return(w, Put(x, [work[x] EXCEPT !.status = status]))

----------------------------------------------------------------------------
(* The entries to apply_success and apply_fail.                             *)

(* IranGatewayCallbackView: the gateway may call again, in any order, with  *)
(* either outcome.  The row is chosen before its lock is granted.           *)
CallbackBegin(w) ==
  /\ "callback" \in Events
  /\ \E i \in Intents, ok \in BOOLEAN, ref \in Refs \cup {None} :
       /\ ok <=> ref # None
       /\ \E p \in Latest(i, "iran_gw") :
            Start(w, "lock_payment",
                  [NoJob EXCEPT !.intent = i, !.request = Resolve[i],
                                !.payment = p, !.ok = ok, !.ref = ref])

(* BazaarVerifyView: sku tells whether the product id the application sent  *)
(* is the one of the product.                                               *)
VerifyBegin(w) ==
  /\ "verify" \in Events
  /\ \E i \in Intents, ok, sku \in BOOLEAN, ref \in Refs \cup {None} :
       /\ ok <=> ref # None
       /\ \E p \in Latest(i, "bazaar_iap") :
            Start(w, "lock_payment",
                  [NoJob EXCEPT !.intent = i, !.request = Resolve[i],
                                !.payment = p, !.ok = ok, !.ref = ref,
                                !.sku = sku])

LockPayment(w) ==
  /\ pc[w] = "lock_payment"
  /\ LockRow(w, PaymentRow(job[w].payment))
  /\ Goto(w, "apply")

(* PaymentAdmin.mark_success works on an object the changelist read: no     *)
(* lock, and the reference it writes back is the one it read then.          *)
AdminMarkSuccess(w) ==
  /\ "admin_success" \in Events
  /\ \E p \in PaymentId, i \in Intents :
       LET payment == db[PaymentRow(p)] IN
       /\ Exists(payment) /\ payment.intent = i
       /\ Start(w, "apply",
                [NoJob EXCEPT !.intent = i, !.request = Resolve[i],
                              !.payment = p,
                              !.ref = IF payment.ref \in {None, ""}
                                      THEN "MANUAL" ELSE payment.ref])

(* PaymentAdmin.mark_failed: apply_fail, one UPDATE.                        *)
AdminMarkFailed(w) ==
  /\ "admin_failed" \in Events
  /\ pc[w] = "idle"
  /\ \E p \in PaymentId :
       LET x == PaymentRow(p) IN
       /\ Exists(db[x])
       /\ Return(w, Put(x, [work[x] EXCEPT !.status = "failed"]))

(* PaymentAdmin.mark_consumed: mark_consumed of a payment nobody consumed.  *)
AdminMarkConsumed(w) ==
  /\ "admin_consumed" \in Events
  /\ pc[w] = "idle"
  /\ \E p \in PaymentId :
       LET x == PaymentRow(p) IN
       /\ Exists(db[x])
       /\ ~ db[x].consumed
       /\ Return(w, Put(x, [work[x] EXCEPT !.consumed = TRUE]))

----------------------------------------------------------------------------
(* BazaarVerifyView after the lock, apply_fail and apply_success.           *)

(* payment.story_requests.first(): the product id is compared only while    *)
(* the payment is the one attached to its request.                          *)
SkuRefused(w) ==
  /\ ~ job[w].sku
  /\ HasSku[job[w].request]
  /\ Seen(w, RequestRow(job[w].request)).payment = job[w].payment

RefuseSku(w) ==
  /\ pc[w] = "apply"
  /\ SkuRefused(w)
  /\ Raise(w)

ApplyFail(w) ==
  /\ pc[w] = "apply"
  /\ ~ SkuRefused(w)
  /\ ~ job[w].ok
  /\ LET x == PaymentRow(job[w].payment)
     IN Return(w, Put(x, [work[x] EXCEPT !.status = "failed"]))

(* The row apply_success writes: no test of the status it had.              *)
Successful(w) ==
  [Seen(w, PaymentRow(job[w].payment)) EXCEPT !.status = "success",
                                              !.ref = job[w].ref]

ApplySuccess(w) ==
  LET p == job[w].payment
      x == PaymentRow(p)
  IN /\ pc[w] = "apply"
     /\ ~ SkuRefused(w)
     /\ job[w].ok
     /\ Clash(w, p, Successful(w)) = {}
     /\ IndexWait(w, p, Successful(w)) = {}
     /\ Write(w, Put(x, [work[x] EXCEPT !.status = "success",
                                        !.ref = job[w].ref]))
     /\ Goto(w, "mark_paid")

(* full_clean or the unique index refuses the row.                          *)
ApplyClash(w) ==
  /\ pc[w] = "apply"
  /\ ~ SkuRefused(w)
  /\ job[w].ok
  /\ Clash(w, job[w].payment, Successful(w)) # {}
  /\ Raise(w)

Attached(w) == Seen(w, RequestRow(job[w].request)).payment = job[w].payment

(* Mutant: the status is written with the payment, so that transition()     *)
(* finds nothing left to do.                                                *)
MarkPaidWithStatus(w) ==
  /\ pc[w] = "mark_paid"
  /\ LET x == RequestRow(job[w].request) IN
       Write(w, Put(x, [work[x] EXCEPT !.payment = job[w].payment,
                                       !.status = "QUEUED_PAID"]))
  /\ Goto(w, "transition")

(* mark_paid reads the request without a lock; only when another payment is *)
(* attached does it write, and so lock, the row before transition() does.   *)
MarkPaid(w) ==
  /\ pc[w] = "mark_paid"
  /\ \/ Attached(w) /\ UNCHANGED <<db, work, owner>>
     \/ /\ ~ Attached(w)
        /\ LET x == RequestRow(job[w].request) IN
             Write(w, Put(x, [work[x] EXCEPT !.payment = job[w].payment]))
  /\ Goto(w, "transition")

(* transition(request, QUEUED_PAID) under the request's lock.  A request    *)
(* that is there already is left as it is.                                  *)
PaidTransition(w) ==
  LET x == RequestRow(job[w].request) IN
  /\ pc[w] = "transition"
  /\ TransitionAccepted(work[x].status, "QUEUED_PAID")
  /\ Write(w, Put(x, Transitioned(work[x], "QUEUED_PAID")))
  /\ Goto(w, "credit")

(* Any other status: ValidationError, and the success is rolled back too.   *)
TransitionRefused(w) ==
  LET x == RequestRow(job[w].request) IN
  /\ pc[w] = "transition"
  /\ Available(w, x)
  /\ ~ TransitionAccepted(work[x].status, "QUEUED_PAID")

(* Mutant: the refusal is swallowed and the success committed.              *)
RefusalSwallowed(w) == TransitionRefused(w) /\ Return(w, NoWrites)

(* Mutant: the refusal is swallowed and the coins are credited.             *)
RefusalIgnored(w) ==
  /\ TransitionRefused(w)
  /\ Goto(w, "credit")
  /\ UNCHANGED <<db, work, owner>>

PaidTransitionRefused(w) == TransitionRefused(w) /\ Raise(w)

(* _credit_wallet_from_payment.                                             *)
UserWallet(w) == WalletRow(RequestOwner[job[w].request])

Coins(w) == LET payment == work[PaymentRow(job[w].payment)]
            IN CoinsGranted(payment.provider, payment.amount)

Credited(w) == HasDeposit(Seen(w, UserWallet(w)), job[w].payment)

CreditNothing(w) ==
  /\ pc[w] = "credit"
  /\ Credited(w) \/ Coins(w) = {}
  /\ Return(w, NoWrites)

Credit(w) ==
  LET x == UserWallet(w) IN
  /\ pc[w] = "credit"
  /\ ~ Credited(w)
  /\ db[x].open
  /\ \E coins \in Coins(w) :
       Return(w, Put(x, Booked(work[x], coins, job[w].payment)))

CreditNoWallet(w) ==
  /\ pc[w] = "credit"
  /\ ~ Credited(w)
  /\ Coins(w) # {}
  /\ ~ db[UserWallet(w)].open
  /\ Goto(w, "create_wallet")
  /\ UNCHANGED <<db, work, owner>>

(* Mutant: the loser finds the winner's wallet and saves its own balance.   *)
CreateWalletStale(w) ==
  LET x == UserWallet(w) IN
  /\ pc[w] = "create_wallet"
  /\ Available(w, x)
  /\ \E coins \in Coins(w) :
       Return(w, Put(x, [Booked(work[x], coins, job[w].payment)
                           EXCEPT !.balance = coins]))

(* Wallet.objects.create: one wallet per user, so the loser of two first    *)
(* credits is rolled back whole.                                            *)
CreateWallet(w) ==
  LET x == UserWallet(w) IN
  /\ pc[w] = "create_wallet"
  /\ Available(w, x)
  /\ \/ work[x].open /\ Raise(w)
     \/ /\ ~ work[x].open
        /\ \E coins \in Coins(w) :
             Return(w, Put(x, Booked(work[x], coins, job[w].payment)))

----------------------------------------------------------------------------
(* pay_with_wallet, called by WalletPaymentView.                            *)

(* The check for an earlier success.                                        *)
WalletBegin(w) ==
  /\ "wallet" \in Events
  /\ WithinBounds
  /\ \E i \in Intents :
       /\ ~ Succeeded(w, i)
       /\ Start(w, "wallet_request", [NoJob EXCEPT !.intent = i,
                                                   !.request = Resolve[i]])

WalletAccepted(w) ==
  LET r == job[w].request IN
  /\ NullableJoinLock
  /\ Plan[r] = "paid"
  /\ work[RequestRow(r)].status \in PayableStatuses
  /\ CoinPrice[r] > 0

(* Mutant: the request is read without its lock.                            *)
WalletRequestUnlocked(w) ==
  /\ pc[w] = "wallet_request"
  /\ \/ ~ WalletAccepted(w) /\ Raise(w)
     \/ /\ WalletAccepted(w)
        /\ Goto(w, "wallet_debit")
        /\ UNCHANGED <<db, work, owner>>

(* select_for_update().select_related("product", "payment"): both relations *)
(* are nullable, so the statement itself fails on PostgreSQL.               *)
WalletRequest(w) ==
  /\ pc[w] = "wallet_request"
  /\ Available(w, RequestRow(job[w].request)) \/ ~ NullableJoinLock
  /\ \/ ~ WalletAccepted(w) /\ Raise(w)
     \/ /\ WalletAccepted(w)
        /\ LockRow(w, RequestRow(job[w].request))
        /\ Goto(w, "wallet_debit")

(* Mutant: the balance is compared without the wallet's lock.               *)
WalletDebitUnlocked(w) ==
  LET x == UserWallet(w) IN
  /\ pc[w] = "wallet_debit"
  /\ \/ /\ ~ db[x].open \/ db[x].balance < CoinPrice[job[w].request]
        /\ Raise(w)
     \/ /\ db[x].open
        /\ db[x].balance >= CoinPrice[job[w].request]
        /\ Goto(w, "wallet_pay")
        /\ UNCHANGED <<db, work, owner>>

(* Mutant: the last coin is not accepted.                                   *)
WalletDebitStrict(w) ==
  LET x == UserWallet(w) IN
  /\ pc[w] = "wallet_debit"
  /\ Available(w, x)
  /\ \/ work[x].balance <= CoinPrice[job[w].request] /\ Raise(w)
     \/ /\ work[x].balance > CoinPrice[job[w].request]
        /\ LockRow(w, x)
        /\ Goto(w, "wallet_pay")

(* The wallet under its lock.  Its new balance is written with the          *)
(* transaction row, in the next step: nobody sees it in between.            *)
WalletDebit(w) ==
  LET x == UserWallet(w) IN
  /\ pc[w] = "wallet_debit"
  /\ \/ /\ ~ db[x].open
        /\ Raise(w)
     \/ /\ db[x].open
        /\ Available(w, x)
        /\ work[x].balance < CoinPrice[job[w].request]
        /\ Raise(w)
     \/ /\ db[x].open
        /\ work[x].balance >= CoinPrice[job[w].request]
        /\ LockRow(w, x)
        /\ Goto(w, "wallet_pay")

(* Mutant: the payment is left pending.                                     *)
WalletPaymentPending(w) == NewPayment(job[w].intent, "wallet", 0, "pending")

WalletPayment(w) == NewPayment(job[w].intent, "wallet", 0, "success")

(* The payment, the withdrawal, the attached payment and the transition.    *)
WalletPay(w) ==
  LET r == RequestRow(job[w].request)
      x == UserWallet(w)
  IN /\ pc[w] = "wallet_pay"
     /\ TransitionAccepted(work[r].status, "QUEUED_PAID")
     /\ \E p \in NextPayment \cap PaymentId :
          /\ Clash(w, p, WalletPayment(w)) = {}
          /\ IndexWait(w, p, WalletPayment(w)) = {}
          /\ Return(w, [y \in {PaymentRow(p), x, r} |->
               CASE y = PaymentRow(p) -> WalletPayment(w)
                 [] y = x -> Booked(work[x], 0 - CoinPrice[job[w].request], p)
                 [] y = r -> Transitioned([work[r] EXCEPT !.payment = p],
                                          "QUEUED_PAID")])

(* The unique index refuses the payment, or mark_paid the SUBMITTED request *)
(* that line 372 let through.                                               *)
WalletPayRefused(w) ==
  /\ pc[w] = "wallet_pay"
  /\ \/ ~ TransitionAccepted(work[RequestRow(job[w].request)].status,
                             "QUEUED_PAID")
     \/ Clash(w, NoPayment, WalletPayment(w)) # {}
  /\ Raise(w)

----------------------------------------------------------------------------
(* transition() called by the serializer's enqueue_request and by the admin *)
(* actions of StoryRequestAdmin: one locked row, one statement, except that *)
(* starting work also consumes the attached payment.                        *)

StartsWork(request, target) ==
  target = "IN_PROGRESS" /\ request.payment # NoPayment

Move(w, r, target) ==
  LET x == RequestRow(r) IN
  /\ pc[w] = "idle"
  /\ TransitionAllowed(work[x].status, target)
  /\ ~ StartsWork(work[x], target)
  /\ Return(w, Put(x, Moved(work[x], target)))

Enqueue(w) ==
  /\ "enqueue" \in Events
  /\ \E r \in Requests : Move(w, r, FirstQueue(Plan[r]))

StaffTargets == {"IN_PROGRESS", "REVIEW_PENDING", "READY_FOR_USER", "CANCELED"}

StaffMove(w) ==
  /\ "staff" \in Events
  /\ \E r \in Requests, target \in StaffTargets : Move(w, r, target)

StaffStartWork(w) ==
  /\ "staff" \in Events
  /\ pc[w] = "idle"
  /\ \E r \in Requests :
       LET x == RequestRow(r) IN
       /\ StartsWork(work[x], "IN_PROGRESS")
       /\ TransitionAllowed(work[x].status, "IN_PROGRESS")
       /\ Write(w, Put(x, Moved(work[x], "IN_PROGRESS")))
       /\ pc' = [pc EXCEPT ![w] = "consume"]
       /\ job' = [job EXCEPT ![w] = [NoJob EXCEPT
                                       !.request = r,
                                       !.payment = work[x].payment]]

(* mark_consumed(locked.payment): the row is read without a lock, and       *)
(* written, so locked, only if it is not consumed yet.                      *)
Consume(w) ==
  LET x == PaymentRow(job[w].payment) IN
  /\ pc[w] = "consume"
  /\ \/ Seen(w, x).consumed /\ Return(w, NoWrites)
     \/ /\ ~ Seen(w, x).consumed
        /\ Return(w, Put(x, [work[x] EXCEPT !.consumed = TRUE]))

(* PUT and PATCH of StoryRequestViewSet: every serializer field is read     *)
(* only, so the handler reads the row and saves all its columns back.  The  *)
(* status log is a table of its own and is not touched.                     *)
UpdateBegin(w) ==
  /\ "update" \in Events
  /\ \E r \in Requests :
       /\ Len(db[RequestRow(r)].log) <= MaxLog
       /\ Start(w, "update_save", [NoJob EXCEPT !.request = r,
                                                !.image = db[RequestRow(r)]])

UpdateSave(w) ==
  LET x == RequestRow(job[w].request) IN
  /\ pc[w] = "update_save"
  /\ Return(w, Put(x, [work[x] EXCEPT !.status = job[w].image.status,
                                      !.payment = job[w].image.payment]))

----------------------------------------------------------------------------
(* Waiting, deadlocks and failures.                                         *)

(* The row the next statement of a handler has to own.                      *)
Wanted(w) ==
  CASE pc[w] = "init_key" -> {x \in {KeyRow(job[w].key)} : db[x] # NoPayment}
    [] pc[w] = "init_bind" -> {KeyRow(job[w].key)}
    [] pc[w] \in {"init_attach", "transition", "wallet_request",
                  "update_save"} -> {RequestRow(job[w].request)}
    [] pc[w] = "mark_paid" -> {x \in {RequestRow(job[w].request)} :
                                 ~ Attached(w)}
    [] pc[w] \in {"lock_payment", "apply"} -> {PaymentRow(job[w].payment)}
    [] pc[w] = "consume" -> {x \in {PaymentRow(job[w].payment)} :
                               ~ Seen(w, x).consumed}
    [] pc[w] = "credit" -> {x \in {UserWallet(w)} :
                              ~ Credited(w) /\ Coins(w) # {} /\ db[x].open}
    [] pc[w] = "create_wallet" -> {UserWallet(w)}
    [] pc[w] = "wallet_debit" -> {x \in {UserWallet(w)} : db[x].open}
    [] OTHER -> {}

(* A waiting insert or update of a unique value waits for a row as well.    *)
WaitsFor(w) ==
  ({owner[x] : x \in Wanted(w)} \ {w, None})
  \cup (IF pc[w] = "apply" /\ job[w].ok
        THEN IndexWait(w, job[w].payment, Successful(w))
        ELSE IF pc[w] = "wallet_pay"
        THEN IndexWait(w, NoPayment, WalletPayment(w)) ELSE {})

Deadlocked(w) == InRing(w, [v \in Workers |-> WaitsFor(v)])

(* PostgreSQL fails the waiting statement of one worker in a ring.  Inside  *)
(* mark_consumed that is a savepoint, and transition() swallows the error:  *)
(* the request moves on and its payment is not consumed.                    *)
DeadlockVictim(w) ==
  /\ Deadlocked(w)
  /\ \/ pc[w] = "consume" /\ Return(w, NoWrites)
     \/ pc[w] # "consume" /\ Raise(w)

(* Mutant: without transaction.atomic, what was written stays.              *)
CrashCommitting(w) ==
  /\ "crash" \in Events
  /\ pc[w] # "idle"
  /\ Return(w, NoWrites)

(* A process or a connection that dies, a provider that raises, a client    *)
(* that is cut off: the transaction is rolled back between two statements.  *)
Crash(w) ==
  /\ "crash" \in Events
  /\ pc[w] # "idle"
  /\ Raise(w)

----------------------------------------------------------------------------
(* The specification.                                                       *)

Init ==
  /\ \E wallets \in [Users -> {NoWallet} \cup
                               {WalletWith(b) : b \in OpeningBalances}] :
       db = [x \in Rows |-> CASE x[1] = "payment" -> AbsentPayment
                              [] x[1] = "request" -> NewRequest
                              [] x[1] = "wallet" -> wallets[x[2]]
                              [] x[1] = "key" -> NoPayment]
  /\ work = db
  /\ owner = [x \in Rows |-> None]
  /\ pc = [w \in Workers |-> "idle"]
  /\ job = [w \in Workers |-> NoJob]

(* The next statement of a handler under way.                               *)
Statement(w) ==
  \/ InitLockKey(w) \/ InitRefused(w) \/ InitInsert(w) \/ InitBindKey(w)
  \/ InitKeyTaken(w) \/ InitAttach(w) \/ InitProvider(w)
  \/ LockPayment(w) \/ RefuseSku(w) \/ ApplyFail(w) \/ ApplySuccess(w)
  \/ ApplyClash(w) \/ MarkPaid(w) \/ PaidTransition(w)
  \/ PaidTransitionRefused(w) \/ CreditNothing(w) \/ Credit(w)
  \/ CreditNoWallet(w) \/ CreateWallet(w)
  \/ WalletRequest(w) \/ WalletDebit(w) \/ WalletPay(w) \/ WalletPayRefused(w)
  \/ Consume(w) \/ UpdateSave(w)

(* A request arrives at an idle worker.                                     *)
Arrival(w) ==
  \/ InitBegin(w) \/ CallbackBegin(w) \/ VerifyBegin(w) \/ WalletBegin(w)
  \/ AdminMarkSuccess(w) \/ AdminMarkFailed(w) \/ AdminMarkConsumed(w)
  \/ Enqueue(w) \/ StaffMove(w) \/ StaffStartWork(w) \/ UpdateBegin(w)

Next == \E w \in Workers :
          Arrival(w) \/ Statement(w) \/ DeadlockVictim(w) \/ Crash(w)

Spec == Init /\ [][Next]_vars

(* Lock queues are first come, first served, so a statement that can go on  *)
(* again and again does; a ring is broken after deadlock_timeout.           *)
Fairness == /\ \A w \in Workers : SF_vars(Statement(w))
            /\ WF_vars(\E w \in Workers : DeadlockVictim(w))

FairSpec == Spec /\ Fairness
====
