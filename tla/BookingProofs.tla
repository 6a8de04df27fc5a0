---- MODULE BookingProofs ----
(***************************************************************************)
(* Proofs about Billing: what the entries of a wallet stand for.            *)
(***************************************************************************)
EXTENDS BillingProofs

(* What every value of a row satisfies besides its type: a payment there is *)
(* has an intent, the wallet's pays no gateway's amount, and a request is   *)
(* in the paid queue, or beyond it, only when its log says so.              *)
RowGood(x, value) ==
  /\ x[1] = "payment" =>
       /\ Exists(value) => value.intent \in Intents
       /\ value.provider = "wallet" => value.amount = 0
  /\ x[1] = "request" =>
       /\ value.status = "QUEUED_PAID" => PaidInLog(value)
       /\ "update" \notin Events /\ PaidInLog(value)
            => value.status \notin PayableStatuses
  /\ x[1] = "wallet" => (~ value.open => value.entries = <<>>)

(* What the writes of a row leave alone.                                    *)
RowFits(x, old, new) ==
  /\ x[1] = "payment" /\ Exists(old) =>
       /\ Exists(new)
       /\ new.intent = old.intent /\ new.provider = old.provider
       /\ new.amount = old.amount
  /\ x[1] = "request" /\ PaidInLog(old) => PaidInLog(new)

(* Good rows in both images, of which the uncommitted one is the later; a   *)
(* wallet is written only by the commit.                                    *)
RowsGood ==
  /\ \A x \in Rows : /\ RowGood(x, db[x]) /\ RowGood(x, work[x])
                     /\ RowFits(x, db[x], work[x])
  /\ \A u \in Users : work[WalletRow(u)] = db[WalletRow(u)]

(* The request a payment is for.                                            *)
RequestOf(table, p) == RequestRow(Resolve[table[PaymentRow(p)].intent])

(* An entry stands for a payment whose request went through the paid queue; *)
(* an entry that adds nothing, for a payment by wallet.                     *)
EntryOk(table, entry) ==
  /\ Exists(table[PaymentRow(entry.payment)])
  /\ PaidInLog(table[RequestOf(table, entry.payment)])
  /\ entry.coins <= 0 => table[PaymentRow(entry.payment)].provider = "wallet"

(* The entries of one wallet: each is good, no payment has two, and where   *)
(* no update runs no request is charged twice.                              *)
BookOk(table, entries) ==
  /\ \A n \in DOMAIN entries : EntryOk(table, entries[n])
  /\ \A m, n \in DOMAIN entries :
       entries[m].payment = entries[n].payment => m = n
  /\ "update" \notin Events =>
       \A m, n \in DOMAIN entries :
         (/\ entries[m].coins < 0 /\ entries[n].coins < 0
          /\ RequestOf(table, entries[m].payment)
               = RequestOf(table, entries[n].payment))
         => m = n

BooksOk == \A u \in Users : BookOk(db, db[WalletRow(u)].entries)

InsertSteps == {"init_bind", "init_attach", "init_provider"}

ApplySteps == {"lock_payment", "apply", "mark_paid", "transition", "credit",
               "create_wallet"}

WalletSteps == {"wallet_request", "wallet_debit", "wallet_pay"}

(* What a handler on its way to an entry knows of its payment and request.  *)
BookJob(w) ==
  LET p == PaymentRow(job[w].payment)
      r == RequestRow(job[w].request)
  IN /\ pc[w] \in {"init_key", "init_insert"} => job[w].provider \in Gateways
     /\ pc[w] \in InsertSteps => owner[p] = w /\ Exists(work[p])
     /\ pc[w] \in ApplySteps =>
          Exists(db[p]) /\ Resolve[db[p].intent] = job[w].request
     /\ pc[w] \in {"credit", "create_wallet"} =>
          owner[r] = w /\ PaidInLog(work[r])
     /\ pc[w] \in WalletSteps => Resolve[job[w].intent] = job[w].request
     /\ pc[w] \in {"wallet_debit", "wallet_pay"} =>
          /\ owner[r] = w /\ work[r].status \in PayableStatuses
          /\ CoinPrice[job[w].request] > 0
     /\ pc[w] = "update_save" /\ job[w].image.status = "QUEUED_PAID" =>
          PaidInLog(db[r])

BInv == RowsGood /\ BooksOk /\ \A w \in Workers : BookJob(w)

(* Committed rows only grow.                                                *)
Grows == \A x \in Rows : RowFits(x, db[x], db'[x])

WalletsStay == \A u \in Users : db'[WalletRow(u)] = db[WalletRow(u)]

----------------------------------------------------------------------------
(* Rows and transactions.                                                   *)

(* What a value has to be like for a statement of worker w to write it.     *)
ValueOk(x, value) == /\ RowGood(x, value)
                     /\ RowFits(x, db[x], value)
                     /\ x[1] # "wallet" \/ value = work[x]

(* A row that is not written fits.                                          *)
LEMMA FitsItself == \A x, value : RowFits(x, value, value)
BY DEF RowFits

(* The wallet of a user is a row.                                           *)
LEMMA UserRows == \A u \in Users : WalletRow(u) \in Rows /\ WalletRow(u)[1] = "wallet"
BY DEF WalletRow, Rows

(* A statement that writes, or locks, one row.                              *)
LEMMA PutGood ==
  ASSUME NEW w \in Workers, NEW x, NEW value, RowsGood,
         x \in Rows => ValueOk(x, value), Write(w, Put(x, value))
  PROVE  RowsGood' /\ Grows /\ WalletsStay
<1>1. work' = [y \in Rows |-> IF y = x THEN value ELSE work[y]]
  BY DEF Write, Overlay, Put
<1>2. db' = db
  BY DEF Write
<1>3. \A y \in Rows : RowGood(y, work'[y]) /\ RowFits(y, db[y], work'[y])
  BY <1>1 DEF RowsGood, ValueOk
<1>4. \A u \in Users : work'[WalletRow(u)] = db[WalletRow(u)]
  BY <1>1, UserRows DEF RowsGood, ValueOk
<1> QED
  BY <1>2, <1>3, <1>4, FitsItself DEF RowsGood, Grows, WalletsStay

(* A statement that locks one row.                                          *)
LEMMA LockGood ==
  ASSUME NEW w \in Workers, NEW x, RowsGood, LockRow(w, x)
  PROVE  RowsGood' /\ Grows /\ WalletsStay
<1>1. Write(w, Put(x, work[x]))
  BY DEF LockRow, Put
<1>2. x \in Rows => ValueOk(x, work[x])
  BY DEF RowsGood, ValueOk
<1> QED
  BY <1>1, <1>2, PutGood

(* A commit, of the wallets too.                                            *)
LEMMA CommitGood ==
  ASSUME NEW w \in Workers, NEW change, RowsGood,
         \A x \in Rows \cap DOMAIN change :
           RowGood(x, change[x]) /\ RowFits(x, db[x], change[x]),
         Commit(w, change)
  PROVE  /\ RowsGood' /\ Grows
         /\ \A x \in Rows : /\ x \in DOMAIN change => db'[x] = change[x]
                            /\ x \notin DOMAIN change /\ owner[x] = w
                                 => db'[x] = work[x]
                            /\ x \notin DOMAIN change /\ owner[x] # w
                                 => db'[x] = db[x]
<1> DEFINE new(x) == IF x \in DOMAIN change THEN change[x] ELSE work[x]
<1>1. \A x \in Rows : /\ work'[x] = new(x)
                      /\ db'[x] = IF x \in DOMAIN change \/ owner[x] = w
                                  THEN new(x) ELSE db[x]
  BY DEF Commit, Overlay
<1>2. \A x \in Rows : RowGood(x, new(x)) /\ RowFits(x, db[x], new(x))
  BY DEF RowsGood
<1> HIDE DEF new
<1>3. \A x \in Rows : /\ RowGood(x, db'[x]) /\ RowGood(x, work'[x])
                      /\ RowFits(x, db'[x], work'[x])
                      /\ RowFits(x, db[x], db'[x])
  BY <1>1, <1>2, FitsItself DEF RowsGood
<1>4. \A u \in Users : work'[WalletRow(u)] = db'[WalletRow(u)]
  BY <1>1, UserRows DEF RowsGood, new
<1>5. RowsGood' /\ Grows
  BY <1>3, <1>4 DEF RowsGood, Grows
<1> QED
  BY <1>1, <1>5 DEF new

(* A commit that books nothing.                                             *)
LEMMA CommitStays ==
  ASSUME NEW w \in Workers, NEW change, RowsGood,
         \A x \in Rows \cap DOMAIN change : ValueOk(x, change[x]),
         Commit(w, change)
  PROVE  RowsGood' /\ Grows /\ WalletsStay
<1>1. /\ RowsGood' /\ Grows
      /\ \A x \in Rows : /\ x \in DOMAIN change => db'[x] = change[x]
                         /\ x \notin DOMAIN change /\ owner[x] = w
                              => db'[x] = work[x]
                         /\ x \notin DOMAIN change /\ owner[x] # w
                              => db'[x] = db[x]
  BY CommitGood DEF ValueOk
<1>2. \A u \in Users : WalletRow(u) \in DOMAIN change
                         => change[WalletRow(u)] = db[WalletRow(u)]
  BY UserRows DEF ValueOk, RowsGood
<1>3. WalletsStay
  BY <1>1, <1>2, UserRows DEF WalletsStay, RowsGood
<1> QED
  BY <1>1, <1>3

(* A transaction that is rolled back.                                       *)
LEMMA RollbackGood ==
  ASSUME NEW w \in Workers, RowsGood, Rollback(w)
  PROVE  RowsGood' /\ Grows /\ WalletsStay
<1>1. db' = db /\ \A x \in Rows : work'[x] \in {work[x], db[x]}
  BY DEF Rollback
<1>2. \A x \in Rows : RowGood(x, work'[x]) /\ RowFits(x, db[x], work'[x])
  BY <1>1, FitsItself DEF RowsGood
<1>3. \A u \in Users : work'[WalletRow(u)] = db[WalletRow(u)]
  BY <1>1, UserRows DEF RowsGood
<1> QED
  BY <1>1, <1>2, <1>3, FitsItself DEF RowsGood, Grows, WalletsStay

(* A step that leaves the database alone.                                   *)
LEMMA UnchangedGood ==
  ASSUME RowsGood, UNCHANGED <<db, work>>
  PROVE  RowsGood' /\ Grows /\ WalletsStay
BY FitsItself DEF RowsGood, Grows, WalletsStay

----------------------------------------------------------------------------
(* The books.                                                               *)

(* The rows of a payment that exists and of its request.                    *)
LEMMA EntryRows ==
  ASSUME RowsGood, NEW p \in PaymentId, Exists(db[PaymentRow(p)])
  PROVE  /\ PaymentRow(p) \in Rows /\ PaymentRow(p)[1] = "payment"
         /\ RequestOf(db, p) \in Rows /\ RequestOf(db, p)[1] = "request"
<1>1. PaymentRow(p) \in Rows /\ PaymentRow(p)[1] = "payment"
  BY DEF PaymentRow, Rows
<1>2. Resolve[db[PaymentRow(p)].intent] \in Requests
  BY <1>1, ConstantsOk DEF RowsGood, RowGood
<1> QED
  BY <1>1, <1>2 DEF RequestOf, RequestRow, Rows

(* A good entry stays good.                                                 *)
LEMMA EntryStays ==
  ASSUME RowsGood, Grows, NEW entry \in Entries, EntryOk(db, entry)
  PROVE  /\ EntryOk(db', entry)
         /\ RequestOf(db', entry.payment) = RequestOf(db, entry.payment)
<1> DEFINE p == entry.payment
<1>1. p \in PaymentId /\ Exists(db[PaymentRow(p)])
  BY DEF Entries, EntryOk
<1>2. /\ Exists(db'[PaymentRow(p)])
      /\ db'[PaymentRow(p)].provider = db[PaymentRow(p)].provider
      /\ db'[PaymentRow(p)].intent = db[PaymentRow(p)].intent
  BY <1>1, EntryRows DEF Grows, RowFits
<1>3. RequestOf(db', p) = RequestOf(db, p)
  BY <1>2 DEF RequestOf
<1>4. PaidInLog(db'[RequestOf(db, p)])
  BY <1>1, EntryRows DEF EntryOk, Grows, RowFits
<1> QED
  BY <1>2, <1>3, <1>4 DEF EntryOk

(* The entries of a wallet are for payments.                                *)
LEMMA EntryTypes ==
  ASSUME IInv, NEW u \in Users
  PROVE  /\ db[WalletRow(u)] \in WalletRecord
         /\ db[WalletRow(u)].entries \in Seq(Entries)
<1>1. db[WalletRow(u)] \in WalletRecord
  BY UserRows, KnownRow DEF RowOk
<1> QED
  BY <1>1 DEF WalletRecord

(* The book of a wallet that is not written.                                *)
LEMMA BookStays ==
  ASSUME RowsGood, Grows, NEW entries \in Seq(Entries), BookOk(db, entries)
  PROVE  BookOk(db', entries)
<1>1. \A n \in DOMAIN entries : entries[n] \in Entries
  OBVIOUS
<1>2. \A n \in DOMAIN entries :
        /\ EntryOk(db', entries[n])
        /\ RequestOf(db', entries[n].payment) = RequestOf(db, entries[n].payment)
  BY <1>1, EntryStays DEF BookOk
<1> QED
  BY <1>2 DEF BookOk

(* One entry more is in order when it is a good one, the first one of its   *)
(* payment, and, if it is a charge, of a request nobody was charged for.    *)
LEMMA BookGrows ==
  ASSUME RowsGood, Grows, NEW entries \in Seq(Entries), BookOk(db, entries),
         NEW entry \in Entries, EntryOk(db', entry),
         \A n \in DOMAIN entries : entries[n].payment # entry.payment,
         "update" \notin Events /\ entry.coins < 0 =>
           \A n \in DOMAIN entries :
             RequestOf(db, entries[n].payment) # RequestOf(db', entry.payment)
  PROVE  BookOk(db', Append(entries, entry))
<1> DEFINE new == Append(entries, entry)
           last == Len(entries) + 1
<1>1. BookOk(db', entries)
  BY BookStays
<1>2. /\ DOMAIN new = DOMAIN entries \cup {last} /\ last \notin DOMAIN entries
      /\ new[last] = entry
      /\ \A n \in DOMAIN entries : new[n] = entries[n]
  OBVIOUS
<1>3. "update" \notin Events /\ entry.coins < 0 =>
        \A n \in DOMAIN entries :
          RequestOf(db', entries[n].payment) # RequestOf(db', entry.payment)
  <2>1. \A n \in DOMAIN entries : entries[n] \in Entries
    OBVIOUS
  <2> QED
    BY <2>1, EntryStays DEF BookOk
<1> HIDE DEF new, last
<1>4. \A n \in DOMAIN new : EntryOk(db', new[n])
  BY <1>1, <1>2 DEF BookOk
<1>5. ASSUME NEW m \in DOMAIN new, NEW n \in DOMAIN new,
             new[m].payment = new[n].payment
      PROVE  m = n
  BY <1>1, <1>2, <1>5 DEF BookOk
<1>6. ASSUME "update" \notin Events,
             NEW m \in DOMAIN new, NEW n \in DOMAIN new,
             new[m].coins < 0, new[n].coins < 0,
             RequestOf(db', new[m].payment) = RequestOf(db', new[n].payment)
      PROVE  m = n
  BY <1>1, <1>2, <1>3, <1>6 DEF BookOk
<1>7. BookOk(db', new)
  BY <1>4, <1>5, <1>6 DEF BookOk
<1> QED
  BY <1>7 DEF new

(* Steps that book nothing leave the books in order.                        *)
LEMMA BooksStay ==
  ASSUME IInv, RowsGood, BooksOk, Grows, WalletsStay
  PROVE  BooksOk'
BY EntryTypes, BookStays DEF BooksOk, WalletsStay

(* So does a step that books one entry on one wallet.                       *)
LEMMA BooksGrow ==
  ASSUME IInv, RowsGood, BooksOk, Grows, NEW v \in Users,
         NEW coins \in Int, NEW p \in PaymentId,
         0 <= db[WalletRow(v)].balance + coins,
         \A u \in Users \ {v} : db'[WalletRow(u)] = db[WalletRow(u)],
         db'[WalletRow(v)] = Booked(db[WalletRow(v)], coins, p),
         \A n \in DOMAIN db[WalletRow(v)].entries :
           db[WalletRow(v)].entries[n].payment # p,
         Exists(db'[PaymentRow(p)]), PaidInLog(db'[RequestOf(db', p)]),
         coins <= 0 => db'[PaymentRow(p)].provider = "wallet",
         "update" \notin Events /\ coins < 0 =>
           \A n \in DOMAIN db[WalletRow(v)].entries :
             RequestOf(db, db[WalletRow(v)].entries[n].payment)
               # RequestOf(db', p)
  PROVE  BooksOk'
<1> DEFINE wallet == db[WalletRow(v)]
           entry == [coins |-> coins, after |-> wallet.balance + coins,
                     payment |-> p]
<1>1. wallet \in WalletRecord /\ wallet.entries \in Seq(Entries)
  BY EntryTypes
<1>2. entry \in Entries
  BY <1>1 DEF Entries, WalletRecord
<1>3. entry.payment = p /\ entry.coins = coins
  OBVIOUS
<1>4. db'[WalletRow(v)].entries = Append(wallet.entries, entry)
  BY <1>1 DEF Booked, WalletRecord
<1> HIDE DEF entry
<1>5. EntryOk(db', entry)
  BY <1>3 DEF EntryOk
<1>6. BookOk(db, wallet.entries)
  BY DEF BooksOk
<1>7. BookOk(db', db'[WalletRow(v)].entries)
  BY <1>1, <1>2, <1>3, <1>4, <1>5, <1>6, BookGrows
<1>8. ASSUME NEW u \in Users, u # v
      PROVE  BookOk(db', db'[WalletRow(u)].entries)
  BY <1>8, EntryTypes, BookStays DEF BooksOk
<1> QED
  BY <1>7, <1>8 DEF BooksOk

----------------------------------------------------------------------------
(* The values handlers write.                                               *)

(* A payment that is there keeps what it was created with.                  *)
LEMMA PaymentGood ==
  ASSUME IInv, RowsGood, NEW p \in PaymentId, Exists(work[PaymentRow(p)]),
         NEW status \in PaymentStatuses, NEW ref
  PROVE  /\ ValueOk(PaymentRow(p),
                    [work[PaymentRow(p)] EXCEPT !.status = status])
         /\ ValueOk(PaymentRow(p),
                    [work[PaymentRow(p)] EXCEPT !.status = status, !.ref = ref])
<1> DEFINE x == PaymentRow(p)
           old == work[x]
<1>1. x \in Rows /\ x[1] = "payment" /\ old \in PaymentRecord
  BY PaymentRows DEF PaymentRow
<1>2. RowGood(x, old) /\ RowFits(x, db[x], old)
  BY <1>1 DEF RowsGood
<1>3. status # "absent"
  BY DEF PaymentStatuses
<1> HIDE DEF x, old
<1>4. ASSUME NEW value,
             value.status = status, value.intent = old.intent,
             value.provider = old.provider, value.amount = old.amount
      PROVE  ValueOk(x, value)
  BY <1>1, <1>2, <1>3, <1>4 DEF ValueOk, RowGood, RowFits, Exists, x, old
<1>5. /\ [old EXCEPT !.status = status].status = status
      /\ [old EXCEPT !.status = status].intent = old.intent
      /\ [old EXCEPT !.status = status].provider = old.provider
      /\ [old EXCEPT !.status = status].amount = old.amount
  BY <1>1 DEF PaymentRecord
<1>6. /\ [old EXCEPT !.status = status, !.ref = ref].status = status
      /\ [old EXCEPT !.status = status, !.ref = ref].intent = old.intent
      /\ [old EXCEPT !.status = status, !.ref = ref].provider = old.provider
      /\ [old EXCEPT !.status = status, !.ref = ref].amount = old.amount
  BY <1>1 DEF PaymentRecord
<1>7. ValueOk(x, [old EXCEPT !.status = status])
  BY <1>4, <1>5
<1>8. ValueOk(x, [old EXCEPT !.status = status, !.ref = ref])
  BY <1>4, <1>6
<1> QED
  BY <1>7, <1>8 DEF x, old

(* So does one that is consumed.                                            *)
LEMMA ConsumedGood ==
  ASSUME IInv, RowsGood, NEW p \in PaymentId
  PROVE  ValueOk(PaymentRow(p), [work[PaymentRow(p)] EXCEPT !.consumed = TRUE])
<1> DEFINE x == PaymentRow(p)
           old == work[x]
           new == [old EXCEPT !.consumed = TRUE]
<1>1. x \in Rows /\ x[1] = "payment" /\ old \in PaymentRecord
  BY PaymentRows DEF PaymentRow
<1>2. RowGood(x, old) /\ RowFits(x, db[x], old)
  BY <1>1 DEF RowsGood
<1> HIDE DEF x, old
<1>3. /\ new.status = old.status /\ new.intent = old.intent
      /\ new.provider = old.provider /\ new.amount = old.amount
  BY <1>1 DEF PaymentRecord
<1> HIDE DEF new
<1>4. ValueOk(x, new)
  BY <1>1, <1>2, <1>3 DEF ValueOk, RowGood, RowFits, Exists
<1> QED
  BY <1>4 DEF x, old, new

(* What is asked of a request that is written.                              *)
LEMMA RequestGood ==
  ASSUME IInv, RowsGood, NEW r \in Requests, NEW value,
         PaidInLog(work[RequestRow(r)]) => PaidInLog(value),
         value.status = "QUEUED_PAID" => PaidInLog(value),
         "update" \notin Events /\ PaidInLog(value)
           => value.status \notin PayableStatuses
  PROVE  ValueOk(RequestRow(r), value)
<1>1. RequestRow(r) \in Rows /\ RequestRow(r)[1] = "request"
  BY DEF RequestRow, Rows
<1> QED
  BY <1>1 DEF ValueOk, RowsGood, RowGood, RowFits

(* What is known of the uncommitted value of a request.                     *)
LEMMA RequestKnown ==
  ASSUME RowsGood, NEW r \in Requests
  PROVE  /\ PaidInLog(db[RequestRow(r)]) => PaidInLog(work[RequestRow(r)])
         /\ work[RequestRow(r)].status = "QUEUED_PAID"
              => PaidInLog(work[RequestRow(r)])
         /\ "update" \notin Events /\ PaidInLog(work[RequestRow(r)])
              => work[RequestRow(r)].status \notin PayableStatuses
<1>1. RequestRow(r) \in Rows /\ RequestRow(r)[1] = "request"
  BY DEF RequestRow, Rows
<1> QED
  BY <1>1 DEF RowsGood, RowGood, RowFits

(* Another payment is attached.                                             *)
LEMMA AttachGood ==
  ASSUME IInv, RowsGood, NEW r \in Requests, NEW p
  PROVE  ValueOk(RequestRow(r), [work[RequestRow(r)] EXCEPT !.payment = p])
<1> DEFINE old == work[RequestRow(r)]
           new == [old EXCEPT !.payment = p]
<1>1. old \in RequestRecord
  BY RequestRows
<1> HIDE DEF old
<1>2. new.status = old.status /\ new.log = old.log
  BY <1>1 DEF RequestRecord
<1> HIDE DEF new
<1>3. ValueOk(RequestRow(r), new)
  BY <1>2, RequestGood, RequestKnown DEF PaidInLog, old
<1> QED
  BY <1>3 DEF new, old

(* A move logs the target.                                                  *)
LEMMA MovedPaid ==
  ASSUME NEW request \in RequestRecord, NEW target \in Statuses
  PROVE  /\ Moved(request, target).status = target
         /\ PaidInLog(Moved(request, target))
              <=> PaidInLog(request) \/ target = "QUEUED_PAID"
<1> DEFINE old == request.log
           new == Moved(request, target).log
           move == <<request.status, target>>
<1>1. old \in Seq(Statuses \X Statuses) /\ move \in Statuses \X Statuses
  BY DEF RequestRecord
<1>2. new = Append(old, move) /\ Moved(request, target).status = target
  BY DEF Moved, RequestRecord
<1> HIDE DEF old, new
<1>3. /\ DOMAIN new = DOMAIN old \cup {Len(old) + 1}
      /\ Len(old) + 1 \notin DOMAIN old
      /\ new[Len(old) + 1] = move
      /\ \A n \in DOMAIN old : new[n] = old[n]
  BY <1>1, <1>2
<1>4. move[2] = target
  OBVIOUS
<1> HIDE DEF move
<1>5. (\E n \in DOMAIN new : new[n][2] = "QUEUED_PAID")
        <=> (\E n \in DOMAIN old : old[n][2] = "QUEUED_PAID")
            \/ target = "QUEUED_PAID"
  BY <1>3, <1>4
<1> QED
  BY <1>2, <1>5 DEF PaidInLog, old, new

(* No move of the table leads back to a status that can be paid.            *)
LEMMA NeverPayableAgain ==
  ASSUME NEW current, NEW target, TransitionAllowed(current, target)
  PROVE  /\ current \notin PayableStatuses => target \notin PayableStatuses
         /\ "QUEUED_PAID" \notin PayableStatuses
BY DEF TransitionAllowed, TransitionRules, PayableStatuses

(* A request moved along the table.                                         *)
LEMMA MovedGood ==
  ASSUME IInv, RowsGood, NEW r \in Requests, NEW target \in Statuses,
         TransitionAllowed(work[RequestRow(r)].status, target)
  PROVE  ValueOk(RequestRow(r), Moved(work[RequestRow(r)], target))
<1>1. work[RequestRow(r)] \in RequestRecord
  BY RequestRows
<1> QED
  BY <1>1, RequestKnown, MovedPaid, NeverPayableAgain, RequestGood

(* A request moved to the paid queue, with its payment attached or not.     *)
LEMMA QueuedGood ==
  ASSUME IInv, RowsGood, NEW r \in Requests, NEW request \in RequestRecord,
         request.status = work[RequestRow(r)].status,
         request.log = work[RequestRow(r)].log,
         TransitionAccepted(request.status, "QUEUED_PAID")
  PROVE  /\ ValueOk(RequestRow(r), Transitioned(request, "QUEUED_PAID"))
         /\ PaidInLog(Transitioned(request, "QUEUED_PAID"))
<1>1. "QUEUED_PAID" \in Statuses /\ "QUEUED_PAID" \notin PayableStatuses
  BY DEF Statuses, PayableStatuses
<1>2. PaidInLog(request) <=> PaidInLog(work[RequestRow(r)])
  BY DEF PaidInLog
<1>3. CASE request.status = "QUEUED_PAID"
  <2>1. Transitioned(request, "QUEUED_PAID") = request
    BY <1>3 DEF Transitioned
  <2> QED
    BY <1>1, <1>2, <1>3, <2>1, RequestKnown, RequestGood
<1>4. CASE request.status # "QUEUED_PAID"
  <2>1. Transitioned(request, "QUEUED_PAID") = Moved(request, "QUEUED_PAID")
    BY <1>4 DEF Transitioned
  <2> QED
    BY <1>1, <2>1, MovedPaid, RequestGood
<1> QED
  BY <1>3, <1>4

----------------------------------------------------------------------------
(* Handlers that book nothing.                                              *)

DataStep == RowsGood' /\ Grows /\ BooksOk'

(* What a step of worker w has to establish.                                *)
BookStep(w) == DataStep /\ BookJob(w)'

USE DEF DataStep

(* A handler that ends.                                                     *)
LEMMA IdleBook ==
  ASSUME NEW w \in Workers, IInv, End(w)
  PROVE  BookJob(w)'
<1>1. pc'[w] = "idle"
  BY DEF IInv, End
<1> QED
  BY <1>1 DEF BookJob, InsertSteps, ApplySteps, WalletSteps

(* A handler that raises.                                                   *)
LEMMA RaiseBook ==
  ASSUME NEW w \in Workers, IInv, BInv, Raise(w)
  PROVE  BookStep(w)
BY RollbackGood, BooksStay, IdleBook DEF Raise, BInv, BookStep

(* A handler that commits one more row, not a wallet, and returns.          *)
LEMMA ReturnBook ==
  ASSUME NEW w \in Workers, NEW x, NEW value, IInv, BInv,
         x \in Rows => ValueOk(x, value), Return(w, Put(x, value))
  PROVE  BookStep(w)
<1>1. \A y \in Rows \cap DOMAIN Put(x, value) : ValueOk(y, Put(x, value)[y])
  BY DEF Put
<1>2. DataStep
  BY <1>1, CommitStays, BooksStay DEF Return, BInv
<1> QED
  BY <1>2, IdleBook DEF Return, BookStep

(* A handler that commits what it wrote earlier and returns.                *)
LEMMA ReturnNothingBook ==
  ASSUME NEW w \in Workers, IInv, BInv, Return(w, NoWrites)
  PROVE  BookStep(w)
<1>1. DOMAIN NoWrites = {}
  BY DEF NoWrites
<1>2. DataStep
  BY <1>1, CommitStays, BooksStay DEF Return, BInv
<1> QED
  BY <1>2, IdleBook DEF Return, BookStep

(* A statement that writes a row and leaves the handler under way.          *)
LEMMA WriteData ==
  ASSUME NEW w \in Workers, NEW x, NEW value, IInv, BInv,
         x \in Rows => ValueOk(x, value), Write(w, Put(x, value))
  PROVE  DataStep
BY PutGood, BooksStay DEF BInv

(* A statement that locks a row,                                            *)
LEMMA LockData ==
  ASSUME NEW w \in Workers, NEW x, IInv, BInv, LockRow(w, x)
  PROVE  DataStep
BY LockGood, BooksStay DEF BInv

(* or one that touches none.                                                *)
LEMMA SameData ==
  ASSUME IInv, BInv, UNCHANGED <<db, work>>
  PROVE  DataStep
BY UnchangedGood, BooksStay DEF BInv

(* What a statement does to the rows its worker owns.                       *)
LEMMA PutOwned ==
  ASSUME NEW w \in Workers, NEW x, NEW value, Write(w, Put(x, value)),
         NEW y \in Rows
  PROVE  /\ y = x => owner'[y] = w /\ work'[y] = value
         /\ y # x => owner'[y] = owner[y] /\ work'[y] = work[y]
BY DEF Write, Put, Overlay

(* A lock changes no value.                                                 *)
LEMMA LockOwned ==
  ASSUME NEW w \in Workers, NEW x, LockRow(w, x), NEW y \in Rows
  PROVE  /\ y = x => owner'[y] = w
         /\ y # x => owner'[y] = owner[y]
         /\ work'[y] = work[y]
BY DEF LockRow, Write, Overlay

(* The payment and the request of a handler are rows.                       *)
LEMMA HandlerRows ==
  ASSUME NEW w \in Workers, IInv
  PROVE  /\ pc[w] # "idle" => /\ job[w].request \in Requests
                              /\ RequestRow(job[w].request) \in Rows
         /\ pc[w] \in PaymentSteps => /\ job[w].payment \in PaymentId
                                      /\ PaymentRow(job[w].payment) \in Rows
BY DEF IInv, JobOk, RequestRow, PaymentRow, Rows

(* The groups of steps, and the idle worker in none of them.                *)
LEMMA StepsDiffer ==
  /\ InsertSteps \subseteq PaymentSteps /\ ApplySteps \subseteq PaymentSteps
  /\ "idle" \notin PaymentSteps /\ "idle" \notin WalletSteps
BY DEF InsertSteps, ApplySteps, PaymentSteps, WalletSteps

(* A payment there is, as an entry point of apply_success finds it.         *)
LEMMA ApplyBegins ==
  ASSUME NEW w \in Workers, NEW step \in {"lock_payment", "apply"}, NEW args,
         IInv, BInv, NEW i \in Intents, NEW p \in PaymentId,
         Start(w, step, args), args.payment = p, args.request = Resolve[i],
         Exists(db[PaymentRow(p)]), db[PaymentRow(p)].intent = i
  PROVE  BookStep(w)
<1>1. pc'[w] = step /\ job'[w] = args /\ UNCHANGED <<db, work>>
  BY DEF IInv, Start
<1>2. DataStep
  BY <1>1, SameData
<1>3. BookJob(w)'
  BY <1>1 DEF BookJob, InsertSteps, ApplySteps, WalletSteps
<1> QED
  BY <1>2, <1>3 DEF BookStep

(* Every request that arrives.                                              *)
LEMMA ArrivalBook ==
  ASSUME NEW w \in Workers, IInv, BInv, Arrival(w)
  PROVE  BookStep(w)
<1>1. CASE InitBegin(w)
  <2>1. PICK i \in Intents, g \in Gateways, a \in Amounts,
             k \in Keys \cup {None} :
          Start(w, IF k = None THEN "init_insert" ELSE "init_key",
                [NoJob EXCEPT !.intent = i, !.request = Resolve[i],
                              !.provider = g, !.amount = a, !.key = k])
    BY <1>1 DEF InitBegin
  <2>2. /\ pc'[w] \in {"init_insert", "init_key"}
        /\ job'[w].provider = g /\ UNCHANGED <<db, work>>
    BY <2>1 DEF IInv, Start, NoJob
  <2>3. BookJob(w)'
    BY <2>2 DEF BookJob, InsertSteps, ApplySteps, WalletSteps
  <2> QED
    BY <2>2, <2>3, SameData DEF BookStep
<1>2. CASE CallbackBegin(w)
  <2>1. PICK i \in Intents, ok \in BOOLEAN, ref \in Refs \cup {None},
             p \in PaymentId :
          /\ p \in Latest(i, "iran_gw")
          /\ Start(w, "lock_payment",
                [NoJob EXCEPT !.intent = i, !.request = Resolve[i],
                              !.payment = p, !.ok = ok, !.ref = ref])
    BY <1>2, LatestPayments DEF CallbackBegin
  <2>2. Exists(db[PaymentRow(p)]) /\ db[PaymentRow(p)].intent = i
    BY <2>1 DEF Latest
  <2>3. /\ [NoJob EXCEPT !.intent = i, !.request = Resolve[i],
                         !.payment = p, !.ok = ok, !.ref = ref].payment = p
        /\ [NoJob EXCEPT !.intent = i, !.request = Resolve[i],
                         !.payment = p, !.ok = ok, !.ref = ref].request
             = Resolve[i]
    BY DEF NoJob
  <2> QED
    BY <2>1, <2>2, <2>3, ApplyBegins
<1>3. CASE VerifyBegin(w)
  <2>1. PICK i \in Intents, ok \in BOOLEAN, sku \in BOOLEAN,
             ref \in Refs \cup {None}, p \in PaymentId :
          /\ p \in Latest(i, "bazaar_iap")
          /\ Start(w, "lock_payment",
                [NoJob EXCEPT !.intent = i, !.request = Resolve[i],
                              !.payment = p, !.ok = ok, !.ref = ref,
                              !.sku = sku])
    BY <1>3, LatestPayments DEF VerifyBegin
  <2>2. Exists(db[PaymentRow(p)]) /\ db[PaymentRow(p)].intent = i
    BY <2>1 DEF Latest
  <2>3. /\ [NoJob EXCEPT !.intent = i, !.request = Resolve[i],
                         !.payment = p, !.ok = ok, !.ref = ref,
                         !.sku = sku].payment = p
        /\ [NoJob EXCEPT !.intent = i, !.request = Resolve[i],
                         !.payment = p, !.ok = ok, !.ref = ref,
                         !.sku = sku].request = Resolve[i]
    BY DEF NoJob
  <2> QED
    BY <2>1, <2>2, <2>3, ApplyBegins
<1>4. CASE WalletBegin(w)
  <2>1. PICK i \in Intents :
          Start(w, "wallet_request",
                [NoJob EXCEPT !.intent = i, !.request = Resolve[i]])
    BY <1>4 DEF WalletBegin
  <2>2. /\ pc'[w] = "wallet_request" /\ job'[w].intent = i
        /\ job'[w].request = Resolve[i] /\ UNCHANGED <<db, work>>
    BY <2>1 DEF IInv, Start, NoJob
  <2>3. BookJob(w)'
    BY <2>2 DEF BookJob, InsertSteps, ApplySteps, WalletSteps
  <2> QED
    BY <2>2, <2>3, SameData DEF BookStep
<1>5. CASE AdminMarkSuccess(w)
  <2>1. PICK p \in PaymentId, i \in Intents :
          /\ Exists(db[PaymentRow(p)]) /\ db[PaymentRow(p)].intent = i
          /\ Start(w, "apply",
                [NoJob EXCEPT !.intent = i, !.request = Resolve[i],
                              !.payment = p,
                              !.ref = IF db[PaymentRow(p)].ref \in {None, ""}
                                      THEN "MANUAL" ELSE db[PaymentRow(p)].ref])
    BY <1>5 DEF AdminMarkSuccess
  <2> DEFINE ref == IF db[PaymentRow(p)].ref \in {None, ""} THEN "MANUAL"
                    ELSE db[PaymentRow(p)].ref
  <2>2. /\ [NoJob EXCEPT !.intent = i, !.request = Resolve[i],
                         !.payment = p, !.ref = ref].payment = p
        /\ [NoJob EXCEPT !.intent = i, !.request = Resolve[i],
                         !.payment = p, !.ref = ref].request = Resolve[i]
    BY DEF NoJob
  <2> QED
    BY <2>1, <2>2, ApplyBegins
<1>6. CASE AdminMarkFailed(w)
  <2>1. PICK p \in PaymentId :
          /\ Exists(db[PaymentRow(p)])
          /\ Return(w, Put(PaymentRow(p),
                           [work[PaymentRow(p)] EXCEPT !.status = "failed"]))
    BY <1>6 DEF AdminMarkFailed
  <2>2. Exists(work[PaymentRow(p)])
    <3>1. PaymentRow(p) \in Rows /\ PaymentRow(p)[1] = "payment"
      BY DEF PaymentRow, Rows
    <3> QED
      BY <2>1, <3>1 DEF BInv, RowsGood, RowFits
  <2>3. "failed" \in PaymentStatuses
    BY DEF PaymentStatuses
  <2> QED
    BY <2>1, <2>2, <2>3, PaymentGood, ReturnBook DEF BInv
<1>7. CASE AdminMarkConsumed(w)
  BY <1>7, ConsumedGood, ReturnBook DEF AdminMarkConsumed, BInv
<1>8. CASE Enqueue(w) \/ StaffMove(w)
  <2>1. PICK r \in Requests, target \in Statuses : Move(w, r, target)
    BY <1>8 DEF Enqueue, StaffMove, FirstQueue, StaffTargets, Statuses
  <2> QED
    BY <2>1, MovedGood, ReturnBook DEF Move, BInv
<1>9. CASE StaffStartWork(w)
  <2>1. PICK r \in Requests :
          /\ TransitionAllowed(work[RequestRow(r)].status, "IN_PROGRESS")
          /\ Write(w, Put(RequestRow(r),
                          Moved(work[RequestRow(r)], "IN_PROGRESS")))
          /\ pc' = [pc EXCEPT ![w] = "consume"]
    BY <1>9 DEF StaffStartWork
  <2>2. DataStep
    BY <2>1, MovedGood, WriteData DEF BInv, Statuses
  <2>3. pc'[w] = "consume"
    BY <2>1 DEF IInv
  <2> QED
    BY <2>2, <2>3 DEF BookStep, BookJob, InsertSteps, ApplySteps, WalletSteps
<1>10. CASE UpdateBegin(w)
  <2>1. PICK r \in Requests :
          Start(w, "update_save", [NoJob EXCEPT !.request = r,
                                                !.image = db[RequestRow(r)]])
    BY <1>10 DEF UpdateBegin
  <2>2. /\ pc'[w] = "update_save" /\ job'[w].request = r
        /\ job'[w].image = db[RequestRow(r)] /\ UNCHANGED <<db, work>>
    BY <2>1 DEF IInv, Start, NoJob
  <2>3. db[RequestRow(r)].status = "QUEUED_PAID" => PaidInLog(db[RequestRow(r)])
    BY RequestRows DEF BInv, RowsGood, RowGood, RequestRow
  <2>4. BookJob(w)'
    BY <2>2, <2>3 DEF BookJob, InsertSteps, ApplySteps, WalletSteps
  <2> QED
    BY <2>2, <2>4, SameData DEF BookStep
<1> QED
  BY <1>1, <1>2, <1>3, <1>4, <1>5, <1>6, <1>7, <1>8, <1>9, <1>10 DEF Arrival

(* create_payment after its first check.                                    *)
LEMMA InitBook ==
  ASSUME NEW w \in Workers, IInv, BInv,
         \/ InitLockKey(w) \/ InitRefused(w) \/ InitInsert(w)
         \/ InitBindKey(w) \/ InitKeyTaken(w) \/ InitAttach(w)
         \/ InitProvider(w)
  PROVE  BookStep(w)
<1> DEFINE p == PaymentRow(job[w].payment)
<1>1. BookJob(w) /\ job[w] \in Jobs
  BY DEF BInv, IInv
<1>2. CASE InitLockKey(w)
  <2>1. /\ pc[w] = "init_key" /\ pc'[w] = "init_insert"
        /\ job'[w].provider = job[w].provider
    BY <1>1, <1>2 DEF InitLockKey, Goto, IInv, Jobs
  <2>2. DataStep
    BY <1>2, SameData, LockData DEF InitLockKey
  <2>3. BookJob(w)'
    BY <1>1, <2>1 DEF BookJob, InsertSteps, ApplySteps, WalletSteps
  <2> QED
    BY <2>2, <2>3 DEF BookStep
<1>3. CASE InitRefused(w) \/ InitKeyTaken(w)
  BY <1>3, RaiseBook DEF InitRefused, InitKeyTaken
<1>4. CASE InitInsert(w)
  <2> DEFINE value == NewPayment(job[w].intent, job[w].provider,
                                 job[w].amount, "initiated")
  <2>1. PICK q \in NextPayment \cap PaymentId :
          /\ Write(w, Put(PaymentRow(q), value))
          /\ job' = [job EXCEPT ![w].payment = q]
          /\ pc' = [pc EXCEPT ![w] = IF job[w].key = None THEN "init_attach"
                                     ELSE "init_bind"]
    BY <1>4 DEF InitInsert
  <2>2. /\ pc'[w] \in InsertSteps /\ job'[w].payment = q
    BY <2>1, <1>1 DEF IInv, InsertSteps, Jobs
  <2>3. PaymentRow(q) \in Rows /\ PaymentRow(q)[1] = "payment"
    BY DEF PaymentRow, Rows
  <2>4. ~ Exists(work[PaymentRow(q)])
    BY DEF NextPayment, PaymentId
  <2>5. ~ Exists(db[PaymentRow(q)])
    BY <2>3, <2>4 DEF BInv, RowsGood, RowFits
  <2>6. /\ Exists(value) /\ value.intent \in Intents
        /\ value.provider # "wallet"
    BY <1>1, <1>4 DEF NewPayment, Exists, IInv, JobOk, IntentSteps, InitInsert,
                      BookJob, Gateways
  <2> HIDE DEF value
  <2>7. ValueOk(PaymentRow(q), value)
    BY <2>3, <2>5, <2>6 DEF ValueOk, RowGood, RowFits
  <2>8. DataStep
    BY <2>1, <2>7, WriteData
  <2>9. owner'[PaymentRow(q)] = w /\ work'[PaymentRow(q)] = value
    BY <2>1, <2>3, PutOwned
  <2>10. BookJob(w)'
    BY <2>2, <2>6, <2>9 DEF BookJob, InsertSteps, ApplySteps, WalletSteps
  <2> QED
    BY <2>8, <2>10 DEF BookStep
<1>5. CASE InitBindKey(w) \/ InitAttach(w)
  <2> DEFINE x == IF pc[w] = "init_bind" THEN KeyRow(job[w].key)
                  ELSE RequestRow(job[w].request)
             value == IF pc[w] = "init_bind" THEN job[w].payment
                      ELSE [work[x] EXCEPT !.payment = job[w].payment]
  <2>1. /\ pc[w] \in InsertSteps /\ pc'[w] \in InsertSteps
        /\ job'[w] = job[w] /\ Write(w, Put(x, value))
    BY <1>5 DEF InitBindKey, InitAttach, Goto, IInv, InsertSteps
  <2>2. p \in Rows /\ owner[p] = w /\ Exists(work[p]) /\ p # x
    BY <1>1, <2>1, HandlerRows, StepsDiffer
       DEF BookJob, PaymentRow, KeyRow, RequestRow
  <2>3. ValueOk(x, value)
    <3>1. CASE pc[w] = "init_bind"
      BY <3>1 DEF ValueOk, KeyRow, RowGood, RowFits
    <3>2. CASE pc[w] # "init_bind"
      BY <2>1, <3>2, HandlerRows, StepsDiffer, AttachGood DEF BInv
    <3> QED
      BY <3>1, <3>2
  <2>4. DataStep
    BY <2>1, <2>3, WriteData
  <2>5. owner'[p] = w /\ work'[p] = work[p]
    BY <2>1, <2>2, PutOwned
  <2>6. BookJob(w)'
    BY <2>1, <2>2, <2>5 DEF BookJob, InsertSteps, ApplySteps, WalletSteps
  <2> QED
    BY <2>4, <2>6 DEF BookStep
<1>6. CASE InitProvider(w)
  <2>1. pc[w] = "init_provider" /\ pc[w] \in InsertSteps
    BY <1>6 DEF InitProvider, InsertSteps
  <2>2. job[w].payment \in PaymentId /\ Exists(work[p])
    BY <1>1, <2>1, HandlerRows, StepsDiffer DEF BookJob
  <2>3. /\ "pending" \in PaymentStatuses /\ "initiated" \in PaymentStatuses
    BY DEF PaymentStatuses
  <2>4. \E status \in PaymentStatuses :
          Return(w, Put(p, [work[p] EXCEPT !.status = status]))
    BY <1>6, <2>3 DEF InitProvider
  <2> QED
    BY <2>2, <2>4, PaymentGood, ReturnBook DEF BInv
<1> QED
  BY <1>2, <1>3, <1>4, <1>5, <1>6

(* A callback, a verification or an administrator's mark, up to the moment  *)
(* the request is in the paid queue.                                        *)
LEMMA ApplyBook ==
  ASSUME NEW w \in Workers, IInv, BInv,
         \/ LockPayment(w) \/ RefuseSku(w) \/ ApplyFail(w)
         \/ ApplySuccess(w) \/ ApplyClash(w)
         \/ MarkPaid(w) \/ PaidTransition(w) \/ PaidTransitionRefused(w)
  PROVE  BookStep(w)
<1> DEFINE p == PaymentRow(job[w].payment)
           r == RequestRow(job[w].request)
<1>1. pc[w] \in ApplySteps
  BY DEF LockPayment, RefuseSku, ApplyFail, ApplySuccess, ApplyClash, MarkPaid,
         PaidTransition, PaidTransitionRefused, TransitionRefused, ApplySteps
<1>2. /\ job[w].payment \in PaymentId /\ p \in Rows /\ p[1] = "payment"
      /\ job[w].request \in Requests /\ r \in Rows
      /\ Exists(db[p]) /\ Resolve[db[p].intent] = job[w].request
  BY <1>1, HandlerRows, StepsDiffer DEF BInv, BookJob, PaymentRow
<1>3. Exists(work[p])
  BY <1>2 DEF BInv, RowsGood, RowFits
<1>4. ASSUME DataStep, NEW step \in {"apply", "mark_paid", "transition"},
             Goto(w, step)
      PROVE  BookStep(w)
  <2>1. pc'[w] = step /\ job'[w] = job[w]
    BY <1>4 DEF Goto, IInv
  <2>2. Exists(db'[p]) /\ db'[p].intent = db[p].intent
    BY <1>2, <1>4 DEF Grows, RowFits
  <2>3. BookJob(w)'
    BY <1>2, <2>1, <2>2 DEF BookJob, InsertSteps, ApplySteps, WalletSteps
  <2> QED
    BY <1>4, <2>3 DEF BookStep
<1>5. CASE LockPayment(w)
  BY <1>4, <1>5, LockData DEF LockPayment
<1>6. CASE RefuseSku(w) \/ ApplyClash(w) \/ PaidTransitionRefused(w)
  BY <1>6, RaiseBook DEF RefuseSku, ApplyClash, PaidTransitionRefused
<1>7. CASE ApplyFail(w)
  <2>1. Return(w, Put(p, [work[p] EXCEPT !.status = "failed"]))
    BY <1>7 DEF ApplyFail
  <2>2. "failed" \in PaymentStatuses
    BY DEF PaymentStatuses
  <2> QED
    BY <1>2, <1>3, <2>1, <2>2, PaymentGood, ReturnBook DEF BInv
<1>8. CASE ApplySuccess(w)
  <2>1. /\ Write(w, Put(p, [work[p] EXCEPT !.status = "success",
                                           !.ref = job[w].ref]))
        /\ Goto(w, "mark_paid")
    BY <1>8 DEF ApplySuccess
  <2>2. "success" \in PaymentStatuses
    BY DEF PaymentStatuses
  <2>3. DataStep
    BY <1>2, <1>3, <2>1, <2>2, PaymentGood, WriteData DEF BInv
  <2> QED
    BY <1>4, <2>1, <2>3
<1>9. CASE MarkPaid(w)
  <2>1. Goto(w, "transition")
    BY <1>9 DEF MarkPaid
  <2>2. DataStep
    BY <1>2, <1>9, SameData, AttachGood, WriteData DEF MarkPaid, BInv
  <2> QED
    BY <1>4, <2>1, <2>2
<1>10. CASE PaidTransition(w)
  <2> DEFINE queued == Transitioned(work[r], "QUEUED_PAID")
  <2>1. Write(w, Put(r, queued)) /\ Goto(w, "credit")
    BY <1>10 DEF PaidTransition
  <2>2. ValueOk(r, queued) /\ PaidInLog(queued)
    BY <1>2, <1>10, RequestRows, QueuedGood DEF PaidTransition, BInv
  <2> HIDE DEF queued
  <2>3. DataStep
    BY <2>1, <2>2, WriteData
  <2>4. pc'[w] = "credit" /\ job'[w] = job[w]
    BY <2>1 DEF Goto, IInv
  <2>5. owner'[r] = w /\ work'[r] = queued
    BY <1>2, <2>1, PutOwned
  <2>6. Exists(db'[p]) /\ db'[p].intent = db[p].intent
    BY <1>2, <2>3 DEF Grows, RowFits
  <2>7. BookJob(w)'
    BY <1>2, <2>2, <2>4, <2>5, <2>6
       DEF BookJob, InsertSteps, ApplySteps, WalletSteps
  <2> QED
    BY <2>3, <2>7 DEF BookStep
<1> QED
  BY <1>5, <1>6, <1>7, <1>8, <1>9, <1>10

(* pay_with_wallet up to the debit; the last statements of starting work    *)
(* and of an update; a deadlock's victim and a process that dies.           *)
LEMMA OtherBook ==
  ASSUME NEW w \in Workers, IInv, BInv,
         \/ WalletRequest(w) \/ WalletDebit(w) \/ WalletPayRefused(w)
         \/ Consume(w) \/ UpdateSave(w) \/ DeadlockVictim(w) \/ Crash(w)
  PROVE  BookStep(w)
<1> DEFINE r == RequestRow(job[w].request)
<1>1. BookJob(w)
  BY DEF BInv
<1>2. CASE WalletRequest(w)
  <2>1. CASE WalletAccepted(w) /\ LockRow(w, r) /\ Goto(w, "wallet_debit")
    <3>1. pc[w] = "wallet_request" /\ pc'[w] = "wallet_debit" /\ job'[w] = job[w]
      BY <1>2, <2>1 DEF WalletRequest, Goto, IInv
    <3>2. r \in Rows
      BY <3>1, HandlerRows
    <3>3. owner'[r] = w /\ work'[r] = work[r]
      BY <2>1, <3>2, LockOwned
    <3>4. BookJob(w)'
      BY <1>1, <2>1, <3>1, <3>3
         DEF BookJob, InsertSteps, ApplySteps, WalletSteps, WalletAccepted
    <3> QED
      BY <2>1, <3>4, LockData DEF BookStep
  <2> QED
    BY <1>2, <2>1, RaiseBook DEF WalletRequest
<1>3. CASE WalletDebit(w)
  <2>1. CASE LockRow(w, UserWallet(w)) /\ Goto(w, "wallet_pay")
    <3>1. pc[w] = "wallet_debit" /\ pc'[w] = "wallet_pay" /\ job'[w] = job[w]
      BY <1>3, <2>1 DEF WalletDebit, Goto, IInv
    <3>2. r \in Rows /\ owner[r] = w
      BY <1>1, <3>1, HandlerRows DEF BookJob
    <3>3. owner'[r] = w /\ work'[r] = work[r]
      BY <2>1, <3>2, LockOwned
    <3>4. BookJob(w)'
      BY <1>1, <3>1, <3>3 DEF BookJob, InsertSteps, ApplySteps, WalletSteps
    <3> QED
      BY <2>1, <3>4, LockData DEF BookStep
  <2> QED
    BY <1>3, <2>1, RaiseBook DEF WalletDebit
<1>4. CASE WalletPayRefused(w) \/ Crash(w)
  BY <1>4, RaiseBook DEF WalletPayRefused, Crash
<1>5. CASE Consume(w)
  <2>1. job[w].payment \in PaymentId
    BY <1>5, HandlerRows DEF Consume, PaymentSteps
  <2> QED
    BY <1>5, <2>1, ConsumedGood, ReturnBook, ReturnNothingBook DEF Consume, BInv
<1>6. CASE UpdateSave(w)
  <2> DEFINE image == job[w].image
             old == work[r]
             value == [old EXCEPT !.status = image.status,
                                  !.payment = image.payment]
  <2>1. pc[w] = "update_save" /\ Return(w, Put(r, value))
    BY <1>6 DEF UpdateSave
  <2>2. job[w].request \in Requests /\ "update" \in Events
    BY <2>1, HandlerRows DEF IInv, JobOk
  <2>3. old \in RequestRecord
    BY <2>2, RequestRows
  <2>4. image.status = "QUEUED_PAID" => PaidInLog(old)
    BY <1>1, <2>1, <2>2, RequestKnown DEF BookJob, BInv
  <2> HIDE DEF old, image
  <2>5. value.status = image.status /\ value.log = old.log
    BY <2>3 DEF RequestRecord
  <2> HIDE DEF value
  <2>6. ValueOk(r, value)
    BY <2>2, <2>4, <2>5, RequestGood DEF PaidInLog, BInv, old
  <2> QED
    BY <2>1, <2>6, ReturnBook DEF value, old, image
<1>7. CASE DeadlockVictim(w)
  BY <1>7, RaiseBook, ReturnNothingBook DEF DeadlockVictim
<1> QED
  BY <1>2, <1>3, <1>4, <1>5, <1>6, <1>7

----------------------------------------------------------------------------
(* Handlers that book.                                                      *)

(* The user of a request has a wallet row, the same in both images.         *)
LEMMA UserWalletRow ==
  ASSUME NEW w \in Workers, IInv, RowsGood, pc[w] # "idle"
  PROVE  /\ RequestOwner[job[w].request] \in Users
         /\ UserWallet(w) \in Rows /\ UserWallet(w)[1] = "wallet"
         /\ work[UserWallet(w)] = db[UserWallet(w)]
         /\ db[UserWallet(w)].balance \in Nat
<1>1. RequestOwner[job[w].request] \in Users
  BY HandlerRows, ConstantsOk
<1> QED
  BY <1>1, UserRows, EntryTypes DEF UserWallet, RowsGood, WalletRecord

(* A wallet that was booked on is open, and fits.                           *)
LEMMA BookedGood ==
  ASSUME NEW x, x[1] = "wallet", NEW wallet \in WalletRecord, NEW coins, NEW p
  PROVE  /\ RowGood(x, Booked(wallet, coins, p))
         /\ RowFits(x, db[x], Booked(wallet, coins, p))
<1>1. Booked(wallet, coins, p).open = TRUE
  BY DEF Booked, WalletRecord
<1> QED
  BY <1>1 DEF RowGood, RowFits

(* A payment that grants coins has no entry before its deposit: the entry   *)
(* of a payment by wallet grants none.                                      *)
LEMMA NoEntryYet ==
  ASSUME IInv, RowsGood, BooksOk, NEW u \in Users, NEW p \in PaymentId,
         NEW coins, coins \in CoinsGranted(work[PaymentRow(p)].provider,
                                          work[PaymentRow(p)].amount),
         ~ HasDeposit(db[WalletRow(u)], p)
  PROVE  \A n \in DOMAIN db[WalletRow(u)].entries :
           db[WalletRow(u)].entries[n].payment # p
<1> DEFINE entries == db[WalletRow(u)].entries
           x == PaymentRow(p)
<1> SUFFICES ASSUME NEW n \in DOMAIN entries, entries[n].payment = p
             PROVE  FALSE
  OBVIOUS
<1>1. entries[n] \in Entries
  BY EntryTypes
<1>2. entries[n].coins \in Int /\ ~ (entries[n].coins > 0)
  BY <1>1 DEF HasDeposit, Entries
<1>3. EntryOk(db, entries[n])
  BY DEF BooksOk, BookOk
<1>4. Exists(db[x]) /\ db[x].provider = "wallet"
  BY <1>2, <1>3 DEF EntryOk
<1>5. x \in Rows /\ x[1] = "payment"
  BY PaymentRows DEF PaymentRow
<1>6. work[x].provider = "wallet" /\ work[x].amount = 0
  BY <1>4, <1>5 DEF RowsGood, RowGood, RowFits
<1>7. coins = 0
  BY <1>6 DEF CoinsGranted, CoinsForAmount
<1> QED
  BY <1>7 DEF CoinsGranted

(* The deposit: what Credit commits, and CreateWallet with a new wallet.    *)
LEMMA DepositBook ==
  ASSUME NEW w \in Workers, IInv, BInv, pc[w] \in {"credit", "create_wallet"},
         ~ HasDeposit(db[UserWallet(w)], job[w].payment),
         NEW coins \in Coins(w),
         Return(w, Put(UserWallet(w),
                       Booked(work[UserWallet(w)], coins, job[w].payment)))
  PROVE  BookStep(w)
<1> DEFINE v == RequestOwner[job[w].request]
           x == WalletRow(v)
           p == job[w].payment
           r == RequestRow(job[w].request)
           value == Booked(db[x], coins, p)
           change == Put(x, value)
<1>1. pc[w] \in ApplySteps /\ pc[w] # "idle"
  BY DEF ApplySteps
<1>2. /\ p \in PaymentId /\ PaymentRow(p) \in Rows /\ r \in Rows
      /\ PaymentRow(p)[1] = "payment" /\ r[1] = "request"
      /\ Exists(db[PaymentRow(p)])
      /\ Resolve[db[PaymentRow(p)].intent] = job[w].request
      /\ owner[r] = w /\ PaidInLog(work[r])
  BY <1>1, HandlerRows, StepsDiffer DEF BInv, BookJob, PaymentRow, RequestRow
<1>3. /\ UserWallet(w) = x /\ v \in Users /\ x \in Rows /\ x[1] = "wallet"
      /\ work[x] = db[x] /\ db[x].balance \in Nat /\ db[x] \in WalletRecord
  BY <1>1, UserWalletRow, EntryTypes DEF BInv, UserWallet
<1>4. coins \in Nat /\ 0 < coins
  BY <1>2, PaymentRows, CoinsPositive DEF Coins, PaymentRecord
<1>5. Commit(w, change) /\ End(w)
  BY <1>3 DEF Return
<1>6. \A y \in Rows \cap DOMAIN change :
        RowGood(y, change[y]) /\ RowFits(y, db[y], change[y])
  BY <1>3, BookedGood DEF Put
<1>7. DOMAIN change = {x} /\ change[x] = value
  BY DEF Put
<1> HIDE DEF change, value
<1>8. /\ RowsGood' /\ Grows
      /\ \A y \in Rows : /\ y \in DOMAIN change => db'[y] = change[y]
                         /\ y \notin DOMAIN change /\ owner[y] = w
                              => db'[y] = work[y]
                         /\ y \notin DOMAIN change /\ owner[y] # w
                              => db'[y] = db[y]
  BY <1>5, <1>6, CommitGood DEF BInv
<1>9. db'[x] = Booked(db[x], coins, p)
  BY <1>3, <1>7, <1>8 DEF value
<1>10. \A u \in Users \ {v} : db'[WalletRow(u)] = db[WalletRow(u)]
  <2> SUFFICES ASSUME NEW u \in Users \ {v}
               PROVE  db'[WalletRow(u)] = db[WalletRow(u)]
    OBVIOUS
  <2>1. WalletRow(u) \in Rows /\ WalletRow(u) # x
    BY UserRows DEF WalletRow
  <2>2. work[WalletRow(u)] = db[WalletRow(u)]
    BY DEF BInv, RowsGood
  <2> QED
    BY <1>7, <1>8, <2>1, <2>2
<1>11. db'[r] = work[r]
  BY <1>2, <1>3, <1>7, <1>8
<1>12. Exists(db'[PaymentRow(p)]) /\ RequestOf(db', p) = r
  BY <1>2, <1>8 DEF Grows, RowFits, RequestOf
<1>13. \A n \in DOMAIN db[x].entries : db[x].entries[n].payment # p
  BY <1>2, <1>3, NoEntryYet DEF BInv, Coins
<1> HIDE DEF x, p, r, v
<1>14. BooksOk'
  BY <1>2, <1>3, <1>4, <1>8, <1>9, <1>10, <1>11, <1>12, <1>13, BooksGrow
     DEF BInv, x
<1> QED
  BY <1>5, <1>8, <1>14, IdleBook DEF BookStep

(* _credit_wallet_from_payment.                                             *)
LEMMA CreditBook ==
  ASSUME NEW w \in Workers, IInv, BInv,
         \/ CreditNothing(w) \/ Credit(w) \/ CreditNoWallet(w)
         \/ CreateWallet(w)
  PROVE  BookStep(w)
<1> DEFINE x == UserWallet(w)
<1>1. pc[w] \in {"credit", "create_wallet"} /\ pc[w] # "idle"
  BY DEF CreditNothing, Credit, CreditNoWallet, CreateWallet
<1>2. work[x] = db[x] /\ x \in Rows /\ x[1] = "wallet"
  BY <1>1, UserWalletRow DEF BInv
<1>3. CASE CreditNothing(w)
  BY <1>3, ReturnNothingBook DEF CreditNothing
<1>4. CASE Credit(w)
  <2>1. ~ HasDeposit(db[x], job[w].payment)
    BY <1>2, <1>4 DEF Credit, Credited, Seen
  <2> QED
    BY <1>1, <1>4, <2>1, DepositBook DEF Credit
<1>5. CASE CreditNoWallet(w)
  <2>1. /\ pc[w] = "credit" /\ pc'[w] = "create_wallet" /\ job'[w] = job[w]
        /\ UNCHANGED <<db, work, owner>>
    BY <1>5 DEF CreditNoWallet, Goto, IInv
  <2>2. BookJob(w)'
    BY <2>1 DEF BInv, BookJob, InsertSteps, ApplySteps, WalletSteps
  <2> QED
    BY <2>1, <2>2, SameData DEF BookStep
<1>6. CASE CreateWallet(w)
  <2>1. CASE ~ work[x].open
    <3>1. db[x].entries = <<>>
      BY <1>2, <2>1 DEF BInv, RowsGood, RowGood
    <3>2. ~ HasDeposit(db[x], job[w].payment)
      BY <3>1 DEF HasDeposit
    <3> QED
      BY <1>1, <1>6, <2>1, <3>2, DepositBook DEF CreateWallet
  <2>2. CASE work[x].open
    BY <1>6, <2>2, RaiseBook DEF CreateWallet
  <2> QED
    BY <2>1, <2>2
<1> QED
  BY <1>3, <1>4, <1>5, <1>6

(* The payment, the withdrawal and the paid queue in one commit: the        *)
(* payment is new, and a request that can be paid was not charged before.   *)
LEMMA WalletPayBook ==
  ASSUME NEW w \in Workers, IInv, BInv, WalletPay(w)
  PROVE  BookStep(w)
<1> DEFINE v == RequestOwner[job[w].request]
           x == WalletRow(v)
           r == RequestRow(job[w].request)
           price == CoinPrice[job[w].request]
           attached(p) == [work[r] EXCEPT !.payment = p]
           queued(p) == Transitioned(attached(p), "QUEUED_PAID")
           charged(p) == Booked(work[x], 0 - price, p)
           change(p) == [y \in {PaymentRow(p), x, r} |->
                           CASE y = PaymentRow(p) -> WalletPayment(w)
                             [] y = x -> charged(p)
                             [] y = r -> queued(p)]
<1>1. pc[w] = "wallet_pay" /\ TransitionAccepted(work[r].status, "QUEUED_PAID")
  BY DEF WalletPay
<1>2. PICK p \in NextPayment \cap PaymentId : Return(w, change(p))
  BY DEF WalletPay, UserWallet
<1>3. /\ job[w].request \in Requests /\ r \in Rows /\ r[1] = "request"
      /\ job[w].intent \in Intents
      /\ Resolve[job[w].intent] = job[w].request
      /\ work[r].status \in PayableStatuses /\ 0 < price /\ price \in Nat
  BY <1>1, HandlerRows, ConstantsOk
     DEF IInv, JobOk, IntentSteps, BInv, BookJob, WalletSteps, RequestRow
<1>4. /\ UserWallet(w) = x /\ v \in Users /\ x \in Rows /\ x[1] = "wallet"
      /\ work[x] = db[x] /\ db[x].balance \in Nat /\ db[x] \in WalletRecord
  BY <1>1, UserWalletRow, EntryTypes DEF BInv, UserWallet
<1>5. 0 <= db[x].balance + (0 - price)
  <2>1. CoversPrice(w)
    BY <1>1 DEF IInv, JobOk
  <2> QED
    BY <1>3, <1>4, <2>1 DEF CoversPrice
<1>6. PaymentRow(p) \in Rows /\ PaymentRow(p)[1] = "payment"
  BY DEF PaymentRow, Rows
<1>7. ~ Exists(db[PaymentRow(p)])
  <2>1. ~ Exists(work[PaymentRow(p)])
    BY DEF NextPayment, PaymentId
  <2> QED
    BY <1>6, <2>1 DEF BInv, RowsGood, RowFits
<1>8. /\ Exists(WalletPayment(w)) /\ WalletPayment(w).intent = job[w].intent
      /\ WalletPayment(w).provider = "wallet" /\ WalletPayment(w).amount = 0
  BY DEF WalletPayment, NewPayment, Exists
<1>9. /\ RowGood(PaymentRow(p), WalletPayment(w))
      /\ RowFits(PaymentRow(p), db[PaymentRow(p)], WalletPayment(w))
  BY <1>3, <1>6, <1>7, <1>8 DEF RowGood, RowFits
<1>10. RowGood(x, charged(p)) /\ RowFits(x, db[x], charged(p))
  BY <1>4, BookedGood
<1>11. /\ RowGood(r, queued(p)) /\ RowFits(r, db[r], queued(p))
       /\ PaidInLog(queued(p))
  <2> DEFINE request == attached(p)
  <2>1. work[r] \in RequestRecord /\ p \in PaymentId
    BY <1>3, RequestRows
  <2>2. request \in RequestRecord /\ request.status = work[r].status
        /\ request.log = work[r].log
    BY <2>1 DEF RequestRecord
  <2> HIDE DEF request
  <2>3. /\ ValueOk(r, Transitioned(request, "QUEUED_PAID"))
        /\ PaidInLog(Transitioned(request, "QUEUED_PAID"))
    BY <1>1, <1>3, <2>2, QueuedGood DEF BInv
  <2> QED
    BY <2>3 DEF ValueOk, request
<1>12. /\ DOMAIN change(p) = {PaymentRow(p), x, r}
       /\ PaymentRow(p) # x /\ PaymentRow(p) # r /\ x # r
       /\ change(p)[PaymentRow(p)] = WalletPayment(w)
       /\ change(p)[x] = charged(p) /\ change(p)[r] = queued(p)
  BY <1>3, <1>4, <1>6
<1> HIDE DEF change, queued
<1>13. Commit(w, change(p)) /\ End(w)
  BY <1>2 DEF Return
<1>14. \A y \in Rows \cap DOMAIN change(p) :
         RowGood(y, change(p)[y]) /\ RowFits(y, db[y], change(p)[y])
  BY <1>9, <1>10, <1>11, <1>12
<1>15. /\ RowsGood' /\ Grows
       /\ \A y \in Rows : /\ y \in DOMAIN change(p) => db'[y] = change(p)[y]
                          /\ y \notin DOMAIN change(p) /\ owner[y] = w
                               => db'[y] = work[y]
                          /\ y \notin DOMAIN change(p) /\ owner[y] # w
                               => db'[y] = db[y]
  BY <1>13, <1>14, CommitGood DEF BInv
<1>16. /\ db'[PaymentRow(p)] = WalletPayment(w) /\ db'[r] = queued(p)
       /\ db'[x] = Booked(db[x], 0 - price, p)
  BY <1>3, <1>4, <1>6, <1>12, <1>15
<1>17. \A u \in Users \ {v} : db'[WalletRow(u)] = db[WalletRow(u)]
  <2> SUFFICES ASSUME NEW u \in Users \ {v}
               PROVE  db'[WalletRow(u)] = db[WalletRow(u)]
    OBVIOUS
  <2>1. WalletRow(u) \in Rows /\ WalletRow(u) \notin DOMAIN change(p)
    BY <1>12, UserRows DEF WalletRow, RequestRow, PaymentRow
  <2>2. work[WalletRow(u)] = db[WalletRow(u)]
    BY DEF BInv, RowsGood
  <2> QED
    BY <1>15, <2>1, <2>2
<1>18. RequestOf(db', p) = r
  BY <1>3, <1>8, <1>16 DEF RequestOf
<1>19. ASSUME NEW n \in DOMAIN db[x].entries
       PROVE  EntryOk(db, db[x].entries[n])
  BY <1>4, <1>19 DEF BInv, BooksOk, BookOk
<1>20. \A n \in DOMAIN db[x].entries : db[x].entries[n].payment # p
  BY <1>7, <1>19 DEF EntryOk
<1>21. ASSUME "update" \notin Events
       PROVE  \A n \in DOMAIN db[x].entries :
                RequestOf(db, db[x].entries[n].payment) # r
  BY <1>3, <1>19, <1>21, RequestKnown DEF EntryOk, BInv
<1> HIDE DEF x, r, v, price
<1>22. 0 - price \in Int
  BY <1>3
<1>23. BooksOk'
  BY <1>3, <1>4, <1>5, <1>8, <1>11, <1>15, <1>16, <1>17, <1>18, <1>20, <1>21,
     <1>22, BooksGrow DEF BInv, x
<1> QED
  BY <1>13, <1>15, <1>23, IdleBook DEF BookStep

----------------------------------------------------------------------------
(* The invariant and what follows from it.                                  *)

(* A step that establishes BookStep for its worker keeps the whole          *)
(* invariant: what the others know is committed, or locked by them.         *)
LEMMA StepKeepsBInv ==
  ASSUME NEW w \in Workers, IInv, BInv, StepOk(w), BookStep(w)
  PROVE  BInv'
<1> SUFFICES ASSUME NEW v \in Workers \ {w} PROVE BookJob(v)'
  BY DEF BInv, BookStep
<1> DEFINE p == PaymentRow(job[v].payment)
           r == RequestRow(job[v].request)
<1>1. pc'[v] = pc[v] /\ job'[v] = job[v]
  BY DEF IInv, StepOk
<1>2. /\ pc[v] \in PaymentSteps => p \in Rows /\ p[1] = "payment"
      /\ pc[v] # "idle" => r \in Rows /\ r[1] = "request"
  BY HandlerRows DEF PaymentRow, RequestRow
<1>3. \A y \in Rows : owner[y] = v => owner'[y] = v /\ work'[y] = work[y]
  BY DEF StepOk, OthersKeep
<1>4. /\ pc[v] \in PaymentSteps /\ Exists(db[p]) =>
            Exists(db'[p]) /\ db'[p].intent = db[p].intent
      /\ pc[v] # "idle" /\ PaidInLog(db[r]) => PaidInLog(db'[r])
  BY <1>2 DEF BookStep, Grows, RowFits
<1>5. BookJob(v)
  BY DEF BInv
<1> HIDE DEF p, r
<1>6. /\ pc[v] \in InsertSteps => owner'[p] = v /\ Exists(work'[p])
      /\ pc[v] \in ApplySteps =>
           Exists(db'[p]) /\ Resolve[db'[p].intent] = job[v].request
  BY <1>2, <1>3, <1>4, <1>5, StepsDiffer DEF BookJob, p, r
<1>7. /\ pc[v] \in {"credit", "create_wallet"} =>
           owner'[r] = v /\ PaidInLog(work'[r])
      /\ pc[v] \in {"wallet_debit", "wallet_pay"} =>
           owner'[r] = v /\ work'[r].status \in PayableStatuses
      /\ pc[v] = "update_save" /\ job[v].image.status = "QUEUED_PAID" =>
           PaidInLog(db'[r])
  BY <1>2, <1>3, <1>4, <1>5 DEF BookJob, p, r
<1> QED
  BY <1>1, <1>5, <1>6, <1>7 DEF BookJob, p, r

(* The database starts without payments and entries.                        *)
LEMMA InitBInv == Init => BInv
<1> SUFFICES ASSUME Init PROVE BInv
  OBVIOUS
<1>1. PICK wallets \in [Users -> {NoWallet} \cup
                                 {WalletWith(b) : b \in OpeningBalances}] :
        db = [x \in Rows |-> CASE x[1] = "payment" -> AbsentPayment
                               [] x[1] = "request" -> NewRequest
                               [] x[1] = "wallet" -> wallets[x[2]]
                               [] x[1] = "key" -> NoPayment]
  BY DEF Init
<1>2. \A u \in Users : wallets[u].entries = <<>>
  BY DEF NoWallet, WalletWith
<1>3. ASSUME NEW x \in Rows PROVE RowGood(x, db[x])
  <2>1. CASE x[1] = "payment"
    BY <1>1, <2>1 DEF RowGood, AbsentPayment, Exists
  <2>2. CASE x[1] = "request"
    <3>1. db[x] = NewRequest
      BY <1>1, <2>2
    <3> QED
      BY <2>2, <3>1 DEF RowGood, NewRequest, PaidInLog
  <2>3. CASE x[1] = "wallet"
    <3>1. x[2] \in Users /\ db[x] = wallets[x[2]]
      BY <1>1, <2>3 DEF Rows
    <3> QED
      BY <1>2, <2>3, <3>1 DEF RowGood
  <2>4. CASE x[1] = "key"
    BY <2>4 DEF RowGood
  <2> QED
    BY <2>1, <2>2, <2>3, <2>4 DEF Rows
<1>4. work = db
  BY DEF Init
<1>5. RowsGood
  BY <1>3, <1>4, FitsItself DEF RowsGood
<1>6. ASSUME NEW u \in Users PROVE BookOk(db, db[WalletRow(u)].entries)
  <2>1. db[WalletRow(u)] = wallets[u]
    BY <1>1, UserRows DEF WalletRow
  <2>2. db[WalletRow(u)].entries = <<>>
    BY <1>2, <2>1
  <2> QED
    BY <2>2 DEF BookOk
<1>7. \A w \in Workers : BookJob(w)
  BY DEF Init, BookJob, InsertSteps, ApplySteps, WalletSteps
<1> QED
  BY <1>5, <1>6, <1>7 DEF BInv, BooksOk

(* Every step keeps the invariant.                                          *)
LEMMA NextBInv == IInv /\ BInv /\ [Next]_vars => BInv'
<1> SUFFICES ASSUME IInv, BInv, [Next]_vars PROVE BInv'
  OBVIOUS
<1>1. ASSUME NEW w \in Workers,
             Arrival(w) \/ Statement(w) \/ DeadlockVictim(w) \/ Crash(w)
      PROVE  StepOk(w) /\ BookStep(w)
  <2>1. StepOk(w)
    BY <1>1, ArrivalOk, StatementOk, FailureOk
  <2>2. BookStep(w)
    BY <1>1, ArrivalBook, InitBook, ApplyBook, CreditBook, OtherBook,
       WalletPayBook DEF Statement
  <2> QED
    BY <2>1, <2>2
<1>2. CASE Next
  BY <1>1, <1>2, StepKeepsBInv DEF Next
<1>3. CASE UNCHANGED vars
  BY <1>3 DEF vars, BInv, RowsGood, BooksOk, BookJob
<1> QED
  BY <1>2, <1>3

(* The books are in order: besides IInv, good rows whose uncommitted values *)
(* follow the committed ones, entries that stand for payments, and handlers *)
(* which, on their way to an entry, know the payment and own the request.   *)
THEOREM BooksInductive == Spec => []BInv
<1>1. Init => BInv
  BY InitBInv
<1>2. IInv /\ BInv /\ [Next]_vars => BInv'
  BY NextBInv
<1> QED
  BY <1>1, <1>2, Inductive, PTL DEF Spec

(* A payment books at most one ledger entry, however callbacks, the Bazaar  *)
(* verification and administrators repeat apply_success and race: the       *)
(* deposit is looked for under the request's lock, which they all take.     *)
THEOREM BookedOnceCorrect == Spec => []OneEntryPerPayment
<1>1. BInv => OneEntryPerPayment
  BY DEF BInv, BooksOk, BookOk, OneEntryPerPayment, BookedOnce
<1> QED
  BY <1>1, BooksInductive, PTL

(* Coins move only for a payment whose request went through the paid queue, *)
(* also where clients save stale statuses with the update endpoint.         *)
THEOREM EntriesPaidCorrect == Spec => []EntriesArePaidFor
<1>1. BInv => EntriesArePaidFor
  BY DEF BInv, BooksOk, BookOk, EntryOk, EntriesArePaidFor, PaymentRequest,
         RequestOf
<1> QED
  BY <1>1, BooksInductive, PTL

(* Where no client uses the update endpoint, no request is charged to a     *)
(* wallet twice: pay_with_wallet reads the status under the request's lock, *)
(* and no move of the table leads back to a status that can be paid.        *)
THEOREM ChargedOnceCorrect ==
  ASSUME "update" \notin Events
  PROVE  Spec => []ChargedOnce
<1>1. BInv => ChargedOnce
  BY DEF BInv, BooksOk, BookOk, ChargedOnce, PaymentRequest, RequestOf
<1> QED
  BY <1>1, BooksInductive, PTL
====
