---- MODULE BillingProofs ----
(***************************************************************************)
(* Proofs about Billing: types, the wallet ledger and the audit trail, and   *)
(* what holds when handlers do not overlap.                                 *)
(***************************************************************************)
EXTENDS BillingProperties, TLAPS

(* What every value of a row satisfies, committed or not.  The trail is     *)
(* only kept where no client uses the update endpoint.                      *)
RowOk(x, value) ==
  /\ x[1] = "payment" => value \in PaymentRecord
  /\ x[1] = "request" => /\ value \in RequestRecord
                         /\ "update" \notin Events => TrailOf(value)
  /\ x[1] = "wallet" => value \in WalletRecord /\ LedgerOf(value)
  /\ x[1] = "key" => value \in PaymentId \cup {NoPayment}

TableOk(table) == \A x \in Rows : RowOk(x, table[x])

PaymentSteps == {"init_bind", "init_attach", "init_provider", "lock_payment",
                 "apply", "mark_paid", "transition", "credit",
                 "create_wallet", "consume"}

IntentSteps == {"init_key", "init_insert", "wallet_request", "wallet_debit",
                "wallet_pay"}

(* A wallet handler about to debit owns the wallet, whose balance covers    *)
(* the price it compared.                                                   *)
CoversPrice(w) ==
  /\ UserWallet(w) \in Rows
  /\ owner[UserWallet(w)] = w
  /\ CoinPrice[job[w].request] <= work[UserWallet(w)].balance

JobOk(w) ==
  /\ pc[w] # "idle" => job[w].request \in Requests
  /\ pc[w] \in PaymentSteps => job[w].payment \in PaymentId
  /\ pc[w] \in IntentSteps => job[w].intent \in Intents
  /\ pc[w] = "init_key" => job[w].key \in Keys
  /\ pc[w] = "update_save" => "update" \in Events
  /\ pc[w] = "wallet_pay" => CoversPrice(w)

IInv ==
  /\ TableOk(db) /\ TableOk(work)
  /\ owner \in [Rows -> Workers \cup {None}]
  /\ pc \in [Workers -> Steps]
  /\ job \in [Workers -> Jobs]
  /\ \A w \in Workers : JobOk(w)

----------------------------------------------------------------------------
(* Transactions and rows.                                                   *)

(* The owned rows of the other workers are left alone.                      *)
OthersKeep(w) ==
  \A v \in Workers \ {w} : \A x \in Rows :
    owner[x] = v => owner'[x] = v /\ work'[x] = work[x]

DatabaseOk == /\ TableOk(db) /\ TableOk(work)
              /\ owner \in [Rows -> Workers \cup {None}]

(* One row written, or locked, by a statement.                              *)
LEMMA PutStep ==
  ASSUME NEW w \in Workers, NEW x, NEW value,
         DatabaseOk, x \in Rows => RowOk(x, value), Write(w, Put(x, value))
  PROVE  DatabaseOk' /\ OthersKeep(w)
<1>1. DOMAIN Put(x, value) = {x} /\ Put(x, value)[x] = value
  BY DEF Put
<1>2. Available(w, x)
  BY <1>1 DEF Write
<1>3. work' = [y \in Rows |-> IF y = x THEN value ELSE work[y]]
  BY <1>1 DEF Write, Overlay
<1>4. owner' = [y \in Rows |-> IF y = x THEN w ELSE owner[y]]
  BY <1>1 DEF Write
<1>5. db' = db
  BY DEF Write
<1>6. TableOk(db') /\ TableOk(work')
  BY <1>3, <1>5 DEF DatabaseOk, TableOk
<1>7. OthersKeep(w)
  BY <1>2, <1>3, <1>4, ConstantsOk DEF OthersKeep, Available
<1> QED
  BY <1>4, <1>6, <1>7 DEF DatabaseOk

(* A row locked: it keeps its value.                                        *)
LEMMA LockStep ==
  ASSUME NEW w \in Workers, NEW x, DatabaseOk, LockRow(w, x)
  PROVE  DatabaseOk' /\ OthersKeep(w)
<1>1. Write(w, Put(x, work[x]))
  BY DEF LockRow, Put
<1>2. x \in Rows => RowOk(x, work[x])
  BY DEF DatabaseOk, TableOk
<1> QED
  BY <1>1, <1>2, PutStep

(* A transaction that ends: commit of any good rows, or rollback.           *)
LEMMA CommitStep ==
  ASSUME NEW w \in Workers, NEW change, DatabaseOk,
         \A x \in Rows \cap DOMAIN change : RowOk(x, change[x]),
         Commit(w, change)
  PROVE  DatabaseOk' /\ OthersKeep(w)
<1>1. \A x \in Rows : RowOk(x, Overlay(change, work)[x])
  BY DEF Overlay, DatabaseOk, TableOk
<1>2. TableOk(work') /\ TableOk(db')
  BY <1>1 DEF Commit, TableOk, DatabaseOk
<1>3. owner' = Released(w)
  BY DEF Commit
<1>4. \A v \in Workers \ {w}, x \in Rows :
        owner[x] = v => x \notin DOMAIN change
  BY ConstantsOk DEF Commit, Available
<1>5. OthersKeep(w)
  BY <1>3, <1>4 DEF OthersKeep, Commit, Released, Overlay
<1> QED
  BY <1>2, <1>3, <1>5 DEF DatabaseOk, Released

(* A transaction that is rolled back: the committed values come back.       *)
LEMMA RollbackStep ==
  ASSUME NEW w \in Workers, DatabaseOk, Rollback(w)
  PROVE  DatabaseOk' /\ OthersKeep(w)
<1>1. TableOk(work') /\ TableOk(db')
  BY DEF Rollback, TableOk, DatabaseOk
<1>2. OthersKeep(w)
  BY DEF OthersKeep, Rollback, Released
<1> QED
  BY <1>1, <1>2 DEF DatabaseOk, Rollback, Released

----------------------------------------------------------------------------
(* Handlers.                                                                *)

(* What a step of worker w has to establish.                                *)
StepOk(w) ==
  /\ DatabaseOk' /\ OthersKeep(w)
  /\ \E step \in Steps, args \in Jobs :
       /\ pc' = [pc EXCEPT ![w] = step]
       /\ job' = [job EXCEPT ![w] = args]
  /\ JobOk(w)'

(* A step that establishes StepOk for its worker keeps the whole invariant. *)
LEMMA StepKeepsIInv ==
  ASSUME NEW w \in Workers, IInv, StepOk(w)
  PROVE  IInv'
<1>1. pc' \in [Workers -> Steps] /\ job' \in [Workers -> Jobs]
  BY DEF IInv, StepOk
<1>2. ASSUME NEW v \in Workers \ {w} PROVE JobOk(v)'
  <2>1. pc'[v] = pc[v] /\ job'[v] = job[v]
    BY DEF IInv, StepOk
  <2>2. JobOk(v)
    BY DEF IInv
  <2>3. ASSUME CoversPrice(v) PROVE CoversPrice(v)'
    BY <2>1, <2>3 DEF CoversPrice, UserWallet, StepOk, OthersKeep
  <2> QED
    BY <2>1, <2>2, <2>3 DEF JobOk
<1> QED
  BY <1>1, <1>2 DEF IInv, StepOk, DatabaseOk

(* The local variables of a worker that runs no handler are typed.          *)
LEMMA NoJobTyped == NoJob \in Jobs
BY DEF NoJob, Jobs, NewRequest, RequestRecord, Statuses

(* A handler that ends, whatever it did to the database.                    *)
LEMMA EndStep ==
  ASSUME NEW w \in Workers, IInv, DatabaseOk', OthersKeep(w), End(w)
  PROVE  StepOk(w)
<1>1. pc'[w] = "idle"
  BY DEF IInv, End
<1>2. JobOk(w)'
  BY <1>1 DEF JobOk, PaymentSteps, IntentSteps
<1> QED
  BY <1>2, NoJobTyped DEF StepOk, End, Steps

(* A handler that commits one more row and returns.                         *)
LEMMA ReturnStep ==
  ASSUME NEW w \in Workers, NEW x, NEW value, IInv,
         x \in Rows => RowOk(x, value), Return(w, Put(x, value))
  PROVE  StepOk(w)
<1>1. \A y \in Rows \cap DOMAIN Put(x, value) : RowOk(y, Put(x, value)[y])
  BY DEF Put
<1>2. DatabaseOk
  BY DEF IInv, DatabaseOk
<1> QED
  BY <1>1, <1>2, CommitStep, EndStep DEF Return

(* A handler that commits what it wrote earlier and returns.                *)
LEMMA ReturnNothing ==
  ASSUME NEW w \in Workers, IInv, Return(w, NoWrites)
  PROVE  StepOk(w)
<1>1. DOMAIN NoWrites = {}
  BY DEF NoWrites
<1>2. DatabaseOk
  BY DEF IInv, DatabaseOk
<1> QED
  BY <1>1, <1>2, CommitStep, EndStep DEF Return

(* A handler that raises.                                                   *)
LEMMA RaiseStep ==
  ASSUME NEW w \in Workers, IInv, Raise(w)
  PROVE  StepOk(w)
<1>1. DatabaseOk
  BY DEF IInv, DatabaseOk
<1> QED
  BY <1>1, RollbackStep, EndStep DEF Raise

(* Going on to a statement other than the debit.                            *)
JobFits(step, args) ==
  /\ args.request \in Requests
  /\ step \in PaymentSteps => args.payment \in PaymentId
  /\ step \in IntentSteps => args.intent \in Intents
  /\ step = "init_key" => args.key \in Keys
  /\ step = "update_save" => "update" \in Events

(* The step of a handler that changes its local variables.                  *)
LEMMA JobStep ==
  ASSUME NEW w \in Workers, NEW step \in Steps \ {"wallet_pay"},
         NEW args \in Jobs, IInv, DatabaseOk', OthersKeep(w),
         JobFits(step, args),
         pc' = [pc EXCEPT ![w] = step], job' = [job EXCEPT ![w] = args]
  PROVE  StepOk(w)
<1>1. pc'[w] = step /\ job'[w] = args
  BY DEF IInv
<1>2. JobOk(w)'
  BY <1>1 DEF JobOk, JobFits
<1> QED
  BY <1>2 DEF StepOk

(* The first step of a handler that has written nothing yet.                *)
LEMMA StartStep ==
  ASSUME NEW w \in Workers, NEW step \in Steps \ {"wallet_pay"},
         NEW args \in Jobs, IInv, JobFits(step, args), Start(w, step, args)
  PROVE  StepOk(w)
<1>1. DatabaseOk /\ UNCHANGED <<db, work, owner>>
  BY DEF IInv, DatabaseOk, Start
<1>2. DatabaseOk' /\ OthersKeep(w)
  BY <1>1 DEF DatabaseOk, TableOk, OthersKeep
<1> QED
  BY <1>2, JobStep DEF Start

(* The step of a handler whose local variables stay as they are.            *)
LEMMA NextStep ==
  ASSUME NEW w \in Workers, NEW step \in Steps \ {"wallet_pay"},
         IInv, DatabaseOk', OthersKeep(w),
         JobFits(step, job[w]), Goto(w, step)
  PROVE  StepOk(w)
<1>1. pc' = [pc EXCEPT ![w] = step] /\ job' = [job EXCEPT ![w] = job[w]]
  BY DEF IInv, Goto
<1>2. job[w] \in Jobs
  BY DEF IInv
<1> QED
  BY <1>1, <1>2, JobStep

----------------------------------------------------------------------------
(* The values handlers write.                                               *)

(* A row is good in both images of the database.                            *)
LEMMA KnownRow ==
  ASSUME IInv, NEW x \in Rows
  PROVE  RowOk(x, work[x]) /\ RowOk(x, db[x])
BY DEF IInv, TableOk

(* The payment with an identifier is a row, and typed.                      *)
LEMMA PaymentRows ==
  ASSUME IInv, NEW p \in PaymentId
  PROVE  /\ PaymentRow(p) \in Rows
         /\ work[PaymentRow(p)] \in PaymentRecord
         /\ db[PaymentRow(p)] \in PaymentRecord
BY KnownRow DEF PaymentRow, Rows, RowOk

(* A request is a row, typed, with a trail where no update runs.            *)
LEMMA RequestRows ==
  ASSUME IInv, NEW r \in Requests
  PROVE  /\ RequestRow(r) \in Rows
         /\ work[RequestRow(r)] \in RequestRecord
         /\ db[RequestRow(r)] \in RequestRecord
         /\ "update" \notin Events => TrailOf(work[RequestRow(r)])
BY KnownRow DEF RequestRow, Rows, RowOk

(* A user's wallet is a row, typed, and adds up.                            *)
LEMMA WalletRows ==
  ASSUME IInv, NEW u \in Users
  PROVE  /\ WalletRow(u) \in Rows
         /\ work[WalletRow(u)] \in WalletRecord
         /\ LedgerOf(work[WalletRow(u)])
BY KnownRow DEF WalletRow, Rows, RowOk

(* What has to be known of a payment that is written.                       *)
LEMMA PaymentValue ==
  ASSUME NEW p, NEW value \in PaymentRecord
  PROVE  RowOk(PaymentRow(p), value)
BY DEF RowOk, PaymentRow

(* What has to be known of a request that is written.                       *)
LEMMA RequestValue ==
  ASSUME NEW r, NEW value \in RequestRecord,
         "update" \notin Events => TrailOf(value)
  PROVE  RowOk(RequestRow(r), value)
BY DEF RowOk, RequestRow

(* What has to be known of a wallet that is written.                        *)
LEMMA WalletValue ==
  ASSUME NEW u, NEW value \in WalletRecord, LedgerOf(value)
  PROVE  RowOk(WalletRow(u), value)
BY DEF RowOk, WalletRow

(* What has to be known of a key that is written.                           *)
LEMMA KeyValue ==
  ASSUME NEW k, NEW value \in PaymentId \cup {NoPayment}
  PROVE  RowOk(KeyRow(k), value)
BY DEF RowOk, KeyRow

(* A moved request is a request again, whatever its columns range over.     *)
LEMMA MovedTyped ==
  ASSUME NEW S, NEW P, NEW L, NEW target \in S,
         NEW request \in [status : S, payment : P, log : L],
         Append(request.log, <<request.status, target>>) \in L
  PROVE  Moved(request, target) \in [status : S, payment : P, log : L]
BY DEF Moved

(* A booked wallet is a wallet again, whatever its columns range over.      *)
LEMMA BookedTyped ==
  ASSUME NEW O, NEW B, NEW L, NEW coins, NEW p,
         NEW wallet \in [open : BOOLEAN, opening : O, balance : B,
                         entries : L],
         wallet.balance + coins \in B,
         Append(wallet.entries, [coins |-> coins,
                                 after |-> wallet.balance + coins,
                                 payment |-> p]) \in L
  PROVE  Booked(wallet, coins, p)
           \in [open : BOOLEAN, opening : O, balance : B, entries : L]
BY DEF Booked

(* A move along the table appends to the trail what the trail needs.        *)
LEMMA MovedKeeps ==
  ASSUME NEW request \in RequestRecord, NEW target \in Statuses,
         TransitionAllowed(request.status, target)
  PROVE  /\ Moved(request, target) \in RequestRecord
         /\ TrailOf(request) => TrailOf(Moved(request, target))
<1> DEFINE move == <<request.status, target>>
           after == Moved(request, target)
<1>1. request.log \in Seq(Statuses \X Statuses) /\ move \in Statuses \X Statuses
  BY DEF RequestRecord
<1>2. /\ after.status = target
      /\ after.log = Append(request.log, move)
      /\ after.payment = request.payment
  BY DEF Moved, RequestRecord
<1>3. after \in RequestRecord
  <2> DEFINE L == Seq(Statuses \X Statuses)
             P == PaymentId \cup {NoPayment}
  <2>1. Append(request.log, move) \in L
    BY <1>1
  <2>2. request \in [status : Statuses, payment : P, log : L]
    BY DEF RequestRecord
  <2> HIDE DEF L, P
  <2>3. after \in [status : Statuses, payment : P, log : L]
    BY <2>1, <2>2, MovedTyped
  <2> QED
    BY <2>3 DEF RequestRecord, L, P
<1>4. ASSUME TrailOf(request) PROVE TrailOf(after)
  <2> DEFINE old == request.log
             new == after.log
  <2>1. /\ Len(new) = Len(old) + 1 /\ new # <<>>
        /\ new[Len(new)] = move
        /\ \A n \in 1 .. Len(old) : new[n] = old[n]
    BY <1>1, <1>2
  <2>2. after.status = new[Len(new)][2]
    BY <1>2, <2>1
  <2>3. ASSUME NEW n \in DOMAIN new
        PROVE  /\ new[n][1] = IF n = 1 THEN "SUBMITTED" ELSE new[n - 1][2]
               /\ TransitionAllowed(new[n][1], new[n][2])
    <3>1. n \in 1 .. (Len(old) + 1) /\ Len(old) \in Nat
      BY <1>1, <1>2, <2>1
    <3>2. CASE n <= Len(old)
      <4>1. n \in DOMAIN old /\ new[n] = old[n]
        BY <1>1, <2>1, <3>1, <3>2
      <4>2. n # 1 => n - 1 \in 1 .. Len(old)
        BY <3>1, <3>2
      <4> QED
        BY <1>4, <2>1, <4>1, <4>2 DEF TrailOf
    <3>3. CASE n = Len(old) + 1
      <4>1. new[n] = move
        BY <2>1, <3>3
      <4>2. request.status = IF n = 1 THEN "SUBMITTED" ELSE new[n - 1][2]
        <5>1. CASE n = 1
          BY <1>1, <1>4, <3>1, <3>3, <5>1 DEF TrailOf
        <5>2. CASE n # 1
          <6>1. old # <<>> /\ Len(old) = n - 1 /\ new[n - 1] = old[n - 1]
            BY <1>1, <2>1, <3>1, <3>3, <5>2
          <6> QED
            BY <1>4, <5>2, <6>1 DEF TrailOf
        <5> QED
          BY <5>1, <5>2
      <4> QED
        BY <4>1, <4>2
    <3> QED
      BY <3>1, <3>2, <3>3
  <2> QED
    BY <2>1, <2>2, <2>3 DEF TrailOf
<1> QED
  BY <1>3, <1>4

(* So does transition(), which leaves a request that is there already.      *)
LEMMA TransitionedKeeps ==
  ASSUME NEW request \in RequestRecord, NEW target \in Statuses,
         TransitionAccepted(request.status, target)
  PROVE  /\ Transitioned(request, target) \in RequestRecord
         /\ TrailOf(request) => TrailOf(Transitioned(request, target))
BY MovedKeeps DEF TransitionAccepted, Transitioned

(* Booking coins that the balance can bear keeps the ledger adding up.      *)
LEMMA BookedKeeps ==
  ASSUME NEW wallet \in WalletRecord, LedgerOf(wallet),
         NEW coins \in Int, 0 <= wallet.balance + coins,
         NEW p \in PaymentId
  PROVE  /\ Booked(wallet, coins, p) \in WalletRecord
         /\ LedgerOf(Booked(wallet, coins, p))
<1> DEFINE after == Booked(wallet, coins, p)
           old == wallet.entries
           new == after.entries
           entry == [coins |-> coins, after |-> wallet.balance + coins,
                     payment |-> p]
<1>1. old \in Seq(Entries) /\ wallet.balance \in Nat /\ wallet.opening \in Nat
  BY DEF WalletRecord
<1>2. entry \in Entries
  BY <1>1 DEF Entries
<1>3. /\ after.open = TRUE /\ after.opening = wallet.opening
      /\ after.balance = wallet.balance + coins
      /\ new = Append(old, entry)
  BY DEF Booked, WalletRecord
<1>4. after \in WalletRecord
  <2>1. Append(old, entry) \in Seq(Entries)
    BY <1>1, <1>2
  <2>2. wallet.balance + coins \in Nat
    BY <1>1
  <2> QED
    BY <2>1, <2>2, BookedTyped DEF WalletRecord
<1>5. /\ Len(new) = Len(old) + 1 /\ new # <<>> /\ Len(old) \in Nat
      /\ new[Len(new)] = entry
      /\ \A n \in 1 .. Len(old) : new[n] = old[n]
      /\ DOMAIN new = 1 .. (Len(old) + 1) /\ DOMAIN old = 1 .. Len(old)
  BY <1>1, <1>2, <1>3
<1>6. ASSUME NEW n \in DOMAIN new
      PROVE  new[n].after = (IF n = 1 THEN after.opening ELSE new[n - 1].after)
                            + new[n].coins
  <2>1. CASE n <= Len(old)
    <3>1. n \in DOMAIN old /\ new[n] = old[n]
      BY <1>5, <1>6, <2>1
    <3>2. n # 1 => new[n - 1] = old[n - 1]
      BY <1>5, <1>6, <2>1
    <3> QED
      BY <1>3, <3>1, <3>2 DEF LedgerOf
  <2>2. CASE n = Len(old) + 1
    <3>1. new[n].after = wallet.balance + coins /\ new[n].coins = coins
      BY <1>5, <2>2
    <3>2. wallet.balance = IF n = 1 THEN after.opening ELSE new[n - 1].after
      <4>1. CASE n = 1
        BY <1>1, <1>3, <1>5, <2>2, <4>1 DEF LedgerOf
      <4>2. CASE n # 1
        <5>1. old # <<>> /\ Len(old) = n - 1 /\ new[n - 1] = old[n - 1]
          BY <1>1, <1>5, <2>2, <4>2
        <5> QED
          BY <4>2, <5>1 DEF LedgerOf
      <4> QED
        BY <4>1, <4>2
    <3> QED
      BY <3>1, <3>2
  <2> QED
    BY <1>5, <1>6, <2>1, <2>2
<1> HIDE DEF after
<1>7. LedgerOf(after)
  BY <1>3, <1>5, <1>6 DEF LedgerOf
<1> QED
  BY <1>4, <1>7 DEF after

(* A rate grants a positive whole number of coins.                          *)
LEMMA CoinsPositive ==
  ASSUME NEW provider, NEW amount \in Nat,
         NEW coins \in CoinsGranted(provider, amount)
  PROVE  coins \in Nat /\ 0 < coins
<1>1. PICK rate \in CoinRateTable : coins = CoinsForAmount(rate, amount)
  BY DEF CoinsGranted, ResolveCoinRate, EligibleRates
<1>2. rate.base \in Nat /\ rate.coins \in Nat
  BY <1>1, ConstantsOk
<1>3. CASE amount <= 0 \/ rate.base <= 0
  BY <1>1, <1>3 DEF CoinsGranted, CoinsForAmount
<1>4. CASE ~ (amount <= 0 \/ rate.base <= 0)
  <2>1. amount \div rate.base \in Nat
    BY <1>2, <1>4
  <2>2. \A a, b \in Nat : a * b \in Nat
    OBVIOUS
  <2>3. coins = (amount \div rate.base) * rate.coins
    BY <1>1, <1>4 DEF CoinsForAmount
  <2>4. coins \in Nat
    BY <1>2, <2>1, <2>2, <2>3
  <2> QED
    BY <2>4 DEF CoinsGranted
<1> QED
  BY <1>3, <1>4

(* A payment stays typed when its status, reference or mark changes.        *)
LEMMA PaymentChanged ==
  ASSUME NEW payment \in PaymentRecord, NEW status \in PaymentStatuses,
         NEW ref \in Refs \cup {"MANUAL", None}
  PROVE  /\ [payment EXCEPT !.status = status] \in PaymentRecord
         /\ [payment EXCEPT !.consumed = TRUE] \in PaymentRecord
         /\ [payment EXCEPT !.status = status, !.ref = ref] \in PaymentRecord
BY DEF PaymentRecord

(* A request stays typed, and keeps its trail, when the payment it points   *)
(* to changes.                                                              *)
LEMMA Attaching ==
  ASSUME NEW request \in RequestRecord, NEW p \in PaymentId
  PROVE  /\ [request EXCEPT !.payment = p] \in RequestRecord
         /\ [request EXCEPT !.payment = p].status = request.status
         /\ TrailOf(request) => TrailOf([request EXCEPT !.payment = p])
<1>1. [request EXCEPT !.payment = p] \in RequestRecord
  BY DEF RequestRecord
<1>2. /\ [request EXCEPT !.payment = p].status = request.status
      /\ [request EXCEPT !.payment = p].log = request.log
  BY DEF RequestRecord
<1> QED
  BY <1>1, <1>2 DEF TrailOf

----------------------------------------------------------------------------
(* The steps of a worker, each with the facts it needs.                     *)

(* Local variables of the handlers that start on an intent.                 *)
LEMMA IntentJob ==
  ASSUME NEW i \in Intents
  PROVE  /\ [NoJob EXCEPT !.intent = i, !.request = Resolve[i]] \in Jobs
         /\ [NoJob EXCEPT !.intent = i, !.request = Resolve[i]].request
              \in Requests
         /\ [NoJob EXCEPT !.intent = i, !.request = Resolve[i]].intent = i
<1>1. Resolve[i] \in Requests
  BY ConstantsOk
<1> QED
  BY <1>1, NoJobTyped DEF NoJob, Jobs

(* create_payment begins.                                                   *)
LEMMA InitBeginOk ==
  ASSUME NEW w \in Workers, IInv, InitBegin(w)
  PROVE  StepOk(w)
<1>1. PICK i \in Intents, g \in Gateways, a \in Amounts,
           k \in Keys \cup {None} :
        Start(w, IF k = None THEN "init_insert" ELSE "init_key",
              [NoJob EXCEPT !.intent = i, !.request = Resolve[i],
                            !.provider = g, !.amount = a, !.key = k])
  BY DEF InitBegin
<1> DEFINE args == [NoJob EXCEPT !.intent = i, !.request = Resolve[i],
                                 !.provider = g, !.amount = a, !.key = k]
           step == IF k = None THEN "init_insert" ELSE "init_key"
<1>2. Resolve[i] \in Requests /\ a \in Nat /\ g \in Providers
  BY ConstantsOk DEF Gateways, Providers
<1>3. args \in Jobs
  BY <1>2, NoJobTyped DEF NoJob, Jobs
<1>4. args.request = Resolve[i] /\ args.intent = i /\ args.key = k
  BY DEF NoJob
<1>5. JobFits(step, args) /\ step \in Steps \ {"wallet_pay"}
  BY <1>2, <1>4 DEF JobFits, Steps, PaymentSteps, IntentSteps
<1> QED
  BY <1>1, <1>3, <1>5, StartStep

(* The latest payments of an intent are payments.                           *)
LEMMA LatestPayments == \A i, g : Latest(i, g) \subseteq PaymentId
BY DEF Latest

(* The gateway calls back.                                                  *)
LEMMA CallbackOk ==
  ASSUME NEW w \in Workers, IInv, CallbackBegin(w)
  PROVE  StepOk(w)
<1>1. PICK i \in Intents, ok \in BOOLEAN, ref \in Refs \cup {None},
           p \in PaymentId :
        Start(w, "lock_payment",
              [NoJob EXCEPT !.intent = i, !.request = Resolve[i],
                            !.payment = p, !.ok = ok, !.ref = ref])
  BY LatestPayments DEF CallbackBegin
<1> DEFINE args == [NoJob EXCEPT !.intent = i, !.request = Resolve[i],
                                 !.payment = p, !.ok = ok, !.ref = ref]
<1>2. Resolve[i] \in Requests
  BY ConstantsOk
<1>3. args \in Jobs
  BY <1>2, NoJobTyped DEF NoJob, Jobs
<1>4. args.request = Resolve[i] /\ args.payment = p
  BY DEF NoJob
<1>5. JobFits("lock_payment", args) /\ "lock_payment" \in Steps \ {"wallet_pay"}
  BY <1>2, <1>4 DEF JobFits, Steps, PaymentSteps, IntentSteps
<1> QED
  BY <1>1, <1>3, <1>5, StartStep

(* The application asks for a verification.                                 *)
LEMMA VerifyOk ==
  ASSUME NEW w \in Workers, IInv, VerifyBegin(w)
  PROVE  StepOk(w)
<1>1. PICK i \in Intents, ok \in BOOLEAN, sku \in BOOLEAN, ref \in Refs \cup {None},
           p \in PaymentId :
        Start(w, "lock_payment",
              [NoJob EXCEPT !.intent = i, !.request = Resolve[i],
                            !.payment = p, !.ok = ok, !.ref = ref,
                            !.sku = sku])
  BY LatestPayments DEF VerifyBegin
<1> DEFINE args == [NoJob EXCEPT !.intent = i, !.request = Resolve[i],
                                 !.payment = p, !.ok = ok, !.ref = ref,
                                 !.sku = sku]
<1>2. Resolve[i] \in Requests
  BY ConstantsOk
<1>3. args \in Jobs
  BY <1>2, NoJobTyped DEF NoJob, Jobs
<1>4. args.request = Resolve[i] /\ args.payment = p
  BY DEF NoJob
<1>5. JobFits("lock_payment", args) /\ "lock_payment" \in Steps \ {"wallet_pay"}
  BY <1>2, <1>4 DEF JobFits, Steps, PaymentSteps, IntentSteps
<1> QED
  BY <1>1, <1>3, <1>5, StartStep

(* pay_with_wallet begins.                                                  *)
LEMMA WalletBeginOk ==
  ASSUME NEW w \in Workers, IInv, WalletBegin(w)
  PROVE  StepOk(w)
<1>1. PICK i \in Intents :
        Start(w, "wallet_request",
              [NoJob EXCEPT !.intent = i, !.request = Resolve[i]])
  BY DEF WalletBegin
<1>2. JobFits("wallet_request",
              [NoJob EXCEPT !.intent = i, !.request = Resolve[i]])
  BY IntentJob DEF JobFits, PaymentSteps, IntentSteps
<1>3. "wallet_request" \in Steps \ {"wallet_pay"}
  BY DEF Steps
<1> QED
  BY <1>1, <1>2, <1>3, IntentJob, StartStep

(* An administrator marks a payment successful.                             *)
LEMMA AdminSuccessOk ==
  ASSUME NEW w \in Workers, IInv, AdminMarkSuccess(w)
  PROVE  StepOk(w)
<1>1. PICK p \in PaymentId, i \in Intents :
        Start(w, "apply",
              [NoJob EXCEPT !.intent = i, !.request = Resolve[i],
                            !.payment = p,
                            !.ref = IF db[PaymentRow(p)].ref \in {None, ""}
                                    THEN "MANUAL" ELSE db[PaymentRow(p)].ref])
  BY DEF AdminMarkSuccess
<1> DEFINE ref == IF db[PaymentRow(p)].ref \in {None, ""} THEN "MANUAL"
                  ELSE db[PaymentRow(p)].ref
           args == [NoJob EXCEPT !.intent = i, !.request = Resolve[i],
                                 !.payment = p, !.ref = ref]
<1>2. Resolve[i] \in Requests
  BY ConstantsOk
<1>3. ref \in Refs \cup {"MANUAL", None}
  BY PaymentRows DEF PaymentRecord
<1> HIDE DEF ref
<1>4. args \in Jobs
  BY <1>2, <1>3, NoJobTyped DEF NoJob, Jobs
<1>5. args.request = Resolve[i] /\ args.payment = p
  BY DEF NoJob
<1>6. JobFits("apply", args) /\ "apply" \in Steps \ {"wallet_pay"}
  BY <1>2, <1>5 DEF JobFits, Steps, PaymentSteps, IntentSteps
<1> USE DEF ref
<1> QED
  BY <1>1, <1>4, <1>6, StartStep

(* An administrator marks a payment failed or consumed.                     *)
LEMMA AdminMarkOk ==
  ASSUME NEW w \in Workers, IInv, AdminMarkFailed(w) \/ AdminMarkConsumed(w)
  PROVE  StepOk(w)
<1>1. PICK p \in PaymentId :
        \/ Return(w, Put(PaymentRow(p),
                         [work[PaymentRow(p)] EXCEPT !.status = "failed"]))
        \/ Return(w, Put(PaymentRow(p),
                         [work[PaymentRow(p)] EXCEPT !.consumed = TRUE]))
  BY DEF AdminMarkFailed, AdminMarkConsumed
<1>2. "failed" \in PaymentStatuses /\ "MANUAL" \in Refs \cup {"MANUAL", None}
  BY DEF PaymentStatuses
<1>3. /\ [work[PaymentRow(p)] EXCEPT !.status = "failed"] \in PaymentRecord
      /\ [work[PaymentRow(p)] EXCEPT !.consumed = TRUE] \in PaymentRecord
  BY <1>2, PaymentRows, PaymentChanged
<1> QED
  BY <1>1, <1>3, PaymentValue, ReturnStep

(* transition() of a request whose payment is not to be consumed.           *)
LEMMA MoveOk ==
  ASSUME NEW w \in Workers, NEW r \in Requests, NEW target \in Statuses,
         IInv, Move(w, r, target)
  PROVE  StepOk(w)
<1>1. RowOk(RequestRow(r), Moved(work[RequestRow(r)], target))
  BY RequestRows, MovedKeeps, RequestValue DEF Move
<1> QED
  BY <1>1, ReturnStep DEF Move

(* The serializer queues a new request.                                     *)
LEMMA EnqueueOk ==
  ASSUME NEW w \in Workers, IInv, Enqueue(w)
  PROVE  StepOk(w)
<1>1. \A plan : FirstQueue(plan) \in Statuses
  BY DEF FirstQueue, Statuses
<1> QED
  BY <1>1, MoveOk DEF Enqueue

(* Staff moves a request.                                                   *)
LEMMA StaffMoveOk ==
  ASSUME NEW w \in Workers, IInv, StaffMove(w)
  PROVE  StepOk(w)
<1>1. StaffTargets \subseteq Statuses
  BY DEF StaffTargets, Statuses
<1> QED
  BY <1>1, MoveOk DEF StaffMove

(* Staff starts the work of a paid request.                                 *)
LEMMA StaffStartOk ==
  ASSUME NEW w \in Workers, IInv, StaffStartWork(w)
  PROVE  StepOk(w)
<1>1. PICK r \in Requests :
        /\ StartsWork(work[RequestRow(r)], "IN_PROGRESS")
        /\ TransitionAllowed(work[RequestRow(r)].status, "IN_PROGRESS")
        /\ Write(w, Put(RequestRow(r),
                        Moved(work[RequestRow(r)], "IN_PROGRESS")))
        /\ pc' = [pc EXCEPT ![w] = "consume"]
        /\ job' = [job EXCEPT ![w] = [NoJob EXCEPT
                     !.request = r, !.payment = work[RequestRow(r)].payment]]
  BY DEF StaffStartWork
<1> DEFINE p == work[RequestRow(r)].payment
           args == [NoJob EXCEPT !.request = r, !.payment = p]
<1>2. p \in PaymentId
  BY <1>1, RequestRows DEF StartsWork, RequestRecord
<1> HIDE DEF p
<1>3. args \in Jobs /\ args.request = r /\ args.payment = p
  BY <1>2, NoJobTyped DEF NoJob, Jobs
<1>4. "IN_PROGRESS" \in Statuses
  BY DEF Statuses
<1>5. RowOk(RequestRow(r), Moved(work[RequestRow(r)], "IN_PROGRESS"))
  BY <1>1, <1>4, RequestRows, MovedKeeps, RequestValue
<1>6. DatabaseOk' /\ OthersKeep(w)
  BY <1>1, <1>5, PutStep DEF IInv, DatabaseOk
<1>7. JobFits("consume", args) /\ "consume" \in Steps \ {"wallet_pay"}
  BY <1>2, <1>3 DEF JobFits, Steps, PaymentSteps, IntentSteps
<1>8. job' = [job EXCEPT ![w] = args]
  BY <1>1 DEF p
<1> QED
  BY <1>1, <1>3, <1>6, <1>7, <1>8, JobStep

(* A client updates a request.                                              *)
LEMMA UpdateBeginOk ==
  ASSUME NEW w \in Workers, IInv, UpdateBegin(w)
  PROVE  StepOk(w)
<1>1. "update" \in Events
  BY DEF UpdateBegin
<1>2. PICK r \in Requests :
        Start(w, "update_save", [NoJob EXCEPT !.request = r,
                                              !.image = db[RequestRow(r)]])
  BY DEF UpdateBegin
<1> DEFINE args == [NoJob EXCEPT !.request = r, !.image = db[RequestRow(r)]]
<1>3. args \in Jobs /\ args.request = r
  BY RequestRows, NoJobTyped DEF NoJob, Jobs
<1>4. JobFits("update_save", args) /\ "update_save" \in Steps \ {"wallet_pay"}
  BY <1>1, <1>3 DEF JobFits, Steps, PaymentSteps, IntentSteps
<1> QED
  BY <1>2, <1>3, <1>4, StartStep

(* Every request that arrives.                                              *)
LEMMA ArrivalOk ==
  ASSUME NEW w \in Workers, IInv, Arrival(w)
  PROVE  StepOk(w)
BY InitBeginOk, CallbackOk, VerifyOk, WalletBeginOk, AdminSuccessOk,
   AdminMarkOk, EnqueueOk, StaffMoveOk, StaffStartOk, UpdateBeginOk DEF Arrival

(* create_payment after its first check.                                    *)
LEMMA InitOk ==
  ASSUME NEW w \in Workers, IInv,
         \/ InitLockKey(w) \/ InitRefused(w) \/ InitInsert(w)
         \/ InitBindKey(w) \/ InitKeyTaken(w) \/ InitAttach(w)
         \/ InitProvider(w)
  PROVE  StepOk(w)
<1> DEFINE r == job[w].request
           p == job[w].payment
<1>1. job[w] \in Jobs /\ JobOk(w) /\ DatabaseOk
  BY DEF IInv, DatabaseOk
<1>2. CASE InitLockKey(w)
  <2> DEFINE x == KeyRow(job[w].key)
  <2>1. pc[w] = "init_key" /\ r \in Requests /\ job[w].intent \in Intents
    BY <1>1, <1>2 DEF InitLockKey, JobOk, IntentSteps
  <2>2. "init_insert" \in Steps \ {"wallet_pay"}
    BY DEF Steps
  <2>3. CASE Goto(w, "init_insert") /\ UNCHANGED <<db, work, owner>>
    <3>1. DatabaseOk' /\ OthersKeep(w)
      BY <1>1, <2>3 DEF DatabaseOk, TableOk, OthersKeep
    <3>2. JobFits("init_insert", job[w])
      BY <2>1 DEF JobFits, PaymentSteps, IntentSteps
    <3> QED
      BY <2>2, <2>3, <3>1, <3>2, NextStep
  <2>4. CASE /\ LockRow(w, x)
             /\ pc' = [pc EXCEPT ![w] = "init_insert"]
             /\ job' = [job EXCEPT ![w].payment = work[x]]
    <3> DEFINE args == [job[w] EXCEPT !.payment = work[x]]
    <3>1. work[x] \in PaymentId \cup {NoPayment}
      <4>1. job[w].key \in Keys
        BY <1>1, <2>1 DEF JobOk
      <4>2. x \in Rows
        BY <4>1 DEF KeyRow, Rows
      <4> QED
        BY <4>2, KnownRow DEF KeyRow, RowOk
    <3>2. args \in Jobs /\ args.request = r /\ args.intent = job[w].intent
      BY <1>1, <3>1 DEF Jobs
    <3>3. job' = [job EXCEPT ![w] = args]
      BY <2>4 DEF IInv
    <3>4. DatabaseOk' /\ OthersKeep(w)
      BY <1>1, <2>4, LockStep
    <3>5. JobFits("init_insert", args)
      BY <2>1, <3>2 DEF JobFits, PaymentSteps, IntentSteps
    <3> HIDE DEF args
    <3> QED
      BY <2>2, <2>4, <3>2, <3>3, <3>4, <3>5, JobStep
  <2> QED
    BY <1>2, <2>3, <2>4 DEF InitLockKey
<1>3. CASE InitRefused(w) \/ InitKeyTaken(w)
  BY <1>3, RaiseStep DEF InitRefused, InitKeyTaken
<1>4. CASE InitInsert(w)
  <2> DEFINE value == NewPayment(job[w].intent, job[w].provider,
                                 job[w].amount, "initiated")
             step == IF job[w].key = None THEN "init_attach" ELSE "init_bind"
  <2>1. PICK q \in PaymentId :
          /\ Write(w, Put(PaymentRow(q), value))
          /\ job' = [job EXCEPT ![w].payment = q]
          /\ pc' = [pc EXCEPT ![w] = step]
    BY <1>4 DEF InitInsert
  <2> DEFINE args == [job[w] EXCEPT !.payment = q]
  <2>2. value \in PaymentRecord
    BY <1>1 DEF NewPayment, PaymentRecord, Jobs, PaymentStatuses
  <2>3. DatabaseOk' /\ OthersKeep(w)
    BY <1>1, <2>1, <2>2, PaymentValue, PutStep
  <2>4. args \in Jobs /\ args.request = r /\ args.payment = q
    BY <1>1 DEF Jobs
  <2>5. job' = [job EXCEPT ![w] = args]
    BY <2>1 DEF IInv
  <2>6. r \in Requests
    BY <1>1, <1>4 DEF InitInsert, JobOk
  <2>7. JobFits(step, args) /\ step \in Steps \ {"wallet_pay"}
    BY <2>4, <2>6 DEF JobFits, PaymentSteps, IntentSteps, Steps
  <2> HIDE DEF args, step
  <2> QED
    BY <2>1, <2>3, <2>4, <2>5, <2>7, JobStep
<1>5. CASE InitBindKey(w)
  <2>1. r \in Requests /\ p \in PaymentId
    BY <1>1, <1>5 DEF InitBindKey, JobOk, PaymentSteps
  <2>2. DatabaseOk' /\ OthersKeep(w)
    BY <1>1, <1>5, <2>1, KeyValue, PutStep DEF InitBindKey
  <2>3. /\ JobFits("init_attach", job[w])
        /\ "init_attach" \in Steps \ {"wallet_pay"}
    BY <2>1 DEF JobFits, PaymentSteps, IntentSteps, Steps
  <2> QED
    BY <1>5, <2>2, <2>3, NextStep DEF InitBindKey
<1>6. CASE InitAttach(w)
  <2> DEFINE x == RequestRow(r)
  <2>1. r \in Requests /\ p \in PaymentId
    BY <1>1, <1>6 DEF InitAttach, JobOk, PaymentSteps
  <2>2. RowOk(x, [work[x] EXCEPT !.payment = p])
    BY <2>1, RequestRows, Attaching, RequestValue
  <2>3. DatabaseOk' /\ OthersKeep(w)
    BY <1>1, <1>6, <2>2, PutStep DEF InitAttach
  <2>4. /\ JobFits("init_provider", job[w])
        /\ "init_provider" \in Steps \ {"wallet_pay"}
    BY <2>1 DEF JobFits, PaymentSteps, IntentSteps, Steps
  <2> QED
    BY <1>6, <2>3, <2>4, NextStep DEF InitAttach
<1>7. CASE InitProvider(w)
  <2> DEFINE x == PaymentRow(p)
             status == IF job[w].provider = "iran_gw" THEN "pending"
                       ELSE "initiated"
  <2>1. p \in PaymentId
    BY <1>1, <1>7 DEF InitProvider, JobOk, PaymentSteps
  <2>2. status \in PaymentStatuses
    BY DEF PaymentStatuses
  <2>3. [work[x] EXCEPT !.status = status] \in PaymentRecord
    <3> HIDE DEF status
    <3> QED
      BY <2>1, <2>2, PaymentRows, PaymentChanged
  <2> QED
    BY <1>7, <2>3, PaymentValue, ReturnStep DEF InitProvider
<1> QED
  BY <1>2, <1>3, <1>4, <1>5, <1>6, <1>7

(* A callback, a verification or an administrator's mark, up to the moment  *)
(* the payment is applied.                                                  *)
LEMMA ApplyOk ==
  ASSUME NEW w \in Workers, IInv,
         \/ LockPayment(w) \/ RefuseSku(w) \/ ApplyFail(w)
         \/ ApplySuccess(w) \/ ApplyClash(w)
  PROVE  StepOk(w)
<1> DEFINE r == job[w].request
           p == job[w].payment
           x == PaymentRow(p)
<1>1. job[w] \in Jobs /\ JobOk(w) /\ DatabaseOk
  BY DEF IInv, DatabaseOk
<1>2. r \in Requests /\ p \in PaymentId
  BY <1>1 DEF JobOk, PaymentSteps, LockPayment, RefuseSku, ApplyFail,
              ApplySuccess, ApplyClash
<1>3. /\ JobFits("apply", job[w]) /\ "apply" \in Steps \ {"wallet_pay"}
      /\ JobFits("mark_paid", job[w]) /\ "mark_paid" \in Steps \ {"wallet_pay"}
  BY <1>2 DEF JobFits, PaymentSteps, IntentSteps, Steps
<1>4. CASE LockPayment(w)
  <2>1. DatabaseOk' /\ OthersKeep(w)
    BY <1>1, <1>4, LockStep DEF LockPayment
  <2> QED
    BY <1>3, <1>4, <2>1, NextStep DEF LockPayment
<1>5. CASE RefuseSku(w) \/ ApplyClash(w)
  BY <1>5, RaiseStep DEF RefuseSku, ApplyClash
<1>6. job[w].ref \in Refs \cup {"MANUAL", None}
  BY <1>1 DEF Jobs
<1>7. "failed" \in PaymentStatuses /\ "success" \in PaymentStatuses
  BY DEF PaymentStatuses
<1>8. /\ [work[x] EXCEPT !.status = "failed"] \in PaymentRecord
      /\ [work[x] EXCEPT !.status = "success", !.ref = job[w].ref]
           \in PaymentRecord
  BY <1>2, <1>6, <1>7, PaymentRows, PaymentChanged
<1>9. CASE ApplyFail(w)
  BY <1>8, <1>9, PaymentValue, ReturnStep DEF ApplyFail
<1>10. CASE ApplySuccess(w)
  <2>1. /\ Write(w, Put(x, [work[x] EXCEPT !.status = "success",
                                           !.ref = job[w].ref]))
        /\ Goto(w, "mark_paid")
    BY <1>10 DEF ApplySuccess
  <2>2. DatabaseOk' /\ OthersKeep(w)
    BY <1>1, <1>8, <2>1, PaymentValue, PutStep
  <2> QED
    BY <1>3, <2>1, <2>2, NextStep
<1> QED
  BY <1>4, <1>5, <1>9, <1>10

(* mark_paid and the transition to the paid queue.                          *)
LEMMA MarkPaidOk ==
  ASSUME NEW w \in Workers, IInv,
         \/ MarkPaid(w) \/ PaidTransition(w) \/ PaidTransitionRefused(w)
  PROVE  StepOk(w)
<1> DEFINE r == job[w].request
           p == job[w].payment
           x == RequestRow(r)
<1>1. JobOk(w) /\ DatabaseOk
  BY DEF IInv, DatabaseOk
<1>2. r \in Requests /\ p \in PaymentId
  BY <1>1 DEF JobOk, PaymentSteps, MarkPaid, PaidTransition,
              PaidTransitionRefused, TransitionRefused
<1>3. /\ JobFits("transition", job[w])
      /\ "transition" \in Steps \ {"wallet_pay"}
      /\ JobFits("credit", job[w]) /\ "credit" \in Steps \ {"wallet_pay"}
  BY <1>2 DEF JobFits, PaymentSteps, IntentSteps, Steps
<1>4. CASE MarkPaid(w)
  <2>1. CASE UNCHANGED <<db, work, owner>>
    BY <1>1, <2>1, <1>3, <1>4, NextStep
       DEF DatabaseOk, TableOk, OthersKeep, MarkPaid
  <2>2. CASE Write(w, Put(x, [work[x] EXCEPT !.payment = p]))
    <3>1. RowOk(x, [work[x] EXCEPT !.payment = p])
      BY <1>2, RequestRows, Attaching, RequestValue
    <3>2. DatabaseOk' /\ OthersKeep(w)
      BY <1>1, <2>2, <3>1, PutStep
    <3> QED
      BY <1>3, <1>4, <3>2, NextStep DEF MarkPaid
  <2> QED
    BY <1>4, <2>1, <2>2 DEF MarkPaid
<1>5. CASE PaidTransition(w)
  <2>1. "QUEUED_PAID" \in Statuses
    BY DEF Statuses
  <2>2. RowOk(x, Transitioned(work[x], "QUEUED_PAID"))
    BY <1>2, <1>5, <2>1, RequestRows, TransitionedKeeps, RequestValue
       DEF PaidTransition
  <2>3. DatabaseOk' /\ OthersKeep(w)
    BY <1>1, <1>5, <2>2, PutStep DEF PaidTransition
  <2> QED
    BY <1>3, <1>5, <2>3, NextStep DEF PaidTransition
<1>6. CASE PaidTransitionRefused(w)
  BY <1>6, RaiseStep DEF PaidTransitionRefused
<1> QED
  BY <1>4, <1>5, <1>6

(* The coins of a payment, booked on the wallet of its user.                *)
LEMMA DepositOk ==
  ASSUME NEW w \in Workers, IInv, job[w].request \in Requests,
         job[w].payment \in PaymentId, NEW coins \in Coins(w)
  PROVE  RowOk(UserWallet(w),
               Booked(work[UserWallet(w)], coins, job[w].payment))
<1> DEFINE u == RequestOwner[job[w].request]
           payment == work[PaymentRow(job[w].payment)]
<1>1. u \in Users
  BY ConstantsOk
<1>2. payment.amount \in Nat
  BY PaymentRows DEF PaymentRecord
<1>3. coins \in Nat
  BY <1>2, CoinsPositive DEF Coins
<1>4. work[WalletRow(u)] \in WalletRecord /\ LedgerOf(work[WalletRow(u)])
  BY <1>1, WalletRows
<1>5. 0 <= work[WalletRow(u)].balance + coins
  BY <1>3, <1>4 DEF WalletRecord
<1>6. /\ Booked(work[WalletRow(u)], coins, job[w].payment) \in WalletRecord
      /\ LedgerOf(Booked(work[WalletRow(u)], coins, job[w].payment))
  BY <1>3, <1>4, <1>5, BookedKeeps
<1> QED
  BY <1>6, WalletValue DEF UserWallet

(* _credit_wallet_from_payment.                                             *)
LEMMA CreditOk ==
  ASSUME NEW w \in Workers, IInv,
         \/ CreditNothing(w) \/ Credit(w) \/ CreditNoWallet(w)
         \/ CreateWallet(w)
  PROVE  StepOk(w)
<1>1. JobOk(w) /\ DatabaseOk
  BY DEF IInv, DatabaseOk
<1>2. job[w].request \in Requests /\ job[w].payment \in PaymentId
  BY <1>1 DEF JobOk, PaymentSteps, CreditNothing, Credit, CreditNoWallet,
              CreateWallet
<1>3. CASE CreditNothing(w)
  BY <1>3, ReturnNothing DEF CreditNothing
<1>4. CASE Credit(w)
  BY <1>2, <1>4, DepositOk, ReturnStep DEF Credit
<1>5. CASE CreditNoWallet(w)
  <2>1. /\ JobFits("create_wallet", job[w])
        /\ "create_wallet" \in Steps \ {"wallet_pay"}
    BY <1>2 DEF JobFits, PaymentSteps, IntentSteps, Steps
  <2>2. DatabaseOk' /\ OthersKeep(w)
    BY <1>1, <1>5 DEF CreditNoWallet, DatabaseOk, TableOk, OthersKeep
  <2> QED
    BY <1>5, <2>1, <2>2, NextStep DEF CreditNoWallet
<1>6. CASE CreateWallet(w)
  BY <1>2, <1>6, DepositOk, ReturnStep, RaiseStep DEF CreateWallet
<1> QED
  BY <1>3, <1>4, <1>5, <1>6

(* pay_with_wallet up to the debit, which then has the coins it needs.      *)
LEMMA WalletOk ==
  ASSUME NEW w \in Workers, IInv, WalletRequest(w) \/ WalletDebit(w)
  PROVE  StepOk(w)
<1> DEFINE r == job[w].request
           x == UserWallet(w)
<1>1. JobOk(w) /\ DatabaseOk /\ job[w] \in Jobs
  BY DEF IInv, DatabaseOk
<1>2. r \in Requests /\ job[w].intent \in Intents
  BY <1>1 DEF JobOk, IntentSteps, WalletRequest, WalletDebit
<1>3. CASE WalletRequest(w)
  <2>1. CASE LockRow(w, RequestRow(r)) /\ Goto(w, "wallet_debit")
    <3>1. /\ JobFits("wallet_debit", job[w])
          /\ "wallet_debit" \in Steps \ {"wallet_pay"}
      BY <1>2 DEF JobFits, PaymentSteps, IntentSteps, Steps
    <3>2. DatabaseOk' /\ OthersKeep(w)
      BY <1>1, <2>1, LockStep
    <3> QED
      BY <2>1, <3>1, <3>2, NextStep
  <2> QED
    BY <1>3, <2>1, RaiseStep DEF WalletRequest
<1>4. CASE WalletDebit(w)
  <2>1. CASE /\ work[x].balance >= CoinPrice[r]
             /\ LockRow(w, x) /\ Goto(w, "wallet_pay")
    <3>1. /\ DatabaseOk' /\ OthersKeep(w)
      BY <1>1, <2>1, LockStep
    <3>2. RequestOwner[r] \in Users
      BY <1>2, ConstantsOk
    <3>3. x \in Rows /\ work[x].balance \in Nat /\ CoinPrice[r] \in Nat
      BY <1>2, <3>2, WalletRows, ConstantsOk DEF UserWallet, WalletRecord
    <3>4. owner'[x] = w /\ work'[x] = work[x]
      BY <2>1, <3>3 DEF LockRow, Write, Overlay
    <3>5. pc' = [pc EXCEPT ![w] = "wallet_pay"]
          /\ job' = [job EXCEPT ![w] = job[w]]
      BY <2>1 DEF Goto, IInv
    <3>6. pc'[w] = "wallet_pay" /\ job'[w] = job[w]
      BY <3>5 DEF IInv
    <3>7. CoversPrice(w)'
      BY <2>1, <3>3, <3>4, <3>6 DEF CoversPrice, UserWallet
    <3>8. JobOk(w)'
      BY <1>2, <3>6, <3>7 DEF JobOk, PaymentSteps, IntentSteps
    <3>9. "wallet_pay" \in Steps
      BY DEF Steps
    <3> QED
      BY <1>1, <3>1, <3>5, <3>8, <3>9 DEF StepOk
  <2> QED
    BY <1>4, <2>1, RaiseStep DEF WalletDebit
<1> QED
  BY <1>3, <1>4

(* The payment, the withdrawal and the paid queue in one transaction.       *)
LEMMA WalletPayOk ==
  ASSUME NEW w \in Workers, IInv, WalletPay(w) \/ WalletPayRefused(w)
  PROVE  StepOk(w)
<1> DEFINE r == RequestRow(job[w].request)
           x == UserWallet(w)
           u == RequestOwner[job[w].request]
           price == CoinPrice[job[w].request]
<1>1. JobOk(w) /\ DatabaseOk /\ job[w] \in Jobs
  BY DEF IInv, DatabaseOk
<1>2. CASE WalletPayRefused(w)
  BY <1>2, RaiseStep DEF WalletPayRefused
<1>3. CASE WalletPay(w)
  <2> DEFINE queued(p) == Transitioned([work[r] EXCEPT !.payment = p],
                                       "QUEUED_PAID")
             charged(p) == Booked(work[x], 0 - price, p)
             change(p) == [y \in {PaymentRow(p), x, r} |->
                             CASE y = PaymentRow(p) -> WalletPayment(w)
                               [] y = x -> charged(p)
                               [] y = r -> queued(p)]
  <2>1. PICK p \in PaymentId : Return(w, change(p))
    BY <1>3 DEF WalletPay
  <2>2. /\ job[w].request \in Requests /\ job[w].intent \in Intents
        /\ CoversPrice(w)
    BY <1>1, <1>3 DEF WalletPay, JobOk, IntentSteps
  <2>3. RowOk(PaymentRow(p), WalletPayment(w))
    <3>1. WalletPayment(w) \in PaymentRecord
      BY <2>2 DEF WalletPayment, NewPayment, PaymentRecord, PaymentStatuses,
                  Providers
    <3> QED
      BY <3>1, PaymentValue
  <2>4. RowOk(x, charged(p))
    <3>1. u \in Users /\ price \in Nat
      BY <2>2, ConstantsOk
    <3>2. work[WalletRow(u)] \in WalletRecord /\ LedgerOf(work[WalletRow(u)])
      BY <3>1, WalletRows
    <3>3. 0 <= work[WalletRow(u)].balance + (0 - price) /\ 0 - price \in Int
      BY <2>2, <3>1, <3>2 DEF CoversPrice, UserWallet, WalletRecord
    <3> HIDE DEF price, u
    <3>4. /\ Booked(work[WalletRow(u)], 0 - price, p) \in WalletRecord
          /\ LedgerOf(Booked(work[WalletRow(u)], 0 - price, p))
      BY <3>2, <3>3, BookedKeeps
    <3> QED
      BY <3>4, WalletValue DEF UserWallet, u
  <2>5. RowOk(r, queued(p))
    <3> DEFINE attached == [work[r] EXCEPT !.payment = p]
    <3>1. /\ attached \in RequestRecord
          /\ attached.status = work[r].status
          /\ "update" \notin Events => TrailOf(attached)
      BY <2>2, RequestRows, Attaching
    <3>2. TransitionAccepted(attached.status, "QUEUED_PAID")
      BY <1>3, <3>1 DEF WalletPay
    <3>3. "QUEUED_PAID" \in Statuses
      BY DEF Statuses
    <3> HIDE DEF attached
    <3> DEFINE after == Transitioned(attached, "QUEUED_PAID")
    <3>4. /\ after \in RequestRecord
          /\ "update" \notin Events => TrailOf(after)
      BY <3>1, <3>2, <3>3, TransitionedKeeps
    <3> QED
      BY <3>4, RequestValue DEF attached
  <2> HIDE DEF queued, charged, r, x
  <2>6. \A y \in Rows \cap DOMAIN change(p) : RowOk(y, change(p)[y])
    BY <2>3, <2>4, <2>5
  <2> HIDE DEF change
  <2> QED
    BY <1>1, <2>1, <2>6, CommitStep, EndStep DEF Return
<1> QED
  BY <1>2, <1>3

(* The last statement of starting work.                                     *)
LEMMA ConsumeOk ==
  ASSUME NEW w \in Workers, IInv, Consume(w)
  PROVE  StepOk(w)
<1> DEFINE x == PaymentRow(job[w].payment)
           old == work[x]
           consumed == [old EXCEPT !.consumed = TRUE]
<1>1. job[w].payment \in PaymentId
  BY DEF IInv, JobOk, PaymentSteps, Consume
<1>2. old \in PaymentRecord
  BY <1>1, PaymentRows
<1>3. Return(w, NoWrites) \/ Return(w, Put(x, consumed))
  BY DEF Consume
<1> HIDE DEF old
<1>4. consumed \in PaymentRecord
  BY <1>2 DEF PaymentRecord
<1> HIDE DEF consumed
<1>5. RowOk(x, consumed)
  BY <1>4, PaymentValue
<1> HIDE DEF x
<1> QED
  BY <1>3, <1>5, ReturnStep, ReturnNothing

(* An update saves the row it read, which only a system with updates does.  *)
LEMMA UpdateOk ==
  ASSUME NEW w \in Workers, IInv, UpdateSave(w)
  PROVE  StepOk(w)
<1> DEFINE r == job[w].request
           image == job[w].image
           x == RequestRow(r)
           value == [work[x] EXCEPT !.status = image.status,
                                    !.payment = image.payment]
<1>1. r \in Requests /\ "update" \in Events
  BY DEF IInv, JobOk, UpdateSave
<1>2. image \in RequestRecord
  BY DEF IInv, Jobs
<1>3. value \in RequestRecord
  BY <1>1, <1>2, RequestRows DEF RequestRecord
<1>4. RowOk(x, value)
  BY <1>1, <1>3, RequestValue
<1> QED
  BY <1>4, ReturnStep DEF UpdateSave

(* Every statement of a handler under way.                                  *)
LEMMA StatementOk ==
  ASSUME NEW w \in Workers, IInv, Statement(w)
  PROVE  StepOk(w)
BY InitOk, ApplyOk, MarkPaidOk, CreditOk, WalletOk, WalletPayOk, ConsumeOk,
   UpdateOk DEF Statement

(* A deadlock's victim, and a process that dies.                            *)
LEMMA FailureOk ==
  ASSUME NEW w \in Workers, IInv, DeadlockVictim(w) \/ Crash(w)
  PROVE  StepOk(w)
BY RaiseStep, ReturnNothing DEF DeadlockVictim, Crash

----------------------------------------------------------------------------
(* The invariant and what follows from it.                                  *)

(* The database starts with good rows and idle workers.                     *)
LEMMA InitIInv == Init => IInv
<1> SUFFICES ASSUME Init PROVE IInv
  OBVIOUS
<1>1. PICK wallets \in [Users -> {NoWallet} \cup
                                 {WalletWith(b) : b \in OpeningBalances}] :
        db = [x \in Rows |-> CASE x[1] = "payment" -> AbsentPayment
                               [] x[1] = "request" -> NewRequest
                               [] x[1] = "wallet" -> wallets[x[2]]
                               [] x[1] = "key" -> NoPayment]
  BY DEF Init
<1>2. \A u \in Users : wallets[u] \in WalletRecord /\ LedgerOf(wallets[u])
  <2>1. /\ NoWallet \in WalletRecord /\ LedgerOf(NoWallet)
        /\ \A b \in Nat : /\ WalletWith(b) \in WalletRecord
                          /\ LedgerOf(WalletWith(b))
    BY DEF NoWallet, WalletWith, WalletRecord, LedgerOf
  <2> QED
    BY <2>1, ConstantsOk
<1>3. AbsentPayment \in PaymentRecord
  BY DEF AbsentPayment, PaymentRecord
<1>4. NewRequest \in RequestRecord /\ TrailOf(NewRequest)
  BY DEF NewRequest, RequestRecord, Statuses, TrailOf
<1>5. ASSUME NEW x \in Rows PROVE RowOk(x, db[x])
  <2>1. CASE x[1] = "payment"
    BY <1>1, <1>3, <2>1 DEF RowOk
  <2>2. CASE x[1] = "request"
    BY <1>1, <1>4, <2>2 DEF RowOk
  <2>3. CASE x[1] = "wallet"
    <3>1. x[2] \in Users
      BY <2>3 DEF Rows
    <3>2. db[x] = wallets[x[2]]
      BY <1>1, <2>3
    <3> QED
      BY <1>2, <2>3, <3>1, <3>2 DEF RowOk
  <2>4. CASE x[1] = "key"
    BY <1>1, <2>4 DEF RowOk
  <2> QED
    BY <2>1, <2>2, <2>3, <2>4 DEF Rows
<1>6. TableOk(db) /\ TableOk(work)
  BY <1>5 DEF Init, TableOk
<1>7. pc \in [Workers -> Steps] /\ job \in [Workers -> Jobs]
  BY NoJobTyped DEF Init, Steps
<1>8. \A w \in Workers : JobOk(w)
  BY DEF Init, JobOk, PaymentSteps, IntentSteps
<1> QED
  BY <1>6, <1>7, <1>8 DEF Init, IInv

(* Every step keeps it.                                                     *)
LEMMA NextIInv == IInv /\ [Next]_vars => IInv'
<1> SUFFICES ASSUME IInv, [Next]_vars PROVE IInv'
  OBVIOUS
<1>1. CASE Next
  BY <1>1, ArrivalOk, StatementOk, FailureOk, StepKeepsIInv DEF Next
<1>2. CASE UNCHANGED vars
  BY <1>2 DEF vars, IInv, TableOk, JobOk, CoversPrice, UserWallet
<1> QED
  BY <1>1, <1>2

(* The inductive invariant: in both images of the database every row is     *)
(* typed, every wallet adds up, every request has the trail of its status   *)
(* (without the update endpoint); a handler under way has the request,      *)
(* payment, intent and key its next statement uses, and one about to debit  *)
(* still owns a wallet that covers the price it compared.                   *)
THEOREM Inductive == Spec => []IInv
BY InitIInv, NextIInv, PTL DEF Spec

(* Rows and local variables keep their types: in particular no interleaving *)
(* of debits, credits and rollbacks makes a balance negative, and no chain  *)
(* of transitions, callbacks and stale updates leaves the status choices.   *)
THEOREM TypeCorrect == Spec => []TypeOK
<1>1. IInv => TypeOK
  <2> SUFFICES ASSUME IInv PROVE TypeOK
    OBVIOUS
  <2>1. ASSUME NEW table, TableOk(table) PROVE TypedTables(table)
    BY <2>1 DEF TypedTables, TableOk, RowOk, Rows, PaymentRow, RequestRow,
                WalletRow, KeyRow
  <2> QED
    BY <2>1 DEF IInv, TypeOK
<1> QED
  BY <1>1, Inductive, PTL

(* The committed ledger of every wallet adds up, for any number of workers, *)
(* users, requests and payments: _credit_wallet_from_payment and            *)
(* pay_with_wallet never lose an update of a balance.                       *)
THEOREM LedgerCorrect == Spec => []LedgerAddsUp
<1>1. IInv => LedgerAddsUp
  BY DEF IInv, TableOk, RowOk, LedgerAddsUp, Rows, WalletRow
<1> QED
  BY <1>1, Inductive, PTL

(* Where no client uses the update endpoint, the status log of every        *)
(* request leads from SUBMITTED to its status by moves of the table.        *)
THEOREM TrailCorrect ==
  ASSUME "update" \notin Events
  PROVE  Spec => []AuditTrail
<1>1. IInv => AuditTrail
  BY DEF IInv, TableOk, RowOk, AuditTrail, Rows, RequestRow
<1> QED
  BY <1>1, Inductive, PTL

----------------------------------------------------------------------------
(* Handlers that do not overlap: one worker.                                *)

(* A request in progress has consumed its payment, in this image.           *)
ConsumedIn(table, r) ==
  LET request == table[RequestRow(r)] IN
  (/\ request.status = "IN_PROGRESS" /\ request.payment # NoPayment)
  => table[PaymentRow(request.payment)].consumed

(* A payment is not consumed before it is inserted.                         *)
Unconsumed(table) ==
  \A p \in PaymentId :
    ~ Exists(table[PaymentRow(p)]) => ~ table[PaymentRow(p)].consumed

(* A request points to a payment that exists.                               *)
Attachments(table) ==
  \A r \in Requests :
    LET p == table[RequestRow(r)].payment IN
    p # NoPayment => p \in PaymentId /\ Exists(table[PaymentRow(p)])

(* The rows: what nobody owns is committed, and an open transaction takes   *)
(* no payment back, nor a consumed mark, nor a key away from its payment.   *)
RowsAlone ==
  /\ \A x \in Rows : owner[x] = None => work[x] = db[x]
  /\ Unconsumed(db) /\ Unconsumed(work)
  /\ Attachments(db) /\ Attachments(work)
  /\ \A p \in PaymentId :
       /\ db[PaymentRow(p)].consumed => work[PaymentRow(p)].consumed
       /\ Exists(db[PaymentRow(p)]) => Exists(work[PaymentRow(p)])
  /\ \A k \in Keys : db[KeyRow(k)] # NoPayment
                       => work[KeyRow(k)] = db[KeyRow(k)]
  /\ \A r \in Requests : ConsumedIn(db, r)

(* The handler: between two handlers nothing is locked, only between two    *)
(* statements that go together is a request in progress with a payment not  *)
(* consumed, a new key is not bound yet, an accepted request is payable,    *)
(* the payment at hand exists and an update saves what was true and is.     *)
HandlerAlone(w) ==
  LET request == work[RequestRow(job[w].request)]
      image == job[w].image
  IN /\ pc[w] = "idle" => \A x \in Rows : owner[x] = None
     /\ \A r \in Requests :
          \/ ConsumedIn(work, r)
          \/ pc[w] \in {"transition", "consume"} /\ r = job[w].request
     /\ (/\ pc[w] = "init_insert" /\ job[w].key # None
         /\ job[w].payment = NoPayment) => db[KeyRow(job[w].key)] = NoPayment
     /\ pc[w] = "init_bind" => db[KeyRow(job[w].key)] = NoPayment
     /\ pc[w] \in {"init_bind", "init_attach"}
          => request.status \in PayableStatuses
     /\ pc[w] = "consume" => request.payment = job[w].payment
     /\ pc[w] \in PaymentSteps => Exists(work[PaymentRow(job[w].payment)])
     /\ (pc[w] = "update_save" /\ image.payment # NoPayment)
          => /\ image.payment \in PaymentId
             /\ Exists(work[PaymentRow(image.payment)])
             /\ image.status = "IN_PROGRESS"
                  => work[PaymentRow(image.payment)].consumed

(* All of this.                                                             *)
Alone(w) == Workers = {w} /\ IInv /\ RowsAlone /\ HandlerAlone(w)

(* What a step of the only worker has to establish; IInv has its own proof. *)
AloneStep(w) ==
  /\ RowsAlone' /\ HandlerAlone(w)'
  /\ \A k \in Keys : db[KeyRow(k)] # NoPayment
                       => db'[KeyRow(k)] = db[KeyRow(k)]

(* What a statement may write: it takes no payment and no mark back,        *)
KeepsPayments(change) ==
  \A p \in PaymentId : PaymentRow(p) \in DOMAIN change =>
    /\ work[PaymentRow(p)].consumed => change[PaymentRow(p)].consumed
    /\ Exists(work[PaymentRow(p)]) => Exists(change[PaymentRow(p)])
    /\ ~ Exists(change[PaymentRow(p)]) => ~ change[PaymentRow(p)].consumed

(* attaches payments that are there or that it inserts,                     *)
KeepsAttachments(change) ==
  \A r \in Requests :
    LET p == change[RequestRow(r)].payment IN
    (RequestRow(r) \in DOMAIN change /\ p # NoPayment)
      => /\ p \in PaymentId
         /\ \/ Exists(work[PaymentRow(p)])
            \/ /\ PaymentRow(p) \in DOMAIN change
               /\ Exists(change[PaymentRow(p)])

(* and binds new keys only.                                                 *)
KeepsKeys(change) ==
  \A k \in Keys : KeyRow(k) \in DOMAIN change =>
    \/ db[KeyRow(k)] = NoPayment
    \/ change[KeyRow(k)] = work[KeyRow(k)]

(* All of this.                                                             *)
ChangeAlone(change) ==
  /\ KeepsPayments(change) /\ KeepsAttachments(change) /\ KeepsKeys(change)

(* The rows by their identifiers.                                           *)
LEMMA AllRows ==
  /\ \A p \in PaymentId : PaymentRow(p) \in Rows
  /\ \A r \in Requests : RequestRow(r) \in Rows
  /\ \A k \in Keys : KeyRow(k) \in Rows
BY DEF PaymentRow, RequestRow, KeyRow, Rows

(* The only worker sees the uncommitted image.                              *)
LEMMA SeenAlone ==
  ASSUME NEW w, Alone(w), NEW x \in Rows
  PROVE  /\ owner[x] \in {w, None} /\ Seen(w, x) = work[x]
         /\ owner[x] = None => work[x] = db[x]
BY DEF Alone, IInv, RowsAlone, Seen

(* Requests point to payments that exist after a change, too.               *)
LEMMA AttachedStay ==
  ASSUME NEW w, Alone(w), NEW change, ChangeAlone(change)
  PROVE  Attachments(Overlay(change, work))
<1> DEFINE new == Overlay(change, work)
<1>1. \A x \in Rows : new[x] = IF x \in DOMAIN change THEN change[x]
                               ELSE work[x]
  BY DEF Overlay
<1> HIDE DEF new
<1>2. ASSUME NEW p \in PaymentId,
             \/ Exists(work[PaymentRow(p)])
             \/ /\ PaymentRow(p) \in DOMAIN change
                /\ Exists(change[PaymentRow(p)])
      PROVE  Exists(new[PaymentRow(p)])
  BY <1>1, <1>2, AllRows DEF ChangeAlone, KeepsPayments,
     KeepsAttachments, KeepsKeys
<1>3. ASSUME NEW r \in Requests, new[RequestRow(r)].payment # NoPayment
      PROVE  LET p == new[RequestRow(r)].payment IN
             p \in PaymentId /\ Exists(new[PaymentRow(p)])
  <2>1. CASE RequestRow(r) \in DOMAIN change
    BY <1>1, <1>2, <1>3, <2>1, AllRows DEF ChangeAlone, KeepsPayments,
     KeepsAttachments, KeepsKeys
  <2>2. CASE RequestRow(r) \notin DOMAIN change
    BY <1>1, <1>2, <1>3, <2>2, AllRows DEF Alone, RowsAlone, Attachments
  <2> QED  BY <2>1, <2>2
<1> QED
  BY <1>3 DEF Attachments, new

(* Statements inside a transaction.                                         *)
LEMMA WriteAlone ==
  ASSUME NEW w, Alone(w), NEW change, ChangeAlone(change), Write(w, change)
  PROVE  /\ RowsAlone' /\ db' = db /\ work' = Overlay(change, work)
         /\ \A p \in PaymentId :
              /\ work[PaymentRow(p)].consumed => work'[PaymentRow(p)].consumed
              /\ Exists(work[PaymentRow(p)]) => Exists(work'[PaymentRow(p)])
<1>1. db' = db /\ work' = Overlay(change, work)
  BY DEF Write
<1>2. \A x \in Rows : work'[x] = IF x \in DOMAIN change THEN change[x]
                                 ELSE work[x]
  BY <1>1 DEF Overlay
<1>3. \A x \in Rows : owner'[x] = None => work'[x] = db'[x]
  <2>1. \A x \in Rows : owner'[x] = IF x \in DOMAIN change THEN w
                                    ELSE owner[x]
    BY DEF Write
  <2> QED  BY <1>1, <1>2, <2>1, ConstantsOk DEF Alone, RowsAlone
<1>4. Unconsumed(work)'
  BY <1>2, AllRows DEF Unconsumed, ChangeAlone, KeepsPayments, Alone, RowsAlone
<1>5. \A p \in PaymentId :
        /\ work[PaymentRow(p)].consumed => work'[PaymentRow(p)].consumed
        /\ Exists(work[PaymentRow(p)]) => Exists(work'[PaymentRow(p)])
  BY <1>2, AllRows DEF ChangeAlone, KeepsPayments,
     KeepsAttachments, KeepsKeys
<1>6. \A k \in Keys : db'[KeyRow(k)] # NoPayment
                        => work'[KeyRow(k)] = db'[KeyRow(k)]
  BY <1>1, <1>2, AllRows DEF ChangeAlone, KeepsPayments,
     KeepsAttachments, KeepsKeys, Alone, RowsAlone
<1>7. /\ Unconsumed(db)' /\ Attachments(db)'
      /\ \A r \in Requests : ConsumedIn(db, r)'
  BY <1>1 DEF Alone, RowsAlone, Unconsumed, Attachments, ConsumedIn
<1>8. \A p \in PaymentId :
        /\ db'[PaymentRow(p)].consumed => work'[PaymentRow(p)].consumed
        /\ Exists(db'[PaymentRow(p)]) => Exists(work'[PaymentRow(p)])
  BY <1>1, <1>5 DEF Alone, RowsAlone
<1>9. Attachments(work)'
  BY <1>1, AttachedStay DEF Attachments
<1> QED
  BY <1>1, <1>3, <1>4, <1>5, <1>6, <1>7, <1>8, <1>9 DEF RowsAlone

(* A handler that ends knows nothing more.                                  *)
LEMMA EndAlone ==
  ASSUME NEW w, Alone(w), End(w), owner' = Released(w),
         \A r \in Requests : ConsumedIn(work, r)'
  PROVE  HandlerAlone(w)'
<1>1. \A x \in Rows : owner'[x] = None
  BY DEF Alone, IInv, Released
<1> QED
  BY <1>1 DEF Alone, IInv, End, HandlerAlone, PaymentSteps

(* A commit of the only worker makes the uncommitted image the database.    *)
LEMMA ReturnAlone ==
  ASSUME NEW w, Alone(w), NEW change, ChangeAlone(change),
         Return(w, change),
         \A r \in Requests : ConsumedIn(Overlay(change, work), r)
  PROVE  AloneStep(w)
<1>1. Commit(w, change) /\ work' = Overlay(change, work)
  BY DEF Return, Commit
<1>2. \A x \in Rows : work'[x] = IF x \in DOMAIN change THEN change[x]
                                 ELSE work[x]
  BY <1>1 DEF Overlay
<1>3. \A x \in Rows : db'[x] = work'[x]
  BY <1>1, <1>2, SeenAlone DEF Commit, Overlay
<1>4. Unconsumed(work)'
  BY <1>2, AllRows DEF Unconsumed, ChangeAlone, KeepsPayments, Alone, RowsAlone
<1>5. Unconsumed(db)'
  BY <1>3, <1>4, AllRows DEF Unconsumed
<1>6. \A r \in Requests : ConsumedIn(work, r)'
  BY <1>1 DEF ConsumedIn
<1>7. \A r \in Requests : ConsumedIn(db, r)'
  <2>1. db' = work'
    BY <1>1, <1>3 DEF Commit, Overlay
  <2> QED  BY <1>6, <2>1 DEF ConsumedIn
<1>8. \A k \in Keys : db[KeyRow(k)] # NoPayment
                        => db'[KeyRow(k)] = db[KeyRow(k)]
  BY <1>2, <1>3, AllRows DEF ChangeAlone, KeepsPayments,
     KeepsAttachments, KeepsKeys, Alone, RowsAlone
<1>9. RowsAlone'
  <2>1. Attachments(work)'
    BY <1>1, AttachedStay DEF Attachments
  <2>2. Attachments(db)'
    <3>1. db' = work'
      BY <1>1, <1>3 DEF Commit, Overlay
    <3> QED  BY <2>1, <3>1 DEF Attachments
  <2> QED  BY <1>3, <1>4, <1>5, <1>7, <2>1, <2>2, AllRows DEF RowsAlone
<1>10. HandlerAlone(w)'
  BY <1>6, EndAlone DEF Return, Commit
<1> QED
  BY <1>8, <1>9, <1>10 DEF AloneStep

(* A rollback of the only worker leaves nothing uncommitted.                *)
LEMMA RaiseAlone ==
  ASSUME NEW w, Alone(w), Raise(w)
  PROVE  AloneStep(w)
<1>1. db' = db
  BY DEF Raise, Rollback
<1>2. \A x \in Rows : work'[x] = db[x]
  BY SeenAlone DEF Raise, Rollback
<1>3. /\ Unconsumed(db)' /\ Unconsumed(work)'
      /\ Attachments(db)' /\ Attachments(work)'
  BY <1>1, <1>2, AllRows DEF Alone, RowsAlone, Unconsumed, Attachments
<1>4. \A r \in Requests : ConsumedIn(db, r)' /\ ConsumedIn(work, r)'
  <2>1. work' = [x \in Rows |-> work'[x]]
    BY DEF Raise, Rollback
  <2> SUFFICES ASSUME NEW r \in Requests
               PROVE  ConsumedIn(db, r)' /\ ConsumedIn(work, r)'
    OBVIOUS
  <2>2. ConsumedIn(db, r)'
    BY <1>1 DEF Alone, RowsAlone, ConsumedIn
  <2>3. db[RequestRow(r)].payment \in PaymentId \cup {NoPayment}
    BY RequestRows DEF Alone, RequestRecord
  <2> QED  BY <1>1, <1>2, <2>2, <2>3, AllRows DEF ConsumedIn
<1>5. HandlerAlone(w)'
  BY <1>4, EndAlone DEF Raise, Rollback
<1>6. RowsAlone'
  BY <1>1, <1>2, <1>3, <1>4, AllRows DEF RowsAlone
<1> QED
  BY <1>1, <1>5, <1>6 DEF AloneStep

(* A request after a change: what is written of it, or what it was, must    *)
(* not be in progress with a payment that is not consumed.                  *)
LEMMA ChangedConsumed ==
  ASSUME NEW w, Alone(w), NEW change, ChangeAlone(change),
         NEW r \in Requests, NEW request,
         request = IF RequestRow(r) \in DOMAIN change
                   THEN change[RequestRow(r)] ELSE work[RequestRow(r)],
         (request.status = "IN_PROGRESS" /\ request.payment # NoPayment)
           => /\ request.payment \in PaymentId
              /\ \/ work[PaymentRow(request.payment)].consumed
                 \/ /\ PaymentRow(request.payment) \in DOMAIN change
                    /\ change[PaymentRow(request.payment)].consumed
  PROVE  ConsumedIn(Overlay(change, work), r)
<1>1. Overlay(change, work)[RequestRow(r)] = request
  BY AllRows DEF Overlay
<1>2. ASSUME NEW p \in PaymentId,
             \/ work[PaymentRow(p)].consumed
             \/ /\ PaymentRow(p) \in DOMAIN change
                /\ change[PaymentRow(p)].consumed
      PROVE  Overlay(change, work)[PaymentRow(p)].consumed
  BY <1>2, AllRows DEF Overlay, ChangeAlone, KeepsPayments
<1> QED
  BY <1>1, <1>2 DEF ConsumedIn

(* A change of no request, where all requests were in order.                *)
LEMMA OthersConsumed ==
  ASSUME NEW w, Alone(w), NEW change, ChangeAlone(change),
         NEW r \in Requests, RequestRow(r) \notin DOMAIN change,
         ConsumedIn(work, r)
  PROVE  ConsumedIn(Overlay(change, work), r)
<1>1. work[RequestRow(r)].payment \in PaymentId \cup {NoPayment}
  BY RequestRows DEF Alone, RequestRecord
<1> QED
  BY <1>1, ChangedConsumed DEF ConsumedIn

(* Which row of a table is whose.                                           *)
LEMMA RowsDiffer ==
  /\ \A p, q : PaymentRow(p) = PaymentRow(q) => p = q
  /\ \A r, s : RequestRow(r) = RequestRow(s) => r = s
  /\ \A p, r : PaymentRow(p) # RequestRow(r)
  /\ \A p, k : PaymentRow(p) # KeyRow(k)
  /\ \A k, r : KeyRow(k) # RequestRow(r)
  /\ \A u, r : WalletRow(u) # RequestRow(r)
  /\ \A u, p : WalletRow(u) # PaymentRow(p)
  /\ \A u, k : WalletRow(u) # KeyRow(k)
BY DEF PaymentRow, RequestRow, KeyRow, WalletRow

(* The write of one row.                                                    *)
LEMMA PutDomain ==
  ASSUME NEW x, NEW value
  PROVE  DOMAIN Put(x, value) = {x} /\ Put(x, value)[x] = value
BY DEF Put

(* A payment with another status or mark is the payment still.              *)
LEMMA PaymentAlone ==
  ASSUME NEW p, NEW value, Exists(value),
         work[PaymentRow(p)].consumed => value.consumed
  PROVE  ChangeAlone(Put(PaymentRow(p), value))
<1> DEFINE change == Put(PaymentRow(p), value)
<1>1. DOMAIN change = {PaymentRow(p)} /\ change[PaymentRow(p)] = value
  BY PutDomain
<1> HIDE DEF change
<1>2. KeepsPayments(change)
  BY <1>1, RowsDiffer DEF KeepsPayments
<1>3. KeepsAttachments(change)
  BY <1>1, RowsDiffer DEF KeepsAttachments
<1>4. KeepsKeys(change)
  BY <1>1, RowsDiffer DEF KeepsKeys
<1> QED
  BY <1>2, <1>3, <1>4 DEF change, ChangeAlone

(* A request may change, as long as its payment exists.                     *)
LEMMA RequestAlone ==
  ASSUME NEW r, NEW value,
         value.payment # NoPayment
           => /\ value.payment \in PaymentId
              /\ Exists(work[PaymentRow(value.payment)])
  PROVE  ChangeAlone(Put(RequestRow(r), value))
<1> DEFINE change == Put(RequestRow(r), value)
<1>1. DOMAIN change = {RequestRow(r)} /\ change[RequestRow(r)] = value
  BY PutDomain
<1> HIDE DEF change
<1>2. KeepsPayments(change)
  BY <1>1, RowsDiffer DEF KeepsPayments
<1>3. KeepsAttachments(change)
  BY <1>1, RowsDiffer DEF KeepsAttachments
<1>4. KeepsKeys(change)
  BY <1>1, RowsDiffer DEF KeepsKeys
<1> QED
  BY <1>2, <1>3, <1>4 DEF change, ChangeAlone

(* Wallets are free to change, as far as the other tables go.               *)
LEMMA WalletAlone ==
  ASSUME NEW u, NEW value
  PROVE  ChangeAlone(Put(WalletRow(u), value))
<1> DEFINE change == Put(WalletRow(u), value)
<1>1. DOMAIN change = {WalletRow(u)} /\ change[WalletRow(u)] = value
  BY PutDomain
<1> HIDE DEF change
<1>2. KeepsPayments(change)
  BY <1>1, RowsDiffer DEF KeepsPayments
<1>3. KeepsAttachments(change)
  BY <1>1, RowsDiffer DEF KeepsAttachments
<1>4. KeepsKeys(change)
  BY <1>1, RowsDiffer DEF KeepsKeys
<1> QED
  BY <1>2, <1>3, <1>4 DEF change, ChangeAlone

(* Locking a row changes nothing.                                           *)
LEMMA LockAlone ==
  ASSUME NEW w, Alone(w), NEW x \in Rows, LockRow(w, x)
  PROVE  /\ RowsAlone' /\ db' = db
         /\ \A y \in Rows : work'[y] = work[y]
         /\ \A r \in Requests : ConsumedIn(work, r) => ConsumedIn(work, r)'
<1> DEFINE change == Put(x, work[x])
<1>1. Write(w, change)
  BY DEF LockRow, Put
<1>2. DOMAIN change = {x} /\ change[x] = work[x]
  BY PutDomain
<1> HIDE DEF change
<1>3. ChangeAlone(change)
  <2>1. \A y \in DOMAIN change : change[y] = work[y]
    BY <1>2
  <2>2. KeepsPayments(change)
    BY <2>1 DEF KeepsPayments, Alone, RowsAlone, Unconsumed
  <2>3. KeepsAttachments(change)
    BY <2>1 DEF KeepsAttachments, Alone, RowsAlone, Attachments
  <2>4. KeepsKeys(change)
    BY <2>1 DEF KeepsKeys
  <2> QED  BY <2>2, <2>3, <2>4 DEF ChangeAlone
<1>4. RowsAlone' /\ db' = db /\ work' = Overlay(change, work)
  BY <1>1, <1>3, WriteAlone
<1>5. \A y \in Rows : work'[y] = work[y]
  BY <1>2, <1>4 DEF Overlay
<1>6. ASSUME NEW r \in Requests, ConsumedIn(work, r)
      PROVE  ConsumedIn(work, r)'
  <2>1. work[RequestRow(r)].payment \in PaymentId \cup {NoPayment}
    BY RequestRows DEF Alone, RequestRecord
  <2> QED  BY <1>5, <1>6, <2>1, AllRows DEF ConsumedIn
<1> QED
  BY <1>4, <1>5, <1>6

(* A commit of one payment.                                                 *)
LEMMA ReturnPayment ==
  ASSUME NEW w, Alone(w), NEW p, NEW value, Exists(value),
         work[PaymentRow(p)].consumed => value.consumed,
         pc[w] \notin {"transition", "consume"},
         Return(w, Put(PaymentRow(p), value))
  PROVE  AloneStep(w)
<1> DEFINE change == Put(PaymentRow(p), value)
<1>1. ChangeAlone(change) /\ DOMAIN change = {PaymentRow(p)}
  BY PaymentAlone, PutDomain
<1>2. Return(w, change)
  OBVIOUS
<1> HIDE DEF change
<1>3. \A r \in Requests : ConsumedIn(work, r)
  BY DEF Alone, HandlerAlone
<1>4. \A r \in Requests : RequestRow(r) \notin DOMAIN change
  BY <1>1, RowsDiffer
<1> QED
  BY <1>1, <1>2, <1>3, <1>4, OthersConsumed, ReturnAlone

(* A commit of one wallet.                                                  *)
LEMMA ReturnWallet ==
  ASSUME NEW w, Alone(w), NEW u, NEW value,
         pc[w] \notin {"transition", "consume"},
         Return(w, Put(WalletRow(u), value))
  PROVE  AloneStep(w)
<1> DEFINE change == Put(WalletRow(u), value)
<1>1. ChangeAlone(change) /\ DOMAIN change = {WalletRow(u)}
  BY WalletAlone, PutDomain
<1>2. Return(w, change)
  OBVIOUS
<1> HIDE DEF change
<1>3. \A r \in Requests : ConsumedIn(work, r)
  BY DEF Alone, HandlerAlone
<1>4. \A r \in Requests : RequestRow(r) \notin DOMAIN change
  BY <1>1, RowsDiffer
<1> QED
  BY <1>1, <1>2, <1>3, <1>4, OthersConsumed, ReturnAlone

(* A commit of one request.                                                 *)
LEMMA ReturnRequest ==
  ASSUME NEW w, Alone(w), NEW s \in Requests, NEW value,
         pc[w] \notin {"transition", "consume"},
         value.payment # NoPayment
           => /\ value.payment \in PaymentId
              /\ Exists(work[PaymentRow(value.payment)])
              /\ value.status = "IN_PROGRESS"
                   => work[PaymentRow(value.payment)].consumed,
         Return(w, Put(RequestRow(s), value))
  PROVE  AloneStep(w)
<1> DEFINE change == Put(RequestRow(s), value)
<1>1. ChangeAlone(change) /\ DOMAIN change = {RequestRow(s)}
      /\ change[RequestRow(s)] = value
  BY RequestAlone, PutDomain
<1>2. Return(w, change)
  OBVIOUS
<1> HIDE DEF change
<1>3. ASSUME NEW r \in Requests PROVE ConsumedIn(Overlay(change, work), r)
  <2>1. CASE r = s
    BY <1>1, <2>1, ChangedConsumed
  <2>2. CASE r # s
    <3>1. RequestRow(r) \notin DOMAIN change
      BY <1>1, <2>2, RowsDiffer
    <3>2. ConsumedIn(work, r)
      BY DEF Alone, HandlerAlone
    <3> QED  BY <1>1, <3>1, <3>2, OthersConsumed
  <2> QED  BY <2>1, <2>2
<1> QED
  BY <1>1, <1>2, <1>3, ReturnAlone

(* A commit of what was written before.                                     *)
LEMMA ReturnEarlier ==
  ASSUME NEW w, Alone(w), Return(w, NoWrites),
         \A r \in Requests : ConsumedIn(work, r)
  PROVE  AloneStep(w)
<1>1. ChangeAlone(NoWrites) /\ DOMAIN NoWrites = {}
  BY DEF ChangeAlone, KeepsPayments,
     KeepsAttachments, KeepsKeys, NoWrites
<1>2. \A r \in Requests : ConsumedIn(Overlay(NoWrites, work), r)
  BY <1>1, OthersConsumed
<1> QED
  BY <1>1, <1>2, ReturnAlone

----------------------------------------------------------------------------
(* The first step of a handler.                                             *)
LEMMA StartAlone ==
  ASSUME NEW w, Alone(w), NEW step, NEW args, Start(w, step, args),
         step \notin {"idle", "transition", "consume", "init_bind",
                      "init_attach"},
         step = "init_insert" => args.key = None,
         step \in PaymentSteps => Exists(work[PaymentRow(args.payment)]),
         (step = "update_save" /\ args.image.payment # NoPayment)
           => /\ args.image.payment \in PaymentId
              /\ Exists(work[PaymentRow(args.image.payment)])
              /\ args.image.status = "IN_PROGRESS"
                   => work[PaymentRow(args.image.payment)].consumed
  PROVE  AloneStep(w)
<1>1. pc[w] = "idle" /\ UNCHANGED <<db, work, owner>>
      /\ pc'[w] = step /\ job'[w] = args
  BY DEF Start, Alone, IInv
<1>2. RowsAlone'
  BY <1>1 DEF Alone, RowsAlone, Unconsumed, Attachments, ConsumedIn
<1>3. \A r \in Requests : ConsumedIn(work, r)'
  BY <1>1 DEF Alone, HandlerAlone, ConsumedIn
<1>4. HandlerAlone(w)'
  BY <1>1, <1>3 DEF HandlerAlone
<1> QED
  BY <1>1, <1>2, <1>4 DEF AloneStep

(* The first step of a handler of a payment that is there.                  *)
LEMMA StartPayment ==
  ASSUME NEW w, Alone(w), NEW step \in {"lock_payment", "apply"}, NEW args,
         NEW p \in PaymentId, Exists(db[PaymentRow(p)]), args.payment = p,
         Start(w, step, args)
  PROVE  AloneStep(w)
<1>1. Exists(work[PaymentRow(args.payment)])
  BY DEF Alone, RowsAlone
<1> QED
  BY <1>1, StartAlone

(* A statement that goes on with the same local variables to a statement    *)
(* before which all is in order.                                            *)
LEMMA GotoAlone ==
  ASSUME NEW w, Alone(w), NEW step, Goto(w, step), RowsAlone', db' = db,
         step \notin {"idle", "transition", "consume", "init_bind",
                      "init_attach", "init_insert", "update_save"},
         step \in PaymentSteps => Exists(work[PaymentRow(job[w].payment)])',
         \A r \in Requests : ConsumedIn(work, r)'
  PROVE  AloneStep(w)
<1>1. pc'[w] = step
  BY DEF Goto, Alone, IInv
<1>2. HandlerAlone(w)'
  BY <1>1 DEF HandlerAlone
<1> QED
  BY <1>2 DEF AloneStep

(* The same without a write.                                                *)
LEMMA PassAlone ==
  ASSUME NEW w, Alone(w), NEW step, Goto(w, step),
         UNCHANGED <<db, work, owner>>,
         pc[w] \notin {"transition", "consume"},
         step \in PaymentSteps => pc[w] \in PaymentSteps,
         step \notin {"idle", "transition", "consume", "init_bind",
                      "init_attach", "init_insert", "update_save"}
  PROVE  AloneStep(w)
<1>1. RowsAlone'
  BY DEF Alone, RowsAlone, Unconsumed, Attachments, ConsumedIn
<1>2. \A r \in Requests : ConsumedIn(work, r)'
  BY DEF Alone, HandlerAlone, ConsumedIn
<1>3. step \in PaymentSteps => Exists(work[PaymentRow(job[w].payment)])'
  BY DEF Alone, HandlerAlone, Goto
<1> QED
  BY <1>1, <1>2, <1>3, GotoAlone

(* The same with a lock.                                                    *)
LEMMA GrabAlone ==
  ASSUME NEW w, Alone(w), NEW x \in Rows, NEW step, Goto(w, step),
         LockRow(w, x), pc[w] \notin {"transition", "consume"},
         step \in PaymentSteps => pc[w] \in PaymentSteps,
         step \notin {"idle", "transition", "consume", "init_bind",
                      "init_attach", "init_insert", "update_save"}
  PROVE  AloneStep(w)
<1>1. \A r \in Requests : ConsumedIn(work, r)
  BY DEF Alone, HandlerAlone
<1>2. step \in PaymentSteps => Exists(work[PaymentRow(job[w].payment)])'
  <2> SUFFICES ASSUME step \in PaymentSteps
               PROVE  Exists(work[PaymentRow(job[w].payment)])'
    OBVIOUS
  <2>1. /\ Exists(work[PaymentRow(job[w].payment)])
        /\ job[w].payment \in PaymentId /\ job' = job
    BY DEF Alone, HandlerAlone, IInv, JobOk, Goto
  <2> QED  BY <2>1, LockAlone, AllRows
<1> QED
  BY <1>1, <1>2, LockAlone, GotoAlone

(* Handlers begin.                                                          *)
LEMMA BeginsAlone ==
  ASSUME NEW w, Alone(w),
         \/ InitBegin(w) \/ CallbackBegin(w) \/ VerifyBegin(w)
         \/ WalletBegin(w) \/ AdminMarkSuccess(w)
  PROVE  AloneStep(w)
<1>1. CASE InitBegin(w)
  <2>1. PICK i \in Intents, g \in Gateways, a \in Amounts,
             k \in Keys \cup {None} :
          Start(w, IF k = None THEN "init_insert" ELSE "init_key",
                [NoJob EXCEPT !.intent = i, !.request = Resolve[i],
                              !.provider = g, !.amount = a, !.key = k])
    BY <1>1 DEF InitBegin
  <2> DEFINE args == [NoJob EXCEPT !.intent = i, !.request = Resolve[i],
                                   !.provider = g, !.amount = a, !.key = k]
             step == IF k = None THEN "init_insert" ELSE "init_key"
  <2>2. args.key = k
    BY DEF NoJob
  <2>3. step \in {"init_insert", "init_key"} /\ Start(w, step, args)
        /\ (step = "init_insert" => k = None)
    BY <2>1
  <2> HIDE DEF args, step
  <2> QED  BY <2>2, <2>3, StartAlone DEF PaymentSteps
<1>2. CASE CallbackBegin(w)
  <2>1. PICK i \in Intents, ok \in BOOLEAN, ref \in Refs \cup {None},
             p \in PaymentId :
          p \in Latest(i, "iran_gw") /\ Start(w, "lock_payment",
                [NoJob EXCEPT !.intent = i, !.request = Resolve[i],
                              !.payment = p, !.ok = ok, !.ref = ref])
    BY <1>2, LatestPayments DEF CallbackBegin
  <2> DEFINE args == [NoJob EXCEPT !.intent = i, !.request = Resolve[i],
                                   !.payment = p, !.ok = ok, !.ref = ref]
  <2>2. args.payment = p
    BY DEF NoJob
  <2>3. Exists(db[PaymentRow(p)])
    BY <2>1 DEF Latest
  <2>4. Start(w, "lock_payment", args)
    BY <2>1
  <2> HIDE DEF args
  <2> QED  BY <2>2, <2>3, <2>4, StartPayment
<1>3. CASE VerifyBegin(w)
  <2>1. PICK i \in Intents, ok \in BOOLEAN, sku \in BOOLEAN,
             ref \in Refs \cup {None}, p \in PaymentId :
          p \in Latest(i, "bazaar_iap") /\ Start(w, "lock_payment",
                [NoJob EXCEPT !.intent = i, !.request = Resolve[i],
                              !.payment = p, !.ok = ok, !.ref = ref,
                              !.sku = sku])
    BY <1>3, LatestPayments DEF VerifyBegin
  <2> DEFINE args == [NoJob EXCEPT !.intent = i, !.request = Resolve[i],
                                   !.payment = p, !.ok = ok, !.ref = ref,
                                   !.sku = sku]
  <2>2. args.payment = p
    BY DEF NoJob
  <2>3. Exists(db[PaymentRow(p)])
    BY <2>1 DEF Latest
  <2>4. Start(w, "lock_payment", args)
    BY <2>1
  <2> HIDE DEF args
  <2> QED  BY <2>2, <2>3, <2>4, StartPayment
<1>4. CASE WalletBegin(w)
  <2>1. PICK args : Start(w, "wallet_request", args)
    BY <1>4 DEF WalletBegin
  <2> QED  BY <2>1, StartAlone DEF PaymentSteps
<1>5. CASE AdminMarkSuccess(w)
  <2>1. PICK p \in PaymentId, i \in Intents :
          /\ Exists(db[PaymentRow(p)])
          /\ Start(w, "apply",
                [NoJob EXCEPT !.intent = i, !.request = Resolve[i],
                              !.payment = p,
                              !.ref = IF db[PaymentRow(p)].ref \in {None, ""}
                                      THEN "MANUAL"
                                      ELSE db[PaymentRow(p)].ref])
    BY <1>5 DEF AdminMarkSuccess
  <2> DEFINE args == [NoJob EXCEPT !.intent = i, !.request = Resolve[i],
                              !.payment = p,
                              !.ref = IF db[PaymentRow(p)].ref \in {None, ""}
                                      THEN "MANUAL"
                                      ELSE db[PaymentRow(p)].ref]
  <2>2. args.payment = p
    BY DEF NoJob
  <2>3. Start(w, "apply", args)
    BY <2>1
  <2> HIDE DEF args
  <2> QED  BY <2>1, <2>2, <2>3, StartPayment
<1> QED
  BY <1>1, <1>2, <1>3, <1>4, <1>5

(* The administrator's marks of one UPDATE.                                 *)
LEMMA MarksAlone ==
  ASSUME NEW w, Alone(w), AdminMarkFailed(w) \/ AdminMarkConsumed(w)
  PROVE  AloneStep(w)
<1> USE DEF Exists
<1>1. \A p \in PaymentId :
        LET old == work[PaymentRow(p)] IN
        /\ old \in PaymentRecord
        /\ [old EXCEPT !.status = "failed"].status = "failed"
        /\ [old EXCEPT !.status = "failed"].consumed = old.consumed
        /\ [old EXCEPT !.consumed = TRUE].status = old.status
        /\ [old EXCEPT !.consumed = TRUE].consumed
  BY PaymentRows DEF Alone, PaymentRecord
<1>2. CASE AdminMarkFailed(w)
  BY <1>1, <1>2, ReturnPayment DEF AdminMarkFailed
<1>3. CASE AdminMarkConsumed(w)
  <2>1. PICK p \in PaymentId :
          /\ pc[w] = "idle" /\ db[PaymentRow(p)].status # "absent"
          /\ Return(w, Put(PaymentRow(p),
                           [work[PaymentRow(p)] EXCEPT !.consumed = TRUE]))
    BY <1>3 DEF AdminMarkConsumed
  <2>2. work[PaymentRow(p)] = db[PaymentRow(p)]
    BY <2>1, SeenAlone, AllRows DEF Alone, HandlerAlone
  <2> QED
    BY <1>1, <2>1, <2>2, ReturnPayment
<1> QED
  BY <1>2, <1>3

(* A move that starts no work.                                              *)
LEMMA MoveAlone ==
  ASSUME NEW w, Alone(w), NEW r \in Requests, NEW target, Move(w, r, target)
  PROVE  AloneStep(w)
<1> DEFINE old == work[RequestRow(r)]
           new == Moved(old, target)
<1>1. old \in RequestRecord
  BY RequestRows DEF Alone
<1>2. new.status = target /\ new.payment = old.payment
  BY <1>1 DEF Moved, RequestRecord
<1>3. Return(w, Put(RequestRow(r), new)) /\ pc[w] = "idle"
      /\ ~ (target = "IN_PROGRESS" /\ old.payment # NoPayment)
  BY DEF Move, StartsWork
<1>4. old.payment # NoPayment
        => /\ old.payment \in PaymentId
           /\ Exists(work[PaymentRow(old.payment)])
  BY DEF Alone, RowsAlone, Attachments
<1> HIDE DEF new, old
<1> QED
  BY <1>2, <1>3, <1>4, ReturnRequest

(* Work starts, and its payment is consumed next.                           *)
LEMMA StaffStartAlone ==
  ASSUME NEW w, Alone(w), StaffStartWork(w)
  PROVE  AloneStep(w)
<1>1. PICK s \in Requests :
        /\ pc[w] = "idle" /\ work[RequestRow(s)].payment # NoPayment
        /\ Write(w, Put(RequestRow(s),
                        Moved(work[RequestRow(s)], "IN_PROGRESS")))
        /\ pc' = [pc EXCEPT ![w] = "consume"]
        /\ job' = [job EXCEPT ![w] = [NoJob EXCEPT
                         !.request = s,
                         !.payment = work[RequestRow(s)].payment]]
  BY DEF StaffStartWork, StartsWork
<1> DEFINE old == work[RequestRow(s)]
           new == Moved(old, "IN_PROGRESS")
           change == Put(RequestRow(s), new)
<1>2. old \in RequestRecord
  BY RequestRows DEF Alone
<1>3. new.payment = old.payment
  BY <1>2 DEF Moved, RequestRecord
<1>4. pc'[w] = "consume" /\ job'[w].request = s
      /\ job'[w].payment = old.payment
  BY <1>1 DEF Alone, IInv, NoJob
<1>5. old.payment \in PaymentId /\ Exists(work[PaymentRow(old.payment)])
  BY <1>1 DEF Alone, RowsAlone, Attachments
<1>6. Write(w, change)
  BY <1>1
<1> HIDE DEF old, new
<1>7. /\ Write(w, change) /\ ChangeAlone(change)
      /\ DOMAIN change = {RequestRow(s)} /\ change[RequestRow(s)] = new
  BY <1>3, <1>5, <1>6, RequestAlone, PutDomain
<1> HIDE DEF change
<1>8. /\ RowsAlone' /\ db' = db /\ work' = Overlay(change, work)
      /\ Exists(work'[PaymentRow(old.payment)])
  BY <1>5, <1>7, WriteAlone
<1>9. work'[RequestRow(s)].payment = job'[w].payment
  BY <1>3, <1>4, <1>7, <1>8, AllRows DEF Overlay
<1>10. \A r \in Requests \ {s} : ConsumedIn(work, r)'
  <2>1. \A r \in Requests \ {s} :
          RequestRow(r) \notin DOMAIN change /\ ConsumedIn(work, r)
    BY <1>1, <1>7, RowsDiffer DEF Alone, HandlerAlone
  <2>2. \A r \in Requests \ {s} : ConsumedIn(Overlay(change, work), r)
    BY <1>7, <2>1, OthersConsumed
  <2> QED  BY <1>8, <2>2 DEF ConsumedIn
<1>11. HandlerAlone(w)'
  BY <1>4, <1>8, <1>9, <1>10 DEF HandlerAlone
<1> QED
  BY <1>8, <1>11 DEF AloneStep

(* The payment of the work that starts is consumed.                         *)
LEMMA ConsumeAlone ==
  ASSUME NEW w, Alone(w), Consume(w)
  PROVE  AloneStep(w)
<1> DEFINE s == job[w].request
           p == job[w].payment
           old == work[PaymentRow(p)]
           new == [old EXCEPT !.consumed = TRUE]
           change == Put(PaymentRow(p), new)
<1>1. pc[w] = "consume" /\ s \in Requests /\ p \in PaymentId
  BY DEF Alone, IInv, JobOk, PaymentSteps, Consume
<1>2. work[RequestRow(s)].payment = p
      /\ \A r \in Requests \ {s} : ConsumedIn(work, r)
  BY <1>1 DEF Alone, HandlerAlone
<1>3. Seen(w, PaymentRow(p)) = old
  BY <1>1, SeenAlone, AllRows
<1>4. old \in PaymentRecord
  BY <1>1, PaymentRows DEF Alone
<1>5. CASE old.consumed
  <2>1. ConsumedIn(work, s)
    BY <1>2, <1>5 DEF ConsumedIn
  <2>2. Return(w, NoWrites)
    BY <1>3, <1>5 DEF Consume
  <2> QED  BY <1>2, <2>1, <2>2, ReturnEarlier
<1>6. CASE ~ old.consumed
  <2>1. Return(w, change)
    BY <1>3, <1>6 DEF Consume
  <2>2. new.consumed /\ new.status = old.status
    BY <1>4 DEF PaymentRecord
  <2>3. Exists(old)
    BY <1>1 DEF Alone, HandlerAlone, PaymentSteps
  <2>4. Exists(new)
    BY <2>2, <2>3 DEF Exists
  <2>5. DOMAIN change = {PaymentRow(p)} /\ change[PaymentRow(p)] = new
    BY PutDomain
  <2> HIDE DEF new
  <2>6. ChangeAlone(change)
    BY <2>2, <2>4, PaymentAlone
  <2> HIDE DEF change
  <2>7. \A r \in Requests : RequestRow(r) \notin DOMAIN change
    BY <2>5, RowsDiffer
  <2>8. ConsumedIn(Overlay(change, work), s)
    BY <1>1, <1>2, <2>2, <2>5, <2>6, <2>7, ChangedConsumed
  <2>9. \A r \in Requests : ConsumedIn(Overlay(change, work), r)
    BY <1>2, <2>6, <2>7, <2>8, OthersConsumed
  <2> QED  BY <2>1, <2>6, <2>9, ReturnAlone
<1> QED
  BY <1>5, <1>6

(* An update begins with the row as it is, and saves it.                    *)
LEMMA UpdateAlone ==
  ASSUME NEW w, Alone(w), UpdateBegin(w) \/ UpdateSave(w)
  PROVE  AloneStep(w)
<1>1. CASE UpdateBegin(w)
  <2>1. PICK r \in Requests :
          Start(w, "update_save", [NoJob EXCEPT !.request = r,
                                                !.image = db[RequestRow(r)]])
    BY <1>1 DEF UpdateBegin
  <2> DEFINE image == db[RequestRow(r)]
             args == [NoJob EXCEPT !.request = r, !.image = image]
  <2>2. args.image = image /\ Start(w, "update_save", args)
    BY <2>1 DEF NoJob
  <2>3. image.payment # NoPayment
          => /\ image.payment \in PaymentId
             /\ Exists(work[PaymentRow(image.payment)])
             /\ image.status = "IN_PROGRESS"
                  => work[PaymentRow(image.payment)].consumed
    BY DEF Alone, RowsAlone, Attachments, ConsumedIn
  <2> HIDE DEF args, image
  <2> QED  BY <2>2, <2>3, StartAlone DEF PaymentSteps
<1>2. CASE UpdateSave(w)
  <2> DEFINE s == job[w].request
             old == work[RequestRow(s)]
             image == job[w].image
             new == [old EXCEPT !.status = image.status,
                                !.payment = image.payment]
  <2>1. pc[w] = "update_save" /\ s \in Requests
    BY <1>2 DEF UpdateSave, Alone, IInv, JobOk
  <2>2. old \in RequestRecord
    BY <2>1, RequestRows DEF Alone
  <2>3. new.status = image.status /\ new.payment = image.payment
    BY <2>2 DEF RequestRecord
  <2>4. image.payment # NoPayment
          => /\ image.payment \in PaymentId
             /\ Exists(work[PaymentRow(image.payment)])
             /\ image.status = "IN_PROGRESS"
                  => work[PaymentRow(image.payment)].consumed
    BY <2>1 DEF Alone, HandlerAlone
  <2>5. Return(w, Put(RequestRow(s), new))
    BY <1>2 DEF UpdateSave
  <2> HIDE DEF new, image
  <2> QED  BY <2>1, <2>3, <2>4, <2>5, ReturnRequest
<1> QED
  BY <1>1, <1>2

(* The key is looked up.                                                    *)
LEMMA LockKeyAlone ==
  ASSUME NEW w, Alone(w), InitLockKey(w)
  PROVE  AloneStep(w)
<1> DEFINE x == KeyRow(job[w].key)
<1>1. pc[w] = "init_key" /\ job[w].key \in Keys /\ x \in Rows
  BY AllRows DEF InitLockKey, Alone, IInv, JobOk
<1>2. \A r \in Requests : ConsumedIn(work, r)
  BY <1>1 DEF Alone, HandlerAlone
<1>3. CASE db[x] = NoPayment
  <2>1. Goto(w, "init_insert") /\ UNCHANGED <<db, work, owner>>
    BY <1>3 DEF InitLockKey
  <2>2. pc'[w] = "init_insert" /\ job' = job
    BY <2>1 DEF Goto, Alone, IInv
  <2>3. RowsAlone'
    BY <2>1 DEF Alone, RowsAlone, Unconsumed, Attachments, ConsumedIn
  <2>4. HandlerAlone(w)'
    BY <1>2, <1>3, <2>1, <2>2 DEF HandlerAlone, PaymentSteps, ConsumedIn
  <2> QED  BY <2>1, <2>3, <2>4 DEF AloneStep
<1>4. CASE db[x] # NoPayment
  <2>1. /\ LockRow(w, x) /\ pc' = [pc EXCEPT ![w] = "init_insert"]
        /\ job' = [job EXCEPT ![w].payment = work[x]]
    BY <1>4 DEF InitLockKey
  <2>2. pc'[w] = "init_insert" /\ job'[w].payment = work[x]
    BY <2>1 DEF Alone, IInv, Jobs
  <2>3. work[x] = db[x]
    BY <1>1, <1>4 DEF Alone, RowsAlone
  <2>4. RowsAlone' /\ db' = db /\ \A r \in Requests : ConsumedIn(work, r)'
    BY <1>1, <1>2, <2>1, LockAlone
  <2>5. HandlerAlone(w)'
    BY <1>4, <2>2, <2>3, <2>4 DEF HandlerAlone, PaymentSteps
  <2> QED  BY <2>4, <2>5 DEF AloneStep
<1> QED
  BY <1>3, <1>4

(* The identifier of the next payment belongs to none that is there.        *)
LEMMA NextIsNew ==
  ASSUME NEW p \in NextPayment \cap PaymentId
  PROVE  ~ Exists(work[PaymentRow(p)])
<1>1. p \in Nat
  BY DEF PaymentId
<1> QED
  BY <1>1 DEF NextPayment

(* A new payment.                                                           *)
LEMMA NewAlone ==
  ASSUME NEW w, Alone(w), NEW p \in NextPayment \cap PaymentId
  PROVE  /\ ~ Exists(work[PaymentRow(p)])
         /\ ~ work[PaymentRow(p)].consumed
BY NextIsNew DEF Alone, RowsAlone, Unconsumed

(* The payment is inserted.                                                 *)
LEMMA InsertAlone ==
  ASSUME NEW w, Alone(w), InitInsert(w)
  PROVE  AloneStep(w)
<1>1. PICK p \in NextPayment \cap PaymentId :
        /\ Write(w, Put(PaymentRow(p),
                        NewPayment(job[w].intent, job[w].provider,
                                   job[w].amount, "initiated")))
        /\ job' = [job EXCEPT ![w].payment = p]
        /\ pc' = [pc EXCEPT ![w] = IF job[w].key = None THEN "init_attach"
                                   ELSE "init_bind"]
  BY DEF InitInsert
<1> DEFINE new == NewPayment(job[w].intent, job[w].provider,
                             job[w].amount, "initiated")
           change == Put(PaymentRow(p), new)
           s == job[w].request
<1>2. pc[w] = "init_insert" /\ s \in Requests
  BY DEF InitInsert, Alone, IInv, JobOk
<1>3. /\ work[RequestRow(s)].status \in PayableStatuses
      /\ job[w].payment = NoPayment
  BY <1>2, SeenAlone, AllRows DEF InitInsert, InitAccepted
<1>4. Exists(new) /\ ~ work[PaymentRow(p)].consumed
  BY NewAlone DEF NewPayment, Exists
<1>5. /\ Write(w, change) /\ DOMAIN change = {PaymentRow(p)}
      /\ change[PaymentRow(p)] = new
  BY <1>1, PutDomain
<1> HIDE DEF new
<1>6. ChangeAlone(change)
  BY <1>4, PaymentAlone
<1> HIDE DEF change
<1>7. RowsAlone' /\ db' = db /\ work' = Overlay(change, work)
  BY <1>5, <1>6, WriteAlone
<1>8. \A r \in Requests : ConsumedIn(work, r)'
  <2>1. \A r \in Requests :
          RequestRow(r) \notin DOMAIN change /\ ConsumedIn(work, r)
    BY <1>2, <1>5, RowsDiffer DEF Alone, HandlerAlone
  <2>2. \A r \in Requests : ConsumedIn(Overlay(change, work), r)
    BY <1>6, <2>1, OthersConsumed
  <2> QED  BY <1>7, <2>2 DEF ConsumedIn
<1>9. /\ work'[RequestRow(s)] = work[RequestRow(s)]
      /\ work'[PaymentRow(p)] = new
  BY <1>2, <1>5, <1>7, RowsDiffer, AllRows DEF Overlay
<1>10. /\ job'[w].payment = p /\ job'[w].request = s
       /\ job'[w].key = job[w].key
  BY <1>1 DEF Alone, IInv, Jobs
<1>11. job[w].key # None => db[KeyRow(job[w].key)] = NoPayment
  BY <1>2, <1>3 DEF Alone, HandlerAlone
<1>12. \/ pc'[w] = "init_attach"
       \/ pc'[w] = "init_bind" /\ job[w].key # None
  BY <1>1 DEF Alone, IInv
<1>13. HandlerAlone(w)'
  BY <1>3, <1>4, <1>7, <1>8, <1>9, <1>10, <1>11, <1>12 DEF HandlerAlone
<1> QED
  BY <1>7, <1>13 DEF AloneStep

(* The key is bound.                                                        *)
LEMMA BindAlone ==
  ASSUME NEW w, Alone(w), InitBindKey(w)
  PROVE  AloneStep(w)
<1> DEFINE k == job[w].key
           change == Put(KeyRow(k), job[w].payment)
           s == job[w].request
           p == job[w].payment
<1>1. /\ pc[w] = "init_bind" /\ s \in Requests /\ p \in PaymentId
      /\ Write(w, change) /\ Goto(w, "init_attach")
  BY DEF InitBindKey, Alone, IInv, JobOk, PaymentSteps
<1>2. /\ db[KeyRow(k)] = NoPayment
      /\ work[RequestRow(s)].status \in PayableStatuses
      /\ Exists(work[PaymentRow(p)])
      /\ \A r \in Requests : ConsumedIn(work, r)
  BY <1>1 DEF Alone, HandlerAlone, PaymentSteps
<1>3. DOMAIN change = {KeyRow(k)}
  BY PutDomain
<1> HIDE DEF change
<1>4. \A l \in Keys : KeyRow(l) \in DOMAIN change => db[KeyRow(l)] = NoPayment
  BY <1>2, <1>3
<1>5. /\ \A q : PaymentRow(q) \notin DOMAIN change
      /\ \A r : RequestRow(r) \notin DOMAIN change
  BY <1>3, RowsDiffer
<1>6. ChangeAlone(change)
  BY <1>4, <1>5
  DEF ChangeAlone, KeepsPayments, KeepsAttachments, KeepsKeys
<1>7. RowsAlone' /\ db' = db /\ work' = Overlay(change, work)
  BY <1>1, <1>6, WriteAlone
<1>8. \A r \in Requests : ConsumedIn(work, r)'
  <2>1. \A r \in Requests : ConsumedIn(Overlay(change, work), r)
    BY <1>2, <1>5, <1>6, OthersConsumed
  <2> QED  BY <1>7, <2>1 DEF ConsumedIn
<1>9. /\ work'[RequestRow(s)] = work[RequestRow(s)]
      /\ work'[PaymentRow(p)] = work[PaymentRow(p)]
  BY <1>1, <1>5, <1>7, AllRows DEF Overlay
<1>10. pc'[w] = "init_attach" /\ job' = job
  BY <1>1 DEF Goto, Alone, IInv
<1>11. HandlerAlone(w)'
  BY <1>2, <1>8, <1>9, <1>10 DEF HandlerAlone
<1> QED
  BY <1>7, <1>11 DEF AloneStep

(* A handler that knows its payment writes its request and goes on.         *)
LEMMA RequestGoes ==
  ASSUME NEW w, Alone(w), NEW value,
         NEW step \in {"init_provider", "transition", "credit"},
         pc[w] \in PaymentSteps \ {"consume"},
         value.payment # NoPayment
           => /\ value.payment \in PaymentId
              /\ Exists(work[PaymentRow(value.payment)]),
         step = "transition" \/ value.status # "IN_PROGRESS",
         Write(w, Put(RequestRow(job[w].request), value)), Goto(w, step)
  PROVE  AloneStep(w)
<1> DEFINE s == job[w].request
           p == job[w].payment
           change == Put(RequestRow(s), value)
<1>1. /\ s \in Requests /\ p \in PaymentId /\ pc[w] # "idle"
      /\ Exists(work[PaymentRow(p)])
      /\ \A r \in Requests \ {s} : ConsumedIn(work, r)
  BY DEF Alone, IInv, JobOk, PaymentSteps, HandlerAlone
<1>2. /\ Write(w, change) /\ ChangeAlone(change)
      /\ DOMAIN change = {RequestRow(s)} /\ change[RequestRow(s)] = value
  BY RequestAlone, PutDomain
<1> HIDE DEF change
<1>3. /\ RowsAlone' /\ db' = db /\ work' = Overlay(change, work)
      /\ Exists(work'[PaymentRow(p)])
  BY <1>1, <1>2, WriteAlone
<1>4. \A r \in Requests \ {s} : ConsumedIn(work, r)'
  <2>1. \A r \in Requests \ {s} : RequestRow(r) \notin DOMAIN change
    BY <1>2, RowsDiffer
  <2>2. \A r \in Requests \ {s} : ConsumedIn(Overlay(change, work), r)
    BY <1>1, <1>2, <2>1, OthersConsumed
  <2> QED  BY <1>3, <2>2 DEF ConsumedIn
<1>5. work'[RequestRow(s)] = value
  BY <1>1, <1>2, <1>3, AllRows DEF Overlay
<1>6. pc'[w] = step /\ job' = job
  BY DEF Goto, Alone, IInv
<1>7. step # "transition" => ConsumedIn(work', s)
  BY <1>5 DEF ConsumedIn
<1>8. HandlerAlone(w)'
  BY <1>3, <1>4, <1>6, <1>7 DEF HandlerAlone
<1> QED
  BY <1>3, <1>8 DEF AloneStep

(* The new payment is attached, and the handler commits.                    *)
LEMMA AttachAlone ==
  ASSUME NEW w, Alone(w), InitAttach(w) \/ InitProvider(w)
  PROVE  AloneStep(w)
<1> DEFINE s == job[w].request
           p == job[w].payment
           old == work[RequestRow(s)]
           attached == [old EXCEPT !.payment = p]
<1>1. pc[w] \in {"init_attach", "init_provider"} /\ p \in PaymentId
      /\ s \in Requests
  BY DEF InitAttach, InitProvider, Alone, IInv, JobOk, PaymentSteps
<1>2. Exists(work[PaymentRow(p)])
  BY <1>1 DEF Alone, HandlerAlone, PaymentSteps
<1>3. CASE InitAttach(w)
  <2>1. /\ Write(w, Put(RequestRow(s), attached)) /\ Goto(w, "init_provider")
        /\ pc[w] = "init_attach"
    BY <1>3 DEF InitAttach
  <2>2. old.status \in PayableStatuses /\ old \in RequestRecord
    BY <1>1, <2>1, RequestRows DEF Alone, HandlerAlone
  <2>3. attached.payment = p /\ attached.status # "IN_PROGRESS"
    BY <2>2 DEF RequestRecord, PayableStatuses
  <2> HIDE DEF attached
  <2> QED
    BY <1>1, <1>2, <2>1, <2>3, RequestGoes DEF PaymentSteps
<1>4. CASE InitProvider(w)
  <2>1. PICK status \in {"pending", "initiated"} :
          Return(w, Put(PaymentRow(p),
                        [work[PaymentRow(p)] EXCEPT !.status = status]))
    BY <1>4 DEF InitProvider
  <2> DEFINE paid == work[PaymentRow(p)]
             new == [paid EXCEPT !.status = status]
  <2>2. paid \in PaymentRecord
    BY <1>1, PaymentRows DEF Alone
  <2>3. new.status = status /\ new.consumed = paid.consumed
    BY <2>2 DEF PaymentRecord
  <2>4. Exists(new)
    BY <2>3 DEF Exists
  <2> HIDE DEF new
  <2>5. Return(w, Put(PaymentRow(p), new))
    BY <2>1 DEF new
  <2> QED
    BY <1>1, <2>3, <2>4, <2>5, ReturnPayment
<1> QED
  BY <1>3, <1>4

(* The payment is locked, refused, or fails.                                *)
LEMMA AnswerAlone ==
  ASSUME NEW w, Alone(w), LockPayment(w) \/ ApplyFail(w)
  PROVE  AloneStep(w)
<1> DEFINE p == job[w].payment
<1>1. p \in PaymentId /\ pc[w] \in {"lock_payment", "apply"}
  BY DEF LockPayment, ApplyFail, Alone, IInv, JobOk, PaymentSteps
<1>2. CASE LockPayment(w)
  BY <1>1, <1>2, GrabAlone, AllRows DEF LockPayment, PaymentSteps
<1>3. CASE ApplyFail(w)
  <2> DEFINE old == work[PaymentRow(p)]
             new == [old EXCEPT !.status = "failed"]
  <2>1. old \in PaymentRecord
    BY <1>1, PaymentRows DEF Alone
  <2>2. new.status = "failed" /\ new.consumed = old.consumed
    BY <2>1 DEF PaymentRecord
  <2>3. Exists(new)
    BY <2>2 DEF Exists
  <2>4. Return(w, Put(PaymentRow(p), new))
    BY <1>3 DEF ApplyFail
  <2> HIDE DEF new
  <2> QED
    BY <1>1, <2>2, <2>3, <2>4, ReturnPayment
<1> QED
  BY <1>2, <1>3

(* The payment succeeds.                                                    *)
LEMMA SuccessAlone ==
  ASSUME NEW w, Alone(w), ApplySuccess(w)
  PROVE  AloneStep(w)
<1> DEFINE p == job[w].payment
           old == work[PaymentRow(p)]
           new == [old EXCEPT !.status = "success", !.ref = job[w].ref]
           change == Put(PaymentRow(p), new)
<1>1. /\ p \in PaymentId /\ pc[w] = "apply" /\ Write(w, change)
      /\ Goto(w, "mark_paid")
  BY DEF ApplySuccess, Alone, IInv, JobOk, PaymentSteps
<1>2. old \in PaymentRecord
  BY <1>1, PaymentRows DEF Alone
<1>3. new.status = "success" /\ new.consumed = old.consumed
  BY <1>2 DEF PaymentRecord
<1>4. Exists(new) /\ DOMAIN change = {PaymentRow(p)}
      /\ change[PaymentRow(p)] = new
  BY <1>3, PutDomain DEF Exists
<1> HIDE DEF new
<1>5. ChangeAlone(change)
  BY <1>3, <1>4, PaymentAlone
<1> HIDE DEF change
<1>6. RowsAlone' /\ db' = db /\ work' = Overlay(change, work)
  BY <1>1, <1>5, WriteAlone
<1>7. \A r \in Requests : ConsumedIn(work, r)'
  <2>1. \A r \in Requests :
          RequestRow(r) \notin DOMAIN change /\ ConsumedIn(work, r)
    BY <1>1, <1>4, RowsDiffer DEF Alone, HandlerAlone
  <2>2. \A r \in Requests : ConsumedIn(Overlay(change, work), r)
    BY <1>5, <2>1, OthersConsumed
  <2> QED  BY <1>6, <2>2 DEF ConsumedIn
<1>8. work'[PaymentRow(p)] = new /\ job' = job
  BY <1>1, <1>4, <1>6, AllRows DEF Overlay, Goto
<1>9. Exists(work[PaymentRow(job[w].payment)])'
  BY <1>4, <1>8
<1> QED
  BY <1>1, <1>6, <1>7, <1>9, GotoAlone

(* mark_paid attaches the payment and moves the request.                    *)
LEMMA PaidAlone ==
  ASSUME NEW w, Alone(w), MarkPaid(w) \/ PaidTransition(w)
  PROVE  AloneStep(w)
<1> DEFINE s == job[w].request
           p == job[w].payment
           old == work[RequestRow(s)]
<1>1. pc[w] \in {"mark_paid", "transition"} /\ p \in PaymentId
      /\ s \in Requests
  BY DEF MarkPaid, PaidTransition, Alone, IInv, JobOk, PaymentSteps
<1>2. Exists(work[PaymentRow(p)])
  BY <1>1 DEF Alone, HandlerAlone, PaymentSteps
<1>3. old \in RequestRecord
  BY <1>1, RequestRows DEF Alone
<1>4. CASE MarkPaid(w)
  <2>1. pc[w] = "mark_paid" /\ Goto(w, "transition")
    BY <1>4 DEF MarkPaid
  <2>2. CASE UNCHANGED <<db, work, owner>>
    <3>1. pc'[w] = "transition" /\ job' = job
      BY <2>1 DEF Goto, Alone, IInv
    <3>2. RowsAlone'
      BY <2>2 DEF Alone, RowsAlone, Unconsumed, Attachments, ConsumedIn
    <3>3. \A r \in Requests : ConsumedIn(work, r)'
      BY <2>1, <2>2 DEF Alone, HandlerAlone, ConsumedIn
    <3>4. HandlerAlone(w)'
      BY <1>2, <2>2, <3>1, <3>3 DEF HandlerAlone
    <3> QED  BY <2>2, <3>2, <3>4 DEF AloneStep
  <2>3. CASE ~ UNCHANGED <<db, work, owner>>
    <3> DEFINE attached == [old EXCEPT !.payment = p]
    <3>1. Write(w, Put(RequestRow(s), attached))
      BY <1>4, <2>3 DEF MarkPaid
    <3>2. attached.payment = p
      BY <1>3 DEF RequestRecord
    <3> HIDE DEF attached
    <3> QED
      BY <1>1, <1>2, <2>1, <3>1, <3>2, RequestGoes DEF PaymentSteps
  <2> QED  BY <2>2, <2>3
<1>5. CASE PaidTransition(w)
  <2> DEFINE new == Transitioned(old, "QUEUED_PAID")
  <2>1. /\ Write(w, Put(RequestRow(s), new)) /\ Goto(w, "credit")
        /\ pc[w] = "transition"
    BY <1>5 DEF PaidTransition
  <2>2. new.status = "QUEUED_PAID" /\ new.payment = old.payment
    BY <1>3 DEF Transitioned, Moved, RequestRecord
  <2>3. old.payment # NoPayment
          => /\ old.payment \in PaymentId
             /\ Exists(work[PaymentRow(old.payment)])
    BY <1>1 DEF Alone, RowsAlone, Attachments
  <2> HIDE DEF new
  <2> QED
    BY <1>1, <2>1, <2>2, <2>3, RequestGoes DEF PaymentSteps
<1> QED
  BY <1>4, <1>5

(* The wallet is credited.                                                  *)
LEMMA CreditAlone ==
  ASSUME NEW w, Alone(w),
         \/ CreditNothing(w) \/ Credit(w) \/ CreditNoWallet(w)
         \/ CreateWallet(w)
  PROVE  AloneStep(w)
<1>1. pc[w] \in {"credit", "create_wallet"}
  BY DEF CreditNothing, Credit, CreditNoWallet, CreateWallet
<1>2. \A r \in Requests : ConsumedIn(work, r)
  BY <1>1 DEF Alone, HandlerAlone
<1>3. CASE CreditNothing(w)
  BY <1>2, <1>3, ReturnEarlier DEF CreditNothing
<1>4. CASE CreditNoWallet(w)
  BY <1>1, <1>4, PassAlone DEF CreditNoWallet, PaymentSteps
<1>5. CASE Credit(w) \/ (CreateWallet(w) /\ ~ Raise(w))
  <2>1. PICK value : Return(w, Put(UserWallet(w), value))
    BY <1>5 DEF Credit, CreateWallet
  <2> QED
    BY <1>1, <2>1, ReturnWallet DEF UserWallet
<1>6. CASE Raise(w)
  BY <1>6, RaiseAlone
<1> QED
  BY <1>3, <1>4, <1>5, <1>6

(* A wallet payment checks its request and its wallet.                      *)
LEMMA WalletAsks ==
  ASSUME NEW w, Alone(w), WalletRequest(w) \/ WalletDebit(w)
  PROVE  AloneStep(w)
<1>1. /\ pc[w] \in {"wallet_request", "wallet_debit"}
      /\ job[w].request \in Requests
  BY DEF WalletRequest, WalletDebit, Alone, IInv, JobOk
<1>2. RequestRow(job[w].request) \in Rows /\ UserWallet(w) \in Rows
  BY <1>1, AllRows, ConstantsOk DEF UserWallet, WalletRow, Rows
<1>3. CASE WalletRequest(w)
  BY <1>1, <1>2, <1>3, GrabAlone, RaiseAlone DEF WalletRequest, PaymentSteps
<1>4. CASE WalletDebit(w)
  BY <1>1, <1>2, <1>4, GrabAlone, RaiseAlone DEF WalletDebit, PaymentSteps
<1> QED
  BY <1>3, <1>4

(* A wallet payment writes its four rows and commits.                       *)
LEMMA WalletPayAlone ==
  ASSUME NEW w, Alone(w), WalletPay(w)
  PROVE  AloneStep(w)
<1> DEFINE s == job[w].request
           r == RequestRow(s)
           x == UserWallet(w)
           booked(p) == Booked(work[x], 0 - CoinPrice[s], p)
           queued(p) == Transitioned([work[r] EXCEPT !.payment = p],
                                     "QUEUED_PAID")
<1>1. PICK p \in NextPayment \cap PaymentId :
        Return(w, [y \in {PaymentRow(p), x, r} |->
                     CASE y = PaymentRow(p) -> WalletPayment(w)
                       [] y = x -> booked(p)
                       [] y = r -> queued(p)])
  BY DEF WalletPay
<1> DEFINE change == [y \in {PaymentRow(p), x, r} |->
                        CASE y = PaymentRow(p) -> WalletPayment(w)
                          [] y = x -> booked(p)
                          [] y = r -> queued(p)]
<1>2. pc[w] = "wallet_pay" /\ s \in Requests
  BY DEF WalletPay, Alone, IInv, JobOk
<1>3. Exists(WalletPayment(w)) /\ ~ work[PaymentRow(p)].consumed
  BY NewAlone DEF WalletPayment, NewPayment, Exists
<1>4. queued(p).status = "QUEUED_PAID" /\ queued(p).payment = p
  <2>1. work[r] \in RequestRecord
    BY <1>2, RequestRows DEF Alone
  <2> QED  BY <2>1 DEF Transitioned, Moved, RequestRecord
<1>5. /\ DOMAIN change = {PaymentRow(p), x, r}
      /\ change[PaymentRow(p)] = WalletPayment(w)
      /\ change[r] = queued(p)
  BY RowsDiffer DEF UserWallet
<1>6. Return(w, change)
  BY <1>1
<1> HIDE DEF change, booked, queued
<1>7. \A q : PaymentRow(q) \in DOMAIN change => q = p
  BY <1>5, RowsDiffer DEF UserWallet
<1>8. \A q : RequestRow(q) \in DOMAIN change => q = s
  BY <1>5, RowsDiffer DEF UserWallet
<1>9. \A k : KeyRow(k) \notin DOMAIN change
  BY <1>5, RowsDiffer DEF UserWallet
<1>10. ChangeAlone(change)
  <2>1. KeepsPayments(change)
    BY <1>3, <1>5, <1>7 DEF KeepsPayments
  <2>2. KeepsAttachments(change)
    BY <1>3, <1>4, <1>5, <1>8 DEF KeepsAttachments
  <2>3. KeepsKeys(change)
    BY <1>9 DEF KeepsKeys
  <2> QED  BY <2>1, <2>2, <2>3 DEF ChangeAlone
<1>11. ASSUME NEW q \in Requests PROVE ConsumedIn(Overlay(change, work), q)
  <2>1. CASE q = s
    BY <1>2, <1>4, <1>5, <1>10, <2>1, ChangedConsumed
  <2>2. CASE q # s
    <3>1. RequestRow(q) \notin DOMAIN change /\ ConsumedIn(work, q)
      BY <1>2, <1>8, <2>2 DEF Alone, HandlerAlone
    <3> QED  BY <1>10, <3>1, OthersConsumed
  <2> QED  BY <2>1, <2>2
<1> QED
  BY <1>6, <1>10, <1>11, ReturnAlone

(* A ring of waiting workers has two members.                               *)
LEMMA NoRing ==
  ASSUME NEW w, Workers = {w}
  PROVE  ~ DeadlockVictim(w)
BY DEF DeadlockVictim, Deadlocked, InRing

(* Every step of the only worker.                                           *)
LEMMA StepAlone ==
  ASSUME NEW w, Alone(w),
         Arrival(w) \/ Statement(w) \/ DeadlockVictim(w) \/ Crash(w)
  PROVE  AloneStep(w)
<1>1. CASE Arrival(w)
  <2>1. CASE Enqueue(w) \/ StaffMove(w)
    BY <2>1, MoveAlone DEF Enqueue, StaffMove
  <2>2. CASE StaffStartWork(w)
    BY <2>2, StaffStartAlone
  <2>3. CASE UpdateBegin(w)
    BY <2>3, UpdateAlone
  <2>4. CASE AdminMarkFailed(w) \/ AdminMarkConsumed(w)
    BY <2>4, MarksAlone
  <2> QED  BY <1>1, <2>1, <2>2, <2>3, <2>4, BeginsAlone DEF Arrival
<1>2. CASE Statement(w)
  <2>1. CASE \/ InitRefused(w) \/ InitKeyTaken(w) \/ RefuseSku(w)
             \/ ApplyClash(w) \/ PaidTransitionRefused(w)
             \/ WalletPayRefused(w)
    BY <2>1, RaiseAlone
    DEF InitRefused, InitKeyTaken, RefuseSku, ApplyClash,
        PaidTransitionRefused, WalletPayRefused
  <2>2. CASE InitLockKey(w) \/ InitInsert(w) \/ InitBindKey(w)
    BY <2>2, LockKeyAlone, InsertAlone, BindAlone
  <2>3. CASE InitAttach(w) \/ InitProvider(w)
    BY <2>3, AttachAlone
  <2>4. CASE LockPayment(w) \/ ApplyFail(w) \/ ApplySuccess(w)
    BY <2>4, AnswerAlone, SuccessAlone
  <2>5. CASE MarkPaid(w) \/ PaidTransition(w)
    BY <2>5, PaidAlone
  <2>6. CASE \/ CreditNothing(w) \/ Credit(w) \/ CreditNoWallet(w)
             \/ CreateWallet(w)
    BY <2>6, CreditAlone
  <2>7. CASE WalletRequest(w) \/ WalletDebit(w) \/ WalletPay(w)
    BY <2>7, WalletAsks, WalletPayAlone
  <2>8. CASE Consume(w) \/ UpdateSave(w)
    BY <2>8, ConsumeAlone, UpdateAlone
  <2> QED
    BY <1>2, <2>1, <2>2, <2>3, <2>4, <2>5, <2>6, <2>7, <2>8 DEF Statement
<1>3. CASE DeadlockVictim(w)
  BY <1>3, NoRing DEF Alone
<1>4. CASE Crash(w)
  BY <1>4, RaiseAlone DEF Crash
<1> QED
  BY <1>1, <1>2, <1>3, <1>4

(* The database starts without payments and keys.                           *)
LEMMA InitAlone ==
  ASSUME NEW w, Workers = {w}, Init
  PROVE  Alone(w)
<1>1. /\ \A p \in PaymentId : db[PaymentRow(p)] = AbsentPayment
      /\ \A r \in Requests : db[RequestRow(r)] = NewRequest
      /\ \A k \in Keys : db[KeyRow(k)] = NoPayment
  BY AllRows DEF Init, PaymentRow, RequestRow, KeyRow
<1>2. work = db /\ pc[w] = "idle" /\ \A x \in Rows : owner[x] = None
  BY DEF Init
<1>3. RowsAlone
  BY <1>1, <1>2 DEF RowsAlone, Unconsumed, Attachments, ConsumedIn, NewRequest,
                    AbsentPayment, Exists
<1>4. HandlerAlone(w)
  BY <1>1, <1>2 DEF HandlerAlone, ConsumedIn, NewRequest, PaymentSteps
<1> QED
  BY <1>3, <1>4, InitIInv DEF Alone

(* Every step of the only worker keeps the invariant, and every key.        *)
LEMMA NextAlone ==
  ASSUME NEW w, Alone(w), [Next]_vars
  PROVE  /\ Alone(w)'
         /\ \A k \in Keys : db[KeyRow(k)] # NoPayment
                              => db'[KeyRow(k)] = db[KeyRow(k)]
<1>1. IInv' /\ Workers = {w}
  BY NextIInv DEF Alone
<1>2. CASE Next
  <2>1. AloneStep(w)
    BY <1>1, <1>2, StepAlone DEF Next
  <2> QED  BY <1>1, <2>1 DEF Alone, AloneStep
<1>3. CASE UNCHANGED vars
  <2>1. RowsAlone'
    BY <1>3 DEF Alone, RowsAlone, Unconsumed, Attachments, ConsumedIn, vars
  <2>2. HandlerAlone(w)'
    BY <1>3 DEF Alone, HandlerAlone, ConsumedIn, vars
  <2> QED  BY <1>1, <1>3, <2>1, <2>2 DEF Alone, vars
<1> QED
  BY <1>2, <1>3

(* When handlers do not overlap, a request in progress has consumed the     *)
(* payment it points to: no new payment is attached behind the back of the  *)
(* start of work and no consumption is lost to a deadlock, however many     *)
(* payments, updates, marks and crashes there are in between.               *)
THEOREM WorkIsConsumedSerial ==
  ASSUME NEW w, Workers = {w}
  PROVE  Spec => []WorkIsConsumed
<1>1. Init => Alone(w)
  BY InitAlone
<1>2. Alone(w) /\ [Next]_vars => Alone(w)'
  BY NextAlone
<1>3. Alone(w) => WorkIsConsumed
  BY DEF Alone, RowsAlone, ConsumedIn, WorkIsConsumed
<1> QED
  BY <1>1, <1>2, <1>3, PTL DEF Spec

(* When handlers do not overlap, an idempotency key stays with the payment  *)
(* it was bound to: the lookup of create_payment returns that payment.      *)
THEOREM KeyIsStableSerial ==
  ASSUME NEW w, Workers = {w}
  PROVE  Spec => KeyIsStable
<1>1. Init => Alone(w)
  BY InitAlone
<1>2. Alone(w) /\ [Next]_vars => Alone(w)'
  BY NextAlone
<1>3. Alone(w) /\ [Next]_vars
        => [\A k \in Keys : db[KeyRow(k)] # NoPayment
                              => db'[KeyRow(k)] = db[KeyRow(k)]]_vars
  BY NextAlone
<1> QED
  BY <1>1, <1>2, <1>3, PTL DEF Spec, KeyIsStable
====
