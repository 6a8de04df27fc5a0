---- MODULE CheckoutProofs ----
(***************************************************************************)
(* Proofs about Billing: every commit is one step of Checkout.              *)
(***************************************************************************)
EXTENDS BookingProofs

(* The statements of apply_success after it has marked the payment, the     *)
(* last of them from the moment the request is in the paid queue.           *)
PaidSteps == {"mark_paid", "transition", "credit", "create_wallet"}

CreditSteps == {"credit", "create_wallet"}

(* A payment that is not there shows nothing.                               *)
Blank(value) ==
  ~ Exists(value) => PaymentView(value) = PaymentView(AbsentPayment)

(* The uncommitted image of a row follows the committed one: no payment     *)
(* loses its success before the commit, an absent payment has no columns,   *)
(* and a row that nobody owns is committed.                                 *)
Follows ==
  /\ \A p \in PaymentId :
       LET x == PaymentRow(p) IN
       /\ db[x].status = "success" => work[x].status = "success"
       /\ Blank(db[x]) /\ Blank(work[x])
  /\ \A x \in Rows : owner[x] = None => work[x] = db[x]

(* The unique index: one success per intent, in the uncommitted image.      *)
SuccessIsUnique ==
  \A p, q \in PaymentId :
    (/\ work[PaymentRow(p)].status = "success"
     /\ work[PaymentRow(q)].status = "success"
     /\ work[PaymentRow(p)].intent = work[PaymentRow(q)].intent) => p = q

(* A request that took one move of the table.                               *)
MovedFrom(old, new, target) ==
  /\ TransitionAllowed(old.status, target)
  /\ RequestView(new) = RequestView(Moved(old, target))

(* How an open transaction has changed the row of a payment,                *)
PaymentTouched(w, x) ==
  \/ work[x] = db[x]
  \/ x = PaymentRow(job[w].payment) /\ pc[w] \in InsertSteps \cup PaidSteps

(* and that of a request.                                                   *)
RequestTouched(w, x) ==
  \/ RequestView(work[x]) = RequestView(db[x])
  \/ /\ x = RequestRow(job[w].request)
     /\ \/ pc[w] \in CreditSteps /\ MovedFrom(db[x], work[x], "QUEUED_PAID")
        \/ pc[w] = "consume" /\ MovedFrom(db[x], work[x], "IN_PROGRESS")

(* An open transaction has changed the rows it owns in no other way.        *)
RowsTouched(w) ==
  \A x \in Rows : owner[x] = w =>
    /\ pc[w] # "idle"
    /\ x[1] = "payment" => PaymentTouched(w, x)
    /\ x[1] = "request" => RequestTouched(w, x)

(* What a handler knows of its rows: the payment it inserts is not          *)
(* committed and is a gateway's, and one that is being settled is locked,   *)
(* marked and, from the credit on, in the paid queue.                       *)
HandlerKnows(w) ==
  LET p == PaymentRow(job[w].payment)
      r == RequestRow(job[w].request)
  IN /\ pc[w] \in {"init_key", "init_insert"} => job[w].amount \in Amounts
     /\ pc[w] \in InsertSteps =>
          /\ ~ Exists(db[p])
          /\ work[p].provider \in Gateways /\ work[p].amount \in Amounts
     /\ pc[w] \in PaidSteps => owner[p] = w /\ work[p].status = "success"
     /\ pc[w] \in CreditSteps => work[r].status = "QUEUED_PAID"

(* The invariant of the refinement.                                         *)
PInv == /\ Follows /\ SuccessIsUnique
        /\ \A w \in Workers : RowsTouched(w) /\ HandlerKnows(w)

----------------------------------------------------------------------------
(* Rows.                                                                    *)

(* The rows that other workers own are left alone.                          *)
OthersStay(w) ==
  \A v \in Workers \ {w} : \A x \in Rows :
    /\ owner'[x] = v => owner[x] = v
    /\ owner[x] = v => db'[x] = db[x] /\ work'[x] = work[x] /\ owner'[x] = v

(* What a value has to be like for a statement to write it.                 *)
ValueFollows(x, value) ==
  x[1] = "payment" => /\ Blank(value)
                      /\ db[x].status = "success" => value.status = "success"

(* The rows of payments.                                                    *)
LEMMA PaymentIsRow ==
  \A p \in PaymentId : PaymentRow(p) \in Rows /\ PaymentRow(p)[1] = "payment"
BY DEF PaymentRow, Rows

(* Every row of the payment table belongs to a payment.                     *)
LEMMA RowOfPayment ==
  ASSUME NEW x \in Rows, x[1] = "payment"
  PROVE  \E p \in PaymentId : x = PaymentRow(p)
BY DEF PaymentRow, Rows

(* A statement that writes one row.                                         *)
LEMMA WriteFollows ==
  ASSUME NEW w \in Workers, NEW x, NEW value, Follows,
         x \in Rows => ValueFollows(x, value), Write(w, Put(x, value))
  PROVE  /\ Follows' /\ OthersStay(w) /\ db' = db
         /\ \A y \in Rows : /\ work'[y] = IF y = x THEN value ELSE work[y]
                            /\ owner'[y] = IF y = x THEN w ELSE owner[y]
<1>1. DOMAIN Put(x, value) = {x} /\ Put(x, value)[x] = value
  BY DEF Put
<1>2. db' = db /\ Available(w, x)
  BY <1>1 DEF Write
<1>3. \A y \in Rows : /\ work'[y] = IF y = x THEN value ELSE work[y]
                      /\ owner'[y] = IF y = x THEN w ELSE owner[y]
  BY <1>1 DEF Write, Overlay
<1>4. ASSUME NEW p \in PaymentId
      PROVE  LET y == PaymentRow(p) IN
             /\ db'[y].status = "success" => work'[y].status = "success"
             /\ Blank(db'[y]) /\ Blank(work'[y])
  BY <1>2, <1>3, PaymentIsRow DEF Follows, ValueFollows
<1>5. Follows'
  BY <1>2, <1>3, <1>4, ConstantsOk DEF Follows
<1>6. OthersStay(w)
  BY <1>2, <1>3, ConstantsOk DEF OthersStay, Available
<1> QED
  BY <1>2, <1>3, <1>5, <1>6

(* The last writes of a transaction.                                        *)
LEMMA CommitFollows ==
  ASSUME NEW w \in Workers, NEW change, Follows, Commit(w, change),
         \A x \in Rows \cap DOMAIN change :
           x[1] = "payment" => Blank(change[x])
  PROVE  /\ Follows' /\ OthersStay(w)
         /\ \A x \in Rows :
              /\ owner'[x] # w
              /\ x \in DOMAIN change => work'[x] = change[x]
              /\ x \notin DOMAIN change => work'[x] = work[x]
<1>1. \A x \in Rows :
        /\ work'[x] = IF x \in DOMAIN change THEN change[x] ELSE work[x]
        /\ db'[x] = IF x \in DOMAIN change \/ owner[x] = w
                    THEN work'[x] ELSE db[x]
        /\ owner'[x] = IF owner[x] = w THEN None ELSE owner[x]
        /\ x \in DOMAIN change => owner[x] \in {w, None}
  BY DEF Commit, Overlay, Released, Available
<1>2. ASSUME NEW p \in PaymentId
      PROVE  LET y == PaymentRow(p) IN
             /\ db'[y].status = "success" => work'[y].status = "success"
             /\ Blank(db'[y]) /\ Blank(work'[y])
  BY <1>1, PaymentIsRow DEF Follows
<1>3. \A x \in Rows : owner'[x] = None => work'[x] = db'[x]
  BY <1>1 DEF Follows
<1>4. Follows'
  BY <1>2, <1>3 DEF Follows
<1>5. OthersStay(w)
  BY <1>1, ConstantsOk DEF OthersStay
<1> QED
  BY <1>1, <1>4, <1>5, ConstantsOk

(* A transaction that is rolled back.                                       *)
LEMMA RollbackFollows ==
  ASSUME NEW w \in Workers, Follows, Rollback(w)
  PROVE  /\ Follows' /\ OthersStay(w) /\ db' = db
         /\ \A x \in Rows : owner'[x] # w /\ work'[x] \in {work[x], db[x]}
<1>1. /\ db' = db
      /\ \A x \in Rows :
           /\ work'[x] = IF owner[x] = w THEN db[x] ELSE work[x]
           /\ owner'[x] = IF owner[x] = w THEN None ELSE owner[x]
  BY DEF Rollback, Released
<1>2. ASSUME NEW p \in PaymentId
      PROVE  LET y == PaymentRow(p) IN
             /\ db'[y].status = "success" => work'[y].status = "success"
             /\ Blank(db'[y]) /\ Blank(work'[y])
  BY <1>1, PaymentIsRow DEF Follows
<1>3. Follows'
  BY <1>1, <1>2 DEF Follows
<1>4. OthersStay(w)
  BY <1>1, ConstantsOk DEF OthersStay
<1> QED
  BY <1>1, <1>3, <1>4, ConstantsOk

(* A step that leaves the database alone.                                   *)
LEMMA SameFollows ==
  ASSUME NEW w \in Workers, Follows, UNCHANGED <<db, work, owner>>
  PROVE  Follows' /\ OthersStay(w)
BY DEF Follows, OthersStay

(* No success is added.                                                     *)
LEMMA UniqueStays ==
  ASSUME SuccessIsUnique,
         \A p \in PaymentId : work'[PaymentRow(p)].status = "success" =>
           /\ work[PaymentRow(p)].status = "success"
           /\ work'[PaymentRow(p)].intent = work[PaymentRow(p)].intent
  PROVE  SuccessIsUnique'
BY DEF SuccessIsUnique

(* The index lets one success more in.                                      *)
LEMMA UniqueGrows ==
  ASSUME SuccessIsUnique, NEW p \in PaymentId,
         \A q \in PaymentId \ {p} : work'[PaymentRow(q)].status = "success" =>
           /\ work[PaymentRow(q)].status = "success"
           /\ work'[PaymentRow(q)].intent = work[PaymentRow(q)].intent
           /\ work[PaymentRow(q)].intent # work'[PaymentRow(p)].intent
  PROVE  SuccessIsUnique'
BY DEF SuccessIsUnique

(* What the checks of full_clean and of the unique index rule out.          *)
LEMMA NoClash ==
  ASSUME NEW w \in Workers, NEW p \in PaymentId, NEW payment, Follows,
         payment.status = "success",
         Clash(w, p, payment) = {}, IndexWait(w, p, payment) = {}
  PROVE  \A q \in PaymentId \ {p} :
           work[PaymentRow(q)].status = "success"
             => work[PaymentRow(q)].intent # payment.intent
<1> SUFFICES ASSUME NEW q \in PaymentId \ {p},
                    work[PaymentRow(q)].status = "success",
                    work[PaymentRow(q)].intent = payment.intent
             PROVE  FALSE
  OBVIOUS
<1>1. Conflict(work[PaymentRow(q)], payment)
  BY DEF Conflict
<1>2. Available(w, PaymentRow(q))
  BY <1>1 DEF IndexWait
<1>3. Seen(w, PaymentRow(q)) = work[PaymentRow(q)]
  BY <1>2, PaymentIsRow DEF Available, Seen, Follows
<1> QED
  BY <1>1, <1>3 DEF Clash

----------------------------------------------------------------------------
(* Handlers.                                                                *)

(* What a step of worker w has to establish.                                *)
StepKnows(w) == /\ Follows' /\ SuccessIsUnique' /\ OthersStay(w)
                /\ RowsTouched(w)' /\ HandlerKnows(w)'

(* A payment is written without giving it a success.                        *)
NoNewSuccess(x, value) ==
  x[1] = "payment" /\ value.status = "success" =>
    work[x].status = "success" /\ value.intent = work[x].intent

(* A handler that ends owns nothing.                                        *)
LEMMA EndKnows ==
  ASSUME NEW w \in Workers, IInv, End(w), \A x \in Rows : owner'[x] # w
  PROVE  RowsTouched(w)' /\ HandlerKnows(w)'
<1>1. pc'[w] = "idle"
  BY DEF IInv, End
<1> QED
  BY <1>1 DEF RowsTouched, HandlerKnows, InsertSteps, PaidSteps, CreditSteps

(* A handler that raises.                                                   *)
LEMMA RaiseKnows ==
  ASSUME NEW w \in Workers, IInv, BInv, PInv, Raise(w)
  PROVE  StepKnows(w)
<1>1. /\ Follows' /\ OthersStay(w) /\ db' = db
      /\ \A x \in Rows : owner'[x] # w /\ work'[x] \in {work[x], db[x]}
  BY RollbackFollows DEF Raise, PInv
<1>2. ASSUME NEW p \in PaymentId, work'[PaymentRow(p)].status = "success"
      PROVE  /\ work[PaymentRow(p)].status = "success"
             /\ work'[PaymentRow(p)].intent = work[PaymentRow(p)].intent
  <2>1. CASE work'[PaymentRow(p)] = work[PaymentRow(p)]
    BY <1>2, <2>1
  <2>2. CASE work'[PaymentRow(p)] = db[PaymentRow(p)]
    <3>1. Exists(db[PaymentRow(p)])
      BY <1>2, <2>2 DEF Exists
    <3>2. work[PaymentRow(p)].intent = db[PaymentRow(p)].intent
      BY <3>1, PaymentIsRow DEF BInv, RowsGood, RowFits
    <3> QED
      BY <1>2, <2>2, <3>2 DEF PInv, Follows
  <2> QED
    BY <1>1, <2>1, <2>2, PaymentIsRow
<1>3. SuccessIsUnique'
  BY <1>2, UniqueStays DEF PInv
<1> QED
  BY <1>1, <1>3, EndKnows DEF Raise, StepKnows

(* A handler that commits, without a new success.                           *)
LEMMA CommitKnows ==
  ASSUME NEW w \in Workers, NEW change, IInv, PInv, Return(w, change),
         \A x \in Rows \cap DOMAIN change :
           /\ x[1] = "payment" => Blank(change[x])
           /\ NoNewSuccess(x, change[x])
  PROVE  StepKnows(w)
<1>1. /\ Follows' /\ OthersStay(w)
      /\ \A x \in Rows :
           /\ owner'[x] # w
           /\ x \in DOMAIN change => work'[x] = change[x]
           /\ x \notin DOMAIN change => work'[x] = work[x]
  BY CommitFollows DEF Return, PInv
<1>2. SuccessIsUnique'
  BY <1>1, UniqueStays, PaymentIsRow DEF PInv, NoNewSuccess
<1> QED
  BY <1>1, <1>2, EndKnows DEF Return, StepKnows

(* A handler that commits one more row.                                     *)
LEMMA ReturnKnows ==
  ASSUME NEW w \in Workers, NEW x, NEW value, IInv, PInv,
         x \in Rows => /\ x[1] = "payment" => Blank(value)
                       /\ NoNewSuccess(x, value),
         Return(w, Put(x, value))
  PROVE  StepKnows(w)
<1>1. \A y \in Rows \cap DOMAIN Put(x, value) :
        /\ y[1] = "payment" => Blank(Put(x, value)[y])
        /\ NoNewSuccess(y, Put(x, value)[y])
  BY DEF Put
<1> QED
  BY <1>1, CommitKnows

(* A handler that commits what it wrote earlier.                            *)
LEMMA ReturnNothingKnows ==
  ASSUME NEW w \in Workers, IInv, PInv, Return(w, NoWrites)
  PROVE  StepKnows(w)
<1>1. DOMAIN NoWrites = {}
  BY DEF NoWrites
<1> QED
  BY <1>1, CommitKnows

(* The next statement keeps what the rows of the handler were touched for.  *)
GoesOn(w) ==
  /\ pc'[w] # "idle" /\ pc[w] # "consume"
  /\ pc[w] \in InsertSteps \cup PaidSteps =>
       /\ pc'[w] \in InsertSteps \cup PaidSteps
       /\ job'[w].payment = job[w].payment
  /\ pc[w] \in CreditSteps =>
       /\ pc'[w] \in CreditSteps
       /\ job'[w].request = job[w].request

(* A row the next statement does not write stays touched as it was.         *)
LEMMA StillTouched ==
  ASSUME NEW w \in Workers, NEW x \in Rows, GoesOn(w), RowsTouched(w),
         owner[x] = w, work'[x] = work[x], db'[x] = db[x]
  PROVE  /\ x[1] = "payment" => PaymentTouched(w, x)'
         /\ x[1] = "request" => RequestTouched(w, x)'
BY DEF GoesOn, RowsTouched, PaymentTouched, RequestTouched

(* A statement that writes one row.                                         *)
LEMMA WriteKnows ==
  ASSUME NEW w \in Workers, NEW x, NEW value, PInv, GoesOn(w),
         x \in Rows => ValueFollows(x, value), Write(w, Put(x, value)),
         x \in Rows /\ x[1] = "payment" => PaymentTouched(w, x)',
         x \in Rows /\ x[1] = "request" => RequestTouched(w, x)'
  PROVE  Follows' /\ OthersStay(w) /\ RowsTouched(w)'
<1>1. /\ Follows' /\ OthersStay(w) /\ db' = db
      /\ \A y \in Rows : /\ work'[y] = IF y = x THEN value ELSE work[y]
                         /\ owner'[y] = IF y = x THEN w ELSE owner[y]
  BY WriteFollows DEF PInv
<1>2. ASSUME NEW y \in Rows, owner'[y] = w
      PROVE  /\ y[1] = "payment" => PaymentTouched(w, y)'
             /\ y[1] = "request" => RequestTouched(w, y)'
  <2>1. CASE y = x
    BY <2>1
  <2>2. CASE y # x
    BY <1>1, <1>2, <2>2, StillTouched DEF PInv
  <2> QED
    BY <2>1, <2>2
<1>3. RowsTouched(w)'
  BY <1>2 DEF RowsTouched, GoesOn
<1> QED
  BY <1>1, <1>3

(* No success is new where no payment is written.                           *)
LEMMA WriteUnique ==
  ASSUME NEW w \in Workers, NEW x, NEW value, PInv,
         x \in Rows => ValueFollows(x, value) /\ NoNewSuccess(x, value),
         Write(w, Put(x, value))
  PROVE  SuccessIsUnique'
<1>1. \A y \in Rows : work'[y] = IF y = x THEN value ELSE work[y]
  BY WriteFollows DEF PInv
<1> QED
  BY <1>1, UniqueStays, PaymentIsRow DEF PInv, NoNewSuccess

(* A statement that locks a row, whatever it is.                            *)
LEMMA LockKnows ==
  ASSUME NEW w \in Workers, NEW x, PInv, GoesOn(w), LockRow(w, x)
  PROVE  /\ Follows' /\ SuccessIsUnique' /\ OthersStay(w) /\ RowsTouched(w)'
         /\ \A y \in Rows : work'[y] = work[y] /\ (owner[y] = w => owner'[y] = w)
<1>1. Write(w, Put(x, work[x]))
  BY DEF LockRow, Put
<1>2. x \in Rows => ValueFollows(x, work[x]) /\ NoNewSuccess(x, work[x])
  BY RowOfPayment DEF PInv, Follows, ValueFollows, NoNewSuccess
<1>3. /\ Follows' /\ OthersStay(w) /\ db' = db
      /\ \A y \in Rows : /\ work'[y] = work[y]
                         /\ owner'[y] = IF y = x THEN w ELSE owner[y]
  BY <1>1, <1>2, WriteFollows DEF PInv
<1>4. ASSUME x \in Rows
      PROVE  /\ x[1] = "payment" => PaymentTouched(w, x)'
             /\ x[1] = "request" => RequestTouched(w, x)'
  <2>1. CASE owner[x] = w
    BY <1>3, <1>4, <2>1, StillTouched DEF PInv
  <2>2. CASE owner[x] # w
    <3>1. owner[x] = None
      BY <2>2 DEF LockRow, Write, Available
    <3>2. work'[x] = db'[x]
      BY <1>3, <1>4, <3>1 DEF PInv, Follows
    <3> QED
      BY <3>2 DEF PaymentTouched, RequestTouched
  <2> QED
    BY <2>1, <2>2
<1>5. RowsTouched(w)'
  BY <1>1, <1>2, <1>4, WriteKnows
<1>6. SuccessIsUnique'
  BY <1>1, <1>2, WriteUnique
<1> QED
  BY <1>3, <1>5, <1>6

(* A statement that touches no row.                                         *)
LEMMA SameKnows ==
  ASSUME NEW w \in Workers, PInv, GoesOn(w), UNCHANGED <<db, work, owner>>
  PROVE  Follows' /\ SuccessIsUnique' /\ OthersStay(w) /\ RowsTouched(w)'
<1>1. Follows' /\ OthersStay(w)
  BY SameFollows DEF PInv
<1>2. SuccessIsUnique'
  BY UniqueStays DEF PInv
<1>3. RowsTouched(w)'
  BY StillTouched DEF RowsTouched, GoesOn, PInv
<1> QED
  BY <1>1, <1>2, <1>3

(* A handler that starts without writing.                                   *)
LEMMA StartKnows ==
  ASSUME NEW w \in Workers, NEW step \in Steps, NEW args, IInv, PInv,
         Start(w, step, args),
         step \notin {"idle"} \cup InsertSteps \cup PaidSteps,
         step \in {"init_key", "init_insert"} => args.amount \in Amounts
  PROVE  StepKnows(w)
<1>1. /\ pc[w] = "idle" /\ pc'[w] = step /\ job'[w] = args
      /\ UNCHANGED <<db, work, owner>>
  BY DEF IInv, Start
<1>2. GoesOn(w)
  BY <1>1 DEF GoesOn, InsertSteps, PaidSteps, CreditSteps
<1>3. HandlerKnows(w)'
  BY <1>1 DEF HandlerKnows, PaidSteps, CreditSteps
<1> QED
  BY <1>1, <1>2, <1>3, SameKnows DEF StepKnows

(* A payment that is there keeps its intent when its status changes.        *)
LEMMA StatusWritten ==
  ASSUME IInv, NEW p \in PaymentId, Exists(work[PaymentRow(p)]),
         NEW status \in PaymentStatuses, NEW ref
  PROVE  LET old == work[PaymentRow(p)]
             one == [old EXCEPT !.status = status]
             two == [old EXCEPT !.status = status, !.ref = ref]
         IN /\ one.status = status /\ two.status = status
            /\ one.intent = old.intent /\ two.intent = old.intent
            /\ one.provider = old.provider /\ two.provider = old.provider
            /\ one.amount = old.amount /\ two.amount = old.amount
            /\ Exists(one) /\ Exists(two) /\ Blank(one) /\ Blank(two)
<1> DEFINE old == work[PaymentRow(p)]
           one == [old EXCEPT !.status = status]
           two == [old EXCEPT !.status = status, !.ref = ref]
<1>1. old \in PaymentRecord /\ status # "absent"
  BY PaymentRows DEF PaymentStatuses
<1>2. /\ one.status = status /\ two.status = status
      /\ one.intent = old.intent /\ two.intent = old.intent
      /\ one.provider = old.provider /\ two.provider = old.provider
      /\ one.amount = old.amount /\ two.amount = old.amount
  BY <1>1 DEF PaymentRecord
<1> HIDE DEF one, two
<1>3. Exists(one) /\ Exists(two) /\ Blank(one) /\ Blank(two)
  BY <1>1, <1>2 DEF Exists, Blank
<1> QED
  BY <1>2, <1>3 DEF one, two

(* A payment that is consumed shows what it showed before.                  *)
LEMMA ConsumedWritten ==
  ASSUME IInv, NEW p \in PaymentId
  PROVE  LET old == work[PaymentRow(p)]
             new == [old EXCEPT !.consumed = TRUE]
         IN PaymentView(new) = PaymentView(old)
BY PaymentRows DEF PaymentRecord, PaymentView

(* The payment of a handler that consumes it, or an administrator's mark.   *)
LEMMA ConsumeKnows ==
  ASSUME NEW w \in Workers, NEW p \in PaymentId, IInv, PInv,
         Return(w, Put(PaymentRow(p),
                       [work[PaymentRow(p)] EXCEPT !.consumed = TRUE]))
  PROVE  StepKnows(w)
<1> DEFINE old == work[PaymentRow(p)]
           new == [old EXCEPT !.consumed = TRUE]
<1>1. /\ new.status = old.status /\ new.intent = old.intent
      /\ PaymentView(new) = PaymentView(old)
  BY ConsumedWritten, PaymentRows DEF PaymentRecord
<1>2. Blank(old)
  BY DEF PInv, Follows
<1> HIDE DEF old, new
<1>3. Blank(new) /\ NoNewSuccess(PaymentRow(p), new)
  BY <1>1, <1>2 DEF Blank, NoNewSuccess, Exists, old
<1> QED
  BY <1>3, ReturnKnows DEF new, old

(* A payment that is marked failed.                                         *)
LEMMA FailKnows ==
  ASSUME NEW w \in Workers, NEW p \in PaymentId, IInv, PInv,
         Exists(work[PaymentRow(p)]),
         NEW status \in {"failed", "pending", "initiated"},
         Return(w, Put(PaymentRow(p),
                       [work[PaymentRow(p)] EXCEPT !.status = status]))
  PROVE  StepKnows(w)
<1> DEFINE new == [work[PaymentRow(p)] EXCEPT !.status = status]
<1>1. status \in PaymentStatuses
  BY DEF PaymentStatuses
<1>2. Blank(new) /\ new.status = status
  BY <1>1, StatusWritten
<1> HIDE DEF new
<1>3. NoNewSuccess(PaymentRow(p), new)
  BY <1>2 DEF NoNewSuccess
<1> QED
  BY <1>2, <1>3, ReturnKnows DEF new

(* Every request that arrives.                                              *)
LEMMA ArrivalKnows ==
  ASSUME NEW w \in Workers, IInv, BInv, PInv, Arrival(w)
  PROVE  StepKnows(w)
<1>1. CASE InitBegin(w)
  <2>1. PICK i \in Intents, g \in Gateways, a \in Amounts,
             k \in Keys \cup {None} :
          Start(w, IF k = None THEN "init_insert" ELSE "init_key",
                [NoJob EXCEPT !.intent = i, !.request = Resolve[i],
                              !.provider = g, !.amount = a, !.key = k])
    BY <1>1 DEF InitBegin
  <2>2. [NoJob EXCEPT !.intent = i, !.request = Resolve[i],
                      !.provider = g, !.amount = a, !.key = k].amount = a
    BY DEF NoJob
  <2> QED
    BY <2>1, <2>2, StartKnows DEF Steps, InsertSteps, PaidSteps
<1>2. CASE CallbackBegin(w) \/ VerifyBegin(w) \/ WalletBegin(w)
           \/ AdminMarkSuccess(w) \/ UpdateBegin(w)
  <2>1. \E step \in {"lock_payment", "wallet_request", "apply", "update_save"} :
          \E args : Start(w, step, args)
    BY <1>2 DEF CallbackBegin, VerifyBegin, WalletBegin, AdminMarkSuccess,
                UpdateBegin
  <2> QED
    BY <2>1, StartKnows DEF Steps, InsertSteps, PaidSteps
<1>3. CASE AdminMarkFailed(w)
  <2>1. PICK p \in PaymentId :
          /\ Exists(db[PaymentRow(p)])
          /\ Return(w, Put(PaymentRow(p),
                           [work[PaymentRow(p)] EXCEPT !.status = "failed"]))
    BY <1>3 DEF AdminMarkFailed
  <2>2. Exists(work[PaymentRow(p)])
    BY <2>1, PaymentIsRow DEF BInv, RowsGood, RowFits
  <2> QED
    BY <2>1, <2>2, FailKnows
<1>4. CASE AdminMarkConsumed(w)
  BY <1>4, ConsumeKnows DEF AdminMarkConsumed
<1>5. CASE Enqueue(w) \/ StaffMove(w)
  <2>1. PICK r, value :
          r \in Requests /\ Return(w, Put(RequestRow(r), value))
    BY <1>5 DEF Enqueue, StaffMove, Move
  <2>2. RequestRow(r)[1] # "payment"
    BY DEF RequestRow
  <2> QED
    BY <2>1, <2>2, ReturnKnows DEF NoNewSuccess
<1>6. CASE StaffStartWork(w)
  <2>1. PICK r \in Requests :
          /\ pc[w] = "idle"
          /\ TransitionAllowed(work[RequestRow(r)].status, "IN_PROGRESS")
          /\ Write(w, Put(RequestRow(r),
                          Moved(work[RequestRow(r)], "IN_PROGRESS")))
          /\ pc' = [pc EXCEPT ![w] = "consume"]
          /\ job' = [job EXCEPT ![w] = [NoJob EXCEPT
                                          !.request = r,
                                          !.payment = work[RequestRow(r)].payment]]
    BY <1>6 DEF StaffStartWork
  <2> DEFINE x == RequestRow(r)
             value == Moved(work[x], "IN_PROGRESS")
  <2>2. /\ pc'[w] = "consume" /\ job'[w].request = r
        /\ x \in Rows /\ x[1] = "request"
    BY <2>1 DEF IInv, NoJob, RequestRow, Rows
  <2>3. ValueFollows(x, value) /\ NoNewSuccess(x, value)
    BY <2>2 DEF ValueFollows, NoNewSuccess
  <2>4. /\ db'[x] = db[x] /\ work'[x] = value
    BY <2>1, <2>2, <2>3, WriteFollows DEF PInv
  <2>5. work[x] = db[x]
    <3>1. owner[x] \in {w, None}
      BY <2>1 DEF Write, Put, Available
    <3> QED
      BY <2>1, <2>2, <3>1 DEF PInv, RowsTouched, Follows
  <2>6. RequestTouched(w, x)'
    BY <2>1, <2>2, <2>4, <2>5 DEF RequestTouched, MovedFrom
  <2>7. GoesOn(w)
    BY <2>1, <2>2 DEF GoesOn, InsertSteps, PaidSteps, CreditSteps
  <2>8. Write(w, Put(x, value))
    BY <2>1
  <2> HIDE DEF value
  <2>9. Follows' /\ OthersStay(w) /\ RowsTouched(w)'
    BY <2>2, <2>3, <2>6, <2>7, <2>8, WriteKnows
  <2>10. SuccessIsUnique'
    BY <2>3, <2>8, WriteUnique
  <2>11. HandlerKnows(w)'
    BY <2>2 DEF HandlerKnows, InsertSteps, PaidSteps, CreditSteps
  <2> QED
    BY <2>9, <2>10, <2>11 DEF StepKnows
<1> QED
  BY <1>1, <1>2, <1>3, <1>4, <1>5, <1>6 DEF Arrival

(* A request that gets another payment shows what it showed before.         *)
LEMMA RequestUntouched ==
  ASSUME NEW w \in Workers, NEW r \in Requests, PInv,
         Available(w, RequestRow(r)), pc[w] \notin CreditSteps \cup {"consume"}
  PROVE  RequestView(work[RequestRow(r)]) = RequestView(db[RequestRow(r)])
<1>1. RequestRow(r) \in Rows /\ RequestRow(r)[1] = "request"
  BY DEF RequestRow, Rows
<1> QED
  BY <1>1 DEF PInv, Follows, RowsTouched, RequestTouched, Available

(* create_payment after its first check.                                    *)
LEMMA InitKnows ==
  ASSUME NEW w \in Workers, IInv, BInv, PInv,
         \/ InitLockKey(w) \/ InitRefused(w) \/ InitInsert(w)
         \/ InitBindKey(w) \/ InitKeyTaken(w) \/ InitAttach(w)
         \/ InitProvider(w)
  PROVE  StepKnows(w)
<1> DEFINE p == PaymentRow(job[w].payment)
<1>1. HandlerKnows(w) /\ BookJob(w) /\ job[w] \in Jobs
  BY DEF PInv, BInv, IInv
<1>2. CASE InitLockKey(w)
  <2>1. /\ pc[w] = "init_key" /\ pc'[w] = "init_insert"
        /\ job'[w].amount = job[w].amount
    BY <1>1, <1>2 DEF InitLockKey, Goto, IInv, Jobs
  <2>2. GoesOn(w)
    BY <2>1 DEF GoesOn, InsertSteps, PaidSteps, CreditSteps
  <2>3. Follows' /\ SuccessIsUnique' /\ OthersStay(w) /\ RowsTouched(w)'
    BY <1>2, <2>2, SameKnows, LockKnows DEF InitLockKey
  <2>4. HandlerKnows(w)'
    BY <1>1, <2>1 DEF HandlerKnows, InsertSteps, PaidSteps, CreditSteps
  <2> QED
    BY <2>3, <2>4 DEF StepKnows
<1>3. CASE InitRefused(w) \/ InitKeyTaken(w)
  BY <1>3, RaiseKnows DEF InitRefused, InitKeyTaken
<1>4. CASE InitInsert(w)
  <2> DEFINE value == NewPayment(job[w].intent, job[w].provider,
                                 job[w].amount, "initiated")
  <2>1. PICK q \in NextPayment \cap PaymentId :
          /\ Write(w, Put(PaymentRow(q), value))
          /\ job' = [job EXCEPT ![w].payment = q]
          /\ pc' = [pc EXCEPT ![w] = IF job[w].key = None THEN "init_attach"
                                     ELSE "init_bind"]
    BY <1>4 DEF InitInsert
  <2>2. /\ pc[w] = "init_insert" /\ pc'[w] \in InsertSteps
        /\ job'[w].payment = q
    BY <1>1, <1>4, <2>1 DEF IInv, InsertSteps, Jobs, InitInsert
  <2>3. ~ Exists(db[PaymentRow(q)])
    <3>1. ~ Exists(work[PaymentRow(q)])
      BY DEF NextPayment, PaymentId
    <3> QED
      BY <3>1, PaymentIsRow DEF BInv, RowsGood, RowFits
  <2>4. /\ Exists(value) /\ value.status = "initiated"
        /\ value.provider \in Gateways /\ value.amount \in Amounts
    BY <1>1, <2>2 DEF NewPayment, Exists, BookJob, HandlerKnows
  <2> HIDE DEF value
  <2>5. /\ ValueFollows(PaymentRow(q), value)
        /\ NoNewSuccess(PaymentRow(q), value)
    BY <2>3, <2>4 DEF ValueFollows, NoNewSuccess, Blank, Exists
  <2>6. /\ db' = db /\ work'[PaymentRow(q)] = value
    BY <2>1, <2>5, WriteFollows, PaymentIsRow DEF PInv
  <2>7. GoesOn(w)
    BY <2>2 DEF GoesOn, InsertSteps, PaidSteps, CreditSteps
  <2>8. PaymentTouched(w, PaymentRow(q))'
    BY <2>2 DEF PaymentTouched
  <2>9. PaymentRow(q)[1] # "request"
    BY PaymentIsRow
  <2>10. Follows' /\ OthersStay(w) /\ RowsTouched(w)'
    BY <2>1, <2>5, <2>7, <2>8, <2>9, WriteKnows
  <2>11. SuccessIsUnique'
    BY <2>1, <2>5, WriteUnique
  <2>12. HandlerKnows(w)'
    BY <2>2, <2>3, <2>4, <2>6
       DEF HandlerKnows, InsertSteps, PaidSteps, CreditSteps
  <2> QED
    BY <2>10, <2>11, <2>12 DEF StepKnows
<1>5. CASE InitBindKey(w) \/ InitAttach(w)
  <2>1. PICK x, value :
          /\ \/ pc[w] = "init_bind" /\ x = KeyRow(job[w].key)
             \/ /\ pc[w] = "init_attach" /\ x = RequestRow(job[w].request)
                /\ value = [work[x] EXCEPT !.payment = job[w].payment]
          /\ Write(w, Put(x, value))
    BY <1>5 DEF InitBindKey, InitAttach
  <2>2. /\ pc[w] \in InsertSteps /\ pc'[w] \in InsertSteps
        /\ job'[w] = job[w]
    BY <1>5 DEF InitBindKey, InitAttach, Goto, IInv, InsertSteps
  <2>3. p \in Rows /\ p # x /\ x[1] # "payment"
    <3>1. p \in Rows /\ p[1] = "payment"
      BY <2>2, HandlerRows, StepsDiffer, PaymentIsRow
    <3>2. x = KeyRow(job[w].key) \/ x = RequestRow(job[w].request)
      BY <2>1
    <3>3. x[1] \in {"key", "request"}
      BY <3>2 DEF KeyRow, RequestRow
    <3> QED
      BY <3>1, <3>3
  <2>4. ValueFollows(x, value) /\ NoNewSuccess(x, value)
    BY <2>3 DEF ValueFollows, NoNewSuccess
  <2>5. /\ db' = db
        /\ \A y \in Rows : /\ work'[y] = IF y = x THEN value ELSE work[y]
                           /\ owner'[y] = IF y = x THEN w ELSE owner[y]
    BY <2>1, <2>4, WriteFollows DEF PInv
  <2>6. GoesOn(w)
    BY <2>2 DEF GoesOn, InsertSteps, PaidSteps, CreditSteps
  <2>7. ASSUME x \in Rows, x[1] = "request"
        PROVE  RequestTouched(w, x)'
    <3>1. /\ x = RequestRow(job[w].request)
          /\ value = [work[x] EXCEPT !.payment = job[w].payment]
      BY <2>1, <2>7 DEF KeyRow
    <3>2. job[w].request \in Requests
      BY <2>2, HandlerRows, StepsDiffer
    <3>3. work[x] \in RequestRecord
      BY <3>1, <3>2, RequestRows
    <3>4. RequestView(value) = RequestView(work[x])
      BY <3>1, <3>3 DEF RequestView, RequestRecord
    <3>5. Available(w, x)
      BY <2>1 DEF Write, Put
    <3>6. RequestView(work[x]) = RequestView(db[x])
      BY <2>2, <3>1, <3>2, <3>5, RequestUntouched DEF InsertSteps, CreditSteps
    <3>7. RequestView(work'[x]) = RequestView(db'[x])
      BY <2>5, <2>7, <3>4, <3>6
    <3> QED
      BY <3>7 DEF RequestTouched
  <2>8. Follows' /\ OthersStay(w) /\ RowsTouched(w)'
    BY <2>1, <2>3, <2>4, <2>6, <2>7, WriteKnows
  <2>9. SuccessIsUnique'
    BY <2>1, <2>4, WriteUnique
  <2>10. HandlerKnows(w)'
    BY <1>1, <2>2, <2>3, <2>5
       DEF HandlerKnows, InsertSteps, PaidSteps, CreditSteps
  <2> QED
    BY <2>8, <2>9, <2>10 DEF StepKnows
<1>6. CASE InitProvider(w)
  <2>1. pc[w] = "init_provider" /\ pc[w] \in InsertSteps
    BY <1>6 DEF InitProvider, InsertSteps
  <2>2. job[w].payment \in PaymentId /\ Exists(work[p])
    BY <1>1, <2>1, HandlerRows, StepsDiffer DEF BookJob
  <2>3. \E status \in {"pending", "initiated"} :
          Return(w, Put(p, [work[p] EXCEPT !.status = status]))
    BY <1>6 DEF InitProvider
  <2> QED
    BY <2>2, <2>3, FailKnows
<1> QED
  BY <1>2, <1>3, <1>4, <1>5, <1>6

(* A callback, a verification or an administrator's mark.                   *)
LEMMA ApplyKnows ==
  ASSUME NEW w \in Workers, IInv, BInv, PInv,
         \/ LockPayment(w) \/ RefuseSku(w) \/ ApplyFail(w)
         \/ ApplySuccess(w) \/ ApplyClash(w)
         \/ MarkPaid(w) \/ PaidTransition(w) \/ PaidTransitionRefused(w)
  PROVE  StepKnows(w)
<1>0. PICK q, p, r : /\ q = job[w].payment /\ p = PaymentRow(q)
                     /\ r = RequestRow(job[w].request)
  OBVIOUS
<1> USE <1>0
<1>1. pc[w] \in ApplySteps
  BY DEF LockPayment, RefuseSku, ApplyFail, ApplySuccess, ApplyClash, MarkPaid,
         PaidTransition, PaidTransitionRefused, TransitionRefused, ApplySteps
<1>2. /\ q \in PaymentId /\ p \in Rows /\ p[1] = "payment"
      /\ job[w].request \in Requests /\ r \in Rows /\ r[1] = "request"
      /\ Exists(db[p]) /\ Exists(work[p])
  BY <1>1, HandlerRows, StepsDiffer
     DEF BInv, BookJob, PaymentRow, RequestRow, RowsGood, RowFits
<1>3. HandlerKnows(w)
  BY DEF PInv
<1>4. CASE LockPayment(w)
  <2>1. pc[w] = "lock_payment" /\ pc'[w] = "apply"
    BY <1>4 DEF LockPayment, Goto, IInv
  <2>2. GoesOn(w) /\ HandlerKnows(w)'
    BY <2>1 DEF GoesOn, HandlerKnows, InsertSteps, PaidSteps, CreditSteps
  <2> QED
    BY <1>4, <2>2, LockKnows DEF LockPayment, StepKnows
<1>5. CASE RefuseSku(w) \/ ApplyClash(w) \/ PaidTransitionRefused(w)
  BY <1>5, RaiseKnows DEF RefuseSku, ApplyClash, PaidTransitionRefused
<1>6. CASE ApplyFail(w)
  BY <1>2, <1>6, FailKnows DEF ApplyFail
<1>7. CASE ApplySuccess(w)
  <2> DEFINE value == [work[p] EXCEPT !.status = "success", !.ref = job[w].ref]
  <2>1. /\ pc[w] = "apply" /\ pc'[w] = "mark_paid" /\ job'[w] = job[w]
        /\ Clash(w, q, Successful(w)) = {}
        /\ IndexWait(w, q, Successful(w)) = {}
        /\ Write(w, Put(p, value))
    BY <1>7 DEF ApplySuccess, Goto, IInv
  <2>2. Seen(w, p) = work[p]
    <3>1. p \in DOMAIN Put(p, value)
      BY DEF Put
    <3>2. Available(w, p)
      BY <2>1, <3>1 DEF Write
    <3>3. CASE owner[p] = w
      BY <3>3 DEF Seen
    <3>4. CASE owner[p] # w
      BY <1>2, <3>2, <3>4 DEF Available, Seen, PInv, Follows
    <3> QED
      BY <3>3, <3>4
  <2>3. Successful(w) = value
    BY <2>2 DEF Successful
  <2>4. /\ value.status = "success" /\ value.intent = work[p].intent
        /\ Blank(value)
    <3>1. PICK old, new, ref : /\ old = work[p] /\ ref = job[w].ref
                               /\ new = [old EXCEPT !.status = "success",
                                                    !.ref = ref]
      OBVIOUS
    <3>2. old \in PaymentRecord
      BY <1>2, <3>1, PaymentRows
    <3>3. new.status = "success" /\ new.intent = old.intent
      BY <3>1, <3>2 DEF PaymentRecord
    <3>4. Blank(new)
      BY <3>3 DEF Blank, Exists
    <3> QED
      BY <3>1, <3>3, <3>4
  <2> HIDE DEF value
  <2>5. ValueFollows(p, value)
    BY <2>4 DEF ValueFollows
  <2>6. /\ db' = db
        /\ \A y \in Rows : /\ work'[y] = IF y = p THEN value ELSE work[y]
                           /\ owner'[y] = IF y = p THEN w ELSE owner[y]
    BY <2>1, <2>5, WriteFollows DEF PInv
  <2>7. GoesOn(w)
    BY <2>1 DEF GoesOn, InsertSteps, PaidSteps, CreditSteps
  <2>8. PaymentTouched(w, p)'
    BY <2>1 DEF PaymentTouched, PaidSteps
  <2>9. Follows' /\ OthersStay(w) /\ RowsTouched(w)'
    BY <1>2, <2>1, <2>5, <2>7, <2>8, WriteKnows
  <2>10. \A o \in PaymentId \ {q} :
           work[PaymentRow(o)].status = "success"
             => work[PaymentRow(o)].intent # value.intent
    BY <1>2, <2>1, <2>3, <2>4, NoClash DEF PInv
  <2>11. \A o \in PaymentId \ {q} : work'[PaymentRow(o)] = work[PaymentRow(o)]
    BY <2>6, PaymentIsRow DEF PaymentRow
  <2>12. SuccessIsUnique'
    BY <1>2, <2>6, <2>10, <2>11, UniqueGrows DEF PInv
  <2>13. HandlerKnows(w)'
    BY <1>2, <2>1, <2>4, <2>6 DEF HandlerKnows, InsertSteps, CreditSteps
  <2> QED
    BY <2>9, <2>12, <2>13 DEF StepKnows
<1>8. CASE MarkPaid(w)
  <2> DEFINE value == [work[r] EXCEPT !.payment = q]
  <2>1. /\ pc[w] = "mark_paid" /\ pc'[w] = "transition" /\ job'[w] = job[w]
    BY <1>8 DEF MarkPaid, Goto, IInv
  <2>2. GoesOn(w)
    BY <2>1 DEF GoesOn, InsertSteps, PaidSteps, CreditSteps
  <2>3. CASE UNCHANGED <<db, work, owner>>
    <3>1. HandlerKnows(w)'
      BY <1>3, <2>1, <2>3 DEF HandlerKnows, InsertSteps, PaidSteps, CreditSteps
    <3> QED
      BY <2>2, <2>3, <3>1, SameKnows DEF StepKnows
  <2>4. CASE Write(w, Put(r, value))
    <3>1. ValueFollows(r, value) /\ NoNewSuccess(r, value)
      BY <1>2 DEF ValueFollows, NoNewSuccess
    <3>2. /\ db' = db
          /\ \A y \in Rows : /\ work'[y] = IF y = r THEN value ELSE work[y]
                             /\ owner'[y] = IF y = r THEN w ELSE owner[y]
      BY <2>4, <3>1, WriteFollows DEF PInv
    <3>3. RequestView(value) = RequestView(work[r])
      BY <1>2, RequestRows DEF RequestView, RequestRecord
    <3>4. Available(w, r)
      BY <2>4 DEF Write, Put
    <3>5. RequestTouched(w, r)'
      BY <1>2, <2>1, <3>2, <3>3, <3>4, RequestUntouched
         DEF RequestTouched, CreditSteps
    <3> HIDE DEF value
    <3>6. Follows' /\ OthersStay(w) /\ RowsTouched(w)'
      BY <1>2, <2>2, <2>4, <3>1, <3>5, WriteKnows
    <3>7. SuccessIsUnique'
      BY <2>4, <3>1, WriteUnique
    <3>8. HandlerKnows(w)'
      BY <1>2, <1>3, <2>1, <3>2
         DEF HandlerKnows, InsertSteps, PaidSteps, CreditSteps
    <3> QED
      BY <3>6, <3>7, <3>8 DEF StepKnows
  <2> QED
    BY <1>8, <2>3, <2>4 DEF MarkPaid
<1>9. CASE PaidTransition(w)
  <2> DEFINE value == Transitioned(work[r], "QUEUED_PAID")
  <2>1. /\ pc[w] = "transition" /\ pc'[w] = "credit" /\ job'[w] = job[w]
        /\ TransitionAccepted(work[r].status, "QUEUED_PAID")
        /\ Write(w, Put(r, value))
    BY <1>9 DEF PaidTransition, Goto, IInv
  <2>2. GoesOn(w)
    BY <2>1 DEF GoesOn, InsertSteps, PaidSteps, CreditSteps
  <2>3. ValueFollows(r, value) /\ NoNewSuccess(r, value)
    BY <1>2 DEF ValueFollows, NoNewSuccess
  <2>4. /\ db' = db
        /\ \A y \in Rows : /\ work'[y] = IF y = r THEN value ELSE work[y]
                           /\ owner'[y] = IF y = r THEN w ELSE owner[y]
    BY <2>1, <2>3, WriteFollows DEF PInv
  <2>5. Available(w, r)
    BY <2>1 DEF Write, Put
  <2>6. RequestView(work[r]) = RequestView(db[r])
    BY <1>2, <2>1, <2>5, RequestUntouched DEF CreditSteps
  <2>7. work[r] \in RequestRecord /\ db[r] \in RequestRecord
    BY <1>2, RequestRows
  <2>8. CASE work[r].status = "QUEUED_PAID"
    <3>1. value = work[r]
      BY <2>8 DEF Transitioned
    <3> QED
      BY <1>2, <2>1, <2>2, <2>4, <2>6, <2>8, <3>1, <1>3, <2>3, WriteKnows,
         WriteUnique
         DEF StepKnows, RequestTouched, HandlerKnows, PaidSteps, CreditSteps,
             InsertSteps
  <2>9. CASE work[r].status # "QUEUED_PAID"
    <3>1. value = Moved(work[r], "QUEUED_PAID")
      BY <2>9 DEF Transitioned
    <3>2. /\ db[r].status = work[r].status /\ db[r].log = work[r].log
      BY <2>6 DEF RequestView
    <3>3. /\ RequestView(value) = RequestView(Moved(db[r], "QUEUED_PAID"))
          /\ value.status = "QUEUED_PAID"
      BY <2>7, <3>1, <3>2 DEF RequestView, Moved, RequestRecord
    <3>4. TransitionAllowed(db[r].status, "QUEUED_PAID")
      BY <2>1, <2>9, <3>2 DEF TransitionAccepted
    <3>5. RequestTouched(w, r)'
      BY <2>1, <2>4, <1>2, <3>3, <3>4 DEF RequestTouched, MovedFrom, CreditSteps
    <3> HIDE DEF value
    <3>6. Follows' /\ OthersStay(w) /\ RowsTouched(w)'
      BY <1>2, <2>1, <2>2, <2>3, <3>5, WriteKnows
    <3>7. SuccessIsUnique'
      BY <2>1, <2>3, WriteUnique
    <3>8. HandlerKnows(w)'
      BY <1>2, <1>3, <2>1, <2>4, <3>3
         DEF HandlerKnows, InsertSteps, PaidSteps, CreditSteps
    <3> QED
      BY <3>6, <3>7, <3>8 DEF StepKnows
  <2> QED
    BY <2>8, <2>9
<1> QED
  BY <1>4, <1>5, <1>6, <1>7, <1>8, <1>9

(* _credit_wallet_from_payment.                                             *)
LEMMA CreditKnows ==
  ASSUME NEW w \in Workers, IInv, BInv, PInv,
         \/ CreditNothing(w) \/ Credit(w) \/ CreditNoWallet(w)
         \/ CreateWallet(w)
  PROVE  StepKnows(w)
<1>1. pc[w] \in {"credit", "create_wallet"}
  BY DEF CreditNothing, Credit, CreditNoWallet, CreateWallet
<1>2. UserWallet(w)[1] # "payment"
  BY DEF UserWallet, WalletRow
<1>3. CASE CreditNothing(w)
  BY <1>3, ReturnNothingKnows DEF CreditNothing
<1>4. CASE CreditNoWallet(w)
  <2>1. /\ pc[w] = "credit" /\ pc'[w] = "create_wallet" /\ job'[w] = job[w]
        /\ UNCHANGED <<db, work, owner>>
    BY <1>4 DEF CreditNoWallet, Goto, IInv
  <2>2. GoesOn(w)
    BY <2>1 DEF GoesOn, InsertSteps, PaidSteps, CreditSteps
  <2>3. HandlerKnows(w)
    BY DEF PInv
  <2>4. HandlerKnows(w)'
    BY <2>1, <2>3 DEF HandlerKnows, InsertSteps, PaidSteps, CreditSteps
  <2> QED
    BY <2>1, <2>2, <2>4, SameKnows DEF StepKnows
<1>5. CASE CreateWallet(w) /\ Raise(w)
  BY <1>5, RaiseKnows
<1>6. CASE \E value : Return(w, Put(UserWallet(w), value))
  BY <1>2, <1>6, ReturnKnows DEF NoNewSuccess
<1> QED
  BY <1>3, <1>4, <1>5, <1>6 DEF Credit, CreateWallet

(* pay_with_wallet up to its writes, the update endpoint, the start of      *)
(* work, and what fails.                                                    *)
LEMMA OtherKnows ==
  ASSUME NEW w \in Workers, IInv, BInv, PInv,
         \/ WalletRequest(w) \/ WalletDebit(w) \/ WalletPayRefused(w)
         \/ Consume(w) \/ UpdateSave(w) \/ DeadlockVictim(w) \/ Crash(w)
  PROVE  StepKnows(w)
<1>1. CASE Raise(w)
  BY <1>1, RaiseKnows
<1>2. CASE Return(w, NoWrites)
  BY <1>2, ReturnNothingKnows
<1>3. CASE /\ WalletRequest(w) \/ WalletDebit(w)
           /\ ~ Raise(w)
  <2>1. /\ pc[w] \in WalletSteps /\ pc'[w] \in WalletSteps
        /\ \E x : LockRow(w, x)
    BY <1>3 DEF WalletRequest, WalletDebit, Goto, IInv, WalletSteps
  <2>2. GoesOn(w) /\ HandlerKnows(w)'
    BY <2>1 DEF GoesOn, HandlerKnows, WalletSteps, InsertSteps, PaidSteps,
                CreditSteps
  <2> QED
    BY <2>1, <2>2, LockKnows DEF StepKnows
<1>4. CASE Consume(w) /\ ~ Return(w, NoWrites)
  <2>1. pc[w] \in PaymentSteps
    BY <1>4 DEF Consume, PaymentSteps
  <2>2. job[w].payment \in PaymentId
    BY <2>1, HandlerRows
  <2> QED
    BY <1>4, <2>2, ConsumeKnows DEF Consume
<1>5. CASE UpdateSave(w)
  <2>1. \E value : Return(w, Put(RequestRow(job[w].request), value))
    BY <1>5 DEF UpdateSave
  <2>2. RequestRow(job[w].request)[1] # "payment"
    BY DEF RequestRow
  <2> QED
    BY <2>1, <2>2, ReturnKnows DEF NoNewSuccess
<1> QED
  BY <1>1, <1>2, <1>3, <1>4, <1>5
     DEF WalletPayRefused, DeadlockVictim, Crash

(* What pay_with_wallet writes.                                             *)
LEMMA WalletPayWrites ==
  ASSUME NEW w \in Workers, WalletPay(w)
  PROVE  \E p, change :
           LET x == UserWallet(w)
               r == RequestRow(job[w].request)
           IN /\ p \in NextPayment \cap PaymentId
              /\ Clash(w, p, WalletPayment(w)) = {}
              /\ IndexWait(w, p, WalletPayment(w)) = {}
              /\ Return(w, change) /\ DOMAIN change = {PaymentRow(p), x, r}
              /\ change[PaymentRow(p)] = WalletPayment(w)
              /\ change[x] = Booked(work[x], 0 - CoinPrice[job[w].request], p)
              /\ change[r] = Transitioned([work[r] EXCEPT !.payment = p],
                                          "QUEUED_PAID")
<1> DEFINE x == UserWallet(w)
           r == RequestRow(job[w].request)
           written(p) == [y \in {PaymentRow(p), x, r} |->
             CASE y = PaymentRow(p) -> WalletPayment(w)
               [] y = x -> Booked(work[x], 0 - CoinPrice[job[w].request], p)
               [] y = r -> Transitioned([work[r] EXCEPT !.payment = p],
                                        "QUEUED_PAID")]
<1>1. PICK p \in NextPayment \cap PaymentId :
        /\ Clash(w, p, WalletPayment(w)) = {}
        /\ IndexWait(w, p, WalletPayment(w)) = {}
        /\ Return(w, written(p))
  BY DEF WalletPay
<1>2. PaymentRow(p) # x /\ PaymentRow(p) # r /\ x # r
  BY DEF PaymentRow, UserWallet, WalletRow, RequestRow
<1>3. /\ DOMAIN written(p) = {PaymentRow(p), x, r}
      /\ written(p)[PaymentRow(p)] = WalletPayment(w)
      /\ written(p)[x] = Booked(work[x], 0 - CoinPrice[job[w].request], p)
      /\ written(p)[r] = Transitioned([work[r] EXCEPT !.payment = p],
                                      "QUEUED_PAID")
  BY <1>2
<1> HIDE DEF written
<1> QED
  BY <1>1, <1>3

(* The payment, the withdrawal and the paid queue in one commit.            *)
LEMMA WalletPayKnows ==
  ASSUME NEW w \in Workers, IInv, BInv, PInv, WalletPay(w)
  PROVE  StepKnows(w)
<1> DEFINE x == UserWallet(w)
           r == RequestRow(job[w].request)
<1>1. PICK p, change :
        /\ p \in NextPayment \cap PaymentId
        /\ Clash(w, p, WalletPayment(w)) = {}
        /\ IndexWait(w, p, WalletPayment(w)) = {}
        /\ Return(w, change) /\ DOMAIN change = {PaymentRow(p), x, r}
        /\ change[PaymentRow(p)] = WalletPayment(w)
  BY WalletPayWrites
<1>2. /\ WalletPayment(w).status = "success"
      /\ Blank(WalletPayment(w))
  BY DEF WalletPayment, NewPayment, Blank, Exists
<1>3. \A y \in Rows \cap DOMAIN change :
        y[1] = "payment" => y = PaymentRow(p)
  BY <1>1 DEF UserWallet, WalletRow, RequestRow
<1>4. /\ Follows' /\ OthersStay(w)
      /\ \A y \in Rows :
           /\ owner'[y] # w
           /\ y \in DOMAIN change => work'[y] = change[y]
           /\ y \notin DOMAIN change => work'[y] = work[y]
  BY <1>1, <1>2, <1>3, CommitFollows DEF Return, PInv
<1>5. \A q \in PaymentId \ {p} : work[PaymentRow(q)].status = "success"
        => work[PaymentRow(q)].intent # WalletPayment(w).intent
  BY <1>1, <1>2, NoClash DEF PInv
<1>6. work'[PaymentRow(p)] = WalletPayment(w)
  BY <1>1, <1>4, PaymentIsRow
<1>7. \A q \in PaymentId \ {p} : work'[PaymentRow(q)] = work[PaymentRow(q)]
  <2>1. \A q \in PaymentId \ {p} : PaymentRow(q) # PaymentRow(p)
    BY DEF PaymentRow
  <2> QED
    BY <1>3, <1>4, <2>1, PaymentIsRow
<1>8. SuccessIsUnique'
  BY <1>1, <1>5, <1>6, <1>7, UniqueGrows DEF PInv
<1> QED
  BY <1>1, <1>4, <1>8, EndKnows DEF Return, StepKnows

(* What the others know is committed, or locked by them.                    *)
LEMMA OthersKnow ==
  ASSUME NEW w \in Workers, NEW v \in Workers \ {w},
         IInv, BInv, PInv, StepOk(w), OthersStay(w)
  PROVE  RowsTouched(v)' /\ HandlerKnows(v)'
<1>1. pc'[v] = pc[v] /\ job'[v] = job[v]
  BY DEF IInv, StepOk
<1>2. /\ \A x \in Rows : owner'[x] = v => owner[x] = v
      /\ \A x \in Rows : owner[x] = v =>
           db'[x] = db[x] /\ work'[x] = work[x] /\ owner'[x] = v
  BY DEF OthersStay
<1>3. RowsTouched(v)'
  <2>1. RowsTouched(v)
    BY DEF PInv
  <2> QED
    BY <1>1, <1>2, <2>1 DEF RowsTouched, PaymentTouched, RequestTouched
<1>4. HandlerKnows(v) /\ BookJob(v)
  BY DEF PInv, BInv
<1>5. /\ pc[v] \in InsertSteps \cup PaidSteps =>
           PaymentRow(job[v].payment) \in Rows
      /\ pc[v] \in CreditSteps =>
           RequestRow(job[v].request) \in Rows
  BY HandlerRows DEF InsertSteps, PaidSteps, CreditSteps, PaymentSteps
<1>6. HandlerKnows(v)'
  BY <1>1, <1>2, <1>4, <1>5 DEF HandlerKnows, BookJob, CreditSteps
<1> QED
  BY <1>3, <1>6

(* The database starts without payments and without handlers.               *)
LEMMA InitPInv == Init => PInv
<1> SUFFICES ASSUME Init PROVE PInv
  OBVIOUS
<1>1. work = db
  BY DEF Init
<1>2. \A p \in PaymentId : db[PaymentRow(p)] = AbsentPayment
  BY PaymentIsRow DEF Init
<1>3. AbsentPayment.status # "success" /\ Blank(AbsentPayment)
  BY DEF AbsentPayment, Blank
<1>4. Follows
  BY <1>1, <1>2, <1>3 DEF Follows
<1>5. SuccessIsUnique
  BY <1>1, <1>2, <1>3 DEF SuccessIsUnique
<1>6. \A w \in Workers : RowsTouched(w)
  BY ConstantsOk DEF Init, RowsTouched
<1>7. \A w \in Workers : HandlerKnows(w)
  BY DEF Init, HandlerKnows, InsertSteps, PaidSteps, CreditSteps
<1> QED
  BY <1>4, <1>5, <1>6, <1>7 DEF PInv

(* What a step of a worker does, as far as the invariants go.               *)
LEMMA ActionKnows ==
  ASSUME NEW w \in Workers, IInv, BInv, PInv,
         Arrival(w) \/ Statement(w) \/ DeadlockVictim(w) \/ Crash(w)
  PROVE  StepOk(w) /\ StepKnows(w)
<1>1. StepOk(w)
  BY ArrivalOk, StatementOk, FailureOk
<1>2. StepKnows(w)
  BY ArrivalKnows, InitKnows, ApplyKnows, CreditKnows, OtherKnows,
     WalletPayKnows DEF Statement
<1> QED
  BY <1>1, <1>2

(* Every step keeps the invariant.                                          *)
LEMMA NextPInv == IInv /\ BInv /\ PInv /\ [Next]_vars => PInv'
<1> SUFFICES ASSUME IInv, BInv, PInv, [Next]_vars PROVE PInv'
  OBVIOUS
<1>1. CASE Next
  <2>1. PICK w \in Workers :
          Arrival(w) \/ Statement(w) \/ DeadlockVictim(w) \/ Crash(w)
    BY <1>1 DEF Next
  <2>2. StepOk(w) /\ StepKnows(w)
    BY <2>1, ActionKnows
  <2>3. \A v \in Workers : RowsTouched(v)' /\ HandlerKnows(v)'
    BY <2>2, OthersKnow DEF StepKnows
  <2> QED
    BY <2>2, <2>3 DEF PInv, StepKnows
<1>2. CASE UNCHANGED vars
  BY <1>2 DEF vars, PInv, Follows, SuccessIsUnique, RowsTouched,
              PaymentTouched, RequestTouched, HandlerKnows
<1> QED
  BY <1>1, <1>2

----------------------------------------------------------------------------
(* What Checkout shows.                                                     *)

(* Nothing changes but what is shown of the rows in S.                      *)
PaymentsSame(S) ==
  \A p \in PaymentId \ S :
    PaymentView(db'[PaymentRow(p)]) = PaymentView(db[PaymentRow(p)])

(* What is shown of the requests outside S has not changed.                 *)
RequestsSame(S) ==
  \A r \in Requests \ S :
    RequestView(db'[RequestRow(r)]) = RequestView(db[RequestRow(r)])

(* The wallets outside S have not changed.                                  *)
WalletsSame(S) ==
  \A u \in Users \ S : db'[WalletRow(u)] = db[WalletRow(u)]

(* Nothing of what Checkout shows has changed.                              *)
LEMMA ShowsNothing ==
  ASSUME PaymentsSame({}), RequestsSame({}), WalletsSame({})
  PROVE  UNCHANGED Promise!promised
<1>1. PaymentsShown' = PaymentsShown
  BY DEF PaymentsSame, PaymentsShown
<1>2. RequestsShown' = RequestsShown
  BY DEF RequestsSame, RequestsShown
<1>3. WalletsShown' = WalletsShown
  BY DEF WalletsSame, WalletsShown
<1> QED
  BY <1>1, <1>2, <1>3 DEF Promise!promised

(* The payments that are shown have not changed.                            *)
LEMMA SamePayments ==
  ASSUME PaymentsSame({}) PROVE PaymentsShown' = PaymentsShown
BY DEF PaymentsSame, PaymentsShown

(* The requests that are shown have not changed.                            *)
LEMMA SameRequests ==
  ASSUME RequestsSame({}) PROVE RequestsShown' = RequestsShown
BY DEF RequestsSame, RequestsShown

(* The wallets that are shown have not changed.                             *)
LEMMA SameWallets ==
  ASSUME WalletsSame({}) PROVE WalletsShown' = WalletsShown
BY DEF WalletsSame, WalletsShown

(* One payment shows something new.                                         *)
LEMMA OnePayment ==
  ASSUME NEW p \in PaymentId, PaymentsSame({p}), NEW view,
         PaymentView(db'[PaymentRow(p)]) = view
  PROVE  PaymentsShown' = [PaymentsShown EXCEPT ![p] = view]
BY DEF PaymentsSame, PaymentsShown

(* One request shows something new.                                         *)
LEMMA OneRequest ==
  ASSUME NEW r \in Requests, RequestsSame({r}), NEW view,
         RequestView(db'[RequestRow(r)]) = view
  PROVE  RequestsShown' = [RequestsShown EXCEPT ![r] = view]
BY DEF RequestsSame, RequestsShown

(* One wallet shows something new.                                          *)
LEMMA OneWallet ==
  ASSUME NEW u \in Users, WalletsSame({u}), NEW wallet,
         db'[WalletRow(u)] = wallet
  PROVE  WalletsShown' = [WalletsShown EXCEPT ![u] = wallet]
BY DEF WalletsSame, WalletsShown

(* An abstract step, in terms of what is shown.                             *)
LEMMA StepOpen ==
  ASSUME NEW p \in PaymentId, PaymentsShown[p] = PaymentView(AbsentPayment),
         NEW i \in Intents, NEW g \in Gateways, NEW a \in Amounts,
         NEW s \in {"initiated", "pending"},
         PaymentsShown' = [PaymentsShown EXCEPT ![p] =
           [status |-> s, intent |-> i, provider |-> g, amount |-> a]],
         RequestsShown' = RequestsShown, WalletsShown' = WalletsShown
  PROVE  Promise!Next
<1>1. Promise!Open(p)
  BY DEF Promise!Open, Promise!Absent, AbsentPayment, PaymentView, Gateways
<1> QED
  BY <1>1 DEF Promise!Next, PaymentId

(* Checkout's copies of the constant operators.                             *)
LEMMA SameOperators ==
  /\ \A g, a : Promise!CoinsGranted(g, a) = CoinsGranted(g, a)
  /\ \A v, c, p : Promise!Booked(v, c, p) = Booked(v, c, p)
  /\ \A v, p : Promise!HasDeposit(v, p) = HasDeposit(v, p)
  /\ \A q, t : Promise!Moved(q, t) = Moved(q, t)
  /\ \A c, t : Promise!TransitionAllowed(c, t) = TransitionAllowed(c, t)
<1>1. \A g, a : Promise!CoinsGranted(g, a) = CoinsGranted(g, a)
  BY DEF Promise!CoinsGranted, Promise!CoinsForAmount, Promise!ResolveCoinRate,
         Promise!EligibleRates, CoinsGranted, CoinsForAmount, ResolveCoinRate,
         EligibleRates
<1>2. \A v, c, p : Promise!Booked(v, c, p) = Booked(v, c, p)
  BY DEF Promise!Booked, Booked
<1>3. \A v, p : Promise!HasDeposit(v, p) = HasDeposit(v, p)
  BY DEF Promise!HasDeposit, HasDeposit
<1>4. \A q, t : Promise!Moved(q, t) = Moved(q, t)
  BY DEF Promise!Moved, Moved
<1>5. \A c, t : Promise!TransitionAllowed(c, t) = TransitionAllowed(c, t)
  BY DEF Promise!TransitionAllowed, Promise!TransitionRules, TransitionAllowed,
         TransitionRules
<1> QED
  BY <1>1, <1>2, <1>3, <1>4, <1>5

(* A payment fails.                                                         *)
LEMMA StepFail ==
  ASSUME NEW p \in PaymentId, PaymentsShown[p].status # "absent",
         PaymentsShown' = [PaymentsShown EXCEPT ![p].status = "failed"],
         RequestsShown' = RequestsShown, WalletsShown' = WalletsShown
  PROVE  Promise!Next
<1>1. Promise!Absent.status = "absent"
  BY DEF Promise!Absent
<1>2. Promise!Fail(p)
  BY <1>1 DEF Promise!Fail
<1> QED
  BY <1>2 DEF Promise!Next, PaymentId

(* A request advances.                                                      *)
LEMMA StepAdvance ==
  ASSUME NEW r \in Requests, NEW target \in Statuses \ {"QUEUED_PAID"},
         TransitionAllowed(RequestsShown[r].status, target),
         RequestsShown' = [RequestsShown EXCEPT
                             ![r] = Moved(RequestsShown[r], target)],
         PaymentsShown' = PaymentsShown, WalletsShown' = WalletsShown
  PROVE  Promise!Next
<1>1. Promise!Advance(r, target)
  BY SameOperators DEF Promise!Advance
<1> QED
  BY <1>1 DEF Promise!Next, Promise!Statuses, Statuses

(* What the commit of apply_success shows.                                  *)
SettledPayment(p) ==
  PaymentsShown' = [PaymentsShown EXCEPT ![p].status = "success"]

(* No other payment shows a success for the intent.                         *)
OnlySuccess(p, intent) ==
  \A q \in PaymentId : /\ PaymentsShown[q].status = "success"
                      /\ PaymentsShown[q].intent = intent
                      => q = p

(* The request is shown to enter the paid queue, or to be there.            *)
QueueShown(r) ==
  \/ /\ RequestsShown[r].status = "QUEUED_PAID"
     /\ RequestsShown' = RequestsShown
  \/ /\ TransitionAllowed(RequestsShown[r].status, "QUEUED_PAID")
     /\ RequestsShown' = [RequestsShown EXCEPT
                            ![r] = Moved(RequestsShown[r], "QUEUED_PAID")]

(* The coins of the payment are shown to be booked, or to have been.        *)
CoinsShown(p, u) ==
  LET coins == CoinsGranted(PaymentsShown[p].provider, PaymentsShown[p].amount)
  IN \/ /\ HasDeposit(WalletsShown[u], p) \/ coins = {}
        /\ WalletsShown' = WalletsShown
     \/ /\ ~ HasDeposit(WalletsShown[u], p)
        /\ \E c \in coins :
             WalletsShown' = [WalletsShown EXCEPT
                                ![u] = Booked(WalletsShown[u], c, p)]

(* Together they settle the payment.                                        *)
LEMMA StepSettle ==
  ASSUME NEW p \in PaymentId, PaymentsShown[p].status # "absent",
         OnlySuccess(p, PaymentsShown[p].intent), SettledPayment(p),
         NEW r, r = Resolve[PaymentsShown[p].intent],
         QueueShown(r), CoinsShown(p, RequestOwner[r])
  PROVE  Promise!Next
<1>1. Promise!Absent.status = "absent"
  BY DEF Promise!Absent
<1>2. Promise!NoOtherSuccess(p, PaymentsShown[p].intent)
  BY DEF Promise!NoOtherSuccess, PaymentId, OnlySuccess
<1>3. Promise!EnterPaidQueue(r)
  BY SameOperators DEF Promise!EnterPaidQueue, QueueShown
<1>4. Promise!BookCoins(p, RequestOwner[r])
  BY SameOperators DEF Promise!BookCoins, CoinsShown
<1>5. Promise!Settle(p)
  BY <1>1, <1>2, <1>3, <1>4 DEF Promise!Settle, SettledPayment
<1> QED
  BY <1>5 DEF Promise!Next, PaymentId

(* What the commit of pay_with_wallet shows.                                *)
ChargeShown(p, i, r, u) ==
  /\ PaymentsShown' = [PaymentsShown EXCEPT ![p] =
       [status |-> "success", intent |-> i, provider |-> "wallet", amount |-> 0]]
  /\ RequestsShown' = [RequestsShown EXCEPT
                          ![r] = Moved(RequestsShown[r], "QUEUED_PAID")]
  /\ WalletsShown' = [WalletsShown EXCEPT
                         ![u] = Booked(WalletsShown[u], 0 - CoinPrice[r], p)]

(* It is a charge when the request waited for payment and the coins were    *)
(* there.                                                                   *)
LEMMA StepCharge ==
  ASSUME NEW p \in PaymentId, PaymentsShown[p] = PaymentView(AbsentPayment),
         NEW i \in Intents, OnlySuccess(p, i),
         NEW r, r = Resolve[i], NEW u, u = RequestOwner[r],
         RequestsShown[r].status = "PAYMENT_REQUIRED",
         0 < CoinPrice[r], CoinPrice[r] <= WalletsShown[u].balance,
         ChargeShown(p, i, r, u)
  PROVE  Promise!Next
<1>1. PaymentsShown[p] = Promise!Absent
  BY DEF Promise!Absent, AbsentPayment, PaymentView
<1>2. Promise!NoOtherSuccess(p, i)
  BY DEF Promise!NoOtherSuccess, PaymentId, OnlySuccess
<1>3. Promise!Charge(p)
  BY <1>1, <1>2, SameOperators DEF Promise!Charge, ChargeShown
<1> QED
  BY <1>3 DEF Promise!Next, PaymentId

(* One step of Checkout, or none.                                           *)
Shown == Promise!Next \/ UNCHANGED Promise!promised

(* A commit shows the rows it writes, and those the handler has touched.    *)
LEMMA CommitShows ==
  ASSUME NEW w \in Workers, NEW change, IInv, BInv, PInv, Return(w, change)
  PROVE  /\ \A x \in Rows : /\ x \in DOMAIN change => db'[x] = change[x]
                            /\ x \notin DOMAIN change /\ owner[x] = w
                                 => db'[x] = work[x]
         /\ \A p \in PaymentId :
              \/ PaymentRow(p) \in DOMAIN change
              \/ PaymentView(db'[PaymentRow(p)]) = PaymentView(db[PaymentRow(p)])
              \/ /\ PaymentRow(p) = PaymentRow(job[w].payment)
                 /\ pc[w] \in InsertSteps \cup PaidSteps
         /\ \A r \in Requests :
              \/ RequestRow(r) \in DOMAIN change
              \/ RequestView(db'[RequestRow(r)]) = RequestView(db[RequestRow(r)])
              \/ /\ RequestRow(r) = RequestRow(job[w].request)
                 /\ pc[w] \in CreditSteps \cup {"consume"}
         /\ \A u \in Users :
              \/ WalletRow(u) \in DOMAIN change
              \/ db'[WalletRow(u)] = db[WalletRow(u)]
<1>1. \A x \in Rows : /\ x \in DOMAIN change => db'[x] = change[x]
                      /\ x \notin DOMAIN change /\ owner[x] = w
                           => db'[x] = work[x]
                      /\ x \notin DOMAIN change /\ owner[x] # w
                           => db'[x] = db[x]
  BY DEF Return, Commit, Overlay
<1>2. RowsTouched(w)
  BY DEF PInv
<1>3. ASSUME NEW p \in PaymentId, PaymentRow(p) \notin DOMAIN change
      PROVE  \/ PaymentView(db'[PaymentRow(p)]) = PaymentView(db[PaymentRow(p)])
             \/ /\ PaymentRow(p) = PaymentRow(job[w].payment)
                /\ pc[w] \in InsertSteps \cup PaidSteps
  BY <1>1, <1>2, <1>3, PaymentIsRow DEF RowsTouched, PaymentTouched
<1>4. ASSUME NEW r \in Requests, RequestRow(r) \notin DOMAIN change
      PROVE  \/ RequestView(db'[RequestRow(r)]) = RequestView(db[RequestRow(r)])
             \/ /\ RequestRow(r) = RequestRow(job[w].request)
                /\ pc[w] \in CreditSteps \cup {"consume"}
  <2>1. RequestRow(r) \in Rows /\ RequestRow(r)[1] = "request"
    BY DEF RequestRow, Rows
  <2> QED
    BY <1>1, <1>2, <1>4, <2>1 DEF RowsTouched, RequestTouched
<1>5. ASSUME NEW u \in Users, WalletRow(u) \notin DOMAIN change
      PROVE  db'[WalletRow(u)] = db[WalletRow(u)]
  BY <1>1, <1>5, UserRows DEF BInv, RowsGood
<1> QED
  BY <1>1, <1>3, <1>4, <1>5

(* A step that commits nothing shows nothing.                               *)
LEMMA SilentShows ==
  ASSUME UNCHANGED db PROVE Shown
BY ShowsNothing DEF PaymentsSame, RequestsSame, WalletsSame, Shown

(* The columns of a payment that is there do not change with its status.    *)
LEMMA ShownWritten ==
  ASSUME IInv, BInv, NEW p \in PaymentId, Exists(db[PaymentRow(p)]),
         NEW status \in PaymentStatuses,
         \/ db'[PaymentRow(p)] = [work[PaymentRow(p)] EXCEPT !.status = status]
         \/ /\ db'[PaymentRow(p)] = work[PaymentRow(p)]
            /\ work[PaymentRow(p)].status = status,
         PaymentsSame({p})
  PROVE  PaymentsShown' = [PaymentsShown EXCEPT ![p].status = status]
<1> DEFINE old == db[PaymentRow(p)]
           new == work[PaymentRow(p)]
           view == [PaymentView(old) EXCEPT !.status = status]
<1>1. /\ new \in PaymentRecord
      /\ new.intent = old.intent /\ new.provider = old.provider
      /\ new.amount = old.amount
  BY PaymentRows, PaymentIsRow DEF BInv, RowsGood, RowFits
<1>2. PaymentView(db'[PaymentRow(p)]) = view
  <2>1. /\ db'[PaymentRow(p)].status = status
        /\ db'[PaymentRow(p)].intent = new.intent
        /\ db'[PaymentRow(p)].provider = new.provider
        /\ db'[PaymentRow(p)].amount = new.amount
    <3>1. CASE db'[PaymentRow(p)] = [new EXCEPT !.status = status]
      BY <1>1, <3>1 DEF PaymentRecord
    <3>2. CASE db'[PaymentRow(p)] = new /\ new.status = status
      BY <3>2
    <3> QED
      BY <3>1, <3>2
  <2> HIDE DEF new, old
  <2>2. view = [status |-> status, intent |-> old.intent,
                provider |-> old.provider, amount |-> old.amount]
    BY DEF PaymentView
  <2> HIDE DEF view
  <2> QED
    BY <1>1, <2>1, <2>2 DEF PaymentView
<1>3. PaymentsShown' = [PaymentsShown EXCEPT ![p] = view]
  BY <1>2, OnePayment
<1>4. PaymentsShown[p] = PaymentView(old)
  BY DEF PaymentsShown
<1> HIDE DEF old
<1> QED
  BY <1>3, <1>4

(* The rows of the tables, but x, show what they showed, unless the handler *)
(* has touched them.                                                        *)
RestSame(w, x) ==
  /\ \A p \in PaymentId :
       \/ PaymentRow(p) = x
       \/ PaymentView(db'[PaymentRow(p)]) = PaymentView(db[PaymentRow(p)])
       \/ /\ PaymentRow(p) = PaymentRow(job[w].payment)
          /\ pc[w] \in InsertSteps \cup PaidSteps
  /\ \A r \in Requests :
       \/ RequestRow(r) = x
       \/ RequestView(db'[RequestRow(r)]) = RequestView(db[RequestRow(r)])
       \/ /\ RequestRow(r) = RequestRow(job[w].request)
          /\ pc[w] \in CreditSteps \cup {"consume"}
  /\ \A u \in Users :
       WalletRow(u) = x \/ db'[WalletRow(u)] = db[WalletRow(u)]

(* A commit that writes one row more.                                       *)
LEMMA PutShows ==
  ASSUME NEW w \in Workers, NEW x \in Rows, NEW value, IInv, BInv, PInv,
         Return(w, Put(x, value))
  PROVE  /\ db'[x] = value /\ Available(w, x) /\ RestSame(w, x)
         /\ \A y \in Rows \ {x} : owner[y] = w => db'[y] = work[y]
<1> DEFINE change == Put(x, value)
<1>1. DOMAIN change = {x} /\ change[x] = value /\ Return(w, change)
  BY DEF Put
<1> HIDE DEF change
<1>2. Available(w, x)
  BY <1>1 DEF Return, Commit
<1>3. db'[x] = value /\ \A y \in Rows \ {x} : owner[y] = w => db'[y] = work[y]
  BY <1>1, CommitShows
<1>4. RestSame(w, x)
  <2>1. \A y : y \in DOMAIN change <=> y = x
    BY <1>1
  <2> QED
    BY <1>1, <2>1, CommitShows DEF RestSame
<1> QED
  BY <1>2, <1>3, <1>4

(* The commit of create_payment opens a payment.                            *)
LEMMA InitProviderShows ==
  ASSUME NEW w \in Workers, IInv, BInv, PInv, InitProvider(w)
  PROVE  Shown
<1>0. PICK p, x : p = job[w].payment /\ x = PaymentRow(p)
  OBVIOUS
<1>1. pc[w] = "init_provider" /\ pc[w] \in InsertSteps
  BY DEF InitProvider, InsertSteps
<1>2. PICK status, value :
        /\ status \in {"initiated", "pending"}
        /\ value = [work[x] EXCEPT !.status = status]
        /\ Return(w, Put(x, value))
  BY <1>0 DEF InitProvider
<1>3. /\ p \in PaymentId /\ x \in Rows /\ x[1] = "payment"
      /\ Exists(work[x]) /\ ~ Exists(db[x])
      /\ work[x].provider \in Gateways /\ work[x].amount \in Amounts
  BY <1>0, <1>1, HandlerRows, StepsDiffer, PaymentIsRow
     DEF PInv, HandlerKnows, BInv, BookJob
<1>4. work[x].intent \in Intents /\ work[x] \in PaymentRecord
  BY <1>0, <1>3, PaymentRows DEF BInv, RowsGood, RowGood
<1>5. PaymentsShown[p] = PaymentView(AbsentPayment)
  BY <1>0, <1>3 DEF PaymentsShown, PInv, Follows, Blank
<1>6. db'[x] = value /\ RestSame(w, x)
  BY <1>2, <1>3, PutShows
<1>7. PaymentView(db'[x]) = [status |-> status, intent |-> work[x].intent,
                             provider |-> work[x].provider,
                             amount |-> work[x].amount]
  BY <1>2, <1>4, <1>6 DEF PaymentView, PaymentRecord
<1>8. PaymentsSame({p}) /\ RequestsSame({}) /\ WalletsSame({})
  <2>1. /\ \A r \in Requests : RequestRow(r) # x
        /\ \A u \in Users : WalletRow(u) # x
        /\ \A q \in PaymentId \ {p} : PaymentRow(q) # x
    BY <1>0 DEF PaymentRow, RequestRow, WalletRow
  <2> QED
    BY <1>0, <1>1, <1>6, <2>1
       DEF RestSame, PaymentsSame, RequestsSame, WalletsSame, CreditSteps
<1>9. PaymentsShown' = [PaymentsShown EXCEPT ![p] =
        [status |-> status, intent |-> work[x].intent,
         provider |-> work[x].provider, amount |-> work[x].amount]]
  BY <1>0, <1>3, <1>7, <1>8, OnePayment
<1>10. RequestsShown' = RequestsShown /\ WalletsShown' = WalletsShown
  BY <1>8, SameRequests, SameWallets
<1> QED
  BY <1>2, <1>3, <1>4, <1>5, <1>9, <1>10, StepOpen DEF Shown

(* apply_fail and mark_failed fail a payment.                               *)
LEMMA FailShows ==
  ASSUME NEW w \in Workers, IInv, BInv, PInv, NEW p \in PaymentId,
         Exists(db[PaymentRow(p)]), pc[w] \in {"idle", "apply"},
         Return(w, Put(PaymentRow(p),
                       [work[PaymentRow(p)] EXCEPT !.status = "failed"]))
  PROVE  Shown
<1>0. PICK x, value : /\ x = PaymentRow(p)
                      /\ value = [work[x] EXCEPT !.status = "failed"]
                      /\ Return(w, Put(x, value))
  OBVIOUS
<1>1. db'[x] = value /\ RestSame(w, x)
  BY <1>0, PaymentIsRow, PutShows
<1>2. PaymentsSame({p}) /\ RequestsSame({}) /\ WalletsSame({})
  <2>1. /\ \A r \in Requests : RequestRow(r) # x
        /\ \A u \in Users : WalletRow(u) # x
        /\ \A q \in PaymentId \ {p} : PaymentRow(q) # x
    BY <1>0 DEF PaymentRow, RequestRow, WalletRow
  <2>2. pc[w] \notin InsertSteps \cup PaidSteps \cup CreditSteps
                       \cup {"consume"}
    BY DEF InsertSteps, PaidSteps, CreditSteps
  <2> QED
    BY <1>0, <1>1, <2>1, <2>2
       DEF RestSame, PaymentsSame, RequestsSame, WalletsSame
<1>3. PaymentsShown' = [PaymentsShown EXCEPT ![p].status = "failed"]
  <2>1. "failed" \in PaymentStatuses
    BY DEF PaymentStatuses
  <2> QED
    BY <1>0, <1>1, <1>2, <2>1, ShownWritten
<1>4. RequestsShown' = RequestsShown /\ WalletsShown' = WalletsShown
  BY <1>2, SameRequests, SameWallets
<1>5. PaymentsShown[p].status # "absent"
  BY DEF PaymentsShown, PaymentView, Exists
<1> QED
  BY <1>3, <1>4, <1>5, StepFail DEF Shown

(* A request that moves shows the move.                                     *)
LEMMA MovedShown ==
  ASSUME NEW request \in RequestRecord, NEW target
  PROVE  RequestView(Moved(request, target))
           = Moved(RequestView(request), target)
<1> DEFINE move == <<request.status, target>>
           after == [status |-> target, log |-> Append(request.log, move)]
<1>1. /\ Moved(request, target).status = target
      /\ Moved(request, target).log = Append(request.log, move)
  BY DEF Moved, RequestRecord
<1>2. RequestView(Moved(request, target)) = after
  BY <1>1 DEF RequestView
<1>3. Moved(RequestView(request), target) = after
  <2>1. ASSUME NEW a, NEW b, NEW t, NEW c, NEW f,
               f = [status |-> a, log |-> b]
        PROVE  [f EXCEPT !.status = t, !.log = c] = [status |-> t, log |-> c]
    <3>1. [f EXCEPT !.status = t, !.log = c]
            = [x \in {"status", "log"} |-> IF x = "log" THEN c ELSE t]
      BY <2>1
    <3>2. [status |-> t, log |-> c]
            = [x \in {"status", "log"} |-> IF x = "log" THEN c ELSE t]
      OBVIOUS
    <3> QED
      BY <3>1, <3>2
  <2>2. PICK old : old = RequestView(request)
    OBVIOUS
  <2>3. /\ old = [status |-> request.status, log |-> request.log]
        /\ old.status = request.status /\ old.log = request.log
    BY <2>2 DEF RequestView
  <2>4. Moved(old, target)
          = [old EXCEPT !.status = target,
                        !.log = Append(old.log, <<old.status, target>>)]
    BY DEF Moved
  <2>5. Moved(old, target) = after
    BY <2>1, <2>3, <2>4
  <2> QED
    BY <2>2, <2>5
<1> QED
  BY <1>2, <1>3

(* enqueue_request and the administrator's actions advance a request.       *)
LEMMA MoveShows ==
  ASSUME NEW w \in Workers, IInv, BInv, PInv, NEW r \in Requests,
         NEW target \in Statuses \ {"QUEUED_PAID"}, Move(w, r, target)
  PROVE  Shown
<1>0. PICK x, value : x = RequestRow(r) /\ value = Moved(work[x], target)
  OBVIOUS
<1>1. /\ pc[w] = "idle" /\ TransitionAllowed(work[x].status, target)
      /\ Return(w, Put(x, value))
  BY <1>0 DEF Move
<1>2. x \in Rows /\ work[x] \in RequestRecord /\ db[x] \in RequestRecord
  BY <1>0, RequestRows
<1>3. db'[x] = value /\ Available(w, x) /\ RestSame(w, x)
  BY <1>1, <1>2, PutShows
<1>4. RequestView(work[x]) = RequestView(db[x])
  BY <1>0, <1>1, <1>3, RequestUntouched DEF CreditSteps
<1>5. RequestView(db'[x]) = Moved(RequestView(db[x]), target)
  BY <1>0, <1>2, <1>3, <1>4, MovedShown
<1>6. RequestsSame({r}) /\ PaymentsSame({}) /\ WalletsSame({})
  <2>1. /\ \A p \in PaymentId : PaymentRow(p) # x
        /\ \A u \in Users : WalletRow(u) # x
        /\ \A q \in Requests \ {r} : RequestRow(q) # x
    BY <1>0 DEF PaymentRow, RequestRow, WalletRow
  <2>2. pc[w] \notin InsertSteps \cup PaidSteps \cup CreditSteps
                       \cup {"consume"}
    BY <1>1 DEF InsertSteps, PaidSteps, CreditSteps
  <2> QED
    BY <1>0, <1>3, <2>1, <2>2
       DEF RestSame, PaymentsSame, RequestsSame, WalletsSame
<1>7. RequestsShown[r] = RequestView(db[x])
  BY <1>0 DEF RequestsShown
<1>8. TransitionAllowed(RequestsShown[r].status, target)
  BY <1>1, <1>4, <1>7 DEF RequestView
<1>9. RequestsShown' = [RequestsShown EXCEPT
                          ![r] = Moved(RequestsShown[r], target)]
  BY <1>0, <1>5, <1>6, <1>7, OneRequest
<1>10. PaymentsShown' = PaymentsShown /\ WalletsShown' = WalletsShown
  BY <1>6, SamePayments, SameWallets
<1> QED
  BY <1>8, <1>9, <1>10, StepAdvance DEF Shown

(* A handler that ends the start of work, with or without the payment.      *)
LEMMA StartShows ==
  ASSUME NEW w \in Workers, IInv, BInv, PInv, NEW change, pc[w] = "consume",
         Return(w, change),
         \/ change = NoWrites
         \/ change = Put(PaymentRow(job[w].payment),
                         [work[PaymentRow(job[w].payment)]
                            EXCEPT !.consumed = TRUE])
  PROVE  Shown
<1>0. PICK p, x, r, y : /\ p = job[w].payment /\ x = PaymentRow(p)
                        /\ r = job[w].request /\ y = RequestRow(r)
  OBVIOUS
<1>1. /\ p \in PaymentId /\ x \in Rows /\ x[1] = "payment"
      /\ r \in Requests /\ y \in Rows /\ y[1] = "request"
  BY <1>0, HandlerRows DEF PaymentSteps, PaymentRow, RequestRow
<1>2. pc[w] \notin InsertSteps \cup PaidSteps \cup CreditSteps
  BY DEF InsertSteps, PaidSteps, CreditSteps
<1>3. /\ PaymentView(db'[x]) = PaymentView(db[x]) /\ RestSame(w, x)
      /\ owner[y] = w => db'[y] = work[y]
      /\ owner[y] # w => db'[y] = db[y]
  <2>1. CASE change = NoWrites
    <3>1. \A z : z \notin DOMAIN change
      BY <2>1 DEF NoWrites
    <3>2. RestSame(w, x)
      BY <3>1, CommitShows DEF RestSame
    <3>3. PaymentView(db'[x]) = PaymentView(db[x])
      BY <1>0, <1>1, <1>2, <3>1, CommitShows
    <3>4. /\ owner[y] = w => db'[y] = work[y]
          /\ owner[y] # w => db'[y] = db[y]
      BY <1>1, <3>1 DEF Return, Commit, Overlay
    <3> QED
      BY <3>2, <3>3, <3>4
  <2>2. CASE change = Put(x, [work[x] EXCEPT !.consumed = TRUE])
    <3>1. PICK value : /\ value = [work[x] EXCEPT !.consumed = TRUE]
                       /\ change = Put(x, value)
      BY <2>2
    <3>2. db'[x] = value /\ Available(w, x) /\ RestSame(w, x)
      BY <1>1, <3>1, PutShows
    <3>3. work[x] = db[x]
      BY <1>1, <1>2, <3>2
         DEF PInv, Follows, RowsTouched, PaymentTouched, Available
    <3>4. PaymentView(db'[x]) = PaymentView(db[x])
      BY <1>0, <1>1, <3>1, <3>2, <3>3, ConsumedWritten
    <3>5. DOMAIN change = {x} /\ y # x
      BY <1>1, <3>1 DEF Put
    <3>6. /\ owner[y] = w => db'[y] = work[y]
          /\ owner[y] # w => db'[y] = db[y]
      BY <1>1, <3>5 DEF Return, Commit, Overlay
    <3> QED
      BY <3>2, <3>4, <3>6
  <2> QED
    BY <1>0, <2>1, <2>2
<1>4. PaymentsSame({}) /\ WalletsSame({}) /\ RequestsSame({r})
  <2>1. /\ \A u \in Users : WalletRow(u) # x
        /\ \A q \in Requests : RequestRow(q) # x
        /\ \A q \in Requests \ {r} : RequestRow(q) # y
    BY <1>0 DEF PaymentRow, WalletRow, RequestRow
  <2>2. PaymentsSame({})
    BY <1>2, <1>3 DEF RestSame, PaymentsSame
  <2>3. WalletsSame({})
    BY <1>3, <2>1 DEF RestSame, WalletsSame
  <2>4. RequestsSame({r})
    <3>1. RequestRow(job[w].request) = y
      BY <1>0
    <3> QED
      BY <1>3, <2>1, <3>1 DEF RestSame, RequestsSame
  <2> QED
    BY <2>2, <2>3, <2>4
<1>5. CASE RequestView(db'[y]) = RequestView(db[y])
  <2>1. RequestsSame({})
    BY <1>0, <1>4, <1>5 DEF RequestsSame
  <2> QED
    BY <1>4, <2>1, ShowsNothing DEF Shown
<1>6. CASE RequestView(db'[y]) # RequestView(db[y])
  <2>1. owner[y] = w /\ db'[y] = work[y]
    BY <1>3, <1>6
  <2>2. MovedFrom(db[y], work[y], "IN_PROGRESS")
    BY <1>1, <1>2, <1>6, <2>1 DEF PInv, RowsTouched, RequestTouched
  <2>3. db[y] \in RequestRecord
    BY <1>0, <1>1, RequestRows
  <2>4. /\ TransitionAllowed(RequestsShown[r].status, "IN_PROGRESS")
        /\ RequestsShown[r] = RequestView(db[y])
    BY <1>0, <1>1, <2>2 DEF MovedFrom, RequestsShown, RequestView
  <2>5. RequestView(db'[y]) = Moved(RequestView(db[y]), "IN_PROGRESS")
    BY <2>1, <2>2, <2>3, MovedShown DEF MovedFrom
  <2>6. RequestsShown' = [RequestsShown EXCEPT
                            ![r] = Moved(RequestsShown[r], "IN_PROGRESS")]
    BY <1>0, <1>1, <1>4, <2>4, <2>5, OneRequest
  <2>7. PaymentsShown' = PaymentsShown /\ WalletsShown' = WalletsShown
    BY <1>4, SamePayments, SameWallets
  <2>8. "IN_PROGRESS" \in Statuses \ {"QUEUED_PAID"}
    BY DEF Statuses
  <2> QED
    BY <1>1, <2>4, <2>6, <2>7, <2>8, StepAdvance DEF Shown
<1> QED
  BY <1>5, <1>6

(* No payment but p shows a success for its intent.                         *)
LEMMA SuccessShown ==
  ASSUME BInv, PInv, NEW p \in PaymentId, NEW intent,
         \A q \in PaymentId : /\ work[PaymentRow(q)].status = "success"
                             /\ work[PaymentRow(q)].intent = intent
                             => q = p
  PROVE  OnlySuccess(p, intent)
<1> SUFFICES ASSUME NEW q \in PaymentId, PaymentsShown[q].status = "success",
                    PaymentsShown[q].intent = intent
             PROVE  q = p
  BY DEF OnlySuccess
<1>1. /\ db[PaymentRow(q)].status = "success"
      /\ db[PaymentRow(q)].intent = intent
  BY DEF PaymentsShown, PaymentView
<1>2. work[PaymentRow(q)].status = "success"
  BY <1>1 DEF PInv, Follows
<1>3. Exists(db[PaymentRow(q)])
  BY <1>1 DEF Exists
<1>4. work[PaymentRow(q)].intent = intent
  BY <1>1, <1>3, PaymentIsRow DEF BInv, RowsGood, RowFits
<1> QED
  BY <1>2, <1>4

(* The commit of apply_success settles a payment.                           *)
LEMMA SettleShows ==
  ASSUME NEW w \in Workers, IInv, BInv, PInv, pc[w] \in CreditSteps,
         NEW change, Return(w, change), DOMAIN change \subseteq {UserWallet(w)},
         LET p == job[w].payment
             old == db[UserWallet(w)]
             new == db'[UserWallet(w)]
         IN \/ (HasDeposit(old, p) \/ Coins(w) = {}) /\ new = old
            \/ /\ ~ HasDeposit(old, p)
               /\ \E c \in Coins(w) : new = Booked(old, c, p)
  PROVE  Shown
<1>0. PICK p, x, r, y, u, z :
        /\ p = job[w].payment /\ x = PaymentRow(p)
        /\ r = job[w].request /\ y = RequestRow(r)
        /\ u = RequestOwner[r] /\ z = WalletRow(u)
  OBVIOUS
<1>1. pc[w] \in ApplySteps /\ pc[w] \in PaidSteps /\ pc[w] # "idle"
  BY DEF ApplySteps, PaidSteps, CreditSteps
<1>2. /\ p \in PaymentId /\ x \in Rows /\ x[1] = "payment"
      /\ r \in Requests /\ y \in Rows /\ y[1] = "request"
      /\ u \in Users /\ UserWallet(w) = z
  BY <1>0, <1>1, HandlerRows, StepsDiffer, UserWalletRow
     DEF PaymentRow, RequestRow, UserWallet, BInv
<1>3. /\ Exists(db[x]) /\ Resolve[db[x].intent] = r /\ owner[y] = w
  BY <1>0, <1>1 DEF BInv, BookJob, CreditSteps
<1>4. /\ owner[x] = w /\ work[x].status = "success"
      /\ work[y].status = "QUEUED_PAID"
  BY <1>0, <1>1 DEF PInv, HandlerKnows
<1>5. /\ x # z /\ y # z /\ x # y
      /\ \A q \in PaymentId \ {p} : PaymentRow(q) # x
      /\ \A q \in PaymentId : PaymentRow(q) # z
      /\ \A q \in Requests \ {r} : RequestRow(q) # y
      /\ \A q \in Requests : RequestRow(q) # z
      /\ \A v \in Users \ {u} : WalletRow(v) # z
  BY <1>0 DEF PaymentRow, RequestRow, WalletRow
<1>6. \A row : row # z => row \notin DOMAIN change
  BY <1>2
<1>7. db'[x] = work[x] /\ db'[y] = work[y]
  BY <1>2, <1>3, <1>4, <1>5, <1>6, CommitShows
<1>8. PaymentsSame({p})
  BY <1>0, <1>5, <1>6, CommitShows DEF PaymentsSame
<1>9. RequestsSame({r})
  BY <1>0, <1>5, <1>6, CommitShows DEF RequestsSame
<1>10. WalletsSame({u})
  BY <1>0, <1>5, <1>6, CommitShows DEF WalletsSame
<1>11. SettledPayment(p)
  <2>1. "success" \in PaymentStatuses
    BY DEF PaymentStatuses
  <2> QED
    BY <1>0, <1>2, <1>3, <1>4, <1>7, <1>8, <2>1, ShownWritten
       DEF SettledPayment
<1>12. /\ PaymentsShown[p].status = db[x].status
       /\ PaymentsShown[p].intent = db[x].intent
       /\ PaymentsShown[p].provider = db[x].provider
       /\ PaymentsShown[p].amount = db[x].amount
       /\ RequestsShown[r] = RequestView(db[y]) /\ WalletsShown[u] = db[z]
  BY <1>0, <1>2 DEF PaymentsShown, PaymentView, RequestsShown, WalletsShown
<1>13. /\ work[x].intent = db[x].intent /\ work[x].provider = db[x].provider
       /\ work[x].amount = db[x].amount
  BY <1>2, <1>3 DEF BInv, RowsGood, RowFits
<1>14. OnlySuccess(p, PaymentsShown[p].intent)
  <2>1. \A q \in PaymentId : /\ work[PaymentRow(q)].status = "success"
                            /\ work[PaymentRow(q)].intent = db[x].intent
                            => q = p
    BY <1>0, <1>2, <1>4, <1>13 DEF PInv, SuccessIsUnique
  <2> QED
    BY <1>2, <1>12, <2>1, SuccessShown
<1>15. QueueShown(r)
  <2>1. RequestTouched(w, y)
    BY <1>2, <1>3 DEF PInv, RowsTouched
  <2>2. CASE RequestView(work[y]) = RequestView(db[y])
    <3>1. db[y].status = "QUEUED_PAID" /\ RequestsShown[r].status = db[y].status
      BY <1>4, <1>12, <2>2 DEF RequestView
    <3>2. RequestsSame({})
      BY <1>0, <1>7, <1>9, <2>2 DEF RequestsSame
    <3> QED
      BY <3>1, <3>2, SameRequests DEF QueueShown
  <2>3. CASE MovedFrom(db[y], work[y], "QUEUED_PAID")
    <3>1. db[y] \in RequestRecord
      BY <1>0, <1>2, RequestRows
    <3>2. RequestView(db'[y]) = Moved(RequestsShown[r], "QUEUED_PAID")
      BY <1>7, <1>12, <2>3, <3>1, MovedShown DEF MovedFrom
    <3>3. RequestsShown[r].status = db[y].status
      BY <1>12 DEF RequestView
    <3> QED
      BY <1>0, <1>2, <1>9, <2>3, <3>2, <3>3, OneRequest
         DEF MovedFrom, QueueShown
  <2> QED
    BY <2>1, <2>2, <2>3, <1>1 DEF RequestTouched, CreditSteps
<1>16. PICK coins : coins = Coins(w)
  OBVIOUS
<1>17. CoinsGranted(PaymentsShown[p].provider, PaymentsShown[p].amount) = coins
  BY <1>0, <1>12, <1>13, <1>16 DEF Coins
<1>18. CoinsShown(p, u)
  <2>1. CASE /\ HasDeposit(db[z], p) \/ coins = {}
             /\ db'[z] = db[z]
    <3>1. WalletsSame({})
      BY <1>0, <1>10, <2>1 DEF WalletsSame
    <3> QED
      BY <1>12, <1>17, <2>1, <3>1, SameWallets DEF CoinsShown
  <2>2. CASE /\ ~ HasDeposit(db[z], p)
             /\ \E c \in coins : db'[z] = Booked(db[z], c, p)
    <3>1. PICK c \in coins : db'[z] = Booked(db[z], c, p)
      BY <2>2
    <3>2. PICK wallet : wallet = Booked(db[z], c, p)
      OBVIOUS
    <3>3. WalletsShown' = [WalletsShown EXCEPT ![u] = wallet]
      BY <1>0, <1>2, <1>10, <3>1, <3>2, OneWallet
    <3> QED
      BY <1>12, <1>17, <2>2, <3>2, <3>3 DEF CoinsShown
  <2> QED
    BY <1>0, <1>2, <1>16, <2>1, <2>2
<1>19. /\ PaymentsShown[p].status # "absent"
       /\ Resolve[PaymentsShown[p].intent] = r /\ RequestOwner[r] = u
  BY <1>0, <1>3, <1>12 DEF Exists
<1> QED
  BY <1>2, <1>11, <1>14, <1>15, <1>18, <1>19, StepSettle DEF Shown

(* _credit_wallet_from_payment.                                             *)
LEMMA CreditShows ==
  ASSUME NEW w \in Workers, IInv, BInv, PInv,
         \/ CreditNothing(w) \/ Credit(w) \/ CreditNoWallet(w)
         \/ CreateWallet(w)
  PROVE  Shown
<1>0. PICK p, x : p = job[w].payment /\ x = UserWallet(w)
  OBVIOUS
<1>1. pc[w] \in CreditSteps /\ pc[w] # "idle"
  BY DEF CreditNothing, Credit, CreditNoWallet, CreateWallet, CreditSteps
<1>2. x \in Rows /\ x[1] = "wallet" /\ work[x] = db[x] /\ Seen(w, x) = db[x]
  BY <1>0, <1>1, UserWalletRow DEF BInv, Seen
<1>3. CASE CreditNothing(w)
  <2>1. Return(w, NoWrites) /\ \A row : row \notin DOMAIN NoWrites
    BY <1>3 DEF CreditNothing, NoWrites
  <2>2. HasDeposit(db[x], p) \/ Coins(w) = {}
    BY <1>0, <1>2, <1>3 DEF CreditNothing, Credited
  <2>3. db'[x] = db[x]
    BY <1>2, <2>1 DEF Return, Commit, Overlay
  <2> QED
    BY <1>0, <1>1, <2>1, <2>2, <2>3, SettleShows
<1>4. CASE Credit(w) \/ (CreateWallet(w) /\ ~ Raise(w))
  <2>1. ~ HasDeposit(db[x], p)
    <3>1. CASE Credit(w)
      BY <1>0, <1>2, <3>1 DEF Credit, Credited
    <3>2. CASE CreateWallet(w) /\ ~ Raise(w)
      <4>1. db[x].entries = <<>>
        BY <1>0, <1>2, <3>2 DEF CreateWallet, BInv, RowsGood, RowGood
      <4> QED
        BY <4>1 DEF HasDeposit
    <3> QED
      BY <1>4, <3>1, <3>2
  <2>2. PICK c, value : /\ c \in Coins(w)
                       /\ value = Booked(work[x], c, p)
                       /\ Return(w, Put(x, value))
    BY <1>0, <1>4 DEF Credit, CreateWallet
  <2>3. db'[x] = value
    BY <1>2, <2>2, PutShows
  <2>4. DOMAIN Put(x, value) \subseteq {x}
    BY DEF Put
  <2>5. db'[x] = Booked(db[x], c, p)
    BY <1>2, <2>2, <2>3
  <2> QED
    BY <1>0, <1>1, <2>1, <2>2, <2>4, <2>5, SettleShows
<1>5. CASE CreditNoWallet(w) \/ Raise(w)
  BY <1>5, SilentShows DEF CreditNoWallet, Raise, Rollback
<1> QED
  BY <1>3, <1>4, <1>5

(* The commit of pay_with_wallet is one charge.                             *)
LEMMA ChargeShows ==
  ASSUME NEW w \in Workers, IInv, BInv, PInv, WalletPay(w)
  PROVE  Shown
<1>1. PICK p, change :
        LET x == UserWallet(w)
            r == RequestRow(job[w].request)
        IN /\ p \in NextPayment \cap PaymentId
           /\ Clash(w, p, WalletPayment(w)) = {}
           /\ IndexWait(w, p, WalletPayment(w)) = {}
           /\ Return(w, change) /\ DOMAIN change = {PaymentRow(p), x, r}
           /\ change[PaymentRow(p)] = WalletPayment(w)
           /\ change[x] = Booked(work[x], 0 - CoinPrice[job[w].request], p)
           /\ change[r] = Transitioned([work[r] EXCEPT !.payment = p],
                                       "QUEUED_PAID")
  BY WalletPayWrites
<1>2. PICK i, x, r, y, u, z :
        /\ i = job[w].intent /\ x = PaymentRow(p)
        /\ r = job[w].request /\ y = RequestRow(r)
        /\ u = RequestOwner[r] /\ z = WalletRow(u)
  OBVIOUS
<1>3. /\ pc[w] = "wallet_pay" /\ pc[w] \in WalletSteps /\ pc[w] # "idle"
      /\ TransitionAccepted(work[y].status, "QUEUED_PAID")
  BY <1>2 DEF WalletPay, WalletSteps
<1>4. /\ r \in Requests /\ y \in Rows /\ y[1] = "request"
      /\ u \in Users /\ UserWallet(w) = z /\ z \in Rows
      /\ x \in Rows /\ x[1] = "payment" /\ p \in PaymentId
      /\ work[z] = db[z]
  BY <1>1, <1>2, <1>3, HandlerRows, UserWalletRow
     DEF PaymentRow, Rows, RequestRow, UserWallet, BInv
<1>5. /\ i \in Intents /\ Resolve[i] = r /\ owner[y] = w
      /\ work[y].status \in PayableStatuses /\ 0 < CoinPrice[r]
      /\ CoinPrice[r] <= work[z].balance
  BY <1>2, <1>3, <1>4
     DEF IInv, JobOk, IntentSteps, BInv, BookJob, CoversPrice
<1>6. /\ x # z /\ y # z /\ x # y
      /\ \A q \in PaymentId \ {p} : PaymentRow(q) # x
      /\ \A q \in PaymentId : PaymentRow(q) # z /\ PaymentRow(q) # y
      /\ \A q \in Requests \ {r} : RequestRow(q) # y
      /\ \A q \in Requests : RequestRow(q) # z /\ RequestRow(q) # x
      /\ \A v \in Users \ {u} : WalletRow(v) # z
      /\ \A v \in Users : WalletRow(v) # x /\ WalletRow(v) # y
  BY <1>2 DEF PaymentRow, RequestRow, WalletRow
<1>7. /\ DOMAIN change = {x, y, z}
      /\ change[x] = WalletPayment(w)
      /\ change[z] = Booked(work[z], 0 - CoinPrice[r], p)
      /\ change[y] = Transitioned([work[y] EXCEPT !.payment = p], "QUEUED_PAID")
  BY <1>1, <1>2, <1>4
<1>8. /\ db'[x] = WalletPayment(w)
      /\ db'[z] = Booked(db[z], 0 - CoinPrice[r], p)
      /\ db'[y] = Transitioned([work[y] EXCEPT !.payment = p], "QUEUED_PAID")
  BY <1>1, <1>4, <1>7, CommitShows
<1>9. pc[w] \notin InsertSteps \cup PaidSteps \cup CreditSteps \cup {"consume"}
  BY <1>3 DEF InsertSteps, PaidSteps, CreditSteps
<1>10. PaymentsSame({p})
  BY <1>1, <1>6, <1>7, <1>9, CommitShows DEF PaymentsSame
<1>11. RequestsSame({r})
  BY <1>1, <1>6, <1>7, <1>9, CommitShows DEF RequestsSame
<1>12. WalletsSame({u})
  BY <1>1, <1>6, <1>7, CommitShows DEF WalletsSame
<1>13. RequestView(work[y]) = RequestView(db[y])
  BY <1>2, <1>4, <1>5, <1>9, RequestUntouched DEF Available
<1>14. RequestsShown[r] = RequestView(db[y]) /\ WalletsShown[u] = db[z]
  BY <1>2, <1>4 DEF RequestsShown, WalletsShown
<1>15. /\ work[y].status = "PAYMENT_REQUIRED"
       /\ RequestsShown[r].status = "PAYMENT_REQUIRED"
  <2>1. work[y].status = "PAYMENT_REQUIRED"
    BY <1>3, <1>5 DEF TransitionAccepted, TransitionAllowed, TransitionRules,
                      PayableStatuses
  <2> QED
    BY <1>13, <1>14, <2>1 DEF RequestView
<1>16. RequestView(db'[y]) = Moved(RequestsShown[r], "QUEUED_PAID")
  <2>1. work[y] \in RequestRecord
    BY <1>2, <1>4, RequestRows
  <2>2. PICK request : request = [work[y] EXCEPT !.payment = p]
    OBVIOUS
  <2>3. /\ request \in RequestRecord /\ request.status = work[y].status
        /\ RequestView(request) = RequestView(work[y])
    BY <1>4, <2>1, <2>2 DEF RequestRecord, RequestView
  <2>4. db'[y] = Moved(request, "QUEUED_PAID")
    BY <1>8, <1>15, <2>2, <2>3 DEF Transitioned
  <2> QED
    BY <1>13, <1>14, <2>3, <2>4, MovedShown
<1>17. PaymentsShown[p] = PaymentView(AbsentPayment)
  <2>1. ~ Exists(work[x])
    BY <1>1, <1>2 DEF NextPayment, PaymentId
  <2>2. ~ Exists(db[x])
    BY <1>4, <2>1 DEF BInv, RowsGood, RowFits
  <2> QED
    BY <1>2, <1>4, <2>2 DEF PaymentsShown, PInv, Follows, Blank
<1>18. WalletPayment(w).status = "success" /\ WalletPayment(w).intent = i
  BY <1>2 DEF WalletPayment, NewPayment
<1>19. OnlySuccess(p, i)
  <2>1. \A q \in PaymentId \ {p} :
          work[PaymentRow(q)].status = "success"
            => work[PaymentRow(q)].intent # i
    BY <1>1, <1>4, <1>18, NoClash DEF PInv
  <2> QED
    BY <1>4, <2>1, SuccessShown
<1>20. PaymentsShown' = [PaymentsShown EXCEPT ![p] =
         [status |-> "success", intent |-> i, provider |-> "wallet",
          amount |-> 0]]
  <2>1. PaymentView(db'[x]) = [status |-> "success", intent |-> i,
                               provider |-> "wallet", amount |-> 0]
    BY <1>2, <1>8 DEF PaymentView, WalletPayment, NewPayment
  <2> QED
    BY <1>2, <1>4, <1>10, <2>1, OnePayment
<1>21. RequestsShown' = [RequestsShown EXCEPT
                           ![r] = Moved(RequestsShown[r], "QUEUED_PAID")]
  BY <1>2, <1>4, <1>11, <1>16, OneRequest
<1>22. WalletsShown' = [WalletsShown EXCEPT
                          ![u] = Booked(WalletsShown[u], 0 - CoinPrice[r], p)]
  <2>1. PICK wallet : wallet = Booked(db[z], 0 - CoinPrice[r], p)
    OBVIOUS
  <2>2. WalletsShown' = [WalletsShown EXCEPT ![u] = wallet]
    BY <1>2, <1>4, <1>8, <1>12, <2>1, OneWallet
  <2> QED
    BY <1>14, <2>1, <2>2
<1>23. ChargeShown(p, i, r, u)
  BY <1>20, <1>21, <1>22 DEF ChargeShown
<1> QED
  BY <1>2, <1>4, <1>5, <1>14, <1>15, <1>17, <1>19, <1>23, StepCharge DEF Shown

(* mark_consumed by an administrator shows nothing.                         *)
LEMMA MarkConsumedShows ==
  ASSUME NEW w \in Workers, IInv, BInv, PInv, AdminMarkConsumed(w)
  PROVE  Shown
<1>0. PICK p, x, value :
        /\ p \in PaymentId /\ x = PaymentRow(p)
        /\ value = [work[x] EXCEPT !.consumed = TRUE]
        /\ pc[w] = "idle" /\ Return(w, Put(x, value))
  BY DEF AdminMarkConsumed
<1>1. x \in Rows /\ x[1] = "payment"
  BY <1>0, PaymentIsRow
<1>2. db'[x] = value /\ Available(w, x) /\ RestSame(w, x)
  BY <1>0, <1>1, PutShows
<1>3. work[x] = db[x]
  BY <1>0, <1>1, <1>2 DEF PInv, Follows, RowsTouched, Available
<1>4. PaymentView(db'[x]) = PaymentView(db[x])
  BY <1>0, <1>2, <1>3, ConsumedWritten
<1>5. PaymentsSame({}) /\ RequestsSame({}) /\ WalletsSame({})
  <2>1. /\ \A r \in Requests : RequestRow(r) # x
        /\ \A u \in Users : WalletRow(u) # x
    BY <1>0 DEF PaymentRow, RequestRow, WalletRow
  <2>2. pc[w] \notin InsertSteps \cup PaidSteps \cup CreditSteps
                       \cup {"consume"}
    BY <1>0 DEF InsertSteps, PaidSteps, CreditSteps
  <2> QED
    BY <1>2, <1>4, <2>1, <2>2
       DEF RestSame, PaymentsSame, RequestsSame, WalletsSame
<1> QED
  BY <1>5, ShowsNothing DEF Shown

(* Every request that arrives shows one step of Checkout, or nothing.       *)
LEMMA ArrivalShows ==
  ASSUME NEW w \in Workers, IInv, BInv, PInv, Arrival(w)
  PROVE  Shown
<1>1. CASE \/ InitBegin(w) \/ CallbackBegin(w) \/ VerifyBegin(w)
           \/ WalletBegin(w) \/ AdminMarkSuccess(w) \/ UpdateBegin(w)
           \/ StaffStartWork(w)
  <2>1. UNCHANGED db
    BY <1>1 DEF InitBegin, CallbackBegin, VerifyBegin, WalletBegin,
                AdminMarkSuccess, UpdateBegin, StaffStartWork, Start, Write
  <2> QED
    BY <2>1, SilentShows
<1>2. CASE AdminMarkFailed(w)
  BY <1>2, FailShows DEF AdminMarkFailed
<1>3. CASE AdminMarkConsumed(w)
  BY <1>3, MarkConsumedShows
<1>4. CASE Enqueue(w) \/ StaffMove(w)
  <2>1. PICK r \in Requests, target \in Statuses \ {"QUEUED_PAID"} :
          Move(w, r, target)
    BY <1>4 DEF Enqueue, StaffMove, StaffTargets, FirstQueue, Statuses
  <2> QED
    BY <2>1, MoveShows
<1> QED
  BY <1>1, <1>2, <1>3, <1>4 DEF Arrival

(* So does every statement and every failure, where no client uses the      *)
(* update endpoint, which saves a stale status.                             *)
LEMMA StatementShows ==
  ASSUME NEW w \in Workers, IInv, BInv, PInv, "update" \notin Events,
         Statement(w) \/ DeadlockVictim(w) \/ Crash(w)
  PROVE  Shown
<1>1. CASE Raise(w)
  BY <1>1, SilentShows DEF Raise, Rollback
<1>2. CASE \/ InitLockKey(w) \/ InitRefused(w) \/ InitInsert(w)
           \/ InitBindKey(w) \/ InitKeyTaken(w) \/ InitAttach(w)
           \/ LockPayment(w) \/ RefuseSku(w) \/ ApplySuccess(w)
           \/ ApplyClash(w) \/ MarkPaid(w) \/ PaidTransition(w)
           \/ PaidTransitionRefused(w) \/ WalletRequest(w) \/ WalletDebit(w)
           \/ WalletPayRefused(w)
  <2>1. UNCHANGED db
    BY <1>2 DEF InitLockKey, InitRefused, InitInsert, InitBindKey,
         InitKeyTaken, InitAttach, LockPayment, RefuseSku, ApplySuccess,
         ApplyClash, MarkPaid, PaidTransition, PaidTransitionRefused,
         WalletRequest, WalletDebit, WalletPayRefused, LockRow, Write, Raise,
         Rollback
  <2> QED
    BY <2>1, SilentShows
<1>3. CASE InitProvider(w)
  BY <1>3, InitProviderShows
<1>4. CASE ApplyFail(w)
  <2>1. pc[w] = "apply" /\ pc[w] \in ApplySteps
    BY <1>4 DEF ApplyFail, ApplySteps
  <2>2. job[w].payment \in PaymentId /\ Exists(db[PaymentRow(job[w].payment)])
    BY <2>1, HandlerRows, StepsDiffer DEF BInv, BookJob
  <2> QED
    BY <1>4, <2>1, <2>2, FailShows DEF ApplyFail
<1>5. CASE \/ CreditNothing(w) \/ Credit(w) \/ CreditNoWallet(w)
           \/ CreateWallet(w)
  BY <1>5, CreditShows
<1>6. CASE WalletPay(w)
  BY <1>6, ChargeShows
<1>7. CASE Consume(w)
  <2>1. pc[w] = "consume"
    BY <1>7 DEF Consume
  <2>2. CASE Return(w, NoWrites)
    BY <2>1, <2>2, StartShows
  <2>3. PICK change :
          /\ change = Put(PaymentRow(job[w].payment),
                          [work[PaymentRow(job[w].payment)]
                             EXCEPT !.consumed = TRUE])
          /\ Return(w, change) \/ Return(w, NoWrites)
    BY <1>7 DEF Consume
  <2> QED
    BY <2>1, <2>2, <2>3, StartShows
<1>8. CASE DeadlockVictim(w)
  BY <1>1, <1>8, StartShows DEF DeadlockVictim
<1>9. CASE Crash(w)
  BY <1>1, <1>9 DEF Crash
<1>10. ~ UpdateSave(w)
  BY DEF UpdateSave, IInv, JobOk
<1> QED
  BY <1>2, <1>3, <1>4, <1>5, <1>6, <1>7, <1>8, <1>9, <1>10 DEF Statement

(* A step of Billing is a step of Checkout, or shows nothing.               *)
LEMMA NextShows ==
  ASSUME IInv, BInv, PInv, "update" \notin Events, [Next]_vars
  PROVE  Shown
<1>1. CASE UNCHANGED vars
  BY <1>1, SilentShows DEF vars
<1>2. CASE Next
  BY <1>2, ArrivalShows, StatementShows DEF Next
<1> QED
  BY <1>1, <1>2

(* The empty database is what Checkout starts from.                         *)
LEMMA InitShows ==
  ASSUME Init PROVE Promise!Init
<1>1. PICK wallets \in [Users -> {NoWallet} \cup
                                {WalletWith(b) : b \in OpeningBalances}] :
        db = [x \in Rows |-> CASE x[1] = "payment" -> AbsentPayment
                               [] x[1] = "request" -> NewRequest
                               [] x[1] = "wallet" -> wallets[x[2]]
                               [] x[1] = "key" -> NoPayment]
  BY DEF Init
<1>2. \A p \in PaymentId : db[PaymentRow(p)] = AbsentPayment
  BY <1>1 DEF PaymentRow, Rows
<1>3. \A r \in Requests : db[RequestRow(r)] = NewRequest
  BY <1>1 DEF RequestRow, Rows
<1>4. \A u \in Users : db[WalletRow(u)] = wallets[u]
  BY <1>1 DEF WalletRow, Rows
<1>5. PaymentsShown = [p \in 1 .. MaxPayments |-> Promise!Absent]
  <2>1. PaymentView(AbsentPayment) = Promise!Absent
    BY DEF PaymentView, AbsentPayment, Promise!Absent
  <2> QED
    BY <1>2, <2>1 DEF PaymentsShown, PaymentId
<1>6. RequestsShown
        = [r \in Requests |-> [status |-> "SUBMITTED", log |-> <<>>]]
  BY <1>3 DEF RequestsShown, RequestView, NewRequest
<1>7. WalletsShown = wallets
  BY <1>4 DEF WalletsShown
<1>8. WalletsShown \in [Users -> {Promise!NoWallet} \cup
                          {Promise!WalletWith(b) : b \in OpeningBalances}]
  BY <1>7, SameOperators DEF NoWallet, WalletWith, Promise!NoWallet,
     Promise!WalletWith
<1> QED
  BY <1>5, <1>6, <1>8 DEF Promise!Init

----------------------------------------------------------------------------
(* Theorems.                                                                *)

(* The invariant the refinement rests on.                                   *)
THEOREM RowsInductive == Spec => []PInv
<1>1. Init => PInv
  BY InitPInv
<1>2. IInv /\ BInv /\ PInv /\ [Next]_vars => PInv'
  BY NextPInv
<1> QED
  BY <1>1, <1>2, Inductive, BooksInductive, PTL DEF Spec

(* Billing implements Checkout for every number of workers, users, requests *)
(* and payments, where no client uses the update endpoint: what the others  *)
(* see of apply_success, of pay_with_wallet and of a move of a request      *)
(* happens in one step or not at all, whatever interleaves, waits, fails or *)
(* is rolled back.                                                          *)
THEOREM PromiseKept ==
  ASSUME "update" \notin Events
  PROVE  Spec => KeepsPromise
<1>1. Init => Promise!Init
  BY InitShows
<1>2. IInv /\ BInv /\ PInv /\ [Next]_vars
        => [Promise!Next]_(Promise!promised)
  BY NextShows DEF Shown
<1> QED
  BY <1>1, <1>2, Inductive, BooksInductive, RowsInductive, PTL
     DEF Spec, KeepsPromise, Promise!Spec

----------------------------------------------------------------------------
(* What a step of Checkout, and so of Billing, does to a status.            *)

(* What is shown of the rows, column by column, before and after a step.    *)
LEMMA ShownColumns ==
  /\ \A p \in PaymentId : /\ PaymentsShown[p].status = db[PaymentRow(p)].status
                          /\ PaymentsShown[p].intent = db[PaymentRow(p)].intent
  /\ \A r \in Requests : RequestsShown[r].status = db[RequestRow(r)].status
BY DEF PaymentsShown, PaymentView, RequestsShown, RequestView

(* A payment that is shown belongs to a request.                            *)
LEMMA ShownPayment ==
  ASSUME BInv, PInv, NEW p \in PaymentId, PaymentsShown[p] # Promise!Absent
  PROVE  PaymentsShown[p].intent \in Intents
<1>1. PICK x : x = PaymentRow(p) /\ x \in Rows /\ x[1] = "payment"
  BY PaymentIsRow
<1>2. Exists(db[x])
  <2>1. PaymentsShown[p] = PaymentView(db[x])
    BY <1>1 DEF PaymentsShown
  <2>2. PaymentView(AbsentPayment) = Promise!Absent
    BY DEF PaymentView, AbsentPayment, Promise!Absent
  <2> QED
    BY <1>1, <2>1, <2>2 DEF PInv, Follows, Blank
<1> QED
  BY <1>1, <1>2, ShownColumns DEF BInv, RowsGood, RowGood

(* A payment whose status is written keeps its intent.                      *)
LEMMA StatusShown ==
  ASSUME NEW p \in PaymentId, NEW status,
         PaymentsShown' = [PaymentsShown EXCEPT ![p].status = status]
  PROVE  /\ PaymentsShown'[p].status = status
         /\ PaymentsShown'[p].intent = PaymentsShown[p].intent
         /\ \A q \in PaymentId \ {p} : PaymentsShown'[q] = PaymentsShown[q]
<1>1. PICK old, new : /\ old = PaymentsShown[p]
                      /\ new = [old EXCEPT !.status = status]
  OBVIOUS
<1>2. /\ PaymentsShown'[p] = new
      /\ \A q \in PaymentId \ {p} : PaymentsShown'[q] = PaymentsShown[q]
  BY <1>1 DEF PaymentsShown
<1>3. PICK s, i, g, a : old = [status |-> s, intent |-> i, provider |-> g,
                               amount |-> a]
  BY <1>1 DEF PaymentsShown, PaymentView
<1>4. new.status = status /\ new.intent = old.intent
  BY <1>1, <1>3
<1> QED
  BY <1>1, <1>2, <1>4

(* A request that moves has the status it moves to.                         *)
LEMMA MoveShown ==
  ASSUME NEW r \in Requests, NEW target,
         RequestsShown' = [RequestsShown EXCEPT
                             ![r] = Moved(RequestsShown[r], target)]
  PROVE  /\ RequestsShown'[r].status = target
         /\ \A q \in Requests \ {r} : RequestsShown'[q] = RequestsShown[q]
<1>1. PICK old, new : old = RequestsShown[r] /\ new = Moved(old, target)
  OBVIOUS
<1>2. /\ RequestsShown'[r] = new
      /\ \A q \in Requests \ {r} : RequestsShown'[q] = RequestsShown[q]
  BY <1>1 DEF RequestsShown
<1>3. PICK s, l : old = [status |-> s, log |-> l]
  BY <1>1 DEF RequestsShown, RequestView
<1>4. new.status = target
  BY <1>1, <1>3 DEF Moved
<1> QED
  BY <1>2, <1>4

(* A success and the paid queue come together, for one payment p of r.      *)
PaidTogether(p, r) ==
  /\ PaymentsShown'[p].status = "success"
  /\ r \in Requests /\ Resolve[PaymentsShown'[p].intent] = r
  /\ RequestsShown'[r].status = "QUEUED_PAID"
  /\ \A q \in PaymentId \ {p} : PaymentsShown'[q] = PaymentsShown[q]
  /\ \A q \in Requests \ {r} : RequestsShown'[q] = RequestsShown[q]

(* Or neither comes.                                                        *)
NothingPaid ==
  /\ \A p \in PaymentId :
       \/ PaymentsShown'[p] = PaymentsShown[p]
       \/ PaymentsShown'[p].status # "success"
  /\ \A r \in Requests :
       \/ RequestsShown'[r] = RequestsShown[r]
       \/ RequestsShown'[r].status # "QUEUED_PAID"

(* Every step of Checkout is one of the two: only Settle and Charge make a  *)
(* success, and only they enter the paid queue.                             *)
LEMMA PaidOrNot ==
  ASSUME BInv, PInv, Shown
  PROVE  NothingPaid \/ \E p \in PaymentId, r \in Requests : PaidTogether(p, r)
<1>1. CASE UNCHANGED Promise!promised
  BY <1>1 DEF Promise!promised, NothingPaid
<1>2. ASSUME NEW p \in PaymentId, Promise!Open(p) PROVE NothingPaid
  <2>1. PICK i, g, a, s :
          /\ s \in {"initiated", "pending"}
          /\ PaymentsShown' = [PaymentsShown EXCEPT
               ![p] = [status |-> s, intent |-> i, provider |-> g, amount |-> a]]
          /\ RequestsShown' = RequestsShown
    BY <1>2 DEF Promise!Open
  <2>2. PICK view :
          view = [status |-> s, intent |-> i, provider |-> g, amount |-> a]
    OBVIOUS
  <2>3. PaymentsShown' = [PaymentsShown EXCEPT ![p] = view]
    BY <2>1, <2>2
  <2>4. /\ PaymentsShown'[p] = view
        /\ \A q \in PaymentId \ {p} : PaymentsShown'[q] = PaymentsShown[q]
    BY <2>3 DEF PaymentsShown
  <2> QED
    BY <2>1, <2>2, <2>4 DEF NothingPaid
<1>3. ASSUME NEW p \in PaymentId, Promise!Fail(p) PROVE NothingPaid
  <2>1. /\ PaymentsShown' = [PaymentsShown EXCEPT ![p].status = "failed"]
        /\ RequestsShown' = RequestsShown
    BY <1>3 DEF Promise!Fail
  <2> QED
    BY <2>1, StatusShown DEF NothingPaid
<1>4. ASSUME NEW p \in PaymentId, Promise!Settle(p)
      PROVE  \E r \in Requests : PaidTogether(p, r)
  <2>1. PICK r : r = Resolve[PaymentsShown[p].intent]
    OBVIOUS
  <2>2. /\ PaymentsShown[p] # Promise!Absent
        /\ PaymentsShown' = [PaymentsShown EXCEPT ![p].status = "success"]
        /\ Promise!EnterPaidQueue(r)
    BY <1>4, <2>1 DEF Promise!Settle
  <2>3. r \in Requests
    BY <2>1, <2>2, ShownPayment, ConstantsOk
  <2>4. /\ RequestsShown'[r].status = "QUEUED_PAID"
        /\ \A q \in Requests \ {r} : RequestsShown'[q] = RequestsShown[q]
    <3>1. \/ RequestsShown[r].status = "QUEUED_PAID" /\ UNCHANGED RequestsShown
          \/ RequestsShown' = [RequestsShown EXCEPT
                                 ![r] = Moved(RequestsShown[r], "QUEUED_PAID")]
      BY <2>2, SameOperators DEF Promise!EnterPaidQueue
    <3> QED
      BY <2>3, <3>1, MoveShown
  <2> QED
    BY <2>1, <2>2, <2>3, <2>4, StatusShown DEF PaidTogether
<1>5. ASSUME NEW p \in PaymentId, Promise!Charge(p)
      PROVE  \E r \in Requests : PaidTogether(p, r)
  <2>1. PICK i, r, view :
          /\ i \in Intents /\ r = Resolve[i] /\ view.status = "success" /\ view.intent = i
          /\ PaymentsShown' = [PaymentsShown EXCEPT ![p] = view]
          /\ RequestsShown' = [RequestsShown EXCEPT
                                 ![r] = Moved(RequestsShown[r], "QUEUED_PAID")]
    BY <1>5, SameOperators DEF Promise!Charge
  <2>2. /\ PaymentsShown'[p] = view
        /\ \A q \in PaymentId \ {p} : PaymentsShown'[q] = PaymentsShown[q]
    BY <2>1 DEF PaymentsShown
  <2>3. r \in Requests
    BY <2>1, ConstantsOk
  <2> QED
    BY <2>1, <2>2, <2>3, MoveShown DEF PaidTogether
<1>6. ASSUME NEW r \in Requests, NEW target, Promise!Advance(r, target)
      PROVE  NothingPaid
  <2>1. /\ target # "QUEUED_PAID" /\ PaymentsShown' = PaymentsShown
        /\ RequestsShown' = [RequestsShown EXCEPT
                               ![r] = Moved(RequestsShown[r], target)]
    BY <1>6, SameOperators DEF Promise!Advance
  <2> QED
    BY <2>1, MoveShown DEF NothingPaid
<1> QED
  BY <1>1, <1>2, <1>3, <1>4, <1>5, <1>6 DEF Shown, Promise!Next, PaymentId

(* A payment turns successful only together with its request being in the   *)
(* paid queue, whatever happened to the request since it was opened.        *)
THEOREM SuccessCorrect ==
  ASSUME "update" \notin Events
  PROVE  Spec => SuccessQueuesRequest
<1>1. ASSUME IInv, BInv, PInv, [Next]_vars, NEW p \in PaymentId,
             db[PaymentRow(p)].status # "success",
             db'[PaymentRow(p)].status = "success"
      PROVE  db'[PaymentRequest(p)'].status = "QUEUED_PAID"
  <2>1. /\ PaymentsShown[p].status # "success"
        /\ PaymentsShown'[p].status = "success"
    BY <1>1, ShownColumns DEF PaymentsShown, PaymentView
  <2>2. PICK q \in PaymentId, r \in Requests : PaidTogether(q, r)
    BY <1>1, <2>1, NextShows, PaidOrNot DEF NothingPaid
  <2>3. q = p /\ RequestsShown'[r].status = "QUEUED_PAID"
    BY <2>1, <2>2 DEF PaidTogether
  <2>4. /\ PaymentsShown'[p].intent = db'[PaymentRow(p)].intent
        /\ RequestsShown'[r].status = db'[RequestRow(r)].status
    BY DEF PaymentsShown, PaymentView, RequestsShown, RequestView
  <2> QED
    BY <2>2, <2>3, <2>4 DEF PaidTogether, PaymentRequest
<1>2. IInv /\ BInv /\ PInv /\ [Next]_vars =>
        [\A p \in PaymentId :
           (/\ db[PaymentRow(p)].status # "success"
            /\ db'[PaymentRow(p)].status = "success")
           => db'[PaymentRequest(p)'].status = "QUEUED_PAID"]_vars
  BY <1>1
<1> QED
  BY <1>2, Inductive, BooksInductive, RowsInductive, PTL
     DEF Spec, SuccessQueuesRequest

(* A request enters the paid queue only with a successful payment that      *)
(* names it.                                                                *)
THEOREM PaidQueueCorrect ==
  ASSUME "update" \notin Events
  PROVE  Spec => PaidQueueNeedsSuccess
<1>1. ASSUME IInv, BInv, PInv, [Next]_vars, NEW r \in Requests,
             db[RequestRow(r)].status # "QUEUED_PAID",
             db'[RequestRow(r)].status = "QUEUED_PAID"
      PROVE  \E p \in PaymentId : /\ db'[PaymentRow(p)].status = "success"
                                  /\ Resolve[db'[PaymentRow(p)].intent] = r
  <2>1. /\ RequestsShown[r].status # "QUEUED_PAID"
        /\ RequestsShown'[r].status = "QUEUED_PAID"
    BY <1>1 DEF RequestsShown, RequestView
  <2>2. PICK p \in PaymentId, q \in Requests : PaidTogether(p, q)
    BY <1>1, <2>1, NextShows, PaidOrNot DEF NothingPaid
  <2>3. q = r
    BY <2>1, <2>2 DEF PaidTogether
  <2>4. /\ PaymentsShown'[p].intent = db'[PaymentRow(p)].intent
        /\ PaymentsShown'[p].status = db'[PaymentRow(p)].status
    BY DEF PaymentsShown, PaymentView
  <2> QED
    BY <2>2, <2>3, <2>4 DEF PaidTogether
<1>2. IInv /\ BInv /\ PInv /\ [Next]_vars =>
        [\A r \in Requests :
           (/\ db[RequestRow(r)].status # "QUEUED_PAID"
            /\ db'[RequestRow(r)].status = "QUEUED_PAID")
           => \E p \in PaymentId :
                /\ db'[PaymentRow(p)].status = "success"
                /\ Resolve[db'[PaymentRow(p)].intent] = r]_vars
  BY <1>1
<1> QED
  BY <1>2, Inductive, BooksInductive, RowsInductive, PTL
     DEF Spec, PaidQueueNeedsSuccess
====
