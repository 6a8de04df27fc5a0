---- MODULE Refunds ----
(***************************************************************************)
(* Refunds (billing/services.py, models.py, api/views.py).  Staff ask for a *)
(* full or a partial refund of a payment; its provider is called inside the *)
(* transaction that records the refund, and the money it moves stays moved  *)
(* when that transaction does not commit.                                   *)
(*                                                                          *)
(* Nothing here takes a lock: the payment is tested as the view read it,    *)
(* and a handler's own rows are in its job until it commits.                *)
(***************************************************************************)
EXTENDS Naturals, FiniteSets

CONSTANTS Workers, Payments,
          Registered,   \* those whose provider is in the registry (the wallet is not)
          Price,        \* the amount of every payment
          Asked,        \* the amounts staff ask for
          MaxRefunds,   \* bound: how many refunds are ever inserted
          Events        \* which handlers and failures the environment provides

VARIABLES consumed,   \* the payments with a consumed_at
          refunds,    \* the committed refunds
          created,    \* how many were inserted, rolled back ones included
          log,        \* how many events of each kind a payment has committed
          moved,      \* refunds the provider carried out
          lost,       \* refunds whose handler broke off after that
          pc, job     \* the next statement and the local variables of a handler

vars == <<consumed, refunds, created, log, moved, lost, pc, job>>

RefundId == 1 .. MaxRefunds

AllEvents == {"refund", "consume", "raise", "crash"}

ASSUME RefundConstantsOk ==
  /\ Registered \subseteq Payments
  /\ Price \in Nat /\ Asked \subseteq Nat /\ MaxRefunds \in Nat
  /\ Events \subseteq AllEvents

Statuses == {"requested", "processing", "succeeded", "failed"}

(* The events REFUND_REQUESTED, REFUND_SUCCEEDED and REFUND_FAILED.         *)
Kinds == {"requested", "succeeded", "failed"}
Modes == {"full", "partial"}

(* known holds the refunds that were there when the view read the payment;  *)
(* it is written for the properties only.                                   *)
RefundRecord == [payment : Payments, mode : Modes, amount : Nat,
                 status : Statuses, known : SUBSET RefundId]

None == [status |-> "none"]

Committed == {r \in RefundId : refunds[r] # None}

Steps == {"idle", "decide", "call", "settle", "commit"}

NoJob == [id |-> 0, consumed |-> FALSE, answer |-> "none", logged |-> {},
          row |-> None]

Jobs == [id : RefundId \cup {0},
         consumed : BOOLEAN,                    \* is_consumed of the object
         answer : {"none", "succeeded", "failed", "unsupported"},
         logged : SUBSET Kinds,                 \* the events of the transaction
         row : RefundRecord \cup {None}]

Init == /\ consumed = {} /\ created = 0 /\ moved = {} /\ lost = {}
        /\ refunds = [r \in RefundId |-> None]
        /\ log = [p \in Payments |-> [kind \in Kinds |-> 0]]
        /\ pc = [w \in Workers |-> "idle"]
        /\ job = [w \in Workers |-> NoJob]

Goto(w, step) == pc' = [pc EXCEPT ![w] = step]

End(w) == /\ Goto(w, "idle")
          /\ job' = [job EXCEPT ![w] = NoJob]

----------------------------------------------------------------------------
(* PaymentRefundView: Payment.objects.get and the serializer.               *)

Asking(p, mode, amount) ==
  [id |-> 0, consumed |-> p \in consumed, answer |-> "none", logged |-> {},
   row |-> [payment |-> p, mode |-> mode,
            amount |-> IF mode = "full" THEN Price ELSE amount,
            status |-> "requested", known |-> Committed]]

Read(w) ==
  /\ "refund" \in Events /\ pc[w] = "idle"
  /\ \E p \in Payments, mode \in Modes, amount \in Asked \ {0} :
       job' = [job EXCEPT ![w] = Asking(p, mode, amount)]
  /\ Goto(w, "decide")
  /\ UNCHANGED <<consumed, refunds, created, log, moved, lost>>

(* Mutant: a full refund is given whether or not the payment is consumed.   *)
AllowedAnyTime(w) ==
  LET row == job[w].row IN
    /\ row.payment \in Registered
    /\ row.mode = "partial" => job[w].consumed /\ row.amount < Price

(* A full refund before the payment is consumed, a partial one after; and a *)
(* provider that is registered (InvalidProvider).                           *)
Allowed(w) ==
  LET row == job[w].row IN
    /\ row.payment \in Registered
    /\ row.mode = "full" => ~ job[w].consumed
    /\ row.mode = "partial" => job[w].consumed /\ row.amount < Price

Refuse(w) ==
  /\ pc[w] = "decide"
  /\ ~ Allowed(w)
  /\ End(w)
  /\ UNCHANGED <<consumed, refunds, created, log, moved, lost>>

Logged(w, kind) == [log EXCEPT ![job[w].row.payment][kind] = @ + 1]

(* Mutant: the event commits on its own, outside the transaction.           *)
RequestLoggedAtOnce(w) ==
  /\ pc[w] = "decide"
  /\ Allowed(w) /\ created < MaxRefunds
  /\ created' = created + 1
  /\ job' = [job EXCEPT ![w].id = created + 1]
  /\ log' = Logged(w, "requested")
  /\ Goto(w, "call")
  /\ UNCHANGED <<consumed, refunds, moved, lost>>

(* Refund.objects.create and REFUND_REQUESTED, in the transaction.          *)
Request(w) ==
  /\ pc[w] = "decide"
  /\ Allowed(w) /\ created < MaxRefunds
  /\ created' = created + 1
  /\ job' = [job EXCEPT ![w].id = created + 1, ![w].logged = {"requested"}]
  /\ Goto(w, "call")
  /\ UNCHANGED <<consumed, refunds, log, moved, lost>>

(* The provider's refund: its answer says what it did; unsupported is what  *)
(* the registered ones say so far.                                          *)
Call(w) ==
  /\ pc[w] = "call"
  /\ \E answer \in {"succeeded", "failed", "unsupported"} :
       /\ job' = [job EXCEPT ![w].answer = answer]
       /\ moved' = IF answer = "succeeded" THEN moved \cup {job[w].id} ELSE moved
  /\ Goto(w, "settle")
  /\ UNCHANGED <<consumed, refunds, created, log, lost>>

(* The call raises, a timeout for one: whether the money moved is unknown.  *)
CallRaises(w) ==
  /\ "raise" \in Events /\ pc[w] = "call"
  /\ \E carried \in SUBSET {job[w].id} : /\ moved' = moved \cup carried
                                         /\ lost' = lost \cup carried
  /\ End(w)
  /\ UNCHANGED <<consumed, refunds, created, log>>

(* Mutant: the provider's word is stored as it is.                          *)
OutcomeAsAnswered(answer) == answer

Outcome(answer) == CASE answer = "succeeded" -> "succeeded"
                     [] answer = "failed" -> "failed"
                     [] OTHER -> "processing"

OutcomeEvents(answer) == {answer} \cap Kinds

(* Mutant: whatever did not fail is recorded as done.                       *)
SettleUnlessFailed(w) ==
  /\ pc[w] = "settle"
  /\ LET answer == job[w].answer
         status == IF answer = "failed" THEN answer ELSE "succeeded"
     IN job' = [job EXCEPT ![w].row.status = status,
                           ![w].logged = @ \cup {status}]
  /\ Goto(w, "commit")
  /\ UNCHANGED <<consumed, refunds, created, log, moved, lost>>

(* Mutant: the new status is not saved.                                     *)
SettleUnsaved(w) ==
  /\ pc[w] = "settle"
  /\ job' = [job EXCEPT ![w].logged = @ \cup OutcomeEvents(job[w].answer)]
  /\ Goto(w, "commit")
  /\ UNCHANGED <<consumed, refunds, created, log, moved, lost>>

(* mark_processed and its event, or PROCESSING, which no code ever leaves.  *)
Settle(w) ==
  /\ pc[w] = "settle"
  /\ job' = [job EXCEPT ![w].row.status = Outcome(job[w].answer),
                        ![w].logged = @ \cup OutcomeEvents(job[w].answer)]
  /\ Goto(w, "commit")
  /\ UNCHANGED <<consumed, refunds, created, log, moved, lost>>

Break(w) ==
  /\ lost' = lost \cup ({job[w].id} \cap moved)
  /\ End(w)
  /\ UNCHANGED <<consumed, refunds, created, log, moved>>

(* full_clean refuses the provider's reference (128 characters): the whole  *)
(* transaction is rolled back.                                              *)
SettleRaises(w) ==
  /\ "raise" \in Events /\ pc[w] = "settle"
  /\ job[w].answer = "succeeded"
  /\ Break(w)

Finish(w) ==
  /\ pc[w] = "commit"
  /\ refunds' = [refunds EXCEPT ![job[w].id] = job[w].row]
  /\ log' = [log EXCEPT ![job[w].row.payment] =
               [kind \in Kinds |-> IF kind \in job[w].logged THEN @[kind] + 1
                                   ELSE @[kind]]]
  /\ End(w)
  /\ UNCHANGED <<consumed, created, moved, lost>>

(* The process dies, and what it did not commit is rolled back.             *)
Crash(w) ==
  /\ "crash" \in Events /\ pc[w] # "idle"
  /\ Break(w)

(* mark_consumed, when work on the request starts or by hand; nothing ever  *)
(* clears consumed_at.                                                      *)
Consume ==
  /\ "consume" \in Events
  /\ \E p \in Payments \ consumed : consumed' = consumed \cup {p}
  /\ UNCHANGED <<refunds, created, log, moved, lost, pc, job>>

Statement(w) ==
  \/ Refuse(w) \/ Request(w) \/ Call(w) \/ CallRaises(w)
  \/ Settle(w) \/ SettleRaises(w) \/ Finish(w)

Next == \/ \E w \in Workers : Read(w) \/ Statement(w) \/ Crash(w)
        \/ Consume

Spec == Init /\ [][Next]_vars

----------------------------------------------------------------------------
(* Properties.                                                              *)

(* The variables.                                                           *)
TypeOK ==
  /\ consumed \subseteq Payments
  /\ refunds \in [RefundId -> RefundRecord \cup {None}]
  /\ created \in 0 .. MaxRefunds
  /\ log \in [Payments -> [Kinds -> Nat]]
  /\ moved \subseteq RefundId /\ lost \subseteq moved
  /\ pc \in [Workers -> Steps]
  /\ job \in [Workers -> Jobs]

(* Only money the provider moved is recorded as refunded, whatever dies or  *)
(* raises in between (refund_full, refund_partial).                         *)
RecordedIsMoved ==
  \A r \in Committed : refunds[r].status = "succeeded" => r \in moved

(* Money the provider moved is recorded, unless the handler broke off after *)
(* the call: the provider is called before the commit, and nobody looks for *)
(* what it did.                                                             *)
MovedIsRecorded ==
  \A r \in moved \ lost :
    \/ r \in Committed /\ refunds[r].status = "succeeded"
    \/ \E w \in Workers : pc[w] \in {"settle", "commit"} /\ job[w].id = r

(* Once a payment is refunded in part it is not refunded in full by a       *)
(* request that comes later, though neither asks what was refunded before:  *)
(* that rests on consumed_at alone, which is not cleared.                   *)
FullNeverAfterPartial ==
  \A r \in Committed : refunds[r].mode = "full" =>
    \A k \in refunds[r].known :
      refunds[k].payment = refunds[r].payment => refunds[k].mode = "full"

Count(p, statuses) ==
  Cardinality({r \in Committed : /\ refunds[r].payment = p
                                 /\ refunds[r].status \in statuses})

(* The provider transactions of a payment tell its refunds: one request for *)
(* each, and one outcome for each that has one.                             *)
LogTellsRefunds ==
  \A p \in Payments :
    /\ log[p]["requested"] = Count(p, Statuses)
    /\ log[p]["succeeded"] = Count(p, {"succeeded"})
    /\ log[p]["failed"] = Count(p, {"failed"})
====
