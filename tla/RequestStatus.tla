---- MODULE RequestStatus ----
(***************************************************************************)
(* The status graph of a story request (story_requests/services.py) and    *)
(* the statuses of a payment (billing/models.py).  Constant operators only: *)
(* Billing and the abstract Checkout share them.                            *)
(***************************************************************************)
EXTENDS Sequences

Statuses == {"SUBMITTED", "PAYMENT_REQUIRED", "QUEUED_FREE", "QUEUED_PAID",
             "IN_PROGRESS", "REVIEW_PENDING", "READY_FOR_USER", "CANCELED"}

Plans == {"free", "paid"}

TransitionRules == {<<"SUBMITTED", "PAYMENT_REQUIRED">>,
                    <<"SUBMITTED", "QUEUED_FREE">>,
                    <<"PAYMENT_REQUIRED", "QUEUED_PAID">>,
                    <<"QUEUED_FREE", "IN_PROGRESS">>,
                    <<"QUEUED_PAID", "IN_PROGRESS">>,
                    <<"IN_PROGRESS", "REVIEW_PENDING">>,
                    <<"REVIEW_PENDING", "READY_FOR_USER">>}

(* _ensure_transition_allowed: every request that is not canceled may be    *)
(* canceled, a finished one included; every other move is in the table.     *)
TransitionAllowed(current, target) ==
  /\ current # "CANCELED"
  /\ target = "CANCELED" \/ <<current, target>> \in TransitionRules

(* The statuses create_payment and pay_with_wallet accept.                  *)
PayableStatuses == {"PAYMENT_REQUIRED", "SUBMITTED"}

(* enqueue_request: where a new request goes, by its plan.                  *)
FirstQueue(plan) ==
  IF plan = "paid" THEN "PAYMENT_REQUIRED" ELSE "QUEUED_FREE"

(* What transition() writes: the new status and one RequestTransition row.  *)
Moved(request, target) ==
  [request EXCEPT !.status = target,
                  !.log = Append(@, <<request.status, target>>)]

(* transition() returns early when the request is there already.            *)
TransitionAccepted(current, target) ==
  current = target \/ TransitionAllowed(current, target)

Transitioned(request, target) ==
  IF request.status = target THEN request ELSE Moved(request, target)

PaymentStatuses == {"initiated", "pending", "success", "failed"}
====
