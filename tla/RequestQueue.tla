---- MODULE RequestQueue ----
(***************************************************************************)
(* The queues of story requests: creation with its limits, enqueueing,      *)
(* transitions with the priority and the position they store, the position  *)
(* a client reads back, and deletion (story_requests/serializers.py,        *)
(* views.py, services.py).                                                  *)
(*                                                                          *)
(* Creation is not one transaction: the limits are counted, the request is  *)
(* inserted and the insert committed, and then transition() moves it.       *)
(***************************************************************************)
EXTENDS Integers, FiniteSets, RequestStatus

CONSTANTS Workers, Users, None,
          MAX_OPEN_REQUESTS,
          MAX_FREE_REQUESTS_PER_DAY,
          Day,            \* how many ticks of the clock are 24 hours
          MaxRequests,    \* bound: how many requests are ever inserted
          MaxTime,        \* bound: the clock stops
          Events          \* which handlers and failures the environment provides

VARIABLES db, work, owner,
          now,
          pc,      \* [Workers -> Steps]: the next statement of the handler
          job      \* [Workers -> Jobs]: the handler's local variables

vars == <<db, work, owner, now, pc, job>>

(* Requests are numbered in the order of created_at, which is unique; now   *)
(* tells days apart and nothing finer.                                      *)
Rows == 1 .. MaxRequests

INSTANCE Transactions

AllEvents == {"free", "paid", "pay", "staff", "retrieve", "delete", "tick",
              "crash"}

ASSUME QueueConstantsOk ==
  /\ MAX_OPEN_REQUESTS \in Nat /\ MAX_FREE_REQUESTS_PER_DAY \in Nat
  /\ Day \in Nat \ {0} /\ MaxRequests \in Nat /\ MaxTime \in Nat
  /\ Events \subseteq AllEvents
  /\ None \notin Workers \cup Users

OPEN_STATUSES == {"SUBMITTED", "PAYMENT_REQUIRED", "QUEUED_FREE",
                  "QUEUED_PAID", "IN_PROGRESS", "REVIEW_PENDING"}
QUEUED_STATUSES == {"QUEUED_FREE", "QUEUED_PAID"}
PRIORITY_PAID == 10
PRIORITY_FREE == 100

(* A request that is not there yet is unused, a deleted one keeps the rest  *)
(* of its last row for the properties to look at.                           *)
RequestRecord == [status : Statuses \cup {"unused", "deleted"},
                  user : Users \cup {None},
                  plan : Plans,
                  created : 0 .. MaxTime,
                  priority : {PRIORITY_PAID, PRIORITY_FREE},
                  hint : Nat]

NoRequest == [status |-> "unused", user |-> None, plan |-> "free",
              created |-> 0, priority |-> PRIORITY_FREE, hint |-> 0]

There(request) == request.status \notin {"unused", "deleted"}

Steps == {"idle", "free_limit", "insert", "enqueue", "commit", "count", "hint"}

Jobs == [user : Users \cup {None},
         plan : Plans,
         request : Rows \cup {0},
         image : RequestRecord,    \* the request as retrieve read it
         position : Nat]

NoJob == [user |-> None, plan |-> "free", request |-> 0, image |-> NoRequest,
          position |-> 0]

Init == /\ db = [x \in Rows |-> NoRequest]
        /\ work = db
        /\ owner = [x \in Rows |-> None]
        /\ now = 0
        /\ pc = [w \in Workers |-> "idle"]
        /\ job = [w \in Workers |-> NoJob]

Goto(w, step) == /\ pc' = [pc EXCEPT ![w] = step]
                 /\ UNCHANGED job

End(w) == /\ pc' = [pc EXCEPT ![w] = "idle"]
          /\ job' = [job EXCEPT ![w] = NoJob]

Put(x, value) == [y \in {x} |-> value]

----------------------------------------------------------------------------
(* Queues.                                                                  *)

QueueOf(plan) == IF plan = "paid" THEN "QUEUED_PAID" ELSE "QUEUED_FREE"

(* Mutant: the newest request of the queue comes first.                     *)
CalcPositionNewestFirst(table, x, request) ==
  IF request.status \notin QUEUED_STATUSES THEN 0
  ELSE Cardinality({y \in Rows : /\ table[y].status = QueueOf(request.plan)
                                 /\ table[y].plan = request.plan
                                 /\ y > x})

(* calc_position: how many requests of the plan are in its queue and were   *)
(* created before this one; 0 for a request that is in no queue.            *)
CalcPosition(table, x, request) ==
  IF request.status \notin QUEUED_STATUSES THEN 0
  ELSE Cardinality({y \in Rows : /\ table[y].status = QueueOf(request.plan)
                                 /\ table[y].plan = request.plan
                                 /\ y < x})

Visible(w) == [x \in Rows |-> Seen(w, x)]

(* Mutant: the priority stays as the request was created.                   *)
MovedSamePriority(w, x, target) ==
  LET moved == [Seen(w, x) EXCEPT !.status = target]
  IN [moved EXCEPT !.hint = CalcPosition(Visible(w), x, moved)]

(* Mutant: the position is stored one place too early.                      *)
MovedOnePlaceEarly(w, x, target) ==
  LET moved == [Seen(w, x) EXCEPT !.status = target]
  IN [moved EXCEPT !.hint = CalcPosition(Visible(w), x, moved) - 1]

(* The row transition() saves: the status, the priority of the queue that   *)
(* is entered, and the position, which is 0 outside the queues.             *)
MovedTo(w, x, target) ==
  LET moved == [Seen(w, x) EXCEPT
                  !.status = target,
                  !.priority = CASE target = "QUEUED_PAID" -> PRIORITY_PAID
                                 [] target = "QUEUED_FREE" -> PRIORITY_FREE
                                 [] OTHER -> @]
  IN [moved EXCEPT !.hint = CalcPosition(Visible(w), x, moved)]

(* select_for_update().get(pk) finds the request and the table lets it move. *)
CanMove(w, x, target) ==
  There(Seen(w, x)) /\ TransitionAllowed(Seen(w, x).status, target)

(* transition() up to its save.  It locks the row first; the transaction    *)
(* ends in TransitionCommit.                                                *)
TransitionSave(w, x, target) ==
  /\ CanMove(w, x, target)
  /\ Write(w, Put(x, MovedTo(w, x, target)))

----------------------------------------------------------------------------
(* StoryRequestCreateSerializer.                                            *)

(* Open requests of the user, at the limit's check.                         *)
OpenOf(table, u) == {x \in Rows : /\ table[x].user = u
                                  /\ table[x].status \in OPEN_STATUSES}

RecentFreeOf(table, u) ==
  {x \in Rows : /\ table[x].user = u /\ There(table[x])
                /\ table[x].plan = "free"
                /\ table[x].created >= now - Day}

Inserting == {w \in Workers : pc[w] \in {"free_limit", "insert"}}
NextRequest == {x \in Rows : /\ db[x].status = "unused"
                             /\ \A y \in 1 .. x - 1 : db[y].status # "unused"}

(* Mutant: one more than the limit.                                         *)
CreateBeginLax(w) ==
  /\ pc[w] = "idle"
  /\ \E x \in NextRequest : x + Cardinality(Inserting) <= MaxRequests
  /\ \E u \in Users, plan \in Plans \cap Events :
       /\ Cardinality(OpenOf(db, u)) <= MAX_OPEN_REQUESTS
       /\ pc' = [pc EXCEPT ![w] = IF plan = "free" THEN "free_limit"
                                  ELSE "insert"]
       /\ job' = [job EXCEPT ![w] = [NoJob EXCEPT !.user = u, !.plan = plan]]
  /\ UNCHANGED <<db, work, owner, now>>

(* validate: the open requests are counted, and for the free plan those of  *)
(* the last day; a count at its limit is refused.                           *)
CreateBegin(w) ==
  /\ pc[w] = "idle"
  /\ \E x \in NextRequest : x + Cardinality(Inserting) <= MaxRequests
  /\ \E u \in Users, plan \in Plans \cap Events :
       /\ Cardinality(OpenOf(db, u)) < MAX_OPEN_REQUESTS
       /\ pc' = [pc EXCEPT ![w] = IF plan = "free" THEN "free_limit"
                                  ELSE "insert"]
       /\ job' = [job EXCEPT ![w] = [NoJob EXCEPT !.user = u, !.plan = plan]]
  /\ UNCHANGED <<db, work, owner, now>>

(* Mutant: only open requests count against the day.                        *)
WithinDayOpenOnly(w) ==
  Cardinality(RecentFreeOf(db, job[w].user) \cap OpenOf(db, job[w].user))
    < MAX_FREE_REQUESTS_PER_DAY

WithinDay(w) ==
  Cardinality(RecentFreeOf(db, job[w].user)) < MAX_FREE_REQUESTS_PER_DAY

CreateCheckFree(w) ==
  /\ pc[w] = "free_limit"
  /\ IF WithinDay(w) THEN Goto(w, "insert") ELSE End(w)
  /\ UNCHANGED <<db, work, owner, now>>

(* The row of a new request: the model's defaults and the client's choice.  *)
Registered(w) == [status |-> "SUBMITTED", user |-> job[w].user,
                  plan |-> job[w].plan, created |-> now,
                  priority |-> PRIORITY_FREE, hint |-> 0]

(* objects.create commits at once: there is no transaction around create.   *)
CreateInsert(w) ==
  /\ pc[w] = "insert"
  /\ \E x \in NextRequest : /\ Commit(w, Put(x, Registered(w)))
                            /\ job' = [job EXCEPT ![w].request = x]
  /\ pc' = [pc EXCEPT ![w] = "enqueue"]
  /\ UNCHANGED now

(* Mutant: the handler returns without enqueue_request.                     *)
EnqueueForgotten(w) ==
  /\ pc[w] = "enqueue"
  /\ End(w)
  /\ UNCHANGED <<db, work, owner, now>>

(* enqueue_request, by the plan.                                            *)
Enqueue(w) ==
  /\ pc[w] = "enqueue"
  /\ TransitionSave(w, job[w].request, FirstQueue(job[w].plan))
  /\ Goto(w, "commit")
  /\ UNCHANGED now

(* The request was canceled or deleted meanwhile: transition() raises.      *)
EnqueueRefused(w) ==
  /\ pc[w] = "enqueue"
  /\ Available(w, job[w].request)
  /\ ~ CanMove(w, job[w].request, FirstQueue(job[w].plan))
  /\ End(w)
  /\ UNCHANGED <<db, work, owner, now>>

----------------------------------------------------------------------------
(* The other transitions: a success of the payment, the admin actions and   *)
(* the editor workspace, which offers two of the same targets.              *)

StaffTargets == {"IN_PROGRESS", "REVIEW_PENDING", "READY_FOR_USER", "CANCELED"}

Move(w) ==
  /\ pc[w] = "idle"
  /\ \E x \in Rows :
       \/ "pay" \in Events /\ TransitionSave(w, x, "QUEUED_PAID")
       \/ "staff" \in Events /\ \E target \in StaffTargets : TransitionSave(w, x, target)
  /\ Goto(w, "commit")
  /\ UNCHANGED now

TransitionCommit(w) ==
  /\ pc[w] = "commit"
  /\ Commit(w, NoWrites)
  /\ End(w)
  /\ UNCHANGED now

----------------------------------------------------------------------------
(* retrieve: the row, the count, and an update when they differ.            *)

RetrieveBegin(w, x) ==
  /\ "retrieve" \in Events
  /\ pc[w] = "idle"
  /\ There(db[x])
  /\ pc' = [pc EXCEPT ![w] = "count"]
  /\ job' = [job EXCEPT ![w] = [NoJob EXCEPT !.request = x, !.image = db[x]]]
  /\ UNCHANGED <<db, work, owner, now>>

(* Mutant: a position that went down is not stored.                         *)
RetrieveCountRising(w) ==
  /\ pc[w] = "count"
  /\ LET position == CalcPosition(db, job[w].request, job[w].image) IN
       IF job[w].image.hint >= position
       THEN End(w)
       ELSE /\ job' = [job EXCEPT ![w].position = position]
            /\ pc' = [pc EXCEPT ![w] = "hint"]
  /\ UNCHANGED <<db, work, owner, now>>

RetrieveCount(w) ==
  /\ pc[w] = "count"
  /\ LET position == CalcPosition(db, job[w].request, job[w].image) IN
       IF job[w].image.hint = position
       THEN End(w)
       ELSE /\ job' = [job EXCEPT ![w].position = position]
            /\ pc' = [pc EXCEPT ![w] = "hint"]
  /\ UNCHANGED <<db, work, owner, now>>

(* filter(pk).update(position_hint=...): nothing happens to a deleted row.  *)
RetrieveSave(w) ==
  /\ pc[w] = "hint"
  /\ Available(w, job[w].request)
  /\ LET x == job[w].request IN
       Commit(w, [y \in {y \in {x} : There(work[y])} |->
                    [work[y] EXCEPT !.hint = job[w].position]])
  /\ End(w)
  /\ UNCHANGED now

----------------------------------------------------------------------------

(* destroy, inherited from ModelViewSet: in any status.                     *)
Delete(w) ==
  /\ "delete" \in Events
  /\ pc[w] = "idle"
  /\ \E x \in Rows :
       /\ There(work[x])
       /\ Commit(w, Put(x, [work[x] EXCEPT !.status = "deleted"]))
  /\ End(w)
  /\ UNCHANGED now

Tick == /\ "tick" \in Events
        /\ now < MaxTime
        /\ now' = now + 1
        /\ UNCHANGED <<db, work, owner, pc, job>>

(* The process dies; its open transaction is rolled back.                   *)
Crash(w) == /\ "crash" \in Events
            /\ pc[w] # "idle"
            /\ Rollback(w)
            /\ End(w)
            /\ UNCHANGED now

Statement(w) ==
  \/ CreateCheckFree(w) \/ CreateInsert(w) \/ Enqueue(w) \/ EnqueueRefused(w)
  \/ TransitionCommit(w) \/ RetrieveCount(w) \/ RetrieveSave(w)

Next == \/ \E w \in Workers : \/ CreateBegin(w) \/ Statement(w) \/ Move(w)
                              \/ \E x \in Rows : RetrieveBegin(w, x)
                              \/ Delete(w) \/ Crash(w)
        \/ Tick

Spec == Init /\ [][Next]_vars

(* A statement that is not blocked runs, one that waits for a row gets it   *)
(* in its turn (PostgreSQL queues lock requests).                           *)
FairSpec == Spec /\ \A w \in Workers : SF_vars(Statement(w))

----------------------------------------------------------------------------
(* Properties.                                                              *)

TypeOK == /\ db \in [Rows -> RequestRecord] /\ work \in [Rows -> RequestRecord]
          /\ owner \in [Rows -> Workers \cup {None}]
          /\ now \in 0 .. MaxTime
          /\ pc \in [Workers -> Steps]
          /\ job \in [Workers -> Jobs]

(* A request is only ever in the queue of its plan and carries the priority *)
(* of that queue from the moment it is there; the admin list, from which    *)
(* work is taken, is ordered by it.                                         *)
QueueFits ==
  \A x \in Rows :
    LET request == db[x] IN
    /\ request.status = "QUEUED_FREE" => request.plan = "free"
    /\ request.status \in {"PAYMENT_REQUIRED", "QUEUED_PAID"}
         => request.plan = "paid"
    /\ request.status \in {"QUEUED_FREE", "QUEUED_PAID", "IN_PROGRESS",
                           "REVIEW_PENDING", "READY_FOR_USER"}
         => request.priority = IF request.plan = "paid" THEN PRIORITY_PAID
                                                        ELSE PRIORITY_FREE

(* "You have more open requests than allowed" (serializers.py:77): nobody   *)
(* has more open requests than the limit.                                   *)
OpenLimit == \A u \in Users : Cardinality(OpenOf(db, u)) <= MAX_OPEN_REQUESTS

(* "You have registered more free requests than allowed in the last 24      *)
(* hours" (serializers.py:92): no day, whenever it begins, has more free    *)
(* requests of a user registered than the limit.                            *)
DailyLimit ==
  \A u \in Users, t \in 0 .. MaxTime :
    Cardinality({x \in Rows : /\ db[x].user = u /\ db[x].plan = "free"
                              /\ db[x].created \in t .. t + Day})
      <= MAX_FREE_REQUESTS_PER_DAY

(* A request in the free queue only moves forward: once it is there, the    *)
(* place its owner is told never gets worse.                                *)
PlaceOnlyImproves ==
  [][\A x \in Rows :
       (db[x].status = "QUEUED_FREE" /\ db'[x].status = "QUEUED_FREE")
         => CalcPosition(db', x, db'[x]) <= CalcPosition(db, x, db[x])]_vars

(* Every request that is registered leaves SUBMITTED: it is enqueued, or    *)
(* canceled or deleted before.                                              *)
RegisteredIsEnqueued ==
  \A x \in Rows : db[x].status = "SUBMITTED" ~> db[x].status # "SUBMITTED"

(* The stored position is right in the end: when the client of every        *)
(* request looks at it again and again and the queues are quiet, the reads  *)
(* repair whatever earlier ones and the transitions left behind.            *)
HintsSettle ==
  (\A x \in Rows : SF_vars(\E w \in Workers : RetrieveBegin(w, x))) =>
  \A x \in Rows :
    <>[](There(db[x]) => db[x].hint = CalcPosition(db, x, db[x]))
====
