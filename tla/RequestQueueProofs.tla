---- MODULE RequestQueueProofs ----
(* The queue a request is in, the limits of its owner and its place in the  *)
(* free queue, for any number of users and requests.                        *)
EXTENDS RequestQueue, FiniteSetTheorems, TLAPS

USE QueueConstantsOk

(* QueueFits of one row.                                                    *)
Fits(request) ==
  /\ request.status = "QUEUED_FREE" => request.plan = "free"
  /\ request.status \in {"PAYMENT_REQUIRED", "QUEUED_PAID"}
       => request.plan = "paid"
  /\ request.status \in {"QUEUED_FREE", "QUEUED_PAID", "IN_PROGRESS",
                         "REVIEW_PENDING", "READY_FOR_USER"}
       => request.priority = IF request.plan = "paid" THEN PRIORITY_PAID
                                                      ELSE PRIORITY_FREE

(* Committed and uncommitted rows fit, and an open transaction changes      *)
(* neither the plan of a request nor that it was made.                      *)
RowsOk == /\ db \in [Rows -> RequestRecord] /\ work \in [Rows -> RequestRecord]
          /\ owner \in [Rows -> Workers \cup {None}]
          /\ \A x \in Rows : /\ Fits(db[x]) /\ Fits(work[x])
                             /\ work[x].plan = db[x].plan
                             /\ work[x].status = "unused"
                                  => db[x].status = "unused"

(* A request about to be enqueued is there, with the plan it was made with. *)
JobOk(w) ==
  /\ pc[w] = "enqueue" => /\ job[w].request \in Rows
                          /\ db[job[w].request].status # "unused"
                          /\ db[job[w].request].plan = job[w].plan
  /\ pc[w] \in {"count", "hint"} => job[w].request \in Rows

JobsOk == /\ now \in 0 .. MaxTime
          /\ pc \in [Workers -> Steps]
          /\ job \in [Workers -> Jobs]
          /\ \A w \in Workers : JobOk(w)

IInv == RowsOk /\ JobsOk

(* A position in the queue is a natural number.                             *)
LEMMA PositionNat ==
  ASSUME NEW table, NEW x, NEW request
  PROVE  CalcPosition(table, x, request) \in Nat
  <1> DEFINE ahead == {y \in Rows : /\ table[y].status = QueueOf(request.plan)
                                    /\ table[y].plan = request.plan
                                    /\ y < x}
  <1>1. IsFiniteSet(Rows)
    BY FS_Interval DEF Rows
  <1>2. IsFiniteSet(ahead)
    BY <1>1, FS_Subset
  <1> QED  BY <1>2, FS_CardinalityType DEF CalcPosition

(* A legal move of a fitting row fits again; a move into a first queue fits *)
(* when it is the queue of the plan.                                        *)
LEMMA MoveFits ==
  ASSUME NEW w \in Workers, NEW x \in Rows, NEW target \in Statuses,
         Seen(w, x) \in RequestRecord, Fits(Seen(w, x)), CanMove(w, x, target),
         target \in {"PAYMENT_REQUIRED", "QUEUED_FREE"}
           => target = FirstQueue(Seen(w, x).plan)
  PROVE  /\ MovedTo(w, x, target) \in RequestRecord
         /\ Fits(MovedTo(w, x, target))
         /\ MovedTo(w, x, target).plan = Seen(w, x).plan
         /\ MovedTo(w, x, target).status # "unused"
  <1> DEFINE old == Seen(w, x)
             moved == [old EXCEPT
                  !.status = target,
                  !.priority = CASE target = "QUEUED_PAID" -> PRIORITY_PAID
                                 [] target = "QUEUED_FREE" -> PRIORITY_FREE
                                 [] OTHER -> @]
             place == CalcPosition(Visible(w), x, moved)
  <1>1. place \in Nat
    BY PositionNat
  <1>2. MovedTo(w, x, target) = [moved EXCEPT !.hint = place]
    BY DEF MovedTo
  <1> HIDE DEF place
  <1>3. /\ old.status # "CANCELED"
        /\ target = "CANCELED" \/ <<old.status, target>> \in TransitionRules
    BY DEF CanMove, TransitionAllowed
  <1>4. /\ moved \in RequestRecord
        /\ moved.status = target /\ moved.plan = old.plan
        /\ target = "QUEUED_PAID" => moved.priority = PRIORITY_PAID
        /\ target = "QUEUED_FREE" => moved.priority = PRIORITY_FREE
        /\ target \notin {"QUEUED_PAID", "QUEUED_FREE"}
             => moved.priority = old.priority
    BY DEF RequestRecord, PRIORITY_PAID, PRIORITY_FREE
  <1> HIDE DEF moved
  <1>5. Fits(moved)
    <2>1. target = "CANCELED" => Fits(moved)
      BY <1>4 DEF Fits
    <2>2. target \in {"PAYMENT_REQUIRED", "QUEUED_FREE"} => Fits(moved)
      BY <1>4 DEF Fits, FirstQueue, RequestRecord, Plans
    <2>3. target = "QUEUED_PAID" => Fits(moved)
      BY <1>3, <1>4 DEF Fits, TransitionRules
    <2>4. target \in {"IN_PROGRESS", "REVIEW_PENDING", "READY_FOR_USER"}
            => Fits(moved)
      BY <1>3, <1>4 DEF Fits, TransitionRules
    <2>5. target # "SUBMITTED"
      BY <1>3 DEF TransitionRules
    <2> QED  BY <2>1, <2>2, <2>3, <2>4, <2>5 DEF Statuses
  <1> QED
    BY <1>1, <1>2, <1>4, <1>5 DEF Fits, RequestRecord, Statuses

----------------------------------------------------------------------------
(* Steps of a transaction.                                                  *)

(* What is committed keeps its plan and stays made.                         *)
PlansKept == \A x \in Rows : db[x].status # "unused" =>
               db'[x].plan = db[x].plan /\ db'[x].status # "unused"

(* What a worker sees of a row is good.                                     *)
LEMMA SeenOk ==
  ASSUME RowsOk, NEW w \in Workers, NEW x \in Rows
  PROVE  /\ Seen(w, x) \in RequestRecord /\ Fits(Seen(w, x))
         /\ Seen(w, x).plan = db[x].plan
  BY DEF RowsOk, Seen

(* A statement that writes good rows,                                       *)
LEMMA WriteStep ==
  ASSUME RowsOk, NEW w \in Workers, NEW x \in Rows,
         NEW value \in RequestRecord, Fits(value),
         value.plan = db[x].plan, value.status # "unused",
         Write(w, Put(x, value))
  PROVE  RowsOk' /\ PlansKept
  BY DEF RowsOk, Write, Put, Overlay, PlansKept

(* a commit of good rows,                                                   *)
LEMMA CommitStep ==
  ASSUME RowsOk, NEW w \in Workers, NEW S \in SUBSET Rows,
         NEW change, DOMAIN change = S,
         \A x \in S : /\ change[x] \in RequestRecord /\ Fits(change[x])
                      /\ change[x].status # "unused"
                      /\ db[x].status # "unused" => change[x].plan = db[x].plan,
         Commit(w, change)
  PROVE  RowsOk' /\ PlansKept
  <1>1. \A x \in Rows : work'[x] = IF x \in S THEN change[x] ELSE work[x]
    BY DEF Commit, Overlay
  <1>2. \A x \in Rows : db'[x] = IF x \in S THEN change[x]
                                ELSE IF owner[x] = w THEN work[x] ELSE db[x]
    BY DEF Commit, Overlay
  <1>3. owner' \in [Rows -> Workers \cup {None}]
    BY DEF Commit, Released, RowsOk
  <1>4. work' = [x \in Rows |-> work'[x]] /\ db' = [x \in Rows |-> db'[x]]
    BY DEF Commit, Overlay
  <1>5. \A x \in Rows : work'[x] \in RequestRecord /\ db'[x] \in RequestRecord
    BY <1>1, <1>2 DEF RowsOk
  <1>6. work' \in [Rows -> RequestRecord] /\ db' \in [Rows -> RequestRecord]
    BY <1>4, <1>5
  <1>7. \A x \in Rows : /\ Fits(db'[x]) /\ Fits(work'[x])
                        /\ work'[x].plan = db'[x].plan
                        /\ work'[x].status = "unused"
                             => db'[x].status = "unused"
    BY <1>1, <1>2 DEF RowsOk
  <1>8. PlansKept
    BY <1>2 DEF RowsOk, PlansKept
  <1> QED  BY <1>3, <1>6, <1>7, <1>8 DEF RowsOk, Fits

(* and a rollback keep what is known of the rows.                           *)
LEMMA RollbackStep ==
  ASSUME RowsOk, NEW w \in Workers, Rollback(w)
  PROVE  RowsOk' /\ PlansKept
  BY DEF RowsOk, Rollback, Released, PlansKept

----------------------------------------------------------------------------
(* Steps of a handler.                                                      *)

(* A handler that ends.                                                     *)
LEMMA EndStep ==
  ASSUME JobsOk, PlansKept, NEW w \in Workers, End(w), now' = now
  PROVE  JobsOk'
  <1>1. NoJob \in Jobs
    BY DEF NoJob, Jobs, NoRequest, RequestRecord, Plans, PRIORITY_FREE
  <1>2. pc' \in [Workers -> Steps] /\ job' \in [Workers -> Jobs]
    BY <1>1 DEF JobsOk, End, Steps
  <1>3. ASSUME NEW v \in Workers PROVE JobOk(v)'
    <2>1. CASE v = w
      BY <2>1 DEF End, JobsOk, JobOk
    <2>2. CASE v # w
      BY <2>2 DEF End, JobsOk, JobOk, PlansKept
    <2> QED  BY <2>1, <2>2
  <1> QED  BY <1>2, <1>3 DEF JobsOk

(* The next statement of a handler and its variables.                       *)
LEMMA NextStep ==
  ASSUME JobsOk, PlansKept, NEW w \in Workers, NEW step \in Steps,
         NEW args \in Jobs, now' = now,
         pc' = [pc EXCEPT ![w] = step], job' = [job EXCEPT ![w] = args],
         step = "enqueue" => /\ args.request \in Rows
                             /\ db'[args.request].status # "unused"
                             /\ db'[args.request].plan = args.plan,
         step \in {"count", "hint"} => args.request \in Rows
  PROVE  JobsOk'
  <1>1. pc' \in [Workers -> Steps] /\ job' \in [Workers -> Jobs]
    BY DEF JobsOk
  <1>2. ASSUME NEW v \in Workers PROVE JobOk(v)'
    <2>1. CASE v = w
      BY <2>1 DEF JobsOk, JobOk
    <2>2. CASE v # w
      BY <2>2 DEF JobsOk, JobOk, PlansKept
    <2> QED  BY <2>1, <2>2
  <1> QED  BY <1>1, <1>2 DEF JobsOk

(* A step that touches no row.                                              *)
LEMMA SameRows ==
  ASSUME RowsOk, UNCHANGED <<db, work, owner>>
  PROVE  RowsOk' /\ PlansKept
  BY DEF RowsOk, PlansKept

(* The database starts without requests.                                    *)
LEMMA InitIInv == Init => IInv
  <1> SUFFICES ASSUME Init PROVE IInv
    OBVIOUS
  <1>1. NoRequest \in RequestRecord /\ Fits(NoRequest)
    BY DEF NoRequest, RequestRecord, Fits, Plans, PRIORITY_FREE
  <1>2. NoJob \in Jobs
    BY <1>1 DEF NoJob, Jobs, Plans
  <1>3. RowsOk
    BY <1>1 DEF Init, RowsOk
  <1>4. JobsOk
    BY <1>2 DEF Init, JobsOk, JobOk, Steps
  <1> QED  BY <1>3, <1>4 DEF IInv

----------------------------------------------------------------------------
(* One lemma per group of handlers.                                         *)

(* A request moves along the table.                                         *)
LEMMA TransitionStep ==
  ASSUME IInv, NEW w \in Workers, NEW x \in Rows, NEW target \in Statuses,
         TransitionSave(w, x, target), Goto(w, "commit"), now' = now,
         target \in {"PAYMENT_REQUIRED", "QUEUED_FREE"}
           => target = FirstQueue(db[x].plan)
  PROVE  IInv'
  <1>1. /\ Seen(w, x) \in RequestRecord /\ Fits(Seen(w, x))
        /\ Seen(w, x).plan = db[x].plan
    BY SeenOk DEF IInv
  <1>2. /\ MovedTo(w, x, target) \in RequestRecord
        /\ Fits(MovedTo(w, x, target))
        /\ MovedTo(w, x, target).plan = Seen(w, x).plan
        /\ MovedTo(w, x, target).status # "unused"
    BY <1>1, MoveFits DEF TransitionSave
  <1>3. RowsOk' /\ PlansKept
    BY <1>1, <1>2, WriteStep DEF IInv, TransitionSave
  <1>4. JobsOk'
    <2>1. /\ pc' = [pc EXCEPT ![w] = "commit"]
          /\ job' = [job EXCEPT ![w] = job[w]]
          /\ job[w] \in Jobs /\ "commit" \in Steps
      BY DEF Goto, IInv, JobsOk, Steps
    <2> QED  BY <1>3, <2>1, NextStep DEF IInv
  <1> QED  BY <1>3, <1>4 DEF IInv

(* A request is created.                                                    *)
LEMMA CreateStep ==
  ASSUME IInv, NEW w \in Workers,
         \/ CreateBegin(w) \/ CreateCheckFree(w) \/ CreateInsert(w)
         \/ Enqueue(w) \/ EnqueueRefused(w)
  PROVE  IInv'
  <1>0. NoRequest \in RequestRecord /\ job[w] \in Jobs /\ NoJob \in Jobs
    BY DEF NoRequest, RequestRecord, Plans, PRIORITY_FREE, IInv, JobsOk, NoJob,
       Jobs
  <1>1. CASE CreateBegin(w)
    <2>1. PICK u \in Users, plan \in Plans :
            /\ pc' = [pc EXCEPT ![w] = IF plan = "free" THEN "free_limit"
                                       ELSE "insert"]
            /\ job' = [job EXCEPT ![w] = [NoJob EXCEPT !.user = u,
                                                       !.plan = plan]]
      BY <1>1 DEF CreateBegin
    <2>2. [NoJob EXCEPT !.user = u, !.plan = plan] \in Jobs
      BY <1>0 DEF NoJob, Jobs
    <2>3. RowsOk' /\ PlansKept /\ now' = now
      BY <1>1, SameRows DEF CreateBegin, IInv
    <2>4. JobsOk'
      BY <2>1, <2>2, <2>3, NextStep DEF IInv, Steps
    <2> QED  BY <2>3, <2>4 DEF IInv
  <1>2. CASE CreateCheckFree(w)
    <2>1. RowsOk' /\ PlansKept /\ now' = now
      BY <1>2, SameRows DEF CreateCheckFree, IInv
    <2>2. CASE End(w)
      BY <2>1, <2>2, EndStep DEF IInv
    <2>3. CASE Goto(w, "insert")
      <3>1. job' = [job EXCEPT ![w] = job[w]]
        BY <2>3 DEF Goto, IInv, JobsOk
      <3> QED  BY <1>0, <2>1, <2>3, <3>1, NextStep DEF Goto, IInv, Steps
    <2> QED  BY <1>2, <2>2, <2>3 DEF CreateCheckFree
  <1>3. CASE CreateInsert(w)
    <2> DEFINE made == Registered(w)
    <2>1. PICK x \in NextRequest : /\ Commit(w, Put(x, made))
                                   /\ job' = [job EXCEPT ![w].request = x]
      BY <1>3 DEF CreateInsert
    <2>2. x \in Rows /\ db[x].status = "unused"
      BY DEF NextRequest
    <2>3. /\ made \in RequestRecord /\ Fits(made)
          /\ made.status = "SUBMITTED" /\ made.plan = job[w].plan
      <3>1. /\ job[w].user \in Users \cup {None} /\ job[w].plan \in Plans
            /\ now \in 0 .. MaxTime /\ "SUBMITTED" \in Statuses
        BY <1>0 DEF Jobs, IInv, JobsOk, Statuses
      <3>2. made \in RequestRecord
        BY <3>1 DEF Registered, RequestRecord
      <3> QED  BY <3>2 DEF Registered, Fits
    <2> HIDE DEF made
    <2>4. DOMAIN Put(x, made) = {x} /\ Put(x, made)[x] = made
      BY DEF Put
    <2>5. RowsOk' /\ PlansKept
      BY <2>1, <2>2, <2>3, <2>4, CommitStep, {x} \in SUBSET Rows DEF IInv
    <2>6. db'[x] = made
      BY <2>1, <2>2, <2>4 DEF Commit, Overlay
    <2>7. JobsOk'
      <3> DEFINE args == [job[w] EXCEPT !.request = x]
      <3>1. args \in Jobs /\ args.request = x /\ args.plan = job[w].plan
        BY <1>0, <2>2 DEF Jobs
      <3>2. /\ job' = [job EXCEPT ![w] = args]
            /\ pc' = [pc EXCEPT ![w] = "enqueue"] /\ now' = now
        BY <1>3, <2>1 DEF CreateInsert, IInv, JobsOk
      <3> HIDE DEF args
      <3> QED  BY <2>2, <2>3, <2>5, <2>6, <3>1, <3>2, NextStep DEF IInv, Steps
    <2> QED  BY <2>5, <2>7 DEF IInv
  <1>4. CASE Enqueue(w)
    <2>1. /\ job[w].request \in Rows
          /\ db[job[w].request].plan = job[w].plan
      BY <1>4 DEF Enqueue, IInv, JobsOk, JobOk
    <2>2. FirstQueue(job[w].plan) \in Statuses
      BY DEF FirstQueue, Statuses
    <2> QED  BY <1>4, <2>1, <2>2, TransitionStep DEF Enqueue
  <1>5. CASE EnqueueRefused(w)
    BY <1>5, SameRows, EndStep DEF EnqueueRefused, IInv
  <1> QED  BY <1>1, <1>2, <1>3, <1>4, <1>5

(* Staff moves a request.                                                   *)
LEMMA MoveStep ==
  ASSUME IInv, NEW w \in Workers, Move(w) \/ TransitionCommit(w)
  PROVE  IInv'
  <1>1. CASE Move(w)
    <2>1. PICK x \in Rows :
            \/ TransitionSave(w, x, "QUEUED_PAID")
            \/ \E target \in StaffTargets : TransitionSave(w, x, target)
      BY <1>1 DEF Move
    <2>2. PICK target \in StaffTargets \cup {"QUEUED_PAID"} :
            TransitionSave(w, x, target)
      BY <2>1
    <2>3. target \in Statuses \ {"PAYMENT_REQUIRED", "QUEUED_FREE"}
      BY DEF StaffTargets, Statuses
    <2> QED  BY <1>1, <2>2, <2>3, TransitionStep DEF Move
  <1>2. CASE TransitionCommit(w)
    <2>1. DOMAIN NoWrites = {}
      BY DEF NoWrites
    <2>2. Commit(w, NoWrites) /\ End(w) /\ now' = now
      BY <1>2 DEF TransitionCommit
    <2>3. RowsOk' /\ PlansKept
      BY <2>1, <2>2, CommitStep, {} \in SUBSET Rows DEF IInv
    <2> QED  BY <2>2, <2>3, EndStep DEF IInv
  <1> QED  BY <1>1, <1>2

(* A request is shown, with its place in the queue.                         *)
LEMMA RetrieveStep ==
  ASSUME IInv, NEW w \in Workers,
         \/ \E x \in Rows : RetrieveBegin(w, x)
         \/ RetrieveCount(w) \/ RetrieveSave(w) \/ Delete(w)
  PROVE  IInv'
  <1>0. NoRequest \in RequestRecord /\ job[w] \in Jobs /\ NoJob \in Jobs
    BY DEF NoRequest, RequestRecord, Plans, PRIORITY_FREE, IInv, JobsOk, NoJob,
       Jobs
  <1>1. ASSUME NEW x \in Rows, RetrieveBegin(w, x)
        PROVE  IInv'
    <2>1. RowsOk' /\ PlansKept /\ now' = now
      BY <1>1, SameRows DEF RetrieveBegin, IInv
    <2>2. [NoJob EXCEPT !.request = x, !.image = db[x]] \in Jobs
      BY <1>0 DEF NoJob, Jobs, IInv, RowsOk
    <2>3. [NoJob EXCEPT !.request = x, !.image = db[x]].request = x
      BY DEF NoJob
    <2> QED  BY <1>1, <2>1, <2>2, <2>3, NextStep DEF RetrieveBegin, IInv, Steps
  <1>2. CASE RetrieveCount(w)
    <2> DEFINE position == CalcPosition(db, job[w].request, job[w].image)
               args == [job[w] EXCEPT !.position = position]
    <2>1. RowsOk' /\ PlansKept /\ now' = now
      BY <1>2, SameRows DEF RetrieveCount, IInv
    <2>2. position \in Nat
      BY PositionNat
    <2>3. \/ End(w)
          \/ job' = [job EXCEPT ![w] = args] /\ pc' = [pc EXCEPT ![w] = "hint"]
      BY <1>2 DEF RetrieveCount, IInv, JobsOk
    <2> HIDE DEF position
    <2>4. args \in Jobs /\ args.request = job[w].request
      BY <1>0, <2>2 DEF Jobs
    <2>5. job[w].request \in Rows
      BY <1>2 DEF RetrieveCount, IInv, JobsOk, JobOk
    <2> HIDE DEF args
    <2> QED  BY <2>1, <2>3, <2>4, <2>5, NextStep, EndStep DEF IInv, Steps
  <1>3. CASE RetrieveSave(w)
    <2> DEFINE x == job[w].request
               S == {y \in {x} : There(work[y])}
               change == [y \in S |-> [work[y] EXCEPT !.hint = job[w].position]]
    <2>1. x \in Rows
      BY <1>3 DEF RetrieveSave, IInv, JobsOk, JobOk
    <2>2. \A y \in S : /\ change[y] \in RequestRecord /\ Fits(change[y])
                      /\ change[y].status # "unused"
                      /\ change[y].plan = db[y].plan
      BY <1>0, <2>1 DEF IInv, RowsOk, RequestRecord, Fits, Jobs, There
    <2>3. Commit(w, change) /\ End(w) /\ now' = now
      BY <1>3 DEF RetrieveSave
    <2>4. DOMAIN change = S /\ S \in SUBSET Rows
      BY <2>1
    <2> HIDE DEF S, change
    <2>5. RowsOk' /\ PlansKept
      BY <2>2, <2>3, <2>4, CommitStep DEF IInv
    <2> QED  BY <2>3, <2>5, EndStep DEF IInv
  <1>4. CASE Delete(w)
    <2>1. PICK x \in Rows :
            /\ There(work[x])
            /\ Commit(w, Put(x, [work[x] EXCEPT !.status = "deleted"]))
      BY <1>4 DEF Delete
    <2> DEFINE gone == [work[x] EXCEPT !.status = "deleted"]
    <2>2. /\ gone \in RequestRecord /\ Fits(gone) /\ gone.status # "unused"
          /\ gone.plan = db[x].plan
      <3>1. /\ work[x] \in RequestRecord /\ Fits(work[x])
            /\ work[x].plan = db[x].plan
        BY DEF IInv, RowsOk
      <3> QED  BY <3>1 DEF RequestRecord, Fits
    <2>3. Commit(w, Put(x, gone))
      BY <2>1
    <2> HIDE DEF gone
    <2>4. DOMAIN Put(x, gone) = {x} /\ Put(x, gone)[x] = gone
      BY DEF Put
    <2>5. RowsOk' /\ PlansKept
      BY <2>2, <2>3, <2>4, CommitStep, {x} \in SUBSET Rows DEF IInv
    <2> QED  BY <1>4, <2>5, EndStep DEF Delete, IInv
  <1> QED  BY <1>1, <1>2, <1>3, <1>4

(* Every step keeps the invariant.                                          *)
LEMMA NextIInv == IInv /\ [Next]_vars => IInv'
  <1> SUFFICES ASSUME IInv, [Next]_vars PROVE IInv'
    OBVIOUS
  <1>1. ASSUME NEW w \in Workers, CreateBegin(w) \/ Statement(w)
        PROVE  IInv'
    BY <1>1, CreateStep, MoveStep, RetrieveStep DEF Statement
  <1>2. ASSUME NEW w \in Workers, Move(w) \/ Delete(w)
                                  \/ \E x \in Rows : RetrieveBegin(w, x)
        PROVE  IInv'
    BY <1>2, MoveStep, RetrieveStep
  <1>3. ASSUME NEW w \in Workers, Crash(w)
        PROVE  IInv'
    BY <1>3, RollbackStep, EndStep DEF Crash, IInv
  <1>4. CASE Tick
    <2>1. RowsOk'
      BY <1>4, SameRows DEF Tick, IInv
    <2>2. now' \in 0 .. MaxTime
      BY <1>4 DEF Tick, IInv, JobsOk
    <2>3. JobsOk'
      BY <1>4, <2>2 DEF Tick, IInv, JobsOk, JobOk
    <2> QED  BY <2>1, <2>3 DEF IInv
  <1>5. CASE UNCHANGED vars
    BY <1>5, SameRows DEF vars, IInv, JobsOk, JobOk
  <1> QED  BY <1>1, <1>2, <1>3, <1>4, <1>5 DEF Next

(* What the runs check follows from the invariant.                          *)
LEMMA IInvShows == IInv => TypeOK /\ QueueFits
  BY DEF IInv, RowsOk, JobsOk, TypeOK, QueueFits, Fits

(* Every row and every handler variable has its type in every reachable     *)
(* state; a stored position is never negative.                              *)
THEOREM QueueTypes == Spec => []TypeOK
  BY InitIInv, NextIInv, IInvShows, PTL DEF Spec

(* Whatever creations, transitions, reads, deletions and crashes interleave,*)
(* a request is only in the queue of its plan, and has its priority.        *)
THEOREM QueueCorrect == Spec => []QueueFits
  BY InitIInv, NextIInv, IInvShows, PTL DEF Spec

----------------------------------------------------------------------------
(* The limits.  A creation counts first and inserts later, so creations     *)
(* that overlap may exceed a limit, each by one: what holds for any number  *)
(* of workers is that requests and creations under way together exceed it   *)
(* by less than the number of workers.                                      *)

(* What a handler that does not insert may do to a row.                     *)
RowStays(old, new) ==
  /\ new.user = old.user /\ new.plan = old.plan /\ new.created = old.created
  /\ new.status = "unused" <=> old.status = "unused"
  /\ There(new) => There(old)
  /\ new.status = "deleted" => old.status = "deleted" \/ "delete" \in Events
  /\ new.status \in OPEN_STATUSES => old.status \in OPEN_STATUSES

RowsStay == \A x \in Rows : RowStays(db[x], db'[x])

(* Uncommitted rows belong to a transition under way, which may not open a  *)
(* request again; requests are numbered without gaps and dated.             *)
RowsSettle ==
  \A x \in Rows :
    /\ RowStays(db[x], work[x])
    /\ owner[x] = None => work[x] = db[x]
    /\ \A w \in Workers : owner[x] = w => pc[w] = "commit"
    /\ db[x].created <= now
    /\ db[x].user \in Users => db[x].status # "unused"
    /\ db[x].status # "unused" => \A y \in 1 .. x - 1 : db[y].status # "unused"

(* A move never opens a closed request, nor brings one back.                *)
LEMMA MoveStays ==
  ASSUME NEW w \in Workers, NEW x \in Rows, NEW target \in Statuses,
         Seen(w, x) \in RequestRecord, CanMove(w, x, target)
  PROVE  RowStays(Seen(w, x), MovedTo(w, x, target))
  <1> DEFINE old == Seen(w, x)
             new == MovedTo(w, x, target)
  <1>1. /\ new.user = old.user /\ new.plan = old.plan
        /\ new.created = old.created /\ new.status = target
    BY DEF MovedTo, RequestRecord
  <1>2. /\ There(old) /\ old.status # "CANCELED"
        /\ target = "CANCELED" \/ <<old.status, target>> \in TransitionRules
    BY DEF CanMove, TransitionAllowed
  <1> HIDE DEF old, new
  <1>3. target \in OPEN_STATUSES => old.status \in OPEN_STATUSES
    BY <1>2 DEF TransitionRules, OPEN_STATUSES
  <1> QED
    BY <1>1, <1>2, <1>3 DEF RowStays, There, Statuses, old, new

(* A write of a row that stays, by a worker that goes to its commit.        *)
LEMMA WriteSettles ==
  ASSUME IInv, RowsSettle, NEW w \in Workers, NEW x \in Rows, NEW value,
         RowStays(Seen(w, x), value), Write(w, Put(x, value)),
         pc' = [pc EXCEPT ![w] = "commit"], now' = now
  PROVE  RowsSettle' /\ RowsStay
  <1>1. /\ db' = db /\ owner[x] \in {w, None}
        /\ \A y \in Rows : /\ work'[y] = IF y = x THEN value ELSE work[y]
                           /\ owner'[y] = IF y = x THEN w ELSE owner[y]
    BY DEF Write, Put, Overlay, Available
  <1>2. RowStays(db[x], value)
    BY DEF RowsSettle, RowStays, Seen
  <1>3. \A v \in Workers : pc'[v] = IF v = w THEN "commit" ELSE pc[v]
    BY DEF IInv, JobsOk
  <1>4. w # None
    BY DEF QueueConstantsOk
  <1> QED
    BY <1>1, <1>2, <1>3, <1>4 DEF RowsSettle, RowsStay, RowStays

(* A commit of rows that stay, by a worker that ends.                       *)
LEMMA CommitSettles ==
  ASSUME IInv, RowsSettle, NEW w \in Workers, NEW S \in SUBSET Rows,
         NEW change, DOMAIN change = S,
         \A x \in S : RowStays(work[x], change[x]),
         Commit(w, change), End(w), now' = now
  PROVE  RowsSettle' /\ RowsStay
  <1>1. \A x \in Rows : work'[x] = IF x \in S THEN change[x] ELSE work[x]
    BY DEF Commit, Overlay
  <1>2. \A x \in Rows : db'[x] = IF x \in S THEN change[x]
                                ELSE IF owner[x] = w THEN work[x] ELSE db[x]
    BY DEF Commit, Overlay
  <1>3. \A x \in Rows : owner'[x] = IF owner[x] = w THEN None ELSE owner[x]
    BY DEF Commit, Released
  <1>4. \A x \in S : owner[x] \in {w, None}
    BY DEF Commit, Available
  <1>5. \A v \in Workers \ {w} : pc'[v] = pc[v]
    BY DEF End, IInv, JobsOk
  <1>6. w # None /\ \A x \in Rows : owner[x] \in Workers \cup {None}
    BY DEF QueueConstantsOk, IInv, RowsOk
  <1>7. \A x \in Rows : RowStays(db[x], db'[x]) /\ RowStays(db'[x], work'[x])
    BY <1>1, <1>2 DEF RowsSettle, RowStays
  <1>8. \A x \in Rows : owner'[x] = None => work'[x] = db'[x]
    BY <1>1, <1>2, <1>3, <1>4, <1>6 DEF RowsSettle
  <1>9. \A x \in Rows : \A v \in Workers : owner'[x] = v => pc'[v] = "commit"
    BY <1>3, <1>5, <1>6 DEF RowsSettle
  <1>10. \A x \in Rows :
           /\ db'[x].created <= now'
           /\ db'[x].user \in Users => db'[x].status # "unused"
           /\ db'[x].status # "unused"
                => \A y \in 1 .. x - 1 : db'[y].status # "unused"
    <2>1. \A x \in Rows : 1 .. x - 1 \subseteq Rows
      BY DEF Rows
    <2> QED  BY <1>7, <2>1 DEF RowsSettle, RowStays
  <1> QED  BY <1>7, <1>8, <1>9, <1>10 DEF RowsSettle, RowsStay

(* A rollback, or a handler that ends without a transaction.                *)
LEMMA RollbackSettles ==
  ASSUME IInv, RowsSettle, NEW w \in Workers, Rollback(w), End(w), now' = now
  PROVE  RowsSettle' /\ RowsStay
  <1>1. \A v \in Workers \ {w} : pc'[v] = pc[v]
    BY DEF End, IInv, JobsOk
  <1>2. /\ db' = db
        /\ \A x \in Rows :
             /\ work'[x] = IF owner[x] = w THEN db[x] ELSE work[x]
             /\ owner'[x] = IF owner[x] = w THEN None ELSE owner[x]
    BY DEF Rollback, Released
  <1>3. w # None
    BY DEF QueueConstantsOk
  <1> QED  BY <1>1, <1>2, <1>3 DEF RowsSettle, RowsStay, RowStays

(* A statement that touches no row, by a worker without a transaction.      *)
LEMMA QuietSettles ==
  ASSUME IInv, RowsSettle, NEW w \in Workers, pc[w] # "commit",
         \A v \in Workers \ {w} : pc'[v] = pc[v],
         UNCHANGED <<db, work, owner, now>>
  PROVE  RowsSettle' /\ RowsStay
  BY DEF RowsSettle, RowsStay, RowStays

----------------------------------------------------------------------------
(* The handlers.                                                            *)

(* Every handler but the insertion leaves the rows as they stay; the        *)
(* insertion makes one row, after all the others.                           *)
Inserts(w, x) ==
  /\ pc[w] = "insert"
  /\ x \in NextRequest
  /\ db' = [db EXCEPT ![x] = Registered(w)]
  /\ pc' = [pc EXCEPT ![w] = "enqueue"]
  /\ job' = [job EXCEPT ![w].request = x]
  /\ now' = now

(* A creation that commits its insert.                                      *)
LEMMA InsertSettles ==
  ASSUME IInv, RowsSettle, NEW w \in Workers, CreateInsert(w)
  PROVE  RowsSettle' /\ \E x \in Rows : Inserts(w, x)
  <1>1. PICK x \in NextRequest : /\ Commit(w, Put(x, Registered(w)))
                                 /\ job' = [job EXCEPT ![w].request = x]
    BY DEF CreateInsert
  <1> DEFINE made == Registered(w)
  <1>2. /\ made.status = "SUBMITTED" /\ made.created = now
        /\ "SUBMITTED" \in OPEN_STATUSES /\ There(made)
    BY DEF Registered, There, OPEN_STATUSES
  <1> HIDE DEF made
  <1>3. /\ x \in Rows /\ db[x].status = "unused"
        /\ \A y \in 1 .. x - 1 : db[y].status # "unused"
    BY DEF NextRequest
  <1>4. pc[w] = "insert" /\ \A y \in Rows : owner[y] # w
    BY DEF CreateInsert, RowsSettle
  <1>5. /\ \A y \in Rows : work'[y] = IF y = x THEN made ELSE work[y]
        /\ \A y \in Rows : db'[y] = IF y = x THEN made ELSE db[y]
        /\ \A y \in Rows : owner'[y] = owner[y]
        /\ owner[x] \in {w, None}
    BY <1>1, <1>4 DEF Commit, Overlay, Put, Released, made, Available
  <1>6. db' = [db EXCEPT ![x] = made]
    <2>1. db' = [y \in Rows |-> db'[y]] /\ db = [y \in Rows |-> db[y]]
      BY <1>1 DEF Commit, IInv, RowsOk
    <2> QED  BY <1>5, <2>1
  <1>7. Inserts(w, x)
    BY <1>1, <1>4, <1>6 DEF CreateInsert, Inserts, made
  <1>8. RowsSettle'
    <2>1. \A v \in Workers \ {w} : pc'[v] = pc[v]
      BY DEF CreateInsert, IInv, JobsOk
    <2>2. \A y \in Rows : 1 .. y - 1 \subseteq Rows
      BY DEF Rows
    <2>3. now' = now
      BY DEF CreateInsert
    <2>4. \A y \in Rows : /\ RowStays(db'[y], work'[y])
                          /\ owner'[y] = None => work'[y] = db'[y]
      BY <1>5 DEF RowsSettle, RowStays
    <2>5. \A y \in Rows : \A v \in Workers :
            owner'[y] = v => pc'[v] = "commit"
      BY <1>4, <1>5, <2>1 DEF RowsSettle
    <2>6. \A y \in Rows : /\ db'[y].created <= now'
                          /\ db'[y].user \in Users => db'[y].status # "unused"
      BY <1>2, <1>5, <2>3 DEF RowsSettle, IInv, JobsOk
    <2>7. \A y \in Rows : db'[y].status # "unused" =>
            \A z \in 1 .. y - 1 : db'[z].status # "unused"
      BY <1>2, <1>3, <1>5, <2>2 DEF RowsSettle
    <2> QED  BY <2>4, <2>5, <2>6, <2>7 DEF RowsSettle
  <1> QED  BY <1>3, <1>7, <1>8

(* Handlers that begin, end or go on without touching a row.                *)
LEMMA ReadingSettles ==
  ASSUME IInv, RowsSettle, NEW w \in Workers,
         \/ CreateBegin(w) \/ CreateCheckFree(w) \/ EnqueueRefused(w)
         \/ RetrieveCount(w) \/ \E x \in Rows : RetrieveBegin(w, x)
  PROVE  RowsSettle' /\ RowsStay /\ now' = now
  <1>1. /\ pc[w] # "commit" /\ UNCHANGED <<db, work, owner, now>>
        /\ \E step \in Steps : pc' = [pc EXCEPT ![w] = step]
    BY DEF CreateBegin, CreateCheckFree, EnqueueRefused, RetrieveCount,
       RetrieveBegin, Goto, End, Steps
  <1>2. \A v \in Workers \ {w} : pc'[v] = pc[v]
    BY <1>1 DEF IInv, JobsOk
  <1> QED  BY <1>1, <1>2, QuietSettles

(* A transition up to its save.                                             *)
LEMMA SavingSettles ==
  ASSUME IInv, RowsSettle, NEW w \in Workers, Enqueue(w) \/ Move(w)
  PROVE  RowsSettle' /\ RowsStay /\ now' = now
  <1>1. PICK x \in Rows, target \in Statuses : TransitionSave(w, x, target)
    <2>1. CASE Enqueue(w)
      BY <2>1 DEF Enqueue, IInv, JobsOk, JobOk, FirstQueue, Statuses
    <2>2. CASE Move(w)
      BY <2>2 DEF Move, StaffTargets, Statuses
    <2> QED  BY <2>1, <2>2
  <1>2. pc' = [pc EXCEPT ![w] = "commit"] /\ now' = now
    BY DEF Enqueue, Move, Goto
  <1>3. RowStays(Seen(w, x), MovedTo(w, x, target))
    BY <1>1, SeenOk, MoveStays DEF IInv, TransitionSave
  <1> QED  BY <1>1, <1>2, <1>3, WriteSettles DEF TransitionSave

(* A transaction that commits and is the handler's last.                    *)
LEMMA CommittingSettles ==
  ASSUME IInv, RowsSettle, NEW w \in Workers,
         TransitionCommit(w) \/ RetrieveSave(w) \/ Delete(w)
  PROVE  RowsSettle' /\ RowsStay /\ now' = now /\ End(w)
  <1>0. \A x \in Rows : work[x] \in RequestRecord
    BY DEF IInv, RowsOk
  <1>1. CASE TransitionCommit(w)
    <2>1. DOMAIN NoWrites = {} /\ {} \in SUBSET Rows
      BY DEF NoWrites
    <2> QED  BY <1>1, <2>1, CommitSettles DEF TransitionCommit
  <1>2. CASE RetrieveSave(w)
    <2> DEFINE x == job[w].request
               S == {y \in {x} : There(work[y])}
               change == [y \in S |-> [work[y] EXCEPT !.hint = job[w].position]]
    <2>1. x \in Rows
      BY <1>2 DEF RetrieveSave, IInv, JobsOk, JobOk
    <2>2. \A y \in S : RowStays(work[y], change[y])
      BY <1>0, <2>1 DEF RowStays, RequestRecord, There
    <2>3. Commit(w, change) /\ End(w) /\ now' = now
      BY <1>2 DEF RetrieveSave
    <2>4. DOMAIN change = S /\ S \in SUBSET Rows
      BY <2>1
    <2> HIDE DEF S, change
    <2> QED  BY <2>2, <2>3, <2>4, CommitSettles
  <1>3. CASE Delete(w)
    <2>1. PICK x \in Rows :
            /\ There(work[x])
            /\ Commit(w, Put(x, [work[x] EXCEPT !.status = "deleted"]))
      BY <1>3 DEF Delete
    <2> DEFINE gone == [work[x] EXCEPT !.status = "deleted"]
    <2>2. RowStays(work[x], gone)
      BY <1>0, <1>3, <2>1 DEF Delete, RowStays, RequestRecord, There,
         OPEN_STATUSES
    <2>3. Commit(w, Put(x, gone))
      BY <2>1
    <2> HIDE DEF gone
    <2>4. DOMAIN Put(x, gone) = {x} /\ Put(x, gone)[x] = gone
      BY DEF Put
    <2> QED
      BY <1>3, <2>2, <2>3, <2>4, CommitSettles, {x} \in SUBSET Rows DEF Delete
  <1> QED  BY <1>1, <1>2, <1>3

(* The rows start settled.                                                  *)
LEMMA InitSettled == Init => RowsSettle
  <1> SUFFICES ASSUME Init PROVE RowsSettle
    OBVIOUS
  <1>1. \A x \in Rows : /\ db[x] = NoRequest /\ work[x] = db[x]
                        /\ owner[x] = None /\ now = 0
    BY DEF Init
  <1>2. /\ NoRequest.status = "unused" /\ NoRequest.created = 0
        /\ NoRequest.user = None /\ None \notin Workers \cup Users
    BY DEF NoRequest, QueueConstantsOk
  <1> QED  BY <1>1, <1>2 DEF RowsSettle, RowStays

(* No creation begins or passes a check.                                    *)
NobodyAsks ==
  \A v \in Workers : pc'[v] \in {"free_limit", "insert"} =>
                       pc'[v] = pc[v] /\ job'[v] = job[v]

(* Every step settles the rows, and is of one of four kinds: it inserts a   *)
(* request, it begins a creation, it checks the daily limit, or the rows    *)
(* stay and nobody asks for more.                                           *)
LEMMA NextSettles ==
  ASSUME IInv, RowsSettle, [Next]_vars
  PROVE  /\ RowsSettle'
         /\ \/ \E w \in Workers, x \in Rows : Inserts(w, x)
            \/ \E w \in Workers : CreateBegin(w)
            \/ \E w \in Workers : CreateCheckFree(w)
            \/ RowsStay /\ NobodyAsks /\ now <= now'
  <1>0. now \in Nat /\ now <= now
    BY DEF IInv, JobsOk
  <1>1. ASSUME NEW w \in Workers, CreateInsert(w)
        PROVE  RowsSettle' /\ \E v \in Workers, x \in Rows : Inserts(v, x)
    BY <1>1, InsertSettles
  <1>2. ASSUME NEW w \in Workers, CreateBegin(w) \/ CreateCheckFree(w)
        PROVE  RowsSettle'
    BY <1>2, ReadingSettles
  <1>3. ASSUME NEW w \in Workers,
               \/ EnqueueRefused(w) \/ RetrieveCount(w)
               \/ \E x \in Rows : RetrieveBegin(w, x)
        PROVE  RowsSettle' /\ RowsStay /\ NobodyAsks /\ now <= now'
    <2>1. RowsSettle' /\ RowsStay /\ now' = now
      BY <1>3, ReadingSettles
    <2>2. NobodyAsks
      BY <1>3 DEF EnqueueRefused, RetrieveCount, RetrieveBegin, End,
         NobodyAsks, IInv, JobsOk
    <2> QED  BY <1>0, <2>1, <2>2
  <1>4. ASSUME NEW w \in Workers, Enqueue(w) \/ Move(w)
        PROVE  RowsSettle' /\ RowsStay /\ NobodyAsks /\ now <= now'
    <2>1. RowsSettle' /\ RowsStay /\ now' = now
      BY <1>4, SavingSettles
    <2>2. Goto(w, "commit")
      BY <1>4 DEF Enqueue, Move
    <2>3. NobodyAsks
      BY <2>2 DEF Goto, NobodyAsks, IInv, JobsOk
    <2> QED  BY <1>0, <2>1, <2>3
  <1>5. ASSUME NEW w \in Workers, End(w)
        PROVE  NobodyAsks
    BY <1>5 DEF End, NobodyAsks, IInv, JobsOk
  <1>6. ASSUME NEW w \in Workers,
               TransitionCommit(w) \/ RetrieveSave(w) \/ Delete(w)
        PROVE  RowsSettle' /\ RowsStay /\ NobodyAsks /\ now <= now'
    BY <1>0, <1>5, <1>6, CommittingSettles
  <1>7. ASSUME NEW w \in Workers, Crash(w)
        PROVE  RowsSettle' /\ RowsStay /\ NobodyAsks /\ now <= now'
    BY <1>0, <1>5, <1>7, RollbackSettles DEF Crash
  <1>8. CASE Tick
    <2>1. \A x \in Rows : db[x].created \in Nat /\ db[x].created <= now
      BY DEF IInv, RowsOk, RequestRecord, RowsSettle
    <2>2. now <= now + 1 /\ \A x \in Rows : db[x].created <= now + 1
      BY <1>0, <2>1
    <2> QED
      BY <1>8, <2>2 DEF Tick, RowsSettle, RowsStay, RowStays, NobodyAsks
  <1>9. CASE UNCHANGED vars
    BY <1>0, <1>9 DEF vars, RowsSettle, RowsStay, RowStays, NobodyAsks
  <1> QED
    BY <1>1, <1>2, <1>3, <1>4, <1>6, <1>7, <1>8, <1>9 DEF Next, Statement

----------------------------------------------------------------------------
(* Counting.                                                                *)

(* Creations under way that passed the check of the open limit, and those   *)
(* that passed the daily one.                                               *)
AskingOpen(u) == {w \in Workers : /\ pc[w] \in {"free_limit", "insert"}
                                  /\ job[w].user = u}

AskingFree(u) == {w \in Workers : /\ pc[w] = "insert"
                                  /\ job[w].user = u /\ job[w].plan = "free"}

(* The requests of a user registered for free in the days from t on.        *)
FreeWithin(u, t) == {x \in Rows : /\ db[x].user = u /\ db[x].plan = "free"
                                  /\ db[x].created \in t .. t + Day}

(* With one creation under way less than there are workers, each limit is   *)
(* exceeded by one less than their number at most.                          *)
Overshoot == Cardinality(Workers) - 1

OpenSum(u) == Cardinality(OpenOf(db, u)) + Cardinality(AskingOpen(u))

DaySum(u) == Cardinality(RecentFreeOf(db, u)) + Cardinality(AskingFree(u))

OpenBounded == \A u \in Users : OpenSum(u) <= MAX_OPEN_REQUESTS + Overshoot

LastDayBounded ==
  \A u \in Users : DaySum(u) <= MAX_FREE_REQUESTS_PER_DAY + Overshoot

DaysBounded ==
  \A u \in Users, t \in 0 .. MaxTime :
    Cardinality(FreeWithin(u, t)) <= MAX_FREE_REQUESTS_PER_DAY + Overshoot

(* Sets of requests and sets of workers are finite.                         *)
LEMMA CountsAreNat ==
  ASSUME IsFiniteSet(Workers), NEW S, S \subseteq Rows \/ S \subseteq Workers
  PROVE  IsFiniteSet(S) /\ Cardinality(S) \in Nat
  <1>1. IsFiniteSet(Rows)
    BY FS_Interval DEF Rows, QueueConstantsOk
  <1> QED  BY <1>1, FS_Subset, FS_CardinalityType

(* Two sets that shrink are together no larger,                             *)
LEMMA BothShrink ==
  ASSUME IsFiniteSet(Workers), NEW A \in SUBSET Rows, NEW B \in SUBSET Workers,
         NEW C \in SUBSET A, NEW D \in SUBSET B
  PROVE  Cardinality(C) + Cardinality(D) <= Cardinality(A) + Cardinality(B)
  <1>1. /\ Cardinality(A) \in Nat /\ Cardinality(B) \in Nat
        /\ Cardinality(C) \in Nat /\ Cardinality(D) \in Nat
        /\ IsFiniteSet(A) /\ IsFiniteSet(B)
    BY CountsAreNat
  <1>2. Cardinality(C) <= Cardinality(A) /\ Cardinality(D) <= Cardinality(B)
    BY <1>1, FS_Subset
  <1> QED  BY <1>1, <1>2

(* nor are two of which one hands an element to the other,                  *)
LEMMA OneMoves ==
  ASSUME IsFiniteSet(Workers), NEW A \in SUBSET Rows, NEW B \in SUBSET Workers,
         NEW x \in Rows, NEW w \in B,
         NEW C \in SUBSET (A \cup {x}), NEW D \in SUBSET (B \ {w})
  PROVE  Cardinality(C) + Cardinality(D) <= Cardinality(A) + Cardinality(B)
  <1>1. /\ Cardinality(A) \in Nat /\ Cardinality(B) \in Nat
        /\ Cardinality(C) \in Nat /\ Cardinality(D) \in Nat
        /\ IsFiniteSet(A) /\ IsFiniteSet(B)
    BY CountsAreNat
  <1>2. /\ IsFiniteSet(A \cup {x}) /\ IsFiniteSet(B \ {w})
        /\ Cardinality(A \cup {x}) <= Cardinality(A) + 1
        /\ Cardinality(B \ {w}) = Cardinality(B) - 1
    <2>1. /\ IsFiniteSet(A \cup {x})
          /\ Cardinality(A \cup {x}) = IF x \in A THEN Cardinality(A)
                                               ELSE Cardinality(A) + 1
      BY <1>1, FS_AddElement
    <2>2. /\ IsFiniteSet(B \ {w})
          /\ Cardinality(B \ {w}) = Cardinality(B) - 1
      BY <1>1, FS_RemoveElement
    <2> QED  BY <1>1, <2>1, <2>2
  <1>3. /\ Cardinality(C) <= Cardinality(A \cup {x})
        /\ Cardinality(D) <= Cardinality(B \ {w})
    BY <1>2, FS_Subset
  <1>4. Cardinality(A \cup {x}) \in Nat
    BY <1>2, FS_CardinalityType
  <1> QED  BY <1>1, <1>2, <1>3, <1>4

(* and below a limit there is room for every worker.                        *)
LEMMA RoomForAll ==
  ASSUME IsFiniteSet(Workers), NEW A \in SUBSET Rows, NEW B \in SUBSET Workers,
         NEW limit \in Nat, Cardinality(A) < limit
  PROVE  Cardinality(A) + Cardinality(B) <= limit + Overshoot
  <1>1. /\ Cardinality(A) \in Nat /\ Cardinality(B) \in Nat
        /\ Cardinality(Workers) \in Nat
    BY CountsAreNat
  <1>2. Cardinality(B) <= Cardinality(Workers)
    BY FS_Subset
  <1> QED  BY <1>1, <1>2 DEF Overshoot

(* Every step keeps the bound on open requests.                             *)
LEMMA OpenStep ==
  ASSUME IsFiniteSet(Workers), IInv, IInv', RowsSettle, [Next]_vars,
         NEW u \in Users, OpenSum(u) <= MAX_OPEN_REQUESTS + Overshoot
  PROVE  OpenSum(u)' <= MAX_OPEN_REQUESTS + Overshoot
  <1> DEFINE A == OpenOf(db, u)
             B == AskingOpen(u)
             C == OpenOf(db', u)
             D == AskingOpen(u)'
  <1>0. /\ A \in SUBSET Rows /\ C \in SUBSET Rows
        /\ B \in SUBSET Workers /\ D \in SUBSET Workers
        /\ MAX_OPEN_REQUESTS + Overshoot \in Int
    BY CountsAreNat DEF OpenOf, AskingOpen, Overshoot, QueueConstantsOk
  <1>a. /\ OpenSum(u) = Cardinality(A) + Cardinality(B)
        /\ OpenSum(u)' = Cardinality(C) + Cardinality(D)
    BY DEF OpenSum, OpenOf
  <1>b. /\ Cardinality(A) + Cardinality(B) \in Nat
        /\ Cardinality(C) + Cardinality(D) \in Nat
    BY <1>0, CountsAreNat
  <1>1. ASSUME NEW w \in Workers, NEW x \in Rows, Inserts(w, x)
        PROVE  Cardinality(C) + Cardinality(D)
                 <= Cardinality(A) + Cardinality(B)
    <2>1. /\ \A y \in Rows : y # x => db'[y] = db[y]
          /\ db'[x] = Registered(w) /\ Registered(w).user = job[w].user
      BY <1>1 DEF Inserts, IInv, RowsOk, Registered
    <2>2. /\ pc'[w] = "enqueue" /\ pc[w] = "insert"
          /\ \A v \in Workers \ {w} : pc'[v] = pc[v] /\ job'[v] = job[v]
      BY <1>1 DEF Inserts, IInv, JobsOk
    <2>3. D \subseteq B \ {w}
      BY <2>2 DEF AskingOpen
    <2>4. CASE job[w].user = u
      <3>1. w \in B
        BY <2>2, <2>4 DEF AskingOpen
      <3>2. C \subseteq A \cup {x}
        BY <2>1 DEF OpenOf
      <3> HIDE DEF A, B, C, D
      <3> QED  BY <1>0, <2>3, <3>1, <3>2, OneMoves
    <2>5. CASE job[w].user # u
      <3>1. C \subseteq A
        BY <2>1, <2>5 DEF OpenOf
      <3> HIDE DEF A, B, C, D
      <3> QED  BY <1>0, <2>3, <3>1, BothShrink
    <2> QED  BY <2>4, <2>5
  <1>2. ASSUME NEW w \in Workers, CreateBegin(w)
        PROVE  \/ Cardinality(C) + Cardinality(D)
                    <= Cardinality(A) + Cardinality(B)
               \/ Cardinality(C) + Cardinality(D)
                    <= MAX_OPEN_REQUESTS + Overshoot
    <2>1. C = A
      BY <1>2 DEF CreateBegin, OpenOf
    <2>2. PICK who \in Users, plan \in Plans :
            /\ Cardinality(OpenOf(db, who)) < MAX_OPEN_REQUESTS
            /\ job' = [job EXCEPT ![w] = [NoJob EXCEPT !.user = who,
                                                       !.plan = plan]]
      BY <1>2 DEF CreateBegin
    <2>3. CASE who = u
      <3> HIDE DEF A, B, C, D
      <3>1. Cardinality(A) < MAX_OPEN_REQUESTS /\ MAX_OPEN_REQUESTS \in Nat
        BY <2>2, <2>3 DEF A, QueueConstantsOk
      <3> QED  BY <1>0, <2>1, <3>1, RoomForAll
    <2>4. CASE who # u
      <3>1. /\ job'[w].user = who
            /\ \A v \in Workers \ {w} : pc'[v] = pc[v] /\ job'[v] = job[v]
        BY <1>2, <2>2 DEF CreateBegin, IInv, JobsOk, NoJob
      <3>2. D \subseteq B
        BY <2>4, <3>1 DEF AskingOpen
      <3> HIDE DEF A, B, C, D
      <3> QED  BY <1>0, <2>1, <3>2, BothShrink
    <2> QED  BY <2>3, <2>4
  <1>3. ASSUME NEW w \in Workers, CreateCheckFree(w)
        PROVE  Cardinality(C) + Cardinality(D)
                 <= Cardinality(A) + Cardinality(B)
    <2>1. C = A
      BY <1>3 DEF CreateCheckFree, OpenOf
    <2>2. D \subseteq B
      BY <1>3 DEF CreateCheckFree, Goto, End, AskingOpen, IInv, JobsOk
    <2> HIDE DEF A, B, C, D
    <2> QED  BY <1>0, <2>1, <2>2, BothShrink
  <1>4. ASSUME RowsStay, NobodyAsks
        PROVE  Cardinality(C) + Cardinality(D)
                 <= Cardinality(A) + Cardinality(B)
    <2>1. C \subseteq A
      BY <1>4 DEF OpenOf, RowsStay, RowStays
    <2>2. D \subseteq B
      BY <1>4 DEF NobodyAsks, AskingOpen
    <2> HIDE DEF A, B, C, D
    <2> QED  BY <1>0, <2>1, <2>2, BothShrink
  <1> HIDE DEF A, B, C, D
  <1> QED
    BY <1>0, <1>a, <1>b, <1>1, <1>2, <1>3, <1>4, NextSettles

(* and the bound on the free requests of the last day.                      *)
LEMMA DayStep ==
  ASSUME IsFiniteSet(Workers), IInv, IInv', RowsSettle, [Next]_vars,
         NEW u \in Users,
         DaySum(u) <= MAX_FREE_REQUESTS_PER_DAY + Overshoot
  PROVE  DaySum(u)' <= MAX_FREE_REQUESTS_PER_DAY + Overshoot
  <1> DEFINE A == RecentFreeOf(db, u)
             B == AskingFree(u)
             C == RecentFreeOf(db, u)'
             D == AskingFree(u)'
  <1>0. /\ A \in SUBSET Rows /\ C \in SUBSET Rows
        /\ B \in SUBSET Workers /\ D \in SUBSET Workers
        /\ MAX_FREE_REQUESTS_PER_DAY + Overshoot \in Int
    BY CountsAreNat DEF RecentFreeOf, AskingFree, Overshoot, QueueConstantsOk
  <1>a. /\ DaySum(u) = Cardinality(A) + Cardinality(B)
        /\ DaySum(u)' = Cardinality(C) + Cardinality(D)
    BY DEF DaySum
  <1>b. /\ Cardinality(A) + Cardinality(B) \in Nat
        /\ Cardinality(C) + Cardinality(D) \in Nat
    BY <1>0, CountsAreNat
  <1>1. ASSUME NEW w \in Workers, NEW x \in Rows, Inserts(w, x)
        PROVE  Cardinality(C) + Cardinality(D)
                 <= Cardinality(A) + Cardinality(B)
    <2>1. /\ \A y \in Rows : y # x => db'[y] = db[y]
          /\ db'[x] = Registered(w) /\ now' = now
      BY <1>1 DEF Inserts, IInv, RowsOk
    <2>2. /\ Registered(w).user = job[w].user
          /\ Registered(w).plan = job[w].plan
      BY DEF Registered
    <2>3. /\ pc'[w] = "enqueue" /\ pc[w] = "insert"
          /\ \A v \in Workers \ {w} : pc'[v] = pc[v] /\ job'[v] = job[v]
      BY <1>1 DEF Inserts, IInv, JobsOk
    <2>4. D \subseteq B \ {w}
      BY <2>3 DEF AskingFree
    <2>5. CASE job[w].user = u /\ job[w].plan = "free"
      <3>1. w \in B
        BY <2>3, <2>5 DEF AskingFree
      <3>2. C \subseteq A \cup {x}
        BY <2>1 DEF RecentFreeOf
      <3> HIDE DEF A, B, C, D
      <3> QED  BY <1>0, <2>4, <3>1, <3>2, OneMoves
    <2>6. CASE ~ (job[w].user = u /\ job[w].plan = "free")
      <3>1. C \subseteq A
        BY <2>1, <2>2, <2>6 DEF RecentFreeOf
      <3> HIDE DEF A, B, C, D
      <3> QED  BY <1>0, <2>4, <3>1, BothShrink
    <2> QED  BY <2>5, <2>6
  <1>2. ASSUME NEW w \in Workers, CreateBegin(w)
        PROVE  Cardinality(C) + Cardinality(D)
                 <= Cardinality(A) + Cardinality(B)
    <2>1. C = A
      BY <1>2 DEF CreateBegin, RecentFreeOf
    <2>2. D \subseteq B
      BY <1>2 DEF CreateBegin, AskingFree, NoJob, IInv, JobsOk
    <2> HIDE DEF A, B, C, D
    <2> QED  BY <1>0, <2>1, <2>2, BothShrink
  <1>3. ASSUME NEW w \in Workers, CreateCheckFree(w)
        PROVE  \/ Cardinality(C) + Cardinality(D)
                    <= Cardinality(A) + Cardinality(B)
               \/ Cardinality(C) + Cardinality(D)
                    <= MAX_FREE_REQUESTS_PER_DAY + Overshoot
    <2>1. C = A
      BY <1>3 DEF CreateCheckFree, RecentFreeOf
    <2>2. CASE WithinDay(w) /\ job[w].user = u
      <3>1. /\ Cardinality(A) < MAX_FREE_REQUESTS_PER_DAY
            /\ MAX_FREE_REQUESTS_PER_DAY \in Nat
        BY <2>2 DEF WithinDay, QueueConstantsOk
      <3> HIDE DEF A, B, C, D
      <3> QED  BY <1>0, <2>1, <3>1, RoomForAll
    <2>3. CASE ~ (WithinDay(w) /\ job[w].user = u)
      <3>1. D \subseteq B
        BY <1>3, <2>3 DEF CreateCheckFree, Goto, End, AskingFree, IInv, JobsOk
      <3> HIDE DEF A, B, C, D
      <3> QED  BY <1>0, <2>1, <3>1, BothShrink
    <2> QED  BY <2>2, <2>3
  <1>4. ASSUME RowsStay, NobodyAsks, now <= now'
        PROVE  Cardinality(C) + Cardinality(D)
                 <= Cardinality(A) + Cardinality(B)
    <2>1. /\ Day \in Nat /\ now \in Nat /\ now' \in Nat
          /\ \A x \in Rows : db[x].created \in Nat
      BY DEF IInv, JobsOk, RowsOk, RequestRecord, QueueConstantsOk
    <2>2. C \subseteq A
      BY <1>4, <2>1 DEF RecentFreeOf, RowsStay, RowStays
    <2>3. D \subseteq B
      BY <1>4 DEF NobodyAsks, AskingFree
    <2> HIDE DEF A, B, C, D
    <2> QED  BY <1>0, <2>2, <2>3, BothShrink
  <1> HIDE DEF A, B, C, D
  <1> QED
    BY <1>0, <1>a, <1>b, <1>1, <1>2, <1>3, <1>4, NextSettles

(* Without deletions no row is deleted.                                     *)
NoneDeleted == \A x \in Rows : db[x].status # "deleted"

(* Without deletions, what is registered within a day is all there at its   *)
(* end, so every day is within the bound.                                   *)
LEMMA WithinStep ==
  ASSUME IsFiniteSet(Workers), IInv, IInv', RowsSettle, RowsSettle',
         [Next]_vars, "delete" \notin Events, NoneDeleted,
         NEW u \in Users, NEW t \in 0 .. MaxTime,
         DaySum(u)' <= MAX_FREE_REQUESTS_PER_DAY + Overshoot,
         Cardinality(FreeWithin(u, t)) <= MAX_FREE_REQUESTS_PER_DAY + Overshoot
  PROVE  /\ NoneDeleted'
         /\ Cardinality(FreeWithin(u, t)')
              <= MAX_FREE_REQUESTS_PER_DAY + Overshoot
  <1> DEFINE A == FreeWithin(u, t)
             C == FreeWithin(u, t)'
             R == RecentFreeOf(db, u)'
             D == AskingFree(u)'
  <1>0. /\ A \in SUBSET Rows /\ C \in SUBSET Rows /\ R \in SUBSET Rows
        /\ D \in SUBSET Workers
        /\ MAX_FREE_REQUESTS_PER_DAY + Overshoot \in Int
    BY CountsAreNat DEF FreeWithin, RecentFreeOf, AskingFree, Overshoot,
       QueueConstantsOk
  <1>a. /\ DaySum(u)' = Cardinality(R) + Cardinality(D)
        /\ Cardinality(A) <= MAX_FREE_REQUESTS_PER_DAY + Overshoot
    BY DEF DaySum
  <1>b. /\ IsFiniteSet(A) /\ IsFiniteSet(R)
        /\ Cardinality(A) \in Nat /\ Cardinality(C) \in Nat
        /\ Cardinality(R) \in Nat /\ Cardinality(D) \in Nat
    BY <1>0, CountsAreNat
  <1>1. ASSUME NEW w \in Workers, NEW x \in Rows, Inserts(w, x)
        PROVE  NoneDeleted' /\ (C \subseteq A \/ C \subseteq R)
    <2>1. /\ \A y \in Rows : y # x => db'[y] = db[y]
          /\ db'[x] = Registered(w) /\ now' = now
          /\ Registered(w).created = now /\ Registered(w).status = "SUBMITTED"
      BY <1>1 DEF Inserts, IInv, RowsOk, Registered
    <2>2. NoneDeleted'
      BY <2>1 DEF NoneDeleted
    <2>3. /\ Day \in Nat /\ now \in Nat
          /\ \A y \in Rows : db'[y].created \in Nat /\ db'[y].created <= now
          /\ \A y \in Rows : db'[y].user = u => There(db'[y])
      BY <2>1, <2>2 DEF IInv, JobsOk, RowsOk, RequestRecord, QueueConstantsOk,
         RowsSettle, NoneDeleted, There
    <2>4. CASE now \in t .. t + Day
      <3>1. C \subseteq R
        BY <2>1, <2>3, <2>4 DEF FreeWithin, RecentFreeOf
      <3> QED  BY <2>2, <3>1
    <2>5. CASE now \notin t .. t + Day
      <3>1. C \subseteq A
        BY <2>1, <2>5 DEF FreeWithin
      <3> QED  BY <2>2, <3>1
    <2> QED  BY <2>4, <2>5
  <1>2. ASSUME db' = db
        PROVE  NoneDeleted' /\ C \subseteq A
    BY <1>2 DEF NoneDeleted, FreeWithin
  <1>3. ASSUME RowsStay
        PROVE  NoneDeleted' /\ C \subseteq A
    BY <1>3 DEF NoneDeleted, FreeWithin, RowsStay, RowStays
  <1>4. NoneDeleted' /\ (C \subseteq A \/ C \subseteq R)
    BY <1>1, <1>2, <1>3, NextSettles DEF CreateBegin, CreateCheckFree
  <1> HIDE DEF A, C, R, D
  <1>5. Cardinality(C) <= Cardinality(A) \/ Cardinality(C) <= Cardinality(R)
    BY <1>b, <1>4, FS_Subset
  <1>6. Cardinality(C) <= MAX_FREE_REQUESTS_PER_DAY + Overshoot
    BY <1>0, <1>a, <1>b, <1>5
  <1> QED  BY <1>4, <1>6 DEF C

(* In the beginning there is nothing to count.                              *)
LEMMA InitCounts ==
  ASSUME IsFiniteSet(Workers), Workers # {}, Init
  PROVE  OpenBounded /\ LastDayBounded /\ DaysBounded /\ NoneDeleted
  <1>1. Overshoot \in Nat
    <2>1. Cardinality(Workers) \in Nat /\ Cardinality(Workers) # 0
      BY FS_EmptySet, FS_CardinalityType
    <2> QED  BY <2>1 DEF Overshoot
  <1>2. \A x \in Rows : db[x] = NoRequest
    BY DEF Init
  <1>3. /\ NoRequest.user = None /\ NoRequest.status = "unused"
        /\ None \notin Users
    BY DEF NoRequest, QueueConstantsOk
  <1>4. Cardinality({}) = 0
    BY FS_EmptySet
  <1>5. ASSUME NEW u \in Users
        PROVE  /\ OpenOf(db, u) = {} /\ RecentFreeOf(db, u) = {}
               /\ AskingOpen(u) = {} /\ AskingFree(u) = {}
               /\ \A t \in 0 .. MaxTime : FreeWithin(u, t) = {}
    BY <1>2, <1>3 DEF OpenOf, RecentFreeOf, AskingOpen, AskingFree, FreeWithin,
       Init
  <1>6. NoneDeleted
    BY <1>2, <1>3 DEF NoneDeleted
  <1>7. OpenBounded
    BY <1>1, <1>4, <1>5 DEF OpenBounded, OpenSum, QueueConstantsOk
  <1>8. LastDayBounded /\ DaysBounded
    <2>1. ASSUME NEW u \in Users
          PROVE  DaySum(u) <= MAX_FREE_REQUESTS_PER_DAY + Overshoot
      BY <1>1, <1>4, <1>5 DEF DaySum, QueueConstantsOk
    <2>2. ASSUME NEW u \in Users, NEW t \in 0 .. MaxTime
          PROVE  Cardinality(FreeWithin(u, t))
                   <= MAX_FREE_REQUESTS_PER_DAY + Overshoot
      BY <1>1, <1>4, <1>5 DEF QueueConstantsOk
    <2> QED  BY <2>1, <2>2 DEF LastDayBounded, DaysBounded
  <1> QED  BY <1>6, <1>7, <1>8

(* What holds of the counts in every reachable state.                       *)
Counted == OpenBounded /\ LastDayBounded
           /\ ("delete" \notin Events => NoneDeleted /\ DaysBounded)

(* Every step keeps the counts bounded.                                     *)
LEMMA NextCounts ==
  ASSUME IsFiniteSet(Workers), IInv, IInv', RowsSettle, RowsSettle', Counted,
         [Next]_vars
  PROVE  Counted'
  <1>1. OpenBounded'
    BY OpenStep DEF Counted, OpenBounded
  <1>2. LastDayBounded'
    BY DayStep DEF Counted, LastDayBounded
  <1>3. "delete" \notin Events => DaysBounded'
    BY <1>2, WithinStep DEF Counted, LastDayBounded, DaysBounded
  <1>4. "delete" \notin Events => NoneDeleted'
    <2>1. ASSUME NEW w \in Workers, NEW x \in Rows, Inserts(w, x), NoneDeleted
          PROVE  NoneDeleted'
      BY <2>1 DEF Inserts, Registered, NoneDeleted, IInv, RowsOk
    <2> QED
      BY <2>1, NextSettles DEF Counted, NoneDeleted, RowsStay, RowStays,
         CreateBegin, CreateCheckFree
  <1> QED  BY <1>1, <1>2, <1>3, <1>4 DEF Counted

(* The rows settle in every behaviour,                                      *)
LEMMA RowsSettled == Spec => [](IInv /\ RowsSettle)
  <1>1. IInv /\ RowsSettle /\ [Next]_vars => (IInv /\ RowsSettle)'
    BY NextIInv, NextSettles
  <1> QED  BY InitIInv, InitSettled, <1>1, PTL DEF Spec

(* and the counts stay bounded.                                             *)
LEMMA Bounded ==
  ASSUME IsFiniteSet(Workers), Workers # {}
  PROVE  Spec => []Counted
  <1>1. Init => Counted
    BY InitCounts DEF Counted
  <1>2. IInv /\ RowsSettle /\ (IInv /\ RowsSettle)' /\ Counted /\ [Next]_vars
          => Counted'
    BY NextCounts
  <1> QED  BY <1>1, <1>2, RowsSettled, PTL DEF Spec

(* However creations overlap, nobody has more open requests than the limit  *)
(* and one for every worker but one: each of the others may have counted    *)
(* before the insert of the first (serializers.py:70-97).                   *)
THEOREM OpenOvershoot ==
  ASSUME IsFiniteSet(Workers), Workers # {}
  PROVE  Spec => [](\A u \in Users :
                      Cardinality(OpenOf(db, u))
                        <= MAX_OPEN_REQUESTS + Cardinality(Workers) - 1)
  <1>1. ASSUME OpenBounded, IInv, NEW u \in Users
        PROVE  Cardinality(OpenOf(db, u))
                 <= MAX_OPEN_REQUESTS + Cardinality(Workers) - 1
    <2>1. /\ Cardinality(OpenOf(db, u)) \in Nat
          /\ Cardinality(AskingOpen(u)) \in Nat
          /\ Cardinality(Workers) \in Nat /\ MAX_OPEN_REQUESTS \in Nat
      BY CountsAreNat DEF OpenOf, AskingOpen, QueueConstantsOk
    <2> QED  BY <1>1, <2>1 DEF OpenBounded, OpenSum, Overshoot
  <1>2. Counted /\ IInv /\ RowsSettle =>
          \A u \in Users : Cardinality(OpenOf(db, u))
                             <= MAX_OPEN_REQUESTS + Cardinality(Workers) - 1
    BY <1>1 DEF Counted
  <1> QED  BY <1>2, Bounded, RowsSettled, PTL

(* The daily limit is exceeded by no more, in the last 24 hours of any      *)
(* moment: what has been deleted meanwhile is not counted, as in the check. *)
THEOREM DailyOvershoot ==
  ASSUME IsFiniteSet(Workers), Workers # {}
  PROVE  Spec => [](\A u \in Users :
                      Cardinality(RecentFreeOf(db, u))
                        <= MAX_FREE_REQUESTS_PER_DAY + Cardinality(Workers) - 1)
  <1>1. ASSUME LastDayBounded, IInv, NEW u \in Users
        PROVE  Cardinality(RecentFreeOf(db, u))
                 <= MAX_FREE_REQUESTS_PER_DAY + Cardinality(Workers) - 1
    <2>1. /\ Cardinality(RecentFreeOf(db, u)) \in Nat
          /\ Cardinality(AskingFree(u)) \in Nat
          /\ Cardinality(Workers) \in Nat /\ MAX_FREE_REQUESTS_PER_DAY \in Nat
      BY CountsAreNat DEF RecentFreeOf, AskingFree, QueueConstantsOk
    <2> QED  BY <1>1, <2>1 DEF LastDayBounded, DaySum, Overshoot
  <1>2. Counted /\ IInv /\ RowsSettle =>
          \A u \in Users : Cardinality(RecentFreeOf(db, u))
                      <= MAX_FREE_REQUESTS_PER_DAY + Cardinality(Workers) - 1
    BY <1>1 DEF Counted
  <1> QED  BY <1>2, Bounded, RowsSettled, PTL

(* When handlers do not overlap, that is when one worker runs them all, the *)
(* open limit is kept exactly,                                              *)
THEOREM OpenLimitSerial ==
  ASSUME NEW v, Workers = {v}
  PROVE  Spec => []OpenLimit
  <1>1. IsFiniteSet(Workers) /\ Workers # {} /\ Cardinality(Workers) = 1
    BY FS_Singleton
  <1>2. (\A u \in Users : Cardinality(OpenOf(db, u))
                            <= MAX_OPEN_REQUESTS + Cardinality(Workers) - 1)
          => OpenLimit
    BY <1>1 DEF OpenLimit, QueueConstantsOk
  <1> QED  BY <1>1, <1>2, OpenOvershoot, PTL

(* and so is the daily limit, in every window of 24 hours, if no request is *)
(* deleted: a deletion gives its place in the day back.                     *)
THEOREM DailyLimitSerial ==
  ASSUME NEW v, Workers = {v}, "delete" \notin Events
  PROVE  Spec => []DailyLimit
  <1>1. IsFiniteSet(Workers) /\ Workers # {} /\ Cardinality(Workers) = 1
    BY FS_Singleton
  <1>2. Counted => DailyLimit
    <2> SUFFICES ASSUME Counted, NEW u \in Users, NEW t \in 0 .. MaxTime
                 PROVE  Cardinality(FreeWithin(u, t))
                          <= MAX_FREE_REQUESTS_PER_DAY
      BY DEF DailyLimit, FreeWithin
    <2> QED  BY <1>1 DEF Counted, DaysBounded, Overshoot, QueueConstantsOk
  <1> QED  BY <1>1, <1>2, Bounded, PTL

----------------------------------------------------------------------------
(* The place in the free queue.                                             *)

Newest(x) == \A y \in Rows : y > x => db[y].status = "unused"

(* A request that is about to enter the free queue, by an uncommitted write *)
(* or by the enqueueing to come, is the last one registered.                *)
LastIsSaved ==
  \A x \in Rows : (/\ work[x].status = "QUEUED_FREE"
                   /\ db[x].status # "QUEUED_FREE") => Newest(x)

LastIsEnqueued ==
  \A w \in Workers : pc[w] = "enqueue" => Newest(job[w].request)

(* A step lets no request into the free queue ahead of another.             *)
NobodyPasses ==
  \A x \in Rows : (/\ db'[x].status = "QUEUED_FREE"
                   /\ db[x].status # "QUEUED_FREE") => Newest(x)

(* A commit brings in what was saved.                                       *)
LEMMA CommitPasses ==
  ASSUME RowsStay, LastIsSaved, NEW w \in Workers, NEW S \in SUBSET Rows,
         NEW change, DOMAIN change = S,
         \A x \in S : change[x].status = "QUEUED_FREE"
                        => work[x].status = "QUEUED_FREE",
         Commit(w, change)
  PROVE  LastIsSaved' /\ NobodyPasses
  <1>1. \A x \in Rows : work'[x] = IF x \in S THEN change[x] ELSE work[x]
    BY DEF Commit, Overlay
  <1>2. \A x \in Rows : db'[x] = IF x \in S THEN change[x]
                                ELSE IF owner[x] = w THEN work[x] ELSE db[x]
    BY DEF Commit, Overlay
  <1>3. \A x \in Rows : Newest(x) => Newest(x)'
    BY DEF Newest, RowsStay, RowStays
  <1> QED  BY <1>1, <1>2, <1>3 DEF LastIsSaved, NobodyPasses

(* The one worker ends a transaction.                                       *)
LEMMA CommittingPasses ==
  ASSUME IInv, RowsSettle, LastIsSaved, NEW w \in Workers,
         TransitionCommit(w) \/ RetrieveSave(w) \/ Delete(w)
  PROVE  LastIsSaved' /\ NobodyPasses
  <1>0. /\ RowsStay
        /\ \A x \in Rows : work[x] \in RequestRecord
    BY CommittingSettles DEF IInv, RowsOk
  <1>1. CASE TransitionCommit(w)
    <2>1. DOMAIN NoWrites = {} /\ {} \in SUBSET Rows
      BY DEF NoWrites
    <2> QED  BY <1>0, <1>1, <2>1, CommitPasses DEF TransitionCommit
  <1>2. CASE RetrieveSave(w)
    <2> DEFINE x == job[w].request
               S == {y \in {x} : There(work[y])}
               change == [y \in S |-> [work[y] EXCEPT !.hint = job[w].position]]
    <2>1. x \in Rows
      BY <1>2 DEF RetrieveSave, IInv, JobsOk, JobOk
    <2>2. \A y \in S : change[y].status = work[y].status
      BY <1>0, <2>1 DEF RequestRecord
    <2>3. Commit(w, change)
      BY <1>2 DEF RetrieveSave
    <2>4. DOMAIN change = S /\ S \in SUBSET Rows
      BY <2>1
    <2> HIDE DEF S, change
    <2> QED  BY <1>0, <2>2, <2>3, <2>4, CommitPasses
  <1>3. CASE Delete(w)
    <2>1. PICK x \in Rows :
            Commit(w, Put(x, [work[x] EXCEPT !.status = "deleted"]))
      BY <1>3 DEF Delete
    <2> DEFINE gone == [work[x] EXCEPT !.status = "deleted"]
    <2>2. gone.status = "deleted"
      BY <1>0 DEF RequestRecord
    <2>3. Commit(w, Put(x, gone))
      BY <2>1
    <2> HIDE DEF gone
    <2>4. DOMAIN Put(x, gone) = {x} /\ Put(x, gone)[x] = gone
      BY DEF Put
    <2> QED  BY <1>0, <2>2, <2>3, <2>4, CommitPasses, {x} \in SUBSET Rows
  <1> QED  BY <1>1, <1>2, <1>3

(* The one worker saves a transition: only the enqueueing moves a request   *)
(* into the free queue.                                                     *)
LEMMA SavingPasses ==
  ASSUME IInv, LastIsSaved, LastIsEnqueued, NEW w \in Workers,
         Enqueue(w) \/ Move(w)
  PROVE  LastIsSaved' /\ NobodyPasses
  <1>1. PICK x \in Rows, target \in Statuses :
          /\ TransitionSave(w, x, target)
          /\ target = "QUEUED_FREE" => Newest(x)
    <2>1. CASE Enqueue(w)
      BY <2>1 DEF Enqueue, IInv, JobsOk, JobOk, FirstQueue, Statuses,
         LastIsEnqueued
    <2>2. CASE Move(w)
      BY <2>2 DEF Move, StaffTargets, Statuses
    <2> QED  BY <2>1, <2>2
  <1>2. MovedTo(w, x, target).status = target
    BY <1>1, SeenOk DEF IInv, MovedTo, RequestRecord
  <1>3. /\ db' = db
        /\ \A y \in Rows : work'[y] = IF y = x THEN MovedTo(w, x, target)
                                               ELSE work[y]
    BY <1>1 DEF TransitionSave, Write, Put, Overlay
  <1> QED  BY <1>1, <1>2, <1>3 DEF LastIsSaved, Newest, NobodyPasses

(* Every step of one worker keeps the order of the queue.                   *)
LEMMA NextPasses ==
  ASSUME IInv, RowsSettle, LastIsSaved, LastIsEnqueued, [Next]_vars,
         NEW w \in Workers, Workers = {w}
  PROVE  LastIsSaved' /\ LastIsEnqueued' /\ NobodyPasses
  <1>1. CASE CreateInsert(w)
    <2>1. PICK x \in Rows : Inserts(w, x)
      BY <1>1, InsertSettles
    <2>2. /\ \A y \in Rows : y # x => db'[y] = db[y]
          /\ db'[x].status = "SUBMITTED" /\ job'[w].request = x
          /\ db[x].status = "unused"
      BY <2>1 DEF Inserts, IInv, RowsOk, JobsOk, Jobs, Registered, NextRequest
    <2>3. \A y \in Rows : work[y] = db[y]
      BY <2>1 DEF Inserts, RowsSettle, IInv, RowsOk
    <2>4. \A y \in Rows : work'[y] = db'[y]
      BY <1>1, <2>3 DEF CreateInsert, Commit, Overlay
    <2>5. LastIsSaved'
      BY <2>4 DEF LastIsSaved
    <2>6. Newest(x)'
      BY <2>2 DEF Newest, RowsSettle, Rows
    <2> QED  BY <2>2, <2>5, <2>6 DEF LastIsEnqueued, NobodyPasses
  <1>2. CASE \/ CreateBegin(w) \/ CreateCheckFree(w) \/ EnqueueRefused(w)
             \/ RetrieveCount(w) \/ \E x \in Rows : RetrieveBegin(w, x)
    <2>1. UNCHANGED <<db, work>> /\ pc'[w] # "enqueue"
      BY <1>2 DEF CreateBegin, CreateCheckFree, EnqueueRefused, RetrieveCount,
         RetrieveBegin, Goto, End, IInv, JobsOk
    <2> QED
      BY <2>1 DEF LastIsSaved, LastIsEnqueued, NobodyPasses, Newest
  <1>3. CASE Enqueue(w) \/ Move(w)
    <2>1. pc'[w] # "enqueue"
      BY <1>3 DEF Enqueue, Move, Goto, IInv, JobsOk
    <2> QED  BY <1>3, <2>1, SavingPasses DEF LastIsEnqueued
  <1>4. CASE TransitionCommit(w) \/ RetrieveSave(w) \/ Delete(w)
    <2>1. pc'[w] # "enqueue"
      BY <1>4, CommittingSettles DEF End, IInv, JobsOk
    <2> QED  BY <1>4, <2>1, CommittingPasses DEF LastIsEnqueued
  <1>5. CASE Crash(w)
    <2>1. pc'[w] # "enqueue"
      BY <1>5 DEF Crash, End, IInv, JobsOk
    <2> QED
      BY <1>5, <2>1 DEF Crash, Rollback, LastIsSaved, LastIsEnqueued,
         NobodyPasses, Newest
  <1>6. CASE Tick \/ UNCHANGED vars
    BY <1>6 DEF Tick, vars, LastIsSaved, LastIsEnqueued, NobodyPasses, Newest
  <1> QED  BY <1>1, <1>2, <1>3, <1>4, <1>5, <1>6 DEF Next, Statement

(* A place gets no worse by a step in which nobody passes.                  *)
LEMMA PlaceImproves ==
  ASSUME IInv, RowsSettle, [Next]_vars, NobodyPasses, NEW x \in Rows,
         db[x].status = "QUEUED_FREE", db'[x].status = "QUEUED_FREE"
  PROVE  CalcPosition(db', x, db'[x]) <= CalcPosition(db, x, db[x])
  <1> DEFINE Ahead(table, plan) ==
               {y \in Rows : /\ table[y].status = QueueOf(plan)
                             /\ table[y].plan = plan
                             /\ y < x}
             plan == db[x].plan
             A == Ahead(db, plan)
             C == Ahead(db', plan)
  <1>1. \A y \in Rows : db[y].status # "unused" => db'[y].plan = db[y].plan
    <2>1. ASSUME NEW w \in Workers, NEW z \in Rows, Inserts(w, z)
          PROVE  \A y \in Rows : db[y].status # "unused"
                                   => db'[y].plan = db[y].plan
      BY <2>1 DEF Inserts, NextRequest, IInv, RowsOk
    <2> QED
      BY <2>1, NextSettles DEF RowsStay, RowStays, CreateBegin, CreateCheckFree
  <1>2. db'[x].plan = plan /\ plan = "free"
    BY <1>1 DEF IInv, RowsOk, Fits
  <1>3. C \subseteq A
    <2> SUFFICES ASSUME NEW y \in Rows, db'[y].status = "QUEUED_FREE",
                        db'[y].plan = "free", y < x
                 PROVE  y \in A
      BY <1>2 DEF QueueOf
    <2>1. db[y].status = "QUEUED_FREE"
      BY DEF NobodyPasses, Newest, Rows
    <2> QED  BY <1>1, <1>2, <2>1 DEF QueueOf
  <1>4. /\ CalcPosition(db', x, db'[x]) = Cardinality(C)
        /\ CalcPosition(db, x, db[x]) = Cardinality(A)
    BY <1>2 DEF CalcPosition, QUEUED_STATUSES
  <1>5. IsFiniteSet(A)
    BY FS_Interval, FS_Subset DEF Rows, QueueConstantsOk
  <1> HIDE DEF A, C
  <1> QED  BY <1>3, <1>4, <1>5, FS_Subset

(* When handlers do not overlap, a request in the free queue only moves     *)
(* forward: requests enter the queue in the order of their registration,    *)
(* which is the order of the places (services.py:56-68).                    *)
THEOREM PlaceOnlyImprovesSerial ==
  ASSUME NEW v, Workers = {v}
  PROVE  Spec => PlaceOnlyImproves
  <1>1. Init => LastIsSaved /\ LastIsEnqueued
    BY DEF Init, LastIsSaved, LastIsEnqueued
  <1>2. IInv /\ RowsSettle /\ LastIsSaved /\ LastIsEnqueued /\ [Next]_vars
          => (LastIsSaved /\ LastIsEnqueued)'
    BY NextPasses
  <1>3. Spec => [](LastIsSaved /\ LastIsEnqueued)
    BY <1>1, <1>2, RowsSettled, PTL DEF Spec
  <1>4. IInv /\ RowsSettle /\ LastIsSaved /\ LastIsEnqueued /\ [Next]_vars
          => [\A x \in Rows :
               (db[x].status = "QUEUED_FREE" /\ db'[x].status = "QUEUED_FREE")
                 => CalcPosition(db', x, db'[x])
                      <= CalcPosition(db, x, db[x])]_vars
    BY NextPasses, PlaceImproves
  <1> QED  BY <1>3, <1>4, RowsSettled, PTL DEF Spec, PlaceOnlyImproves
====
