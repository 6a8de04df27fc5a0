---- MODULE RefundsProofs ----
(* What refunds keep, for any number of workers, payments and refunds.      *)
EXTENDS Refunds, FiniteSetTheorems, TLAPS

USE RefundConstantsOk

----------------------------------------------------------------------------
(* The inductive invariant.                                                 *)

Open == {"call", "settle", "commit"}

IdsOk ==
  /\ Committed \subseteq 1 .. created /\ moved \subseteq 1 .. created
  /\ \A w \in Workers : pc[w] \in Open =>
       /\ job[w].id \in 1 .. created /\ job[w].id \notin Committed
       /\ job[w].id \notin lost
       /\ \A v \in Workers \ {w} : pc[v] \in Open => job[v].id # job[w].id
  /\ \A w \in Workers : pc[w] \in {"idle", "decide"} => job[w].id = 0

(* What the handler has in hand.                                            *)
RowInHand(w) ==
  /\ pc[w] # "idle" => job[w].row \in RefundRecord
  /\ pc[w] = "call" => job[w].id \notin moved
  /\ pc[w] \in {"decide", "call", "settle"} => job[w].row.status = "requested"
  /\ pc[w] \in {"call", "settle"} => job[w].logged = {"requested"}
  /\ pc[w] \in {"settle", "commit"} =>
       /\ job[w].answer \in {"succeeded", "failed", "unsupported"}
       /\ job[w].answer = "succeeded" <=> job[w].id \in moved
  /\ pc[w] = "commit" =>
       /\ job[w].row.status = Outcome(job[w].answer)
       /\ job[w].logged = {"requested"} \cup OutcomeEvents(job[w].answer)

(* consumed_at, as the handler read it and as it is.                        *)
ConsumedInHand(w) ==
  pc[w] # "idle" =>
    /\ job[w].consumed => job[w].row.payment \in consumed
    /\ job[w].row.known \subseteq Committed
    /\ ~ job[w].consumed =>
         \A k \in job[w].row.known :
           refunds[k].payment = job[w].row.payment => refunds[k].mode = "full"
    /\ pc[w] \in Open => (job[w].row.mode = "full" <=> ~ job[w].consumed)

PartialsConsumed ==
  \A r \in Committed :
    /\ refunds[r].mode = "partial" => refunds[r].payment \in consumed
    /\ refunds[r].known \subseteq Committed

LostOk == lost \cap Committed = {}

IInv ==
  /\ TypeOK /\ IdsOk /\ PartialsConsumed /\ MovedIsRecorded /\ LostOk
  /\ \A w \in Workers : RowInHand(w) /\ ConsumedInHand(w)
  /\ RecordedIsMoved /\ FullNeverAfterPartial /\ LogTellsRefunds

----------------------------------------------------------------------------

(* A refund with an identifier is a row, and typed.                         *)
LEMMA Rows ==
  ASSUME TypeOK, NEW r \in Committed
  PROVE  refunds[r] \in RefundRecord /\ r \in RefundId
  BY DEF TypeOK, Committed

(* None is not a refund.                                                    *)
LEMMA NoneApart == None \notin RefundRecord
  BY DEF None, RefundRecord, Statuses

(* A step that leaves the table and its events alone.                       *)
LEMMA SameTable ==
  ASSUME IInv, UNCHANGED <<refunds, log>>, moved \subseteq moved',
         consumed \subseteq consumed'
  PROVE  /\ Committed' = Committed
         /\ PartialsConsumed' /\ RecordedIsMoved' /\ FullNeverAfterPartial'
         /\ LogTellsRefunds'
  <1>1. Committed' = Committed
    BY DEF Committed
  <1>2. \A p \in Payments, S \in SUBSET Statuses : Count(p, S)' = Count(p, S)
    BY <1>1 DEF Count
  <1>3. LogTellsRefunds'
    BY <1>2 DEF IInv, LogTellsRefunds, Statuses
  <1> QED
    BY <1>1, <1>3 DEF IInv, PartialsConsumed, RecordedIsMoved, FullNeverAfterPartial

(* A handler reads the payment.                                             *)
LEMMA ReadOk ==
  ASSUME IInv, NEW w \in Workers, Read(w)
  PROVE  IInv'
  <1>1. PICK p \in Payments, mode \in Modes, amount \in Asked \ {0} :
          job' = [job EXCEPT ![w] = Asking(p, mode, amount)]
    BY DEF Read
  <1> DEFINE row == [payment |-> p, mode |-> mode,
                     amount |-> IF mode = "full" THEN Price ELSE amount,
                     status |-> "requested", known |-> Committed]
             args == Asking(p, mode, amount)
  <1>2. /\ pc[w] = "idle" /\ pc' = [pc EXCEPT ![w] = "decide"]
        /\ job' = [job EXCEPT ![w] = args]
        /\ consumed' = consumed /\ refunds' = refunds /\ created' = created
        /\ log' = log /\ moved' = moved /\ lost' = lost
    BY <1>1 DEF Read, Goto
  <1>3. row \in RefundRecord /\ row.payment = p /\ row.known = Committed
    BY DEF RefundRecord, Statuses, Committed
  <1>4. /\ args.id = 0 /\ args.row = row /\ args.logged = {} /\ args.answer = "none"
        /\ args.consumed <=> p \in consumed
    BY DEF Asking
  <1>5. args \in Jobs
    <2>1. (p \in consumed) \in BOOLEAN
      OBVIOUS
    <2>2. args = [id |-> 0, consumed |-> (p \in consumed), answer |-> "none",
                  logged |-> {}, row |-> row]
      BY DEF Asking
    <2> HIDE DEF args, row
    <2> QED  BY <1>3, <2>1, <2>2 DEF Jobs
  <1> HIDE DEF row, args
  <1>6. /\ job' \in [Workers -> Jobs] /\ pc' \in [Workers -> Steps]
        /\ job'[w] = args /\ pc'[w] = "decide"
        /\ \A v \in Workers \ {w} : job'[v] = job[v] /\ pc'[v] = pc[v]
    BY <1>2, <1>5 DEF IInv, TypeOK, Steps
  <1>7. TypeOK'
    BY <1>2, <1>6 DEF IInv, TypeOK
  <1>8. /\ Committed' = Committed
        /\ PartialsConsumed' /\ RecordedIsMoved' /\ FullNeverAfterPartial'
        /\ LogTellsRefunds'
    BY <1>2, SameTable
  <1>9. IdsOk'
    BY <1>2, <1>4, <1>6, <1>8 DEF IInv, IdsOk, Open
  <1>10. MovedIsRecorded' /\ LostOk'
    BY <1>2, <1>6, <1>8 DEF IInv, MovedIsRecorded, LostOk
  <1>11. ASSUME NEW v \in Workers PROVE RowInHand(v)'
    <2>1. CASE v = w
      <3>1. row.status = "requested"
        BY DEF row
      <3> QED  BY <1>2, <1>3, <1>4, <1>6, <2>1, <3>1 DEF RowInHand
    <2>2. CASE v # w
      BY <1>2, <1>6, <2>2 DEF IInv, RowInHand
    <2> QED  BY <2>1, <2>2
  <1>12. ASSUME NEW v \in Workers PROVE ConsumedInHand(v)'
    <2>1. CASE v = w
      <3>1. ~ args.consumed =>
              \A k \in row.known : refunds[k].payment = p => refunds[k].mode = "full"
        BY <1>3, <1>4, Rows DEF IInv, PartialsConsumed, RefundRecord, Modes
      <3> QED
        BY <1>2, <1>3, <1>4, <1>6, <1>8, <2>1, <3>1 DEF ConsumedInHand, Open
    <2>2. CASE v # w
      BY <1>2, <1>6, <1>8, <2>2 DEF IInv, ConsumedInHand
    <2> QED  BY <2>1, <2>2
  <1> QED  BY <1>7, <1>8, <1>9, <1>10, <1>11, <1>12 DEF IInv

(* The refund is created.                                                   *)
LEMMA RequestOk ==
  ASSUME IInv, NEW w \in Workers, Request(w)
  PROVE  IInv'
  <1> DEFINE new == created + 1
             args == [job[w] EXCEPT !.id = new, !.logged = {"requested"}]
  <1>1. /\ pc[w] = "decide" /\ Allowed(w) /\ created < MaxRefunds /\ created' = new
        /\ pc' = [pc EXCEPT ![w] = "call"] /\ job' = [job EXCEPT ![w] = args]
        /\ consumed' = consumed /\ refunds' = refunds
        /\ log' = log /\ moved' = moved /\ lost' = lost
    <2>1. [job EXCEPT ![w].id = new, ![w].logged = {"requested"}]
            = [job EXCEPT ![w] = args]
      BY DEF IInv, TypeOK, Jobs
    <2> QED  BY <2>1 DEF Request, Goto
  <1>2. created \in Nat /\ new \in RefundId /\ new # 0 /\ new > created
    BY <1>1 DEF IInv, TypeOK, RefundId
  <1>3. /\ args \in Jobs /\ args.id = new /\ args.logged = {"requested"}
        /\ args.row = job[w].row /\ args.consumed = job[w].consumed
    <2>1. job[w] \in Jobs
      BY DEF IInv, TypeOK
    <2>2. new \in RefundId \cup {0} /\ {"requested"} \subseteq Kinds
      BY <1>2 DEF Kinds
    <2> HIDE DEF new
    <2> QED  BY <2>1, <2>2 DEF Jobs
  <1> HIDE DEF args
  <1>4. /\ job' \in [Workers -> Jobs] /\ pc' \in [Workers -> Steps]
        /\ job'[w] = args /\ pc'[w] = "call"
        /\ \A v \in Workers \ {w} : job'[v] = job[v] /\ pc'[v] = pc[v]
    BY <1>1, <1>3 DEF IInv, TypeOK, Steps
  <1>5. TypeOK'
    BY <1>1, <1>2, <1>4 DEF IInv, TypeOK, RefundId
  <1>6. /\ Committed' = Committed
        /\ PartialsConsumed' /\ RecordedIsMoved' /\ FullNeverAfterPartial'
        /\ LogTellsRefunds'
    BY <1>1, SameTable
  <1>7. new \notin Committed /\ new \notin moved /\ new \notin lost
    BY <1>2 DEF IInv, IdsOk, TypeOK
  <1>8. IdsOk'
    <2>1. Committed' \subseteq 1 .. created' /\ moved' \subseteq 1 .. created'
      BY <1>1, <1>2, <1>6 DEF IInv, IdsOk
    <2>2. ASSUME NEW v \in Workers, pc'[v] \in Open
          PROVE  /\ job'[v].id \in 1 .. created' /\ job'[v].id \notin Committed'
                 /\ job'[v].id \notin lost'
                 /\ v # w => job'[v].id # new
      BY <1>1, <1>2, <1>3, <1>4, <1>6, <1>7, <2>2 DEF IInv, IdsOk
    <2>3. ASSUME NEW v \in Workers, pc'[v] \in Open,
                 NEW u \in Workers \ {v}, pc'[u] \in Open
          PROVE  job'[u].id # job'[v].id
      BY <1>3, <1>4, <2>2, <2>3 DEF IInv, IdsOk
    <2>4. \A v \in Workers : pc'[v] \in {"idle", "decide"} => job'[v].id = 0
      BY <1>4 DEF IInv, IdsOk
    <2> QED  BY <2>1, <2>2, <2>3, <2>4 DEF IdsOk
  <1>9. MovedIsRecorded' /\ LostOk'
    BY <1>1, <1>4, <1>6 DEF IInv, MovedIsRecorded, LostOk
  <1>10. ASSUME NEW v \in Workers PROVE RowInHand(v)'
    <2>1. CASE v = w
      <3>1. job[w].row \in RefundRecord
        BY <1>1 DEF IInv, RowInHand
      <3>2. job[w].row.status = "requested"
        BY <1>1 DEF IInv, RowInHand
      <3> QED  BY <1>1, <1>3, <1>4, <1>7, <2>1, <3>1, <3>2 DEF RowInHand
    <2>2. CASE v # w
      BY <1>1, <1>4, <2>2 DEF IInv, RowInHand
    <2> QED  BY <2>1, <2>2
  <1>11. ASSUME NEW v \in Workers PROVE ConsumedInHand(v)'
    <2>1. CASE v = w
      <3>1. job[w].row.mode = "full" <=> ~ job[w].consumed
        BY <1>1 DEF Allowed, IInv, RowInHand, RefundRecord, Modes
      <3> QED
        BY <1>1, <1>3, <1>4, <1>6, <2>1, <3>1 DEF IInv, ConsumedInHand, Open
    <2>2. CASE v # w
      BY <1>1, <1>4, <1>6, <2>2 DEF IInv, ConsumedInHand
    <2> QED  BY <2>1, <2>2
  <1> QED  BY <1>5, <1>6, <1>8, <1>9, <1>10, <1>11 DEF IInv

(* The handler ends without a commit; what it moved is lost.                *)
LEMMA BreakOff ==
  ASSUME IInv, NEW w \in Workers, End(w), pc[w] # "idle",
         UNCHANGED <<consumed, refunds, created, log>>,
         NEW id, id = job[w].id,
         moved \subseteq moved', moved' \subseteq moved \cup {id},
         lost \subseteq lost', lost' \subseteq lost \cup {id}, lost' \subseteq moved',
         id \in moved' => id \in lost',
         (moved' # moved \/ lost' # lost) => pc[w] \in Open
  PROVE  IInv'
  <1>1. /\ NoJob \in Jobs /\ NoJob.id = 0
    BY DEF NoJob, Jobs
  <1>2. /\ job' \in [Workers -> Jobs] /\ pc' \in [Workers -> Steps]
        /\ pc'[w] = "idle" /\ job'[w].id = 0
        /\ \A v \in Workers \ {w} : job'[v] = job[v] /\ pc'[v] = pc[v]
    BY <1>1 DEF IInv, TypeOK, End, Goto, Steps
  <1>3. /\ Committed' = Committed
        /\ PartialsConsumed' /\ RecordedIsMoved' /\ FullNeverAfterPartial'
        /\ LogTellsRefunds'
    BY SameTable
  <1>4. pc[w] \in Open => id \in 1 .. created /\ id \notin Committed
    BY DEF IInv, IdsOk
  <1>5. /\ moved' \subseteq 1 .. created /\ moved' \subseteq RefundId
        /\ lost' \cap Committed = {}
    BY <1>4 DEF IInv, IdsOk, LostOk, TypeOK, RefundId
  <1>6. TypeOK'
    BY <1>2, <1>5 DEF IInv, TypeOK
  <1>7. ASSUME NEW v \in Workers \ {w}, pc[v] \in Open
        PROVE  /\ job[v].id \in moved' <=> job[v].id \in moved
               /\ job[v].id \notin lost'
    <2>1. pc[w] \in Open => job[v].id # id
      BY <1>7 DEF IInv, IdsOk
    <2> QED  BY <1>7, <2>1 DEF IInv, IdsOk
  <1>8. IdsOk'
    BY <1>2, <1>3, <1>5, <1>7 DEF IInv, IdsOk, Open
  <1>9. LostOk'
    BY <1>3, <1>5 DEF LostOk
  <1>10. MovedIsRecorded'
    <2> SUFFICES ASSUME NEW r \in moved' \ lost'
                 PROVE  \/ r \in Committed /\ refunds[r].status = "succeeded"
                        \/ \E v \in Workers : /\ pc'[v] \in {"settle", "commit"}
                                              /\ job'[v].id = r
      BY <1>3 DEF MovedIsRecorded
    <2>1. r \in moved \ lost /\ r # id
      OBVIOUS
    <2> QED  BY <1>2, <2>1 DEF IInv, MovedIsRecorded
  <1>11. ASSUME NEW v \in Workers PROVE RowInHand(v)' /\ ConsumedInHand(v)'
    <2>1. CASE v = w
      BY <1>2, <2>1 DEF RowInHand, ConsumedInHand
    <2>2. CASE v # w
      <3>1. RowInHand(v) /\ ConsumedInHand(v)
        BY DEF IInv
      <3>2. RowInHand(v)'
        BY <1>2, <1>7, <2>2, <3>1 DEF RowInHand, Open
      <3>3. ConsumedInHand(v)'
        BY <1>2, <1>3, <2>2, <3>1 DEF ConsumedInHand
      <3> QED  BY <3>2, <3>3
    <2> QED  BY <2>1, <2>2
  <1> QED  BY <1>3, <1>6, <1>8, <1>9, <1>10, <1>11 DEF IInv

(* A handler that ends without a commit.                                    *)
LEMMA EndingOk ==
  ASSUME IInv, NEW w \in Workers,
         Refuse(w) \/ CallRaises(w) \/ SettleRaises(w) \/ Crash(w)
  PROVE  IInv'
  <1>1. IdsOk /\ TypeOK /\ (pc[w] \in Open \/ pc[w] = "decide" \/ pc[w] = "idle")
    BY DEF IInv, TypeOK, Steps, Open
  <1>2. pc[w] = "decide" => job[w].id \notin moved
    BY <1>1 DEF IdsOk, TypeOK
  <1>3. CASE Refuse(w)
    BY <1>2, <1>3, BreakOff DEF Refuse, IInv, TypeOK
  <1>4. CASE CallRaises(w)
    <2>1. PICK carried \in SUBSET {job[w].id} :
            moved' = moved \cup carried /\ lost' = lost \cup carried
      BY <1>4 DEF CallRaises
    <2>2. /\ pc[w] = "call" /\ End(w) /\ UNCHANGED <<consumed, refunds, created, log>>
          /\ pc[w] # "idle" /\ pc[w] \in Open
      BY <1>4 DEF CallRaises, Open
    <2>3. job[w].id \notin moved
      BY <2>2 DEF IInv, RowInHand
    <2>4. /\ moved \subseteq moved' /\ moved' \subseteq moved \cup {job[w].id}
          /\ lost \subseteq lost' /\ lost' \subseteq lost \cup {job[w].id}
          /\ lost' \subseteq moved' /\ (job[w].id \in moved' => job[w].id \in lost')
      BY <1>1, <2>1, <2>3 DEF TypeOK
    <2> QED  BY <2>2, <2>4, BreakOff
  <1>5. CASE SettleRaises(w) \/ Crash(w)
    <2>1. /\ Break(w) /\ pc[w] # "idle"
      BY <1>5 DEF SettleRaises, Crash
    <2>2. /\ End(w) /\ UNCHANGED <<consumed, refunds, created, log>>
          /\ moved' = moved /\ lost' = lost \cup ({job[w].id} \cap moved)
      BY <2>1 DEF Break
    <2>3. /\ lost \subseteq lost' /\ lost' \subseteq lost \cup {job[w].id}
          /\ lost' \subseteq moved' /\ (job[w].id \in moved' => job[w].id \in lost')
          /\ (lost' # lost => pc[w] \in Open)
      BY <1>1, <1>2, <2>1, <2>2 DEF TypeOK
    <2> QED  BY <2>1, <2>2, <2>3, BreakOff
  <1> QED  BY <1>3, <1>4, <1>5

(* The provider answers.                                                    *)
LEMMA CallOk ==
  ASSUME IInv, NEW w \in Workers, Call(w)
  PROVE  IInv'
  <1>1. PICK answer \in {"succeeded", "failed", "unsupported"} :
          /\ job' = [job EXCEPT ![w].answer = answer]
          /\ moved' = IF answer = "succeeded" THEN moved \cup {job[w].id} ELSE moved
    BY DEF Call
  <1>2. /\ pc[w] = "call" /\ pc' = [pc EXCEPT ![w] = "settle"]
        /\ consumed' = consumed /\ refunds' = refunds /\ created' = created
        /\ log' = log /\ lost' = lost
    BY DEF Call, Goto
  <1>3. /\ job' \in [Workers -> Jobs] /\ pc' \in [Workers -> Steps]
        /\ pc'[w] = "settle"
        /\ job'[w] = [job[w] EXCEPT !.answer = answer]
        /\ \A v \in Workers \ {w} : job'[v] = job[v] /\ pc'[v] = pc[v]
    <2>1. /\ job \in [Workers -> Jobs] /\ pc \in [Workers -> Steps]
          /\ "settle" \in Steps
      BY DEF IInv, TypeOK, Steps
    <2>2. [job[w] EXCEPT !.answer = answer] \in Jobs
      BY <2>1 DEF Jobs
    <2>3. job' = [job EXCEPT ![w] = [job[w] EXCEPT !.answer = answer]]
      BY <1>1, <2>1 DEF Jobs
    <2> QED  BY <1>2, <2>1, <2>2, <2>3
  <1>4. /\ job'[w].id = job[w].id /\ job'[w].row = job[w].row
        /\ job'[w].logged = job[w].logged /\ job'[w].consumed = job[w].consumed
        /\ job'[w].answer = answer
    BY <1>3 DEF IInv, TypeOK, Jobs
  <1>5. /\ job[w].id \in 1 .. created /\ job[w].id \notin moved
        /\ job[w].id \notin Committed /\ job[w].id \notin lost
    BY <1>2 DEF IInv, IdsOk, RowInHand, Open
  <1>6. /\ Committed' = Committed
        /\ PartialsConsumed' /\ RecordedIsMoved' /\ FullNeverAfterPartial'
        /\ LogTellsRefunds'
    BY <1>1, <1>2, SameTable
  <1>7. TypeOK'
    BY <1>1, <1>2, <1>3, <1>5 DEF IInv, TypeOK, RefundId
  <1>8. IdsOk'
    <2>1. \A v \in Workers : job'[v].id = job[v].id
      BY <1>3, <1>4
    <2>2. \A v \in Workers : /\ pc'[v] \in Open <=> pc[v] \in Open
                             /\ pc'[v] \in {"idle", "decide"} => pc[v] = pc'[v]
      BY <1>2, <1>3 DEF Open
    <2>3. Committed \subseteq 1 .. created /\ moved' \subseteq 1 .. created
      BY <1>1, <1>5 DEF IInv, IdsOk
    <2> QED  BY <1>2, <1>6, <2>1, <2>2, <2>3 DEF IInv, IdsOk
  <1>9. LostOk'
    BY <1>2, <1>6 DEF IInv, LostOk
  <1>10. MovedIsRecorded'
    BY <1>1, <1>2, <1>3, <1>4, <1>6 DEF IInv, MovedIsRecorded
  <1>11. ASSUME NEW v \in Workers PROVE RowInHand(v)'
    <2>1. CASE v = w
      <3>1. RowInHand(w)
        BY DEF IInv
      <3> QED  BY <1>1, <1>2, <1>3, <1>4, <1>5, <2>1, <3>1 DEF RowInHand
    <2>2. CASE v # w
      <3>1. RowInHand(v) /\ (pc[v] \in Open => job[v].id # job[w].id)
        BY <1>2, <2>2 DEF IInv, IdsOk, Open
      <3> QED  BY <1>1, <1>3, <2>2, <3>1 DEF RowInHand, Open
    <2> QED  BY <2>1, <2>2
  <1>12. ASSUME NEW v \in Workers PROVE ConsumedInHand(v)'
    <2>1. ConsumedInHand(v) /\ job'[v].row = job[v].row
          /\ job'[v].consumed = job[v].consumed
      BY <1>3, <1>4 DEF IInv
    <2>2. pc'[v] # "idle" => /\ pc[v] # "idle"
                             /\ pc'[v] \in Open <=> pc[v] \in Open
      BY <1>2, <1>3 DEF Open
    <2> QED  BY <1>2, <1>6, <2>1, <2>2 DEF ConsumedInHand
  <1> QED  BY <1>6, <1>7, <1>8, <1>9, <1>10, <1>11, <1>12 DEF IInv

(* What the answers of a provider come to.                                  *)
LEMMA Outcomes ==
  ASSUME NEW answer \in {"succeeded", "failed", "unsupported"}
  PROVE  /\ Outcome(answer) \in Statuses
         /\ Outcome(answer) = "succeeded" <=> answer = "succeeded"
         /\ OutcomeEvents(answer) = IF answer = "unsupported" THEN {}
                                    ELSE {Outcome(answer)}
         /\ Outcome(answer) # "requested"
         /\ Outcome(answer) = "failed" <=> answer = "failed"
  BY DEF Outcome, OutcomeEvents, Statuses, Kinds

(* The answer is stored on the refund.                                      *)
LEMMA SettleOk ==
  ASSUME IInv, NEW w \in Workers, Settle(w)
  PROVE  IInv'
  <1> DEFINE answer == job[w].answer
             row == [job[w].row EXCEPT !.status = Outcome(answer)]
             logged == {"requested"} \cup OutcomeEvents(answer)
  <1>1. /\ pc[w] = "settle" /\ pc' = [pc EXCEPT ![w] = "commit"]
        /\ consumed' = consumed /\ refunds' = refunds /\ created' = created
        /\ log' = log /\ moved' = moved /\ lost' = lost
        /\ job' = [job EXCEPT ![w].row.status = Outcome(job[w].answer),
                              ![w].logged = @ \cup OutcomeEvents(job[w].answer)]
    BY DEF Settle, Goto
  <1>2. /\ job[w].row \in RefundRecord /\ job[w].logged = {"requested"}
        /\ answer \in {"succeeded", "failed", "unsupported"}
        /\ answer = "succeeded" <=> job[w].id \in moved
    BY <1>1 DEF IInv, RowInHand
  <1>3. /\ row \in RefundRecord /\ row.status = Outcome(answer)
        /\ row.payment = job[w].row.payment /\ row.mode = job[w].row.mode
        /\ row.known = job[w].row.known
        /\ logged \subseteq Kinds
    BY <1>2, Outcomes DEF RefundRecord, OutcomeEvents, Kinds
  <1>4. /\ job' = [job EXCEPT ![w] = [job[w] EXCEPT !.row = row, !.logged = logged]]
    <2>1. [job EXCEPT ![w].row.status = Outcome(job[w].answer),
                      ![w].logged = @ \cup OutcomeEvents(job[w].answer)]
           = [job EXCEPT ![w] = [job[w] EXCEPT !.row = row, !.logged = logged]]
      BY <1>2 DEF IInv, TypeOK, Jobs
    <2> QED  BY <1>1, <2>1
  <1> HIDE DEF row, logged
  <1>14. [job[w] EXCEPT !.row = row, !.logged = logged] \in Jobs
    <2>1. job[w] \in Jobs
      BY DEF IInv, TypeOK
    <2> QED  BY <1>3, <2>1 DEF Jobs
  <1>5. /\ job' \in [Workers -> Jobs] /\ pc' \in [Workers -> Steps]
        /\ pc'[w] = "commit"
        /\ job'[w] = [job[w] EXCEPT !.row = row, !.logged = logged]
        /\ \A v \in Workers \ {w} : job'[v] = job[v] /\ pc'[v] = pc[v]
    BY <1>1, <1>4, <1>14 DEF IInv, TypeOK, Steps
  <1>6. /\ job'[w].id = job[w].id /\ job'[w].row = row /\ job'[w].logged = logged
        /\ job'[w].consumed = job[w].consumed /\ job'[w].answer = answer
    BY <1>5 DEF IInv, TypeOK, Jobs
  <1>7. /\ Committed' = Committed
        /\ PartialsConsumed' /\ RecordedIsMoved' /\ FullNeverAfterPartial'
        /\ LogTellsRefunds'
    BY <1>1, SameTable
  <1>8. TypeOK'
    BY <1>1, <1>5 DEF IInv, TypeOK
  <1>9. /\ \A v \in Workers : job'[v].id = job[v].id
        /\ \A v \in Workers : /\ pc'[v] \in Open <=> pc[v] \in Open
                              /\ pc'[v] \in {"idle", "decide"} => pc[v] = pc'[v]
    BY <1>1, <1>5, <1>6 DEF Open
  <1>10. IdsOk'
    <2>1. Committed \subseteq 1 .. created /\ moved \subseteq 1 .. created
      BY DEF IInv, IdsOk
    <2>2. \A v \in Workers : pc[v] \in Open =>
            /\ job[v].id \in 1 .. created /\ job[v].id \notin Committed
            /\ job[v].id \notin lost
            /\ \A u \in Workers \ {v} : pc[u] \in Open => job[u].id # job[v].id
      BY DEF IInv, IdsOk
    <2>3. \A v \in Workers : pc[v] \in {"idle", "decide"} => job[v].id = 0
      BY DEF IInv, IdsOk
    <2>4. created' = created /\ moved' = moved /\ lost' = lost
      BY <1>1
    <2> QED  BY <1>7, <1>9, <2>1, <2>2, <2>3, <2>4 DEF IdsOk
  <1>11. MovedIsRecorded' /\ LostOk'
    BY <1>1, <1>5, <1>6, <1>7 DEF IInv, MovedIsRecorded, LostOk
  <1>12. ASSUME NEW v \in Workers PROVE RowInHand(v)'
    <2>1. CASE v = w
      BY <1>1, <1>2, <1>3, <1>5, <1>6, <2>1 DEF RowInHand, logged
    <2>2. CASE v # w
      BY <1>1, <1>5, <2>2 DEF IInv, RowInHand
    <2> QED  BY <2>1, <2>2
  <1>13. ASSUME NEW v \in Workers PROVE ConsumedInHand(v)'
    <2>1. CASE v = w
      BY <1>1, <1>3, <1>5, <1>6, <1>7, <2>1 DEF IInv, ConsumedInHand, Open
    <2>2. CASE v # w
      BY <1>1, <1>5, <1>7, <2>2 DEF IInv, ConsumedInHand
    <2> QED  BY <2>1, <2>2
  <1> QED  BY <1>7, <1>8, <1>10, <1>11, <1>12, <1>13 DEF IInv

(* What a new row adds to a count.                                          *)
LEMMA CountStep ==
  ASSUME TypeOK, NEW id \in RefundId \ Committed, NEW row \in RefundRecord,
         refunds' = [refunds EXCEPT ![id] = row]
  PROVE  \A p \in Payments, S \in SUBSET Statuses :
           Count(p, S)' = Count(p, S) + (IF row.payment = p /\ row.status \in S
                                        THEN 1 ELSE 0)
  <1> SUFFICES ASSUME NEW p \in Payments, NEW S \in SUBSET Statuses
               PROVE  Count(p, S)' = Count(p, S)
                        + (IF row.payment = p /\ row.status \in S THEN 1 ELSE 0)
    OBVIOUS
  <1> DEFINE Matching == {r \in Committed : /\ refunds[r].payment = p
                                            /\ refunds[r].status \in S}
             MatchingNow == {r \in Committed' : /\ refunds'[r].payment = p
                                                /\ refunds'[r].status \in S}
  <1>1. /\ \A r \in RefundId : refunds'[r] = IF r = id THEN row ELSE refunds[r]
        /\ Committed' = Committed \cup {id}
    BY NoneApart DEF TypeOK, Committed
  <1>2. MatchingNow = IF row.payment = p /\ row.status \in S
                      THEN Matching \cup {id} ELSE Matching
    BY <1>1 DEF Committed
  <1>3. IsFiniteSet(Matching) /\ id \notin Matching
    <2>1. Matching \in SUBSET RefundId
      BY DEF Committed
    <2>2. IsFiniteSet(RefundId)
      BY FS_Interval DEF RefundId
    <2> QED  BY <2>1, <2>2, FS_Subset
  <1>4. Cardinality(Matching) \in Nat
    BY <1>3, FS_CardinalityType
  <1>5. Count(p, S) = Cardinality(Matching) /\ Count(p, S)' = Cardinality(MatchingNow)
    BY DEF Count
  <1> HIDE DEF Matching, MatchingNow
  <1>6. Cardinality(Matching \cup {id}) = Cardinality(Matching) + 1
    BY <1>3, FS_AddElement
  <1> QED  BY <1>1, <1>2, <1>4, <1>5, <1>6

(* The handler commits.                                                     *)
LEMMA FinishOk ==
  ASSUME IInv, NEW w \in Workers, Finish(w)
  PROVE  IInv'
  <1> DEFINE id == job[w].id
             row == job[w].row
             answer == job[w].answer
  <1>1. /\ pc[w] = "commit" /\ End(w)
        /\ refunds' = [refunds EXCEPT ![id] = row]
        /\ consumed' = consumed /\ created' = created /\ moved' = moved /\ lost' = lost
    BY DEF Finish
  <1>2. log' = [log EXCEPT ![row.payment] =
                  [kind \in Kinds |-> IF kind \in job[w].logged THEN @[kind] + 1
                                      ELSE @[kind]]]
    BY DEF Finish
  <1>3. /\ row \in RefundRecord /\ answer \in {"succeeded", "failed", "unsupported"}
        /\ row.status = Outcome(answer)
        /\ job[w].logged = {"requested"} \cup OutcomeEvents(answer)
        /\ answer = "succeeded" <=> id \in moved
    BY <1>1 DEF IInv, RowInHand
  <1>4. id \in RefundId \ Committed /\ id \in 1 .. created /\ id \notin lost
    BY <1>1 DEF IInv, IdsOk, TypeOK, RefundId, Open
  <1>5. /\ row.known \subseteq Committed
        /\ job[w].consumed => row.payment \in consumed
        /\ row.mode = "full" <=> ~ job[w].consumed
        /\ ~ job[w].consumed =>
             \A k \in row.known :
               refunds[k].payment = row.payment => refunds[k].mode = "full"
    BY <1>1 DEF IInv, ConsumedInHand, Open
  <1>6. row.payment \in Payments /\ row.mode \in Modes /\ row.known \subseteq RefundId
    BY <1>3 DEF RefundRecord
  <1>7. /\ NoJob \in Jobs /\ NoJob.id = 0
    BY DEF NoJob, Jobs
  <1>8. /\ job' \in [Workers -> Jobs] /\ pc' \in [Workers -> Steps]
        /\ pc'[w] = "idle" /\ job'[w].id = 0
        /\ \A v \in Workers \ {w} : job'[v] = job[v] /\ pc'[v] = pc[v]
    BY <1>1, <1>7 DEF IInv, TypeOK, End, Goto, Steps
  <1> HIDE DEF id, row, answer
  <1>9. /\ Committed' = Committed \cup {id} /\ Committed \subseteq RefundId
        /\ \A r \in RefundId : refunds'[r] = IF r = id THEN row ELSE refunds[r]
        /\ refunds' \in [RefundId -> RefundRecord \cup {None}]
    <2>1. TypeOK
      BY DEF IInv
    <2>2. /\ refunds' \in [RefundId -> RefundRecord \cup {None}]
          /\ \A r \in RefundId : refunds'[r] = IF r = id THEN row ELSE refunds[r]
      BY <1>1, <1>3, <1>4, <2>1 DEF TypeOK
    <2> QED  BY <1>3, <1>4, <2>2, NoneApart DEF Committed
  <1>10. /\ log' \in [Payments -> [Kinds -> Nat]]
         /\ \A p \in Payments, kind \in Kinds :
              log'[p][kind] = log[p][kind] + (IF row.payment = p /\ kind \in job[w].logged
                                              THEN 1 ELSE 0)
    BY <1>2, <1>6 DEF IInv, TypeOK
  <1>11. LogTellsRefunds'
    <2> SUFFICES ASSUME NEW p \in Payments
                 PROVE  /\ log'[p]["requested"] = Count(p, Statuses)'
                        /\ log'[p]["succeeded"] = Count(p, {"succeeded"})'
                        /\ log'[p]["failed"] = Count(p, {"failed"})'
      BY DEF LogTellsRefunds
    <2>1. \A S \in SUBSET Statuses :
            Count(p, S)' = Count(p, S) + (IF row.payment = p /\ row.status \in S
                                         THEN 1 ELSE 0)
      <3>1. TypeOK /\ refunds' = [refunds EXCEPT ![id] = row]
        BY <1>1 DEF IInv
      <3>2. row \in RefundRecord /\ id \in RefundId \ Committed
        BY <1>3, <1>4
      <3> QED  BY <3>1, <3>2, CountStep
    <2>2. {"succeeded"} \in SUBSET Statuses /\ {"failed"} \in SUBSET Statuses
      BY DEF Statuses
    <2>3. /\ log[p]["requested"] = Count(p, Statuses)
          /\ log[p]["succeeded"] = Count(p, {"succeeded"})
          /\ log[p]["failed"] = Count(p, {"failed"})
      BY DEF IInv, LogTellsRefunds
    <2>4. /\ row.status \in Statuses
          /\ "requested" \in job[w].logged
          /\ "succeeded" \in job[w].logged <=> row.status = "succeeded"
          /\ "failed" \in job[w].logged <=> row.status = "failed"
      BY <1>3, Outcomes
    <2>5. "requested" \in Kinds /\ "succeeded" \in Kinds /\ "failed" \in Kinds
      BY DEF Kinds
    <2>6. /\ Count(p, Statuses)' = Count(p, Statuses) + (IF row.payment = p THEN 1 ELSE 0)
          /\ Count(p, {"succeeded"})' = Count(p, {"succeeded"})
               + (IF row.payment = p /\ row.status = "succeeded" THEN 1 ELSE 0)
          /\ Count(p, {"failed"})' = Count(p, {"failed"})
               + (IF row.payment = p /\ row.status = "failed" THEN 1 ELSE 0)
      BY <2>1, <2>2, <2>4
    <2>7. /\ log'[p]["requested"] = log[p]["requested"]
               + (IF row.payment = p THEN 1 ELSE 0)
          /\ log'[p]["succeeded"] = log[p]["succeeded"]
               + (IF row.payment = p /\ row.status = "succeeded" THEN 1 ELSE 0)
          /\ log'[p]["failed"] = log[p]["failed"]
               + (IF row.payment = p /\ row.status = "failed" THEN 1 ELSE 0)
      BY <1>10, <2>4, <2>5
    <2> QED  BY <2>3, <2>6, <2>7
  <1>12. TypeOK'
    BY <1>1, <1>8, <1>9, <1>10 DEF IInv, TypeOK
  <1>13. IdsOk'
    <2>1. Committed' \subseteq 1 .. created /\ moved \subseteq 1 .. created
      BY <1>4, <1>9 DEF IInv, IdsOk
    <2>2. ASSUME NEW v \in Workers \ {w}, pc[v] \in Open
          PROVE  /\ job[v].id \in 1 .. created /\ job[v].id \notin Committed'
                 /\ job[v].id \notin lost
                 /\ \A u \in Workers \ {v} : pc[u] \in Open => job[u].id # job[v].id
      BY <1>1, <1>9, <2>2 DEF IInv, IdsOk, Open, id
    <2>3. \A v \in Workers : pc'[v] \in {"idle", "decide"} => job'[v].id = 0
      BY <1>8 DEF IInv, IdsOk
    <2>4. pc'[w] \notin Open
      BY <1>8 DEF Open
    <2> QED  BY <1>1, <1>8, <2>1, <2>2, <2>3, <2>4 DEF IdsOk
  <1>14. PartialsConsumed' /\ FullNeverAfterPartial'
    <2> SUFFICES ASSUME NEW r \in Committed'
                 PROVE  /\ refunds'[r].mode = "partial" => refunds'[r].payment \in consumed
                        /\ refunds'[r].known \subseteq Committed'
                        /\ refunds'[r].mode = "full" =>
                             \A k \in refunds'[r].known :
                               refunds'[k].payment = refunds'[r].payment
                                 => refunds'[k].mode = "full"
      BY <1>1 DEF PartialsConsumed, FullNeverAfterPartial
    <2>1. CASE r = id
      BY <1>4, <1>5, <1>6, <1>9, <2>1 DEF Modes
    <2>2. CASE r # id
      <3>1. r \in Committed /\ refunds'[r] = refunds[r]
        BY <1>9, <2>2
      <3>2. refunds[r].known \subseteq Committed
        BY <3>1 DEF IInv, PartialsConsumed
      <3>3. \A k \in refunds[r].known : refunds'[k] = refunds[k]
        BY <1>4, <1>9, <3>2
      <3> QED
        BY <1>9, <3>1, <3>2, <3>3 DEF IInv, PartialsConsumed, FullNeverAfterPartial
    <2> QED  BY <2>1, <2>2
  <1>15. RecordedIsMoved'
    <2> SUFFICES ASSUME NEW r \in Committed', refunds'[r].status = "succeeded"
                 PROVE  r \in moved
      BY <1>1 DEF RecordedIsMoved
    <2>1. CASE r = id
      BY <1>3, <1>4, <1>9, <2>1, Outcomes
    <2>2. CASE r # id
      BY <1>9, <2>2 DEF IInv, RecordedIsMoved
    <2> QED  BY <2>1, <2>2
  <1>16. MovedIsRecorded' /\ LostOk'
    <2>1. LostOk'
      BY <1>1, <1>4, <1>9 DEF IInv, LostOk
    <2>2. ASSUME NEW r \in moved \ lost
          PROVE  \/ r \in Committed' /\ refunds'[r].status = "succeeded"
                 \/ \E v \in Workers : pc'[v] \in {"settle", "commit"} /\ job'[v].id = r
      <3>1. CASE r = id
        BY <1>3, <1>4, <1>9, <3>1, Outcomes
      <3>2. CASE r \in Committed /\ refunds[r].status = "succeeded"
        BY <1>4, <1>9, <3>2
      <3>3. CASE r # id /\ \E v \in Workers : pc[v] \in {"settle", "commit"} /\ job[v].id = r
        BY <1>8, <3>3 DEF id
      <3> QED  BY <3>1, <3>2, <3>3 DEF IInv, MovedIsRecorded
    <2> QED  BY <1>1, <2>1, <2>2 DEF MovedIsRecorded
  <1>17. ASSUME NEW v \in Workers PROVE RowInHand(v)' /\ ConsumedInHand(v)'
    <2>1. CASE v = w
      BY <1>8, <2>1 DEF RowInHand, ConsumedInHand
    <2>2. CASE v # w
      <3>1. RowInHand(v) /\ ConsumedInHand(v)
        BY DEF IInv
      <3>2. RowInHand(v)'
        BY <1>1, <1>8, <2>2, <3>1 DEF RowInHand
      <3>3. pc[v] # "idle" => \A k \in job[v].row.known : refunds'[k] = refunds[k]
        BY <1>4, <1>9, <3>1 DEF ConsumedInHand
      <3>4. ConsumedInHand(v)'
        BY <1>1, <1>8, <1>9, <2>2, <3>1, <3>3 DEF ConsumedInHand
      <3> QED  BY <3>2, <3>4
    <2> QED  BY <2>1, <2>2
  <1> QED  BY <1>11, <1>12, <1>13, <1>14, <1>15, <1>16, <1>17 DEF IInv

(* consumed_at only fills up.                                               *)
LEMMA ConsumeOk ==
  ASSUME IInv, consumed \subseteq consumed', consumed' \subseteq Payments,
         UNCHANGED <<refunds, created, log, moved, lost, pc, job>>
  PROVE  IInv'
  <1>1. /\ Committed' = Committed
        /\ PartialsConsumed' /\ RecordedIsMoved' /\ FullNeverAfterPartial'
        /\ LogTellsRefunds'
    BY SameTable
  <1>2. TypeOK' /\ IdsOk' /\ MovedIsRecorded' /\ LostOk'
    BY <1>1 DEF IInv, TypeOK, IdsOk, MovedIsRecorded, LostOk
  <1>3. \A w \in Workers : RowInHand(w)' /\ ConsumedInHand(w)'
    BY <1>1 DEF IInv, RowInHand, ConsumedInHand
  <1> QED  BY <1>1, <1>2, <1>3 DEF IInv

(* Nothing is refunded at first.                                            *)
LEMMA InitIInv ==
  ASSUME Init
  PROVE  IInv
  <1> USE DEF Init
  <1>1. Committed = {}
    BY DEF Committed
  <1>2. TypeOK
    BY DEF TypeOK, Steps, Jobs, NoJob
  <1>3. LogTellsRefunds
    <2>1. \A p, S : Count(p, S) = 0
      BY <1>1, FS_EmptySet DEF Count
    <2> QED  BY <2>1 DEF LogTellsRefunds, Kinds
  <1>4. IdsOk /\ PartialsConsumed /\ MovedIsRecorded /\ LostOk
    BY <1>1 DEF IdsOk, PartialsConsumed, MovedIsRecorded, LostOk, Open, NoJob
  <1>5. \A w \in Workers : RowInHand(w) /\ ConsumedInHand(w)
    BY DEF RowInHand, ConsumedInHand
  <1> QED
    BY <1>1, <1>2, <1>3, <1>4, <1>5 DEF IInv, RecordedIsMoved, FullNeverAfterPartial

(* Every step keeps the invariant.                                          *)
LEMMA NextIInv ==
  ASSUME IInv, [Next]_vars
  PROVE  IInv'
  <1>1. CASE UNCHANGED vars \/ Consume
    BY <1>1, ConsumeOk DEF vars, Consume, IInv, TypeOK
  <1>2. CASE \E w \in Workers : Read(w) \/ Statement(w) \/ Crash(w)
    BY <1>2, ReadOk, RequestOk, EndingOk, CallOk, SettleOk, FinishOk DEF Statement
  <1> QED  BY <1>1, <1>2 DEF Next

(* The inductive invariant holds.                                           *)
LEMMA IInvHolds == Spec => []IInv
  <1> QED  BY InitIInv, NextIInv, PTL DEF Spec

----------------------------------------------------------------------------
(* The theorems.                                                            *)

(* The variables of the refunds keep their types.                           *)
THEOREM RefundTypes == Spec => []TypeOK
  <1>1. IInv => TypeOK
    BY DEF IInv
  <1> QED  BY <1>1, IInvHolds, PTL

(* A refund recorded as succeeded was carried out by the provider.          *)
THEOREM RecordedCorrect == Spec => []RecordedIsMoved
  <1>1. IInv => RecordedIsMoved
    BY DEF IInv
  <1> QED  BY <1>1, IInvHolds, PTL

(* Money is moved without a record only by a handler that broke off.        *)
THEOREM MovedCorrect == Spec => []MovedIsRecorded
  <1>1. IInv => MovedIsRecorded
    BY DEF IInv
  <1> QED  BY <1>1, IInvHolds, PTL

(* No full refund is asked for and given after a partial one.               *)
THEOREM FullCorrect == Spec => []FullNeverAfterPartial
  <1>1. IInv => FullNeverAfterPartial
    BY DEF IInv
  <1> QED  BY <1>1, IInvHolds, PTL

(* The events of a payment tell its refunds.                                *)
THEOREM LogCorrect == Spec => []LogTellsRefunds
  <1>1. IInv => LogTellsRefunds
    BY DEF IInv
  <1> QED  BY <1>1, IInvHolds, PTL
====
