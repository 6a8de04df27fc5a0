---- MODULE AccountsProofs ----
(* What the codes, the accounts and the handlers of Accounts keep, for any  *)
(* number of workers, phone numbers and codes.                              *)
EXTENDS Accounts, TLAPS

USE AccountConstantsOk

----------------------------------------------------------------------------
(* Phone numbers, of any digits.                                            *)

(* A coded number begins with the country code, in whatever way it was      *)
(* spelled.                                                                 *)
LEMMA CodedIsCoded ==
  ASSUME NEW d \in Seq(Digits)
  PROVE  Coded(d) \in Seq(Digits) /\ StartsWithTwo(Coded(d), 9, 8)
  <1>1. ASSUME NEW e \in Seq(Digits)
        PROVE  /\ Iran \o e \in Seq(Digits)
               /\ StartsWithTwo(Iran \o e, 9, 8)
    <2>1. Iran \o e \in Seq(Digits) /\ Len(Iran \o e) = 2 + Len(e)
      BY DEF Iran, Digits
    <2>2. (Iran \o e)[1] = 9 /\ (Iran \o e)[2] = 8
      BY DEF Iran, Digits
    <2> QED  BY <2>1, <2>2, Len(e) \in Nat DEF StartsWithTwo
  <1>2. CASE StartsWith(d, 0)
    <2>1. SubSeq(d, 2, Len(d)) \in Seq(Digits)
      BY <1>2 DEF StartsWith
    <2>2. Coded(d) = Iran \o SubSeq(d, 2, Len(d))
      BY <1>2 DEF Coded, StartsWith, StartsWithTwo
    <2> QED  BY <1>1, <2>1, <2>2
  <1>3. CASE ~ StartsWith(d, 0) /\ StartsWithTwo(d, 9, 8)
    BY <1>3 DEF Coded
  <1>4. CASE ~ StartsWith(d, 0) /\ ~ StartsWithTwo(d, 9, 8)
    BY <1>1, <1>4 DEF Coded
  <1> QED  BY <1>2, <1>3, <1>4

(* Normalising a number again changes nothing, so the serializer, the       *)
(* service, the manager and the model may each do it: they all mean the     *)
(* same number (managers.py:83-95).                                         *)
THEOREM NormalizeTwice ==
  ASSUME NEW d \in Seq(Digits)
  PROVE  Normalize(d) \in Seq(Digits) /\ Normalize(Normalize(d)) = Normalize(d)
  <1>1. International(d) \in Seq(Digits)
    BY DEF International, StartsWithTwo
  <1>2. Normalize(d) \in Seq(Digits) /\ StartsWithTwo(Normalize(d), 9, 8)
    BY <1>1, CodedIsCoded DEF Normalize
  <1> DEFINE n == Normalize(d)
  <1>3. ~ StartsWithTwo(n, 0, 0) /\ ~ StartsWith(n, 0)
    BY <1>2 DEF StartsWithTwo, StartsWith
  <1>4. Coded(n) = n
    BY <1>2, <1>3 DEF Coded
  <1>5. International(n) = n
    BY <1>3 DEF International
  <1>6. Normalize(n) = n
    BY <1>4, <1>5 DEF Normalize
  <1> QED  BY <1>2, <1>6

(* The phones of the instance are normal forms.                             *)
LEMMA PhonesNormal ==
  ASSUME NEW phone \in Phones
  PROVE  Normalize(phone) = phone
  <1>1. PICK d \in Typed : phone = Normalize(d)
    BY DEF Phones
  <1> QED  BY <1>1, NormalizeTwice

----------------------------------------------------------------------------
(* The inductive invariant.                                                 *)

RowTypes ==
  /\ db \in [Rows -> CodeRecord] /\ work \in [Rows -> CodeRecord]
  /\ owner \in [Rows -> Workers \cup {None}]

ClockTypes == created \in 0 .. MaxCodes /\ expired \in 0 .. created

PeopleTypes ==
  /\ users \subseteq AccountRecord
  /\ \A user \in users : Unique(user, users \ {user})
  /\ logins \subseteq [code : CodeId, phone : Phones]
  /\ spoiled \subseteq CodeId

HandlerTypes == pc \in [Workers -> Steps] /\ job \in [Workers -> Jobs]

(* A code that is committed keeps its phone and the codes before it, and    *)
(* stays used; only an owned row has uncommitted values.                    *)
RowOk(c) ==
  /\ owner[c] = None => work[c] = db[c]
  /\ db[c].used => work[c].used
  /\ db[c].phone # None => /\ work[c].phone = db[c].phone
                           /\ work[c].before = db[c].before
  /\ db[c].before # {} => db[c].phone # None
  /\ work[c].before # {} => work[c].phone # None
  /\ c > created => db[c] = NoCode /\ owner[c] = None

(* What an open transaction of w did to the rows it owns.                   *)
OwnedOk(w) ==
  \A c \in Rows : owner[c] = w =>
    /\ pc[w] \in {"insert_code", "commit_code"}
    /\ work[c].used /\ ~ db[c].used => c \in job[w].before
    /\ db[c].phone = None => pc[w] = "commit_code" /\ job[w].code = c

(* The codes a request found are used by the time its own is there.         *)
RequestOk(w) ==
  /\ job[w].unused \subseteq job[w].before
  /\ \A b \in job[w].before : db[b].phone # None
  /\ pc[w] = "supersede" =>
       \A b \in job[w].before : b \in job[w].unused \/ db[b].used
  /\ pc[w] \in {"insert_code", "commit_code"} =>
       \A b \in job[w].before : db[b].used \/ (owner[b] = w /\ work[b].used)
  /\ pc[w] = "commit_code" =>
       /\ job[w].code \in CodeId /\ owner[job[w].code] = w
       /\ work[job[w].code].phone = job[w].phone
       /\ work[job[w].code].before = job[w].before
       /\ ~ work[job[w].code].used
  /\ pc[w] = "dispatch" => /\ job[w].code \in CodeId
                           /\ db[job[w].code].phone = job[w].phone
  /\ pc[w] # "idle" => job[w].phone \in Phones

(* The code a verification goes on with.                                    *)
VerifyOk(w) ==
  /\ pc[w] \in {"check", "burn", "mark", "find", "name", "insert_user"} =>
       /\ job[w].code \in CodeId
       /\ db[job[w].code].phone = job[w].phone
  /\ pc[w] = "burn" => job[w].code <= expired
  /\ pc[w] \in {"find", "name", "insert_user"} => db[job[w].code].used
  /\ pc[w] \in {"mark", "find", "name", "insert_user"} =>
       \E m \in sms : m.code = job[w].code
  /\ job[w].typed # 0 => \E m \in sms : m.code = job[w].typed

HandlerOk(w) == OwnedOk(w) /\ RequestOk(w) /\ VerifyOk(w)

MessagesOk == /\ sms \subseteq [to : Phones, code : CodeId]
              /\ \A m \in sms : db[m.code].phone = m.to

LoginsUsed == \A l \in logins : db[l.code].used

Reason(c) ==
  \/ c <= expired
  \/ \E d \in CodeId : c \in db[d].before
  \/ \E l \in logins : l.code = c
  \/ c \in spoiled
  \/ \E w \in Workers : /\ pc[w] \in {"find", "name", "insert_user"}
                        /\ job[w].code = c

Burned == \A c \in CodeId : db[c].used => Reason(c)

IInv ==
  /\ RowTypes /\ ClockTypes /\ PeopleTypes /\ HandlerTypes
  /\ \A c \in Rows : RowOk(c)
  /\ SupersededIsUsed
  /\ MessagesOk /\ LoginsUsed /\ Burned /\ OwnerLogsIn
  /\ \A w \in Workers : HandlerOk(w)

----------------------------------------------------------------------------
(* A step of the rows by w: committed phones and what came before a code    *)
(* stay, used stays used, and the rows of other transactions are left alone.*)

Enrolling == {"find", "name", "insert_user"}

RowsMove(w) ==
  /\ RowTypes'
  /\ \A c \in Rows : RowOk(c)'
  /\ \A c \in Rows : db[c].phone # None => /\ db'[c].phone = db[c].phone
                                           /\ db'[c].before = db[c].before
  /\ \A c \in Rows : db[c].used => db'[c].used
  /\ \A v \in Workers \ {w}, c \in Rows :
       /\ owner'[c] = v <=> owner[c] = v
       /\ owner[c] = v => work'[c] = work[c] /\ db'[c] = db[c]

(* None is neither a worker nor a phone.                                    *)
LEMMA NoneApart == None \notin Workers /\ None \notin Phones
  BY DEF Phones

(* A step that touches no row keeps what is known of the rows.              *)
LEMMA SameRows ==
  ASSUME IInv, NEW w \in Workers, UNCHANGED codes, created' = created
  PROVE  RowsMove(w)
  BY DEF IInv, codes, RowTypes, RowOk, RowsMove

(* What a statement may write.                                              *)
Writable(c, value) ==
  /\ value \in CodeRecord
  /\ db[c].used => value.used
  /\ db[c].phone # None => value.phone = db[c].phone /\ value.before = db[c].before
  /\ value.before # {} => value.phone # None

(* A statement that writes good values keeps what is known of the rows.     *)
LEMMA WriteRows ==
  ASSUME IInv, NEW w \in Workers, NEW S \in SUBSET Rows,
         NEW change, DOMAIN change = S,
         \A c \in S : Writable(c, change[c]) /\ c <= created',
         created' \in Nat, created <= created', Write(w, change)
  PROVE  RowsMove(w) /\ db' = db
  <1>1. /\ work' = [c \in Rows |-> IF c \in S THEN change[c] ELSE work[c]]
        /\ owner' = [c \in Rows |-> IF c \in S THEN w ELSE owner[c]]
        /\ db' = db
        /\ \A c \in S : owner[c] \in {w, None}
    BY DEF Write, Overlay, Available
  <1>2. RowTypes'
    BY <1>1 DEF IInv, RowTypes, Writable
  <1>3. ASSUME NEW c \in Rows PROVE RowOk(c)'
    <2>1. RowOk(c) /\ created \in Nat
      BY DEF IInv, ClockTypes
    <2>2. CASE c \in S
      BY <1>1, <2>1, <2>2, NoneApart DEF RowOk, Writable, Rows, CodeId
    <2>3. CASE c \notin S
      BY <1>1, <2>1, <2>3 DEF RowOk, Rows, CodeId
    <2> QED  BY <2>2, <2>3
  <1>4. \A v \in Workers \ {w}, c \in Rows :
          /\ owner'[c] = v <=> owner[c] = v
          /\ owner[c] = v => work'[c] = work[c] /\ db'[c] = db[c]
    BY <1>1, NoneApart
  <1> QED  BY <1>1, <1>2, <1>3, <1>4 DEF RowsMove

(* So does a commit of good values,                                         *)
LEMMA CommitRows ==
  ASSUME IInv, NEW w \in Workers, NEW S \in SUBSET Rows,
         NEW change, DOMAIN change = S,
         \A c \in S : Writable(c, change[c]) /\ c <= created,
         created' = created, Commit(w, change)
  PROVE  /\ RowsMove(w)
         /\ \A c \in Rows : db'[c] = IF c \in S THEN change[c]
                                     ELSE IF owner[c] = w THEN work[c] ELSE db[c]
         /\ \A c \in Rows : owner'[c] # w
  <1>1. /\ work' = [c \in Rows |-> IF c \in S THEN change[c] ELSE work[c]]
        /\ owner' = [c \in Rows |-> IF owner[c] = w THEN None ELSE owner[c]]
        /\ db' = [c \in Rows |-> IF c \in S THEN change[c]
                                 ELSE IF owner[c] = w THEN work[c] ELSE db[c]]
        /\ \A c \in S : owner[c] \in {w, None}
    BY DEF Commit, Overlay, Available, Released
  <1>2. RowTypes'
    BY <1>1 DEF IInv, RowTypes, Writable
  <1>3. ASSUME NEW c \in Rows PROVE RowOk(c)'
    <2>1. RowOk(c) /\ created \in Nat
      BY DEF IInv, ClockTypes
    <2>2. CASE c \in S
      BY <1>1, <2>1, <2>2, NoneApart DEF RowOk, Writable, Rows, CodeId
    <2>3. CASE c \notin S
      BY <1>1, <2>1, <2>3, NoneApart DEF RowOk, Rows, CodeId
    <2> QED  BY <2>2, <2>3
  <1>4. ASSUME NEW c \in Rows
        PROVE  /\ db[c].phone # None => /\ db'[c].phone = db[c].phone
                                        /\ db'[c].before = db[c].before
               /\ db[c].used => db'[c].used
    BY <1>1 DEF IInv, RowOk, Writable
  <1>5. \A v \in Workers \ {w}, c \in Rows :
          /\ owner'[c] = v <=> owner[c] = v
          /\ owner[c] = v => work'[c] = work[c] /\ db'[c] = db[c]
    BY <1>1, NoneApart
  <1>6. \A c \in Rows : owner'[c] # w
    BY <1>1, NoneApart
  <1> QED  BY <1>1, <1>2, <1>3, <1>4, <1>5, <1>6 DEF RowsMove

(* COMMIT.                                                                  *)
LEMMA CommitNothing ==
  ASSUME IInv, NEW w \in Workers, Commit(w, NoWrites), created' = created
  PROVE  /\ RowsMove(w) /\ \A c \in Rows : owner'[c] # w
         /\ \A c \in Rows : db'[c] = IF owner[c] = w THEN work[c] ELSE db[c]
  <1> DEFINE S == {c \in Rows : FALSE}
             change == NoWrites
  <1>1. DOMAIN change = S /\ S \in SUBSET Rows /\ \A c \in Rows : c \notin S
    BY DEF NoWrites
  <1>2. \A c \in S : Writable(c, change[c]) /\ c <= created
    OBVIOUS
  <1>3. Commit(w, change)
    OBVIOUS
  <1> HIDE DEF S, change
  <1>4. /\ RowsMove(w) /\ \A c \in Rows : owner'[c] # w
        /\ \A c \in Rows : db'[c] = IF c \in S THEN change[c]
                                    ELSE IF owner[c] = w THEN work[c] ELSE db[c]
    BY <1>1, <1>2, <1>3, CommitRows
  <1> QED  BY <1>1, <1>4

(* and a rollback.                                                          *)
LEMMA RollbackRows ==
  ASSUME IInv, NEW w \in Workers, Rollback(w), created' = created
  PROVE  RowsMove(w) /\ db' = db /\ \A c \in Rows : owner'[c] # w
  <1>1. /\ work' = [c \in Rows |-> IF owner[c] = w THEN db[c] ELSE work[c]]
        /\ owner' = [c \in Rows |-> IF owner[c] = w THEN None ELSE owner[c]]
        /\ db' = db
    BY DEF Rollback, Released
  <1>2. RowTypes'
    BY <1>1 DEF IInv, RowTypes
  <1>3. ASSUME NEW c \in Rows PROVE RowOk(c)'
    BY <1>1, NoneApart DEF IInv, RowOk
  <1>4. \A v \in Workers \ {w}, c \in Rows :
          /\ owner'[c] = v <=> owner[c] = v
          /\ owner[c] = v => work'[c] = work[c] /\ db'[c] = db[c]
    BY <1>1, NoneApart
  <1>5. \A c \in Rows : owner'[c] # w
    BY <1>1, NoneApart
  <1> QED  BY <1>1, <1>2, <1>3, <1>4, <1>5 DEF RowsMove

(* The other handlers do not notice.                                        *)
LEMMA OthersKeep ==
  ASSUME IInv, NEW w \in Workers, NEW v \in Workers \ {w}, RowsMove(w),
         pc'[v] = pc[v], job'[v] = job[v],
         sms \subseteq sms', expired' \in Nat, expired <= expired'
  PROVE  HandlerOk(v)'
  <1>1. OwnedOk(v) /\ RequestOk(v) /\ VerifyOk(v) /\ job[v] \in Jobs
    BY DEF IInv, HandlerOk, HandlerTypes
  <1>2. OwnedOk(v)'
    BY <1>1 DEF OwnedOk, RowsMove
  <1>3. /\ job[v].before \subseteq Rows
        /\ pc[v] # "idle" => job[v].phone # None
    BY <1>1, NoneApart DEF Jobs, Rows, RequestOk
  <1>4. RequestOk(v)'
    <2>1. \A b \in job[v].before : db'[b].phone # None
      BY <1>1, <1>3 DEF RequestOk, RowsMove
    <2>2. pc[v] = "supersede" =>
            \A b \in job[v].before : b \in job[v].unused \/ db'[b].used
      BY <1>1, <1>3 DEF RequestOk, RowsMove, Jobs
    <2>3. pc[v] \in {"insert_code", "commit_code"} =>
            \A b \in job[v].before :
              db'[b].used \/ (owner'[b] = v /\ work'[b].used)
      BY <1>1, <1>3 DEF RequestOk, RowsMove, Jobs
    <2>4. pc[v] = "commit_code" =>
            /\ job[v].code \in CodeId /\ owner'[job[v].code] = v
            /\ work'[job[v].code] = work[job[v].code]
      BY <1>1 DEF RequestOk, RowsMove, Rows
    <2>5. pc[v] = "dispatch" => db'[job[v].code].phone = job[v].phone
      BY <1>1, <1>3 DEF RequestOk, RowsMove, Rows
    <2> QED  BY <1>1, <2>1, <2>2, <2>3, <2>4, <2>5 DEF RequestOk
  <1>5. VerifyOk(v)'
    <2>1. pc[v] \in {"check", "burn", "mark", "find", "name", "insert_user"} =>
            db'[job[v].code].phone = job[v].phone
      BY <1>1, <1>3 DEF VerifyOk, RowsMove, Rows
    <2>2. pc[v] \in {"find", "name", "insert_user"} => db'[job[v].code].used
      BY <1>1 DEF VerifyOk, RowsMove, Rows
    <2>3. pc[v] = "burn" => job[v].code <= expired'
      BY <1>1 DEF VerifyOk, IInv, ClockTypes, CodeId
    <2> QED  BY <1>1, <2>1, <2>2, <2>3 DEF VerifyOk
  <1> QED  BY <1>2, <1>4, <1>5 DEF HandlerOk

(* What a step of w has to show.                                            *)
LEMMA Keep ==
  ASSUME IInv, NEW w \in Workers, RowsMove(w), NEW step \in Steps, NEW args \in Jobs,
         pc' = [pc EXCEPT ![w] = step], job' = [job EXCEPT ![w] = args],
         ClockTypes', PeopleTypes', expired <= expired',
         sms \subseteq sms', logins \subseteq logins', spoiled \subseteq spoiled',
         \A m \in sms' \ sms : /\ m \in [to : Phones, code : CodeId]
                               /\ db'[m.code].phone = m.to,
         \A l \in logins' \ logins : /\ db'[l.code].used
                                     /\ \E m \in sms' : m.code = l.code /\ m.to = l.phone,
         \A c \in Rows : \/ db'[c].before = db[c].before
                         \/ \A b \in db'[c].before : db'[b].used,
         \A c \in Rows : db'[c].used => db[c].used \/ Reason(c)',
         pc[w] \in Enrolling => \/ step \in Enrolling /\ args.code = job[w].code
                                \/ \E l \in logins' : l.code = job[w].code
                                \/ job[w].code \in spoiled',
         HandlerOk(w)'
  PROVE  IInv'
  <1>1. HandlerTypes' /\ pc'[w] = step /\ job'[w] = args
    BY DEF IInv, HandlerTypes
  <1>2. ASSUME NEW v \in Workers PROVE HandlerOk(v)'
    <2>1. CASE v = w
      BY <2>1
    <2>2. CASE v # w
      <3>1. pc'[v] = pc[v] /\ job'[v] = job[v] /\ expired' \in Nat
        BY <2>2 DEF IInv, HandlerTypes, ClockTypes
      <3> QED  BY <2>2, <3>1, OthersKeep
    <2> QED  BY <2>1, <2>2
  <1>3. SupersededIsUsed'
    <2> SUFFICES ASSUME NEW c \in CodeId, NEW b \in db'[c].before
                 PROVE  db'[b].used
      BY DEF SupersededIsUsed
    <2>1. db'[c].before \subseteq Rows
      BY DEF RowsMove, RowTypes, CodeRecord, Rows
    <2> QED  BY <2>1 DEF RowsMove, IInv, SupersededIsUsed, Rows
  <1>4. MessagesOk'
    <2>1. ASSUME NEW m \in sms
          PROVE  m \in [to : Phones, code : CodeId] /\ db'[m.code].phone = m.to
      BY <2>1, NoneApart DEF IInv, MessagesOk, RowsMove, Rows
    <2> QED  BY <2>1 DEF MessagesOk
  <1>5. LoginsUsed'
    <2>1. ASSUME NEW l \in logins PROVE db'[l.code].used
      BY <2>1 DEF IInv, PeopleTypes, LoginsUsed, RowsMove, Rows
    <2> QED  BY <2>1 DEF LoginsUsed
  <1>6. OwnerLogsIn'
    BY DEF IInv, OwnerLogsIn
  <1>7. Burned'
    <2> SUFFICES ASSUME NEW c \in CodeId, db'[c].used
                 PROVE  Reason(c)'
      BY DEF Burned
    <2> SUFFICES ASSUME db[c].used PROVE Reason(c)'
      BY DEF Rows
    <2>1. Reason(c)
      BY DEF IInv, Burned
    <2>2. CASE c <= expired
      BY <2>2 DEF Reason, ClockTypes, IInv, CodeId
    <2>3. CASE \E d \in CodeId : c \in db[d].before
      BY <2>3 DEF Reason, RowsMove, IInv, RowOk, Rows
    <2>4. CASE c \in spoiled \/ \E l \in logins : l.code = c
      BY <2>4 DEF Reason
    <2>5. CASE \E v \in Workers : /\ pc[v] \in {"find", "name", "insert_user"}
                                  /\ job[v].code = c
      <3>1. PICK v \in Workers : pc[v] \in Enrolling /\ job[v].code = c
        BY <2>5 DEF Enrolling
      <3>2. CASE v = w
        BY <1>1, <3>1, <3>2 DEF Reason, Enrolling
      <3>3. CASE v # w
        BY <3>1, <3>3 DEF Reason, Enrolling, IInv, HandlerTypes
      <3> QED  BY <3>2, <3>3
    <2> QED  BY <2>1, <2>2, <2>3, <2>4, <2>5 DEF Reason
  <1> QED  BY <1>1, <1>2, <1>3, <1>4, <1>5, <1>6, <1>7 DEF IInv, RowsMove

(* A step that changes nothing but the handler.                             *)
LEMMA Quiet ==
  ASSUME IInv, NEW w \in Workers, NEW step \in Steps \ {"insert_code", "commit_code"},
         NEW args \in Jobs,
         pc' = [pc EXCEPT ![w] = step], job' = [job EXCEPT ![w] = args],
         pc[w] \notin {"insert_code", "commit_code"},
         UNCHANGED <<codes, clock, sms, people>>,
         pc[w] \in Enrolling => step \in Enrolling /\ args.code = job[w].code,
         RequestOk(w)', VerifyOk(w)'
  PROVE  IInv'
  <1>1. /\ created' = created /\ expired' = expired /\ sms' = sms /\ db' = db
        /\ users' = users /\ logins' = logins /\ spoiled' = spoiled
        /\ owner' = owner /\ UNCHANGED codes
    BY DEF clock, people, codes
  <1>2. RowsMove(w)
    BY <1>1, SameRows
  <1>3. ClockTypes' /\ PeopleTypes' /\ expired <= expired'
    BY <1>1 DEF IInv, ClockTypes, PeopleTypes
  <1>4. \A c \in Rows : owner[c] # w
    BY DEF IInv, HandlerOk, OwnedOk
  <1>5. OwnedOk(w)'
    BY <1>1, <1>4 DEF OwnedOk
  <1>6. HandlerOk(w)'
    BY <1>5 DEF HandlerOk
  <1> QED  BY <1>1, <1>2, <1>3, <1>6, Keep

(* The local variables of a handler under way.                              *)
LEMMA Handler ==
  ASSUME IInv, NEW w \in Workers
  PROVE  /\ job[w] \in Jobs /\ pc[w] \in Steps /\ NoJob \in Jobs
         /\ OwnedOk(w) /\ RequestOk(w) /\ VerifyOk(w)
         /\ pc[w] # "idle" => /\ job[w].phone \in Phones
                              /\ Normalize(job[w].phone) = job[w].phone
  BY PhonesNormal DEF IInv, HandlerTypes, HandlerOk, NoJob, Jobs, RequestOk

(* The answer is sent.                                                      *)
LEMMA NothingOpen ==
  ASSUME IInv, NEW w \in Workers, End(w)
  PROVE  /\ job' = [job EXCEPT ![w] = NoJob] /\ pc' = [pc EXCEPT ![w] = "idle"]
         /\ RequestOk(w)' /\ VerifyOk(w)'
  BY DEF End, IInv, HandlerTypes, RequestOk, VerifyOk, NoJob

(* A handler that ends without a write.                                     *)
LEMMA QuietEnd ==
  ASSUME IInv, NEW w \in Workers, End(w),
         pc[w] \notin Enrolling \cup {"insert_code", "commit_code"},
         UNCHANGED <<codes, clock, sms, people>>
  PROVE  IInv'
  <1>1. "idle" \in Steps \ {"insert_code", "commit_code"}
    BY DEF Steps
  <1> QED  BY <1>1, NothingOpen, Handler, Quiet

----------------------------------------------------------------------------
(* Requests.                                                                *)

(* A user asks for a code.                                                  *)
LEMMA RequestBeginOk ==
  ASSUME IInv, NEW w \in Workers, RequestBegin(w)
  PROVE  IInv'
  <1>1. PICK d \in Typed :
          job' = [job EXCEPT ![w] = [NoJob EXCEPT
                   !.phone = Normalize(d),
                   !.before = CodesOf(Normalize(Normalize(d))),
                   !.unused = {c \in CodesOf(Normalize(Normalize(d))) : ~ db[c].used}]]
    BY DEF RequestBegin
  <1> DEFINE phone == Normalize(d)
             there == CodesOf(Normalize(phone))
             args == [NoJob EXCEPT !.phone = phone, !.before = there,
                                   !.unused = {c \in there : ~ db[c].used}]
  <1>2. phone \in Phones /\ Normalize(phone) = phone
    BY PhonesNormal DEF Phones
  <1>3. there \subseteq Rows /\ \A c \in there : db[c].phone # None
    BY <1>2, NoneApart DEF CodesOf, Rows
  <1>4. args \in Jobs /\ args.phone = phone /\ args.before = there
        /\ args.unused = {c \in there : ~ db[c].used} /\ args.typed = 0
    BY <1>2, <1>3 DEF NoJob, Jobs, Rows
  <1>5. /\ job' = [job EXCEPT ![w] = args] /\ pc' = [pc EXCEPT ![w] = "supersede"]
        /\ UNCHANGED <<codes, clock, sms, people>> /\ pc[w] = "idle"
    BY <1>1 DEF RequestBegin
  <1> HIDE DEF args, there, phone
  <1>6. job'[w] = args /\ pc'[w] = "supersede" /\ db' = db
    BY <1>5 DEF IInv, HandlerTypes, codes
  <1>7. RequestOk(w)' /\ VerifyOk(w)'
    BY <1>2, <1>3, <1>4, <1>6 DEF RequestOk, VerifyOk
  <1> QED  BY <1>4, <1>5, <1>7, Quiet DEF Steps, Enrolling

(* The codes that are open are marked used.                                 *)
LEMMA SupersedeOk ==
  ASSUME IInv, NEW w \in Workers, Supersede(w)
  PROVE  IInv'
  <1> DEFINE S == {c \in job[w].unused : ~ work[c].used}
             change == [c \in S |-> [work[c] EXCEPT !.used = TRUE]]
  <1>0. /\ pc[w] = "supersede" /\ Write(w, change)
        /\ pc' = [pc EXCEPT ![w] = "insert_code"] /\ job' = job
        /\ UNCHANGED <<clock, sms, people>>
        /\ \A c \in job[w].unused : Available(w, c)
    BY DEF Supersede, Goto
  <1>1. S \in SUBSET Rows /\ job[w].unused \subseteq Rows
    BY Handler DEF Jobs, Rows
  <1>2. ASSUME NEW c \in S
        PROVE  /\ Writable(c, change[c]) /\ c <= created'
               /\ db[c].phone # None /\ change[c].used
    <2>1. c \in Rows /\ RowOk(c) /\ work[c] \in CodeRecord
      BY <1>1 DEF IInv, RowTypes
    <2>2. db[c].phone # None
      BY Handler DEF RequestOk
    <2>3. c <= created
      BY <2>1, <2>2 DEF RowOk, NoCode, Rows, CodeId, IInv, ClockTypes
    <2> QED  BY <1>0, <2>1, <2>2, <2>3 DEF Writable, RowOk, CodeRecord, clock
  <1>3. created' = created /\ expired' = expired /\ created \in Nat
    BY <1>0 DEF clock, IInv, ClockTypes
  <1>4. \A c \in Rows : /\ work'[c] = IF c \in S THEN change[c] ELSE work[c]
                        /\ owner'[c] = IF c \in S THEN w ELSE owner[c]
    BY <1>0 DEF Write, Overlay
  <1> HIDE DEF change
  <1>5. RowsMove(w) /\ db' = db
    <2>1. DOMAIN change = S
      BY DEF change
    <2>2. \A c \in S : Writable(c, change[c]) /\ c <= created'
      BY <1>2
    <2>3. created' \in Nat /\ created <= created'
      BY <1>3
    <2> HIDE DEF S
    <2> QED  BY <1>0, <1>1, <2>1, <2>2, <2>3, WriteRows
  <1>6. /\ job[w] \in Jobs /\ OwnedOk(w) /\ RequestOk(w) /\ VerifyOk(w)
        /\ job' = [job EXCEPT ![w] = job[w]] /\ job'[w] = job[w]
        /\ pc'[w] = "insert_code"
    BY <1>0, Handler DEF IInv, HandlerTypes
  <1>7. OwnedOk(w)'
    BY <1>0, <1>2, <1>4, <1>5, <1>6 DEF OwnedOk, RequestOk
  <1>8. RequestOk(w)'
    <2>1. ASSUME NEW b \in job[w].before
          PROVE  db'[b].used \/ (owner'[b] = w /\ work'[b].used)
      <3>1. b \in Rows /\ RowOk(b)
        BY <1>6 DEF Jobs, Rows, IInv
      <3>2. b \in job[w].unused \/ db[b].used
        BY <1>0, <1>6 DEF RequestOk
      <3>3. CASE b \in S
        BY <1>2, <1>4, <3>1, <3>3
      <3>4. CASE b \in job[w].unused /\ work[b].used
        <4>1. owner[b] \in {w, None}
          BY <1>0, <3>4 DEF Available
        <4>2. owner[b] # w
          BY <1>0, <1>6, <3>1 DEF OwnedOk
        <4> QED  BY <1>5, <3>1, <3>4, <4>1, <4>2 DEF RowOk
      <3> QED  BY <1>5, <3>2, <3>3, <3>4
    <2> QED  BY <1>0, <1>5, <1>6, <2>1 DEF RequestOk
  <1>9. VerifyOk(w)'
    BY <1>0, <1>6 DEF VerifyOk
  <1>10. ClockTypes' /\ PeopleTypes' /\ expired <= expired'
    BY <1>0, <1>3 DEF IInv, ClockTypes, PeopleTypes, people
  <1>11. sms' = sms /\ logins' = logins /\ spoiled' = spoiled
    BY <1>0 DEF people
  <1>12. "insert_code" \in Steps /\ pc[w] \notin Enrolling
    BY <1>0 DEF Steps, Enrolling
  <1> QED
    BY <1>0, <1>5, <1>6, <1>7, <1>8, <1>9, <1>10, <1>11, <1>12, Keep DEF HandlerOk

(* The new code is inserted.                                                *)
LEMMA InsertCodeOk ==
  ASSUME IInv, NEW w \in Workers, InsertCode(w)
  PROVE  IInv'
  <1> DEFINE new == created + 1
             value == [phone |-> job[w].phone, used |-> FALSE,
                       before |-> job[w].before]
             args == [job[w] EXCEPT !.code = new]
  <1>1. /\ pc[w] = "insert_code" /\ created < MaxCodes
        /\ FitsColumn(job[w].phone) /\ Write(w, Put(new, value))
        /\ created' = new /\ expired' = expired
        /\ pc' = [pc EXCEPT ![w] = "commit_code"]
        /\ job' = [job EXCEPT ![w] = args]
        /\ UNCHANGED <<sms, people>>
    BY Handler DEF InsertCode, IInv, HandlerTypes
  <1>2. new \in Rows /\ created \in Nat /\ new > created /\ new # 0
    BY <1>1 DEF IInv, ClockTypes, Rows, CodeId
  <1>3. /\ job[w] \in Jobs /\ job[w].phone \in Stored
        /\ OwnedOk(w) /\ RequestOk(w) /\ VerifyOk(w)
    BY <1>1, Handler DEF Stored
  <1>4. db[new] = NoCode /\ owner[new] = None
    BY <1>2 DEF IInv, RowOk
  <1>5. value \in CodeRecord /\ value.phone # None
    BY <1>3, NoneApart DEF CodeRecord, Jobs, Stored
  <1>6. Writable(new, value) /\ new <= created'
    BY <1>1, <1>2, <1>4, <1>5 DEF Writable, NoCode
  <1>7. DOMAIN Put(new, value) = {new} /\ Put(new, value)[new] = value
    BY DEF Put
  <1>8. args \in Jobs /\ args.code = new /\ args.phone = job[w].phone
        /\ args.before = job[w].before /\ args.unused = job[w].unused
        /\ args.typed = job[w].typed
    BY <1>2, <1>3 DEF Jobs, Rows
  <1>9. value.phone = job[w].phone /\ value.before = job[w].before /\ ~ value.used
    OBVIOUS
  <1> HIDE DEF value, args
  <1>10. \A c \in Rows : /\ work'[c] = IF c = new THEN value ELSE work[c]
                         /\ owner'[c] = IF c = new THEN w ELSE owner[c]
    BY <1>1, <1>7 DEF Write, Overlay
  <1>11. RowsMove(w) /\ db' = db
    <2>1. {new} \in SUBSET Rows /\ created' \in Nat /\ created <= created'
      BY <1>1, <1>2
    <2> HIDE DEF new
    <2> QED  BY <1>1, <1>6, <1>7, <2>1, WriteRows
  <1>12. job'[w] = args /\ pc'[w] = "commit_code"
    BY <1>1 DEF IInv, HandlerTypes
  <1>13. OwnedOk(w)'
    BY <1>1, <1>3, <1>8, <1>9, <1>10, <1>11, <1>12 DEF OwnedOk
  <1>14. RequestOk(w)'
    <2>1. ASSUME NEW b \in job[w].before
          PROVE  db[b].phone # None /\ (db[b].used \/ (owner[b] = w /\ work[b].used))
      BY <1>1, <1>3 DEF RequestOk
    <2>2. ASSUME NEW b \in job[w].before
          PROVE  b \in Rows /\ b # new
      BY <1>3, <1>4, <2>1 DEF Jobs, Rows, NoCode
    <2>3. \A b \in job[w].before :
            db'[b].used \/ (owner'[b] = w /\ work'[b].used)
      BY <1>10, <1>11, <2>1, <2>2
    <2> QED
      BY <1>2, <1>3, <1>8, <1>9, <1>10, <1>11, <1>12, <2>1, <2>3, Handler
      DEF RequestOk, Rows, Stored
  <1>15. VerifyOk(w)'
    BY <1>1, <1>3, <1>8, <1>12 DEF VerifyOk
  <1>16. ClockTypes' /\ PeopleTypes' /\ expired <= expired'
    BY <1>1, <1>2 DEF IInv, ClockTypes, PeopleTypes, people
  <1>17. sms' = sms /\ logins' = logins /\ spoiled' = spoiled
    BY <1>1 DEF people
  <1>18. "commit_code" \in Steps /\ pc[w] \notin Enrolling
    BY <1>1 DEF Steps, Enrolling
  <1> QED
    BY <1>1, <1>8, <1>11, <1>13, <1>14, <1>15, <1>16, <1>17, <1>18, Keep
    DEF HandlerOk

(* The handler breaks off, and its transaction is rolled back.              *)
LEMMA RaiseOk ==
  ASSUME IInv, NEW w \in Workers, Rollback(w), End(w),
         UNCHANGED <<clock, sms, users, logins>>,
         spoiled' \in SUBSET CodeId, spoiled \subseteq spoiled',
         pc[w] \in Enrolling => job[w].code \in spoiled'
  PROVE  IInv'
  <1>1. /\ created' = created /\ expired' = expired /\ sms' = sms
        /\ users' = users /\ logins' = logins
    BY DEF clock
  <1>2. RowsMove(w) /\ db' = db /\ \A c \in Rows : owner'[c] # w
    BY <1>1, RollbackRows
  <1>3. OwnedOk(w)'
    BY <1>2 DEF OwnedOk
  <1>4. ClockTypes' /\ PeopleTypes' /\ expired <= expired'
    BY <1>1 DEF IInv, ClockTypes, PeopleTypes
  <1>5. "idle" \in Steps
    BY DEF Steps
  <1> QED  BY <1>1, <1>2, <1>3, <1>4, <1>5, NothingOpen, Handler, Keep DEF HandlerOk

(* The transaction of the request commits.                                  *)
LEMMA CommitCodeOk ==
  ASSUME IInv, NEW w \in Workers, CommitCode(w)
  PROVE  IInv'
  <1>1. /\ pc[w] = "commit_code" /\ Commit(w, NoWrites)
        /\ created' = created /\ expired' = expired
        /\ sms' = sms /\ users' = users /\ logins' = logins /\ spoiled' = spoiled
        /\ pc' = [pc EXCEPT ![w] = "dispatch"] /\ job' = [job EXCEPT ![w] = job[w]]
        /\ job'[w] = job[w] /\ pc'[w] = "dispatch"
    BY DEF CommitCode, Goto, clock, people, IInv, HandlerTypes
  <1>2. job[w] \in Jobs /\ OwnedOk(w) /\ RequestOk(w) /\ VerifyOk(w)
    BY Handler
  <1>3. /\ RowsMove(w) /\ \A c \in Rows : owner'[c] # w
        /\ \A c \in Rows : db'[c] = IF owner[c] = w THEN work[c] ELSE db[c]
    BY <1>1, CommitNothing
  <1>4. /\ job[w].code \in Rows /\ owner[job[w].code] = w
        /\ work[job[w].code].phone = job[w].phone
        /\ work[job[w].code].before = job[w].before
    BY <1>1, <1>2 DEF RequestOk, Rows
  <1>5. \A b \in job[w].before : b \in Rows /\ db'[b].used
    BY <1>1, <1>2, <1>3 DEF RequestOk, RowsMove, Jobs, Rows
  <1>6. ASSUME NEW c \in Rows
        PROVE  \/ db'[c].before = db[c].before
               \/ \A b \in db'[c].before : db'[b].used
    <2>1. CASE db[c].phone # None
      BY <2>1, <1>3 DEF RowsMove
    <2>2. CASE db[c].phone = None
      BY <1>2, <1>3, <1>4, <1>5, <2>2 DEF OwnedOk
    <2> QED  BY <2>1, <2>2
  <1>7. ASSUME NEW c \in Rows, db'[c].used, ~ db[c].used
        PROVE  Reason(c)'
    <2>1. owner[c] = w /\ work[c].used
      BY <1>3, <1>7
    <2>2. c \in job[w].before
      BY <1>2, <1>7, <2>1 DEF OwnedOk
    <2>3. db'[job[w].code].before = job[w].before
      BY <1>3, <1>4
    <2> QED  BY <1>4, <2>2, <2>3 DEF Reason, Rows
  <1>8. OwnedOk(w)'
    BY <1>3 DEF OwnedOk
  <1>9. RequestOk(w)'
    <2>1. db'[job[w].code].phone = job[w].phone
      BY <1>3, <1>4
    <2>2. \A b \in job[w].before : db'[b].phone # None
      BY <1>2, <1>3, <1>5 DEF RequestOk, RowsMove
    <2> QED  BY <1>1, <1>2, <1>4, <2>1, <2>2 DEF RequestOk, Rows
  <1>10. VerifyOk(w)'
    BY <1>1, <1>2 DEF VerifyOk
  <1>11. ClockTypes' /\ PeopleTypes' /\ expired <= expired'
    BY <1>1 DEF IInv, ClockTypes, PeopleTypes
  <1>12. "dispatch" \in Steps /\ pc[w] \notin Enrolling
    BY <1>1 DEF Steps, Enrolling
  <1> QED
    BY <1>1, <1>2, <1>3, <1>6, <1>7, <1>8, <1>9, <1>10, <1>11, <1>12, Keep
    DEF HandlerOk

(* The code is handed to the SMS provider, after the commit.                *)
LEMMA DispatchOk ==
  ASSUME IInv, NEW w \in Workers, Dispatch(w)
  PROVE  IInv'
  <1> DEFINE message == [to |-> job[w].phone, code |-> job[w].code]
  <1>1. /\ pc[w] = "dispatch" /\ End(w) /\ sms' = sms \cup {message}
        /\ created' = created /\ expired' = expired /\ UNCHANGED codes
        /\ users' = users /\ logins' = logins /\ spoiled' = spoiled
    BY DEF Dispatch, clock, people
  <1>2. RowsMove(w) /\ db' = db /\ owner' = owner
    BY <1>1, SameRows DEF codes
  <1>3. /\ message \in [to : Phones, code : CodeId]
        /\ db[message.code].phone = message.to
    BY <1>1, Handler DEF RequestOk
  <1>4. \A c \in Rows : owner[c] # w
    BY <1>1, Handler DEF OwnedOk
  <1>5. HandlerOk(w)'
    BY <1>1, <1>2, <1>4, NothingOpen DEF HandlerOk, OwnedOk
  <1>6. ClockTypes' /\ PeopleTypes' /\ expired <= expired'
    BY <1>1 DEF IInv, ClockTypes, PeopleTypes
  <1>7. "idle" \in Steps /\ pc[w] \notin Enrolling
    BY <1>1 DEF Steps, Enrolling
  <1> HIDE DEF message
  <1> QED  BY <1>1, <1>2, <1>3, <1>5, <1>6, <1>7, NothingOpen, Handler, Keep

----------------------------------------------------------------------------
(* Verifications.                                                           *)

(* A user sends a code.                                                     *)
LEMMA VerifyBeginOk ==
  ASSUME IInv, NEW w \in Workers, VerifyBegin(w)
  PROVE  IInv'
  <1>1. PICK d \in Typed, typed \in {0} \cup {m.code : m \in sms} :
          job' = [job EXCEPT ![w] = [NoJob EXCEPT !.phone = Normalize(d),
                                                  !.typed = typed]]
    BY DEF VerifyBegin
  <1> DEFINE args == [NoJob EXCEPT !.phone = Normalize(d), !.typed = typed]
  <1>2. /\ Normalize(d) \in Phones
        /\ typed \in CodeId \cup {0}
        /\ typed # 0 => \E m \in sms : m.code = typed
    BY DEF Phones, IInv, MessagesOk
  <1>3. /\ args \in Jobs /\ args.before = {} /\ args.unused = {}
        /\ args.phone \in Phones /\ args.typed = typed
    BY <1>2 DEF NoJob, Jobs
  <1>4. /\ job' = [job EXCEPT ![w] = args] /\ pc' = [pc EXCEPT ![w] = "select"]
        /\ UNCHANGED <<codes, clock, sms, people>> /\ pc[w] = "idle"
    BY <1>1 DEF VerifyBegin
  <1> HIDE DEF args
  <1>5. job'[w] = args /\ pc'[w] = "select" /\ sms' = sms
    BY <1>4 DEF IInv, HandlerTypes
  <1>6. RequestOk(w)' /\ VerifyOk(w)'
    BY <1>2, <1>3, <1>5 DEF RequestOk, VerifyOk
  <1> QED  BY <1>3, <1>4, <1>6, Quiet DEF Steps, Enrolling

(* The newest code that is open is read, without a lock.                    *)
LEMMA SelectNewestOk ==
  ASSUME IInv, NEW w \in Workers, SelectNewest(w)
  PROVE  IInv'
  <1>1. PICK newest \in Candidates(w) :
          /\ job' = [job EXCEPT ![w].code = newest, ![w].phone = Normalize(@)]
          /\ pc' = [pc EXCEPT ![w] = IF newest <= expired THEN "burn" ELSE "check"]
    BY DEF SelectNewest
  <1> DEFINE args == [job[w] EXCEPT !.code = newest]
             step == IF newest <= expired THEN "burn" ELSE "check"
  <1>2. /\ pc[w] = "select" /\ UNCHANGED <<codes, clock, sms, people>>
        /\ job[w] \in Jobs /\ RequestOk(w) /\ VerifyOk(w)
        /\ job[w].phone \in Phones /\ Normalize(job[w].phone) = job[w].phone
    BY Handler DEF SelectNewest
  <1>3. newest \in CodeId /\ db[newest].phone = job[w].phone
    BY <1>2 DEF Candidates, CodesOf
  <1>4. /\ args \in Jobs /\ args.code = newest /\ args.phone = job[w].phone
        /\ args.before = job[w].before /\ args.unused = job[w].unused
        /\ args.typed = job[w].typed
    BY <1>2, <1>3 DEF Jobs
  <1>5. job' = [job EXCEPT ![w] = args] /\ pc' = [pc EXCEPT ![w] = step]
    <2>1. [job EXCEPT ![w].code = newest, ![w].phone = Normalize(@)]
            = [job EXCEPT ![w] = [job[w] EXCEPT !.code = newest,
                                                !.phone = Normalize(job[w].phone)]]
      BY <1>2 DEF IInv, HandlerTypes, Jobs
    <2>2. [job[w] EXCEPT !.code = newest, !.phone = Normalize(job[w].phone)] = args
      BY <1>2 DEF Jobs
    <2> QED  BY <1>1, <2>1, <2>2
  <1>6. /\ step \in Steps \ {"insert_code", "commit_code"}
        /\ step \in {"burn", "check"} /\ (step = "burn" => newest <= expired)
    BY DEF Steps
  <1> HIDE DEF args, step
  <1>7. /\ job'[w] = args /\ pc'[w] = step
        /\ db' = db /\ sms' = sms /\ expired' = expired
    BY <1>2, <1>5 DEF IInv, HandlerTypes, codes, clock
  <1>8. RequestOk(w)'
    BY <1>2, <1>4, <1>6, <1>7 DEF RequestOk
  <1>9. VerifyOk(w)'
    BY <1>2, <1>3, <1>4, <1>6, <1>7 DEF VerifyOk
  <1> QED  BY <1>2, <1>4, <1>5, <1>6, <1>8, <1>9, Quiet DEF Enrolling

(* The code is compared.                                                    *)
LEMMA CheckOk ==
  ASSUME IInv, NEW w \in Workers, Check(w)
  PROVE  IInv'
  <1>1. pc[w] = "check" /\ UNCHANGED <<codes, clock, sms, people>>
    BY DEF Check
  <1>2. CASE Matches(w)
    <2>1. pc' = [pc EXCEPT ![w] = "mark"] /\ job' = job
      BY <1>2 DEF Check, Goto
    <2>2. /\ job' = [job EXCEPT ![w] = job[w]] /\ pc'[w] = "mark"
          /\ job'[w] = job[w] /\ db' = db /\ sms' = sms
      BY <1>1, <2>1 DEF IInv, HandlerTypes, codes
    <2>3. RequestOk(w)'
      BY <1>1, <2>2, Handler DEF RequestOk
    <2>4. VerifyOk(w)'
      <3>1. job[w].typed = job[w].code /\ job[w].code \in CodeId /\ VerifyOk(w)
        BY <1>1, <1>2, Handler DEF Matches, VerifyOk
      <3>2. job[w].typed # 0
        BY <3>1 DEF CodeId
      <3> QED  BY <1>1, <2>2, <3>1, <3>2 DEF VerifyOk
    <2>5. "mark" \in Steps \ {"insert_code", "commit_code"} /\ job[w] \in Jobs
      BY Handler DEF Steps
    <2> QED  BY <1>1, <2>1, <2>2, <2>3, <2>4, <2>5, Quiet DEF Enrolling
  <1>3. CASE ~ Matches(w)
    BY <1>1, <1>3, QuietEnd DEF Check, Enrolling
  <1> QED  BY <1>2, <1>3

(* mark_used writes nothing but is_used.                                    *)
LEMMA UseRows ==
  ASSUME IInv, NEW w \in Workers, pc[w] \in {"burn", "mark"},
         Commit(w, Used(w)), created' = created
  PROVE  /\ RowsMove(w) /\ \A c \in Rows : owner'[c] # w
         /\ \A c \in Rows : db'[c].before = db[c].before
         /\ \A c \in Rows : db'[c].used => db[c].used \/ c = job[w].code
         /\ job[w].code \in Rows /\ db'[job[w].code].used
  <1> DEFINE code == job[w].code
             value == [work[code] EXCEPT !.used = TRUE]
             S == {code}
  <1>1. code \in CodeId /\ code \in Rows /\ db[code].phone # None
    BY Handler, NoneApart DEF VerifyOk, RequestOk, Rows
  <1>2. DOMAIN Used(w) = S /\ Used(w)[code] = value /\ S \in SUBSET Rows
    BY <1>1 DEF Used, Put
  <1>3. /\ RowOk(code) /\ work[code] \in CodeRecord /\ db[code] \in CodeRecord
        /\ created \in Nat
    BY <1>1 DEF IInv, RowTypes, ClockTypes
  <1>4. code <= created
    BY <1>1, <1>3 DEF RowOk, NoCode, CodeId
  <1>5. /\ Writable(code, value) /\ value.used
        /\ value.before = work[code].before /\ work[code].before = db[code].before
    BY <1>1, <1>3 DEF Writable, RowOk, CodeRecord
  <1>6. \A c \in Rows : owner[c] # w
    BY Handler DEF OwnedOk
  <1>7. \A c \in S : Writable(c, Used(w)[c]) /\ c <= created
    BY <1>2, <1>4, <1>5
  <1> HIDE DEF S, value, code
  <1>8. /\ RowsMove(w) /\ \A c \in Rows : owner'[c] # w
        /\ \A c \in Rows : db'[c] = IF c \in S THEN Used(w)[c]
                                    ELSE IF owner[c] = w THEN work[c] ELSE db[c]
    BY <1>2, <1>7, CommitRows
  <1>9. \A c \in Rows : db'[c] = IF c = code THEN value ELSE db[c]
    BY <1>2, <1>6, <1>8 DEF S
  <1> QED  BY <1>1, <1>5, <1>8, <1>9 DEF code

(* An expired code is marked used.                                          *)
LEMMA BurnExpiredOk ==
  ASSUME IInv, NEW w \in Workers, BurnExpired(w)
  PROVE  IInv'
  <1>1. /\ pc[w] = "burn" /\ Commit(w, Used(w)) /\ End(w)
        /\ created' = created /\ expired' = expired /\ sms' = sms
        /\ users' = users /\ logins' = logins /\ spoiled' = spoiled
    BY DEF BurnExpired, clock, people
  <1>2. /\ RowsMove(w) /\ \A c \in Rows : owner'[c] # w
        /\ \A c \in Rows : db'[c].before = db[c].before
        /\ \A c \in Rows : db'[c].used => db[c].used \/ c = job[w].code
    BY <1>1, UseRows
  <1>3. \A c \in Rows : db'[c].used => db[c].used \/ Reason(c)'
    BY <1>1, <1>2, Handler DEF VerifyOk, Reason
  <1>4. HandlerOk(w)'
    BY <1>1, <1>2, NothingOpen DEF HandlerOk, OwnedOk
  <1>5. ClockTypes' /\ PeopleTypes' /\ expired <= expired'
    BY <1>1 DEF IInv, ClockTypes, PeopleTypes
  <1>6. "idle" \in Steps /\ pc[w] \notin Enrolling
    BY <1>1 DEF Steps, Enrolling
  <1> QED  BY <1>1, <1>2, <1>3, <1>4, <1>5, <1>6, NothingOpen, Handler, Keep

(* A code that matches is marked used.                                      *)
LEMMA MarkUsedOk ==
  ASSUME IInv, NEW w \in Workers, MarkUsed(w)
  PROVE  IInv'
  <1>1. /\ pc[w] = "mark" /\ Commit(w, Used(w))
        /\ created' = created /\ expired' = expired /\ sms' = sms
        /\ users' = users /\ logins' = logins /\ spoiled' = spoiled
        /\ pc' = [pc EXCEPT ![w] = "find"] /\ job' = [job EXCEPT ![w] = job[w]]
        /\ job'[w] = job[w] /\ pc'[w] = "find"
    BY DEF MarkUsed, Goto, clock, people, IInv, HandlerTypes
  <1>2. /\ RowsMove(w) /\ \A c \in Rows : owner'[c] # w
        /\ \A c \in Rows : db'[c].before = db[c].before
        /\ \A c \in Rows : db'[c].used => db[c].used \/ c = job[w].code
        /\ job[w].code \in Rows /\ db'[job[w].code].used
    BY <1>1, UseRows
  <1>3. job[w] \in Jobs /\ RequestOk(w) /\ VerifyOk(w)
    BY Handler
  <1>4. \A c \in Rows : db'[c].used => db[c].used \/ Reason(c)'
    BY <1>1, <1>2 DEF Reason
  <1>5. \A c \in Rows : db[c].phone # None => db'[c].phone = db[c].phone
    BY <1>2 DEF RowsMove
  <1>6. OwnedOk(w)'
    BY <1>2 DEF OwnedOk
  <1>7. RequestOk(w)'
    BY <1>1, <1>3, <1>5 DEF RequestOk, Jobs, Rows
  <1>8. VerifyOk(w)'
    BY <1>1, <1>2, <1>3, <1>5, NoneApart DEF VerifyOk, RequestOk
  <1>9. ClockTypes' /\ PeopleTypes' /\ expired <= expired'
    BY <1>1 DEF IInv, ClockTypes, PeopleTypes
  <1>10. "find" \in Steps /\ pc[w] \notin Enrolling
    BY <1>1 DEF Steps, Enrolling
  <1> QED
    BY <1>1, <1>2, <1>3, <1>4, <1>6, <1>7, <1>8, <1>9, <1>10, Keep DEF HandlerOk

----------------------------------------------------------------------------
(* Accounts.                                                                *)

(* What a login adds: the code is used, and its message went to the phone.  *)
LEMMA LoginOk ==
  ASSUME IInv, NEW w \in Workers, pc[w] \in Enrolling,
         NEW user, user.phone = job[w].phone, Login(w, user)
  PROVE  /\ logins' \subseteq [code : CodeId, phone : Phones]
         /\ logins \subseteq logins'
         /\ \E l \in logins' : l.code = job[w].code
         /\ \A l \in logins' \ logins :
              db[l.code].used /\ \E m \in sms : m.code = l.code /\ m.to = l.phone
  <1> DEFINE login == [code |-> job[w].code, phone |-> job[w].phone]
  <1>1. /\ job[w].code \in CodeId /\ job[w].phone \in Phones
        /\ db[job[w].code].phone = job[w].phone /\ db[job[w].code].used
        /\ \E m \in sms : m.code = job[w].code
    BY Handler DEF VerifyOk, RequestOk, Enrolling
  <1>2. \E m \in sms : m.code = login.code /\ m.to = login.phone
    BY <1>1 DEF IInv, MessagesOk
  <1>3. logins' = logins \cup {login}
    BY DEF Login
  <1> QED  BY <1>1, <1>2, <1>3 DEF IInv, PeopleTypes

(* The handler goes on with the account.                                    *)
LEMMA EnrollOk ==
  ASSUME IInv, NEW w \in Workers, End(w), pc[w] \in Enrolling,
         UNCHANGED <<codes, clock, sms>>, PeopleTypes', spoiled \subseteq spoiled',
         \/ logins' = logins /\ job[w].code \in spoiled'
         \/ \E user \in users' : user.phone = job[w].phone /\ Login(w, user)
  PROVE  IInv'
  <1>1. /\ created' = created /\ expired' = expired /\ sms' = sms /\ db' = db
        /\ owner' = owner
    BY DEF clock, codes
  <1>2. RowsMove(w)
    BY <1>1, SameRows
  <1>3. /\ logins \subseteq logins'
        /\ job[w].code \in spoiled' \/ \E l \in logins' : l.code = job[w].code
        /\ \A l \in logins' \ logins :
             db[l.code].used /\ \E m \in sms : m.code = l.code /\ m.to = l.phone
    <2>1. CASE logins' = logins /\ job[w].code \in spoiled'
      BY <2>1
    <2>2. CASE \E user \in users' : user.phone = job[w].phone /\ Login(w, user)
      BY <2>2, LoginOk
    <2> QED  BY <2>1, <2>2
  <1>4. \A c \in Rows : owner[c] # w
    BY Handler DEF OwnedOk, Enrolling
  <1>5. HandlerOk(w)'
    BY <1>1, <1>4, NothingOpen DEF HandlerOk, OwnedOk
  <1>6. ClockTypes' /\ expired <= expired' /\ "idle" \in Steps
    BY <1>1 DEF IInv, ClockTypes, Steps
  <1> QED  BY <1>1, <1>2, <1>3, <1>5, <1>6, NothingOpen, Handler, Keep

(* The user of the phone is looked for.                                     *)
LEMMA FindUserOk ==
  ASSUME IInv, NEW w \in Workers, FindUser(w)
  PROVE  IInv'
  <1>1. PICK user \in users : /\ user.phone = Normalize(job[w].phone)
                              /\ Login(w, user)
    BY DEF FindUser
  <1>2. pc[w] \in Enrolling /\ user.phone = job[w].phone
    BY <1>1, Handler DEF FindUser, Enrolling
  <1>3. logins' \subseteq [code : CodeId, phone : Phones]
    BY <1>1, <1>2, LoginOk
  <1>4. users' = users /\ spoiled' = spoiled /\ End(w)
        /\ UNCHANGED <<codes, clock, sms>>
    BY DEF FindUser
  <1>5. PeopleTypes'
    BY <1>3, <1>4 DEF IInv, PeopleTypes, Unique
  <1> QED  BY <1>1, <1>2, <1>4, <1>5, EnrollOk

(* The statements in between only move the handler's own variables.         *)
LEMMA NamingOk ==
  ASSUME IInv, NEW w \in Workers,
         FindNobody(w) \/ NameTaken(w) \/ NameFree(w)
  PROVE  IInv'
  <1>1. /\ job[w] \in Jobs /\ RequestOk(w) /\ VerifyOk(w)
        /\ pc[w] \in {"find", "name"} /\ Normalize(job[w].phone) = job[w].phone
        /\ UNCHANGED <<codes, clock, sms, people>>
        /\ db' = db /\ sms' = sms
    BY Handler DEF FindNobody, NameTaken, NameFree, codes
  <1>2. PICK step \in {"name", "insert_user"}, suffix \in Nat :
          /\ pc' = [pc EXCEPT ![w] = step]
          /\ job' = [job EXCEPT ![w] = [job[w] EXCEPT !.suffix = suffix]]
    <2>1. job[w].suffix \in Nat
      BY <1>1 DEF Jobs
    <2>2. /\ job = [job EXCEPT ![w] = [job[w] EXCEPT !.suffix = job[w].suffix]]
          /\ [job EXCEPT ![w].phone = Normalize(@)] = job
          /\ [job EXCEPT ![w].suffix = @ + 1]
               = [job EXCEPT ![w] = [job[w] EXCEPT !.suffix = job[w].suffix + 1]]
      BY <1>1 DEF IInv, HandlerTypes, Jobs
    <2>3. CASE FindNobody(w)
      BY <2>1, <2>2, <2>3 DEF FindNobody
    <2>4. CASE NameTaken(w)
      <3>1. pc' = [pc EXCEPT ![w] = "name"]
        BY <2>4 DEF NameTaken, IInv, HandlerTypes
      <3>2. /\ job' = [job EXCEPT ![w] = [job[w] EXCEPT !.suffix = job[w].suffix + 1]]
            /\ job[w].suffix + 1 \in Nat
        BY <2>1, <2>2, <2>4 DEF NameTaken
      <3> QED  BY <3>1, <3>2
    <2>5. CASE NameFree(w)
      BY <2>1, <2>2, <2>5 DEF NameFree, Goto
    <2> QED  BY <2>3, <2>4, <2>5
  <1> DEFINE args == [job[w] EXCEPT !.suffix = suffix]
  <1>3. /\ args \in Jobs /\ args.code = job[w].code /\ args.phone = job[w].phone
        /\ args.before = job[w].before /\ args.unused = job[w].unused
        /\ args.typed = job[w].typed
    BY <1>1, <1>2 DEF Jobs
  <1> HIDE DEF args
  <1>4. job' = [job EXCEPT ![w] = args] /\ job'[w] = args /\ pc'[w] = step
    BY <1>2 DEF args, IInv, HandlerTypes
  <1>5. RequestOk(w)'
    BY <1>1, <1>2, <1>3, <1>4 DEF RequestOk
  <1>6. VerifyOk(w)'
    BY <1>1, <1>2, <1>3, <1>4 DEF VerifyOk
  <1>7. step \in Steps \ {"insert_code", "commit_code"}
    BY <1>2 DEF Steps
  <1> QED
    BY <1>1, <1>2, <1>3, <1>4, <1>5, <1>6, <1>7, Quiet DEF Enrolling

(* A user nobody has yet is inserted,                                       *)
LEMMA InsertUserOk ==
  ASSUME IInv, NEW w \in Workers, InsertUser(w)
  PROVE  IInv'
  <1> DEFINE new == Newcomer(w)
  <1>1. /\ pc[w] \in Enrolling /\ Unique(new, users) /\ users' = users \cup {new}
        /\ Login(w, new) /\ End(w) /\ UNCHANGED <<codes, clock, sms>>
        /\ spoiled' = spoiled
    BY DEF InsertUser, Enrolling
  <1>2. /\ new = [name |-> <<job[w].phone, job[w].suffix>>, phone |-> job[w].phone]
        /\ job[w].phone \in Phones /\ job[w].suffix \in Nat
    BY <1>1, Handler DEF Newcomer, Candidate, Jobs, Enrolling
  <1>3. job[w].phone \in Stored
    <2>1. /\ job[w].code \in CodeId /\ db[job[w].code].phone = job[w].phone
      BY <1>1, Handler DEF VerifyOk, Enrolling
    <2> QED  BY <1>2, <2>1, NoneApart DEF IInv, RowTypes, CodeRecord, Rows
  <1>4. new \in AccountRecord /\ new.phone = job[w].phone /\ new.phone # None
    BY <1>2, <1>3, NoneApart DEF AccountRecord
  <1>5. logins' \subseteq [code : CodeId, phone : Phones]
    BY <1>1, <1>4, LoginOk
  <1> HIDE DEF new
  <1>6. \A user \in users' : Unique(user, users' \ {user})
    BY <1>1, <1>4 DEF IInv, PeopleTypes, Unique
  <1>7. PeopleTypes'
    BY <1>1, <1>4, <1>5, <1>6 DEF IInv, PeopleTypes, Unique
  <1>8. spoiled \subseteq spoiled'
    BY <1>1
  <1>9. \E user \in users' : user.phone = job[w].phone /\ Login(w, user)
    BY <1>1, <1>4
  <1> QED  BY <1>1, <1>7, <1>8, <1>9, EnrollOk

(* unless the phone is taken meanwhile.                                     *)
LEMMA InsertUserRefusedOk ==
  ASSUME IInv, NEW w \in Workers, InsertUserRefused(w)
  PROVE  IInv'
  <1>1. /\ pc[w] \in Enrolling /\ End(w) /\ UNCHANGED <<codes, clock, sms>>
        /\ spoiled' = spoiled \cup {job[w].code}
        /\ users' = users /\ logins' = logins
    BY DEF InsertUserRefused, Enrolling
  <1>2. job[w].code \in CodeId
    BY <1>1, Handler DEF VerifyOk, Enrolling
  <1>3. PeopleTypes'
    BY <1>1, <1>2 DEF IInv, PeopleTypes, Unique
  <1> QED  BY <1>1, <1>3, EnrollOk

----------------------------------------------------------------------------
(* Staff, the clock, and processes that die.                                *)

(* A process dies: its transaction is rolled back.                          *)
LEMMA CrashOk ==
  ASSUME IInv, NEW w \in Workers, Crash(w)
  PROVE  IInv'
  <1>1. /\ Rollback(w) /\ End(w) /\ UNCHANGED <<clock, sms, users, logins>>
        /\ spoiled' = IF w \in Inserting THEN spoiled \cup {job[w].code} ELSE spoiled
    BY DEF Crash
  <1>2. /\ pc[w] \in Enrolling <=> w \in Inserting
        /\ pc[w] \in Enrolling => job[w].code \in CodeId
    BY Handler DEF VerifyOk, Enrolling, Inserting
  <1>3. /\ spoiled' \in SUBSET CodeId /\ spoiled \subseteq spoiled'
        /\ pc[w] \in Enrolling => job[w].code \in spoiled'
    BY <1>1, <1>2 DEF IInv, PeopleTypes
  <1> QED  BY <1>1, <1>3, RaiseOk

(* A code that is refused ends the request.                                 *)
LEMMA InsertCodeRefusedOk ==
  ASSUME IInv, NEW w \in Workers, InsertCodeRefused(w)
  PROVE  IInv'
  <1>1. /\ Rollback(w) /\ End(w) /\ UNCHANGED <<clock, sms, users, logins>>
        /\ spoiled' = spoiled /\ pc[w] \notin Enrolling
    BY DEF InsertCodeRefused, people, Enrolling
  <1>2. spoiled' \in SUBSET CodeId /\ spoiled \subseteq spoiled'
    BY <1>1 DEF IInv, PeopleTypes
  <1> QED  BY <1>1, <1>2, RaiseOk

(* Nobody's codes or handlers depend on the accounts.                       *)
LEMMA PeopleChange ==
  ASSUME IInv, PeopleTypes',
         UNCHANGED <<codes, clock, sms, logins, spoiled, pc, job>>
  PROVE  IInv'
  <1>1. /\ db' = db /\ work' = work /\ owner' = owner /\ created' = created
        /\ expired' = expired /\ sms' = sms /\ logins' = logins
        /\ spoiled' = spoiled /\ pc' = pc /\ job' = job
    BY DEF codes, clock
  <1>2. RowTypes' /\ ClockTypes' /\ HandlerTypes' /\ \A c \in Rows : RowOk(c)'
    BY <1>1 DEF IInv, RowTypes, ClockTypes, HandlerTypes, RowOk
  <1>3. SupersededIsUsed' /\ MessagesOk' /\ LoginsUsed' /\ OwnerLogsIn'
    BY <1>1 DEF IInv, SupersededIsUsed, MessagesOk, LoginsUsed, OwnerLogsIn
  <1>4. Burned'
    BY <1>1 DEF IInv, Burned, Reason
  <1>5. \A w \in Workers : HandlerOk(w)'
    BY <1>1 DEF IInv, HandlerOk, OwnedOk, RequestOk, VerifyOk
  <1> QED  BY <1>1, <1>2, <1>3, <1>4, <1>5 DEF IInv

(* Staff edits a user.                                                      *)
LEMMA StaffOk ==
  ASSUME IInv, StaffAdd \/ StaffChange \/ StaffDelete
  PROVE  IInv'
  <1>1. Given \subseteq AccountRecord
    BY DEF Given, AccountRecord, Stored
  <1>2. /\ users' \subseteq AccountRecord
        /\ \A user \in users' : Unique(user, users' \ {user})
    <2>1. CASE StaffAdd
      <3>1. PICK user \in Given : Unique(user, users) /\ users' = users \cup {user}
        BY <2>1 DEF StaffAdd
      <3> QED  BY <1>1, <3>1 DEF IInv, PeopleTypes, Unique
    <2>2. CASE StaffChange
      <3>1. PICK old \in users, new \in Given :
              /\ Unique(new, users \ {old})
              /\ users' = (users \ {old}) \cup {new}
        BY <2>2 DEF StaffChange
      <3> QED  BY <1>1, <3>1 DEF IInv, PeopleTypes, Unique
    <2>3. CASE StaffDelete
      BY <2>3 DEF StaffDelete, IInv, PeopleTypes, Unique
    <2> QED  BY <2>1, <2>2, <2>3
  <1>3. UNCHANGED <<codes, clock, sms, logins, spoiled, pc, job>>
    BY DEF StaffAdd, StaffChange, StaffDelete
  <1>4. PeopleTypes'
    BY <1>2, <1>3 DEF IInv, PeopleTypes
  <1> QED  BY <1>3, <1>4, PeopleChange

(* Time passes for a code.                                                  *)
LEMMA ExpireOk ==
  ASSUME IInv, Expire
  PROVE  IInv'
  <1>1. /\ db' = db /\ work' = work /\ owner' = owner /\ created' = created
        /\ sms' = sms /\ users' = users /\ logins' = logins
        /\ spoiled' = spoiled /\ pc' = pc /\ job' = job
        /\ expired' = expired + 1 /\ expired < created
    BY DEF Expire, codes, people
  <1>2. created \in Nat /\ expired \in Nat /\ expired' \in 0 .. created
    BY <1>1 DEF IInv, ClockTypes
  <1>3. /\ RowTypes' /\ ClockTypes' /\ HandlerTypes' /\ PeopleTypes'
        /\ \A c \in Rows : RowOk(c)'
    BY <1>1, <1>2
    DEF IInv, RowTypes, ClockTypes, HandlerTypes, PeopleTypes, RowOk, Unique
  <1>4. SupersededIsUsed' /\ MessagesOk' /\ LoginsUsed' /\ OwnerLogsIn'
    BY <1>1 DEF IInv, SupersededIsUsed, MessagesOk, LoginsUsed, OwnerLogsIn
  <1>5. ASSUME NEW c \in CodeId PROVE c <= expired => c <= expired'
    BY <1>1, <1>2 DEF CodeId
  <1>6. Burned'
    BY <1>1, <1>5 DEF IInv, Burned, Reason
  <1>7. ASSUME NEW w \in Workers PROVE HandlerOk(w)'
    <2>1. OwnedOk(w)' /\ RequestOk(w)'
      BY <1>1 DEF IInv, HandlerOk, OwnedOk, RequestOk
    <2>2. VerifyOk(w)'
      BY <1>1, <1>5 DEF IInv, HandlerOk, VerifyOk
    <2> QED  BY <2>1, <2>2 DEF HandlerOk
  <1> QED  BY <1>1, <1>3, <1>4, <1>6, <1>7 DEF IInv

----------------------------------------------------------------------------
(* The theorems.                                                            *)

(* The database starts empty.                                               *)
LEMMA InitIInv ==
  ASSUME Init
  PROVE  IInv
  <1> USE DEF Init, Rows, CodeId
  <1>1. NoCode \in CodeRecord
    BY DEF NoCode, CodeRecord
  <1>2. RowTypes /\ ClockTypes /\ PeopleTypes /\ HandlerTypes
    BY <1>1 DEF RowTypes, ClockTypes, PeopleTypes, HandlerTypes, Steps, Jobs, NoJob
  <1>3. \A c \in Rows : RowOk(c)
    BY DEF RowOk, NoCode
  <1>4. SupersededIsUsed /\ MessagesOk /\ LoginsUsed /\ Burned /\ OwnerLogsIn
    BY DEF SupersededIsUsed, MessagesOk, LoginsUsed, Burned, OwnerLogsIn, NoCode
  <1>5. \A w \in Workers : OwnedOk(w)
    BY NoneApart DEF OwnedOk
  <1>6. \A w \in Workers : RequestOk(w) /\ VerifyOk(w)
    BY DEF RequestOk, VerifyOk, NoJob
  <1> QED  BY <1>2, <1>3, <1>4, <1>5, <1>6 DEF IInv, HandlerOk

(* Every statement of a handler under way.                                  *)
LEMMA StatementOk ==
  ASSUME IInv, NEW w \in Workers, Statement(w)
  PROVE  IInv'
  <1>1. CASE DispatchLost(w)
    BY <1>1, QuietEnd DEF DispatchLost, Enrolling
  <1>2. CASE SelectNone(w)
    BY <1>2, QuietEnd DEF SelectNone, Enrolling
  <1> QED
    BY <1>1, <1>2, SupersedeOk, InsertCodeOk, InsertCodeRefusedOk, CommitCodeOk,
       DispatchOk, SelectNewestOk, CheckOk, BurnExpiredOk, MarkUsedOk, FindUserOk,
       NamingOk, InsertUserOk, InsertUserRefusedOk
    DEF Statement

(* Every step keeps the invariant.                                          *)
LEMMA NextIInv ==
  ASSUME IInv, [Next]_vars
  PROVE  IInv'
  <1>1. CASE UNCHANGED vars
    <2>1. UNCHANGED <<codes, clock, sms, logins, spoiled, pc, job>> /\ users' = users
      BY <1>1 DEF vars, codes, clock
    <2>2. PeopleTypes'
      BY <2>1 DEF IInv, PeopleTypes, Unique
    <2> QED  BY <2>1, <2>2, PeopleChange
  <1>2. CASE \E w \in Workers : \/ RequestBegin(w) \/ VerifyBegin(w)
                                \/ Statement(w) \/ Crash(w)
    BY <1>2, RequestBeginOk, VerifyBeginOk, StatementOk, CrashOk
  <1>3. CASE StaffAdd \/ StaffChange \/ StaffDelete
    BY <1>3, StaffOk
  <1>4. CASE Expire
    BY <1>4, ExpireOk
  <1> QED  BY <1>1, <1>2, <1>3, <1>4 DEF Next

(* The inductive invariant holds.                                           *)
LEMMA IInvHolds == Spec => []IInv
  <1> QED  BY InitIInv, NextIInv, PTL DEF Spec

(* Every number the rows, messages, accounts and tokens hold is normalised, *)
(* and no two accounts share a name or a phone.                             *)
THEOREM AccountTypes == Spec => []TypeOK
  <1>1. IInv => TypeOK
    BY DEF IInv, TypeOK, RowTypes, ClockTypes, PeopleTypes, HandlerTypes, MessagesOk
  <1> QED  BY <1>1, IInvHolds, PTL

(* The codes a request for a new one found are used once the new one is     *)
(* committed.                                                               *)
THEOREM SupersededCorrect == Spec => []SupersededIsUsed
  <1>1. IInv => SupersededIsUsed
    BY DEF IInv
  <1> QED  BY <1>1, IInvHolds, PTL

(* No code is used up for nothing.                                          *)
THEOREM BurnedCorrect == Spec => []BurnedForAReason
  <1>1. IInv => BurnedForAReason
    BY DEF IInv, Burned, Reason, BurnedForAReason, Inserting
  <1> QED  BY <1>1, IInvHolds, PTL

(* A code opens the account of the number it was sent to.                   *)
THEOREM OwnerCorrect == Spec => []OwnerLogsIn
  <1>1. IInv => OwnerLogsIn
    BY DEF IInv
  <1> QED  BY <1>1, IInvHolds, PTL

(* The step that finds a code to compare.                                   *)
LEMMA FoundBySelect ==
  ASSUME IInv, [Next]_vars, NEW w \in Workers, pc[w] = "select", pc'[w] = "check"
  PROVE  SelectNewest(w)
  <1>1. PICK v \in Workers : RequestBegin(v) \/ VerifyBegin(v) \/ Statement(v) \/ Crash(v)
    BY DEF Next, vars, StaffAdd, StaffChange, StaffDelete, Expire
  <1>2. v = w
    <2>1. \E step \in Steps : pc' = [pc EXCEPT ![v] = step] \/ pc' = pc
      <3>1. CASE RequestBegin(v) \/ VerifyBegin(v) \/ Crash(v)
        BY <3>1 DEF RequestBegin, VerifyBegin, Crash, End, Steps
      <3>2. CASE \/ Supersede(v) \/ InsertCode(v) \/ InsertCodeRefused(v)
                 \/ CommitCode(v) \/ Dispatch(v) \/ DispatchLost(v)
        BY <3>2 DEF Supersede, InsertCode, InsertCodeRefused, CommitCode, Dispatch,
                    DispatchLost, Goto, End, Steps
      <3>3. CASE \/ SelectNone(v) \/ SelectNewest(v) \/ Check(v) \/ BurnExpired(v)
                 \/ MarkUsed(v)
        BY <3>3 DEF SelectNone, SelectNewest, Check, BurnExpired, MarkUsed, Goto,
                    End, Steps
      <3>4. CASE \/ FindUser(v) \/ FindNobody(v) \/ NameTaken(v) \/ NameFree(v)
                 \/ InsertUser(v) \/ InsertUserRefused(v)
        BY <3>4 DEF FindUser, FindNobody, NameTaken, NameFree, InsertUser,
                    InsertUserRefused, Goto, End, Steps
      <3> QED  BY <1>1, <3>1, <3>2, <3>3, <3>4 DEF Statement
    <2> QED  BY <2>1 DEF IInv, HandlerTypes
  <1>3. ~ RequestBegin(w) /\ ~ VerifyBegin(w)
    BY DEF RequestBegin, VerifyBegin
  <1>4. ~ End(w)
    BY DEF End, IInv, HandlerTypes
  <1>5. ~ Crash(w) /\ ~ SelectNone(w)
    BY <1>4 DEF Crash, SelectNone
  <1> QED
    BY <1>1, <1>2, <1>3, <1>5
    DEF Statement, Supersede, InsertCode, InsertCodeRefused, CommitCode, Dispatch,
        DispatchLost, Check, BurnExpired, MarkUsed, FindUser, FindNobody, NameTaken,
        NameFree, InsertUser, InsertUserRefused

(* A code somebody logged in with is not found by a verification that       *)
(* begins later.                                                            *)
THEOREM UsedCodeCorrect == Spec => UsedCodeIsRefused
  <1>1. ASSUME IInv, [Next]_vars, NEW w \in Workers,
               pc[w] = "select", pc'[w] = "check", NEW l \in logins
        PROVE  l.code # job'[w].code
    <2>1. SelectNewest(w)
      BY <1>1, FoundBySelect
    <2>2. PICK newest \in Candidates(w) :
            job' = [job EXCEPT ![w].code = newest, ![w].phone = Normalize(@)]
      BY <2>1 DEF SelectNewest
    <2>3. job'[w].code = newest
      BY <1>1, <2>2 DEF IInv, HandlerTypes, Jobs
    <2>4. ~ db[newest].used /\ db[l.code].used
      BY <1>1 DEF Candidates, IInv, LoginsUsed
    <2> QED  BY <2>3, <2>4
  <1>2. IInv /\ [Next]_vars =>
          [\A w \in Workers : (pc[w] = "select" /\ pc'[w] = "check")
             => \A l \in logins : l.code # job'[w].code]_vars
    BY <1>1
  <1> QED  BY <1>2, IInvHolds, PTL DEF Spec, UsedCodeIsRefused
====
