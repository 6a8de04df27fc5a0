---- MODULE Accounts ----
(***************************************************************************)
(* One-time passwords and the accounts they open: a code is created and     *)
(* sent, a client types it, its row is marked used, and the account of the  *)
(* phone is found or created (accounts/services.py, managers.py, models.py, *)
(* api/views.py); staff add and change accounts in the admin.               *)
(*                                                                          *)
(* Creating a code is one transaction.  Verifying one is not: the code is   *)
(* read, compared and marked used, and the account is found, named and      *)
(* inserted, in statements that each commit on their own.                   *)
(***************************************************************************)
EXTENDS Naturals, Sequences, FiniteSets, PhoneNumbers

CONSTANTS Workers, None,
          Typed,       \* what clients and staff type as a phone number
          MaxDigits,   \* max_length of the phone columns, less the plus sign
          MaxCodes,    \* bound: how many codes are ever inserted
          MaxUsers,    \* bound: staff add no account when there are so many
          MaxSuffix,   \* bound: the names staff give
          Events       \* which handlers and failures the environment provides

VARIABLES db, work, owner,   \* the codes, of Transactions
          created,   \* how many codes were inserted, rolled back ones included
          expired,   \* codes up to this one are past expires_at
          sms,       \* the messages that reached a phone
          users,     \* the committed accounts
          logins,    \* the tokens handed out for a code
          spoiled,   \* codes whose verification broke off after they were used
          pc,        \* [Workers -> Steps]: the next statement of the handler
          job        \* [Workers -> Jobs]: the handler's local variables

vars == <<db, work, owner, created, expired, sms, users, logins, spoiled, pc, job>>

(* Codes are numbered in the order of created_at; all live equally long, so *)
(* they expire in that order.                                               *)
CodeId == 1 .. MaxCodes
Rows == CodeId

INSTANCE Transactions

AllEvents == {"request", "verify", "staff", "tick", "crash"}

ASSUME AccountConstantsOk ==
  /\ Typed \subseteq Seq(Digits) \ {<<>>}
  /\ MaxDigits \in Nat /\ MaxCodes \in Nat /\ MaxUsers \in Nat
  /\ MaxSuffix \in Nat
  /\ Events \subseteq AllEvents
  /\ None \notin Workers \cup {Normalize(d) : d \in Typed}

Phones == {Normalize(d) : d \in Typed}

(* full_clean, which every save runs, on a phone column.                    *)
FitsColumn(phone) == Len(phone) <= MaxDigits

Stored == {phone \in Phones : FitsColumn(phone)}

(* A name is the digits of a phone, or the digits and a number (0 stands    *)
(* for none); other names never meet the ones that are generated.           *)
AccountRecord == [name : Phones \X Nat, phone : Stored \cup {None}]

(* before holds the codes of the phone that were there when the request for *)
(* this one looked; it is written for the properties only.                  *)
CodeRecord == [phone : Stored \cup {None}, used : BOOLEAN,
               before : SUBSET CodeId]

NoCode == [phone |-> None, used |-> FALSE, before |-> {}]

Steps == {"idle", "supersede", "insert_code", "commit_code", "dispatch",
          "select", "check", "burn", "mark", "find", "name", "insert_user"}

Jobs == [phone : Phones \cup {None},    \* the number, normalised so far
         before : SUBSET CodeId,
         unused : SUBSET CodeId,        \* the rows the UPDATE selects
         code : CodeId \cup {0},        \* the row created or selected
         typed : CodeId \cup {0},       \* 0 is a wrong code
         suffix : Nat]

NoJob == [phone |-> None, before |-> {}, unused |-> {}, code |-> 0, typed |-> 0,
          suffix |-> 0]

Init == /\ db = [c \in Rows |-> NoCode]
        /\ work = db
        /\ owner = [c \in Rows |-> None]
        /\ created = 0 /\ expired = 0
        /\ sms = {} /\ users = {} /\ logins = {} /\ spoiled = {}
        /\ pc = [w \in Workers |-> "idle"]
        /\ job = [w \in Workers |-> NoJob]

codes == <<db, work, owner>>
clock == <<created, expired>>
people == <<users, logins, spoiled>>

Goto(w, step) == /\ pc' = [pc EXCEPT ![w] = step]
                 /\ UNCHANGED job

End(w) == /\ pc' = [pc EXCEPT ![w] = "idle"]
          /\ job' = [job EXCEPT ![w] = NoJob]

Put(c, value) == [x \in {c} |-> value]

----------------------------------------------------------------------------
(* RequestVerificationCodeView: create_verification_code and the message.   *)

CodesOf(phone) == {c \in CodeId : db[c].phone = phone}

Requesting == {w \in Workers : pc[w] \in {"supersede", "insert_code"}}

(* The UPDATE of the unused codes begins: its snapshot says which.          *)
RequestBegin(w) ==
  /\ "request" \in Events /\ pc[w] = "idle"
  /\ created + Cardinality(Requesting) < MaxCodes
  /\ \E d \in Typed :
       LET phone == Normalize(d)
           there == CodesOf(Normalize(phone))
       IN job' = [job EXCEPT ![w] = [NoJob EXCEPT
                    !.phone = phone,
                    !.before = there,
                    !.unused = {c \in there : ~ db[c].used}]]
  /\ pc' = [pc EXCEPT ![w] = "supersede"]
  /\ UNCHANGED <<codes, clock, sms, people>>

(* Mutant: the UPDATE commits on its own, outside a transaction.            *)
SupersedeAtOnce(w) ==
  /\ pc[w] = "supersede"
  /\ Commit(w, [c \in job[w].unused |-> [work[c] EXCEPT !.used = TRUE]])
  /\ Goto(w, "insert_code")
  /\ UNCHANGED <<clock, sms, people>>

(* Mutant: the codes sent before stay valid.                                *)
SupersedeNothing(w) ==
  /\ pc[w] = "supersede"
  /\ Goto(w, "insert_code")
  /\ UNCHANGED <<codes, clock, sms, people>>

(* It waits for the rows of its snapshot; a row that another transaction    *)
(* marked used meanwhile no longer matches, and a row inserted meanwhile is *)
(* not looked at.                                                           *)
Supersede(w) ==
  /\ pc[w] = "supersede"
  /\ \A c \in job[w].unused : Available(w, c)
  /\ Write(w, [c \in {c \in job[w].unused : ~ work[c].used} |->
                 [work[c] EXCEPT !.used = TRUE]])
  /\ Goto(w, "insert_code")
  /\ UNCHANGED <<clock, sms, people>>

InsertCode(w) ==
  /\ pc[w] = "insert_code"
  /\ created < MaxCodes
  /\ LET phone == Normalize(job[w].phone) IN
       /\ FitsColumn(phone)
       /\ Write(w, Put(created + 1, [phone |-> phone, used |-> FALSE,
                                     before |-> job[w].before]))
  /\ created' = created + 1
  /\ job' = [job EXCEPT ![w].code = created + 1]
  /\ pc' = [pc EXCEPT ![w] = "commit_code"]
  /\ UNCHANGED <<expired, sms, people>>

(* A number that fits the serializer's field but, with its country code,    *)
(* not the column: ValidationError, and everything is rolled back.          *)
InsertCodeRefused(w) ==
  /\ pc[w] = "insert_code"
  /\ ~ FitsColumn(Normalize(job[w].phone))
  /\ Rollback(w) /\ End(w)
  /\ UNCHANGED <<clock, sms, people>>

CommitCode(w) ==
  /\ pc[w] = "commit_code"
  /\ Commit(w, NoWrites)
  /\ Goto(w, "dispatch")
  /\ UNCHANGED <<clock, sms, people>>

(* KavenegarClient.send_verification_code.                                  *)
Dispatch(w) ==
  /\ pc[w] = "dispatch"
  /\ sms' = sms \cup {[to |-> job[w].phone, code |-> job[w].code]}
  /\ End(w)
  /\ UNCHANGED <<codes, clock, people>>

(* There is no API key, or the request fails and is only logged: the answer *)
(* is the same.                                                             *)
DispatchLost(w) ==
  /\ pc[w] = "dispatch"
  /\ End(w)
  /\ UNCHANGED <<codes, clock, sms, people>>

----------------------------------------------------------------------------
(* VerifyCodeView: verify_login_code.                                       *)

VerifyBegin(w) ==
  /\ "verify" \in Events /\ pc[w] = "idle"
  /\ \E d \in Typed, typed \in {0} \cup {m.code : m \in sms} :
       job' = [job EXCEPT ![w] = [NoJob EXCEPT !.phone = Normalize(d),
                                              !.typed = typed]]
  /\ pc' = [pc EXCEPT ![w] = "select"]
  /\ UNCHANGED <<codes, clock, sms, people>>

Candidates(w) ==
  {c \in CodesOf(Normalize(job[w].phone)) : ~ db[c].used}

(* InvalidCodeError: "No active verification code found".                   *)
SelectNone(w) ==
  /\ pc[w] = "select"
  /\ Candidates(w) = {}
  /\ End(w)
  /\ UNCHANGED <<codes, clock, sms, people>>

(* The newest unused code, read without a lock, and is_expired.             *)
SelectNewest(w) ==
  /\ pc[w] = "select"
  /\ \E newest \in Candidates(w) :
       /\ \A c \in Candidates(w) : c <= newest
       /\ job' = [job EXCEPT ![w].code = newest, ![w].phone = Normalize(@)]
       /\ pc' = [pc EXCEPT ![w] = IF newest <= expired THEN "burn" ELSE "check"]
  /\ UNCHANGED <<codes, clock, sms, people>>

(* Mutant: whatever was typed is right.                                     *)
MatchesAnything(w) == job[w].code > expired

(* PhoneVerification.verify, which asks for the expiry again.               *)
Matches(w) == job[w].code > expired /\ job[w].typed = job[w].code

Check(w) ==
  /\ pc[w] = "check"
  /\ IF Matches(w) THEN Goto(w, "mark") ELSE End(w)
  /\ UNCHANGED <<codes, clock, sms, people>>

Used(w) == Put(job[w].code, [work[job[w].code] EXCEPT !.used = TRUE])

(* mark_used of an expired code, then CodeExpiredError.                     *)
BurnExpired(w) ==
  /\ pc[w] = "burn"
  /\ Commit(w, Used(w))
  /\ End(w)
  /\ UNCHANGED <<clock, sms, people>>

(* Mutant: a code is not marked used once it matched.                       *)
MarkNothing(w) ==
  /\ pc[w] = "mark"
  /\ Goto(w, "find")
  /\ UNCHANGED <<codes, clock, sms, people>>

(* mark_used: one statement, committed at once.                             *)
MarkUsed(w) ==
  /\ pc[w] = "mark"
  /\ Commit(w, Used(w))
  /\ Goto(w, "find")
  /\ UNCHANGED <<clock, sms, people>>

----------------------------------------------------------------------------
(* get_or_create_by_phone, each statement on its own.                       *)

Inserting == {w \in Workers : pc[w] \in {"find", "name", "insert_user"}}

Login(w, user) ==
  logins' = logins \cup {[code |-> job[w].code, phone |-> user.phone]}

FindUser(w) ==
  /\ pc[w] = "find"
  /\ \E user \in users : /\ user.phone = Normalize(job[w].phone)
                         /\ Login(w, user)
  /\ End(w)
  /\ UNCHANGED <<codes, clock, sms, users, spoiled>>

FindNobody(w) ==
  /\ pc[w] = "find"
  /\ \A user \in users : user.phone # Normalize(job[w].phone)
  /\ job' = [job EXCEPT ![w].phone = Normalize(@)]
  /\ pc' = [pc EXCEPT ![w] = "name"]
  /\ UNCHANGED <<codes, clock, sms, people>>

(* generate_username_from_phone: one exists() for each candidate.           *)
Candidate(w) == <<Normalize(job[w].phone), job[w].suffix>>

(* Mutant: the name is looked up again and again, never the next one.       *)
NameTakenAgain(w) ==
  /\ pc[w] = "name"
  /\ \E user \in users : user.name = Candidate(w)
  /\ UNCHANGED vars

NameTaken(w) ==
  /\ pc[w] = "name"
  /\ \E user \in users : user.name = Candidate(w)
  /\ job' = [job EXCEPT ![w].suffix = @ + 1]
  /\ UNCHANGED <<codes, clock, sms, people, pc>>

NameFree(w) ==
  /\ pc[w] = "name"
  /\ \A user \in users : user.name # Candidate(w)
  /\ Goto(w, "insert_user")
  /\ UNCHANGED <<codes, clock, sms, people>>

(* validate_unique and the unique constraints of username and phone_number. *)
Unique(user, others) ==
  \A other \in others : /\ other.name # user.name
                        /\ user.phone # None => other.phone # user.phone

Newcomer(w) == [name |-> Candidate(w), phone |-> Normalize(job[w].phone)]

InsertUser(w) ==
  /\ pc[w] = "insert_user"
  /\ Unique(Newcomer(w), users)
  /\ users' = users \cup {Newcomer(w)}
  /\ Login(w, Newcomer(w))
  /\ End(w)
  /\ UNCHANGED <<codes, clock, sms, spoiled>>

(* Somebody else took the phone or the name first: ValidationError or       *)
(* IntegrityError, which the view does not catch.                           *)
InsertUserRefused(w) ==
  /\ pc[w] = "insert_user"
  /\ ~ Unique(Newcomer(w), users)
  /\ spoiled' = spoiled \cup {job[w].code}
  /\ End(w)
  /\ UNCHANGED <<codes, clock, sms, users, logins>>

----------------------------------------------------------------------------
(* UserAdmin, the clock, and a process that dies.                           *)

(* What the forms hold; a username is required, a phone is not.             *)
Given == [name : Stored \X (0 .. MaxSuffix), phone : Stored \cup {None}]

StaffAdd ==
  /\ "staff" \in Events
  /\ Cardinality(users) < MaxUsers
  /\ \E user \in Given : /\ Unique(user, users)
                            /\ users' = users \cup {user}
  /\ UNCHANGED <<codes, clock, sms, logins, spoiled, pc, job>>

(* The change form saves every field of the account.                        *)
StaffChange ==
  /\ "staff" \in Events
  /\ \E old \in users, new \in Given :
       /\ new # old /\ Unique(new, users \ {old})
       /\ users' = (users \ {old}) \cup {new}
  /\ UNCHANGED <<codes, clock, sms, logins, spoiled, pc, job>>

(* The admin deletes an account and all that hangs on it.                   *)
StaffDelete ==
  /\ "staff" \in Events
  /\ \E user \in users : users' = users \ {user}
  /\ UNCHANGED <<codes, clock, sms, logins, spoiled, pc, job>>

(* A code passes its expires_at.                                            *)
Expire ==
  /\ "tick" \in Events
  /\ expired < created
  /\ expired' = expired + 1
  /\ UNCHANGED <<codes, created, sms, people, pc, job>>

(* The open transaction is rolled back, what was committed stays.           *)
Crash(w) ==
  /\ "crash" \in Events
  /\ pc[w] # "idle"
  /\ Rollback(w) /\ End(w)
  /\ spoiled' = IF w \in Inserting THEN spoiled \cup {job[w].code} ELSE spoiled
  /\ UNCHANGED <<clock, sms, users, logins>>

Statement(w) ==
  \/ Supersede(w) \/ InsertCode(w) \/ InsertCodeRefused(w) \/ CommitCode(w)
  \/ Dispatch(w) \/ DispatchLost(w)
  \/ SelectNone(w) \/ SelectNewest(w) \/ Check(w) \/ BurnExpired(w) \/ MarkUsed(w)
  \/ FindUser(w) \/ FindNobody(w) \/ NameTaken(w) \/ NameFree(w)
  \/ InsertUser(w) \/ InsertUserRefused(w)

Next == \/ \E w \in Workers : \/ RequestBegin(w) \/ VerifyBegin(w)
                              \/ Statement(w) \/ Crash(w)
        \/ StaffAdd \/ StaffChange \/ StaffDelete \/ Expire

Spec == Init /\ [][Next]_vars

(* A statement that is not blocked runs, one that waits for a row gets it   *)
(* in its turn (PostgreSQL queues lock requests).                           *)
FairSpec == Spec /\ \A w \in Workers : SF_vars(Statement(w))

----------------------------------------------------------------------------
(* Properties.                                                              *)

(* The variables, and what the unique constraints keep.                     *)
TypeOK ==
  /\ db \in [Rows -> CodeRecord] /\ work \in [Rows -> CodeRecord]
  /\ owner \in [Rows -> Workers \cup {None}]
  /\ created \in 0 .. MaxCodes /\ expired \in 0 .. created
  /\ sms \subseteq [to : Phones, code : CodeId]
  /\ users \subseteq AccountRecord
  /\ \A user \in users : Unique(user, users \ {user})
  /\ logins \subseteq [code : CodeId, phone : Phones]
  /\ spoiled \subseteq CodeId
  /\ pc \in [Workers -> Steps]
  /\ job \in [Workers -> Jobs]

(* Asking for a code ends every code of the phone that was there when the   *)
(* request came, whatever overlaps, dies or is rolled back                  *)
(* (create_verification_code).  It says nothing of codes whose requests     *)
(* overlapped: of those, several stay valid.                                *)
SupersededIsUsed == \A c \in CodeId : \A b \in db[c].before : db[b].used

(* A code that is used up was superseded, expired, or was typed by its      *)
(* owner, who is or will be logged in unless the handler broke off: none is *)
(* lost to a request for a new one that did not come about.                 *)
BurnedForAReason ==
  \A c \in CodeId :
    db[c].used =>
      \/ c <= expired
      \/ \E d \in CodeId : c \in db[d].before
      \/ \E l \in logins : l.code = c
      \/ c \in spoiled
      \/ \E w \in Inserting : job[w].code = c

(* Who logs in with a code gets the account of the number the code was sent *)
(* to, spelled as it was sent, though the serializer, the service, the      *)
(* manager and the model each normalise it again.                           *)
OwnerLogsIn ==
  \A l \in logins : \E m \in sms : m.code = l.code /\ m.to = l.phone

(* A verification that begins after somebody logged in with a code does not *)
(* find that code again: codes are only used twice by verifications that    *)
(* overlap (verify_login_code reads the code without a lock).               *)
UsedCodeIsRefused ==
  [][\A w \in Workers :
       (pc[w] = "select" /\ pc'[w] = "check")
         => \A l \in logins : l.code # job'[w].code]_vars

(* Who typed the right code gets an account, if one is not there, under any *)
(* name that is free; only a process that dies, or somebody who takes the   *)
(* name or the phone in between, spoils it.                                 *)
CodeGivesAccount ==
  \A c \in CodeId :
    (\E w \in Workers : pc[w] = "find" /\ job[w].code = c) ~>
      (c \in spoiled \/ \E l \in logins : l.code = c)
====
