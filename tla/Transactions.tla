---- MODULE Transactions ----
(***************************************************************************)
(* The part of PostgreSQL the services lean on through transaction.atomic   *)
(* and select_for_update: rows, READ COMMITTED transactions and row locks.  *)
(*                                                                          *)
(* A worker is one web process.  A statement reads the committed value of a *)
(* row, or the worker's own uncommitted one.  Writing a row, or selecting   *)
(* it FOR UPDATE, makes the worker its owner until the transaction ends; a  *)
(* statement that needs a row somebody else owns waits.  A row that is not  *)
(* in a table yet (a unique key nobody inserted) is a row too: inserting it *)
(* owns it, which is how an insert waits for a concurrent insert of the     *)
(* same unique value.                                                       *)
(***************************************************************************)
CONSTANTS Workers, Rows, None

VARIABLES db,      \* the committed value of every row
          work,    \* its value with the owner's uncommitted writes
          owner    \* the worker whose open transaction locks the row, or None

Seen(w, x) == IF owner[x] = w THEN work[x] ELSE db[x]

Available(w, x) == owner[x] \in {w, None}

Held(w) == {x \in Rows : owner[x] = w}

NoWrites == <<>>

Overlay(change, image) ==
  [x \in Rows |-> IF x \in DOMAIN change THEN change[x] ELSE image[x]]

Released(w) == [x \in Rows |-> IF owner[x] = w THEN None ELSE owner[x]]

(* One statement: lock and write the rows of change, a function from rows   *)
(* to values.                                                               *)
Write(w, change) ==
  /\ \A x \in DOMAIN change : Available(w, x)
  /\ work' = Overlay(change, work)
  /\ owner' = [x \in Rows |-> IF x \in DOMAIN change THEN w ELSE owner[x]]
  /\ UNCHANGED db

(* SELECT ... FOR UPDATE of one row.                                        *)
LockRow(w, x) == Write(w, [y \in {x} |-> work[y]])

(* The last writes of a transaction and its COMMIT.                         *)
Commit(w, change) ==
  /\ \A x \in DOMAIN change : Available(w, x)
  /\ work' = Overlay(change, work)
  /\ db' = [x \in Rows |-> IF x \in DOMAIN change \/ owner[x] = w
                           THEN Overlay(change, work)[x] ELSE db[x]]
  /\ owner' = Released(w)

(* ROLLBACK: the worker's rows go back to their committed values.           *)
Rollback(w) ==
  /\ work' = [x \in Rows |-> IF owner[x] = w THEN db[x] ELSE work[x]]
  /\ owner' = Released(w)
  /\ UNCHANGED db

(* Workers that wait for each other in a ring.  blockers[v] is the set of   *)
(* workers v waits for; PostgreSQL cancels the statement of one of a ring.  *)
InRing(w, blockers) ==
  \E ring \in SUBSET Workers :
    /\ w \in ring
    /\ \A v \in ring : \E u \in ring \ {v} : u \in blockers[v]
    /\ \A v \in ring : \E u \in ring \ {v} : v \in blockers[u]
====
