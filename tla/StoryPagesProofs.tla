---- MODULE StoryPagesProofs ----
(* What the scenes of a story keep, whoever drafts, replaces, reorders and  *)
(* deletes them at the same time, for any number of workers, scenes and     *)
(* pages, and for lists of any length.                                      *)
EXTENDS StoryPages, FiniteSetTheorems, TLAPS

USE BookConstantsOk

----------------------------------------------------------------------------
(* Rows and lists.                                                          *)

(* A row is the story's or that of one scene.                               *)
LEMMA RowFacts ==
  /\ StoryRow \in Rows
  /\ \A x \in SceneId : SceneRow(x) \in Rows /\ SceneRow(x) # StoryRow
  /\ \A x, y \in SceneId : SceneRow(x) = SceneRow(y) => x = y
  /\ \A r \in Rows : r = StoryRow \/ \E x \in SceneId : r = SceneRow(x)
  BY DEF Rows, SceneRow, StoryRow

(* What the members of a bounded list are.                                  *)
LEMMA ListFacts ==
  ASSUME NEW S, NEW n \in Nat, NEW s \in BoundedSeq(S, n)
  PROVE  /\ s \in Seq(S) /\ Len(s) \in 0 .. n
         /\ DOMAIN s = 1 .. Len(s)
         /\ \A k \in 1 .. Len(s) : s[k] \in S
  <1>1. PICK m \in 0 .. n : s \in [1 .. m -> S]
    BY DEF BoundedSeq, SeqOf
  <1>2. s \in Seq(S) /\ Len(s) = m
    BY <1>1
  <1> QED  BY <1>1, <1>2

(* The list of a draft or a replacement.                                    *)
LEMMA PayloadFacts ==
  ASSUME NEW payload \in Payloads
  PROVE  /\ Len(payload) \in 0 .. MaxItems
         /\ DOMAIN payload = 1 .. Len(payload)
         /\ payload # <<>> <=> Len(payload) > 0
         /\ \A k \in 1 .. Len(payload) :
              /\ payload[k] \in Items
              /\ payload[k].id \in Nat
              /\ Page(payload, k) \in Nat /\ Page(payload, k) > 0
  <1>1. /\ payload \in Seq(Items) /\ Len(payload) \in 0 .. MaxItems
        /\ DOMAIN payload = 1 .. Len(payload)
        /\ \A k \in 1 .. Len(payload) : payload[k] \in Items
    BY ListFacts DEF Payloads
  <1>2. ASSUME NEW k \in 1 .. Len(payload)
        PROVE  payload[k].id \in Nat /\ Page(payload, k) \in Nat
               /\ Page(payload, k) > 0
    <2>1. payload[k].id \in 0 .. MaxId /\ payload[k].page \in 0 .. MaxPage
      BY <1>1 DEF Items
    <2> QED  BY <1>1, <2>1 DEF Page
  <1>3. payload # <<>> <=> Len(payload) > 0
    BY <1>1
  <1> QED  BY <1>1, <1>2, <1>3

(* The list of a reordering.                                                *)
LEMMA OrderFacts ==
  ASSUME NEW order \in Orders
  PROVE  /\ Len(order) \in 0 .. MaxItems
         /\ DOMAIN order = 1 .. Len(order)
         /\ order # <<>> <=> Len(order) > 0
         /\ \A k \in 1 .. Len(order) :
              order[k].id \in SceneId /\ order[k].page \in Nat
  <1>1. /\ order \in Seq(Moves) /\ Len(order) \in 0 .. MaxItems
        /\ DOMAIN order = 1 .. Len(order)
        /\ \A k \in 1 .. Len(order) : order[k] \in Moves
    BY ListFacts DEF Orders
  <1>2. ASSUME NEW k \in 1 .. Len(order)
        PROVE  order[k].id \in SceneId /\ order[k].page \in Nat
    <2>1. order[k].id \in 1 .. MaxMoved /\ order[k].page \in Places
      BY <1>1 DEF Moves
    <2>2. order[k].id \in SceneId
      BY <2>1 DEF SceneId
    <2>3. order[k].page \in Nat
      BY <2>1
    <2> QED  BY <2>2, <2>3
  <1>3. order # <<>> <=> Len(order) > 0
    BY <1>1
  <1> QED  BY <1>1, <1>2, <1>3

----------------------------------------------------------------------------
(* Pages.                                                                   *)

(* No two scenes share a page in the committed image d, nor in the image k  *)
(* with uncommitted writes; nor does an uncommitted page clash with the     *)
(* committed page of a row that somebody else holds, which is what the      *)
(* first two need when transactions end in any order.                       *)
PagesApart(d, k, o) ==
  \A x, y \in SceneId :
    LET r == SceneRow(x) s == SceneRow(y) IN
      /\ (x # y /\ d[r] > 0) => d[r] # d[s]
      /\ (x # y /\ k[r] > 0) => k[r] # k[s]
      /\ (o[r] # o[s] /\ k[r] > 0) => k[r] # d[s]

(* The rows w writes are locked by w.                                       *)
LockedBy(w, S) == [x \in Rows |-> IF x \in S THEN w ELSE owner[x]]

(* What w wrote is committed.                                               *)
Published(w, k, o) == [x \in Rows |-> IF o[x] = w THEN k[x] ELSE db[x]]

(* and the rows it held are free.                                           *)
Freed(w, o) == [x \in Rows |-> IF o[x] = w THEN None ELSE o[x]]

(* An unlocked row has no uncommitted write.                                *)
Settled == \A x \in SceneId :
             owner[SceneRow(x)] = None => work[SceneRow(x)] = db[SceneRow(x)]

(* w holds the row of scene x.                                              *)
Owns(w, x) == owner[SceneRow(x)] = w

(* Locking scenes and deleting them keeps the pages apart.                  *)
LEMMA DeletesKeepApart ==
  ASSUME PagesApart(db, work, owner), Settled, NEW w \in Workers,
         NEW S \in SUBSET Rows, NEW change,
         DOMAIN change = S,
         \A x \in S : Available(w, x),
         \A x \in S : change[x] = Deleted \/ change[x] = work[x]
  PROVE  PagesApart(db, Overlay(change, work), LockedBy(w, S))
  <1> SUFFICES ASSUME NEW x \in SceneId, NEW y \in SceneId
               PROVE  LET r == SceneRow(x) s == SceneRow(y)
                          k == Overlay(change, work) o == LockedBy(w, S) IN
                        /\ (x # y /\ db[r] > 0) => db[r] # db[s]
                        /\ (x # y /\ k[r] > 0) => k[r] # k[s]
                        /\ (o[r] # o[s] /\ k[r] > 0) => k[r] # db[s]
    BY DEF PagesApart
  <1> DEFINE r == SceneRow(x)
             s == SceneRow(y)
             k == Overlay(change, work)
             o == LockedBy(w, S)
  <1>1. r \in Rows /\ s \in Rows
    BY RowFacts
  <1>2. /\ k[r] = (IF r \in S THEN change[r] ELSE work[r])
        /\ k[s] = (IF s \in S THEN change[s] ELSE work[s])
        /\ o[r] = (IF r \in S THEN w ELSE owner[r])
        /\ o[s] = (IF s \in S THEN w ELSE owner[s])
    BY <1>1 DEF Overlay, LockedBy
  <1>3. /\ r \in S => owner[r] \in {w, None}
        /\ s \in S => owner[s] \in {w, None}
    BY DEF Available
  <1>4. /\ k[r] = Deleted \/ k[r] = work[r]
        /\ k[s] = Deleted \/ k[s] = work[s]
    BY <1>2
  <1>5. /\ (x # y /\ db[r] > 0) => db[r] # db[s]
        /\ (x # y /\ work[r] > 0) => work[r] # work[s]
        /\ (owner[r] # owner[s] /\ work[r] > 0) => work[r] # db[s]
        /\ owner[r] = None => work[r] = db[r]
        /\ owner[s] = None => work[s] = db[s]
    BY DEF PagesApart, Settled
  <1>6. (x # y /\ k[r] > 0) => k[r] # k[s]
    BY <1>4, <1>5 DEF Deleted
  <1>7. (o[r] # o[s] /\ k[r] > 0) => k[r] # db[s]
    BY <1>2, <1>3, <1>4, <1>5 DEF Deleted
  <1> QED  BY <1>5, <1>6, <1>7

(* Storing a scene on a page that nobody has, as far as its worker can see  *)
(* and as the unique index knows, keeps the pages apart.                    *)
LEMMA StoreKeepsApart ==
  ASSUME PagesApart(db, work, owner), Settled, NEW w \in Workers,
         NEW z \in SceneId, Available(w, SceneRow(z)), NEW page,
         \A x \in SceneId \ {z} : Seen(w, SceneRow(x)) # page,
         PageWait(w, page) = {}
  PROVE  PagesApart(db, Overlay(Put(SceneRow(z), page), work),
                    LockedBy(w, {SceneRow(z)}))
  <1> DEFINE k == Overlay(Put(SceneRow(z), page), work)
             o == LockedBy(w, {SceneRow(z)})
  <1>1. /\ k[SceneRow(z)] = page
        /\ o[SceneRow(z)] = w
        /\ \A x \in SceneId \ {z} : /\ k[SceneRow(x)] = work[SceneRow(x)]
                                    /\ o[SceneRow(x)] = owner[SceneRow(x)]
    BY RowFacts DEF Overlay, LockedBy, Put
  <1>2. \A x \in SceneId \ {z} : db[SceneRow(x)] # page \/ Owns(w, x)
    BY DEF Seen, Owns
  <1>3. \A x \in SceneId \ {z} : work[SceneRow(x)] # page
    <2> SUFFICES ASSUME NEW x \in SceneId \ {z} PROVE work[SceneRow(x)] # page
      OBVIOUS
    <2>1. CASE owner[SceneRow(x)] = w
      BY <2>1 DEF Seen
    <2>2. CASE owner[SceneRow(x)] = None
      BY <2>2 DEF Seen, Settled
    <2>3. CASE owner[SceneRow(x)] \notin {w, None}
      BY <2>3 DEF PageWait, Available
    <2> QED  BY <2>1, <2>2, <2>3
  <1> SUFFICES ASSUME NEW x \in SceneId, NEW y \in SceneId
               PROVE  LET r == SceneRow(x) s == SceneRow(y) IN
                        /\ (x # y /\ db[r] > 0) => db[r] # db[s]
                        /\ (x # y /\ k[r] > 0) => k[r] # k[s]
                        /\ (o[r] # o[s] /\ k[r] > 0) => k[r] # db[s]
    BY DEF PagesApart
  <1> HIDE DEF k, o
  <1>4. /\ (x # y /\ db[SceneRow(x)] > 0) => db[SceneRow(x)] # db[SceneRow(y)]
        /\ (x # y /\ work[SceneRow(x)] > 0)
             => work[SceneRow(x)] # work[SceneRow(y)]
        /\ (owner[SceneRow(x)] # owner[SceneRow(y)] /\ work[SceneRow(x)] > 0)
             => work[SceneRow(x)] # db[SceneRow(y)]
        /\ owner[SceneRow(x)] = None => work[SceneRow(x)] = db[SceneRow(x)]
    BY DEF PagesApart, Settled
  <1>5. CASE x = z
    BY <1>1, <1>2, <1>3, <1>4, <1>5 DEF Owns
  <1>6. CASE x # z /\ y = z
    <2>1. (o[SceneRow(x)] # o[SceneRow(y)] /\ k[SceneRow(x)] > 0)
            => k[SceneRow(x)] # db[SceneRow(y)]
      <3>1. CASE owner[SceneRow(z)] = w
        BY <1>1, <1>4, <1>6, <3>1
      <3>2. CASE owner[SceneRow(z)] = None /\ owner[SceneRow(x)] = None
        BY <1>1, <1>4, <1>6, <3>2
      <3>3. CASE owner[SceneRow(z)] = None /\ owner[SceneRow(x)] # None
        BY <1>1, <1>4, <1>6, <3>3
      <3> QED  BY <3>1, <3>2, <3>3 DEF Available
    <2> QED  BY <1>1, <1>3, <1>4, <1>6, <2>1
  <1>7. CASE x # z /\ y # z
    BY <1>1, <1>4, <1>7
  <1> QED  BY <1>5, <1>6, <1>7

(* Committing what w wrote keeps the pages apart,                           *)
LEMMA PublishKeepsApart ==
  ASSUME NEW k, NEW o, PagesApart(db, k, o), NEW w \in Workers
  PROVE  PagesApart(Published(w, k, o), k, Freed(w, o))
  <1> SUFFICES ASSUME NEW x \in SceneId, NEW y \in SceneId
               PROVE  LET r == SceneRow(x) s == SceneRow(y)
                          d == Published(w, k, o) f == Freed(w, o) IN
                        /\ (x # y /\ d[r] > 0) => d[r] # d[s]
                        /\ (x # y /\ k[r] > 0) => k[r] # k[s]
                        /\ (f[r] # f[s] /\ k[r] > 0) => k[r] # d[s]
    BY DEF PagesApart
  <1> DEFINE r == SceneRow(x)
             s == SceneRow(y)
  <1>1. /\ (x # y /\ db[r] > 0) => db[r] # db[s]
        /\ (x # y /\ k[r] > 0) => k[r] # k[s]
        /\ (o[r] # o[s] /\ k[r] > 0) => k[r] # db[s]
        /\ (o[r] # o[s] /\ k[s] > 0) => k[s] # db[r]
    BY DEF PagesApart
  <1>2. r \in Rows /\ s \in Rows
    BY RowFacts
  <1>3. /\ Published(w, k, o)[r] = (IF o[r] = w THEN k[r] ELSE db[r])
        /\ Published(w, k, o)[s] = (IF o[s] = w THEN k[s] ELSE db[s])
        /\ Freed(w, o)[r] = (IF o[r] = w THEN None ELSE o[r])
        /\ Freed(w, o)[s] = (IF o[s] = w THEN None ELSE o[s])
    BY <1>2 DEF Published, Freed
  <1>4. (r = s) <=> (x = y)
    BY RowFacts
  <1> QED  BY <1>1, <1>3, <1>4

(* and so does rolling it back.                                             *)
LEMMA RollbackKeepsApart ==
  ASSUME PagesApart(db, work, owner), NEW w \in Workers, Rollback(w)
  PROVE  PagesApart(db', work', owner')
  <1> SUFFICES ASSUME NEW x \in SceneId, NEW y \in SceneId
               PROVE  LET r == SceneRow(x) s == SceneRow(y) IN
                 /\ (x # y /\ db'[r] > 0) => db'[r] # db'[s]
                 /\ (x # y /\ work'[r] > 0) => work'[r] # work'[s]
                 /\ (owner'[r] # owner'[s] /\ work'[r] > 0) => work'[r] # db'[s]
    BY DEF PagesApart
  <1> DEFINE r == SceneRow(x)
             s == SceneRow(y)
  <1>1. /\ (x # y /\ db[r] > 0) => db[r] # db[s]
        /\ (x # y /\ work[r] > 0) => work[r] # work[s]
        /\ (owner[r] # owner[s] /\ work[r] > 0) => work[r] # db[s]
        /\ (owner[r] # owner[s] /\ work[s] > 0) => work[s] # db[r]
    BY DEF PagesApart
  <1>2. r \in Rows /\ s \in Rows /\ ((r = s) <=> (x = y))
    BY RowFacts
  <1>3. /\ work'[r] = (IF owner[r] = w THEN db[r] ELSE work[r])
        /\ work'[s] = (IF owner[s] = w THEN db[s] ELSE work[s])
        /\ owner'[r] = (IF owner[r] = w THEN None ELSE owner[r])
        /\ owner'[s] = (IF owner[s] = w THEN None ELSE owner[s])
        /\ db' = db
    BY <1>2 DEF Rollback, Released
  <1> QED  BY <1>1, <1>2, <1>3

----------------------------------------------------------------------------
(* Rows.                                                                    *)

(* What a row holds: a page, or that there is none.                         *)
Values == {Deleted} \cup Nat

(* The types of the images and the locks.                                   *)
RowTypes == /\ db \in [Rows -> Values] /\ work \in [Rows -> Values]
            /\ owner \in [Rows -> Workers \cup {None}]
            /\ db[StoryRow] \in {Unused, Made, Deleted}

(* Nobody ever waits for the story's row.                                   *)
StoryFree == work[StoryRow] = db[StoryRow] /\ owner[StoryRow] = None

(* A row that is held is one of a scene that is or was.                     *)
Written == \A x \in SceneId :
             owner[SceneRow(x)] # None => work[SceneRow(x)] # Unused

(* Before there is a story there are no scenes.                             *)
NothingYet ==
  db[StoryRow] = Unused =>
    \A x \in SceneId : owner[SceneRow(x)] = None /\ db[SceneRow(x)] = Unused

(* All of this.                                                             *)
RowsOk == /\ RowTypes /\ StoryFree /\ Settled /\ Written /\ NothingYet
          /\ PagesApart(db, work, owner)

(* What the statements of the handlers write.                               *)
ChangeOk(change, S) ==
  /\ S \subseteq Rows /\ DOMAIN change = S
  /\ \A x \in S : change[x] \in Values \ {Unused}
  /\ StoryRow \in S => change[StoryRow] \in {Made, Deleted}
  /\ S = {} \/ StoryRow \in S \/ db[StoryRow] # Unused

(* A commit row by row.                                                     *)
LEMMA CommitShows ==
  ASSUME RowsOk, NEW w \in Workers, NEW change, NEW S, ChangeOk(change, S),
         Commit(w, change)
  PROVE  \A x \in Rows :
           /\ x \in S => owner[x] \in {w, None}
           /\ work'[x] = (IF x \in S THEN change[x] ELSE work[x])
           /\ db'[x] = (IF x \in S THEN change[x]
                        ELSE IF owner[x] = w THEN work[x] ELSE db[x])
           /\ owner'[x] = (IF owner[x] = w THEN None ELSE owner[x])
  BY DEF Commit, Overlay, Released, Available, ChangeOk

(* A commit keeps the rows in order.                                        *)
LEMMA CommitRows ==
  ASSUME RowsOk, NEW w \in Workers, NEW change, NEW S, ChangeOk(change, S),
         Commit(w, change),
         PagesApart(db, Overlay(change, work), LockedBy(w, S))
  PROVE  RowsOk'
  <1>1. \A x \in Rows :
           /\ x \in S => owner[x] \in {w, None}
           /\ work'[x] = (IF x \in S THEN change[x] ELSE work[x])
           /\ db'[x] = (IF x \in S THEN change[x]
                        ELSE IF owner[x] = w THEN work[x] ELSE db[x])
           /\ owner'[x] = (IF owner[x] = w THEN None ELSE owner[x])
    BY CommitShows
  <1>2. /\ db' = [x \in Rows |-> db'[x]] /\ work' = [x \in Rows |-> work'[x]]
        /\ owner' = [x \in Rows |-> owner'[x]]
    BY DEF Commit, Overlay, Released
  <1>3. RowTypes'
    <2>1. \A x \in Rows : db'[x] \in Values /\ work'[x] \in Values
      BY <1>1 DEF RowsOk, RowTypes, ChangeOk
    <2>2. \A x \in Rows : owner'[x] \in Workers \cup {None}
      BY <1>1 DEF RowsOk, RowTypes
    <2>3. db'[StoryRow] \in {Unused, Made, Deleted}
      BY <1>1, RowFacts DEF RowsOk, RowTypes, StoryFree, ChangeOk
    <2> QED  BY <1>2, <2>1, <2>2, <2>3 DEF RowTypes
  <1>4. StoryFree'
    BY <1>1, RowFacts DEF RowsOk, StoryFree, ChangeOk
  <1>5. Settled' /\ Written'
    BY <1>1, RowFacts DEF RowsOk, Settled, Written
  <1>6. NothingYet'
    <2> SUFFICES ASSUME db'[StoryRow] = Unused
                 PROVE  \A x \in SceneId : /\ owner'[SceneRow(x)] = None
                                           /\ db'[SceneRow(x)] = Unused
      BY DEF NothingYet
    <2>1. StoryRow \notin S /\ db[StoryRow] = Unused
      BY <1>1, RowFacts DEF RowsOk, StoryFree, ChangeOk, Unused, Made, Deleted
    <2>2. S = {}
      BY <2>1 DEF ChangeOk
    <2> QED  BY <1>1, <2>1, <2>2, RowFacts DEF RowsOk, NothingYet
  <1>7. PagesApart(db', work', owner')
    <2> DEFINE k == Overlay(change, work)
               o == LockedBy(w, S)
    <2>1. PagesApart(Published(w, k, o), k, Freed(w, o))
      BY PublishKeepsApart
    <2>2. \A x \in Rows : /\ Published(w, k, o)[x] = db'[x]
                          /\ k[x] = work'[x]
                          /\ Freed(w, o)[x] = owner'[x]
      BY <1>1 DEF Published, Freed, Overlay, LockedBy, ChangeOk
    <2> HIDE DEF k, o
    <2> QED  BY <2>1, <2>2, RowFacts DEF PagesApart
  <1> QED  BY <1>3, <1>4, <1>5, <1>6, <1>7 DEF RowsOk

(* A statement within a transaction keeps them in order,                    *)
LEMMA WriteRows ==
  ASSUME RowsOk, NEW w \in Workers, NEW change, NEW S, ChangeOk(change, S),
         StoryRow \notin S, Write(w, change),
         PagesApart(db, Overlay(change, work), LockedBy(w, S))
  PROVE  RowsOk'
  <1>1. /\ db' = db /\ work' = Overlay(change, work)
        /\ owner' = LockedBy(w, S)
    BY DEF Write, LockedBy, ChangeOk
  <1>2. \A x \in Rows :
           /\ work'[x] = (IF x \in S THEN change[x] ELSE work[x])
           /\ owner'[x] = (IF x \in S THEN w ELSE owner[x])
    BY <1>1 DEF Overlay, LockedBy, ChangeOk
  <1>3. RowTypes'
    <2>1. \A x \in Rows : work'[x] \in Values
      BY <1>2 DEF RowsOk, RowTypes, ChangeOk
    <2>2. \A x \in Rows : owner'[x] \in Workers \cup {None}
      BY <1>2 DEF RowsOk, RowTypes
    <2>3. work' \in [Rows -> Values] /\ owner' \in [Rows -> Workers \cup {None}]
      BY <1>1, <2>1, <2>2 DEF Overlay, LockedBy
    <2> QED  BY <1>1, <2>3 DEF RowsOk, RowTypes
  <1>4. StoryFree'
    BY <1>1, <1>2, RowFacts DEF RowsOk, StoryFree
  <1>5. Settled' /\ Written'
    BY <1>1, <1>2, RowFacts DEF RowsOk, Settled, Written, ChangeOk
  <1>6. NothingYet'
    BY <1>1, <1>2, RowFacts DEF RowsOk, NothingYet, ChangeOk
  <1>7. PagesApart(db', work', owner')
    BY <1>1
  <1> QED  BY <1>3, <1>4, <1>5, <1>6, <1>7 DEF RowsOk

(* and so does a rollback.                                                  *)
LEMMA RollbackRows ==
  ASSUME RowsOk, NEW w \in Workers, Rollback(w)
  PROVE  RowsOk'
  <1>1. db' = db /\ \A x \in Rows :
           /\ work'[x] = (IF owner[x] = w THEN db[x] ELSE work[x])
           /\ owner'[x] = (IF owner[x] = w THEN None ELSE owner[x])
    BY DEF Rollback, Released
  <1>2. RowTypes'
    <2>1. \A x \in Rows : /\ work'[x] \in Values
                          /\ owner'[x] \in Workers \cup {None}
      BY <1>1 DEF RowsOk, RowTypes
    <2>2. work' \in [Rows -> Values] /\ owner' \in [Rows -> Workers \cup {None}]
      BY <2>1 DEF Rollback, Released
    <2> QED  BY <1>1, <2>2 DEF RowsOk, RowTypes
  <1>3. StoryFree'
    BY <1>1, RowFacts DEF RowsOk, StoryFree
  <1>4. Settled' /\ Written' /\ NothingYet'
    BY <1>1, RowFacts DEF RowsOk, Settled, Written, NothingYet
  <1>5. PagesApart(db', work', owner')
    BY RollbackKeepsApart DEF RowsOk
  <1> QED  BY <1>2, <1>3, <1>4, <1>5 DEF RowsOk

----------------------------------------------------------------------------
(* Handlers.                                                                *)

(* w has locked no scene.                                                  *)
HoldsNothing(w) == \A x \in SceneId : ~ Owns(w, x)

(* The items stored so far: their pages are those of the retained scenes,   *)
(* and a scene the list names is retained, on its page.                     *)
Placed(w) ==
  LET payload == job[w].payload
      stored == 1 .. job[w].next - 1
  IN /\ {work[SceneRow(x)] : x \in job[w].retained}
          = {Page(payload, k) : k \in stored}
     /\ \A k \in stored :
          payload[k].id \in job[w].found
            => /\ payload[k].id \in job[w].retained
               /\ work[SceneRow(payload[k].id)] = Page(payload, k)
     /\ \A x \in job[w].retained \cap job[w].found :
          \E k \in stored : payload[k].id = x

(* A replacement under way holds what it found and what it inserted.        *)
Replacing(w) ==
  /\ job[w].payload \in Payloads
  /\ \A x \in job[w].found : Owns(w, x) /\ db[SceneRow(x)] > 0
  /\ \A x \in job[w].retained : Owns(w, x) /\ work[SceneRow(x)] > 0
  /\ \A x \in SceneId : Owns(w, x) =>
       \/ x \in job[w].found
       \/ x \in job[w].retained /\ db[SceneRow(x)] = Unused
  /\ job[w].next > 1 => job[w].retained # {}
  /\ DistinctIds(job[w].payload) => Placed(w)

(* A reordering under way holds what it found, moved as its items say.      *)
Moving(w) ==
  /\ job[w].payload \in Orders
  /\ \A x \in job[w].found :
       /\ Owns(w, x) /\ db[SceneRow(x)] > 0 /\ work[SceneRow(x)] > 0
       /\ work[SceneRow(x)]
            = Reordered(job[w].payload, job[w].next - 1, db)[SceneRow(x)]
  /\ \A x \in SceneId : Owns(w, x) => x \in job[w].found
  /\ \A k \in 1 .. job[w].next - 1 : job[w].payload[k].id \in job[w].found

(* What a handler has written and knows, by the statement it is at.         *)
HandlerOk(w) ==
  /\ pc[w] \in {"idle", "draft", "select", "order", "scenes", "request"}
       => HoldsNothing(w)
  /\ pc[w] \in {"draft", "select"} => job[w].payload \in Payloads
  /\ pc[w] = "order" => job[w].payload \in Orders
  /\ pc[w] \in {"select", "order"} =>
       /\ job[w].payload # <<>> /\ job[w].next = 1 /\ job[w].retained = {}
  /\ pc[w] = "item" => Replacing(w) /\ job[w].next <= Len(job[w].payload)
  /\ pc[w] = "delete" =>
       /\ Replacing(w)
       /\ job[w].next = Len(job[w].payload) + 1 /\ job[w].payload # <<>>
  /\ pc[w] = "move" => Moving(w) /\ job[w].next <= Len(job[w].payload)
  /\ pc[w] = "scenes" => db[StoryRow] # Unused
  /\ pc[w] = "story" =>
       \A x \in SceneId : Owns(w, x) => work[SceneRow(x)] = Deleted

(* The types of the handlers.                                               *)
JobTypes == /\ pc \in [Workers -> Steps]
            /\ job \in [Workers -> Jobs]

(* The inductive invariant.                                                 *)
IInv == /\ RowsOk /\ JobTypes
        /\ NoOrphans /\ AlwaysAScene
        /\ \A w \in Workers : HandlerOk(w)

(* A step of w as the others see it.                                        *)
RowsAside(w) ==
  /\ db[StoryRow] # Unused => db'[StoryRow] # Unused
  /\ \A x \in SceneId, v \in Workers \ {w} :
       /\ Owns(v, x)' <=> Owns(v, x)
       /\ Owns(v, x) => /\ work'[SceneRow(x)] = work[SceneRow(x)]
                        /\ db'[SceneRow(x)] = db[SceneRow(x)]

(* Nobody touches rows that others hold.                                    *)
LEMMA CommitAside ==
  ASSUME RowsOk, NEW w \in Workers, NEW change, NEW S, ChangeOk(change, S),
         Commit(w, change)
  PROVE  RowsAside(w)
  <1>1. \A x \in Rows :
           /\ x \in S => owner[x] \in {w, None}
           /\ work'[x] = (IF x \in S THEN change[x] ELSE work[x])
           /\ db'[x] = (IF x \in S THEN change[x]
                        ELSE IF owner[x] = w THEN work[x] ELSE db[x])
           /\ owner'[x] = (IF owner[x] = w THEN None ELSE owner[x])
    BY CommitShows
  <1>2. db[StoryRow] # Unused => db'[StoryRow] # Unused
    BY <1>1, RowFacts DEF RowsOk, StoryFree, ChangeOk, Unused, Made, Deleted
  <1>3. ASSUME NEW x \in SceneId, NEW v \in Workers \ {w}
        PROVE  /\ Owns(v, x)' <=> Owns(v, x)
               /\ Owns(v, x) => /\ work'[SceneRow(x)] = work[SceneRow(x)]
                                /\ db'[SceneRow(x)] = db[SceneRow(x)]
    BY <1>1, RowFacts DEF Owns
  <1> QED  BY <1>2, <1>3 DEF RowsAside

(* A write within a transaction,                                            *)
LEMMA WriteAside ==
  ASSUME RowsOk, NEW w \in Workers, NEW change, NEW S, ChangeOk(change, S),
         Write(w, change)
  PROVE  RowsAside(w)
  <1>1. db' = db /\ \A x \in Rows :
           /\ x \in S => owner[x] \in {w, None}
           /\ work'[x] = (IF x \in S THEN change[x] ELSE work[x])
           /\ owner'[x] = (IF x \in S THEN w ELSE owner[x])
    BY DEF Write, Overlay, Available, ChangeOk
  <1> QED  BY <1>1, RowFacts DEF RowsAside, Owns

(* and a rollback alike.                                                    *)
LEMMA RollbackAside ==
  ASSUME RowsOk, NEW w \in Workers, Rollback(w)
  PROVE  RowsAside(w)
  <1>1. db' = db /\ \A x \in Rows :
           /\ work'[x] = (IF owner[x] = w THEN db[x] ELSE work[x])
           /\ owner'[x] = (IF owner[x] = w THEN None ELSE owner[x])
    BY DEF Rollback, Released
  <1> QED  BY <1>1, RowFacts DEF RowsAside, Owns

(* What a reordering makes of one row.                                      *)
LEMMA ReorderedAt ==
  ASSUME NEW order, NEW n, NEW image, NEW x \in SceneId
  PROVE  Reordered(order, n, image)[SceneRow(x)]
           = IF Given(order, n, SceneRow(x)) = {} THEN image[SceneRow(x)]
             ELSE order[Max(Given(order, n, SceneRow(x)))].page
  BY RowFacts DEF Reordered

(* So a step of one handler leaves what holds of the others.                *)
LEMMA OthersOk ==
  ASSUME JobTypes, NEW w \in Workers, NEW v \in Workers \ {w}, RowsAside(w),
         HandlerOk(v), pc'[v] = pc[v], job'[v] = job[v]
  PROVE  HandlerOk(v)'
  <1>1. \A x \in SceneId :
          /\ Owns(v, x)' <=> Owns(v, x)
          /\ Owns(v, x) => /\ work'[SceneRow(x)] = work[SceneRow(x)]
                           /\ db'[SceneRow(x)] = db[SceneRow(x)]
    BY DEF RowsAside
  <1>2. /\ job[v].found \subseteq SceneId
        /\ job[v].retained \subseteq SceneId
    BY DEF JobTypes, Jobs
  <1>3. HoldsNothing(v) => HoldsNothing(v)'
    BY <1>1 DEF HoldsNothing
  <1>4. Replacing(v) => Replacing(v)'
    <2> SUFFICES ASSUME Replacing(v) PROVE Replacing(v)'
      OBVIOUS
    <2>1. \A x \in job[v].found \cup job[v].retained :
            /\ Owns(v, x) /\ Owns(v, x)'
            /\ work'[SceneRow(x)] = work[SceneRow(x)]
            /\ db'[SceneRow(x)] = db[SceneRow(x)]
      BY <1>1, <1>2 DEF Replacing
    <2>2. Placed(v) => Placed(v)'
      <3>1. {work'[SceneRow(x)] : x \in job[v].retained}
              = {work[SceneRow(x)] : x \in job[v].retained}
        BY <2>1
      <3> QED  BY <2>1, <3>1 DEF Placed
    <2> QED  BY <1>1, <2>1, <2>2 DEF Replacing
  <1>5. Moving(v) => Moving(v)'
    <2> SUFFICES ASSUME Moving(v) PROVE Moving(v)'
      OBVIOUS
    <2>1. \A x \in job[v].found :
            /\ Owns(v, x) /\ Owns(v, x)'
            /\ work'[SceneRow(x)] = work[SceneRow(x)]
            /\ db'[SceneRow(x)] = db[SceneRow(x)]
      BY <1>1, <1>2 DEF Moving
    <2>2. ASSUME NEW x \in job[v].found
          PROVE  Reordered(job[v].payload, job[v].next - 1, db')[SceneRow(x)]
                 = Reordered(job[v].payload, job[v].next - 1, db)[SceneRow(x)]
      BY <1>2, <2>1, ReorderedAt
    <2> QED  BY <1>1, <2>1, <2>2 DEF Moving
  <1>6. (\A x \in SceneId : Owns(v, x) => work[SceneRow(x)] = Deleted)
          => (\A x \in SceneId : Owns(v, x)' => work'[SceneRow(x)] = Deleted)
    BY <1>1
  <1>7. db[StoryRow] # Unused => db'[StoryRow] # Unused
    BY DEF RowsAside
  <1> QED  BY <1>3, <1>4, <1>5, <1>6, <1>7 DEF HandlerOk

----------------------------------------------------------------------------
(* Steps.                                                                   *)

(* The handler of w goes on to a statement with these local variables.      *)
Goes(w, step, args) == /\ pc' = [pc EXCEPT ![w] = step]
                       /\ job' = [job EXCEPT ![w] = args]

(* The others stay where they are.                                          *)
LEMMA GoesFacts ==
  ASSUME JobTypes, NEW w \in Workers, NEW step \in Steps, NEW args \in Jobs,
         Goes(w, step, args)
  PROVE  /\ JobTypes' /\ pc'[w] = step /\ job'[w] = args
         /\ \A v \in Workers \ {w} : pc'[v] = pc[v] /\ job'[v] = job[v]
  BY DEF JobTypes, Goes

(* What is left to show of a step.                                          *)
LEMMA StepKeeps ==
  ASSUME IInv, NEW w \in Workers, NEW step \in Steps, NEW args \in Jobs,
         Goes(w, step, args), RowsOk', RowsAside(w), HandlerOk(w)',
         NoOrphans', AlwaysAScene'
  PROVE  IInv'
  <1>1. /\ JobTypes'
        /\ \A v \in Workers \ {w} : pc'[v] = pc[v] /\ job'[v] = job[v]
    BY GoesFacts DEF IInv
  <1>2. \A v \in Workers \ {w} : HandlerOk(v)'
    BY <1>1, OthersOk DEF IInv
  <1>3. (\A v \in Workers : HandlerOk(v))'
    BY <1>2
  <1> QED  BY <1>1, <1>3 DEF IInv

(* A step that commits nothing keeps what is committed.                     *)
LEMMA SameStory ==
  ASSUME NoOrphans, AlwaysAScene, db' = db
  PROVE  NoOrphans' /\ AlwaysAScene'
  BY DEF NoOrphans, AlwaysAScene, Live, HasStory

(* The local variables of a handler that begins or ends.                    *)
LEMMA JobFacts ==
  /\ NoJob \in Jobs
  /\ \A payload \in Payloads \cup Orders :
       [NoJob EXCEPT !.payload = payload] \in Jobs
  /\ \A payload \in Payloads \cup Orders, found \in SUBSET SceneId :
       [NoJob EXCEPT !.payload = payload, !.found = found] \in Jobs
  /\ \A found \in SUBSET SceneId : [NoJob EXCEPT !.found = found] \in Jobs
  <1>1. <<>> \in Payloads
    <2>1. <<>> \in [1 .. 0 -> Items]
      OBVIOUS
    <2> QED  BY <2>1 DEF Payloads, BoundedSeq, SeqOf
  <1>2. 1 \in 1 .. MaxItems + 1
    OBVIOUS
  <1> QED  BY <1>1, <1>2 DEF NoJob, Jobs

(* A handler that is done holds nothing.                                    *)
LEMMA EndKeeps ==
  ASSUME IInv, NEW w \in Workers, End(w), RowsOk', RowsAside(w),
         \A x \in SceneId : owner'[SceneRow(x)] # w,
         NoOrphans', AlwaysAScene'
  PROVE  IInv'
  <1>1. Goes(w, "idle", NoJob)
    BY DEF End, Goes
  <1>2. NoJob \in Jobs /\ "idle" \in Steps
    BY JobFacts DEF Steps
  <1>3. pc'[w] = "idle"
    BY <1>1, <1>2, GoesFacts DEF IInv
  <1>4. HandlerOk(w)'
    BY <1>3 DEF HandlerOk, HoldsNothing, Owns
  <1> QED  BY <1>1, <1>2, <1>4, StepKeeps

(* An error, a crash and a cancelled statement undo everything.             *)
LEMMA RaiseKeeps ==
  ASSUME IInv, NEW w \in Workers, Raise(w)
  PROVE  IInv'
  <1>1. Rollback(w) /\ End(w)
    BY DEF Raise
  <1>2. RowsOk' /\ RowsAside(w)
    BY <1>1, RollbackRows, RollbackAside DEF IInv
  <1>3. \A x \in SceneId : owner'[SceneRow(x)] # w
    BY <1>1, RowFacts DEF Rollback, Released
  <1>4. NoOrphans' /\ AlwaysAScene'
    BY <1>1, SameStory DEF Rollback, IInv
  <1> QED  BY <1>1, <1>2, <1>3, <1>4, EndKeeps

(* A handler begins: it has read, and holds nothing yet.                    *)
LEMMA BeginKeeps ==
  ASSUME IInv, NEW w \in Workers, pc[w] = "idle",
         NEW step \in Steps, NEW args \in Jobs, Begin(w, step, args),
         step \in {"draft", "select", "order", "scenes", "request"},
         step \in {"draft", "select"} => args.payload \in Payloads,
         step = "order" => args.payload \in Orders,
         step \in {"select", "order"} =>
           args.payload # <<>> /\ args.next = 1 /\ args.retained = {},
         step = "scenes" => db[StoryRow] # Unused
  PROVE  IInv'
  <1>1. Goes(w, step, args) /\ db' = db /\ work' = work /\ owner' = owner
    BY DEF Begin, Goes
  <1>2. pc'[w] = step /\ job'[w] = args
    BY <1>1, GoesFacts DEF IInv
  <1>3. HoldsNothing(w)
    BY DEF IInv, HandlerOk
  <1>4. HandlerOk(w)'
    BY <1>1, <1>2, <1>3 DEF HandlerOk, HoldsNothing, Owns
  <1>5. RowsOk'
    BY <1>1 DEF IInv, RowsOk, RowTypes, StoryFree, Settled, Written, NothingYet
  <1>6. RowsAside(w)
    BY <1>1 DEF RowsAside, Owns
  <1>7. NoOrphans' /\ AlwaysAScene'
    BY <1>1, SameStory DEF IInv
  <1> QED  BY <1>1, <1>4, <1>5, <1>6, <1>7, StepKeeps

(* What reads and begins.                                                   *)
LEMMA BeginsKeep ==
  ASSUME IInv, NEW w \in Workers,
         DraftBegin(w) \/ UpsertBegin(w) \/ ReorderBegin(w) \/ DestroyBegin(w)
  PROVE  IInv'
  <1>1. Live(db) \in SUBSET SceneId
    BY DEF Live
  <1>2. CASE DraftBegin(w)
    <2>1. PICK payload \in DraftLists :
            Begin(w, "draft", [NoJob EXCEPT !.payload = payload])
      BY <1>2 DEF DraftBegin
    <2> DEFINE args == [NoJob EXCEPT !.payload = payload]
    <2>2. args.payload \in Payloads /\ args \in Jobs
      BY JobFacts DEF DraftLists, NoJob
    <2>3. "draft" \in Steps /\ pc[w] = "idle" /\ Begin(w, "draft", args)
      BY <1>2, <2>1 DEF Steps, DraftBegin
    <2> HIDE DEF args
    <2> QED  BY <2>2, <2>3, BeginKeeps
  <1>3. CASE UpsertBegin(w)
    <2>1. PICK payload \in UpsertLists :
            Begin(w, "select", [NoJob EXCEPT !.payload = payload,
                                             !.found = Live(db)])
      BY <1>3 DEF UpsertBegin
    <2> DEFINE args == [NoJob EXCEPT !.payload = payload, !.found = Live(db)]
    <2>2. args.payload \in Payloads /\ args.payload # <<>> /\ args \in Jobs
          /\ args.next = 1 /\ args.retained = {}
      BY <1>1, JobFacts DEF UpsertLists, NoJob
    <2>3. "select" \in Steps /\ pc[w] = "idle" /\ Begin(w, "select", args)
      BY <1>3, <2>1 DEF Steps, UpsertBegin
    <2> HIDE DEF args
    <2> QED  BY <2>2, <2>3, BeginKeeps
  <1>4. CASE ReorderBegin(w)
    <2>1. PICK order \in OrderLists :
            Begin(w, "order", [NoJob EXCEPT !.payload = order,
                                            !.found = Live(db)])
      BY <1>4 DEF ReorderBegin
    <2> DEFINE args == [NoJob EXCEPT !.payload = order, !.found = Live(db)]
    <2>2. args.payload \in Orders /\ args.payload # <<>> /\ args \in Jobs
          /\ args.next = 1 /\ args.retained = {}
      BY <1>1, JobFacts DEF OrderLists, NoJob
    <2>3. "order" \in Steps /\ pc[w] = "idle" /\ Begin(w, "order", args)
      BY <1>4, <2>1 DEF Steps, ReorderBegin
    <2> HIDE DEF args
    <2> QED  BY <2>2, <2>3, BeginKeeps
  <1>5. CASE DestroyBegin(w)
    <2> DEFINE step == IF HasStory(db) THEN "scenes" ELSE "request"
               args == [NoJob EXCEPT !.found = Live(db)]
    <2>1. Begin(w, step, args) /\ pc[w] = "idle"
      BY <1>5 DEF DestroyBegin
    <2>2. step \in Steps /\ step \in {"scenes", "request"}
          /\ (step = "scenes" => db[StoryRow] # Unused)
      BY DEF Steps, HasStory, Made, Unused
    <2>3. args \in Jobs
      BY <1>1, JobFacts
    <2> HIDE DEF step, args
    <2> QED  BY <2>1, <2>2, <2>3, BeginKeeps
  <1> QED  BY <1>2, <1>3, <1>4, <1>5

(* A draft comes into a story that has nothing yet, all scenes at once.     *)
LEMMA DraftKeeps ==
  ASSUME IInv, NEW w \in Workers, Draft(w)
  PROVE  IInv'
  <1> DEFINE payload == job[w].payload
  <1>1. payload \in Payloads
    BY DEF IInv, HandlerOk, Draft
  <1>2. PICK pages \in Drafts(payload) :
          /\ DraftAccepted(w, pages)
          /\ Commit(w, [x \in {SceneRow(k) : k \in DOMAIN pages} \cup {StoryRow}
                          |-> IF x = StoryRow THEN Made ELSE pages[x[2]]])
    BY DEF Draft
  <1> DEFINE S == {SceneRow(k) : k \in DOMAIN pages} \cup {StoryRow}
             change == [x \in S |-> IF x = StoryRow THEN Made ELSE pages[x[2]]]
  <1>3. /\ DOMAIN pages = 1 .. Len(payload)
        /\ \A k \in DOMAIN pages : pages[k] \in Nat /\ pages[k] > 0
    BY <1>1, PayloadFacts DEF Drafts
  <1>4. Len(payload) \in Nat /\ Len(payload) > 0 /\ Len(payload) <= MaxScenes
    BY <1>1, <1>2, PayloadFacts DEF DraftAccepted
  <1>5. DOMAIN pages \subseteq SceneId /\ 1 \in DOMAIN pages
    BY <1>3, <1>4 DEF SceneId
  <1>6. \A k, l \in DOMAIN pages : pages[k] = pages[l] => k = l
    BY <1>2 DEF DraftAccepted, IsInjective
  <1>7. \A x \in SceneId : owner[SceneRow(x)] = None /\ db[SceneRow(x)] = Unused
                           /\ work[SceneRow(x)] = Unused
    BY <1>2 DEF IInv, RowsOk, NothingYet, Settled, DraftAccepted
  <1>8. /\ DOMAIN change = S /\ S \subseteq Rows /\ StoryRow \in S
        /\ change[StoryRow] = Made
        /\ \A k \in DOMAIN pages : SceneRow(k) \in S
                                   /\ change[SceneRow(k)] = pages[k]
        /\ \A x \in SceneId : SceneRow(x) \in S => x \in DOMAIN pages
        /\ \A r \in S \ {StoryRow} : \E k \in DOMAIN pages : r = SceneRow(k)
    BY <1>5, RowFacts DEF SceneRow
  <1>9. Commit(w, change)
    BY <1>2
  <1> HIDE DEF S, change, payload
  <1>10. ChangeOk(change, S)
    BY <1>3, <1>8 DEF ChangeOk, Values, Unused, Made, Deleted
  <1>11. \A x \in SceneId :
           Overlay(change, work)[SceneRow(x)]
             = IF x \in DOMAIN pages THEN pages[x] ELSE Unused
    BY <1>7, <1>8, RowFacts DEF Overlay
  <1>12. PagesApart(db, Overlay(change, work), LockedBy(w, S))
    BY <1>3, <1>6, <1>7, <1>11 DEF PagesApart, Unused
  <1>13. RowsOk' /\ RowsAside(w)
    BY <1>9, <1>10, <1>12, CommitRows, CommitAside DEF IInv
  <1>14. \A x \in Rows :
           /\ db'[x] = (IF x \in S THEN change[x]
                        ELSE IF owner[x] = w THEN work[x] ELSE db[x])
           /\ owner'[x] = (IF owner[x] = w THEN None ELSE owner[x])
    BY <1>9, <1>10, CommitShows DEF IInv
  <1>15. \A x \in SceneId : owner'[SceneRow(x)] # w
    BY <1>14, RowFacts
  <1>16. NoOrphans' /\ AlwaysAScene'
    <2>1. db'[StoryRow] = Made /\ db'[SceneRow(1)] > 0
      BY <1>3, <1>5, <1>8, <1>14, RowFacts
    <2> QED  BY <1>5, <2>1 DEF NoOrphans, AlwaysAScene, Live, HasStory
  <1>17. End(w)
    BY DEF Draft
  <1> QED  BY <1>13, <1>15, <1>16, <1>17, EndKeeps

(* The SELECT FOR UPDATE holds the scenes that are still there.             *)
LEMMA SelectKeeps ==
  ASSUME IInv, NEW w \in Workers, SelectScenes(w)
  PROVE  IInv'
  <1> DEFINE found == {x \in job[w].found : work[SceneRow(x)] > 0}
             S == {SceneRow(x) : x \in found}
             change == [y \in S |-> work[y]]
             step == IF pc[w] = "select" THEN "item" ELSE "move"
             args == [job[w] EXCEPT !.found = found]
  <1>1. /\ pc[w] \in {"select", "order"} /\ Write(w, change)
        /\ \A x \in found : Available(w, SceneRow(x))
        /\ Goes(w, step, args)
    BY DEF SelectScenes, Goes
  <1>2. job[w] \in Jobs /\ found \subseteq SceneId
    BY DEF IInv, JobTypes, Jobs
  <1>3. args \in Jobs /\ step \in Steps
    BY <1>2 DEF Jobs, Steps
  <1>4. /\ args.payload = job[w].payload /\ args.next = job[w].next
        /\ args.retained = job[w].retained /\ args.found = found
    BY <1>2 DEF Jobs
  <1>5. /\ HoldsNothing(w)
        /\ pc[w] = "select" => job[w].payload \in Payloads
        /\ pc[w] = "order" => job[w].payload \in Orders
        /\ job[w].payload # <<>> /\ job[w].next = 1 /\ job[w].retained = {}
    BY <1>1 DEF IInv, HandlerOk
  <1>6. \A x \in found : /\ owner[SceneRow(x)] = None
                         /\ work[SceneRow(x)] > 0 /\ db[SceneRow(x)] > 0
    BY <1>1, <1>2, <1>5 DEF Available, HoldsNothing, Owns, IInv, RowsOk, Settled
  <1>7. S \subseteq Rows /\ StoryRow \notin S
        /\ \A x \in SceneId : SceneRow(x) \in S <=> x \in found
    BY <1>2, RowFacts
  <1>8. ChangeOk(change, S)
    <2>1. \A y \in S : work[y] \in Values \ {Unused}
      BY <1>6, <1>7 DEF IInv, RowsOk, RowTypes, Unused
    <2>2. S = {} \/ db[StoryRow] # Unused
      BY <1>2, <1>6 DEF IInv, RowsOk, NothingYet, Unused
    <2> QED  BY <1>7, <2>1, <2>2 DEF ChangeOk
  <1>9. \A y \in S : Available(w, y) /\ change[y] = work[y]
    BY <1>1
  <1>10. DOMAIN change = S
    OBVIOUS
  <1>11. \A x \in SceneId :
           /\ db' = db /\ work'[SceneRow(x)] = work[SceneRow(x)]
           /\ owner'[SceneRow(x)] = IF x \in found THEN w
                                    ELSE owner[SceneRow(x)]
    BY <1>1, <1>7, RowFacts DEF Write, Overlay
  <1>12. pc'[w] = step /\ job'[w] = args
    BY <1>1, <1>3, GoesFacts DEF IInv
  <1>13. db' = db
    BY <1>1 DEF Write
  <1> HIDE DEF S, change, found, args, step
  <1>14. PagesApart(db, Overlay(change, work), LockedBy(w, S))
    BY <1>7, <1>9, <1>10, DeletesKeepApart DEF IInv, RowsOk
  <1>15. RowsOk' /\ RowsAside(w)
    BY <1>1, <1>7, <1>8, <1>14, WriteRows, WriteAside DEF IInv
  <1>16. \A x \in SceneId : Owns(w, x)' <=> x \in found
    BY <1>5, <1>11 DEF Owns, HoldsNothing
  <1>17. CASE pc[w] = "select"
    <2>1. pc'[w] = "item"
      BY <1>12, <1>17 DEF step
    <2>2. Replacing(w)'
      <3>1. Placed(w)'
        BY <1>4, <1>5, <1>12 DEF Placed
      <3> QED  BY <1>2, <1>4, <1>5, <1>6, <1>12, <1>13, <1>16, <1>17, <3>1
               DEF Replacing
    <2>3. job'[w].next <= Len(job'[w].payload)
      BY <1>4, <1>5, <1>12, <1>17, PayloadFacts
    <2> QED  BY <1>1, <1>3, <1>13, <1>15, <2>1, <2>2, <2>3, StepKeeps, SameStory
             DEF HandlerOk, IInv
  <1>18. CASE pc[w] = "order"
    <2>1. pc'[w] = "move"
      BY <1>12, <1>18 DEF step
    <2>2. ASSUME NEW x \in found
          PROVE  work[SceneRow(x)]
                   = Reordered(job[w].payload, job[w].next - 1, db)[SceneRow(x)]
      <3>1. Given(job[w].payload, job[w].next - 1, SceneRow(x)) = {}
        BY <1>5 DEF Given
      <3>2. work[SceneRow(x)] = db[SceneRow(x)]
        BY <1>2, <1>6 DEF IInv, RowsOk, Settled
      <3> QED  BY <1>2, <3>1, <3>2, ReorderedAt
    <2>3. Moving(w)'
      BY <1>2, <1>4, <1>5, <1>6, <1>11, <1>12, <1>13, <1>16, <1>18, <2>2
      DEF Moving
    <2>4. job'[w].next <= Len(job'[w].payload)
      BY <1>4, <1>5, <1>12, <1>18, OrderFacts
    <2> QED  BY <1>1, <1>3, <1>13, <1>15, <2>1, <2>3, <2>4, StepKeeps, SameStory
             DEF HandlerOk, IInv
  <1> QED  BY <1>1, <1>17, <1>18

(* One more item is stored, in the scene it names or in a new one.          *)
LEMMA PlacedStep ==
  ASSUME NEW w, NEW z \in SceneId, Placed(w), Replacing(w),
         DistinctIds(job[w].payload),
         job[w].found \subseteq SceneId, job[w].retained \subseteq SceneId,
         job[w].next \in 1 .. Len(job[w].payload),
         job'[w].payload = job[w].payload, job'[w].found = job[w].found,
         job'[w].next = job[w].next + 1,
         job'[w].retained = job[w].retained \cup {z},
         work'[SceneRow(z)] = Page(job[w].payload, job[w].next),
         \A x \in SceneId \ {z} : work'[SceneRow(x)] = work[SceneRow(x)],
         z \in job[w].found => z = job[w].payload[job[w].next].id,
         z \notin job[w].found =>
           /\ z \notin job[w].retained
           /\ job[w].payload[job[w].next].id \notin job[w].found
  PROVE  Placed(w)'
  <1>1. PICK payload, n, found, retained :
          /\ payload = job[w].payload /\ n = job[w].next
          /\ found = job[w].found /\ retained = job[w].retained
    OBVIOUS
  <1>2. payload \in Payloads /\ n \in Nat /\ n > 0 /\ n <= Len(payload)
    BY <1>1, PayloadFacts DEF Replacing
  <1>3. Len(payload) \in Nat /\ DOMAIN payload = 1 .. Len(payload)
    BY <1>2, PayloadFacts
  <1>4. (n + 1) - 1 = n /\ 1 .. n = (1 .. n - 1) \cup {n}
        /\ n \notin 1 .. n - 1 /\ 1 .. n \subseteq DOMAIN payload
    BY <1>2, <1>3
  <1>5. z \notin retained
    <2> SUFFICES ASSUME z \in retained, z \in found PROVE FALSE
      BY <1>1
    <2>1. PICK k \in 1 .. n - 1 : payload[k].id = z
      BY <1>1 DEF Placed
    <2>2. payload[n].id = z /\ z # 0
      BY <1>1 DEF SceneId
    <2> QED  BY <1>1, <1>4, <2>1, <2>2 DEF DistinctIds
  <1>6. {work'[SceneRow(x)] : x \in retained \cup {z}}
          = {Page(payload, k) : k \in 1 .. n}
    <2>1. {work'[SceneRow(x)] : x \in retained}
            = {Page(payload, k) : k \in 1 .. n - 1}
      <3>1. {work'[SceneRow(x)] : x \in retained}
              = {work[SceneRow(x)] : x \in retained}
        BY <1>1, <1>5
      <3>2. {work[SceneRow(x)] : x \in job[w].retained}
              = {Page(job[w].payload, k) : k \in 1 .. job[w].next - 1}
        BY DEF Placed
      <3> QED  BY <1>1, <3>1, <3>2, Zenon
    <2>2. {Page(payload, k) : k \in 1 .. n}
            = {Page(payload, k) : k \in 1 .. n - 1} \cup {Page(payload, n)}
      BY <1>4, Zenon
    <2>3. {work'[SceneRow(x)] : x \in retained \cup {z}}
            = {work'[SceneRow(x)] : x \in retained} \cup {work'[SceneRow(z)]}
      BY Zenon
    <2> QED  BY <1>1, <2>1, <2>2, <2>3
  <1>7. ASSUME NEW k \in 1 .. n, payload[k].id \in found
        PROVE  /\ payload[k].id \in retained \cup {z}
               /\ work'[SceneRow(payload[k].id)] = Page(payload, k)
    <2>1. CASE k = n
      BY <1>1, <1>7, <2>1
    <2>2. CASE k # n
      <3>1. k \in 1 .. n - 1
        BY <1>4, <2>2
      <3>2. /\ payload[k].id \in retained
            /\ work[SceneRow(payload[k].id)] = Page(payload, k)
        BY <1>1, <1>7, <3>1 DEF Placed
      <3> QED  BY <1>1, <1>5, <3>2
    <2> QED  BY <2>1, <2>2
  <1>8. ASSUME NEW x \in (retained \cup {z}) \cap found
        PROVE  \E k \in 1 .. n : payload[k].id = x
    <2>1. CASE x = z
      BY <1>1, <1>4, <2>1
    <2>2. CASE x # z
      BY <1>1, <1>4, <2>2 DEF Placed
    <2> QED  BY <2>1, <2>2
  <1>9. /\ job'[w].payload = payload /\ job'[w].next - 1 = n
        /\ job'[w].found = found /\ job'[w].retained = retained \cup {z}
    BY <1>1, <1>4
  <1>10. {work'[SceneRow(x)] : x \in job'[w].retained}
           = {Page(job'[w].payload, k) : k \in 1 .. job'[w].next - 1}
    BY <1>6, <1>9, Zenon
  <1>11. \A k \in 1 .. job'[w].next - 1 :
           job'[w].payload[k].id \in job'[w].found
             => /\ job'[w].payload[k].id \in job'[w].retained
                /\ work'[SceneRow(job'[w].payload[k].id)]
                     = Page(job'[w].payload, k)
    BY <1>7, <1>9, Zenon
  <1>12. \A x \in job'[w].retained \cap job'[w].found :
           \E k \in 1 .. job'[w].next - 1 : job'[w].payload[k].id = x
    BY <1>8, <1>9, Zenon
  <1> QED  BY <1>10, <1>11, <1>12, Zenon DEF Placed

(* Where a replacement goes once an item is stored in scene z.              *)
AfterItem(w) == IF job[w].next = Len(job[w].payload) THEN "delete" ELSE "item"
WithItem(w, z) == [job[w] EXCEPT !.next = @ + 1, !.retained = @ \cup {z}]

(* It goes there.                                                           *)
LEMMA ItemGoes ==
  ASSUME JobTypes, NEW w \in Workers, NEW z,
         job' = [job EXCEPT ![w].next = @ + 1, ![w].retained = @ \cup {z}],
         pc' = [pc EXCEPT ![w] = IF job[w].next = Len(job[w].payload)
                                 THEN "delete" ELSE "item"]
  PROVE  Goes(w, AfterItem(w), WithItem(w, z))
  <1>1. job \in [Workers -> Jobs]
    BY DEF JobTypes
  <1>2. job' = [job EXCEPT ![w] = WithItem(w, z)]
    BY <1>1 DEF Jobs, WithItem
  <1> QED  BY <1>2 DEF Goes, AfterItem

(* An item of a replacement is stored in scene z.                           *)
LEMMA StoreKeeps ==
  ASSUME IInv, NEW w \in Workers, NEW z \in SceneId,
         pc[w] = "item", ~ ItemRefused(w), ItemWait(w) = {},
         LET id == job[w].payload[job[w].next].id IN
           \/ id \in job[w].found /\ z = id
           \/ id \notin job[w].found /\ z \in NextScene,
         Write(w, Put(SceneRow(z), Target(w))),
         Goes(w, AfterItem(w), WithItem(w, z))
  PROVE  IInv'
  <1> DEFINE change == Put(SceneRow(z), Target(w))
             S == {SceneRow(z)}
             step == AfterItem(w)
             args == WithItem(w, z)
             id == job[w].payload[job[w].next].id
  <1>1. Replacing(w) /\ job[w].next <= Len(job[w].payload)
    BY DEF IInv, HandlerOk
  <1>2. /\ job[w] \in Jobs /\ job[w].found \subseteq SceneId
        /\ job[w].retained \subseteq SceneId /\ job[w].next \in Nat
        /\ job[w].next > 0
    BY DEF IInv, JobTypes, Jobs
  <1>3. job[w].payload \in Payloads
    BY <1>1 DEF Replacing
  <1>4. /\ Len(job[w].payload) \in Nat /\ Len(job[w].payload) <= MaxItems
        /\ job[w].next \in 1 .. Len(job[w].payload)
    BY <1>1, <1>2, <1>3, PayloadFacts
  <1>5. Target(w) = Page(job[w].payload, job[w].next)
        /\ Target(w) \in Nat /\ Target(w) > 0
    BY <1>3, <1>4, PayloadFacts DEF Target
  <1>6. /\ args.payload = job[w].payload /\ args.found = job[w].found
        /\ args.next = job[w].next + 1
        /\ args.retained = job[w].retained \cup {z}
    BY <1>2 DEF Jobs, WithItem
  <1>7. args \in Jobs /\ step \in Steps
    <2>1. job[w].next + 1 \in 1 .. MaxItems + 1
      BY <1>2, <1>4
    <2> QED  BY <1>2, <2>1 DEF Jobs, Steps, AfterItem, WithItem
  <1>8. Goes(w, step, args)
    OBVIOUS
  <1>9. DOMAIN change = S /\ change[SceneRow(z)] = Target(w)
    BY DEF Put
  <1>10. Write(w, change)
    OBVIOUS
  <1> HIDE DEF change, S, args, step
  <1>11. pc'[w] = step /\ job'[w] = args
    <2>1. JobTypes
      BY DEF IInv
    <2> QED  BY <1>7, <1>8, <2>1, GoesFacts, Zenon
  <1>12. z \in job[w].found => z = id
    <2>1. z \in NextScene => work[SceneRow(z)] = Unused
      BY DEF NextScene
    <2>2. z \in job[w].found => work[SceneRow(z)] # Unused
      <3>1. z \in job[w].found => owner[SceneRow(z)] = w
        BY <1>1 DEF Replacing, Owns
      <3>2. Written /\ w # None
        BY DEF IInv, RowsOk
      <3> QED  BY <3>1, <3>2 DEF Written
    <2> QED  BY <2>1, <2>2
  <1>13. z \notin job[w].found =>
           /\ owner[SceneRow(z)] = None /\ db[SceneRow(z)] = Unused
           /\ z \notin job[w].retained /\ id \notin job[w].found
    <2> SUFFICES ASSUME z \notin job[w].found
                 PROVE  /\ owner[SceneRow(z)] = None
                        /\ db[SceneRow(z)] = Unused
                        /\ z \notin job[w].retained /\ id \notin job[w].found
      OBVIOUS
    <2>1. id \notin job[w].found /\ work[SceneRow(z)] = Unused
      BY DEF NextScene
    <2>2. owner[SceneRow(z)] = None /\ db[SceneRow(z)] = Unused
      BY <2>1 DEF IInv, RowsOk, Written, Settled
    <2>3. z \notin job[w].retained
      BY <2>1, <1>1 DEF Replacing, Unused
    <2> QED  BY <2>1, <2>2, <2>3
  <1>14. Available(w, SceneRow(z))
    BY <1>1, <1>13 DEF Available, Replacing, Owns
  <1>15. /\ HasStory(db)
         /\ \A x \in SceneId \ {z} : Seen(w, SceneRow(x)) # Target(w)
    <2>1. ~ Invalid(w, id, Target(w))
      BY DEF ItemRefused
    <2> QED  BY <2>1 DEF Invalid
  <1>16. PageWait(w, Target(w)) = {}
    BY DEF ItemWait
  <1>17. PagesApart(db, Overlay(change, work), LockedBy(w, S))
    BY <1>14, <1>15, <1>16, StoreKeepsApart DEF change, S, IInv, RowsOk
  <1>18. ChangeOk(change, S) /\ StoryRow \notin S
    BY <1>5, <1>9, <1>15, RowFacts
    DEF ChangeOk, S, Values, HasStory, Made, Unused
  <1>19. RowsOk' /\ RowsAside(w)
    BY <1>10, <1>17, <1>18, WriteRows, WriteAside DEF IInv
  <1>20. /\ db' = db /\ work'[SceneRow(z)] = Target(w) /\ Owns(w, z)'
         /\ \A x \in SceneId \ {z} :
              /\ work'[SceneRow(x)] = work[SceneRow(x)]
              /\ Owns(w, x)' <=> Owns(w, x)
    BY <1>9, <1>10, RowFacts DEF Write, Overlay, Owns, S
  <1>21. Replacing(w)'
    <2>1. \A x \in job[w].found : Owns(w, x)' /\ db'[SceneRow(x)] > 0
      BY <1>1, <1>2, <1>20 DEF Replacing
    <2>2. \A x \in job[w].retained \cup {z} :
            Owns(w, x)' /\ work'[SceneRow(x)] > 0
      BY <1>1, <1>2, <1>5, <1>20 DEF Replacing
    <2>3. \A x \in SceneId : Owns(w, x)' =>
            \/ x \in job[w].found
            \/ x \in job[w].retained \cup {z} /\ db'[SceneRow(x)] = Unused
      BY <1>1, <1>13, <1>20 DEF Replacing
    <2>4. DistinctIds(job[w].payload) => Placed(w)'
      <3>1. DistinctIds(job[w].payload) => Placed(w)
        BY <1>1 DEF Replacing
      <3>2. /\ job'[w].payload = job[w].payload
            /\ job'[w].found = job[w].found
            /\ job'[w].next = job[w].next + 1
            /\ job'[w].retained = job[w].retained \cup {z}
        BY <1>6, <1>11, Zenon
      <3>3. /\ work'[SceneRow(z)] = Page(job[w].payload, job[w].next)
            /\ \A x \in SceneId \ {z} : work'[SceneRow(x)] = work[SceneRow(x)]
        BY <1>5, <1>20, Zenon
      <3> QED  BY <1>1, <1>2, <1>4, <1>12, <1>13, <3>1, <3>2, <3>3, PlacedStep,
                  Zenon
    <2> QED  BY <1>3, <1>6, <1>11, <2>1, <2>2, <2>3, <2>4 DEF Replacing
  <1>22. HandlerOk(w)'
    <2>1. CASE job[w].next = Len(job[w].payload)
      <3>1. pc'[w] = "delete" /\ job'[w].next = Len(job'[w].payload) + 1
            /\ job'[w].payload # <<>>
        BY <1>3, <1>4, <1>6, <1>11, <2>1, PayloadFacts DEF step, AfterItem
      <3> QED  BY <1>21, <3>1 DEF HandlerOk
    <2>2. CASE job[w].next # Len(job[w].payload)
      <3>1. pc'[w] = "item" /\ job'[w].next <= Len(job'[w].payload)
        BY <1>1, <1>2, <1>4, <1>6, <1>11, <2>2 DEF step, AfterItem
      <3> QED  BY <1>21, <3>1 DEF HandlerOk
    <2> QED  BY <2>1, <2>2
  <1>23. NoOrphans' /\ AlwaysAScene'
    BY <1>20, SameStory DEF IInv
  <1> QED  BY <1>7, <1>8, <1>19, <1>22, <1>23, StepKeeps

(* The commit of a replacement, scene by scene.                             *)
LEMMA DeleteShows ==
  ASSUME IInv, NEW w \in Workers, UpsertDelete(w)
  PROVE  /\ Replacing(w) /\ job[w].retained # {}
         /\ \A x \in job[w].retained :
              db'[SceneRow(x)] = work[SceneRow(x)] /\ db'[SceneRow(x)] > 0
         /\ \A x \in job[w].found \ job[w].retained :
              db'[SceneRow(x)] = Deleted
         /\ \A x \in SceneId \ (job[w].found \cup job[w].retained) :
              db'[SceneRow(x)] = db[SceneRow(x)]
         /\ db'[StoryRow] = db[StoryRow]
         /\ RowsOk' /\ RowsAside(w)
         /\ \A x \in SceneId : owner'[SceneRow(x)] # w
  <1> DEFINE left == job[w].found \ job[w].retained
             S == {SceneRow(x) : x \in left}
             change == [y \in S |-> Deleted]
  <1>1. Commit(w, change)
    BY DEF UpsertDelete
  <1>2. /\ Replacing(w) /\ job[w].next = Len(job[w].payload) + 1
        /\ job[w].payload # <<>>
    BY DEF IInv, HandlerOk, UpsertDelete
  <1>3. /\ job[w].found \subseteq SceneId /\ job[w].retained \subseteq SceneId
        /\ left \subseteq SceneId
    BY DEF IInv, JobTypes, Jobs
  <1>4. job[w].retained # {}
    <2>1. job[w].next > 1
      BY <1>2, PayloadFacts DEF Replacing
    <2> QED  BY <1>2, <2>1 DEF Replacing
  <1>5. /\ S \subseteq Rows /\ StoryRow \notin S /\ DOMAIN change = S
        /\ \A x \in SceneId : SceneRow(x) \in S <=> x \in left
        /\ \A y \in S : change[y] = Deleted
    BY <1>3, RowFacts
  <1>6. db[StoryRow] # Unused
    BY <1>2, <1>3, <1>4 DEF IInv, RowsOk, NothingYet, Replacing, Owns
  <1> HIDE DEF S, change
  <1>7. ChangeOk(change, S)
    BY <1>5, <1>6 DEF ChangeOk, Values, Deleted, Unused
  <1>8. \A x \in S : Available(w, x)
    BY <1>1, <1>5 DEF Commit
  <1>9. PagesApart(db, Overlay(change, work), LockedBy(w, S))
    BY <1>5, <1>8, DeletesKeepApart DEF IInv, RowsOk
  <1>10. RowsOk' /\ RowsAside(w)
    BY <1>1, <1>7, <1>9, CommitRows, CommitAside DEF IInv
  <1>11. \A x \in Rows :
           /\ db'[x] = (IF x \in S THEN change[x]
                        ELSE IF owner[x] = w THEN work[x] ELSE db[x])
           /\ owner'[x] = (IF owner[x] = w THEN None ELSE owner[x])
    BY <1>1, <1>7, CommitShows DEF IInv
  <1>12. \A x \in job[w].retained :
           db'[SceneRow(x)] = work[SceneRow(x)] /\ db'[SceneRow(x)] > 0
    BY <1>2, <1>3, <1>5, <1>11, RowFacts DEF Replacing, Owns
  <1>13. \A x \in left : db'[SceneRow(x)] = Deleted
    BY <1>3, <1>5, <1>11, RowFacts
  <1>14. \A x \in SceneId \ (job[w].found \cup job[w].retained) :
           db'[SceneRow(x)] = db[SceneRow(x)]
    BY <1>2, <1>5, <1>11, RowFacts DEF Replacing, Owns
  <1>15. db'[StoryRow] = db[StoryRow]
    BY <1>5, <1>11, RowFacts DEF IInv, RowsOk, StoryFree
  <1>16. \A x \in SceneId : owner'[SceneRow(x)] # w
    BY <1>11, RowFacts
  <1> QED  BY <1>2, <1>4, <1>10, <1>12, <1>13, <1>14, <1>15, <1>16

(* A replacement commits a story with the scenes it retained.               *)
LEMMA DeleteKeeps ==
  ASSUME IInv, NEW w \in Workers, UpsertDelete(w)
  PROVE  IInv'
  <1>1. End(w) /\ StoryHolds(w)
    BY DEF UpsertDelete
  <1>2. job[w].found \subseteq SceneId /\ job[w].retained \subseteq SceneId
    BY DEF IInv, JobTypes, Jobs
  <1>3. PICK x \in job[w].retained : db'[SceneRow(x)] > 0
    BY DeleteShows
  <1>4. AlwaysAScene'
    BY <1>2, <1>3 DEF AlwaysAScene, Live
  <1>5. HasStory(db)
    <2>1. CASE job[w].retained \ job[w].found = {}
      <3>1. x \in Live(db)
        BY <1>2, <2>1, DeleteShows DEF Replacing, Live
      <3> QED  BY <3>1 DEF IInv, NoOrphans
    <2> QED  BY <1>1, <2>1 DEF StoryHolds
  <1>6. NoOrphans'
    BY <1>5, DeleteShows DEF NoOrphans, HasStory
  <1> QED  BY <1>1, <1>4, <1>6, DeleteShows, EndKeeps

(* What one more item of a reordering does to a scene.                      *)
LEMMA ReorderedStep ==
  ASSUME NEW order \in Orders, NEW n \in 1 .. Len(order), NEW image,
         NEW x \in SceneId
  PROVE  Reordered(order, n, image)[SceneRow(x)]
           = IF order[n].id = x /\ order[n].page # 0 THEN order[n].page
             ELSE Reordered(order, n - 1, image)[SceneRow(x)]
  <1> DEFINE before == Given(order, n - 1, SceneRow(x))
             after == Given(order, n, SceneRow(x))
  <1>1. Len(order) \in Nat /\ \A k \in 1 .. Len(order) : order[k].id \in SceneId
    BY OrderFacts
  <1>2. 1 .. n = (1 .. n - 1) \cup {n} /\ n \in Nat
    BY <1>1
  <1>3. SceneRow(order[n].id) = SceneRow(x) <=> order[n].id = x
    BY <1>1, RowFacts
  <1>4. CASE order[n].id = x /\ order[n].page # 0
    <2>1. n \in after /\ \A k \in after : k \in Nat /\ n >= k
      BY <1>2, <1>4 DEF Given
    <2>2. \A m \in after : (\A k \in after : m >= k) => m = n
      BY <1>2, <2>1
    <2>3. Max(after) = n
      BY <2>1, <2>2 DEF Max
    <2> HIDE DEF after
    <2> QED  BY <1>4, <2>1, <2>3, ReorderedAt DEF after
  <1>5. CASE ~ (order[n].id = x /\ order[n].page # 0)
    <2>1. before = after
      BY <1>2, <1>3, <1>5 DEF Given
    <2> QED  BY <1>5, <2>1, ReorderedAt
  <1> QED  BY <1>4, <1>5

(* One scene is moved: to a page that is free, as the list says.            *)
LEMMA MoveFacts ==
  ASSUME IInv, NEW w \in Workers, Move(w)
  PROVE  LET z == Moved(w) page == Place(w)
             change == Put(SceneRow(z), page) IN
         /\ Moving(w) /\ job[w].next \in 1 .. Len(job[w].payload)
         /\ z \in job[w].found /\ z \in SceneId /\ page > 0 /\ HasStory(db)
         /\ ChangeOk(change, {SceneRow(z)})
         /\ PagesApart(db, Overlay(change, work), LockedBy(w, {SceneRow(z)}))
         /\ \A x \in job[w].found :
              (IF x = z THEN page ELSE work[SceneRow(x)])
                = Reordered(job[w].payload, job[w].next, db)[SceneRow(x)]
  <1> DEFINE order == job[w].payload
             n == job[w].next
             z == Moved(w)
             page == Place(w)
             change == Put(SceneRow(z), page)
  <1>1. Moving(w) /\ n <= Len(order)
    BY DEF IInv, HandlerOk, Move
  <1>2. job[w] \in Jobs /\ job[w].found \subseteq SceneId /\ n \in Nat /\ n > 0
    BY DEF IInv, JobTypes, Jobs
  <1>3. order \in Orders
    BY <1>1 DEF Moving
  <1>4. /\ n \in 1 .. Len(order) /\ z = order[n].id /\ z \in SceneId
        /\ order[n].page \in Nat
    BY <1>1, <1>2, <1>3, OrderFacts DEF Moved
  <1>5. z \in job[w].found /\ ~ Invalid(w, z, page) /\ PageWait(w, page) = {}
    BY DEF Move, MoveRefused
  <1>6. Owns(w, z) /\ work[SceneRow(z)] > 0
    BY <1>1, <1>5 DEF Moving
  <1>7. page = (IF order[n].page = 0 THEN work[SceneRow(z)] ELSE order[n].page)
    BY <1>6 DEF Place, Seen, Owns, Moved
  <1>8. page > 0 /\ page \in Nat
    <2>1. work[SceneRow(z)] \in Nat
      BY <1>4, <1>6, RowFacts DEF IInv, RowsOk, RowTypes, Values, Deleted
    <2>2. CASE order[n].page = 0
      BY <1>6, <1>7, <2>1, <2>2
    <2>3. CASE order[n].page # 0
      BY <1>4, <1>7, <2>3
    <2> QED  BY <2>2, <2>3
  <1>9. HasStory(db) /\ \A x \in SceneId \ {z} : Seen(w, SceneRow(x)) # page
    BY <1>5 DEF Invalid
  <1>10. Available(w, SceneRow(z))
    BY <1>6 DEF Available, Owns
  <1>11. PagesApart(db, Overlay(change, work), LockedBy(w, {SceneRow(z)}))
    BY <1>4, <1>5, <1>9, <1>10, StoreKeepsApart DEF IInv, RowsOk
  <1>12. ChangeOk(change, {SceneRow(z)})
    BY <1>4, <1>8, <1>9, RowFacts
    DEF ChangeOk, Put, Values, HasStory, Made, Unused
  <1>13. ASSUME NEW x \in job[w].found
         PROVE  (IF x = z THEN page ELSE work[SceneRow(x)])
                  = Reordered(order, n, db)[SceneRow(x)]
    <2>1. work[SceneRow(x)] = Reordered(order, n - 1, db)[SceneRow(x)]
      BY <1>1 DEF Moving
    <2>2. Reordered(order, n, db)[SceneRow(x)]
            = IF order[n].id = x /\ order[n].page # 0 THEN order[n].page
              ELSE Reordered(order, n - 1, db)[SceneRow(x)]
      BY <1>2, <1>3, <1>4, ReorderedStep
    <2> QED  BY <1>4, <1>7, <2>1, <2>2
  <1> QED  BY <1>1, <1>4, <1>5, <1>8, <1>9, <1>11, <1>12, <1>13

(* The last move commits all of them.                                       *)
LEMMA LastMove ==
  ASSUME IInv, NEW w \in Workers, Move(w),
         job[w].next = Len(job[w].payload)
  PROVE  /\ IInv'
         /\ db' = Reordered(job[w].payload, Len(job[w].payload), db)
  <1> DEFINE order == job[w].payload
             n == job[w].next
             z == Moved(w)
             page == Place(w)
             change == Put(SceneRow(z), page)
             S == {SceneRow(z)}
  <1>1. /\ Moving(w) /\ n \in 1 .. Len(order) /\ z \in job[w].found
        /\ z \in SceneId /\ page > 0 /\ HasStory(db) /\ ChangeOk(change, S)
        /\ PagesApart(db, Overlay(change, work), LockedBy(w, S))
        /\ \A x \in job[w].found :
             (IF x = z THEN page ELSE work[SceneRow(x)])
               = Reordered(order, n, db)[SceneRow(x)]
    BY MoveFacts
  <1>2. Commit(w, change) /\ End(w)
    BY DEF Move
  <1>3. change[SceneRow(z)] = page /\ z = order[n].id
    BY DEF Put, Moved
  <1>4. job[w].found \subseteq SceneId
    BY DEF IInv, JobTypes, Jobs
  <1>5. db' = [x \in Rows |-> db'[x]]
    BY <1>2 DEF Commit
  <1> HIDE DEF change, z, page
  <1>6. RowsOk' /\ RowsAside(w)
    BY <1>1, <1>2, CommitRows, CommitAside DEF IInv
  <1>7. \A x \in Rows :
           /\ db'[x] = (IF x \in S THEN change[x]
                        ELSE IF owner[x] = w THEN work[x] ELSE db[x])
           /\ owner'[x] = (IF owner[x] = w THEN None ELSE owner[x])
    BY <1>1, <1>2, CommitShows DEF IInv
  <1>8. /\ \A x \in job[w].found :
             db'[SceneRow(x)] = IF x = z THEN page ELSE work[SceneRow(x)]
        /\ \A x \in SceneId \ job[w].found :
             db'[SceneRow(x)] = db[SceneRow(x)]
        /\ db'[StoryRow] = db[StoryRow]
    <2>1. \A x \in job[w].found : owner[SceneRow(x)] = w
      BY <1>1 DEF Moving, Owns
    <2>2. \A x \in SceneId \ job[w].found : owner[SceneRow(x)] # w
      BY <1>1 DEF Moving, Owns
    <2>3. \A x \in SceneId : SceneRow(x) \in S <=> x = z
      BY <1>1, RowFacts
    <2>4. StoryRow \notin S /\ owner[StoryRow] # w
      BY <1>1, RowFacts DEF IInv, RowsOk, StoryFree
    <2> QED  BY <1>1, <1>3, <1>4, <1>7, <2>1, <2>2, <2>3, <2>4, RowFacts
  <1>9. \A x \in SceneId : owner'[SceneRow(x)] # w
    BY <1>7, RowFacts
  <1>10. NoOrphans'
    BY <1>1, <1>8 DEF NoOrphans, HasStory
  <1>11. AlwaysAScene'
    <2>1. db'[SceneRow(z)] > 0
      BY <1>1, <1>8
    <2> QED  BY <1>1, <2>1 DEF AlwaysAScene, Live
  <1>12. IInv'
    BY <1>2, <1>6, <1>9, <1>10, <1>11, EndKeeps
  <1>13. ASSUME NEW r \in Rows
         PROVE  db'[r] = Reordered(order, n, db)[r]
    <2>1. ASSUME NEW x \in job[w].found, r = SceneRow(x)
          PROVE  db'[r] = Reordered(order, n, db)[r]
      BY <1>1, <1>8, <2>1
    <2>2. \A k \in 1 .. n : order[k].id \in job[w].found
      <3>1. \A k \in 1 .. n - 1 : order[k].id \in job[w].found
        BY <1>1 DEF Moving
      <3>2. n \in Nat
        BY DEF IInv, JobTypes, Jobs
      <3>3. 1 .. n = (1 .. n - 1) \cup {n} \/ n = 0
        BY <3>2
      <3> QED  BY <1>1, <1>3, <3>1, <3>2, <3>3
    <2>3. ASSUME \A x \in job[w].found : r # SceneRow(x)
          PROVE  db'[r] = Reordered(order, n, db)[r]
      <3>1. Given(order, n, r) = {}
        BY <2>2, <2>3 DEF Given
      <3>2. db'[r] = db[r]
        BY <1>8, <2>3, RowFacts
      <3> QED  BY <3>1, <3>2 DEF Reordered
    <2> QED  BY <2>1, <2>3
  <1>14. db' = Reordered(order, n, db)
    BY <1>5, <1>13 DEF Reordered
  <1> QED  BY <1>12, <1>14

(* Every other one stays within the transaction.                            *)
LEMMA OneMove ==
  ASSUME IInv, NEW w \in Workers, Move(w),
         job[w].next # Len(job[w].payload)
  PROVE  IInv' /\ db' = db
  <1> DEFINE order == job[w].payload
             n == job[w].next
             z == Moved(w)
             page == Place(w)
             change == Put(SceneRow(z), page)
             S == {SceneRow(z)}
             args == [job[w] EXCEPT !.next = @ + 1]
  <1>1. /\ Moving(w) /\ n \in 1 .. Len(order) /\ z \in job[w].found
        /\ z \in SceneId /\ page > 0 /\ ChangeOk(change, S)
        /\ PagesApart(db, Overlay(change, work), LockedBy(w, S))
        /\ \A x \in job[w].found :
             (IF x = z THEN page ELSE work[SceneRow(x)])
               = Reordered(order, n, db)[SceneRow(x)]
    BY MoveFacts
  <1>2. Write(w, change)
    BY DEF Move
  <1>3. change[SceneRow(z)] = page /\ z = order[n].id
    BY DEF Put, Moved
  <1>4. /\ job[w] \in Jobs /\ job[w].found \subseteq SceneId /\ n \in Nat
        /\ pc \in [Workers -> Steps] /\ job \in [Workers -> Jobs]
    BY DEF IInv, JobTypes, Jobs
  <1>5. Len(order) \in 0 .. MaxItems
    BY <1>1, OrderFacts DEF Moving
  <1>6. /\ args.payload = order /\ args.found = job[w].found
        /\ args.next = n + 1
    BY <1>4 DEF Jobs
  <1>7. args \in Jobs /\ "move" \in Steps
    <2>1. n + 1 \in 1 .. MaxItems + 1
      BY <1>1, <1>4, <1>5
    <2> QED  BY <1>4, <2>1 DEF Jobs, Steps
  <1>8. Goes(w, "move", args)
    <2>1. pc' = [pc EXCEPT ![w] = "move"]
      BY <1>4 DEF Move
    <2>2. job' = [job EXCEPT ![w] = args]
      BY <1>4 DEF Move
    <2> QED  BY <2>1, <2>2 DEF Goes
  <1> HIDE DEF change, z, page, args
  <1>9. pc'[w] = "move" /\ job'[w] = args
    BY <1>7, <1>8, GoesFacts DEF IInv
  <1>10. RowsOk' /\ RowsAside(w)
    BY <1>1, <1>2, RowFacts, WriteRows, WriteAside DEF IInv
  <1>11. /\ db' = db /\ work'[SceneRow(z)] = page
         /\ owner'[SceneRow(z)] = w
         /\ \A x \in SceneId \ {z} :
              /\ work'[SceneRow(x)] = work[SceneRow(x)]
              /\ owner'[SceneRow(x)] = owner[SceneRow(x)]
    <2>1. db' = db /\ \A r \in Rows :
            /\ work'[r] = (IF r \in S THEN change[r] ELSE work[r])
            /\ owner'[r] = (IF r \in S THEN w ELSE owner[r])
      BY <1>1, <1>2 DEF Write, Overlay, ChangeOk
    <2>2. \A x \in SceneId : SceneRow(x) \in S <=> x = z
      BY <1>1, RowFacts
    <2> QED  BY <1>1, <1>3, <2>1, <2>2, RowFacts
  <1>12. Moving(w)'
    <2>1. (n + 1) - 1 = n
      BY <1>4
    <2>2. ASSUME NEW x \in job[w].found
          PROVE  /\ Owns(w, x)' /\ db'[SceneRow(x)] > 0
                 /\ work'[SceneRow(x)] > 0
                 /\ work'[SceneRow(x)] = Reordered(order, n, db')[SceneRow(x)]
      <3>1. Owns(w, x) /\ db[SceneRow(x)] > 0 /\ work[SceneRow(x)] > 0
        BY <1>1 DEF Moving
      <3>2. work'[SceneRow(x)] = IF x = z THEN page ELSE work[SceneRow(x)]
        BY <1>4, <1>11
      <3> QED  BY <1>1, <1>4, <1>11, <3>1, <3>2 DEF Owns
    <2>3. \A x \in SceneId : Owns(w, x)' => x \in job[w].found
      BY <1>1, <1>11 DEF Moving, Owns
    <2>4. \A k \in 1 .. n : order[k].id \in job[w].found
      <3>1. \A k \in 1 .. n - 1 : order[k].id \in job[w].found
        BY <1>1 DEF Moving
      <3>2. 1 .. n = (1 .. n - 1) \cup {n} \/ n = 0
        BY <1>4
      <3> QED  BY <1>1, <1>3, <3>1, <3>2
    <2>5. order \in Orders
      BY <1>1 DEF Moving
    <2> QED  BY <1>6, <1>9, <2>1, <2>2, <2>3, <2>4, <2>5 DEF Moving
  <1>13. HandlerOk(w)'
    <2>1. job'[w].next <= Len(job'[w].payload)
      BY <1>1, <1>4, <1>5, <1>6, <1>9
    <2> QED  BY <1>9, <1>12, <2>1 DEF HandlerOk
  <1>14. NoOrphans' /\ AlwaysAScene'
    BY <1>11, SameStory DEF IInv
  <1> QED  BY <1>7, <1>8, <1>10, <1>11, <1>13, <1>14, StepKeeps

(* The deletion of the request holds the scenes it deletes.                 *)
LEMMA DestroyScenesKeeps ==
  ASSUME IInv, NEW w \in Workers, DestroyScenes(w)
  PROVE  IInv'
  <1> DEFINE S == {SceneRow(x) : x \in job[w].found}
             change == [y \in S |-> Deleted]
  <1>1. Write(w, change) /\ pc[w] = "scenes"
    BY DEF DestroyScenes
  <1>2. /\ pc \in [Workers -> Steps] /\ job \in [Workers -> Jobs]
        /\ job[w] \in Jobs /\ job[w].found \subseteq SceneId
    BY DEF IInv, JobTypes, Jobs
  <1>3. Goes(w, "story", job[w]) /\ "story" \in Steps
    BY <1>2 DEF DestroyScenes, Goes, Steps
  <1>4. pc'[w] = "story" /\ job'[w] = job[w]
    BY <1>2, <1>3, GoesFacts DEF IInv
  <1>5. HoldsNothing(w) /\ db[StoryRow] # Unused
    BY <1>1 DEF IInv, HandlerOk
  <1>6. /\ S \subseteq Rows /\ StoryRow \notin S /\ DOMAIN change = S
        /\ \A x \in SceneId : SceneRow(x) \in S <=> x \in job[w].found
        /\ \A y \in S : change[y] = Deleted
    BY <1>2, RowFacts
  <1> HIDE DEF S, change
  <1>7. ChangeOk(change, S)
    BY <1>5, <1>6 DEF ChangeOk, Values, Deleted, Unused
  <1>8. \A y \in S : Available(w, y)
    BY <1>1, <1>6 DEF Write
  <1>9. PagesApart(db, Overlay(change, work), LockedBy(w, S))
    BY <1>6, <1>8, DeletesKeepApart DEF IInv, RowsOk
  <1>10. RowsOk' /\ RowsAside(w)
    BY <1>1, <1>6, <1>7, <1>9, WriteRows, WriteAside DEF IInv
  <1>11. db' = db /\ \A r \in Rows :
           /\ work'[r] = (IF r \in S THEN change[r] ELSE work[r])
           /\ owner'[r] = (IF r \in S THEN w ELSE owner[r])
    BY <1>1, <1>6 DEF Write, Overlay
  <1>12. \A x \in SceneId : Owns(w, x)' => work'[SceneRow(x)] = Deleted
    BY <1>5, <1>6, <1>11, RowFacts DEF HoldsNothing, Owns
  <1>13. HandlerOk(w)'
    BY <1>4, <1>12 DEF HandlerOk
  <1>14. NoOrphans' /\ AlwaysAScene'
    BY <1>11, SameStory DEF IInv
  <1> QED  BY <1>2, <1>3, <1>10, <1>13, <1>14, StepKeeps

(* The story goes when no scene but those deleted with it is there.         *)
LEMMA DestroyCommitKeeps ==
  ASSUME IInv, NEW w \in Workers, DestroyCommit(w)
  PROVE  IInv'
  <1> DEFINE S == {StoryRow}
             change == Put(StoryRow, Deleted)
  <1>1. Commit(w, change) /\ End(w) /\ LeftBehind(w) = {}
        /\ pc[w] \in {"story", "request"}
    BY DEF DestroyCommit
  <1>2. DOMAIN change = S /\ change[StoryRow] = Deleted
        /\ \A x \in SceneId : SceneRow(x) \notin S
    BY RowFacts DEF Put
  <1> HIDE DEF change
  <1>3. ChangeOk(change, S)
    BY <1>2, RowFacts DEF ChangeOk, Values, Deleted, Unused
  <1>4. \A y \in S : Available(w, y)
    BY <1>1, <1>2 DEF Commit
  <1>5. PagesApart(db, Overlay(change, work), LockedBy(w, S))
    BY <1>2, <1>4, RowFacts, DeletesKeepApart DEF IInv, RowsOk
  <1>6. RowsOk' /\ RowsAside(w)
    BY <1>1, <1>3, <1>5, CommitRows, CommitAside DEF IInv
  <1>7. \A x \in Rows :
           /\ db'[x] = (IF x \in S THEN change[x]
                        ELSE IF owner[x] = w THEN work[x] ELSE db[x])
           /\ owner'[x] = (IF owner[x] = w THEN None ELSE owner[x])
    BY <1>1, <1>3, CommitShows DEF IInv
  <1>8. \A x \in SceneId : owner'[SceneRow(x)] # w
    BY <1>7, RowFacts
  <1>9. db'[StoryRow] = Deleted
    BY <1>2, <1>7, RowFacts
  <1>10. ASSUME NEW x \in SceneId
         PROVE  ~ db'[SceneRow(x)] > 0
    <2>1. CASE owner[SceneRow(x)] = w
      <3>1. work[SceneRow(x)] = Deleted
        BY <1>1, <2>1 DEF IInv, HandlerOk, HoldsNothing, Owns
      <3> QED  BY <1>2, <1>7, <2>1, <3>1, RowFacts DEF Deleted
    <2>2. CASE owner[SceneRow(x)] # w
      <3>1. db'[SceneRow(x)] = db[SceneRow(x)]
        BY <1>2, <1>7, <2>2, RowFacts
      <3>2. x \notin Live(db)
        <4>1. CASE pc[w] = "story"
          BY <1>1, <2>2, <4>1 DEF LeftBehind
        <4>2. CASE pc[w] = "request"
          BY <1>1, <4>2 DEF LeftBehind, IInv, NoOrphans
        <4> QED  BY <1>1, <4>1, <4>2
      <3> QED  BY <3>1, <3>2 DEF Live
    <2> QED  BY <2>1, <2>2
  <1>11. NoOrphans' /\ AlwaysAScene'
    BY <1>9, <1>10 DEF NoOrphans, AlwaysAScene, Live, HasStory, Made, Deleted
  <1> QED  BY <1>1, <1>6, <1>8, <1>11, EndKeeps

(* Initially there is no story.                                             *)
LEMMA InitIInv == Init => IInv
  <1> SUFFICES ASSUME Init PROVE IInv
    OBVIOUS
  <1>1. /\ \A x \in Rows : db[x] = Unused /\ work[x] = Unused /\ owner[x] = None
        /\ db \in [Rows -> Values] /\ work \in [Rows -> Values]
        /\ owner \in [Rows -> Workers \cup {None}]
    BY DEF Init, Values, Unused
  <1>2. RowsOk
    BY <1>1, RowFacts DEF RowsOk, RowTypes, StoryFree, Settled, Written,
                          NothingYet, PagesApart, Unused
  <1>3. JobTypes
    BY JobFacts DEF Init, JobTypes, Steps
  <1>4. NoOrphans /\ AlwaysAScene
    BY <1>1, RowFacts DEF NoOrphans, AlwaysAScene, Live, HasStory, Made, Unused
  <1>5. ASSUME NEW w \in Workers PROVE HandlerOk(w)
    BY <1>1, RowFacts DEF Init, HandlerOk, HoldsNothing, Owns
  <1> QED  BY <1>2, <1>3, <1>4, <1>5 DEF IInv

(* Every step keeps the invariant.                                          *)
LEMMA NextIInv == IInv /\ [Next]_vars => IInv'
  <1> SUFFICES ASSUME IInv, [Next]_vars PROVE IInv'
    OBVIOUS
  <1>1. ASSUME NEW w \in Workers,
               \/ DraftBegin(w) \/ UpsertBegin(w)
               \/ ReorderBegin(w) \/ DestroyBegin(w)
        PROVE  IInv'
    BY <1>1, BeginsKeep
  <1>2. ASSUME NEW w \in Workers, Draft(w) PROVE IInv'
    BY <1>2, DraftKeeps
  <1>3. ASSUME NEW w \in Workers, SelectScenes(w) PROVE IInv'
    BY <1>3, SelectKeeps
  <1>4. ASSUME NEW w \in Workers, UpsertUpdate(w) PROVE IInv'
    <2> DEFINE z == job[w].payload[job[w].next].id
    <2>1. z \in job[w].found /\ z \in SceneId
      BY <1>4 DEF UpsertUpdate, IInv, JobTypes, Jobs
    <2>2. Goes(w, AfterItem(w), WithItem(w, z))
      BY <1>4, ItemGoes DEF UpsertUpdate, IInv
    <2> QED  BY <1>4, <2>1, <2>2, StoreKeeps DEF UpsertUpdate
  <1>5. ASSUME NEW w \in Workers, UpsertInsert(w) PROVE IInv'
    <2>1. PICK z \in NextScene :
            /\ Write(w, Put(SceneRow(z), Target(w)))
            /\ job' = [job EXCEPT ![w].next = @ + 1,
                                  ![w].retained = @ \cup {z}]
      BY <1>5 DEF UpsertInsert
    <2>2. z \in SceneId
      BY DEF NextScene
    <2>3. Goes(w, AfterItem(w), WithItem(w, z))
      BY <1>5, <2>1, ItemGoes DEF UpsertInsert, IInv
    <2> QED  BY <1>5, <2>1, <2>2, <2>3, StoreKeeps DEF UpsertInsert
  <1>6. ASSUME NEW w \in Workers, UpsertDelete(w) PROVE IInv'
    BY <1>6, DeleteKeeps
  <1>7. ASSUME NEW w \in Workers, Move(w) PROVE IInv'
    BY <1>7, LastMove, OneMove
  <1>8. ASSUME NEW w \in Workers, DestroyScenes(w) PROVE IInv'
    BY <1>8, DestroyScenesKeeps
  <1>9. ASSUME NEW w \in Workers, DestroyCommit(w) PROVE IInv'
    BY <1>9, DestroyCommitKeeps
  <1>10. ASSUME NEW w \in Workers,
                \/ DraftRefused(w) \/ UpsertRefused(w)
                \/ UpsertCommitRefused(w) \/ MoveFails(w)
                \/ DestroyRefused(w) \/ DeadlockVictim(w) \/ Crash(w)
         PROVE  IInv'
    BY <1>10, RaiseKeeps DEF DraftRefused, UpsertRefused, UpsertCommitRefused,
       MoveFails, DestroyRefused, DeadlockVictim, Crash
  <1>11. CASE UNCHANGED vars
    <2>1. /\ db' = db /\ work' = work /\ owner' = owner
          /\ pc' = pc /\ job' = job
      BY <1>11 DEF vars
    <2>2. RowsOk' /\ JobTypes'
      BY <2>1 DEF IInv, RowsOk, RowTypes, StoryFree, Settled, Written,
         NothingYet, JobTypes
    <2>3. NoOrphans' /\ AlwaysAScene'
      BY <2>1, SameStory DEF IInv
    <2>4. ASSUME NEW w \in Workers PROVE HandlerOk(w)'
      <3>1. /\ HoldsNothing(w) => HoldsNothing(w)'
            /\ Moving(w) => Moving(w)'
            /\ Placed(w) => Placed(w)'
        BY <2>1 DEF HoldsNothing, Moving, Placed, Owns
      <3>2. Replacing(w) => Replacing(w)'
        BY <2>1, <3>1 DEF Replacing, Owns
      <3> QED  BY <2>1, <3>1, <3>2 DEF IInv, HandlerOk, Owns
    <2> QED  BY <2>2, <2>3, <2>4 DEF IInv
  <1> QED  BY <1>1, <1>2, <1>3, <1>4, <1>5, <1>6, <1>7, <1>8, <1>9, <1>10,
              <1>11 DEF Next, Statement

----------------------------------------------------------------------------
(* Theorems.                                                                *)

(* Pages that are apart are as many as the scenes.                          *)
LEMMA PagesCounted ==
  ASSUME IInv
  PROVE  Cardinality(Pages(db)) = Cardinality(Live(db))
  <1> DEFINE f == [x \in Live(db) |-> db[SceneRow(x)]]
  <1>1. IsFiniteSet(Live(db))
    <2>1. IsFiniteSet(SceneId)
      BY FS_Interval DEF SceneId
    <2> QED  BY <2>1, FS_Subset DEF Live
  <1>2. f \in Surjection(Live(db), Pages(db))
    BY DEF Surjection, Pages
  <1>3. f \in Injection(Live(db), Pages(db))
    <2>1. f \in [Live(db) -> Pages(db)]
      BY DEF Pages
    <2>2. \A x, y \in Live(db) : f[x] = f[y] => x = y
      BY DEF IInv, RowsOk, PagesApart, Live
    <2> QED  BY <2>1, <2>2 DEF Injection, IsInjective
  <1> HIDE DEF f
  <1> QED  BY <1>1, <1>2, <1>3, FS_Surjection

(* The rows and the handlers keep their types, and no two scenes of a story *)
(* are ever committed on one page, in whatever order the drafts, the        *)
(* replacements, the moves and the deletions store them and end             *)
(* (models.py:182-184).                                                     *)
THEOREM PagesTypes == Spec => []PagesTypeOK
  <1>1. IInv => PagesTypeOK
    BY PagesCounted DEF IInv, RowsOk, RowTypes, JobTypes, PagesTypeOK, Values
  <1> QED  BY InitIInv, NextIInv, <1>1, PTL DEF Spec

(* A committed story has a scene, though nobody locks the story.            *)
THEOREM AlwaysASceneCorrect == Spec => []AlwaysAScene
  <1>1. IInv => AlwaysAScene
    BY DEF IInv
  <1> QED  BY InitIInv, NextIInv, <1>1, PTL DEF Spec

(* A committed scene has its story: what the replacement inserted while the *)
(* request was being deleted fails one of the two at its commit.            *)
THEOREM NoOrphansCorrect == Spec => []NoOrphans
  <1>1. IInv => NoOrphans
    BY DEF IInv
  <1> QED  BY InitIInv, NextIInv, <1>1, PTL DEF Spec

(* A replacement commits the pages of its list and those of scenes that     *)
(* came after its SELECT, and no others.                                    *)
LEMMA DeleteReplaces ==
  ASSUME IInv, NEW w \in Workers, UpsertDelete(w), DistinctIds(job[w].payload)
  PROVE  LET payload == job[w].payload
             later == Live(db) \ job[w].found IN
         /\ Pages(db') = PagesAsked(payload)
                           \cup {db[SceneRow(x)] : x \in later}
         /\ \A k \in DOMAIN payload :
              payload[k].id \in job[w].found
                => db'[SceneRow(payload[k].id)] = Page(payload, k)
  <1> DEFINE payload == job[w].payload
             found == job[w].found
             retained == job[w].retained
             later == Live(db) \ found
             stored == 1 .. job[w].next - 1
  <1>1. /\ Replacing(w)
        /\ \A x \in retained :
             db'[SceneRow(x)] = work[SceneRow(x)] /\ db'[SceneRow(x)] > 0
        /\ \A x \in found \ retained : db'[SceneRow(x)] = Deleted
        /\ \A x \in SceneId \ (found \cup retained) :
             db'[SceneRow(x)] = db[SceneRow(x)]
    BY DeleteShows
  <1>2. found \subseteq SceneId /\ retained \subseteq SceneId
    BY DEF IInv, JobTypes, Jobs
  <1>3. payload \in Payloads /\ Placed(w)
    BY <1>1 DEF Replacing
  <1>4. stored = DOMAIN payload
    <2>1. job[w].next = Len(payload) + 1
      BY DEF IInv, HandlerOk, UpsertDelete
    <2> QED  BY <1>3, <2>1, PayloadFacts
  <1>5. \A x \in retained \ found : db[SceneRow(x)] = Unused
    BY <1>1, <1>2 DEF Replacing
  <1>6. Live(db') = retained \cup later
    <2>1. ASSUME NEW x \in SceneId
          PROVE  x \in Live(db') <=> x \in retained \cup later
      BY <1>1, <1>5, <2>1 DEF Live, Deleted, Unused
    <2> QED  BY <1>2, <2>1 DEF Live
  <1>7. {db'[SceneRow(x)] : x \in retained} = PagesAsked(payload)
    <2>1. {db'[SceneRow(x)] : x \in retained}
            = {work[SceneRow(x)] : x \in retained}
      BY <1>1
    <2>2. {work[SceneRow(x)] : x \in retained}
            = {Page(payload, k) : k \in stored}
      BY <1>3 DEF Placed
    <2> HIDE DEF stored
    <2> QED  BY <1>4, <2>1, <2>2 DEF PagesAsked
  <1>8. {db'[SceneRow(x)] : x \in later} = {db[SceneRow(x)] : x \in later}
    <2>1. \A x \in later : db'[SceneRow(x)] = db[SceneRow(x)]
      BY <1>1, <1>5 DEF Live, Unused
    <2> QED  BY <2>1
  <1>9. Pages(db') = PagesAsked(payload) \cup {db[SceneRow(x)] : x \in later}
    <2>1. Pages(db') = {db'[SceneRow(x)] : x \in retained}
                         \cup {db'[SceneRow(x)] : x \in later}
      BY <1>6 DEF Pages
    <2> QED  BY <1>7, <1>8, <2>1
  <1>10. ASSUME NEW k \in DOMAIN payload, payload[k].id \in found
         PROVE  db'[SceneRow(payload[k].id)] = Page(payload, k)
    <2>1. /\ payload[k].id \in retained
          /\ work[SceneRow(payload[k].id)] = Page(payload, k)
      BY <1>3, <1>4, <1>10 DEF Placed
    <2> QED  BY <1>1, <2>1
  <1> QED  BY <1>9, <1>10

(* What the bulk replacement commits is the list that was sent, whoever     *)
(* interleaves: its pages, those of scenes inserted after its SELECT began, *)
(* and no others; the scenes it names are on the pages it asks for.         *)
THEOREM ReplacesFoundCorrect == Spec => ReplacesFound
  <1>1. IInv => \A w \in Workers :
          LET payload == job[w].payload
              later == Live(db) \ job[w].found
          IN (UpsertDelete(w) /\ DistinctIds(payload)) =>
            /\ Pages(db') = PagesAsked(payload)
                              \cup {db[SceneRow(x)] : x \in later}
            /\ \A k \in DOMAIN payload :
                 payload[k].id \in job[w].found
                   => db'[SceneRow(payload[k].id)] = Page(payload, k)
    BY DeleteReplaces
  <1> QED  BY InitIInv, NextIInv, <1>1, PTL DEF Spec, ReplacesFound

(* Only the moves of w and its end change the local variables of w while it *)
(* is reordering.                                                           *)
LEMMA MovesAlone ==
  ASSUME IInv, Next, NEW w \in Workers, pc[w] = "move", job'[w] # job[w]
  PROVE  Move(w) \/ Raise(w)
  <1>1. job \in [Workers -> Jobs]
    BY DEF IInv, JobTypes
  <1>2. PICK v \in Workers :
          \/ DraftBegin(v) \/ UpsertBegin(v) \/ ReorderBegin(v)
          \/ DestroyBegin(v) \/ Statement(v) \/ DeadlockVictim(v) \/ Crash(v)
    BY DEF Next
  <1>3. v = w
    <2> SUFFICES ASSUME v # w PROVE job'[w] = job[w]
      OBVIOUS
    <2>1. CASE \/ DraftBegin(v) \/ UpsertBegin(v)
               \/ ReorderBegin(v) \/ DestroyBegin(v)
      BY <1>1, <2>1
      DEF DraftBegin, UpsertBegin, ReorderBegin, DestroyBegin, Begin
    <2>2. CASE \/ Draft(v) \/ SelectScenes(v) \/ UpsertUpdate(v)
               \/ UpsertInsert(v) \/ UpsertDelete(v) \/ Move(v)
               \/ DestroyScenes(v) \/ DestroyCommit(v)
      BY <1>1, <2>2 DEF Draft, SelectScenes, UpsertUpdate, UpsertInsert,
         UpsertDelete, Move, DestroyScenes, DestroyCommit, End
    <2>3. CASE \/ DraftRefused(v) \/ UpsertRefused(v)
               \/ UpsertCommitRefused(v) \/ MoveFails(v)
               \/ DestroyRefused(v) \/ DeadlockVictim(v) \/ Crash(v)
      BY <1>1, <2>3 DEF DraftRefused, UpsertRefused, UpsertCommitRefused,
         MoveFails, DestroyRefused, DeadlockVictim, Crash, Raise, End
    <2> QED  BY <1>2, <2>1, <2>2, <2>3 DEF Statement
  <1>4. CASE Statement(w)
    BY <1>4 DEF Statement, Draft, DraftRefused, SelectScenes, UpsertUpdate,
       UpsertInsert, UpsertRefused, UpsertDelete, UpsertCommitRefused,
       MoveFails, DestroyScenes, DestroyCommit, DestroyRefused
  <1>5. CASE DeadlockVictim(w) \/ Crash(w)
    BY <1>5 DEF DeadlockVictim, Crash
  <1>6. ~ (\/ DraftBegin(w) \/ UpsertBegin(w)
           \/ ReorderBegin(w) \/ DestroyBegin(w))
    BY DEF DraftBegin, UpsertBegin, ReorderBegin, DestroyBegin
  <1> QED  BY <1>2, <1>3, <1>4, <1>5, <1>6

(* A reordering happens as a whole or not at all: a step of it that changes *)
(* what is committed makes every move of its list, to the pages as they are *)
(* then (services.py:128-146).                                              *)
THEOREM ReorderCorrect == Spec => ReorderIsWhole
  <1>1. IInv /\ Next =>
          \A w \in Workers :
            (pc[w] = "move" /\ job'[w] # job[w] /\ db' # db)
              => db' = Reordered(job[w].payload, Len(job[w].payload), db)
    <2> SUFFICES ASSUME IInv, Next, NEW w \in Workers, pc[w] = "move",
                        job'[w] # job[w], db' # db
                 PROVE  db' = Reordered(job[w].payload, Len(job[w].payload), db)
      OBVIOUS
    <2>1. Move(w)
      BY MovesAlone DEF Raise, Rollback
    <2> QED  BY <2>1, LastMove, OneMove
  <1> QED  BY InitIInv, NextIInv, <1>1, PTL DEF Spec, ReorderIsWhole
====
