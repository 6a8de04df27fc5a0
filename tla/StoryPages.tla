---- MODULE StoryPages ----
(***************************************************************************)
(* The pages of one story: the draft made from a request, the bulk          *)
(* replacement and the reordering of its scenes (stories/services.py,       *)
(* stories/api/views.py) and the deletion of the request, which takes the   *)
(* story and its scenes along (on_delete=CASCADE in stories/models.py),     *)
(* statement by statement under the row locks, the unique (story, page)     *)
(* constraint and the foreign keys, which PostgreSQL checks at the commit.  *)
(***************************************************************************)
EXTENDS Integers, Sequences, FiniteSets, SequencesExt

CONSTANTS Workers, None,
          MaxScenes,     \* bound: how many scenes are ever inserted
          MaxId,         \* bound: the identifiers a client names
          MaxPage,       \* bound: the pages a client asks for
          MaxItems,      \* bound: the length of a list of scenes
          MaxMoved,      \* bound: the identifiers a reordering names
          Places,        \* bound: the pages a reordering names, 0 if it is missing
          Events         \* which handlers and failures the environment provides

VARIABLES db, work, owner,
          pc,    \* [Workers -> Steps]: the next statement of the handler
          job    \* [Workers -> Jobs]: the handler's local variables

vars == <<db, work, owner, pc, job>>

SceneId == 1 .. MaxScenes
StoryRow == <<"story", 0>>
SceneRow(x) == <<"scene", x>>
Rows == {StoryRow} \cup {SceneRow(x) : x \in SceneId}

INSTANCE Transactions

(* Assumed of the constants.                                                *)
ASSUME BookConstantsOk ==
  /\ MaxScenes \in Nat /\ MaxId \in 0 .. MaxScenes /\ MaxPage \in Nat
  /\ MaxItems \in 0 .. MaxScenes /\ None \notin Workers
  /\ MaxMoved \in 0 .. MaxScenes /\ Places \subseteq Nat
  /\ Events \subseteq {"draft", "upsert", "reorder", "destroy", "crash"}

(* A scene row holds its page, or says that there is no such scene: no      *)
(* insert took the identifier yet, or the scene was deleted.  The story row *)
(* is Unused while the request has no story, then Made, and Deleted when    *)
(* the request is gone and the story with it.                               *)
Unused == 0
Deleted == -1
Made == 1

Live(image) == {x \in SceneId : image[SceneRow(x)] > 0}
Pages(image) == {image[SceneRow(x)] : x \in Live(image)}
HasStory(image) == image[StoryRow] = Made

(* SceneWriteSerializer: both fields may be missing (0); an identifier may  *)
(* be that of a scene which is gone, or of another story.                   *)
Items == [id : 0 .. MaxId, page : 0 .. MaxPage]
Payloads == BoundedSeq(Items, MaxItems)
Moves == [id : 1 .. MaxMoved, page : Places]
Orders == BoundedSeq(Moves, MaxItems)

Steps == {"idle", "draft", "select", "item", "delete", "order", "move",
          "scenes", "story", "request"}

Jobs == [payload : Payloads \cup Orders,
         found : SUBSET SceneId,      \* the scenes the SELECT sees
         next : 1 .. MaxItems + 1,    \* the item to store
         retained : SUBSET SceneId]

NoJob == [payload |-> <<>>, found |-> {}, next |-> 1, retained |-> {}]

Init == /\ db = [x \in Rows |-> Unused]
        /\ work = db
        /\ owner = [x \in Rows |-> None]
        /\ pc = [w \in Workers |-> "idle"]
        /\ job = [w \in Workers |-> NoJob]

Begin(w, step, args) ==
  /\ pc' = [pc EXCEPT ![w] = step]
  /\ job' = [job EXCEPT ![w] = args]
  /\ UNCHANGED <<db, work, owner>>

End(w) == /\ pc' = [pc EXCEPT ![w] = "idle"]
          /\ job' = [job EXCEPT ![w] = NoJob]

Raise(w) == Rollback(w) /\ End(w)

Put(x, value) == [y \in {x} |-> value]

(* Scenes that handlers under way may still insert: the bound has room.     *)
Asked(w) == IF pc[w] \in {"order", "move"} THEN 0 ELSE Len(job[w].payload)
Room ==
  MaxScenes - Cardinality({x \in SceneId : work[SceneRow(x)] # Unused})
    - FoldFunction(+, 0, [w \in Workers |-> Asked(w)])

(* The identifier of the next scene; the identifier a rolled back insert    *)
(* burned was never seen by anybody and is used again.                      *)
NextScene == {x \in SceneId : /\ work[SceneRow(x)] = Unused
                              /\ \A y \in 1 .. x - 1 : work[SceneRow(y)] # Unused}

----------------------------------------------------------------------------
(* create_story_from_request.                                               *)

(* The page of every item: the one asked for, else the first one from its   *)
(* index on that no earlier item took.  One assignment of pages is so.      *)
IsDraft(payload, pages) ==
  \A k \in DOMAIN payload :
    LET used == {pages[l] : l \in 1 .. k - 1} IN
      \/ payload[k].page # 0 /\ pages[k] = payload[k].page
      \/ /\ payload[k].page = 0
         /\ pages[k] >= k /\ pages[k] \notin used
         /\ k .. pages[k] - 1 \subseteq used

Drafts(payload) ==
  {pages \in [DOMAIN payload -> 1 .. MaxPage + 2 * MaxItems] :
     IsDraft(payload, pages)}

(* StoryFromRequestSerializer: scenes may be missing, identifiers are       *)
(* not looked at.                                                           *)
DraftLists == {payload \in Payloads : \A k \in DOMAIN payload : payload[k].id = 0}

DraftBegin(w) ==
  /\ "draft" \in Events /\ pc[w] = "idle"
  /\ db[StoryRow] = Unused
  /\ LET room == Room IN
     \E payload \in DraftLists :
       /\ Len(payload) <= room
       /\ Begin(w, "draft", [NoJob EXCEPT !.payload = payload])

(* Mutant: pages asked for twice are not noticed.                           *)
DraftAcceptedTwice(w, pages) ==
  /\ db[StoryRow] = Unused
  /\ job[w].payload # <<>>

(* A second story of the request violates the one-to-one relation, a        *)
(* request that is gone the foreign key; a page asked for twice is refused, *)
(* and so is the placeholder of an empty list: its blank text does not pass *)
(* full_clean, which every save runs.                                       *)
DraftAccepted(w, pages) ==
  /\ db[StoryRow] = Unused
  /\ job[w].payload # <<>>
  /\ IsInjective(pages)

(* The draft's scenes are the first of the story.  No row of the draft is   *)
(* visible before its commit, so the inserts are one action.                *)
Draft(w) ==
  /\ pc[w] = "draft"
  /\ \E pages \in Drafts(job[w].payload) :
       /\ DraftAccepted(w, pages)
       /\ Commit(w, [x \in {SceneRow(k) : k \in DOMAIN pages} \cup {StoryRow} |->
                       IF x = StoryRow THEN Made ELSE pages[x[2]]])
  /\ End(w)

DraftRefused(w) ==
  /\ pc[w] = "draft"
  /\ \A pages \in Drafts(job[w].payload) : ~ DraftAccepted(w, pages)
  /\ Raise(w)

----------------------------------------------------------------------------
(* StoryScenesBulkView.put and upsert_scenes.                               *)

(* What the item asks for: payload.get("page_no") or index.                 *)
Page(payload, k) == IF payload[k].page = 0 THEN k ELSE payload[k].page

(* StoryScenesBulkSerializer.validate: the pages given are distinct; an     *)
(* empty list is refused by the service at once.                            *)
UpsertLists ==
  {payload \in Payloads :
     /\ payload # <<>>
     /\ \A k, l \in DOMAIN payload :
          (k # l /\ payload[k].page # 0) => payload[k].page # payload[l].page}

(* The snapshot of story.scenes.select_for_update().                        *)
UpsertBegin(w) ==
  /\ "upsert" \in Events /\ pc[w] = "idle"
  /\ HasStory(db)
  /\ LET room == Room IN
     \E payload \in UpsertLists :
       /\ Len(payload) <= room
       /\ Begin(w, "select", [NoJob EXCEPT !.payload = payload,
                                           !.found = Live(db)])

(* It waits for every row of the snapshot; a row deleted meanwhile is no    *)
(* longer in the result, a row inserted meanwhile is not in it either.      *)
(* reorder_scenes runs the same statement.                                  *)
SelectScenes(w) ==
  /\ pc[w] \in {"select", "order"}
  /\ LET found == {x \in job[w].found : work[SceneRow(x)] > 0} IN
       /\ \A x \in job[w].found : Available(w, SceneRow(x))
       /\ Write(w, [y \in {SceneRow(x) : x \in found} |-> work[y]])
       /\ job' = [job EXCEPT ![w].found = found]
  /\ pc' = [pc EXCEPT ![w] = IF pc[w] = "select" THEN "item" ELSE "move"]

Target(w) == Page(job[w].payload, job[w].next)

(* Scene.full_clean finds the story gone, or another scene of the story on  *)
(* the page: one this worker can see.                                       *)
Invalid(w, id, page) ==
  LET mine == IF id \in job[w].found THEN {id} ELSE {} IN
    ~ HasStory(db) \/ \E x \in SceneId \ mine : Seen(w, SceneRow(x)) = page

(* ... or the page was already in the list.                                 *)
ItemRefused(w) ==
  LET k == job[w].next IN
    \/ \E l \in 1 .. k - 1 : Page(job[w].payload, l) = Target(w)
    \/ Invalid(w, job[w].payload[k].id, Target(w))

(* Workers with an uncommitted scene on the page: the unique index waits.   *)
PageWait(w, page) ==
  {owner[SceneRow(x)] : x \in {x \in SceneId : /\ ~ Available(w, SceneRow(x))
                                               /\ work[SceneRow(x)] = page}}
ItemWait(w) == PageWait(w, Target(w))

(* Mutant: a scene that is kept is not noted as retained.                   *)
UpdateForgotten(w) ==
  /\ pc[w] = "item"
  /\ ~ ItemRefused(w) /\ ItemWait(w) = {}
  /\ LET id == job[w].payload[job[w].next].id IN
       /\ id \in job[w].found
       /\ Write(w, Put(SceneRow(id), Target(w)))
       /\ job' = [job EXCEPT ![w].next = @ + 1]
  /\ pc' = [pc EXCEPT ![w] = IF job[w].next = Len(job[w].payload)
                             THEN "delete" ELSE "item"]

UpsertUpdate(w) ==
  /\ pc[w] = "item"
  /\ ~ ItemRefused(w) /\ ItemWait(w) = {}
  /\ LET id == job[w].payload[job[w].next].id IN
       /\ id \in job[w].found
       /\ Write(w, Put(SceneRow(id), Target(w)))
       /\ job' = [job EXCEPT ![w].next = @ + 1, ![w].retained = @ \cup {id}]
  /\ pc' = [pc EXCEPT ![w] = IF job[w].next = Len(job[w].payload)
                             THEN "delete" ELSE "item"]

UpsertInsert(w) ==
  /\ pc[w] = "item"
  /\ ~ ItemRefused(w) /\ ItemWait(w) = {}
  /\ job[w].payload[job[w].next].id \notin job[w].found
  /\ \E x \in NextScene :
       /\ Write(w, Put(SceneRow(x), Target(w)))
       /\ job' = [job EXCEPT ![w].next = @ + 1, ![w].retained = @ \cup {x}]
  /\ pc' = [pc EXCEPT ![w] = IF job[w].next = Len(job[w].payload)
                             THEN "delete" ELSE "item"]

UpsertRefused(w) ==
  /\ pc[w] = "item"
  /\ ItemRefused(w)
  /\ Raise(w)

(* Mutant: Scene.story without its constraint in the database.              *)
AnyStoryHolds(w) == TRUE

(* The deferred foreign key: scenes that were inserted need their story.    *)
StoryHolds(w) == job[w].retained \ job[w].found = {} \/ HasStory(db)

(* Mutant: scenes the list leaves out stay.                                 *)
UpsertDeleteNothing(w) ==
  /\ pc[w] = "delete"
  /\ StoryHolds(w)
  /\ Commit(w, NoWrites)
  /\ End(w)

(* Scenes the list leaves out are deleted, and the transaction commits.     *)
UpsertDelete(w) ==
  /\ pc[w] = "delete"
  /\ StoryHolds(w)
  /\ Commit(w, [y \in {SceneRow(x) : x \in job[w].found \ job[w].retained} |->
                  Deleted])
  /\ End(w)

UpsertCommitRefused(w) ==
  /\ pc[w] = "delete"
  /\ ~ StoryHolds(w)
  /\ Raise(w)

----------------------------------------------------------------------------
(* reorder_scenes; no view calls it, it is the service's own promise.       *)

(* An empty list and a page given twice (a missing one counts as a page)    *)
(* are refused at once.                                                     *)
OrderLists ==
  {order \in Orders : order # <<>> /\ IsInjective([k \in DOMAIN order |-> order[k].page])}

ReorderBegin(w) ==
  /\ "reorder" \in Events /\ pc[w] = "idle"
  /\ HasStory(db)
  /\ \E order \in OrderLists :
       Begin(w, "order", [NoJob EXCEPT !.payload = order, !.found = Live(db)])

Moved(w) == job[w].payload[job[w].next].id

(* item.get("page_no", scene.page_no).                                      *)
Place(w) == LET page == job[w].payload[job[w].next].page IN
  IF page = 0 THEN Seen(w, SceneRow(Moved(w))) ELSE page

(* A scene that is not the story's, or a page that is taken: also by one    *)
(* that a later item would move away, so no list can swap two scenes.       *)
MoveRefused(w) ==
  Moved(w) \notin job[w].found \/ Invalid(w, Moved(w), Place(w))

(* Mutant: without @transaction.atomic every save commits.                  *)
MoveSavedAtOnce(w) ==
  /\ pc[w] = "move"
  /\ ~ MoveRefused(w) /\ PageWait(w, Place(w)) = {}
  /\ Commit(w, Put(SceneRow(Moved(w)), Place(w)))
  /\ IF job[w].next = Len(job[w].payload)
     THEN End(w)
     ELSE job' = [job EXCEPT ![w].next = @ + 1] /\ UNCHANGED pc

(* One scene is saved; the transaction commits after the last one.          *)
Move(w) ==
  /\ pc[w] = "move"
  /\ ~ MoveRefused(w) /\ PageWait(w, Place(w)) = {}
  /\ LET moved == Put(SceneRow(Moved(w)), Place(w)) IN
       IF job[w].next = Len(job[w].payload)
       THEN Commit(w, moved) /\ End(w)
       ELSE /\ Write(w, moved)
            /\ job' = [job EXCEPT ![w].next = @ + 1]
            /\ UNCHANGED pc

MoveFails(w) ==
  /\ pc[w] = "move"
  /\ MoveRefused(w)
  /\ Raise(w)

----------------------------------------------------------------------------
(* StoryRequestViewSet.destroy: Django's collector looks for the story,     *)
(* then deletes the scenes, the story and the request in one transaction.   *)

(* The collector's SELECT, and the snapshot of the DELETE of the scenes.    *)
DestroyBegin(w) ==
  /\ "destroy" \in Events /\ pc[w] = "idle"
  /\ db[StoryRow] # Deleted
  /\ Begin(w, IF HasStory(db) THEN "scenes" ELSE "request",
           [NoJob EXCEPT !.found = Live(db)])

(* DELETE ... WHERE story_id = ... waits like the SELECT FOR UPDATE does.   *)
DestroyScenes(w) ==
  /\ pc[w] = "scenes"
  /\ \A x \in job[w].found : Available(w, SceneRow(x))
  /\ Write(w, [y \in {SceneRow(x) : x \in job[w].found} |-> Deleted])
  /\ pc' = [pc EXCEPT ![w] = "story"]
  /\ UNCHANGED job

(* What the collector did not see and the foreign keys find at the commit:  *)
(* scenes, or the story.                                                    *)
LeftBehind(w) == IF pc[w] = "story" THEN {x \in Live(db) : owner[SceneRow(x)] # w}
                                    ELSE {x \in {StoryRow} : HasStory(db)}

(* Mutant: the collector's snapshot is all that is looked at.               *)
DestroyUnchecked(w) ==
  /\ pc[w] \in {"story", "request"}
  /\ Commit(w, Put(StoryRow, Deleted))
  /\ End(w)

DestroyCommit(w) ==
  /\ pc[w] \in {"story", "request"}
  /\ LeftBehind(w) = {}
  /\ Commit(w, Put(StoryRow, Deleted))
  /\ End(w)

DestroyRefused(w) ==
  /\ pc[w] \in {"story", "request"}
  /\ LeftBehind(w) # {}
  /\ Raise(w)

----------------------------------------------------------------------------

Crash(w) == /\ "crash" \in Events
            /\ pc[w] # "idle"
            /\ Raise(w)

WaitsFor(w) ==
  CASE pc[w] \in {"select", "order", "scenes"} ->
         {owner[SceneRow(x)] : x \in {x \in job[w].found :
                                        ~ Available(w, SceneRow(x))}}
    [] pc[w] = "item" /\ ~ ItemRefused(w) -> ItemWait(w)
    [] pc[w] = "move" /\ ~ MoveRefused(w) -> PageWait(w, Place(w))
    [] OTHER -> {}

DeadlockVictim(w) ==
  /\ InRing(w, [v \in Workers |-> WaitsFor(v)])
  /\ Raise(w)

Statement(w) ==
  \/ Draft(w) \/ DraftRefused(w)
  \/ SelectScenes(w) \/ UpsertUpdate(w) \/ UpsertInsert(w)
  \/ UpsertRefused(w) \/ UpsertDelete(w) \/ UpsertCommitRefused(w)
  \/ Move(w) \/ MoveFails(w)
  \/ DestroyScenes(w) \/ DestroyCommit(w) \/ DestroyRefused(w)

Next == \E w \in Workers : \/ DraftBegin(w) \/ UpsertBegin(w)
                           \/ ReorderBegin(w) \/ DestroyBegin(w)
                           \/ Statement(w)
                           \/ DeadlockVictim(w) \/ Crash(w)

Spec == Init /\ [][Next]_vars

----------------------------------------------------------------------------
(* Properties.                                                              *)

(* The rows, the handlers, and the unique constraint: no two scenes of the  *)
(* story are committed on one page.                                         *)
PagesTypeOK ==
  /\ db \in [Rows -> {Deleted} \cup Nat] /\ work \in [Rows -> {Deleted} \cup Nat]
  /\ db[StoryRow] \in {Unused, Made, Deleted}
  /\ owner \in [Rows -> Workers \cup {None}]
  /\ pc \in [Workers -> Steps]
  /\ job \in [Workers -> Jobs]
  /\ Cardinality(Pages(db)) = Cardinality(Live(db))

(* A story always has a scene to show: drafts start with one, and the bulk  *)
(* replacement never leaves none, whoever else replaces, deletes or dies    *)
(* meanwhile (services.py:50 and 149-189).                                  *)
AlwaysAScene == HasStory(db) => Live(db) # {}

(* No scene outlives its story: a replacement that races the deletion of    *)
(* the request either comes first and makes it fail, or fails itself        *)
(* (models.py:174 and services.py:149-189, neither of which locks the       *)
(* story).                                                                  *)
NoOrphans == Live(db) # {} => HasStory(db)

(* The identifiers of a list are those of different scenes.                 *)
DistinctIds(payload) ==
  \A k, l \in DOMAIN payload :
    (k # l /\ payload[k].id # 0) => payload[k].id # payload[l].id

PagesAsked(payload) == {Page(payload, k) : k \in DOMAIN payload}

(* What is committed when the bulk replacement succeeds is the list that    *)
(* was sent, whoever interleaves: its pages, those of scenes that others    *)
(* inserted after its SELECT began, and no others; and every scene of the   *)
(* list that it found is still that scene, on the page asked for            *)
(* (services.py:149-189).                                                   *)
ReplacesFound ==
  [][\A w \in Workers :
       LET payload == job[w].payload
           later == Live(db) \ job[w].found
       IN (UpsertDelete(w) /\ DistinctIds(payload)) =>
         /\ Pages(db') = PagesAsked(payload) \cup {db[SceneRow(x)] : x \in later}
         /\ \A k \in DOMAIN payload :
              payload[k].id \in job[w].found
                => db'[SceneRow(payload[k].id)] = Page(payload, k)]_vars

(* The rows after the first n items of a reordering: a scene is on the page *)
(* of the last item that gives it one.                                      *)
Given(order, n, x) ==
  {k \in 1 .. n : SceneRow(order[k].id) = x /\ order[k].page # 0}

Reordered(order, n, image) ==
  [x \in Rows |-> IF Given(order, n, x) = {} THEN image[x]
                  ELSE order[Max(Given(order, n, x))].page]

(* A reordering happens as a whole or not at all, whatever is refused on    *)
(* the way and whoever interleaves or dies: what it commits is every move   *)
(* of its list, made to the pages as they are then (services.py:128-146).   *)
ReorderIsWhole ==
  [][\A w \in Workers :
       (pc[w] = "move" /\ job'[w] # job[w] /\ db' # db)
         => db' = Reordered(job[w].payload, Len(job[w].payload), db)]_vars
====
