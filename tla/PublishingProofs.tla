---- MODULE PublishingProofs ----
(* The row of a story stays consistent for any number of editors.           *)
EXTENDS Publishing, TLAPS

(* The story starts typed.                                                  *)
LEMMA TypeInit == ShelfInit => ShelfTypeOK
  BY DEF ShelfInit, ShelfTypeOK, NewStory, StoryRecord, StoryStatuses,
         Visibilities

(* and consistent.                                                          *)
LEMMA ShelfStarts == ShelfInit => ShelfIsConsistent
  BY DEF ShelfInit, ShelfIsConsistent, NewStory

(* What a save may leave behind, whatever the image it started from.        *)
LEMMA SaveKeeps ==
  ASSUME NEW operation \in Operations, NEW old \in StoryRecord,
         NEW s \in StoryRecord
  PROVE  /\ Saved(operation, Changed(operation, old), s) \in StoryRecord
         /\ operation \in {"hide", "unhide"}
              => LET t == Saved(operation, Changed(operation, old), s) IN
                 /\ t.status = s.status /\ t.visibility = s.visibility
                 /\ t.dated = s.dated /\ (t.reason <=> t.hidden)
                 /\ operation = "hide" => t.hidden
         /\ operation \in {"publish", "unpublish"}
              => LET t == Saved(operation, Changed(operation, old), s) IN
                 /\ t.hidden = s.hidden /\ t.reason = s.reason
                 /\ t.status = "PUBLISHED" <=> t.visibility = "public"
                 /\ t.status = "PUBLISHED" => t.dated
                 /\ operation = "unpublish" => t.status # "PUBLISHED"
  <1>1. CASE operation = "publish"
    BY <1>1 DEF Saved, Changed, StoryRecord, StoryStatuses, Visibilities
  <1>2. CASE operation = "unpublish"
    BY <1>2 DEF Saved, Changed, StoryRecord, StoryStatuses, Visibilities
  <1>3. CASE operation = "hide"
    BY <1>3 DEF Saved, Changed, StoryRecord, StoryStatuses, Visibilities
  <1>4. CASE operation = "unhide"
    BY <1>4 DEF Saved, Changed, StoryRecord, StoryStatuses, Visibilities
  <1> QED  BY <1>1, <1>2, <1>3, <1>4 DEF Operations

(* Every step keeps the shelf consistent.                                   *)
LEMMA ShelfStep ==
  ASSUME ShelfTypeOK, ShelfIsConsistent, [ShelfNext]_shelfVars
  PROVE  ShelfTypeOK' /\ ShelfIsConsistent'
  <1> USE DEF ShelfTypeOK
  <1>1. ASSUME NEW w \in Editors, Read(w)
        PROVE  ShelfTypeOK' /\ ShelfIsConsistent'
    BY <1>1 DEF Read, ShelfIsConsistent
  <1>2. ASSUME NEW w \in Editors, Save(w)
        PROVE  ShelfTypeOK' /\ ShelfIsConsistent'
    <2>1. service[w] \in Operations /\ image[w] \in StoryRecord
      BY <1>2 DEF Save
    <2>2. \/ story' = story
          \/ story' = Saved(service[w], Changed(service[w], image[w]), story)
      BY <1>2 DEF Save
    <2>3. ShelfTypeOK'
      BY <1>2, <2>1, <2>2, SaveKeeps DEF Save, NewStory, StoryRecord,
         StoryStatuses, Visibilities
    <2>4. ShelfIsConsistent'
      <3>1. CASE service[w] \in {"hide", "unhide"}
        BY <2>1, <2>2, <3>1, SaveKeeps DEF ShelfIsConsistent
      <3>2. CASE service[w] \in {"publish", "unpublish"}
        BY <2>1, <2>2, <3>2, SaveKeeps DEF ShelfIsConsistent
      <3> QED  BY <2>1, <3>1, <3>2 DEF Operations
    <2> QED  BY <2>3, <2>4
  <1>3. ASSUME NEW w \in Editors, Dies(w)
        PROVE  ShelfTypeOK' /\ ShelfIsConsistent'
    BY <1>3 DEF Dies, ShelfIsConsistent, NewStory, StoryRecord,
       StoryStatuses, Visibilities
  <1>4. ASSUME NEW w \in Editors, MoveDraft(w)
        PROVE  ShelfTypeOK' /\ ShelfIsConsistent'
    BY <1>4 DEF MoveDraft, ShelfIsConsistent, StoryRecord, StoryStatuses,
       Visibilities
  <1>5. ASSUME NEW w \in Editors, Archive(w)
        PROVE  ShelfTypeOK' /\ ShelfIsConsistent'
    BY <1>5 DEF Archive, ShelfIsConsistent, StoryRecord, StoryStatuses,
       Visibilities
  <1>6. CASE UNCHANGED shelfVars
    BY <1>6 DEF shelfVars, ShelfIsConsistent
  <1> QED  BY <1>1, <1>2, <1>3, <1>4, <1>5, <1>6 DEF ShelfNext

(* The row and the images the handlers hold keep their types.               *)
THEOREM ShelfTypes == ShelfSpec => []ShelfTypeOK
  <1>1. ShelfTypeOK /\ ShelfIsConsistent /\ [ShelfNext]_shelfVars
          => (ShelfTypeOK /\ ShelfIsConsistent)'
    BY ShelfStep
  <1> QED  BY TypeInit, ShelfStarts, <1>1, PTL DEF ShelfSpec

(* Published and public agree, a published story is dated, and a reason     *)
(* belongs to a hidden story, however the saves of services.py:77-124 and   *)
(* the bulk updates of admin.py interleave.                                 *)
THEOREM ShelfCorrect == ShelfSpec => []ShelfIsConsistent
  <1>1. ShelfTypeOK /\ ShelfIsConsistent /\ [ShelfNext]_shelfVars
          => (ShelfTypeOK /\ ShelfIsConsistent)'
    BY ShelfStep
  <1> QED  BY TypeInit, ShelfStarts, <1>1, PTL DEF ShelfSpec

(* What a stale object can undo ends with the handlers that hold it: a      *)
(* story off the shelf stays off, whatever the editors save who read it     *)
(* before or after (services.py:81-124).                                    *)
THEOREM StaleReadsCorrect == ShelfSpec => StaleReadsRunOut
  <1>1. ShelfTypeOK /\ [ShelfNext]_shelfVars => [StaysOff]_shelfVars
    <2> SUFFICES ASSUME ShelfTypeOK, ShelfNext PROVE StaysOff
      OBVIOUS
    <2>1. PICK w \in Editors : \/ Read(w) \/ Save(w) \/ Dies(w)
                               \/ MoveDraft(w) \/ Archive(w)
      BY DEF ShelfNext
    <2> USE DEF StaysOff, Withdrawn, Suppressed, Handling
    <2>2. CASE Read(w)
      <3>1. PICK operation \in Operations :
              /\ Accepts(operation, story)
              /\ service' = [service EXCEPT ![w] = operation]
        BY <2>2 DEF Read
      <3>2. story' = story
        BY <2>2 DEF Read
      <3>3. Withdrawn => operation \in {"hide", "unhide"}
        BY <3>1 DEF Accepts, Operations
      <3>4. Suppressed => operation # "publish"
        BY <3>1 DEF Accepts
      <3> QED  BY <3>1, <3>2, <3>3, <3>4 DEF ShelfTypeOK
    <2>3. CASE Dies(w)
      BY <2>3 DEF Dies, ShelfTypeOK
    <2>4. CASE MoveDraft(w) \/ Archive(w)
      BY <2>4 DEF MoveDraft, Archive, ShelfTypeOK, StoryRecord
    <2>5. CASE Save(w)
      <3>1. service[w] \in Operations /\ image[w] \in StoryRecord
            /\ story \in StoryRecord
        BY <2>5 DEF Save, ShelfTypeOK
      <3>2. service' = [service EXCEPT ![w] = "idle"]
        BY <2>5 DEF Save
      <3>3. service'[w] = "idle"
            /\ \A v \in Editors \ {w} : service'[v] = service[v]
        BY <3>2 DEF ShelfTypeOK
      <3>4. \/ story' = story
            \/ story' = Saved(service[w], Changed(service[w], image[w]), story)
        BY <2>5 DEF Save
      <3>5. CASE service[w] \in {"hide", "unhide"}
        BY <3>1, <3>3, <3>4, <3>5, SaveKeeps DEF Unhides
      <3>6. CASE service[w] \in {"publish", "unpublish"}
        BY <3>1, <3>3, <3>4, <3>6, SaveKeeps
      <3> QED  BY <3>1, <3>5, <3>6 DEF Operations
    <2> QED  BY <2>1, <2>2, <2>3, <2>4, <2>5
  <1> QED  BY <1>1, ShelfTypes, PTL DEF ShelfSpec, StaleReadsRunOut
====
