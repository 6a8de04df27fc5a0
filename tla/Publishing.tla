---- MODULE Publishing ----
(***************************************************************************)
(* The life of one story on the shelf: publish, unpublish, hide, unhide and *)
(* the bulk admin actions (stories/services.py, api/views.py, admin.py).    *)
(*                                                                          *)
(* The views and the admin read the story without a lock; the service tests *)
(* what was read and saves the columns it is about, and no others.  So a    *)
(* handler is a read and a write, and handlers of several editors overlap.  *)
(***************************************************************************)
CONSTANT Editors   \* processes that serve the owner and the staff

VARIABLES story,   \* the committed row
          service, \* [Editors -> Operations \cup {"idle"}]: the one called
          image    \* [Editors -> StoryRecord]: the story as the handler read it

shelfVars == <<story, service, image>>

StoryStatuses == {"DRAFT", "READY", "PUBLISHED", "ARCHIVED"}
Visibilities == {"private", "public"}
Operations == {"publish", "unpublish", "hide", "unhide"}

StoryRecord == [status : StoryStatuses,
                visibility : Visibilities,
                dated : BOOLEAN,      \* published_at is set
                hidden : BOOLEAN,
                reason : BOOLEAN]     \* hidden_reason is set

(* create_story_from_request: ready and private.                            *)
NewStory == [status |-> "READY", visibility |-> "private", dated |-> FALSE,
             hidden |-> FALSE, reason |-> FALSE]

ShelfInit == /\ story = NewStory
             /\ service = [w \in Editors |-> "idle"]
             /\ image = [w \in Editors |-> NewStory]

(* Story.clean, run by every save on the object in memory.                  *)
Clean(s) == s.status = "PUBLISHED" <=> s.visibility = "public"

(* What each service requires of the story it was given.                    *)
Accepts(operation, s) ==
  CASE operation = "publish" -> ~ s.hidden /\ s.status \in {"READY", "PUBLISHED"}
    [] operation = "unpublish" -> s.status = "PUBLISHED"
    [] operation = "hide" -> ~ s.hidden \/ ~ s.reason
    [] operation = "unhide" -> s.hidden

(* get_object, or one element of the admin's queryset.  The owner may       *)
(* publish and unpublish, staff may do all four.  A story the service       *)
(* refuses, or finds hidden or shown already, is left as it is.             *)
Read(w) ==
  /\ service[w] = "idle"
  /\ \E operation \in Operations :
       /\ Accepts(operation, story)
       /\ service' = [service EXCEPT ![w] = operation]
  /\ image' = [image EXCEPT ![w] = story]
  /\ UNCHANGED story

(* The object in memory after the service changed it.                       *)
Changed(operation, s) ==
  CASE operation = "publish" -> [s EXCEPT !.status = "PUBLISHED",
                                          !.visibility = "public",
                                          !.dated = TRUE]
    [] operation = "unpublish" -> [s EXCEPT !.status = "READY",
                                            !.visibility = "private",
                                            !.dated = FALSE]
    [] operation = "hide" -> [s EXCEPT !.hidden = TRUE, !.reason = TRUE]
    [] operation = "unhide" -> [s EXCEPT !.hidden = FALSE, !.reason = FALSE]

(* Mutant: save() without update_fields writes the whole image back.        *)
SavedWhole(operation, saved, s) == saved

(* Mutant: visibility is missing from update_fields.                        *)
SavedWithoutVisibility(operation, saved, s) ==
  IF operation \in {"publish", "unpublish"}
  THEN [s EXCEPT !.status = saved.status, !.dated = saved.dated]
  ELSE [s EXCEPT !.hidden = saved.hidden, !.reason = saved.reason]

(* The row after save(update_fields=...): the named columns of the object,  *)
(* the rest as it is now.                                                   *)
Saved(operation, saved, s) ==
  IF operation \in {"publish", "unpublish"}
  THEN [s EXCEPT !.status = saved.status, !.visibility = saved.visibility,
                 !.dated = saved.dated]
  ELSE [s EXCEPT !.hidden = saved.hidden, !.reason = saved.reason]

Save(w) ==
  /\ service[w] # "idle"
  /\ LET saved == Changed(service[w], image[w]) IN
       story' = IF Clean(saved) THEN Saved(service[w], saved, story) ELSE story
  /\ service' = [service EXCEPT ![w] = "idle"]
  /\ image' = [image EXCEPT ![w] = NewStory]

(* queryset.update(): one statement, nothing read, no clean.                *)
MoveDraft(w) ==
  /\ service[w] = "idle"
  /\ story' = [story EXCEPT !.status = "DRAFT", !.visibility = "private",
                            !.dated = FALSE]
  /\ UNCHANGED <<service, image>>

(* Mutant: the bulk update, which nothing validates, misspells the choice.  *)
ArchiveMisspelt(w) ==
  /\ service[w] = "idle"
  /\ story' = [story EXCEPT !.status = "archived", !.visibility = "private"]
  /\ UNCHANGED <<service, image>>

Archive(w) ==
  /\ service[w] = "idle"
  /\ story' = [story EXCEPT !.status = "ARCHIVED", !.visibility = "private"]
  /\ UNCHANGED <<service, image>>

(* The process dies between the read and the save.                          *)
Dies(w) ==
  /\ service[w] # "idle"
  /\ service' = [service EXCEPT ![w] = "idle"]
  /\ image' = [image EXCEPT ![w] = NewStory]
  /\ UNCHANGED story

ShelfNext == \E w \in Editors : \/ Read(w) \/ Save(w) \/ Dies(w)
                                \/ MoveDraft(w) \/ Archive(w)

ShelfSpec == ShelfInit /\ [][ShelfNext]_shelfVars

----------------------------------------------------------------------------

ShelfTypeOK == /\ story \in StoryRecord
               /\ service \in [Editors -> Operations \cup {"idle"}]
               /\ image \in [Editors -> StoryRecord]

(* What Story.clean asks of one object is true of the row, though each save *)
(* writes some columns of an object read earlier and the bulk updates are   *)
(* not cleaned: published and public are the same, a published story has    *)
(* its date (the feed is ordered by it), a reason belongs to a hidden one.  *)
ShelfIsConsistent ==
  /\ story.status = "PUBLISHED" <=> story.visibility = "public"
  /\ story.status = "PUBLISHED" => story.dated
  /\ story.reason <=> story.hidden

Handling(operations) == {w \in Editors : service[w] \in operations}

(* Staff moved the story to draft or archived it, and every publish and     *)
(* unpublish that had read it before is over.                               *)
Withdrawn == /\ story.status \in {"DRAFT", "ARCHIVED"}
             /\ Handling({"publish", "unpublish"}) = {}

(* The story is hidden and not published, and every publish that had read   *)
(* it before is over.                                                       *)
Suppressed == /\ story.hidden
              /\ story.status # "PUBLISHED"
              /\ Handling({"publish"}) = {}

(* An unhide shows the story.                                               *)
Unhides == /\ ~ story'.hidden
           /\ \E w \in Handling({"unhide"}) : service'[w] = "idle"

StaysOff == /\ Withdrawn => Withdrawn'
            /\ Suppressed => Suppressed' \/ Unhides
            /\ story.hidden => story'.hidden \/ Unhides

(* A publish saves what it decided from an object read earlier, over an     *)
(* archive, a move to draft or a hiding that came in between                *)
(* (services.py:81-89).  That is all a stale object can do: a story in      *)
(* draft or archived stays off the shelf once the publishing and            *)
(* unpublishing handlers that were under way are over, and a hidden one is  *)
(* not published then, nor ever shown, before somebody unhides it, though   *)
(* editors go on to save objects that say it is published or shown.         *)
StaleReadsRunOut == [][StaysOff]_shelfVars
====
