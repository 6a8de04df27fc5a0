---- MODULE MCStories ----
(* Instances for TLC of the two models of one story: its life on the shelf  *)
(* and its pages.  They write different columns of different rows, and no   *)
(* handler of one reads what the other writes (a save of a story that is    *)
(* deleted fails and writes nothing), so what holds in each alone holds in  *)
(* both together; a behaviour here is one of either.                        *)
EXTENDS StoryPages, Publishing, TLC

VARIABLE part       \* which of the two runs

StoriesInit == part \in {"shelf", "book"} /\ ShelfInit /\ Init

StoriesNext ==
  \/ part = "shelf" /\ ShelfNext /\ UNCHANGED <<part, vars>>
  \/ part = "book" /\ Next /\ UNCHANGED <<part, shelfVars>>

StoriesSpec == StoriesInit /\ [][StoriesNext]_<<part, vars, shelfVars>>

(* Nothing tells one author from another.                                   *)
StoriesSymmetry == Permutations(Workers)
====
