---- MODULE MCRequestQueue ----
(* Instances of RequestQueue for TLC.                                       *)
EXTENDS RequestQueue, TLC

(* Nothing tells one worker from another.                                   *)
WorkerSymmetry == Permutations(Workers)
====
