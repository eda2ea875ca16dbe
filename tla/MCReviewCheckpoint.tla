---- MODULE MCReviewCheckpoint ----
(* Instances of ReviewCheckpoint for TLC. *)
EXTENDS ReviewCheckpoint
====
