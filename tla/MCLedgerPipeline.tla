---- MODULE MCLedgerPipeline ----
(* Instances of LedgerPipeline for TLC. *)
EXTENDS LedgerPipeline
====
