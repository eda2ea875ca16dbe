---- MODULE MCSessionBus ----
(* Instances of SessionBus for TLC. *)
EXTENDS SessionBus
====
