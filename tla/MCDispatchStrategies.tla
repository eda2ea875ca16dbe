------------------------ MODULE MCDispatchStrategies ------------------------
(* TLC instances of DispatchStrategies. *)
EXTENDS DispatchStrategies
=============================================================================
