-------------------------- MODULE MCDispatchWindows --------------------------
(* TLC instances of DispatchWindows. *)
EXTENDS DispatchWindows
=============================================================================
