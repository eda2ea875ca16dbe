--------------------------- MODULE MCAsyncDispatch ---------------------------
(* Instances of AsyncDispatch for TLC. *)
EXTENDS AsyncDispatch
=============================================================================
