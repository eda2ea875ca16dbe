-------------------------- MODULE SessionKnowledge --------------------------
(***************************************************************************)
(* What the fact stores of a session promise: knowledge only grows while   *)
(* the session is open, a close saves it, and a resume brings back what    *)
(* was saved last.  FactStores implements it with two warm stores, an      *)
(* event log, compaction and a file.                                       *)
(***************************************************************************)

CONSTANTS Subject  \* what facts can be about

VARIABLES known,   \* the subjects the open session knows something about
          saved,   \* the subjects in the file on disk
          running  \* the session is open

vars == <<known, saved, running>>

Init ==
    /\ known = {}
    /\ saved = {}
    /\ running = TRUE

Learn(S) ==
    /\ running
    /\ known' = known \cup S
    /\ UNCHANGED <<saved, running>>

(* A close saves everything, unless the file cannot be written. *)
Close ==
    /\ running
    /\ running' = FALSE
    /\ saved' \in {known, saved}
    /\ UNCHANGED known

(* The process ends, with or without a close before. *)
Crash ==
    /\ running' = FALSE
    /\ known' = {}
    /\ UNCHANGED saved

Resume ==
    /\ ~running
    /\ running' = TRUE
    /\ known' = saved
    /\ UNCHANGED saved

Next ==
    \/ \E S \in SUBSET Subject : Learn(S)
    \/ Close
    \/ Crash
    \/ Resume

Spec == Init /\ [][Next]_vars
=============================================================================
