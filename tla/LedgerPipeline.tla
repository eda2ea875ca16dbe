--------------------------- MODULE LedgerPipeline ---------------------------
(***************************************************************************)
(* The manifest ledger with forward_to = [AsyncBufferedSink(target)]: what *)
(* one process, Home, records goes through its sink to a target outside,   *)
(* a SIEM for instance.  The other processes record without forwarding.    *)
(* When Home dies, what was on its way is gone; it starts again with a new *)
(* sink.                                                                   *)
(***************************************************************************)
EXTENDS ManifestLedger, LedgerSink

CONSTANT Home

ASSUME PipelineAssumption == Home \in Process /\ Record = Number

VARIABLE
    perished    \* entries that were on their way when a process died (history)

pipelineVars == <<ledgerVars, sinkVars, perished>>

TypeOK ==
    /\ LedgerTypeOK
    /\ SinkTypeOK
    /\ perished \subseteq Number

Init ==
    /\ LedgerInit
    /\ SinkInit
    /\ perished = {}

(* record() hands its entry to the sink, outside the ledger's lock. *)
HandOver(n) ==
    /\ Forward(Home, n)
    /\ EmitTest(n)
    /\ UNCHANGED perished

OnItsWay == emitting \cup Queued \cup ({hand, closerHand} \ {Stop})

HomeDies ==
    /\ Crash(Home)
    /\ perished' = perished \cup toForward[Home] \cup OnItsWay
    /\ sink' = <<>> /\ emitting' = {} /\ racing' = {}
    /\ worker' = "waiting" /\ hand' = Stop
    /\ closer' = "no" /\ closerHand' = Stop
    /\ stopped' = FALSE
    /\ UNCHANGED <<delivered, dropped, refused, late>>

OtherDies(p) ==
    /\ p # Home
    /\ Crash(p)
    /\ perished' = perished \cup toForward[p]
    /\ UNCHANGED sinkVars

Next ==
    \/ \E p \in Process : LedgerStep(p) /\ UNCHANGED <<sinkVars, perished>>
    \/ \E n \in toForward[Home] : HandOver(n)
    \/ SinkStep /\ UNCHANGED <<ledgerVars, perished>>
    \/ HomeDies
    \/ \E p \in Process : OtherDies(p)

Spec == Init /\ [][Next]_pipelineVars

(* The sink's threads keep running; a target that hangs is a step of its   *)
(* own, after which the thread has no other.                               *)
FairSpec ==
    /\ Spec
    /\ WF_pipelineVars(WorkerStep /\ UNCHANGED <<ledgerVars, perished>>)
    /\ WF_pipelineVars(CloseStep /\ UNCHANGED <<ledgerVars, perished>>)

-----------------------------------------------------------------------------
Times(n, s) == Cardinality({i \in DOMAIN s : s[i] = n})

In(n, S) == IF n \in S THEN 1 ELSE 0

Places(n) ==
    Times(n, sink) + Times(n, delivered)
    + Cardinality({p \in Process : n \in toForward[p]})
    + In(n, emitting) + In(n, {hand}) + In(n, {closerHand})
    + In(n, dropped) + In(n, refused) + In(n, late) + In(n, perished)

(* What record() returned is at one place on its way to the target, or is  *)
(* there, or is gone for one reason; what it did not return is never       *)
(* forwarded.  Nothing is delivered twice, even when close() empties the   *)
(* queue beside a worker that is still running.                            *)
EveryRecordAccounted ==
    \A n \in Number : Places(n) = In(n, returned)
=============================================================================
