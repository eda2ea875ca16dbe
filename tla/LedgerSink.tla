----------------------------- MODULE LedgerSink -----------------------------
(***************************************************************************)
(* AsyncBufferedSink of crp/core/ledger_backends.py: a bounded queue and a *)
(* worker thread in front of a downstream sink.                            *)
(*                                                                         *)
(* emit() tests the stop flag and then enqueues without waiting; the       *)
(* worker hands one event at a time to the target; close() sets the flag,  *)
(* lets the queue drain for a while, enqueues a sentinel, joins the worker *)
(* and, when that takes too long, delivers what is left itself.            *)
(*                                                                         *)
(* The target may refuse an event, and may never return.  A thread that    *)
(* waits for the target's own lock (JSONLinesFileSink) hangs with it.      *)
(***************************************************************************)
EXTENDS Integers, Sequences, FiniteSets

CONSTANTS
    Record,         \* what can be emitted
    SinkBound,      \* max_queue
    SinkFaults      \* "refuse", "hang"

ASSUME SinkAssumption ==
    /\ Record \subseteq Nat \ {0}
    /\ SinkBound \in Nat \ {0}
    /\ SinkFaults \subseteq {"refuse", "hang"}

Stop == 0           \* the sentinel

VARIABLES
    sink,       \* the queue
    worker,     \* the worker thread: "waiting", "busy", "hung", "gone"
    hand,       \* what the worker has taken
    stopped,    \* the stop flag
    emitting,   \* events whose emit() has found the flag clear
    closer,     \* the thread in close()
    closerHand, \* what close() is delivering
    delivered,  \* what the target accepted, in order
    dropped,    \* events a full queue had no room for (history)
    refused,    \* events the target raised on (history)
    late,       \* events emitted after the flag was set (history)
    racing      \* events in emit() when the flag was set (history)

sinkVars == <<sink, worker, hand, stopped, emitting, closer, closerHand,
              delivered, dropped, refused, late, racing>>

SinkTypeOK ==
    /\ sink \in Seq(Record \cup {Stop})
    /\ Len(sink) <= SinkBound
    /\ worker \in {"waiting", "busy", "hung", "gone"}
    /\ hand \in Record \cup {Stop}
    /\ stopped \in BOOLEAN
    /\ emitting \subseteq Record
    /\ closer \in {"no", "draining", "putting", "joining", "flushing",
                   "delivering", "hung", "done"}
    /\ closerHand \in Record \cup {Stop}
    /\ delivered \in Seq(Record)
    /\ {dropped, refused, late, racing} \subseteq SUBSET Record

SinkInit ==
    /\ sink = <<>>
    /\ worker = "waiting"
    /\ hand = Stop
    /\ stopped = FALSE
    /\ emitting = {}
    /\ closer = "no"
    /\ closerHand = Stop
    /\ delivered = <<>>
    /\ dropped = {}
    /\ refused = {}
    /\ late = {}
    /\ racing = {}

-----------------------------------------------------------------------------
(* emit(): the flag first, the queue afterwards. *)
EmitTest(n) ==
    /\ IF stopped THEN late' = late \cup {n} /\ UNCHANGED emitting
                  ELSE emitting' = emitting \cup {n} /\ UNCHANGED late
    /\ UNCHANGED <<sink, worker, hand, stopped, closer, closerHand, delivered,
                   dropped, refused, racing>>

EmitPut(n) ==
    /\ n \in emitting
    /\ emitting' = emitting \ {n}
    /\ IF Len(sink) < SinkBound
       THEN sink' = Append(sink, n) /\ UNCHANGED dropped
       ELSE dropped' = dropped \cup {n} /\ UNCHANGED sink
    /\ UNCHANGED <<worker, hand, stopped, closer, closerHand, delivered,
                   refused, late, racing>>

(* The target takes an event, or raises, which is logged. *)
Offer(n) ==
    \/ delivered' = Append(delivered, n) /\ UNCHANGED refused
    \/ /\ "refuse" \in SinkFaults
       /\ refused' = refused \cup {n} /\ UNCHANGED delivered

-----------------------------------------------------------------------------
(* _run() *)
Mut_WorkerGets ==
    /\ worker = "waiting"
    /\ sink # <<>>
    /\ hand' = Head(sink)
    /\ worker' = IF Head(sink) = Stop THEN "gone" ELSE "busy"
    /\ UNCHANGED <<sink, stopped, emitting, closer, closerHand, delivered,
                   dropped, refused, late, racing>>

WorkerGets ==
    /\ worker = "waiting"
    /\ sink # <<>>
    /\ sink' = Tail(sink)
    /\ hand' = Head(sink)
    /\ worker' = IF Head(sink) = Stop THEN "gone" ELSE "busy"
    /\ UNCHANGED <<stopped, emitting, closer, closerHand, delivered, dropped,
                   refused, late, racing>>

WorkerDelivers ==
    /\ worker = "busy"
    /\ Offer(hand)
    /\ hand' = Stop
    /\ worker' = "waiting"
    /\ UNCHANGED <<sink, stopped, emitting, closer, closerHand, dropped, late,
                   racing>>

WorkerHangs ==
    /\ "hang" \in SinkFaults
    /\ worker = "busy"
    /\ worker' = "hung"
    /\ UNCHANGED <<sink, hand, stopped, emitting, closer, closerHand,
                   delivered, dropped, refused, late, racing>>

-----------------------------------------------------------------------------
(* close(): whoever comes later finds the flag set.  Two that test it at   *)
(* once, before either sets it, both go on; that is not modelled.          *)
CloserGoes(l) ==
    /\ closer' = l
    /\ UNCHANGED <<worker, hand, emitting, dropped, late>>

CloseBegins ==
    /\ closer = "no"
    /\ CloserGoes("draining")
    /\ stopped' = TRUE
    /\ racing' = emitting
    /\ UNCHANGED <<sink, closerHand, delivered, refused>>

(* The queue is empty, or the deadline has come. *)
DrainEnds ==
    /\ closer = "draining"
    /\ CloserGoes("putting")
    /\ UNCHANGED <<sink, stopped, closerHand, delivered, refused, racing>>

(* put() without a timeout: waits for room. *)
PutStop ==
    /\ closer = "putting"
    /\ Len(sink) < SinkBound
    /\ sink' = Append(sink, Stop)
    /\ CloserGoes("joining")
    /\ UNCHANGED <<stopped, closerHand, delivered, refused, racing>>

(* join(timeout): the worker is gone, or is_alive() after the deadline. *)
Mut_Joined ==
    /\ closer = "joining"
    /\ CloserGoes("done")
    /\ UNCHANGED <<sink, stopped, closerHand, delivered, refused, racing>>

Joined ==
    /\ closer = "joining"
    /\ worker = "gone"
    /\ CloserGoes("done")
    /\ UNCHANGED <<sink, stopped, closerHand, delivered, refused, racing>>

JoinTimesOut ==
    /\ closer = "joining"
    /\ worker # "gone"
    /\ CloserGoes("flushing")
    /\ UNCHANGED <<sink, stopped, closerHand, delivered, refused, racing>>

(* The sentinel may be taken here, away from the worker. *)
FlushTakes ==
    /\ closer = "flushing"
    /\ sink # <<>>
    /\ sink' = Tail(sink)
    /\ closerHand' = Head(sink)
    /\ CloserGoes(IF Head(sink) = Stop THEN "flushing" ELSE "delivering")
    /\ UNCHANGED <<stopped, delivered, refused, racing>>

FlushDelivers ==
    /\ closer = "delivering"
    /\ Offer(closerHand)
    /\ closerHand' = Stop
    /\ CloserGoes("flushing")
    /\ UNCHANGED <<sink, stopped, racing>>

FlushHangs ==
    /\ "hang" \in SinkFaults
    /\ closer = "delivering"
    /\ CloserGoes("hung")
    /\ UNCHANGED <<sink, stopped, closerHand, delivered, refused, racing>>

Mut_FlushEnds ==
    /\ closer = "flushing"
    /\ sink = <<>>
    /\ worker = "gone"
    /\ CloserGoes("done")
    /\ UNCHANGED <<sink, stopped, closerHand, delivered, refused, racing>>

FlushEnds ==
    /\ closer = "flushing"
    /\ sink = <<>>
    /\ CloserGoes("done")
    /\ UNCHANGED <<sink, stopped, closerHand, delivered, refused, racing>>

-----------------------------------------------------------------------------
CloseStep == \/ DrainEnds \/ PutStop \/ Joined \/ JoinTimesOut \/ FlushTakes
             \/ FlushDelivers \/ FlushEnds
WorkerStep == WorkerGets \/ WorkerDelivers

SinkStep ==
    \/ \E n \in emitting : EmitPut(n)
    \/ WorkerStep \/ WorkerHangs
    \/ CloseBegins \/ CloseStep \/ FlushHangs

(* Every event is emitted once, by some thread. *)
Fresh(n) == n \notin emitting \cup dropped \cup refused \cup late \cup {hand, closerHand}
                       \cup {sink[i] : i \in DOMAIN sink}
                       \cup {delivered[i] : i \in DOMAIN delivered}

SinkNext == SinkStep \/ \E n \in Record : Fresh(n) /\ EmitTest(n)

SinkSpec == SinkInit /\ [][SinkNext]_sinkVars

-----------------------------------------------------------------------------
(* Properties. *)

Queued == {sink[i] : i \in DOMAIN sink} \ {Stop}

(* "Call close() on shutdown to flush": when it has returned, an event is  *)
(* left in the queue only if its emit() was between its two steps when the *)
(* flag was set.  Whatever else was emitted before is with the target, or  *)
(* in the hands of the worker, or was dropped with a warning.              *)
OnlyRacersAreLeft == closer = "done" => Queued \subseteq racing

(* close() returns, unless the target never does (or the process dies). *)
CloseReturns ==
    closer = "draining" ~> closer \in {"done", "no"} \/ "hung" \in {worker, closer}
=============================================================================
