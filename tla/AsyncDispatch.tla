---------------------------- MODULE AsyncDispatch ----------------------------
(***************************************************************************)
(* The asyncio bridge of one orchestrator (crp/core/orchestrator.py):      *)
(* async_dispatch(), async_dispatch_stream(), close() and async_close().   *)
(*                                                                         *)
(* Two thread pools serve it.  The orchestrator's own, of max_threads      *)
(* threads, runs the dispatches.  A stream's dispatch puts its events on a *)
(* bounded queue, waiting when it is full; its consumer, a coroutine,      *)
(* takes them with to_thread(q.get), which waits on a thread of the event  *)
(* loop's default pool, shared by all streams and by async_close().        *)
(*                                                                         *)
(* A task may be cancelled, and a consumer may stop reading.  A request of *)
(* a pool that was cancelled before a thread took it stays in the pool's   *)
(* queue and is skipped; one that runs, runs on.                           *)
(***************************************************************************)
EXTENDS Integers, Sequences, FiniteSets

CONSTANTS
    Stream,         \* calls of async_dispatch_stream()
    Call,           \* calls of async_dispatch() and async_ingest()
    PoolSize,       \* max_threads
    LoopSize,       \* threads of the loop's default pool, at least 5
    QueueBound,     \* maxsize of a stream's queue (1000)
    MaxEvents       \* bound: events of a stream

Closer == "close"
End == 0            \* the sentinel

ASSUME AsyncAssumption ==
    /\ Stream \cap Call = {} /\ Closer \notin Stream \cup Call
    /\ {PoolSize, LoopSize, QueueBound, MaxEvents} \subseteq Nat \ {0}
    /\ LoopSize > 1

VARIABLES
    waiting,    \* queue of the orchestrator's pool
    working,    \* what its threads run
    asked,      \* queue of the loop's pool
    serving,    \* what its threads wait for
    sent,       \* per stream: events put on its queue
    queue,      \* per stream: its queue
    consumer,   \* per stream: where its consumer is
    call,       \* per call: where it is
    closing     \* where close() is

loopVars == <<asked, serving>>
asyncVars == <<waiting, working, loopVars, sent, queue, consumer, call, closing>>

Elements(s) == {s[i] : i \in DOMAIN s}
Pool == Elements(waiting) \cup working

AsyncTypeOK ==
    /\ waiting \in Seq(Stream \cup Call)
    /\ working \subseteq Stream \cup Call
    /\ Cardinality(working) <= PoolSize
    /\ asked \in Seq(Stream \cup {Closer})
    /\ serving \subseteq Stream \cup {Closer}
    /\ Cardinality(serving) <= LoopSize
    /\ sent \in [Stream -> 0 .. MaxEvents]
    /\ queue \in [Stream -> Seq(0 .. MaxEvents)]
    /\ \A s \in Stream : Len(queue[s]) <= QueueBound
    /\ consumer \in [Stream -> {"new", "asking", "holding", "over", "gone",
                                "refused"}]
    /\ call \in [Call -> {"new", "submitted", "over", "cancelled", "refused"}]
    /\ closing \in {"no", "asked", "cancelled", "waiting", "closed"}

AsyncInit ==
    /\ waiting = <<>> /\ working = {}
    /\ asked = <<>> /\ serving = {}
    /\ sent = [s \in Stream |-> 0]
    /\ queue = [s \in Stream |-> <<>>]
    /\ consumer = [s \in Stream |-> "new"]
    /\ call = [c \in Call |-> "new"]
    /\ closing = "no"

-----------------------------------------------------------------------------
(* The orchestrator's pool.  After shutdown() it takes no more work.       *)

ShutDown == closing \in {"waiting", "closed"}

Turn(s, l) == consumer' = [consumer EXCEPT ![s] = l]

Submit(c) ==
    /\ call[c] = "new"
    /\ IF ShutDown
       THEN call' = [call EXCEPT ![c] = "refused"] /\ UNCHANGED waiting
       ELSE /\ call' = [call EXCEPT ![c] = "submitted"]
            /\ waiting' = Append(waiting, c)
    /\ UNCHANGED <<working, loopVars, sent, queue, consumer, closing>>

Cancelled(j) == j \in Call /\ call[j] = "cancelled"

(* A thread takes the next request, if nobody cancelled it. *)
Start ==
    /\ waiting # <<>>
    /\ Cardinality(working) < PoolSize
    /\ waiting' = Tail(waiting)
    /\ working' = IF Cancelled(Head(waiting)) THEN working
                                              ELSE working \cup {Head(waiting)}
    /\ UNCHANGED <<loopVars, sent, queue, consumer, call, closing>>

CallEnds(c) ==
    /\ c \in working
    /\ working' = working \ {c}
    /\ call' = [call EXCEPT ![c] = IF @ = "submitted" THEN "over" ELSE @]
    /\ UNCHANGED <<waiting, loopVars, sent, queue, consumer, closing>>

CancelCall(c) ==
    /\ call[c] = "submitted"
    /\ call' = [call EXCEPT ![c] = "cancelled"]
    /\ UNCHANGED <<waiting, working, loopVars, sent, queue, consumer, closing>>

(* _produce(): put() waits for room. *)
Room(s) == Len(queue[s]) < QueueBound

Put(s) ==
    /\ s \in working /\ Room(s)
    /\ sent[s] < MaxEvents
    /\ sent' = [sent EXCEPT ![s] = @ + 1]
    /\ queue' = [queue EXCEPT ![s] = Append(@, sent'[s])]
    /\ UNCHANGED <<waiting, working, loopVars, consumer, call, closing>>

(* dispatch_stream() returned or raised; the sentinel goes out either way. *)
Mut_Finish(s) ==
    /\ s \in working /\ Room(s)
    /\ working' = working \ {s}
    /\ UNCHANGED <<waiting, loopVars, sent, queue, consumer, call, closing>>

Finish(s) ==
    /\ s \in working /\ Room(s)
    /\ queue' = [queue EXCEPT ![s] = Append(@, End)]
    /\ working' = working \ {s}
    /\ UNCHANGED <<waiting, loopVars, sent, consumer, call, closing>>

-----------------------------------------------------------------------------
(* The consumers, and the loop's pool. *)

Open(s) ==
    /\ consumer[s] = "new"
    /\ IF ShutDown
       THEN Turn(s, "refused") /\ UNCHANGED <<waiting, asked>>
       ELSE /\ Turn(s, "asking")
            /\ waiting' = Append(waiting, s)
            /\ asked' = Append(asked, s)
    /\ UNCHANGED <<working, serving, sent, queue, call, closing>>

(* A thread takes the next request, if nobody cancelled it: to wait for an *)
(* event, or to run close().                                               *)
Skipped(x) == IF x = Closer THEN closing = "cancelled" ELSE consumer[x] = "gone"

Serve ==
    /\ asked # <<>>
    /\ Cardinality(serving) < LoopSize
    /\ asked' = Tail(asked)
    /\ serving' = IF Skipped(Head(asked)) THEN serving
                                          ELSE serving \cup {Head(asked)}
    /\ closing' = IF Head(asked) = Closer /\ closing = "asked" THEN "waiting"
                                                             ELSE closing
    /\ UNCHANGED <<waiting, working, sent, queue, consumer, call>>

(* get() returns.  Nobody wants the event of a consumer that has gone. *)
Mut_Take(s) ==
    /\ s \in serving
    /\ queue[s] # <<>>
    /\ queue' = [queue EXCEPT ![s] = Tail(@)]
    /\ IF consumer[s] = "asking"
       THEN /\ Turn(s, IF Head(queue[s]) = End THEN "over" ELSE "holding")
            /\ serving' = serving \ {s}
       ELSE UNCHANGED <<consumer, serving>>
    /\ UNCHANGED <<waiting, working, asked, sent, call, closing>>

Take(s) ==
    /\ s \in serving
    /\ queue[s] # <<>>
    /\ queue' = [queue EXCEPT ![s] = Tail(@)]
    /\ serving' = serving \ {s}
    /\ IF consumer[s] = "asking"
       THEN Turn(s, IF Head(queue[s]) = End THEN "over" ELSE "holding")
       ELSE UNCHANGED consumer
    /\ UNCHANGED <<waiting, working, asked, sent, call, closing>>

Resume(s) ==
    /\ consumer[s] = "holding"
    /\ Turn(s, "asking")
    /\ asked' = Append(asked, s)
    /\ UNCHANGED <<waiting, working, serving, sent, queue, call, closing>>

(* The consumer breaks off, or its task is cancelled.  Nothing tells the   *)
(* producer.                                                               *)
Leave(s) ==
    /\ consumer[s] \in {"asking", "holding"}
    /\ Turn(s, "gone")
    /\ UNCHANGED <<waiting, working, loopVars, sent, queue, call, closing>>

-----------------------------------------------------------------------------
(* close(), on a thread of its own or, for async_close(), of the loop's    *)
(* pool.  It shuts the orchestrator's pool down and waits for all its work.*)
(* One close is followed: a second would wait for the same.                *)

SyncClose ==
    /\ closing = "no"
    /\ closing' = "waiting"
    /\ UNCHANGED <<waiting, working, loopVars, sent, queue, consumer, call>>

(* As it was once: async_close() on the pool that it waits for. *)
Mut_AsyncClose ==
    /\ closing = "no"
    /\ Cardinality(working) < PoolSize
    /\ closing' = "waiting"
    /\ working' = working \cup {Closer}
    /\ UNCHANGED <<waiting, loopVars, sent, queue, consumer, call>>

AsyncClose ==
    /\ closing = "no"
    /\ closing' = "asked"
    /\ asked' = Append(asked, Closer)
    /\ UNCHANGED <<waiting, working, serving, sent, queue, consumer, call>>

CancelClose ==
    /\ closing = "asked"
    /\ closing' = "cancelled"
    /\ UNCHANGED <<waiting, working, loopVars, sent, queue, consumer, call>>

Closed ==
    /\ closing = "waiting"
    /\ waiting = <<>> /\ working = {}
    /\ closing' = "closed"
    /\ serving' = serving \ {Closer}
    /\ UNCHANGED <<waiting, working, asked, sent, queue, consumer, call>>

-----------------------------------------------------------------------------
Produce(s) == Put(s) \/ Finish(s)

AsyncNext ==
    \/ \E c \in Call : Submit(c) \/ CallEnds(c) \/ CancelCall(c)
    \/ \E s \in Stream : \/ Produce(s) \/ Open(s) \/ Take(s) \/ Resume(s)
                         \/ Leave(s)
    \/ Start \/ Serve
    \/ SyncClose \/ AsyncClose \/ CancelClose \/ Closed

AsyncSpec == AsyncInit /\ [][AsyncNext]_asyncVars

(* The threads run; a call of dispatch() and a stream of events come to an *)
(* end; a consumer that stays comes back for more.                         *)
FairAsyncSpec ==
    /\ AsyncSpec
    /\ WF_asyncVars(Start) /\ WF_asyncVars(Serve) /\ WF_asyncVars(Closed)
    /\ \A c \in Call : WF_asyncVars(CallEnds(c))
    /\ \A s \in Stream : /\ WF_asyncVars(Produce(s)) /\ WF_asyncVars(Take(s))
                         /\ WF_asyncVars(Resume(s))

-----------------------------------------------------------------------------
(* Properties. *)

(* A producer that waits for room while no thread is there to make some.   *)
Stalled(s) == s \in working /\ ~Room(s) /\ s \notin serving

(* Its consumer has gone: it waits for ever, and a thread with it. *)
Abandoned(s) == Stalled(s) /\ consumer[s] = "gone"

(* Every thread of the loop's pool waits for close(), or for a stream that *)
(* the orchestrator's pool has not begun.                                  *)
LoopFull ==
    /\ Cardinality(serving) = LoopSize
    /\ \A x \in serving \ {Closer} : x \notin working /\ queue[x] = <<>>

(* Every thread of the orchestrator's pool waits for a consumer that has   *)
(* gone or finds no thread to ask on.                                      *)
Jammed ==
    /\ Cardinality(working) = PoolSize
    /\ \A w \in working : /\ w \in Stream /\ Stalled(w)
                          /\ Abandoned(w) \/ LoopFull

(* Nothing happens any more unless somebody new calls or goes. *)
Still ==
    /\ waiting = <<>> \/ Cardinality(working) = PoolSize
    /\ \A w \in working : w \in Stream /\ ~Room(w)
    /\ asked = <<>> \/ Cardinality(serving) = LoopSize
    /\ \A s \in serving \ {Closer} : queue[s] = <<>>
    /\ \A s \in Stream : consumer[s] # "holding"
    /\ ~(closing = "waiting" /\ waiting = <<>> /\ working = {})

(* The bridge stands still in two cases only, however many streams, calls  *)
(* and threads there are: both pools are jammed, or close() waits for the  *)
(* producer of a consumer that has gone.  Otherwise nobody is kept waiting.*)
OnlyJamsBlock ==
    /\ Still /\ (\/ \E s \in Stream : consumer[s] = "asking"
                 \/ \E c \in Call : call[c] = "submitted")
          => Jammed
    /\ Still /\ closing \in {"asked", "waiting"}
          => Jammed \/ \E s \in Stream : Abandoned(s)

(* Every stream comes to its end and every call returns, unless the caller *)
(* goes first or both pools jam: no request is passed over or forgotten.   *)
CallersServed ==
    /\ \A s \in Stream : consumer[s] = "asking" ~> consumer[s] \in {"over", "gone"} \/ Jammed
    /\ \A c \in Call : call[c] = "submitted" ~> call[c] # "submitted" \/ Jammed

(* "the old path ... deadlocks (cannot-join-current-thread)"               *)
(* (orchestrator.py:1741): now close() and async_close() return, unless a  *)
(* stream with more events than its queue holds was abandoned, both pools  *)
(* jam or async_close() is cancelled before a thread takes it.             *)
CloseReturns ==
    closing \in {"asked", "waiting"}
        ~> closing \in {"cancelled", "closed"} \/ Jammed \/ \E s \in Stream : Abandoned(s)
=============================================================================
