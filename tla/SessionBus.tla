----------------------------- MODULE SessionBus -----------------------------
(***************************************************************************)
(* The event bus of one session (crp/tel/emitter.py) and the transparency  *)
(* streams that read it (crp/tel/sse.py, crp/gateway/tel_stream.py).       *)
(*                                                                         *)
(* emit() numbers and buffers an event under the bus's lock and fills the  *)
(* bounded queues of the subscribers after it; close() does the same with  *)
(* a sentinel.  A stream first replays what the buffer holds beyond the    *)
(* client's Last-Event-ID, then subscribes, then yields what its queue     *)
(* brings.  A client may go at any time and come back.                     *)
(*                                                                         *)
(* An event is its number, the sentinel is End.  A queue that a client has *)
(* left stays in the bus's list, where nobody reads it: it is dropped from *)
(* the model.  Heartbeats (poll() timing out) change nothing.              *)
(***************************************************************************)
EXTENDS Integers, Sequences, FiniteSets

CONSTANTS
    ThreadEmitter,  \* emitters on threads without an event loop
    LoopEmitter,    \* emitters that are coroutines of the event loop
    SyncStream,     \* streams over stream_frames_sync()
    AsyncStream,    \* streams over stream_frames()
    QueueBound,     \* maxsize of a subscriber's queue (256)
    BufferBound,    \* buffer_size (2000)
    MaxEvents,      \* bound: events emitted
    MaxConnects     \* bound: connections of all clients

ASSUME BusAssumption ==
    /\ ThreadEmitter \cap LoopEmitter = {}
    /\ SyncStream \cap AsyncStream = {}
    /\ {QueueBound, BufferBound, MaxEvents, MaxConnects} \subseteq Nat \ {0}

Emitter == ThreadEmitter \cup LoopEmitter
Stream == SyncStream \cup AsyncStream
Event == 1 .. MaxEvents
End == 0
Item == Event \cup {End}

VARIABLES
    emitted,    \* the bus's sequence number
    author,     \* who emitted each event (history)
    closed,     \* the bus was closed
    subs,       \* the streams whose queue is registered
    carrying,   \* per emitter: the item it is delivering, or delivered last
    todo,       \* per emitter: the queues it still has to fill
    callbacks,  \* per asynchronous stream: puts scheduled on the event loop
    queue,      \* per stream: its queue
    stage,      \* per stream: where its generator is
    at,         \* per stream: the next event to replay
    upto,       \* per stream: the last event to replay
    joined,     \* per stream: the last event before it subscribed (history)
    heard,      \* per stream: what this connection has yielded
    earlier,    \* per stream: what former connections have yielded (history)
    lastId,     \* per client: its Last-Event-ID
    lost,       \* per stream: what its queue did not get (history)
    mishaps,    \* per client: what has ever gone wrong for it (history)
    connects    \* connections made

busVars == <<emitted, author, closed>>
deliveryVars == <<carrying, todo>>
streamVars == <<stage, at, upto, joined, earlier, connects>>
vars == <<busVars, subs, deliveryVars, callbacks, queue, streamVars, heard,
          lastId, lost, mishaps>>

Mishap == {"evicted", "gap", "dropped", "overtaken"}

Elements(s) == {s[i] : i \in DOMAIN s}
Bigger(a, b) == IF a > b THEN a ELSE b

(* deque(maxlen=buffer_size): the oldest event that can be replayed. *)
OldestBuffered == Bigger(1, emitted - BufferBound + 1)

TypeOK ==
    /\ emitted \in 0 .. MaxEvents
    /\ author \in [1 .. emitted -> Emitter]
    /\ closed \in BOOLEAN
    /\ subs \subseteq Stream
    /\ carrying \in [Emitter -> Item]
    /\ todo \in [Emitter -> SUBSET Stream]
    /\ callbacks \in [AsyncStream -> Seq(Item)]
    /\ queue \in [Stream -> Seq(Item)]
    /\ \A s \in Stream : Len(queue[s]) <= QueueBound
    /\ stage \in [Stream -> {"away", "replaying", "live", "over"}]
    /\ at \in [Stream -> Nat]
    /\ upto \in [Stream -> 0 .. MaxEvents]
    /\ joined \in [Stream -> 0 .. MaxEvents]
    /\ heard \in [Stream -> Seq(Event)]
    /\ earlier \in [Stream -> SUBSET Event]
    /\ lastId \in [Stream -> 0 .. MaxEvents]
    /\ lost \in [Stream -> SUBSET Item]
    /\ mishaps \in [Stream -> SUBSET Mishap]
    /\ connects \in 0 .. MaxConnects

Init ==
    /\ emitted = 0
    /\ author = <<>>
    /\ closed = FALSE
    /\ subs = {}
    /\ carrying = [e \in Emitter |-> End]
    /\ todo = [e \in Emitter |-> {}]
    /\ callbacks = [s \in AsyncStream |-> <<>>]
    /\ queue = [s \in Stream |-> <<>>]
    /\ stage = [s \in Stream |-> "away"]
    /\ at = [s \in Stream |-> 1]
    /\ upto = [s \in Stream |-> 0]
    /\ joined = [s \in Stream |-> 0]
    /\ heard = [s \in Stream |-> <<>>]
    /\ earlier = [s \in Stream |-> {}]
    /\ lastId = [s \in Stream |-> 0]
    /\ lost = [s \in Stream |-> {}]
    /\ mishaps = [s \in Stream |-> {}]
    /\ connects = 0

-----------------------------------------------------------------------------
(* The bus. *)

Idle(e) == todo[e] = {}

(* The event loop runs one thing at a time: nothing else of it runs while  *)
(* a coroutine is inside emit() or close().                                *)
LoopFree == \A e \in LoopEmitter : Idle(e)
MayRun(e) == e \in LoopEmitter => LoopFree

(* emit() and close() under the lock.  On a closed bus both do nothing. *)
Emit(e) ==
    /\ Idle(e) /\ MayRun(e)
    /\ ~closed
    /\ emitted < MaxEvents
    /\ emitted' = emitted + 1
    /\ author' = Append(author, e)
    /\ carrying' = [carrying EXCEPT ![e] = emitted']
    /\ todo' = [todo EXCEPT ![e] = subs]
    /\ UNCHANGED <<closed, subs, callbacks, queue, streamVars, heard, lastId,
                   lost, mishaps>>

Close(e) ==
    /\ Idle(e) /\ MayRun(e)
    /\ ~closed
    /\ closed' = TRUE
    /\ carrying' = [carrying EXCEPT ![e] = End]
    /\ todo' = [todo EXCEPT ![e] = subs]
    /\ UNCHANGED <<emitted, author, subs, callbacks, queue, streamVars, heard,
                   lastId, lost, mishaps>>

Befalls(S, m) == mishaps' = [s \in Stream |-> IF s \in S
                                              THEN mishaps[s] \cup {m}
                                              ELSE mishaps[s]]

Drop(S, item) ==
    /\ lost' = [s \in Stream |-> IF s \in S THEN lost[s] \cup {item}
                                             ELSE lost[s]]
    /\ Befalls(S, "dropped")

(* put_nowait(): a full queue drops the item. *)
Mut_Enqueue(s, item) ==
    IF Len(queue[s]) < QueueBound
    THEN /\ queue' = [queue EXCEPT ![s] = Append(@, item)]
         /\ UNCHANGED <<lost, mishaps>>
    ELSE /\ queue' = [queue EXCEPT ![s] = Append(Tail(@), item)]
         /\ UNCHANGED <<lost, mishaps>>

Mut_Lifo(s, item) ==
    IF Len(queue[s]) < QueueBound
    THEN /\ queue' = [queue EXCEPT ![s] = <<item>> \o @]
         /\ UNCHANGED <<lost, mishaps>>
    ELSE /\ Drop({s}, item)
         /\ UNCHANGED queue

Enqueue(s, item) ==
    IF Len(queue[s]) < QueueBound
    THEN /\ queue' = [queue EXCEPT ![s] = Append(@, item)]
         /\ UNCHANGED <<lost, mishaps>>
    ELSE /\ Drop({s}, item)
         /\ UNCHANGED queue

(* The queues of synchronous subscribers, one at a time.  They are filled  *)
(* in the order they subscribed in; no queue sees the order among others.  *)
Put(e, s) ==
    /\ s \in todo[e] \cap SyncStream
    /\ todo' = [todo EXCEPT ![e] = @ \ {s}]
    /\ Enqueue(s, carrying[e])
    /\ UNCHANGED <<busVars, subs, carrying, callbacks, streamVars, heard,
                   lastId>>

(* Then those of asynchronous ones, by way of the emitter's own event      *)
(* loop: an emitter that has none skips them.  Only the loop's thread      *)
(* schedules, so that it does so in one step.                              *)
Schedule(e) ==
    /\ ~Idle(e)
    /\ todo[e] \subseteq AsyncStream
    /\ todo' = [todo EXCEPT ![e] = {}]
    /\ IF e \in LoopEmitter
       THEN /\ callbacks' = [s \in AsyncStream |->
                                IF s \in todo[e]
                                THEN Append(callbacks[s], carrying[e])
                                ELSE callbacks[s]]
            /\ UNCHANGED <<lost, mishaps>>
       ELSE /\ Drop(todo[e], carrying[e])
            /\ UNCHANGED callbacks
    /\ UNCHANGED <<busVars, subs, carrying, queue, streamVars, heard, lastId>>

(* The loop comes to a scheduled put. *)
RunCallback(s) ==
    /\ LoopFree
    /\ callbacks[s] # <<>>
    /\ callbacks' = [callbacks EXCEPT ![s] = Tail(@)]
    /\ Enqueue(s, Head(callbacks[s]))
    /\ UNCHANGED <<busVars, subs, deliveryVars, streamVars, heard, lastId>>

-----------------------------------------------------------------------------
(* A stream. *)

Awake(s) == s \in AsyncStream => LoopFree

Goto(s, l) == stage' = [stage EXCEPT ![s] = l]

Yield(s, n) ==
    /\ heard' = [heard EXCEPT ![s] = Append(@, n)]
    /\ lastId' = [lastId EXCEPT ![s] = n]

(* The client connects, and sends the number of the last event it had: the *)
(* generator takes the buffered events beyond it.                          *)
Mut_ReplayLess(s) == Bigger(lastId[s] + 2, OldestBuffered)

FirstToReplay(s) == Bigger(lastId[s] + 1, OldestBuffered)

Connect(s) ==
    /\ stage[s] = "away" /\ Awake(s)
    /\ connects < MaxConnects
    /\ connects' = connects + 1
    /\ Goto(s, "replaying")
    /\ at' = [at EXCEPT ![s] = FirstToReplay(s)]
    /\ upto' = [upto EXCEPT ![s] = emitted]
    /\ IF OldestBuffered > lastId[s] + 1 THEN Befalls({s}, "evicted")
                                         ELSE UNCHANGED mishaps
    /\ UNCHANGED <<busVars, subs, deliveryVars, callbacks, queue, joined,
                   heard, earlier, lastId, lost>>

Replay(s) ==
    /\ stage[s] = "replaying" /\ Awake(s)
    /\ at[s] <= upto[s]
    /\ Yield(s, at[s])
    /\ UNCHANGED mishaps
    /\ at' = [at EXCEPT ![s] = @ + 1]
    /\ UNCHANGED <<busVars, subs, deliveryVars, callbacks, queue, stage, upto,
                   joined, earlier, connects, lost>>

(* The replay is done: the queue is registered, unless the bus is closed.  *)
Mut_Subscribe(s) ==
    /\ stage[s] = "replaying" /\ Awake(s)
    /\ at[s] > upto[s]
    /\ joined' = [joined EXCEPT ![s] = emitted]
    /\ IF emitted > upto[s] THEN Befalls({s}, "gap") ELSE UNCHANGED mishaps
    /\ Goto(s, "live") /\ subs' = subs \cup {s}
    /\ UNCHANGED <<busVars, deliveryVars, callbacks, queue, at, upto, heard,
                   earlier, connects, lastId, lost>>

Subscribe(s) ==
    /\ stage[s] = "replaying" /\ Awake(s)
    /\ at[s] > upto[s]
    /\ joined' = [joined EXCEPT ![s] = emitted]
    /\ IF emitted > upto[s] THEN Befalls({s}, "gap") ELSE UNCHANGED mishaps
    /\ IF closed THEN Goto(s, "over") /\ UNCHANGED subs
                 ELSE Goto(s, "live") /\ subs' = subs \cup {s}
    /\ UNCHANGED <<busVars, deliveryVars, callbacks, queue, at, upto, heard,
                   earlier, connects, lastId, lost>>

Overtakes(s, n) ==
    \E m \in joined[s] + 1 .. n - 1 : m \notin Elements(heard[s]) \cup lost[s]

Receive(s) ==
    /\ stage[s] = "live" /\ Awake(s)
    /\ queue[s] # <<>>
    /\ queue' = [queue EXCEPT ![s] = Tail(@)]
    /\ IF Head(queue[s]) = End
       THEN Goto(s, "over") /\ UNCHANGED <<heard, lastId, mishaps>>
       ELSE /\ Yield(s, Head(queue[s]))
            /\ IF Overtakes(s, Head(queue[s]))
               THEN Befalls({s}, "overtaken") ELSE UNCHANGED mishaps
            /\ UNCHANGED stage
    /\ UNCHANGED <<busVars, subs, deliveryVars, callbacks, at, upto, joined,
                   earlier, connects, lost>>

(* The client goes, whatever its generator was doing. *)
Disconnect(s) ==
    /\ stage[s] # "away" /\ Awake(s)
    /\ Goto(s, "away")
    /\ subs' = subs \ {s}
    /\ todo' = [e \in Emitter |-> todo[e] \ {s}]
    /\ callbacks' = [t \in AsyncStream |-> IF t = s THEN <<>> ELSE callbacks[t]]
    /\ queue' = [queue EXCEPT ![s] = <<>>]
    /\ earlier' = [earlier EXCEPT ![s] = @ \cup Elements(heard[s])]
    /\ heard' = [heard EXCEPT ![s] = <<>>]
    /\ lost' = [lost EXCEPT ![s] = {}]
    /\ UNCHANGED <<busVars, carrying, at, upto, joined, connects, lastId,
                   mishaps>>

-----------------------------------------------------------------------------
Deliver(e) == Schedule(e) \/ \E s \in SyncStream : Put(e, s)
Read(s) == Replay(s) \/ Subscribe(s) \/ Receive(s)

Next ==
    \/ \E e \in Emitter : Emit(e) \/ Close(e) \/ Deliver(e)
    \/ \E s \in AsyncStream : RunCallback(s)
    \/ \E s \in Stream : Connect(s) \/ Read(s) \/ Disconnect(s)

Spec == Init /\ [][Next]_vars

(* A call of emit() runs to its end, the event loop comes to its callbacks *)
(* and a connected client keeps reading.                                   *)
FairSpec ==
    /\ Spec
    /\ \A e \in Emitter : WF_vars(Deliver(e))
    /\ \A s \in AsyncStream : WF_vars(RunCallback(s))
    /\ \A s \in Stream : WF_vars(Read(s))

-----------------------------------------------------------------------------
(* Properties. *)

Times(n, line) == Cardinality({i \in DOMAIN line : line[i] = n})
In(n, S) == IF n \in S THEN 1 ELSE 0
Carrying(s, n) == {e \in Emitter : s \in todo[e] /\ carrying[e] = n}
Scheduled(s) == IF s \in AsyncStream THEN callbacks[s] ELSE <<>>
Line(s) == heard[s] \o queue[s] \o Scheduled(s)

Places(s, n) ==
    Times(n, heard[s]) + Times(n, queue[s]) + Times(n, Scheduled(s))
    + Cardinality(Carrying(s, n)) + In(n, lost[s])

(* An event emitted after a stream subscribed is, for this stream, at one  *)
(* place at any time: still with its emitter, scheduled, queued, yielded,  *)
(* or dropped for a reason the code logs.  None is delivered twice, none   *)
(* vanishes, however emitters, event loop, reader and close() interleave.  *)
EveryEventAccounted ==
    \A s \in Stream : stage[s] \in {"live", "over"} =>
        \A n \in joined[s] + 1 .. emitted : Places(s, n) = 1

(* Two emitters may deliver in the other order than they were numbered in, *)
(* since queues are filled outside the lock; the events of one emitter     *)
(* reach a stream in their order.                                          *)
EmittersInOrder ==
    \A s \in Stream : \A i, j \in DOMAIN Line(s) :
        LET m == Line(s)[i]  n == Line(s)[j]
        IN  i < j /\ End \notin {m, n} /\ author[m] = author[n] => m < n

(* tel_stream.py: "a reconnecting client replays everything it missed from *)
(* the session bus buffer".  It does, unless one of four things happened   *)
(* to this client: the buffer was too short, an event came between the     *)
(* replay and the subscription, an event was dropped, or one was overtaken *)
(* by a later one, whose number then became the Last-Event-ID.             *)
ResumeIsComplete ==
    \A s \in Stream : stage[s] = "live" /\ mishaps[s] = {} =>
        \A n \in 1 .. emitted : \/ n \in earlier[s] \cup Elements(Line(s))
                                \/ Carrying(s, n) # {}

(* emitter.py: "Close the bus and unblock all subscribers".  A stream ends *)
(* once the bus is closed, unless its queue had no room for the sentinel   *)
(* or close() ran outside the event loop an asynchronous stream needs.     *)
CloseUnblocks ==
    \A s \in Stream :
        closed /\ stage[s] = "live" ~> stage[s] # "live" \/ End \in lost[s]

(* An event emitted for a live stream is yielded, unless it was dropped or *)
(* the stream ended.                                                       *)
EventsArrive ==
    \A s \in Stream : \A n \in Event :
        (stage[s] = "live" /\ joined[s] < n /\ n <= emitted)
            ~> (stage[s] # "live" \/ n \in Elements(heard[s]) \cup lost[s])
=============================================================================
