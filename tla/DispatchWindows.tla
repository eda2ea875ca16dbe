--------------------------- MODULE DispatchWindows ---------------------------
(***************************************************************************)
(* The windows of dispatch() and dispatch_stream(): the budget check, the  *)
(* primary window, the continuation loop with its reasons to stop, and the *)
(* session's counters (crp/core/dispatch_router.py, window.py,             *)
(* crp/continuation/manager.py, trigger.py).  A dispatch holds the session *)
(* lock from begin to end; a stream does not, and its consumer may drop it *)
(* at any point.                                                           *)
(*                                                                         *)
(* What the model wrote is abstracted to the decision process_window()     *)
(* takes on it; what bounds that decision is kept.  The counters are       *)
(* updated by += from several threads, so a load and a store are two steps.*)
(***************************************************************************)
EXTENDS Integers, Sequences

CONSTANTS Thread,            \* the threads that dispatch or stream
          None,              \* no thread
          MaxContinuations,  \* max_continuations
          MaxWindows,        \* max_windows_per_session, 0 for no limit
          MaxCalls           \* bound on the number of calls

ASSUME DispatchWindowsAssumption ==
    /\ None \notin Thread
    /\ MaxContinuations \in Nat
    /\ MaxWindows \in Nat
    /\ MaxCalls \in Nat

VARIABLES
    lock,      \* the holder of the session lock
    tally,     \* _windows_completed and _continuation_windows_total
    pc,        \* where each thread is in its call
    kind,      \* which call that is
    node,      \* the state of its latest window
    conts,     \* continuation_windows
    judged,    \* window_count: the windows process_window() has seen
    thinking,  \* _consecutive_empty
    due,       \* the additions to the counters the thread is at
    seen,      \* the value it has loaded for the first of them
    calls,     \* calls so far
    opened,    \* continuation windows opened in all (history)
    finished,  \* windows completed in all (history)
    returned,  \* calls that returned (history)
    mishaps    \* what kept additions from counting so far (history)

windowVars == <<node, conts, judged, thinking>>
countVars == <<tally, due, seen>>
history == <<opened, finished, returned, mishaps>>
vars == <<lock, tally, pc, kind, node, conts, judged, thinking, due, seen,
          calls, opened, finished, returned, mishaps>>

Counter == {"windows", "continuations"}
PC == {"idle", "queued", "budget", "provider", "extract", "decide", "next", "return"}
Kind == {"dispatch", "stream"}
Mishap == {"raced", "reset"}
WindowState == {"CREATED", "GENERATING", "COMPLETED", "EXTRACTED"}

(* A provider that only thinks is stopped at the third window without any  *)
(* output.                                                                 *)
MaxThinking == 3

(* No load is under way. *)
Unseen == -1

TypeOK ==
    /\ lock \in Thread \cup {None}
    /\ tally \in [Counter -> Nat]
    /\ pc \in [Thread -> PC]
    /\ kind \in [Thread -> Kind]
    /\ node \in [Thread -> WindowState]
    /\ conts \in [Thread -> Nat]
    /\ judged \in [Thread -> Nat]
    /\ thinking \in [Thread -> 0..MaxThinking]
    /\ due \in [Thread -> Seq(Counter \X Nat)]
    /\ seen \in [Thread -> Nat \cup {Unseen}]
    /\ calls \in 0..MaxCalls
    /\ opened \in Nat
    /\ finished \in Nat
    /\ returned \in Nat
    /\ mishaps \in SUBSET Mishap

Init ==
    /\ lock = None
    /\ tally = [c \in Counter |-> 0]
    /\ pc = [t \in Thread |-> "idle"]
    /\ kind = [t \in Thread |-> "dispatch"]
    /\ node = [t \in Thread |-> "CREATED"]
    /\ conts = [t \in Thread |-> 0]
    /\ judged = [t \in Thread |-> 0]
    /\ thinking = [t \in Thread |-> 0]
    /\ due = [t \in Thread |-> <<>>]
    /\ seen = [t \in Thread |-> Unseen]
    /\ calls = 0
    /\ opened = 0
    /\ finished = 0
    /\ returned = 0
    /\ mishaps = {}

-----------------------------------------------------------------------------
Goto(t, l) == pc' = [pc EXCEPT ![t] = l]

Enter(t, s) == node' = [node EXCEPT ![t] = s]

(* The counters: x += n for each <<x, n>> that is due.  A store over a     *)
(* value that is no longer the loaded one loses what came between.         *)
Load(t) ==
    /\ due[t] # <<>> /\ seen[t] = Unseen
    /\ seen' = [seen EXCEPT ![t] = tally[Head(due[t])[1]]]
    /\ UNCHANGED <<lock, tally, pc, kind, windowVars, due, calls, history>>

Store(t) ==
    /\ due[t] # <<>> /\ seen[t] # Unseen
    /\ LET add == Head(due[t])
       IN  /\ tally' = [tally EXCEPT ![add[1]] = seen[t] + add[2]]
           /\ mishaps' = IF tally[add[1]] = seen[t] THEN mishaps ELSE mishaps \cup {"raced"}
    /\ due' = [due EXCEPT ![t] = Tail(@)]
    /\ seen' = [seen EXCEPT ![t] = Unseen]
    /\ UNCHANGED <<lock, pc, kind, windowVars, calls, opened, finished, returned>>

(* A call ends, in a result or an exception; a with statement releases the *)
(* session lock.                                                           *)
Leave(t) ==
    /\ Goto(t, "idle")
    /\ lock' = IF lock = t THEN None ELSE lock
    /\ node' = [node EXCEPT ![t] = "CREATED"]
    /\ conts' = [conts EXCEPT ![t] = 0]
    /\ judged' = [judged EXCEPT ![t] = 0]
    /\ thinking' = [thinking EXCEPT ![t] = 0]
    /\ due' = [due EXCEPT ![t] = <<>>]
    /\ seen' = [seen EXCEPT ![t] = Unseen]

-----------------------------------------------------------------------------
Begin(t, k) ==
    /\ pc[t] = "idle"
    /\ calls < MaxCalls
    /\ calls' = calls + 1
    /\ kind' = [kind EXCEPT ![t] = k]
    /\ Goto(t, IF k = "dispatch" THEN "queued" ELSE "budget")
    /\ UNCHANGED <<lock, countVars, windowVars, history>>

Acquire(t) ==
    /\ pc[t] = "queued"
    /\ lock = None
    /\ lock' = t
    /\ Goto(t, "budget")
    /\ UNCHANGED <<countVars, kind, windowVars, calls, history>>

(* The session, the rate limits, the input or _check_budget() refuse the   *)
(* call.                                                                   *)
Exhausted == MaxWindows # 0 /\ tally["windows"] >= MaxWindows

Refuse(t) ==
    /\ pc[t] = "budget"
    /\ Leave(t)
    /\ UNCHANGED <<tally, kind, calls, history>>

OpenPrimary(t) ==
    /\ pc[t] = "budget"
    /\ ~Exhausted
    /\ Enter(t, "GENERATING")
    /\ Goto(t, "provider")
    /\ UNCHANGED <<lock, countVars, kind, conts, judged, thinking, calls, history>>

(* The loop is left: the counters are due, in the order of either method.  *)
(* dispatch() has counted its continuation windows already, a stream never *)
(* does: it counts as one window.                                          *)
Mut_Wind(t) ==
    /\ Goto(t, "return")
    /\ due' = [due EXCEPT ![t] =
                  IF kind[t] = "dispatch"
                  THEN <<<<"continuations", conts[t]>>, <<"windows", 1>>>>
                  ELSE <<<<"continuations", conts[t]>>>>]

Wind(t) ==
    /\ Goto(t, "return")
    /\ due' = [due EXCEPT ![t] =
                  IF kind[t] = "dispatch"
                  THEN <<<<"continuations", conts[t]>>, <<"windows", 1>>>>
                  ELSE <<<<"windows", 1>>, <<"continuations", conts[t]>>>>]

(* The provider raises, answers with an error, or with nothing at all: for *)
(* a continuation of dispatch() that only ends the loop.                   *)
Break(t) ==
    /\ pc[t] = "provider"
    /\ kind[t] = "dispatch" /\ conts[t] > 0
    /\ Wind(t)
    /\ UNCHANGED <<lock, tally, seen, kind, windowVars, calls, history>>

(* The breaker is open, or the provider fails in the primary window.       *)
Fail(t) ==
    /\ pc[t] = "provider"
    /\ conts[t] = 0
    /\ Leave(t)
    /\ UNCHANGED <<tally, kind, calls, history>>

(* A window of reasoning without output.                                   *)
Think(t) ==
    /\ pc[t] = "provider"
    /\ kind[t] = "dispatch" /\ conts[t] > 0
    /\ thinking' = [thinking EXCEPT ![t] = @ + 1]
    /\ IF thinking'[t] >= MaxThinking
       THEN Wind(t) /\ UNCHANGED <<node, finished>>
       ELSE /\ Enter(t, "COMPLETED")
            /\ finished' = finished + 1
            /\ due' = [due EXCEPT ![t] = <<<<"windows", 1>>>>]
            /\ Goto(t, "next")
    /\ UNCHANGED <<lock, tally, seen, kind, conts, judged, calls, opened,
                   returned, mishaps>>

(* A window with output.  A stream marks it EXTRACTED at once, and treats  *)
(* a failed segment the same way up to the decision.                       *)
Answer(t) ==
    /\ pc[t] = "provider"
    /\ Enter(t, IF kind[t] = "stream" THEN "EXTRACTED" ELSE "COMPLETED")
    /\ finished' = finished + 1
    /\ thinking' = [thinking EXCEPT ![t] = 0]
    /\ Goto(t, "extract")
    /\ UNCHANGED <<lock, countVars, kind, conts, judged, calls, opened,
                   returned, mishaps>>

(* Its facts are stored; dispatch() counts a continuation here.            *)
Extract(t) ==
    /\ pc[t] = "extract"
    /\ Enter(t, "EXTRACTED")
    /\ due' = [due EXCEPT ![t] =
                  IF kind[t] = "dispatch" /\ conts[t] > 0
                  THEN <<<<"windows", 1>>>> ELSE <<>>]
    /\ Goto(t, "decide")
    /\ UNCHANGED <<lock, tally, seen, kind, conts, judged, thinking, calls, history>>

(* An extraction, or the consumer of a stream, raises.                     *)
Mut_ExtractFails(t) ==
    /\ pc[t] = "extract"
    /\ Goto(t, "idle")
    /\ UNCHANGED <<lock, countVars, kind, windowVars, calls, history>>

ExtractFails(t) ==
    /\ pc[t] = "extract"
    /\ Leave(t)
    /\ UNCHANGED <<tally, kind, calls, history>>

(* process_window(): whatever it makes of the output, evaluate_continuation*)
(* asks for another window only below max_continuations.                   *)
Mut_MayContinue(n) == n <= MaxContinuations

MayContinue(n) == n < MaxContinuations

Decide(t) ==
    /\ pc[t] = "decide" /\ due[t] = <<>>
    /\ judged' = [judged EXCEPT ![t] = @ + 1]
    /\ \/ Wind(t)
       \/ MayContinue(judged'[t]) /\ Goto(t, "next") /\ UNCHANGED due
    /\ UNCHANGED <<lock, tally, seen, kind, node, conts, thinking, calls, history>>

(* The deadline dispatch_timeout has passed. *)
Deadline(t) ==
    /\ pc[t] = "next" /\ due[t] = <<>>
    /\ Wind(t)
    /\ UNCHANGED <<lock, tally, seen, kind, windowVars, calls, history>>

(* A stream compares its continuations with the limit once more, and takes *)
(* the session lock for as long as it creates the window.                  *)
AtLimit(t) == kind[t] = "stream" /\ conts[t] >= MaxContinuations

Continue(t) ==
    /\ pc[t] = "next" /\ due[t] = <<>>
    /\ IF AtLimit(t)
       THEN Wind(t) /\ UNCHANGED <<conts, opened, node>>
       ELSE /\ kind[t] = "stream" => lock = None
            /\ conts' = [conts EXCEPT ![t] = @ + 1]
            /\ opened' = opened + 1
            /\ Enter(t, "GENERATING")
            /\ Goto(t, "provider")
            /\ UNCHANGED due
    /\ UNCHANGED <<lock, tally, seen, kind, judged, thinking, calls, finished,
                   returned, mishaps>>

Return(t) ==
    /\ pc[t] = "return" /\ due[t] = <<>>
    /\ Leave(t)
    /\ returned' = returned + 1
    /\ UNCHANGED <<tally, kind, calls, opened, finished, mishaps>>

(* The consumer drops the stream at one of its yields: between tokens,     *)
(* after a window, or on the event that announces a continuation.          *)
Drop(t) ==
    /\ kind[t] = "stream"
    /\ pc[t] \in {"provider", "decide"}
    /\ Leave(t)
    /\ UNCHANGED <<tally, kind, calls, history>>

(* reset_session(), beside whatever is under way. *)
Reset ==
    /\ tally' = [c \in Counter |-> 0]
    /\ mishaps' = mishaps \cup {"reset"}
    /\ UNCHANGED <<lock, pc, kind, windowVars, due, seen, calls, opened, finished, returned>>

(* What a call does of itself. *)
Step(t) ==
    \/ Load(t) \/ Store(t)
    \/ Acquire(t) \/ Refuse(t) \/ OpenPrimary(t) \/ Fail(t) \/ Break(t) \/ Think(t)
    \/ Answer(t) \/ Extract(t) \/ ExtractFails(t) \/ Decide(t)
    \/ Continue(t) \/ Return(t)

Next ==
    \/ \E t \in Thread :
          \/ \E k \in Kind : Begin(t, k)
          \/ Step(t) \/ Deadline(t) \/ Drop(t)
    \/ Reset

Spec == Init /\ [][Next]_vars

(* A call under way goes on, and the consumer of a stream pulls the next   *)
(* event or drops it.  The lock need not be fair: the calls are finitely   *)
(* many, so that in the end nobody else wants it.                          *)
FairSpec == Spec /\ \A t \in Thread : WF_vars(Step(t))

-----------------------------------------------------------------------------
(* The counters that _check_budget() compares and session_status() shows,  *)
(* however additions, resets, abandoned streams and failing windows        *)
(* interleave: they claim no window and no continuation that the session   *)
(* did not have, and they miss no call that returned, so that the cap of   *)
(* windows can be passed only when two threads raced at += or the session  *)
(* was reset.                                                              *)
CountersTrack ==
    /\ tally["windows"] <= finished
    /\ tally["continuations"] <= opened
    /\ mishaps = {} => returned <= tally["windows"]

(* What max_continuations bounds: the first window counts as one of them,  *)
(* and dispatch() does not count windows of reasoning, of which a run of   *)
(* three ends the call.                                                    *)
ContinuationsBounded ==
    \A t \in Thread :
        \/ conts[t] = 0
        \/ kind[t] = "stream" /\ conts[t] <= MaxContinuations - 1
        \/ kind[t] = "dispatch" /\ conts[t] <= MaxThinking * (MaxContinuations - 1)

(* Every call ends, whatever the provider answers, without the help of     *)
(* dispatch_timeout: outputs run into max_continuations, reasoning into    *)
(* the third empty window.                                                 *)
EveryCallEnds == \A t \in Thread : pc[t] # "idle" ~> pc[t] = "idle"
=============================================================================
