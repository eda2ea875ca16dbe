-------------------------- MODULE DispatchStrategies --------------------------
(***************************************************************************)
(* The dispatch variants of crp/core/dispatch_router.py as callers of the  *)
(* circuit breaker: push (dispatch() itself), tools, reflexive,            *)
(* progressive and augmented, and the two that are built from them,        *)
(* dispatch_batch and dispatch_agentic with its plan of steps, its own     *)
(* continuation loop and its revisions.                                    *)
(*                                                                         *)
(* What a model writes, and what an evaluation makes of it, is the choice  *)
(* between the branches it leads to.  The calls by which dispatch_agentic  *)
(* consults the model bypass the breaker and never raise, and are left out.*)
(***************************************************************************)
EXTENDS CircuitBreaker

CONSTANTS Strategist,   \* callers that run the variants; the others call freely
          MaxRounds,    \* max_tool_rounds, max_refinement_passes, max_injections
          SessionCap,   \* max_continuations of the session
          CallCaps,     \* the values callers give max_continuations for one call
          NoCap,        \* the caller gives none
          MaxSteps,     \* bound on the steps of a plan and the items of a batch
          MaxRevisions  \* max_revision_rounds

ASSUME DispatchStrategiesAssumption ==
    /\ Strategist \subseteq Caller
    /\ MaxRounds \in Nat \ {0}
    /\ SessionCap \in Nat
    /\ CallCaps \subseteq Nat
    /\ NoCap \notin Nat
    /\ MaxSteps \in Nat \ {0}
    /\ MaxRevisions \in Nat

VARIABLES
    at,   \* where each strategist is in its call
    run,  \* the dispatch under way
    job   \* the call it belongs to

strategies == <<at, run, job>>
allVars == <<vars, strategies>>

At == {"idle", "ready", "ask", "call", "forced", "judge", "next", "window",
       "segment", "extract", "weigh", "evaluate"}

Way == {"push", "tools", "reflexive", "progressive", "augmented"}

(* A dispatch of one variant: the cap on its continuations, its rounds so  *)
(* far, whether the model awaits tool results or injected facts, whether   *)
(* the provider failed it in a round (finish_reason "error"), and the      *)
(* counters of its continuation loop.                                      *)
Run == [way : Way, cap : Nat, rounds : Nat, pending : BOOLEAN, error : BOOLEAN,
        conts : Nat, judged : Nat, thinking : Nat]

(* A call: the cap its caller asked for, the stage dispatch_agentic is in, *)
(* the dispatches left in it, and the counters of its two loops.           *)
Job == [kind : {"single", "batch", "agentic"}, asked : CallCaps \cup {NoCap},
        stage : {"generate", "extend", "revise"}, left : Nat,
        extra : Nat, weighed : Nat, revisions : Nat]

StrategiesTypeOK ==
    /\ at \in [Strategist -> At]
    /\ run \in [Strategist -> Run]
    /\ job \in [Strategist -> Job]

NewRun(way, cap) ==
    [way |-> way, cap |-> cap, rounds |-> 0, pending |-> FALSE,
     error |-> FALSE, conts |-> 0, judged |-> 0, thinking |-> 0]

NewJob(kind, asked, n) ==
    [kind |-> kind, asked |-> asked, stage |-> "generate", left |-> n,
     extra |-> 0, weighed |-> 0, revisions |-> 0]

NoRun == NewRun("push", SessionCap)
NoJob == NewJob("single", NoCap, 1)

StrategiesInit ==
    /\ Init
    /\ at = [c \in Strategist |-> "idle"]
    /\ run = [c \in Strategist |-> NoRun]
    /\ job = [c \in Strategist |-> NoJob]

-----------------------------------------------------------------------------
Goto(c, l) == at' = [at EXCEPT ![c] = l]

(* A run of empty windows ends a push dispatch at the third; they are not  *)
(* judged.  MostWindows bounds the continuations of one dispatch.          *)
MaxThinking == 3

MostWindows(way, cap) ==
    IF cap = 0 \/ way \in {"reflexive", "progressive"} THEN 0
    ELSE IF way = "push" THEN MaxThinking * (cap - 1) ELSE cap - 1

(* The cap a dispatch works under: the caller's, or else the session's.    *)
(* dispatch_agentic takes its caller's out of the arguments and hands it   *)
(* to none of its dispatches.                                              *)
Mut_Effective(j) == SessionCap

Effective(j) ==
    IF j.kind = "agentic" \/ j.asked = NoCap THEN SessionCap ELSE j.asked

(* The ways a dispatch of job j may go: dispatch_with_tools is open to     *)
(* callers only, not to the steps of a plan and to revisions.              *)
Ways(j) ==
    IF j.kind = "single" THEN Way
    ELSE IF j.kind = "agentic" /\ j.stage # "extend" THEN Way \ {"tools"}
    ELSE {"push"}

(* The call is over. *)
Done(c) ==
    /\ Goto(c, "idle")
    /\ run' = [run EXCEPT ![c] = NoRun]
    /\ job' = [job EXCEPT ![c] = NoJob]

(* On to the next dispatch of the call, or to dispatch_agentic itself. *)
Proceed(c, l, j) ==
    /\ Goto(c, l)
    /\ run' = [run EXCEPT ![c] = NoRun]
    /\ job' = [job EXCEPT ![c] = j]

OneLess(j) == [j EXCEPT !.left = @ - 1]

(* A dispatch raises.  A batch notes it and goes on; dispatch_agentic lets *)
(* it through, but from its continuation loop.                             *)
Raise(c) ==
    LET j == job[c] IN
    \/ j.kind = "agentic" /\ j.stage = "extend" /\ Proceed(c, "evaluate", j)
    \/ j.kind = "batch" /\ j.left > 1 /\ Proceed(c, "ready", OneLess(j))
    \/ j.kind = "agentic" /\ j.stage # "extend" /\ Done(c)
    \/ j.kind # "agentic" /\ j.left = 1 /\ Done(c)

(* A dispatch returns and reports n continuation windows.  dispatch_agentic*)
(* goes on to its own continuation loop when the answer of its last step   *)
(* was cut and none are reported.                                          *)
Finish(c, n) ==
    LET j == job[c] IN
    \/ /\ j.kind # "agentic"
       /\ IF j.left > 1 THEN Proceed(c, "ready", OneLess(j)) ELSE Done(c)
    \/ /\ j.kind = "agentic" /\ j.stage = "generate"
       /\ \/ j.left > 1 /\ Proceed(c, "ready", OneLess(j))
          \/ j.left = 1 /\ n = 0 /\ Proceed(c, "weigh", j)
          \/ j.left = 1 /\ Proceed(c, "evaluate", j)
    \/ /\ j.kind = "agentic" /\ j.stage = "extend"
       /\ Proceed(c, "weigh", [j EXCEPT !.extra = @ + n])
    \/ /\ j.kind = "agentic" /\ j.stage = "revise"
       /\ Proceed(c, "evaluate", j)

-----------------------------------------------------------------------------
(* A call comes in: one dispatch, a batch of n tasks, or an agentic call   *)
(* that has analysed its task, planned n steps and chosen its strategy.    *)
(* dispatch_batch takes no cap.                                            *)
Submit(c, kind, asked, n) ==
    /\ at[c] = "idle"
    /\ kind = "single" => n = 1
    /\ kind = "batch" => asked = NoCap
    /\ job' = [job EXCEPT ![c] = NewJob(kind, asked, n)]
    /\ Goto(c, "ready")
    /\ UNCHANGED <<vars, run>>

(* The session, the rate limits or the input refuse the dispatch. *)
Reject(c) ==
    /\ at[c] = "ready"
    /\ Raise(c)
    /\ UNCHANGED vars

(* dispatch() answers from its cache, with an earlier report. *)
Cached(c) ==
    /\ at[c] = "ready"
    /\ \E n \in 0..MostWindows("push", Effective(job[c])) : Finish(c, n)
    /\ UNCHANGED vars

Start(c) ==
    /\ at[c] = "ready"
    /\ \E way \in Ways(job[c]) :
          run' = [run EXCEPT ![c] = NewRun(way, Effective(job[c]))]
    /\ Goto(c, "ask")
    /\ UNCHANGED <<vars, job>>

(* allow_request(), before every round. *)
Ask(c) ==
    /\ at[c] = "ask"
    /\ Admit(c)
    /\ Goto(c, "call")
    /\ UNCHANGED <<run, job>>

Refuses == (state = "OPEN" /\ ~ripe) \/ (state = "HALF_OPEN" /\ probing)

Refused(c) ==
    /\ at[c] = "ask"
    /\ Refuses
    /\ Raise(c)
    /\ UNCHANGED vars

-----------------------------------------------------------------------------
(* The model answers for good; push, tools and augmented ask               *)
(* process_window() whether the answer is complete.                        *)
Judged == {"push", "tools", "augmented"}

Answer(c) ==
    /\ at[c] = "call"
    /\ Succeed(c)
    /\ run' = [run EXCEPT ![c].pending = FALSE]
    /\ Goto(c, IF run[c].way \in Judged THEN "judge" ELSE "extract")
    /\ UNCHANGED job

(* The model asks for tools: one round more than max_tool_rounds would be  *)
(* open, and the last answer is forced from it without the breaker.        *)
Mut_UseTools(c) ==
    LET r == run[c].rounds + 1 IN
    /\ at[c] = "call" /\ run[c].way = "tools"
    /\ Succeed(c)
    /\ run' = [run EXCEPT ![c].rounds = r, ![c].pending = TRUE]
    /\ Goto(c, IF r > MaxRounds THEN "forced"
               ELSE IF r < MaxRounds THEN "ask" ELSE "judge")
    /\ UNCHANGED job

UseTools(c) ==
    LET r == run[c].rounds + 1 IN
    /\ at[c] = "call" /\ run[c].way = "tools"
    /\ Succeed(c)
    /\ run' = [run EXCEPT ![c].rounds = r, ![c].pending = TRUE]
    /\ Goto(c, IF r > MaxRounds THEN "forced"
               ELSE IF r < MaxRounds + 1 THEN "ask" ELSE "judge")
    /\ UNCHANGED job

Forced(c) ==
    /\ at[c] = "forced"
    /\ \/ /\ run' = [run EXCEPT ![c].pending = FALSE]
          /\ Goto(c, "judge")
          /\ UNCHANGED job
       \/ Raise(c)
    /\ UNCHANGED vars

(* The answer is sent back to be refined: it contradicts the knowledge     *)
(* base, or it names entries of the index, whose details go with it.       *)
AskAgain(c) ==
    /\ Succeed(c)
    /\ run' = [run EXCEPT ![c].rounds = @ + 1]
    /\ Goto(c, "ask")
    /\ UNCHANGED job

Refine(c) ==
    /\ at[c] = "call" /\ run[c].way = "reflexive"
    /\ run[c].rounds < MaxRounds
    /\ AskAgain(c)

Expand(c) ==
    /\ at[c] = "call" /\ run[c].way = "progressive"
    /\ run[c].rounds = 0
    /\ AskAgain(c)

(* Facts are found for what the model is writing: its stream is left and   *)
(* started again with them.                                                *)
Inject(c) ==
    LET r == run[c].rounds + 1 IN
    /\ at[c] = "call" /\ run[c].way = "augmented"
    /\ run[c].rounds < MaxRounds
    /\ Abandon(c)
    /\ run' = [run EXCEPT ![c].rounds = r, ![c].pending = TRUE]
    /\ Goto(c, IF r <= MaxRounds THEN "ask" ELSE "judge")
    /\ UNCHANGED job

(* The provider fails: augmented goes on with what it has, which is the    *)
(* text of the rounds before, stopped for facts, or none.                  *)
Breaks(c) ==
    /\ at[c] = "call"
    /\ Fail(c)
    /\ IF run[c].way = "augmented"
       THEN /\ run' = [run EXCEPT ![c].error = TRUE]
            /\ Goto(c, "judge")
            /\ UNCHANGED job
       ELSE Raise(c)

-----------------------------------------------------------------------------
(* process_window(): it asks for another window only below the cap. *)
Judge(c) ==
    LET n == run[c].judged + 1 IN
    /\ at[c] = "judge"
    /\ run' = [run EXCEPT ![c].judged = n]
    /\ \/ Goto(c, "extract")
       \/ n < run[c].cap /\ Goto(c, "next")
    /\ UNCHANGED <<vars, job>>

(* dispatch_timeout has passed. *)
Deadline(c) ==
    /\ at[c] \in {"next", "weigh"}
    /\ Goto(c, IF at[c] = "next" THEN "extract" ELSE "evaluate")
    /\ UNCHANGED <<vars, run, job>>

(* The next continuation window.  Those of dispatch() have nothing to do   *)
(* with the breaker; the others report to it without asking.               *)
Open(c) ==
    LET n == run[c].conts + 1 IN
    /\ at[c] = "next"
    /\ run' = [run EXCEPT ![c].conts = n]
    /\ IF run[c].way = "push"
       THEN Goto(c, "window") /\ UNCHANGED vars
       ELSE IF n > run[c].cap
       THEN Goto(c, "extract") /\ UNCHANGED vars
       ELSE Goto(c, "segment") /\ Continue(c)
    /\ UNCHANGED job

(* It writes, it only thinks, or the provider fails it. *)
Window(c) ==
    /\ at[c] = "window"
    /\ \/ /\ run' = [run EXCEPT ![c].thinking = 0]
          /\ Goto(c, "judge")
       \/ /\ run' = [run EXCEPT ![c].thinking = @ + 1]
          /\ Goto(c, IF run[c].thinking + 1 < MaxThinking THEN "next" ELSE "extract")
       \/ /\ Goto(c, "extract")
          /\ UNCHANGED run
    /\ UNCHANGED <<vars, job>>

Segment(c) ==
    /\ at[c] = "segment"
    /\ \/ Succeed(c) /\ Goto(c, "judge")
       \/ Fail(c) /\ Goto(c, "extract")
    /\ UNCHANGED <<run, job>>

(* The facts of the whole answer are stored and the report is made, or the *)
(* extraction raises.  dispatch_with_tools reports no continuations.       *)
Reported(r) == IF r.way = "tools" THEN 0 ELSE r.conts

Extract(c) ==
    /\ at[c] = "extract"
    /\ \/ Finish(c, Reported(run[c]))
       \/ Raise(c)
    /\ UNCHANGED vars

-----------------------------------------------------------------------------
(* The continuation loop of dispatch_agentic: a process_window() of its    *)
(* own, under the session's cap, and a dispatch() per window, whose own    *)
(* continuations count as well.                                            *)
Weigh(c) ==
    LET j == [job[c] EXCEPT !.weighed = @ + 1, !.stage = "extend"] IN
    /\ at[c] = "weigh"
    /\ \/ Proceed(c, "evaluate", j)
       \/ /\ j.weighed < SessionCap
          /\ Proceed(c, IF j.extra + 1 > SessionCap THEN "evaluate" ELSE "ready",
                     [j EXCEPT !.extra = @ + 1])
    /\ UNCHANGED vars

(* The answer is good enough, or it is revised. *)
Mut_Evaluate(c) ==
    /\ at[c] = "evaluate"
    /\ \/ Done(c)
       \/ job[c].revisions < MaxRevisions
          /\ Proceed(c, "ready", [job[c] EXCEPT !.stage = "revise"])
    /\ UNCHANGED vars

Evaluate(c) ==
    LET j == job[c] IN
    /\ at[c] = "evaluate"
    /\ \/ Done(c)
       \/ /\ j.revisions < MaxRevisions
          /\ Proceed(c, "ready", [j EXCEPT !.stage = "revise", !.revisions = @ + 1])
    /\ UNCHANGED vars

-----------------------------------------------------------------------------
(* What a call does of itself. *)
Step(c) ==
    \/ Reject(c) \/ Cached(c) \/ Start(c) \/ Ask(c) \/ Refused(c)
    \/ Answer(c) \/ UseTools(c) \/ Forced(c) \/ Refine(c) \/ Expand(c)
    \/ Inject(c) \/ Breaks(c)
    \/ Judge(c) \/ Open(c) \/ Window(c) \/ Segment(c) \/ Extract(c)
    \/ Weigh(c) \/ Evaluate(c)

Free(c) ==
    /\ Admit(c) \/ Continue(c) \/ Succeed(c) \/ Fail(c) \/ Abandon(c)
    /\ UNCHANGED strategies

StrategiesNext ==
    \/ \E c \in Strategist :
          \/ \E kind \in {"single", "batch", "agentic"},
                asked \in CallCaps \cup {NoCap}, n \in 1..MaxSteps :
                Submit(c, kind, asked, n)
          \/ Step(c) \/ Deadline(c)
    \/ \E c \in Caller \ Strategist : Free(c)
    \/ (Poll \/ Reset \/ Elapse \/ Heal) /\ UNCHANGED strategies

StrategiesSpec == StrategiesInit /\ [][StrategiesNext]_allVars

(* A call under way goes on; the other callers keep dispatching, as the    *)
(* breaker's own specification has it.                                     *)
FairStrategies ==
    /\ StrategiesSpec
    /\ \A c \in Strategist : WF_allVars(Step(c))
    /\ \A c \in Caller \ Strategist :
          /\ SF_allVars(AdmitProbe(c) /\ UNCHANGED strategies)
          /\ WF_allVars(Succeed(c) /\ UNCHANGED strategies)
    /\ WF_allVars(Elapse /\ UNCHANGED strategies)

-----------------------------------------------------------------------------
(* "All five dispatch variants ... accept a per-call max_continuations     *)
(* kwarg that overrides the session ContinuationConfig for that call"      *)
(* (CHANGELOG.md:152): a dispatch opens no more continuation windows than  *)
(* its caller's cap allows, except in dispatch_agentic, the fifth of them, *)
(* which drops the cap: its dispatches keep to the session's, however much *)
(* lower the caller's was, and its own continuation loop, whose windows    *)
(* are dispatches with continuations of their own, goes no further than    *)
(* one such dispatch past the session's.                                   *)
Promised(j) ==
    IF j.kind # "agentic" /\ j.asked \in CallCaps THEN j.asked ELSE SessionCap

CapsHold ==
    \A c \in Strategist :
        /\ run[c].conts <= MostWindows(run[c].way, Promised(job[c]))
        /\ job[c].extra <= SessionCap + 1 + MostWindows("push", SessionCap)

(* However the bounds on rounds, tool calls and injections meet, a         *)
(* dispatch takes for its answer a text behind which the model still waits *)
(* for the results of its tools or for the facts it was stopped for in one *)
(* case only: the provider failed a later round of an augmented dispatch,  *)
(* which then returns the half sentence written before the injection.      *)
AnswersAreFinal ==
    \A c \in Strategist :
        at[c] \in {"judge", "next", "window", "segment", "extract"}
            /\ run[c].pending
        => run[c].way = "augmented" /\ run[c].error

(* Every call of every variant ends, whatever the breaker and the models   *)
(* answer and without the help of dispatch_timeout.                        *)
StrategiesEnd == \A c \in Strategist : at[c] # "idle" ~> at[c] = "idle"
=============================================================================
