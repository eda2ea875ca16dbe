------------------------ MODULE CircuitBreaker_proofs ------------------------
(***************************************************************************)
(* Proofs about CircuitBreaker for any set of callers and any thresholds,  *)
(* and about DispatchStrategies, whose dispatches are callers of it, for   *)
(* any caps and bounds.                                                    *)
(***************************************************************************)
EXTENDS DispatchStrategies, TLAPS

(* In HALF_OPEN the breaker has counted no more successes than have been   *)
(* recorded since the last failure, so late outcomes cannot make up for    *)
(* missing ones.                                                           *)
CountsNoMoreThanGood == state = "HALF_OPEN" => successes <= good

IInv == TypeOK /\ CountsNoMoreThanGood

(* The breaker starts closed and quiet.                                    *)
LEMMA InitIInv == Init => IInv
<1> SUFFICES ASSUME Init PROVE IInv
  OBVIOUS
<1>1. probing \in BOOLEAN /\ ripe \in BOOLEAN /\ healthy \in BOOLEAN
  BY DEF Init
<1> QED
  BY <1>1, CircuitBreakerAssumption
     DEF Init, IInv, TypeOK, State, CountsNoMoreThanGood

(* Every answer of allow_request and every outcome, however late, keeps    *)
(* the invariant.                                                          *)
LEMMA NextIInv == IInv /\ [Next]_vars => IInv'
<1> SUFFICES ASSUME IInv, [Next]_vars PROVE IInv'
  OBVIOUS
<1> USE CircuitBreakerAssumption
    DEF IInv, TypeOK, State, CountsNoMoreThanGood, breaker
<1>flags. probing' \in BOOLEAN /\ ripe' \in BOOLEAN /\ healthy' \in BOOLEAN
  BY DEF Next, Admit, AdmitClosed, AdmitProbe, Continue, Succeed, RecordSuccess,
         Fail, RecordFailure, Abandon, Poll, Reset, Elapse, Heal, vars
<1>1. ASSUME NEW c \in Caller, AdmitClosed(c) PROVE IInv'
  BY <1>1 DEF AdmitClosed
<1>2. ASSUME NEW c \in Caller, AdmitProbe(c) PROVE IInv'
  BY <1>2, <1>flags DEF AdmitProbe, HalfOpen
<1>3. ASSUME NEW c \in Caller, Succeed(c) PROVE IInv'
  <2>1. /\ good' \in 0..SuccessThreshold
        /\ good < SuccessThreshold => good' = good + 1
        /\ good = SuccessThreshold => good' = good
    BY <1>3 DEF Succeed, UpTo
  <2>2. calling' \subseteq Caller /\ probes' \subseteq calling'
    BY <1>3 DEF Succeed
  <2> QED
    BY <1>3, <1>flags, <2>1, <2>2 DEF Succeed, RecordSuccess
<1>4. ASSUME NEW c \in Caller, Fail(c) PROVE IInv'
  <2>1. failures' \in 1..FailureThreshold
    BY <1>4 DEF Fail, RecordFailure, UpTo
  <2> QED
    BY <1>4, <1>flags, <2>1 DEF Fail, RecordFailure
<1>5. ASSUME NEW c \in Caller, Abandon(c) PROVE IInv'
  BY <1>5 DEF Abandon
<1>6. CASE Poll
  BY <1>6, <1>flags DEF Poll, HalfOpen
<1>7. CASE Reset
  BY <1>7, <1>flags DEF Reset
<1>8. CASE Elapse \/ Heal
  BY <1>8, <1>flags DEF Elapse, Heal
<1>9. CASE UNCHANGED vars
  BY <1>9 DEF vars
<1>10. ASSUME NEW c \in Caller, Continue(c) PROVE IInv'
  BY <1>10 DEF Continue
<1> QED
  BY <1>10, <1>1, <1>2, <1>3, <1>4, <1>5, <1>6, <1>7, <1>8, <1>9 DEF Next, Admit

(* The breaker keeps its inductive invariant.                              *)
THEOREM Invariance == Spec => []IInv
<1>1. Init => IInv
  BY InitIInv
<1>2. IInv /\ [Next]_vars => IInv'
  BY NextIInv
<1> QED
  BY <1>1, <1>2, PTL DEF Spec

(* State and counters stay well formed: in particular a closed breaker is  *)
(* always below its failure threshold.                                     *)
THEOREM TypeCorrect == Spec => []TypeOK
BY Invariance, PTL DEF IInv

(* The flag that turns callers away is left without a probe that will      *)
(* clear it by abandoned calls only.                                       *)
THEOREM OrphansAreAbandoned == Spec => OnlyAbandoningOrphans
<1>1. IInv /\ [Next]_vars
        => [~Orphaned /\ Orphaned' => \E c \in Caller : Abandon(c)]_vars
  <2> SUFFICES ASSUME IInv, Next, ~Orphaned, Orphaned'
               PROVE  \E c \in Caller : Abandon(c)
    OBVIOUS
  <2>1. ASSUME NEW c \in Caller, Admit(c) \/ Continue(c) PROVE FALSE
    BY <2>1 DEF Admit, AdmitClosed, AdmitProbe, Continue, Orphaned, breaker
  <2>2. ASSUME NEW c \in Caller, Succeed(c) PROVE FALSE
    BY <2>2 DEF Succeed, RecordSuccess, Orphaned
  <2>3. ASSUME NEW c \in Caller, Fail(c) PROVE FALSE
    BY <2>3 DEF Fail, RecordFailure, Orphaned
  <2>4. ASSUME Poll \/ Reset \/ Elapse \/ Heal PROVE FALSE
    BY <2>4 DEF Poll, Reset, Elapse, Heal, Orphaned, breaker
  <2> QED
    BY <2>1, <2>2, <2>3, <2>4 DEF Next
<1> QED
  BY <1>1, Invariance, PTL DEF Spec, OnlyAbandoningOrphans

(* The breaker closes from HALF_OPEN only after success_threshold          *)
(* successes with no failure between them.                                 *)
THEOREM RecoveryProven == Spec => RecoveryIsProven
<1>1. IInv /\ [Next]_vars
        => [state = "HALF_OPEN" /\ state' = "CLOSED" /\ good' # good
              => good' = SuccessThreshold]_vars
  <2> SUFFICES ASSUME IInv, Next, state = "HALF_OPEN", state' = "CLOSED",
                      good' # good
               PROVE  good' = SuccessThreshold
    OBVIOUS
  <2>1. PICK c \in Caller : Succeed(c) \/ Fail(c)
    BY DEF Next, Admit, AdmitClosed, AdmitProbe, Continue, Abandon, Poll, Reset,
           Elapse, Heal
  <2>2. Succeed(c)
    BY <2>1 DEF Fail, RecordFailure
  <2>3. successes + 1 >= SuccessThreshold
    BY <2>2 DEF Succeed, RecordSuccess
  <2>4. /\ good' \in 0..SuccessThreshold
        /\ good < SuccessThreshold => good' = good + 1
    BY <2>2, CircuitBreakerAssumption DEF Succeed, IInv, TypeOK, UpTo
  <2>5. /\ good \in 0..SuccessThreshold
        /\ successes \in 0..SuccessThreshold
        /\ successes <= good
        /\ SuccessThreshold \in Nat
    BY CircuitBreakerAssumption DEF IInv, TypeOK, CountsNoMoreThanGood
  <2>6. good # SuccessThreshold
    BY <2>2, CircuitBreakerAssumption DEF Succeed, IInv, TypeOK, UpTo
  <2> QED
    BY <2>3, <2>4, <2>5, <2>6
<1> QED
  BY <1>1, Invariance, PTL DEF Spec, RecoveryIsProven

-----------------------------------------------------------------------------
(* Every step of a dispatch is one of the breaker's, or none of its        *)
(* business: what holds of the breaker's callers holds of every variant.   *)
THEOREM StrategiesAreCallers == StrategiesSpec => Spec
<1>1. StrategiesInit => Init
  BY DEF StrategiesInit
<1>2. [StrategiesNext]_allVars => [Next]_vars
  <2> SUFFICES ASSUME [StrategiesNext]_allVars PROVE [Next]_vars
    OBVIOUS
  <2> USE DispatchStrategiesAssumption
  <2>1. ASSUME NEW c \in Strategist, Step(c) PROVE [Next]_vars
    <3> c \in Caller
      OBVIOUS
    <3>1. CASE Ask(c)
      BY <3>1 DEF Ask, Next
    <3>2. CASE Answer(c) \/ UseTools(c) \/ Refine(c) \/ Expand(c)
      BY <3>2 DEF Answer, UseTools, Refine, Expand, AskAgain, Next
    <3>3. CASE Inject(c) \/ Breaks(c) \/ Segment(c)
      BY <3>3 DEF Inject, Breaks, Segment, Next
    <3>4. CASE Open(c)
      BY <3>4 DEF Open, Next
    <3>5. CASE Reject(c) \/ Cached(c) \/ Start(c) \/ Refused(c) \/ Forced(c)
      BY <3>5 DEF Reject, Cached, Start, Refused, Forced
    <3>6. CASE Judge(c) \/ Window(c) \/ Extract(c) \/ Weigh(c) \/ Evaluate(c)
      BY <3>6 DEF Judge, Window, Extract, Weigh, Evaluate
    <3> QED
      BY <2>1, <3>1, <3>2, <3>3, <3>4, <3>5, <3>6 DEF Step
  <2>2. ASSUME NEW c \in Caller \ Strategist, Free(c) PROVE Next
    BY <2>2 DEF Free, Next
  <2>3. ASSUME Poll \/ Reset \/ Elapse \/ Heal PROVE Next
    BY <2>3 DEF Next
  <2>4. ASSUME NEW c \in Strategist, Deadline(c) PROVE UNCHANGED vars
    BY <2>4 DEF Deadline
  <2>5. ASSUME NEW c \in Strategist, NEW kind, NEW asked, NEW n,
               Submit(c, kind, asked, n)
        PROVE  UNCHANGED vars
    BY <2>5 DEF Submit
  <2>6. ASSUME UNCHANGED allVars PROVE UNCHANGED vars
    BY <2>6 DEF allVars
  <2> QED
    BY <2>1, <2>2, <2>3, <2>4, <2>5, <2>6 DEF StrategiesNext
<1> QED
  BY <1>1, <1>2, PTL DEF StrategiesSpec, Spec

-----------------------------------------------------------------------------
Dispatching == {"ask", "call", "forced", "judge", "next", "window", "segment",
                "extract"}

Answering == {"judge", "next", "window", "segment", "extract"}

(* The model waits for nothing, or its provider failed.                    *)
Final(r) == r.pending => r.way = "augmented" /\ r.error

(* Where a dispatch is in its continuation loop against its two counters:  *)
(* every judged window but the last one has led to a continuation, and, in *)
(* a push dispatch, to at most two empty windows more.                     *)
LoopOK(l, r) ==
    /\ l \in {"ask", "call", "forced"} =>
          r.conts = 0 /\ r.judged = 0 /\ r.thinking = 0
    /\ l = "forced" => r.way = "tools"
    /\ l \in {"judge", "next", "window", "segment"} =>
          /\ r.way \in Judged
          /\ r.judged = 0 \/ r.judged < r.cap
    /\ l = "judge" =>
          /\ r.conts <= (IF r.way = "push" THEN 3 * r.judged ELSE r.judged)
          /\ r.thinking = 0
    /\ l = "next" =>
          /\ r.judged >= 1
          /\ r.thinking < 3
          /\ IF r.way = "push" THEN r.conts <= 3 * (r.judged - 1) + r.thinking
             ELSE r.conts + 1 <= r.judged /\ r.thinking = 0
    /\ l = "window" =>
          /\ r.judged >= 1
          /\ r.way = "push" /\ r.thinking < 3
          /\ r.conts <= 3 * (r.judged - 1) + r.thinking + 1
    /\ l = "segment" =>
          r.way # "push" /\ r.conts <= r.judged /\ r.thinking = 0
    /\ l = "extract" => r.conts <= MostWindows(r.way, r.cap)

(* The continuation loop of dispatch_agentic: it starts a dispatch only    *)
(* below the session's cap.                                                *)
ExtraOK(l, r, j) ==
    /\ j.kind # "agentic" => j.stage = "generate"
    /\ j.stage = "generate" => j.extra = 0
    /\ j.stage = "extend" /\ l \in Dispatching => r.way = "push"
    /\ j.stage = "extend" /\ l \in Dispatching \cup {"ready"} => j.extra <= SessionCap
    /\ l = "weigh" => /\ j.kind = "agentic" /\ j.stage \in {"generate", "extend"}
                      /\ j.extra <= SessionCap + MostWindows("push", SessionCap)
    /\ l = "evaluate" => j.kind = "agentic"
    /\ j.extra <= SessionCap + 1 + MostWindows("push", SessionCap)

Coherent(l, r, j) ==
    /\ l \in At /\ r \in Run /\ j \in Job
    /\ l \notin Dispatching => r = NoRun
    /\ l \in Dispatching => r.cap = Effective(j)
    /\ l \in Answering => Final(r)
    /\ LoopOK(l, r)
    /\ ExtraOK(l, r, j)

SInv == /\ StrategiesTypeOK
        /\ \A c \in Strategist : Coherent(at[c], run[c], job[c])

(* A limit on continuation windows is a natural number. *)
LEMMA MostWindowsNat ==
    ASSUME NEW way \in Way, NEW cap \in Nat
    PROVE  MostWindows(way, cap) \in Nat
BY DEF MostWindows, MaxThinking

(* The invariant is kept by a step of one strategist that leaves it        *)
(* coherent.                                                               *)
LEMMA OneMoves ==
    ASSUME SInv, NEW c \in Strategist, NEW l, NEW r, NEW j, Coherent(l, r, j),
           at' = [at EXCEPT ![c] = l], run' = [run EXCEPT ![c] = r],
           job' = [job EXCEPT ![c] = j]
    PROVE  SInv'
<1>1. at' \in [Strategist -> At] /\ run' \in [Strategist -> Run]
      /\ job' \in [Strategist -> Job]
  BY DEF SInv, StrategiesTypeOK, Coherent
<1>2. ASSUME NEW d \in Strategist
      PROVE  Coherent(at[d], run[d], job[d])'
  <2>1. at'[d] = IF d = c THEN l ELSE at[d]
    BY DEF SInv, StrategiesTypeOK
  <2>2. run'[d] = IF d = c THEN r ELSE run[d]
    BY DEF SInv, StrategiesTypeOK
  <2>3. job'[d] = IF d = c THEN j ELSE job[d]
    BY DEF SInv, StrategiesTypeOK
  <2>4. Coherent(at'[d], run'[d], job'[d])
    BY <2>1, <2>2, <2>3 DEF SInv
  <2> QED
    BY <2>4 DEF Coherent, LoopOK, ExtraOK, Final, MostWindows, Effective, NoRun, NewRun
<1> QED
  BY <1>1, <1>2 DEF SInv, StrategiesTypeOK

(* A caller between two calls is coherent. *)
LEMMA AtRest == /\ NoRun \in Run /\ NoJob \in Job
                /\ Coherent("idle", NoRun, NoJob)
<1> USE DispatchStrategiesAssumption
<1>1. NoRun \in Run
  BY DEF NoRun, NewRun, Run, Way
<1>2. NoJob \in Job
  BY DEF NoJob, NewJob, Job
<1>3. MostWindows("push", SessionCap) \in Nat
  BY MostWindowsNat DEF Way
<1>4. NoRun.conts = 0
  BY DEF NoRun, NewRun
<1>5. /\ NoJob.kind = "single" /\ NoJob.stage = "generate" /\ NoJob.extra = 0
  BY DEF NoJob, NewJob
<1>6. ExtraOK("idle", NoRun, NoJob)
  BY <1>3, <1>5 DEF ExtraOK, Dispatching
<1> QED
  BY <1>1, <1>2, <1>6 DEF Coherent, LoopOK, Dispatching, Answering, At

(* The end of a call keeps the invariant. *)
LEMMA DoneKeeps == ASSUME SInv, NEW c \in Strategist, Done(c) PROVE SInv'
BY AtRest, OneMoves DEF Done, Goto

(* So does the way from one dispatch of a call to its next stage. *)
LEMMA ProceedKeeps ==
    ASSUME SInv, NEW c \in Strategist,
           NEW l \in {"ready", "weigh", "evaluate"}, NEW j \in Job,
           ExtraOK(l, NoRun, j), Proceed(c, l, j)
    PROVE  SInv'
<1>1. Coherent(l, NoRun, j)
  BY AtRest DEF Coherent, LoopOK, Dispatching, Answering, At
<1> QED
  BY <1>1, OneMoves DEF Proceed, Goto

(* A dispatch that raises keeps the invariant, whatever call it is part of.*)
LEMMA RaiseKeeps ==
    ASSUME SInv, NEW c \in Strategist, at[c] \in Dispatching \cup {"ready"}, Raise(c)
    PROVE  SInv'
<1> DEFINE j == job[c]
<1> USE DispatchStrategiesAssumption
<1>1. j \in Job /\ ExtraOK(at[c], run[c], j)
  BY DEF SInv, Coherent, StrategiesTypeOK
<1>2. CASE Done(c)
  BY <1>2, DoneKeeps
<1>3. CASE j.kind = "agentic" /\ j.stage = "extend" /\ Proceed(c, "evaluate", j)
  <2>1. ExtraOK("evaluate", NoRun, j)
    BY <1>1, <1>3 DEF ExtraOK, Dispatching
  <2> QED
    BY <1>1, <1>3, <2>1, ProceedKeeps
<1>4. CASE j.kind = "batch" /\ j.left > 1 /\ Proceed(c, "ready", OneLess(j))
  <2>1. OneLess(j) \in Job
    BY <1>1, <1>4 DEF OneLess, Job
  <2>2. ExtraOK("ready", NoRun, OneLess(j))
    BY <1>1, <1>4 DEF ExtraOK, Dispatching, OneLess, Job
  <2> QED
    BY <1>4, <2>1, <2>2, ProceedKeeps
<1> QED
  BY <1>2, <1>3, <1>4 DEF Raise

(* So does one that returns.                                               *)
LEMMA FinishKeeps ==
    ASSUME SInv, NEW c \in Strategist, at[c] \in Dispatching \cup {"ready"},
           NEW n \in Nat,
           job[c].stage = "extend" => n <= MostWindows("push", SessionCap),
           Finish(c, n)
    PROVE  SInv'
<1> DEFINE j == job[c]
<1> USE DispatchStrategiesAssumption
<1>1. j \in Job /\ ExtraOK(at[c], run[c], j)
  BY DEF SInv, Coherent, StrategiesTypeOK
<1>m. MostWindows("push", SessionCap) \in Nat
  BY MostWindowsNat DEF Way
<1>2. CASE Done(c)
  BY <1>2, DoneKeeps
<1>3. CASE j.left > 1 /\ j.stage = "generate" /\ Proceed(c, "ready", OneLess(j))
  <2>1. OneLess(j) \in Job
    BY <1>1, <1>3 DEF OneLess, Job
  <2>2. ExtraOK("ready", NoRun, OneLess(j))
    BY <1>1, <1>3 DEF ExtraOK, Dispatching, OneLess, Job
  <2> QED
    BY <1>3, <2>1, <2>2, ProceedKeeps
<1>4. CASE j.kind = "agentic" /\ j.stage = "generate" /\ Proceed(c, "weigh", j)
  <2>1. ExtraOK("weigh", NoRun, j)
    BY <1>1, <1>4, <1>m DEF ExtraOK, Dispatching
  <2> QED
    BY <1>1, <1>4, <2>1, ProceedKeeps
<1>5. CASE j.kind = "agentic" /\ Proceed(c, "evaluate", j)
  <2>1. ExtraOK("evaluate", NoRun, j)
    BY <1>1, <1>5 DEF ExtraOK, Dispatching
  <2> QED
    BY <1>1, <1>5, <2>1, ProceedKeeps
<1>6. CASE /\ j.kind = "agentic" /\ j.stage = "extend"
           /\ Proceed(c, "weigh", [j EXCEPT !.extra = @ + n])
  <2> DEFINE k == [j EXCEPT !.extra = @ + n]
  <2>1. k \in Job
    BY <1>1, <1>6 DEF Job
  <2>2. /\ k.kind = j.kind /\ k.stage = j.stage /\ k.asked = j.asked
        /\ k.extra = j.extra + n
    BY <1>1 DEF Job
  <2>3. j.extra <= SessionCap /\ j.extra \in Nat
    BY <1>1, <1>6 DEF ExtraOK, Job
  <2>4. k.extra <= SessionCap + MostWindows("push", SessionCap)
    BY <1>6, <1>m, <2>2, <2>3
  <2>5. ExtraOK("weigh", NoRun, k)
    BY <1>1, <1>6, <1>m, <2>2, <2>3, <2>4 DEF ExtraOK, Dispatching
  <2> QED
    BY <1>6, <2>1, <2>5, ProceedKeeps
<1> QED
  BY <1>1, <1>2, <1>3, <1>4, <1>5, <1>6 DEF Finish, ExtraOK

(* A step within a dispatch, which keeps its variant and its cap.          *)
LEMMA RunMoves ==
    ASSUME SInv, NEW c \in Strategist, at[c] \in Dispatching,
           NEW l \in Dispatching, NEW r \in Run,
           r.way = run[c].way, r.cap = run[c].cap,
           l \in Answering => Final(r), LoopOK(l, r),
           at' = [at EXCEPT ![c] = l], run' = [run EXCEPT ![c] = r], job' = job
    PROVE  SInv'
<1>1. Coherent(at[c], run[c], job[c]) /\ job[c] \in Job
  BY DEF SInv, StrategiesTypeOK
<1>2. ExtraOK(l, r, job[c])
  BY <1>1 DEF Coherent, ExtraOK, Dispatching
<1>3. l \in At
  BY DEF Dispatching, At
<1>4. Coherent(l, r, job[c])
  BY <1>1, <1>2, <1>3 DEF Coherent, Dispatching
<1>5. job' = [job EXCEPT ![c] = job[c]]
  BY DEF SInv, StrategiesTypeOK
<1> QED
  BY <1>4, <1>5, OneMoves

(* The rounds of a dispatch, up to its first answer.                       *)
LEMMA RoundsKeep ==
    ASSUME SInv, NEW c \in Strategist,
           \/ Ask(c) \/ Answer(c) \/ UseTools(c) \/ Forced(c) \/ Refine(c)
           \/ Expand(c) \/ Inject(c) \/ Breaks(c)
    PROVE  SInv'
<1> USE DispatchStrategiesAssumption
<1>1. /\ run[c] \in Run /\ job[c] \in Job
      /\ Coherent(at[c], run[c], job[c])
      /\ run = [run EXCEPT ![c] = run[c]]
  BY DEF SInv, StrategiesTypeOK
<1>2. CASE Ask(c)
  <2>1. at[c] = "ask" /\ at' = [at EXCEPT ![c] = "call"] /\ run' = run /\ job' = job
    BY <1>2 DEF Ask, Goto
  <2>2. LoopOK("call", run[c])
    BY <1>1, <2>1 DEF Coherent, LoopOK
  <2> QED
    BY <1>1, <2>1, <2>2, RunMoves DEF Dispatching, Answering
<1> DEFINE answered == [run[c] EXCEPT !.pending = FALSE]
<1>r. answered \in Run
  BY <1>1 DEF Run
<1>p. answered.pending = FALSE
  BY <1>1 DEF Run
<1>3. /\ answered.way = run[c].way /\ answered.cap = run[c].cap
      /\ answered.conts = run[c].conts /\ answered.judged = run[c].judged
      /\ answered.thinking = run[c].thinking
  BY <1>1 DEF Run
<1>4. ASSUME at[c] \in {"call", "forced"}, run[c].way \in Judged,
             at' = [at EXCEPT ![c] = "judge"],
             run' = [run EXCEPT ![c] = answered], job' = job
      PROVE  SInv'
  <2>1. LoopOK("judge", answered)
    BY <1>1, <1>3, <1>4 DEF Coherent, LoopOK
  <2>2. Final(answered)
    BY <1>p DEF Final
  <2> QED
    BY <1>r, <1>3, <1>4, <2>1, <2>2, RunMoves DEF Dispatching, Answering
<1>5. CASE Answer(c)
  <2>1. /\ at[c] = "call" /\ job' = job
        /\ run' = [run EXCEPT ![c] = answered]
        /\ at' = [at EXCEPT ![c] = IF run[c].way \in Judged THEN "judge" ELSE "extract"]
    BY <1>5 DEF Answer, Goto
  <2>2. CASE run[c].way \in Judged
    BY <1>4, <2>1, <2>2
  <2>3. CASE run[c].way \notin Judged
    <3>1. answered.conts = 0 /\ MostWindows(answered.way, answered.cap) \in Nat
      BY <1>1, <1>3, <2>1, MostWindowsNat DEF Coherent, LoopOK, Run
    <3>2. LoopOK("extract", answered)
      BY <3>1 DEF LoopOK
    <3>3. Final(answered)
      BY <1>p DEF Final
    <3> QED
      BY <1>r, <1>3, <2>1, <2>3, <3>2, <3>3, RunMoves DEF Dispatching, Answering
  <2> QED
    BY <2>2, <2>3
<1> DEFINE n == run[c].rounds + 1
<1> DEFINE waiting == [run[c] EXCEPT !.rounds = n, !.pending = TRUE]
<1>w. waiting \in Run
  <2> DEFINE counted == [run[c] EXCEPT !.rounds = n]
  <2>1. counted \in Run
    BY <1>1 DEF Run
  <2>2. waiting = [counted EXCEPT !.pending = TRUE]
    OBVIOUS
  <2> HIDE DEF waiting, counted
  <2>3. [counted EXCEPT !.pending = TRUE] \in Run
    BY <2>1 DEF Run
  <2> QED
    BY <2>2, <2>3
<1>6. /\ waiting.way = run[c].way /\ waiting.cap = run[c].cap
      /\ waiting.conts = run[c].conts /\ waiting.judged = run[c].judged
      /\ waiting.thinking = run[c].thinking
  BY <1>1 DEF Run
<1>7. ASSUME at[c] = "call", NEW l \in {"ask", "forced"},
             l = "forced" => run[c].way = "tools",
             at' = [at EXCEPT ![c] = l],
             run' = [run EXCEPT ![c] = waiting], job' = job
      PROVE  SInv'
  <2>1. LoopOK(l, waiting)
    BY <1>1, <1>6, <1>7 DEF Coherent, LoopOK
  <2>2. at[c] \in Dispatching /\ l \in Dispatching /\ l \notin Answering
    BY <1>7 DEF Dispatching, Answering
  <2> HIDE DEF waiting, n
  <2> QED
    BY <1>w, <1>6, <1>7, <2>1, <2>2, RunMoves
<1>8. CASE UseTools(c)
  <2>1. /\ at[c] = "call" /\ job' = job /\ run[c].way = "tools"
        /\ run' = [run EXCEPT ![c] = waiting]
        /\ at' = [at EXCEPT ![c] = IF n > MaxRounds THEN "forced"
                                   ELSE IF n < MaxRounds + 1 THEN "ask" ELSE "judge"]
    BY <1>8 DEF UseTools, Goto
  <2>2. n > MaxRounds \/ n < MaxRounds + 1
    BY <1>1 DEF Run
  <2> QED
    BY <1>7, <2>1, <2>2
<1>9. CASE Inject(c)
  <2>1. /\ at[c] = "call" /\ job' = job /\ run[c].rounds < MaxRounds
        /\ run' = [run EXCEPT ![c] = waiting]
        /\ at' = [at EXCEPT ![c] = IF n <= MaxRounds THEN "ask" ELSE "judge"]
    BY <1>9 DEF Inject, Goto
  <2>2. n <= MaxRounds
    BY <1>1, <2>1 DEF Run
  <2> QED
    BY <1>7, <2>1, <2>2
<1>10. CASE Refine(c) \/ Expand(c)
  <2> DEFINE again == [run[c] EXCEPT !.rounds = @ + 1]
  <2>1. /\ at[c] = "call" /\ job' = job
        /\ run' = [run EXCEPT ![c] = again]
        /\ at' = [at EXCEPT ![c] = "ask"]
    BY <1>10 DEF Refine, Expand, AskAgain, Goto
  <2>2. /\ again \in Run /\ again.way = run[c].way /\ again.cap = run[c].cap
        /\ again.conts = run[c].conts /\ again.judged = run[c].judged
        /\ again.thinking = run[c].thinking
    BY <1>1 DEF Run
  <2>3. LoopOK("ask", again)
    BY <1>1, <2>1, <2>2 DEF Coherent, LoopOK
  <2> QED
    BY <2>1, <2>2, <2>3, RunMoves DEF Dispatching, Answering
<1>11. CASE Forced(c)
  <2>1. at[c] = "forced" /\ run[c].way \in Judged
    BY <1>1, <1>11 DEF Forced, Coherent, LoopOK, Judged
  <2>2. CASE Raise(c)
    BY <2>1, <2>2, RaiseKeeps DEF Dispatching
  <2> QED
    BY <1>11, <2>1, <2>2, <1>4 DEF Forced, Goto
<1>12. CASE Breaks(c)
  <2>1. at[c] = "call"
    BY <1>12 DEF Breaks
  <2>2. CASE run[c].way = "augmented"
    <3> DEFINE cut == [run[c] EXCEPT !.error = TRUE]
    <3>1. /\ at' = [at EXCEPT ![c] = "judge"] /\ job' = job
          /\ run' = [run EXCEPT ![c] = cut]
      BY <1>12, <2>2 DEF Breaks, Goto
    <3>2. cut \in Run
      BY <1>1 DEF Run
    <3>3. /\ cut.way = run[c].way /\ cut.cap = run[c].cap
          /\ cut.conts = run[c].conts /\ cut.judged = run[c].judged
          /\ cut.thinking = run[c].thinking /\ cut.error = TRUE
      BY <1>1 DEF Run
    <3> HIDE DEF cut
    <3>4. LoopOK("judge", cut)
      BY <1>1, <2>1, <2>2, <3>3 DEF Coherent, LoopOK, Judged
    <3>5. Final(cut)
      BY <2>2, <3>3 DEF Final
    <3> QED
      BY <2>1, <3>1, <3>2, <3>3, <3>4, <3>5, RunMoves DEF Dispatching
  <2>3. CASE run[c].way # "augmented"
    BY <1>12, <2>1, <2>3, RaiseKeeps DEF Breaks, Dispatching
  <2> QED
    BY <2>2, <2>3
<1> QED
  BY <1>2, <1>5, <1>8, <1>9, <1>10, <1>11, <1>12

(* The continuation loop of a dispatch, up to its report.                  *)
LEMMA LoopKeeps ==
    ASSUME SInv, NEW c \in Strategist,
           \/ Judge(c) \/ Open(c) \/ Window(c) \/ Segment(c) \/ Extract(c)
           \/ at[c] = "next" /\ Deadline(c)
    PROVE  SInv'
<1> USE DispatchStrategiesAssumption
<1> DEFINE r == run[c]
<1>1. /\ r \in Run /\ job[c] \in Job
      /\ Coherent(at[c], r, job[c])
      /\ run = [run EXCEPT ![c] = r]
  BY DEF SInv, StrategiesTypeOK
<1>2. /\ r.conts \in Nat /\ r.judged \in Nat /\ r.thinking \in Nat
      /\ r.cap \in Nat /\ r.way \in Way
  BY <1>1 DEF Run
<1>3. /\ LoopOK(at[c], r)
      /\ at[c] \in Answering => Final(r)
  BY <1>1 DEF Coherent
<1>4. ASSUME at[c] \in {"next", "window", "segment"},
             at' = [at EXCEPT ![c] = "extract"],
             NEW q \in Run, q.way = r.way, q.cap = r.cap, q.conts = r.conts,
             Final(q),
             run' = [run EXCEPT ![c] = q], job' = job
      PROVE  SInv'
  <2>1. q.conts <= MostWindows(q.way, q.cap)
    BY <1>2, <1>3, <1>4 DEF LoopOK, MostWindows, MaxThinking, Judged
  <2>2. LoopOK("extract", q)
    BY <2>1 DEF LoopOK
  <2> QED
    BY <1>4, <2>2, RunMoves DEF Dispatching
<1>5. CASE Judge(c)
  <2> DEFINE q == [r EXCEPT !.judged = r.judged + 1]
  <2>1. /\ at[c] = "judge" /\ job' = job
        /\ run' = [run EXCEPT ![c] = q]
        /\ \/ at' = [at EXCEPT ![c] = "extract"]
           \/ r.judged + 1 < r.cap /\ at' = [at EXCEPT ![c] = "next"]
    BY <1>5 DEF Judge, Goto
  <2>2. q \in Run
    BY <1>1, <1>2 DEF Run
  <2>3. /\ q.way = r.way /\ q.cap = r.cap /\ q.conts = r.conts
        /\ q.judged = r.judged + 1 /\ q.thinking = r.thinking
        /\ Final(r) => Final(q)
    BY <1>1 DEF Run, Final
  <2>4. CASE at' = [at EXCEPT ![c] = "extract"]
    <3>1. r.conts <= MostWindows(r.way, r.cap)
      BY <1>2, <1>3, <2>1 DEF LoopOK, MostWindows, MaxThinking, Judged
    <3>2. LoopOK("extract", q)
      BY <2>3, <3>1 DEF LoopOK
    <3> QED
      BY <1>3, <2>1, <2>2, <2>3, <2>4, <3>2, RunMoves DEF Dispatching, Answering
  <2>5. CASE r.judged + 1 < r.cap /\ at' = [at EXCEPT ![c] = "next"]
    <3>1. r.way \in Judged /\ r.thinking = 0
      BY <1>3, <2>1 DEF LoopOK
    <3>2. r.conts <= (IF r.way = "push" THEN 3 * r.judged ELSE r.judged)
      BY <1>3, <2>1 DEF LoopOK
    <3>3. ASSUME r.way = "push" PROVE LoopOK("next", q)
      <4>1. q.conts <= 3 * (q.judged - 1) + q.thinking
        BY <1>2, <2>3, <3>1, <3>2, <3>3
      <4>2. q.judged >= 1 /\ q.judged < q.cap /\ q.thinking = 0
        BY <1>2, <2>3, <2>5, <3>1
      <4> QED
        BY <2>3, <3>1, <3>3, <4>1, <4>2 DEF LoopOK
    <3>4. ASSUME r.way # "push" PROVE LoopOK("next", q)
      <4>1. q.conts + 1 <= q.judged
        BY <1>2, <2>3, <3>2, <3>4
      <4>2. q.judged >= 1 /\ q.judged < q.cap /\ q.thinking = 0
        BY <1>2, <2>3, <2>5, <3>1
      <4> QED
        BY <2>3, <3>1, <3>4, <4>1, <4>2 DEF LoopOK
    <3>5. LoopOK("next", q)
      BY <3>3, <3>4
    <3> QED
      BY <1>3, <2>1, <2>2, <2>3, <2>5, <3>5, RunMoves DEF Dispatching, Answering
  <2> QED
    BY <2>1, <2>4, <2>5
<1>6. CASE Open(c)
  <2> DEFINE q == [r EXCEPT !.conts = r.conts + 1]
  <2>1. /\ at[c] = "next" /\ job' = job
        /\ run' = [run EXCEPT ![c] = q]
        /\ at' = [at EXCEPT ![c] = IF r.way = "push" THEN "window"
                      ELSE IF r.conts + 1 > r.cap THEN "extract" ELSE "segment"]
    BY <1>6 DEF Open, Goto
  <2>2. q \in Run
    BY <1>1, <1>2 DEF Run
  <2>3. /\ q.way = r.way /\ q.cap = r.cap /\ q.conts = r.conts + 1
        /\ q.judged = r.judged /\ q.thinking = r.thinking
        /\ Final(r) => Final(q)
    BY <1>1 DEF Run, Final
  <2>4. r.way # "push" => ~(r.conts + 1 > r.cap)
    BY <1>2, <1>3, <2>1 DEF LoopOK
  <2>5. CASE r.way = "push"
    <3>1. LoopOK("window", q)
      BY <1>2, <1>3, <2>1, <2>3, <2>5 DEF LoopOK
    <3> QED
      BY <1>3, <2>1, <2>2, <2>3, <2>5, <3>1, RunMoves DEF Dispatching, Answering
  <2>6. CASE r.way # "push"
    <3>1. LoopOK("segment", q)
      BY <1>2, <1>3, <2>1, <2>3, <2>6 DEF LoopOK
    <3>2. at' = [at EXCEPT ![c] = "segment"]
      BY <1>2, <2>1, <2>4, <2>6
    <3> QED
      BY <1>3, <2>1, <2>2, <2>3, <3>1, <3>2, RunMoves DEF Dispatching, Answering
  <2> QED
    BY <2>5, <2>6
<1>7. CASE Window(c)
  <2>1. at[c] = "window" /\ job' = job /\ Final(r)
    BY <1>3, <1>7 DEF Window, Answering
  <2>2. CASE /\ run' = [run EXCEPT ![c].thinking = 0]
             /\ Goto(c, "judge")
    <3> DEFINE q == [r EXCEPT !.thinking = 0]
    <3>1. q \in Run
      BY <1>1 DEF Run
    <3>2. /\ q.way = r.way /\ q.cap = r.cap /\ q.conts = r.conts
          /\ q.judged = r.judged /\ q.thinking = 0
          /\ Final(r) => Final(q)
      BY <1>1 DEF Run, Final
    <3>3. LoopOK("judge", q)
      BY <1>2, <1>3, <2>1, <3>2 DEF LoopOK
    <3>4. run' = [run EXCEPT ![c] = q] /\ at' = [at EXCEPT ![c] = "judge"]
      BY <2>2 DEF Goto
    <3>5. Final(q)
      BY <2>1, <3>2
    <3> HIDE DEF q
    <3> QED
      BY <2>1, <3>1, <3>2, <3>3, <3>4, <3>5, RunMoves DEF Dispatching
  <2>3. CASE /\ run' = [run EXCEPT ![c].thinking = @ + 1]
             /\ Goto(c, IF r.thinking + 1 < MaxThinking THEN "next" ELSE "extract")
    <3> DEFINE q == [r EXCEPT !.thinking = r.thinking + 1]
    <3>1. q \in Run
      BY <1>1, <1>2 DEF Run
    <3>2. /\ q.way = r.way /\ q.cap = r.cap /\ q.conts = r.conts
          /\ q.judged = r.judged /\ q.thinking = r.thinking + 1
          /\ Final(r) => Final(q)
      BY <1>1 DEF Run, Final
    <3>3. run' = [run EXCEPT ![c] = q]
      BY <2>3
    <3>4. CASE r.thinking + 1 < 3
      <4>1. LoopOK("next", q)
        BY <1>2, <1>3, <2>1, <3>2, <3>4 DEF LoopOK
      <4>2. at' = [at EXCEPT ![c] = "next"]
        BY <2>3, <3>4 DEF Goto, MaxThinking
      <4> QED
        BY <2>1, <3>1, <3>2, <3>3, <4>1, <4>2, RunMoves DEF Dispatching
    <3>5. CASE ~(r.thinking + 1 < 3)
      <4>1. at' = [at EXCEPT ![c] = "extract"]
        BY <2>3, <3>5 DEF Goto, MaxThinking
      <4> QED
        BY <1>4, <2>1, <3>1, <3>2, <3>3, <4>1
    <3> QED
      BY <3>4, <3>5
  <2>4. CASE Goto(c, "extract") /\ UNCHANGED run
    BY <1>1, <1>4, <2>1, <2>4 DEF Goto
  <2> QED
    BY <1>7, <2>2, <2>3, <2>4 DEF Window
<1>8. CASE Segment(c)
  <2>1. /\ at[c] = "segment" /\ job' = job /\ run' = run /\ Final(r)
        /\ \/ at' = [at EXCEPT ![c] = "judge"]
           \/ at' = [at EXCEPT ![c] = "extract"]
    BY <1>3, <1>8 DEF Segment, Goto, Answering
  <2>2. LoopOK("judge", r)
    BY <1>2, <1>3, <2>1 DEF LoopOK
  <2>3. CASE at' = [at EXCEPT ![c] = "judge"]
    BY <1>1, <2>1, <2>2, <2>3, RunMoves DEF Dispatching
  <2>4. CASE at' = [at EXCEPT ![c] = "extract"]
    BY <1>1, <1>4, <2>1, <2>4
  <2> QED
    BY <2>1, <2>3, <2>4
<1>9. CASE Extract(c)
  <2> DEFINE n == Reported(r)
  <2>1. at[c] = "extract" /\ (Finish(c, n) \/ Raise(c))
    BY <1>9 DEF Extract
  <2>2. CASE Raise(c)
    BY <2>1, <2>2, RaiseKeeps DEF Dispatching
  <2>3. n \in Nat /\ n <= r.conts
    BY <1>2 DEF Reported
  <2>4. job[c].stage = "extend" => n <= MostWindows("push", SessionCap)
    <3> SUFFICES ASSUME job[c].stage = "extend"
                 PROVE  n <= MostWindows("push", SessionCap)
      OBVIOUS
    <3>1. /\ r.way = "push" /\ r.cap = Effective(job[c])
          /\ job[c].kind = "agentic"
      BY <1>1, <2>1 DEF Coherent, ExtraOK, Dispatching, Job
    <3>2. r.cap = SessionCap
      BY <3>1 DEF Effective
    <3>3. r.conts <= MostWindows(r.way, r.cap)
      BY <1>3, <2>1 DEF LoopOK
    <3>4. MostWindows("push", SessionCap) \in Nat
      BY MostWindowsNat DEF Way
    <3> HIDE DEF n
    <3> QED
      BY <1>2, <2>3, <3>1, <3>2, <3>3, <3>4
  <2> HIDE DEF n
  <2>5. CASE Finish(c, n)
    BY <2>1, <2>3, <2>4, <2>5, FinishKeeps DEF Dispatching
  <2> QED
    BY <2>1, <2>2, <2>5
<1>10. CASE at[c] = "next" /\ Deadline(c)
  <2>1. /\ at' = [at EXCEPT ![c] = "extract"] /\ run' = run /\ job' = job
        /\ Final(r)
    BY <1>3, <1>10 DEF Deadline, Goto, Answering
  <2> QED
    BY <1>1, <1>4, <1>10, <2>1
<1> QED
  BY <1>5, <1>6, <1>7, <1>8, <1>9, <1>10

(* The start of a call. *)
LEMMA SubmitKeeps ==
    ASSUME SInv, NEW c \in Strategist,
           NEW kind \in {"single", "batch", "agentic"},
           NEW asked \in CallCaps \cup {NoCap}, NEW n \in 1..MaxSteps,
           Submit(c, kind, asked, n)
    PROVE  SInv'
<1> USE DispatchStrategiesAssumption
<1>0. /\ Coherent(at[c], run[c], job[c])
      /\ run = [run EXCEPT ![c] = run[c]]
  BY DEF SInv, StrategiesTypeOK
<1>m. MostWindows("push", SessionCap) \in Nat
  BY MostWindowsNat DEF Way
<1> DEFINE j == NewJob(kind, asked, n)
<1>1. /\ at[c] = "idle" /\ at' = [at EXCEPT ![c] = "ready"] /\ run' = run
      /\ job' = [job EXCEPT ![c] = j]
  BY DEF Submit, Goto
<1>2. n \in Nat
  OBVIOUS
<1>3. j \in Job
  BY <1>2 DEF NewJob, Job
<1>4. ExtraOK("ready", NoRun, j)
  BY <1>m, <1>1 DEF ExtraOK, NewJob, Dispatching
<1>5. run' = [run EXCEPT ![c] = NoRun]
  BY <1>0, <1>1 DEF Coherent, Dispatching
<1> QED
  BY <1>1, <1>3, <1>4, <1>5, ProceedKeeps DEF Proceed, Goto

(* The start of the dispatches of a call, and what dispatch_agentic does   *)
(* around them.                                                            *)
LEMMA CallsKeep ==
    ASSUME SInv, NEW c \in Strategist,
           \/ Reject(c) \/ Cached(c) \/ Start(c) \/ Refused(c)
           \/ Weigh(c) \/ Evaluate(c)
           \/ at[c] = "weigh" /\ Deadline(c)
    PROVE  SInv'
<1> USE DispatchStrategiesAssumption
<1>1. /\ run[c] \in Run /\ job[c] \in Job
      /\ Coherent(at[c], run[c], job[c])
      /\ run = [run EXCEPT ![c] = run[c]]
      /\ job = [job EXCEPT ![c] = job[c]]
  BY DEF SInv, StrategiesTypeOK
<1>2. ExtraOK(at[c], run[c], job[c])
  BY <1>1 DEF Coherent
<1>m. MostWindows("push", SessionCap) \in Nat
  BY MostWindowsNat DEF Way
<1>idle. at[c] \notin Dispatching => run[c] = NoRun
  BY <1>1 DEF Coherent
<1>4. CASE Reject(c) \/ Refused(c)
  BY <1>4, RaiseKeeps DEF Reject, Refused, Dispatching
<1>5. CASE Cached(c)
  <2>1. PICK n \in 0..MostWindows("push", Effective(job[c])) : Finish(c, n)
    BY <1>5 DEF Cached
  <2>2. at[c] = "ready"
    BY <1>5 DEF Cached
  <2>3. Effective(job[c]) \in Nat
    BY <1>1 DEF Effective, Job
  <2>4. n \in Nat /\ n <= MostWindows("push", Effective(job[c]))
    BY <2>3, MostWindowsNat DEF Way
  <2>5. job[c].stage = "extend" => Effective(job[c]) = SessionCap
    BY <1>2 DEF ExtraOK, Effective
  <2> QED
    BY <2>1, <2>2, <2>4, <2>5, FinishKeeps
<1>6. CASE Start(c)
  <2>1. PICK way \in Ways(job[c]) :
           run' = [run EXCEPT ![c] = NewRun(way, Effective(job[c]))]
    BY <1>6 DEF Start
  <2> DEFINE r == NewRun(way, Effective(job[c]))
  <2>2. at[c] = "ready" /\ at' = [at EXCEPT ![c] = "ask"] /\ job' = job
    BY <1>6 DEF Start, Goto
  <2>3. way \in Way /\ (job[c].stage = "extend" => way = "push")
    BY <1>2 DEF Ways, ExtraOK, Way
  <2>4. Effective(job[c]) \in Nat
    BY <1>1 DEF Effective, Job
  <2>5. r \in Run
    BY <2>3, <2>4 DEF NewRun, Run
  <2>6. LoopOK("ask", r)
    BY DEF LoopOK, NewRun
  <2>7. ExtraOK("ask", r, job[c])
    BY <1>2, <2>2, <2>3 DEF ExtraOK, NewRun, Dispatching
  <2>8. Coherent("ask", r, job[c])
    BY <1>1, <2>5, <2>6, <2>7 DEF Coherent, Dispatching, Answering, At, NewRun
  <2> QED
    BY <1>1, <2>1, <2>2, <2>8, OneMoves
<1>7. CASE at[c] = "weigh" /\ Deadline(c)
  <2>1. ExtraOK("evaluate", NoRun, job[c])
    BY <1>2, <1>m, <1>7 DEF ExtraOK, Dispatching, Job
  <2>2. Proceed(c, "evaluate", job[c])
    BY <1>1, <1>7, <1>idle DEF Deadline, Goto, Proceed, Dispatching
  <2> QED
    BY <1>1, <2>1, <2>2, ProceedKeeps
<1>8. CASE Weigh(c)
  <2> DEFINE j == [job[c] EXCEPT !.weighed = @ + 1, !.stage = "extend"]
  <2> DEFINE k == [j EXCEPT !.extra = @ + 1]
  <2>1. /\ at[c] = "weigh"
        /\ \/ Proceed(c, "evaluate", j)
           \/ Proceed(c, IF j.extra + 1 > SessionCap THEN "evaluate" ELSE "ready", k)
    BY <1>8 DEF Weigh
  <2>2. job[c].extra \in Nat /\ job[c].weighed \in Nat
    BY <1>1 DEF Job
  <2>3. j \in Job
    <3> DEFINE counted == [job[c] EXCEPT !.weighed = @ + 1]
    <3>1. counted \in Job
      BY <1>1, <2>2 DEF Job
    <3>2. j = [counted EXCEPT !.stage = "extend"]
      OBVIOUS
    <3> HIDE DEF j, counted
    <3>3. [counted EXCEPT !.stage = "extend"] \in Job
      BY <3>1 DEF Job
    <3> QED
      BY <3>2, <3>3
  <2>4. /\ j.kind = "agentic" /\ j.stage = "extend"
        /\ j.extra = job[c].extra
        /\ j.extra <= SessionCap + MostWindows("push", SessionCap)
    BY <1>1, <1>2, <2>1 DEF ExtraOK, Job
  <2> HIDE DEF j
  <2>5. k \in Job
    BY <2>2, <2>3, <2>4 DEF Job
  <2>6. /\ k.kind = "agentic" /\ k.stage = "extend"
        /\ k.extra = j.extra + 1
    BY <2>3, <2>4 DEF Job
  <2> HIDE DEF k
  <2>7. CASE Proceed(c, "evaluate", j)
    <3>1. ExtraOK("evaluate", NoRun, j)
      BY <1>m, <2>2, <2>4 DEF ExtraOK, Dispatching
    <3> QED
      BY <2>3, <2>7, <3>1, ProceedKeeps
  <2>8. CASE j.extra + 1 > SessionCap /\ Proceed(c, "evaluate", k)
    <3>1. ExtraOK("evaluate", NoRun, k)
      BY <1>m, <2>2, <2>4, <2>6 DEF ExtraOK, Dispatching
    <3> QED
      BY <2>5, <2>8, <3>1, ProceedKeeps
  <2>9. CASE ~(j.extra + 1 > SessionCap) /\ Proceed(c, "ready", k)
    <3>1. ExtraOK("ready", NoRun, k)
      BY <1>m, <2>2, <2>4, <2>6, <2>9 DEF ExtraOK, Dispatching
    <3> QED
      BY <2>5, <2>9, <3>1, ProceedKeeps
  <2> QED
    BY <2>1, <2>7, <2>8, <2>9
<1>9. CASE Evaluate(c)
  <2> DEFINE j == [job[c] EXCEPT !.stage = "revise", !.revisions = @ + 1]
  <2>1. at[c] = "evaluate" /\ (Done(c) \/ Proceed(c, "ready", j))
    BY <1>9 DEF Evaluate
  <2>2. job[c].revisions \in Nat
    BY <1>1 DEF Job
  <2>3. j \in Job
    <3> DEFINE revising == [job[c] EXCEPT !.stage = "revise"]
    <3>1. revising \in Job /\ revising.revisions \in Nat
      BY <1>1, <2>2 DEF Job
    <3>2. j = [revising EXCEPT !.revisions = @ + 1]
      BY <1>1 DEF Job
    <3> HIDE DEF j, revising
    <3>3. [revising EXCEPT !.revisions = @ + 1] \in Job
      BY <3>1 DEF Job
    <3> QED
      BY <3>2, <3>3
  <2>4. /\ j.kind = job[c].kind /\ j.asked = job[c].asked /\ j.stage = "revise"
        /\ j.extra = job[c].extra
    BY <1>1 DEF Job
  <2> HIDE DEF j
  <2>5. ExtraOK("ready", NoRun, j)
    BY <1>2, <2>1, <2>4 DEF ExtraOK, Dispatching
  <2> QED
    BY <2>1, <2>3, <2>5, DoneKeeps, ProceedKeeps
<1> QED
  BY <1>4, <1>5, <1>6, <1>7, <1>8, <1>9

(* Nobody is dispatching in the beginning.                                 *)
LEMMA InitSInv == StrategiesInit => SInv
<1> SUFFICES ASSUME StrategiesInit PROVE SInv
  OBVIOUS
<1>1. StrategiesTypeOK
  BY AtRest DEF StrategiesInit, StrategiesTypeOK, At
<1>2. ASSUME NEW c \in Strategist PROVE Coherent(at[c], run[c], job[c])
  BY AtRest DEF StrategiesInit
<1> QED
  BY <1>1, <1>2 DEF SInv

(* Every step of every variant keeps its counters coherent with the loop   *)
(* it is in.                                                               *)
LEMMA NextSInv == SInv /\ [StrategiesNext]_allVars => SInv'
<1> SUFFICES ASSUME SInv, [StrategiesNext]_allVars PROVE SInv'
  OBVIOUS
<1>1. ASSUME UNCHANGED strategies PROVE SInv'
  BY <1>1 DEF strategies, SInv, StrategiesTypeOK, Coherent, LoopOK, ExtraOK,
              Final, MostWindows, Effective, NoRun, NewRun
<1>2. ASSUME NEW c \in Strategist, Step(c) PROVE SInv'
  <2>1. CASE \/ Ask(c) \/ Answer(c) \/ UseTools(c) \/ Forced(c) \/ Refine(c)
             \/ Expand(c) \/ Inject(c) \/ Breaks(c)
    BY <2>1, RoundsKeep
  <2>2. CASE Judge(c) \/ Open(c) \/ Window(c) \/ Segment(c) \/ Extract(c)
    BY <2>2, LoopKeeps
  <2>3. CASE \/ Reject(c) \/ Cached(c) \/ Start(c) \/ Refused(c)
             \/ Weigh(c) \/ Evaluate(c)
    <3> HIDE DEF Step
    <3>1. CASE Reject(c) \/ Cached(c) \/ Start(c)
      BY <3>1, CallsKeep
    <3>2. CASE Refused(c) \/ Weigh(c) \/ Evaluate(c)
      BY <3>2, CallsKeep
    <3> QED
      BY <2>3, <3>1, <3>2
  <2> QED
    BY <1>2, <2>1, <2>2, <2>3 DEF Step
<1>3. ASSUME NEW c \in Strategist, Deadline(c) PROVE SInv'
  BY <1>3, LoopKeeps, CallsKeep DEF Deadline
<1>4. ASSUME NEW c \in Strategist,
             \E kind \in {"single", "batch", "agentic"},
                asked \in CallCaps \cup {NoCap}, n \in 1..MaxSteps :
                Submit(c, kind, asked, n)
      PROVE  SInv'
  BY <1>4, SubmitKeeps
<1>5. ASSUME NEW c \in Caller \ Strategist, Free(c) PROVE SInv'
  BY <1>1, <1>5 DEF Free
<1> QED
  BY <1>1, <1>2, <1>3, <1>4, <1>5 DEF StrategiesNext, allVars

(* Every dispatch is coherent, always.                                     *)
THEOREM StrategiesInvariance == StrategiesSpec => []SInv
<1> QED
  BY InitSInv, NextSInv, PTL DEF StrategiesSpec

(* The caller's cap bounds the continuation windows of every dispatch but  *)
(* those of dispatch_agentic, which drops it; the session's cap bounds     *)
(* these and the windows dispatch_agentic adds, for any caps.              *)
THEOREM CapsAreKept == StrategiesSpec => []CapsHold
<1>1. SInv => CapsHold
  <2> SUFFICES ASSUME SInv, NEW c \in Strategist
               PROVE  /\ run[c].conts <= MostWindows(run[c].way, Promised(job[c]))
                      /\ job[c].extra <= SessionCap + 1 + MostWindows("push", SessionCap)
    BY DEF CapsHold
  <2> USE DispatchStrategiesAssumption
  <2>1. /\ Coherent(at[c], run[c], job[c]) /\ run[c] \in Run /\ job[c] \in Job
        /\ at[c] \in At
    BY DEF SInv, StrategiesTypeOK
  <2>2. Promised(job[c]) = Effective(job[c]) /\ Promised(job[c]) \in Nat
    BY <2>1 DEF Promised, Effective, Job
  <2>3. job[c].extra <= SessionCap + 1 + MostWindows("push", SessionCap)
    BY <2>1 DEF Coherent, ExtraOK
  <2>4. /\ run[c].conts \in Nat /\ run[c].judged \in Nat /\ run[c].thinking \in Nat
        /\ run[c].cap \in Nat /\ run[c].way \in Way
    BY <2>1 DEF Run
  <2>5. MostWindows(run[c].way, Promised(job[c])) \in Nat
    BY <2>2, <2>4, MostWindowsNat
  <2>6. CASE at[c] \notin Dispatching \/ at[c] \in {"ask", "call", "forced"}
    <3>1. run[c].conts = 0
      BY <2>1, <2>6 DEF Coherent, LoopOK, NoRun, NewRun
    <3> QED
      BY <2>3, <2>5, <3>1
  <2>7. CASE at[c] = "extract"
    BY <2>1, <2>2, <2>3, <2>7 DEF Coherent, LoopOK, Dispatching
  <2>8. CASE at[c] \in {"judge", "next", "window", "segment"}
    <3>1. LoopOK(at[c], run[c]) /\ run[c].cap = Promised(job[c])
      BY <2>1, <2>2, <2>8 DEF Coherent, Dispatching
    <3>2. run[c].conts <= MostWindows(run[c].way, run[c].cap)
      BY <2>4, <2>8, <3>1 DEF LoopOK, MostWindows, MaxThinking, Judged
    <3> QED
      BY <2>3, <3>1, <3>2
  <2> QED
    BY <2>6, <2>7, <2>8 DEF Dispatching
<1> QED
  BY <1>1, StrategiesInvariance, PTL

(* A dispatch judges, extends or stores a text behind which the model      *)
(* still waits for something only when it is augmented and its provider    *)
(* failed after an injection, for any bounds on rounds.                    *)
THEOREM AnswersFinal == StrategiesSpec => []AnswersAreFinal
<1>1. SInv => AnswersAreFinal
  BY DEF SInv, Coherent, Answering, Final, AnswersAreFinal
<1> QED
  BY <1>1, StrategiesInvariance, PTL

-----------------------------------------------------------------------------
(* How far a call is from its end.  The dispatches it may still make: the  *)
(* steps of a plan or the items of a batch, one for each window its own    *)
(* continuation loop may still ask for, one for each revision.             *)
DispatchesLeft(j) ==
    (IF j.stage = "generate" THEN j.left ELSE 0)
    + (IF j.stage = "revise" THEN 0 ELSE SessionCap + 1 - j.weighed)
    + (MaxRevisions - j.revisions)

(* Then where it stands between two of them.                               *)
Stage(l) == CASE l = "evaluate" -> 0 [] l = "weigh" -> 1 [] l = "ready" -> 3
              [] OTHER -> 2

Outer(l, j) == 4 * DispatchesLeft(j) + Stage(l)

(* Within a dispatch, the rounds and the windows it may still open, and    *)
(* the place in the present one.                                           *)
Spot(l) == CASE l = "extract" -> 1 [] l = "next" -> 2   [] l = "judge" -> 3
             [] l = "segment" -> 4 [] l = "window" -> 5 [] l = "forced" -> 6
             [] l = "call" -> 7    [] OTHER -> 8

Inner(l, r) == 10 * (MaxRounds + 1 - r.rounds + 3 * r.cap - r.conts) + Spot(l)

(* A call comes nearer to its end.                                         *)
Falls(l, r, j, l2, r2, j2) ==
    \/ l2 = "idle"
    \/ Outer(l2, j2) < Outer(l, j)
    \/ Outer(l2, j2) = Outer(l, j) /\ Inner(l2, r2) < Inner(l, r)

CallsRanked ==
    \A c \in Strategist : Outer(at[c], job[c]) \in Nat /\ Inner(at[c], run[c]) \in Nat

Descend ==
    \A c \in Strategist : at[c] # "idle" =>
        \/ Falls(at[c], run[c], job[c], at'[c], run'[c], job'[c])
        \/ UNCHANGED <<at[c], run[c], job[c]>> /\ ~(Step(c) \/ Deadline(c))

CallsDescend == [][Descend]_allVars

(* What the loop guards make of the counters that the caps do not bound.   *)
WithinBounds(l, r, j) ==
    /\ r.rounds <= MaxRounds + 1
    /\ l \in {"ask", "call"} => r.rounds <= MaxRounds
    /\ j.weighed <= SessionCap + 1
    /\ l # "evaluate" /\ j.stage # "revise" => j.weighed <= SessionCap
    /\ j.revisions <= MaxRevisions

AllWithin == \A c \in Strategist : WithinBounds(at[c], run[c], job[c])

Advances(c) == /\ WithinBounds(at'[c], run'[c], job'[c])
               /\ Falls(at[c], run[c], job[c], at'[c], run'[c], job'[c])

(* No dispatch opens more than three windows for each one its cap allows.  *)
LEMMA WindowsCapped ==
    ASSUME NEW l, NEW r, NEW j, Coherent(l, r, j)
    PROVE  r.conts <= 3 * r.cap
<1>1. /\ r.conts \in Nat /\ r.judged \in Nat /\ r.thinking \in Nat /\ r.cap \in Nat
      /\ l \in At
  BY DEF Coherent, Run
<1>2. CASE l \notin Dispatching
  BY <1>1, <1>2 DEF Coherent, NoRun, NewRun
<1>3. CASE l \in {"ask", "call", "forced"}
  BY <1>1, <1>3 DEF Coherent, LoopOK
<1>4. CASE l = "judge"
  BY <1>1, <1>4 DEF Coherent, LoopOK
<1>5. CASE l \in {"next", "window", "segment"}
  BY <1>1, <1>5 DEF Coherent, LoopOK
<1>6. CASE l = "extract"
  BY <1>1, <1>6 DEF Coherent, LoopOK, MostWindows, MaxThinking
<1> QED
  BY <1>2, <1>3, <1>4, <1>5, <1>6 DEF Dispatching

(* On to another stage of the call with fewer dispatches left, or further  *)
(* in the present one.                                                     *)
LEMMA ProceedAdvances ==
    ASSUME SInv, NEW c \in Strategist, NEW l \in {"ready", "weigh", "evaluate"},
           NEW j \in Job, Proceed(c, l, j),
           j.weighed <= SessionCap + 1, j.revisions <= MaxRevisions,
           l # "evaluate" /\ j.stage # "revise" => j.weighed <= SessionCap,
           Outer(l, j) < Outer(at[c], job[c])
    PROVE  Advances(c)
<1>1. at'[c] = l /\ run'[c] = NoRun /\ job'[c] = j
  BY DEF Proceed, Goto, SInv, StrategiesTypeOK
<1>2. NoRun.rounds = 0
  BY DEF NoRun, NewRun
<1> QED
  BY <1>1, <1>2, DispatchStrategiesAssumption DEF Advances, Falls, WithinBounds

(* The end of the call.                                                    *)
LEMMA DoneAdvances ==
    ASSUME SInv, NEW c \in Strategist, Done(c)
    PROVE  Advances(c)
<1>1. at'[c] = "idle" /\ run'[c] = NoRun /\ job'[c] = NoJob
  BY DEF Done, Goto, SInv, StrategiesTypeOK
<1>2. NoRun.rounds = 0 /\ NoJob.weighed = 0 /\ NoJob.revisions = 0
  BY DEF NoRun, NewRun, NoJob, NewJob
<1> QED
  BY <1>1, <1>2, DispatchStrategiesAssumption DEF Advances, Falls, WithinBounds

(* A dispatch that is over, however it ended, is one dispatch less, or the *)
(* call is behind it.                                                      *)
LEMMA EndAdvances ==
    ASSUME SInv, AllWithin, NEW c \in Strategist,
           at[c] \in Dispatching \cup {"ready"},
           Raise(c) \/ \E n \in Nat : Finish(c, n)
    PROVE  Advances(c)
<1> DEFINE j == job[c]
<1> USE DispatchStrategiesAssumption
<1>1. /\ j \in Job /\ ExtraOK(at[c], run[c], j)
      /\ WithinBounds(at[c], run[c], j)
  BY DEF SInv, Coherent, StrategiesTypeOK, AllWithin
<1>2. /\ j.left \in Nat /\ j.weighed \in Nat /\ j.revisions \in Nat /\ j.extra \in Nat
  BY <1>1 DEF Job
<1>3. Stage(at[c]) \in {2, 3}
  BY DEF Stage, Dispatching
<1>4. j.weighed <= SessionCap + 1 /\ j.revisions <= MaxRevisions
      /\ (j.stage # "revise" => j.weighed <= SessionCap)
  BY <1>1 DEF WithinBounds, Dispatching
<1>same. ASSUME NEW k \in Job, NEW l \in {"weigh", "evaluate"}, Proceed(c, l, k),
                k.stage = j.stage, k.left = j.left, k.weighed = j.weighed,
                k.revisions = j.revisions
         PROVE  Advances(c)
  <2>1. DispatchesLeft(k) = DispatchesLeft(j) /\ DispatchesLeft(j) \in Int
    BY <1>2, <1>same DEF DispatchesLeft
  <2>2. Stage(l) \in {0, 1}
    BY <1>same DEF Stage
  <2>3. Outer(l, k) < Outer(at[c], j)
    BY <1>3, <2>1, <2>2 DEF Outer
  <2> QED
    BY <1>4, <1>same, <2>3, ProceedAdvances
<1>less. ASSUME j.left > 1, j.stage = "generate", Proceed(c, "ready", OneLess(j))
         PROVE  Advances(c)
  <2> DEFINE k == OneLess(j)
  <2>1. k \in Job
    BY <1>1, <1>less DEF OneLess, Job
  <2>2. /\ k.left = j.left - 1 /\ k.stage = j.stage /\ k.weighed = j.weighed
        /\ k.revisions = j.revisions
    BY <1>1 DEF OneLess, Job
  <2>3. DispatchesLeft(k) = DispatchesLeft(j) - 1 /\ DispatchesLeft(j) \in Int
    BY <1>2, <1>less, <2>2 DEF DispatchesLeft
  <2>4. Outer("ready", k) < Outer(at[c], j)
    BY <1>3, <2>3 DEF Outer, Stage
  <2> HIDE DEF k
  <2> QED
    BY <1>4, <1>less, <2>1, <2>2, <2>4, ProceedAdvances DEF k
<1>5. CASE Raise(c)
  <2>1. j.kind # "agentic" => j.stage = "generate"
    BY <1>1 DEF ExtraOK
  <2> QED
    BY <1>1, <1>5, <1>same, <1>less, <2>1, DoneAdvances DEF Raise
<1>6. ASSUME NEW n \in Nat, Finish(c, n) PROVE Advances(c)
  <2>1. j.kind # "agentic" => j.stage = "generate"
    BY <1>1 DEF ExtraOK
  <2> DEFINE k == [j EXCEPT !.extra = @ + n]
  <2>2. CASE j.kind = "agentic" /\ j.stage = "extend" /\ Proceed(c, "weigh", k)
    <3>1. /\ k \in Job /\ k.stage = j.stage /\ k.left = j.left
          /\ k.weighed = j.weighed /\ k.revisions = j.revisions
      BY <1>1, <1>2 DEF Job
    <3> HIDE DEF k
    <3> QED
      BY <1>same, <2>2, <3>1
  <2> QED
    BY <1>1, <1>6, <1>same, <1>less, <2>1, <2>2, DoneAdvances DEF Finish
<1> QED
  BY <1>5, <1>6

(* A step within a dispatch that leaves it fewer rounds or windows, or     *)
(* takes it further in the present one.                                    *)
LEMMA RunAdvances ==
    ASSUME SInv, AllWithin, NEW c \in Strategist, at[c] \in Dispatching,
           NEW l \in Dispatching, NEW r,
           at'[c] = l, run'[c] = r, job'[c] = job[c],
           r.cap = run[c].cap, r.rounds <= MaxRounds + 1,
           l \in {"ask", "call"} => r.rounds <= MaxRounds,
           \/ /\ r.rounds = run[c].rounds /\ r.conts = run[c].conts
              /\ Spot(l) < Spot(at[c])
           \/ /\ r.rounds = run[c].rounds + 1 /\ r.conts = run[c].conts
              /\ Spot(l) < Spot(at[c]) + 10
           \/ /\ r.rounds = run[c].rounds /\ r.conts = run[c].conts + 1
              /\ Spot(l) < Spot(at[c]) + 10
    PROVE  Advances(c)
<1> USE DispatchStrategiesAssumption
<1>2. /\ run[c] \in Run /\ WithinBounds(at[c], run[c], job[c])
  BY DEF SInv, StrategiesTypeOK, AllWithin
<1>3. /\ run[c].rounds \in Nat /\ run[c].conts \in Nat /\ run[c].cap \in Nat
  BY <1>2 DEF Run
<1>4. Outer(l, job[c]) = Outer(at[c], job[c])
  BY DEF Outer, Stage, Dispatching
<1>5. Spot(l) \in Nat /\ Spot(at[c]) \in Nat
  BY DEF Spot
<1>6. Inner(l, r) < Inner(at[c], run[c])
  BY <1>3, <1>5 DEF Inner
<1>7. WithinBounds(l, r, job[c])
  BY <1>2 DEF WithinBounds, Dispatching
<1> QED
  BY <1>4, <1>6, <1>7 DEF Advances, Falls

(* The rounds of a dispatch are counted up to their bound, and lead on to  *)
(* its one answer.                                                         *)
LEMMA RoundsAdvance ==
    ASSUME SInv, AllWithin, NEW c \in Strategist,
           \/ Ask(c) \/ Answer(c) \/ UseTools(c) \/ Forced(c) \/ Refine(c)
           \/ Expand(c) \/ Inject(c) \/ Breaks(c)
    PROVE  Advances(c)
<1> USE DispatchStrategiesAssumption
<1> DEFINE r == run[c]
<1>1. /\ at \in [Strategist -> At] /\ run \in [Strategist -> Run]
      /\ job \in [Strategist -> Job] /\ r \in Run
  BY DEF SInv, StrategiesTypeOK
<1>2. /\ r.rounds \in Nat /\ r.rounds <= MaxRounds + 1
      /\ at[c] \in {"ask", "call"} => r.rounds <= MaxRounds
  BY <1>1 DEF AllWithin, WithinBounds, Run
<1>3. /\ Spot("extract") = 1 /\ Spot("judge") = 3 /\ Spot("forced") = 6
      /\ Spot("call") = 7 /\ Spot("ask") = 8
  BY DEF Spot
<1> DEFINE answered == [r EXCEPT !.pending = FALSE]
           waiting == [r EXCEPT !.rounds = r.rounds + 1, !.pending = TRUE]
           again == [r EXCEPT !.rounds = @ + 1]
<1>4. /\ answered.cap = r.cap /\ answered.rounds = r.rounds /\ answered.conts = r.conts
      /\ waiting.cap = r.cap /\ waiting.rounds = r.rounds + 1
      /\ waiting.conts = r.conts
      /\ again.cap = r.cap /\ again.rounds = r.rounds + 1 /\ again.conts = r.conts
  BY <1>1 DEF Run
<1>5. CASE Ask(c)
  <2>1. at[c] = "ask" /\ at'[c] = "call" /\ run'[c] = r /\ job'[c] = job[c]
    BY <1>1, <1>5 DEF Ask, Goto
  <2> QED
    BY <1>2, <1>3, <2>1, RunAdvances DEF Dispatching
<1>answers. ASSUME at[c] \in {"call", "forced"}, at'[c] \in {"judge", "extract"},
                   run'[c] = answered, job'[c] = job[c]
            PROVE  Advances(c)
  <2> HIDE DEF answered
  <2> QED
    BY <1>2, <1>3, <1>4, <1>answers, RunAdvances DEF Dispatching
<1>6. CASE Answer(c)
  <2>1. /\ at[c] = "call" /\ at'[c] \in {"judge", "extract"}
        /\ run'[c] = answered /\ job'[c] = job[c]
    BY <1>1, <1>6 DEF Answer, Goto
  <2> QED
    BY <1>answers, <2>1
<1>waits. ASSUME at[c] = "call", at'[c] \in {"ask", "forced"},
                 at'[c] = "ask" => r.rounds < MaxRounds,
                 run'[c] \in {waiting, again}, job'[c] = job[c]
          PROVE  Advances(c)
  <2> HIDE DEF waiting, again
  <2>1. PICK q \in {waiting, again} : run'[c] = q
    BY <1>waits
  <2>2. q.cap = r.cap /\ q.rounds = r.rounds + 1 /\ q.conts = r.conts
    BY <1>4
  <2>3. q.rounds <= MaxRounds + 1 /\ (at'[c] = "ask" => q.rounds <= MaxRounds)
    BY <1>2, <1>waits, <2>2
  <2> QED
    BY <1>3, <1>waits, <2>1, <2>2, <2>3, RunAdvances DEF Dispatching
<1>7. CASE UseTools(c)
  <2>1. /\ at[c] = "call" /\ run'[c] = waiting /\ job'[c] = job[c]
        /\ at'[c] = IF r.rounds + 1 > MaxRounds THEN "forced"
                    ELSE IF r.rounds + 1 < MaxRounds + 1 THEN "ask" ELSE "judge"
    BY <1>1, <1>7 DEF UseTools, Goto
  <2>2. at'[c] \in {"ask", "forced"} /\ (at'[c] = "ask" => r.rounds < MaxRounds)
    BY <1>2, <2>1
  <2> QED
    BY <1>waits, <2>1, <2>2
<1>8. CASE Inject(c)
  <2>1. /\ at[c] = "call" /\ run'[c] = waiting /\ job'[c] = job[c]
        /\ r.rounds < MaxRounds
        /\ at'[c] = IF r.rounds + 1 <= MaxRounds THEN "ask" ELSE "judge"
    BY <1>1, <1>8 DEF Inject, Goto
  <2>2. at'[c] = "ask"
    BY <1>2, <2>1
  <2> QED
    BY <1>waits, <2>1, <2>2
<1>9. CASE Refine(c) \/ Expand(c)
  <2>1. /\ at[c] = "call" /\ run'[c] = again /\ job'[c] = job[c]
        /\ r.rounds < MaxRounds /\ at'[c] = "ask"
    BY <1>1, <1>2, <1>9 DEF Refine, Expand, AskAgain, Goto
  <2> QED
    BY <1>waits, <2>1
<1>10. CASE Forced(c)
  <2>1. \/ Raise(c)
        \/ at'[c] = "judge" /\ run'[c] = answered /\ job'[c] = job[c]
    BY <1>1, <1>10 DEF Forced, Goto
  <2>2. at[c] = "forced"
    BY <1>10 DEF Forced
  <2> QED
    BY <1>answers, <2>1, <2>2, EndAdvances DEF Dispatching
<1>11. CASE Breaks(c)
  <2> DEFINE cut == [r EXCEPT !.error = TRUE]
  <2>1. \/ Raise(c)
        \/ at'[c] = "judge" /\ run'[c] = cut /\ job'[c] = job[c]
    BY <1>1, <1>11 DEF Breaks, Goto
  <2>2. at[c] = "call"
    BY <1>11 DEF Breaks
  <2>3. cut.cap = r.cap /\ cut.rounds = r.rounds /\ cut.conts = r.conts
    BY <1>1 DEF Run
  <2> HIDE DEF cut
  <2>4. CASE at'[c] = "judge" /\ run'[c] = cut /\ job'[c] = job[c]
    BY <1>2, <1>3, <2>2, <2>3, <2>4, RunAdvances DEF Dispatching
  <2> QED
    BY <2>1, <2>2, <2>4, EndAdvances DEF Dispatching
<1> QED
  BY <1>5, <1>6, <1>7, <1>8, <1>9, <1>10, <1>11

(* So does the continuation loop, whatever the provider writes.            *)
LEMMA LoopAdvances ==
    ASSUME SInv, AllWithin, NEW c \in Strategist,
           \/ Judge(c) \/ Open(c) \/ Window(c) \/ Segment(c) \/ Extract(c)
           \/ at[c] = "next" /\ Deadline(c)
    PROVE  Advances(c)
<1> USE DispatchStrategiesAssumption
<1> DEFINE r == run[c]
<1>1. /\ at \in [Strategist -> At] /\ run \in [Strategist -> Run]
      /\ job \in [Strategist -> Job] /\ r \in Run
  BY DEF SInv, StrategiesTypeOK
<1>2. r.rounds \in Nat /\ r.rounds <= MaxRounds + 1 /\ r.conts \in Nat
  BY <1>1 DEF AllWithin, WithinBounds, Run
<1>3. /\ Spot("extract") = 1 /\ Spot("next") = 2 /\ Spot("judge") = 3
      /\ Spot("segment") = 4 /\ Spot("window") = 5
  BY DEF Spot
<1>further. ASSUME at[c] \in Answering, at'[c] \in Answering,
                   Spot(at'[c]) < Spot(at[c]),
                   run'[c].cap = r.cap, run'[c].rounds = r.rounds,
                   run'[c].conts = r.conts, job'[c] = job[c]
            PROVE  Advances(c)
  BY <1>2, <1>further, RunAdvances DEF Dispatching, Answering
<1>4. CASE Judge(c)
  <2>1. /\ at[c] = "judge" /\ at'[c] \in {"extract", "next"} /\ job'[c] = job[c]
        /\ run'[c] = [r EXCEPT !.judged = r.judged + 1]
    BY <1>1, <1>4 DEF Judge, Goto
  <2>2. /\ run'[c].cap = r.cap /\ run'[c].rounds = r.rounds
        /\ run'[c].conts = r.conts
    BY <1>1, <2>1 DEF Run
  <2> QED
    BY <1>3, <1>further, <2>1, <2>2 DEF Answering
<1>5. CASE Open(c)
  <2>1. /\ at[c] = "next" /\ at'[c] \in {"window", "extract", "segment"}
        /\ job'[c] = job[c]
        /\ run'[c] = [r EXCEPT !.conts = r.conts + 1]
    BY <1>1, <1>5 DEF Open, Goto
  <2>2. /\ run'[c].cap = r.cap /\ run'[c].rounds = r.rounds
        /\ run'[c].conts = r.conts + 1
    BY <1>1, <2>1 DEF Run
  <2>3. Spot(at'[c]) < Spot(at[c]) + 10
    BY <1>3, <2>1
  <2> QED
    BY <1>2, <2>1, <2>2, <2>3, RunAdvances DEF Dispatching
<1>6. CASE Window(c)
  <2>1. /\ at[c] = "window" /\ at'[c] \in {"judge", "next", "extract"}
        /\ job'[c] = job[c]
        /\ \/ run'[c] = [r EXCEPT !.thinking = 0]
           \/ run'[c] = [r EXCEPT !.thinking = r.thinking + 1]
           \/ run'[c] = r
    BY <1>1, <1>6 DEF Window, Goto
  <2>2. /\ run'[c].cap = r.cap /\ run'[c].rounds = r.rounds
        /\ run'[c].conts = r.conts
    BY <1>1, <2>1 DEF Run
  <2> QED
    BY <1>3, <1>further, <2>1, <2>2 DEF Answering
<1>7. CASE Segment(c) \/ (at[c] = "next" /\ Deadline(c))
  <2>1. /\ \/ at[c] = "segment" /\ at'[c] \in {"judge", "extract"}
           \/ at[c] = "next" /\ at'[c] = "extract"
        /\ run'[c] = r /\ job'[c] = job[c]
    BY <1>1, <1>7 DEF Segment, Deadline, Goto
  <2> QED
    BY <1>3, <1>further, <2>1 DEF Answering
<1>8. CASE Extract(c)
  <2>1. at[c] = "extract" /\ Reported(r) \in Nat
    BY <1>2, <1>8 DEF Extract, Reported
  <2> QED
    BY <1>8, <2>1, EndAdvances DEF Extract, Dispatching
<1> QED
  BY <1>4, <1>5, <1>6, <1>7, <1>8
(* And so does what stands around the dispatches: dispatch_agentic counts  *)
(* each window it asks for and each revision.                              *)
LEMMA AroundAdvances ==
    ASSUME SInv, AllWithin, NEW c \in Strategist,
           \/ Reject(c) \/ Cached(c) \/ Start(c) \/ Refused(c)
           \/ Weigh(c) \/ Evaluate(c)
           \/ at[c] = "weigh" /\ Deadline(c)
    PROVE  Advances(c)
<1> USE DispatchStrategiesAssumption
<1> DEFINE j == job[c]
<1>1. /\ at \in [Strategist -> At] /\ run \in [Strategist -> Run]
      /\ job \in [Strategist -> Job] /\ j \in Job
      /\ Coherent(at[c], run[c], j)
  BY DEF SInv, StrategiesTypeOK
<1>2. /\ j.left \in Nat /\ j.weighed \in Nat /\ j.revisions \in Nat /\ j.extra \in Nat
  BY <1>1 DEF Job
<1>3. WithinBounds(at[c], run[c], j)
  BY DEF AllWithin
<1>4. /\ Stage("evaluate") = 0 /\ Stage("weigh") = 1 /\ Stage("ask") = 2
      /\ Stage("ready") = 3
  BY DEF Stage
<1>5. DispatchesLeft(j) \in Int
  BY <1>2 DEF DispatchesLeft
<1>6. CASE Reject(c) \/ Refused(c)
  BY <1>6, EndAdvances DEF Reject, Refused, Dispatching
<1>7. CASE Cached(c)
  <2>1. PICK n \in 0..MostWindows("push", Effective(j)) : Finish(c, n)
    BY <1>7 DEF Cached
  <2>2. Effective(j) \in Nat
    BY <1>1 DEF Effective, Job
  <2>3. n \in Nat
    BY <2>2, MostWindowsNat DEF Way
  <2> QED
    BY <1>7, <2>1, <2>3, EndAdvances DEF Cached
<1>8. CASE Start(c)
  <2>1. /\ at[c] = "ready" /\ at'[c] = "ask" /\ job'[c] = j
        /\ run'[c].rounds = 0
    BY <1>1, <1>8 DEF Start, Goto, NewRun
  <2>2. Outer("ask", j) < Outer("ready", j)
    BY <1>4, <1>5 DEF Outer
  <2>3. WithinBounds("ask", run'[c], j)
    BY <1>3, <2>1 DEF WithinBounds
  <2> QED
    BY <2>1, <2>2, <2>3 DEF Advances, Falls
<1>9. CASE at[c] = "weigh" /\ Deadline(c)
  <2>1. at'[c] = "evaluate" /\ job'[c] = j /\ run'[c] = run[c]
    BY <1>1, <1>9 DEF Deadline, Goto
  <2>2. Outer("evaluate", j) < Outer("weigh", j)
    BY <1>4, <1>5 DEF Outer
  <2>3. WithinBounds("evaluate", run[c], j)
    BY <1>3 DEF WithinBounds
  <2> QED
    BY <1>9, <2>1, <2>2, <2>3 DEF Advances, Falls
<1>10. CASE Weigh(c)
  <2> DEFINE k == [j EXCEPT !.weighed = @ + 1, !.stage = "extend"]
  <2> DEFINE m == [k EXCEPT !.extra = @ + 1]
  <2>1. /\ at[c] = "weigh"
        /\ \/ Proceed(c, "evaluate", k)
           \/ k.weighed < SessionCap
              /\ \/ Proceed(c, "evaluate", m)
                 \/ Proceed(c, "ready", m)
    BY <1>10 DEF Weigh
  <2>2. j.stage \in {"generate", "extend"} /\ j.weighed <= SessionCap
    BY <1>1, <1>3, <2>1 DEF Coherent, ExtraOK, WithinBounds
  <2>3. ASSUME NEW x \in Job, x.stage = "extend", x.weighed = j.weighed + 1,
               x.left = j.left, x.revisions = j.revisions,
               NEW l \in {"ready", "evaluate"}, Proceed(c, l, x),
               l = "ready" => x.weighed < SessionCap
        PROVE  Advances(c)
    <3>1. DispatchesLeft(x) <= DispatchesLeft(j) - 1
      <4>1. DispatchesLeft(x) = SessionCap + 1 - (j.weighed + 1)
                                 + (MaxRevisions - j.revisions)
        BY <1>2, <2>3 DEF DispatchesLeft
      <4>2. DispatchesLeft(j) >= SessionCap + 1 - j.weighed
                                  + (MaxRevisions - j.revisions)
        BY <1>2, <2>2 DEF DispatchesLeft
      <4> QED
        BY <1>2, <1>5, <4>1, <4>2
    <3>2. DispatchesLeft(x) \in Int
      BY <1>2, <2>3 DEF DispatchesLeft
    <3>3. Stage(l) \in {0, 3}
      BY <1>4, <2>3
    <3>4. Outer(l, x) < Outer(at[c], j)
      BY <1>4, <1>5, <2>1, <3>1, <3>2, <3>3 DEF Outer
    <3>5. x.weighed <= SessionCap + 1 /\ x.revisions <= MaxRevisions
      BY <1>2, <1>3, <2>2, <2>3 DEF WithinBounds
    <3>6. l # "evaluate" => x.weighed <= SessionCap
      BY <1>2, <2>3
    <3> QED
      BY <2>3, <3>4, <3>5, <3>6, ProceedAdvances
  <2>4. k \in Job
    <3> DEFINE counted == [j EXCEPT !.weighed = @ + 1]
    <3>1. counted \in Job
      BY <1>1, <1>2 DEF Job
    <3>2. k = [counted EXCEPT !.stage = "extend"]
      OBVIOUS
    <3> HIDE DEF k, counted
    <3>3. [counted EXCEPT !.stage = "extend"] \in Job
      BY <3>1 DEF Job
    <3> QED
      BY <3>2, <3>3
  <2>5. /\ k.stage = "extend" /\ k.weighed = j.weighed + 1 /\ k.left = j.left
        /\ k.revisions = j.revisions /\ k.extra = j.extra
    BY <1>1 DEF Job
  <2> HIDE DEF k
  <2>6. /\ m \in Job /\ m.stage = "extend" /\ m.weighed = k.weighed
        /\ m.left = k.left /\ m.revisions = k.revisions
    BY <1>2, <2>4, <2>5 DEF Job
  <2> HIDE DEF m
  <2> QED
    BY <2>1, <2>3, <2>4, <2>5, <2>6
<1>11. CASE Evaluate(c)
  <2> DEFINE k == [j EXCEPT !.stage = "revise", !.revisions = @ + 1]
  <2>1. /\ at[c] = "evaluate"
        /\ Done(c) \/ (j.revisions < MaxRevisions /\ Proceed(c, "ready", k))
    BY <1>11 DEF Evaluate
  <2>2. k \in Job
    <3> DEFINE revising == [j EXCEPT !.stage = "revise"]
    <3>1. revising \in Job /\ revising.revisions \in Nat
      BY <1>1, <1>2 DEF Job
    <3>2. k = [revising EXCEPT !.revisions = @ + 1]
      BY <1>1 DEF Job
    <3> HIDE DEF k, revising
    <3>3. [revising EXCEPT !.revisions = @ + 1] \in Job
      BY <3>1 DEF Job
    <3> QED
      BY <3>2, <3>3
  <2>3. /\ k.stage = "revise" /\ k.revisions = j.revisions + 1
        /\ k.weighed = j.weighed
    BY <1>1 DEF Job
  <2> HIDE DEF k
  <2>4. ASSUME j.revisions < MaxRevisions, Proceed(c, "ready", k)
        PROVE  Advances(c)
    <3>1. DispatchesLeft(k) = MaxRevisions - (j.revisions + 1)
      BY <1>2, <2>3 DEF DispatchesLeft
    <3>2. DispatchesLeft(j) >= MaxRevisions - j.revisions
      BY <1>2, <1>3 DEF DispatchesLeft, WithinBounds
    <3>3. Outer("ready", k) < Outer(at[c], j)
      BY <1>2, <1>4, <1>5, <2>1, <3>1, <3>2 DEF Outer
    <3>4. k.revisions <= MaxRevisions /\ k.weighed <= SessionCap + 1
      BY <1>2, <1>3, <2>3, <2>4 DEF WithinBounds
    <3> QED
      BY <2>2, <2>3, <2>4, <3>3, <3>4, ProceedAdvances
  <2> QED
    BY <2>1, <2>4, DoneAdvances
<1> QED
  BY <1>6, <1>7, <1>8, <1>9, <1>10, <1>11

(* Every step of a call advances it.                                       *)
LEMMA StepAdvances ==
    ASSUME SInv, AllWithin, NEW c \in Strategist, Step(c) \/ Deadline(c)
    PROVE  Advances(c)
<1>1. CASE \/ Ask(c) \/ Answer(c) \/ UseTools(c) \/ Forced(c) \/ Refine(c)
           \/ Expand(c) \/ Inject(c) \/ Breaks(c)
  BY <1>1, RoundsAdvance
<1>2. CASE \/ Judge(c) \/ Open(c) \/ Window(c) \/ Segment(c) \/ Extract(c)
           \/ at[c] = "next" /\ Deadline(c)
  BY <1>2, LoopAdvances
<1>3. CASE \/ Reject(c) \/ Cached(c) \/ Start(c) \/ Refused(c)
           \/ Weigh(c) \/ Evaluate(c)
           \/ at[c] = "weigh" /\ Deadline(c)
  BY <1>3, AroundAdvances
<1>4. Deadline(c) => at[c] \in {"next", "weigh"}
  BY DEF Deadline
<1> HIDE DEF Step, Deadline
<1> QED
  BY <1>1, <1>2, <1>3, <1>4 DEF Step

(* A step of one call does not touch another.                              *)
LEMMA OthersStay ==
    ASSUME SInv, NEW c \in Strategist, NEW d \in Strategist, c # d,
           Step(d) \/ Deadline(d)
    PROVE  UNCHANGED <<at[c], run[c], job[c]>>
<1>1. /\ at \in [Strategist -> At] /\ run \in [Strategist -> Run]
      /\ job \in [Strategist -> Job]
  BY DEF SInv, StrategiesTypeOK
<1> USE DEF Goto
<1>2. Raise(d) => UNCHANGED <<at[c], run[c], job[c]>>
  BY <1>1 DEF Raise, Proceed, Done
<1>3. \A n : Finish(d, n) => UNCHANGED <<at[c], run[c], job[c]>>
  BY <1>1 DEF Finish, Proceed, Done
<1>4. CASE Reject(d) \/ Cached(d) \/ Start(d) \/ Ask(d) \/ Refused(d)
  BY <1>1, <1>2, <1>3, <1>4 DEF Reject, Cached, Start, Ask, Refused
<1>5. CASE Answer(d) \/ UseTools(d) \/ Forced(d) \/ Refine(d) \/ Expand(d)
  BY <1>1, <1>2, <1>5 DEF Answer, UseTools, Forced, Refine, Expand, AskAgain
<1>6. CASE Inject(d) \/ Breaks(d) \/ Judge(d) \/ Open(d)
  BY <1>1, <1>2, <1>6 DEF Inject, Breaks, Judge, Open
<1>7. CASE Window(d) \/ Segment(d) \/ Extract(d) \/ Deadline(d)
  BY <1>1, <1>2, <1>3, <1>7 DEF Window, Segment, Extract, Deadline
<1>8. CASE Weigh(d) \/ Evaluate(d)
  BY <1>1, <1>8 DEF Weigh, Evaluate, Proceed, Done
<1> QED
  BY <1>4, <1>5, <1>6, <1>7, <1>8 DEF Step

(* The bounds on rounds, windows of dispatch_agentic and revisions are     *)
(* kept by every step.                                                     *)
LEMMA NextWithin == SInv /\ AllWithin /\ [StrategiesNext]_allVars => AllWithin'
<1> USE DispatchStrategiesAssumption
<1> SUFFICES ASSUME SInv, AllWithin, [StrategiesNext]_allVars, NEW c \in Strategist
             PROVE  WithinBounds(at'[c], run'[c], job'[c])
  BY DEF AllWithin, WithinBounds
<1>0. WithinBounds(at[c], run[c], job[c])
  BY DEF AllWithin
<1>1. ASSUME UNCHANGED <<at[c], run[c], job[c]>>
      PROVE  WithinBounds(at'[c], run'[c], job'[c])
  BY <1>0, <1>1
<1>2. CASE UNCHANGED strategies \/ UNCHANGED allVars
  BY <1>1, <1>2 DEF strategies, allVars
<1>3. ASSUME NEW d \in Strategist, Step(d) \/ Deadline(d)
      PROVE  WithinBounds(at'[c], run'[c], job'[c])
  <2>1. CASE d = c
    BY <1>3, <2>1, StepAdvances DEF Advances
  <2>2. CASE d # c
    BY <1>1, <1>3, <2>2, OthersStay
  <2> QED
    BY <2>1, <2>2
<1>4. ASSUME NEW d \in Strategist, NEW kind \in {"single", "batch", "agentic"},
             NEW asked \in CallCaps \cup {NoCap}, NEW n \in 1..MaxSteps,
             Submit(d, kind, asked, n)
      PROVE  WithinBounds(at'[c], run'[c], job'[c])
  <2>1. /\ at \in [Strategist -> At] /\ job \in [Strategist -> Job]
        /\ Coherent(at[d], run[d], job[d])
    BY DEF SInv, StrategiesTypeOK
  <2>2. CASE d # c
    BY <1>1, <1>4, <2>1, <2>2 DEF Submit, Goto
  <2>3. CASE d = c
    <3>1. /\ at[c] = "idle" /\ at'[c] = "ready" /\ run'[c] = run[c]
          /\ job'[c] = NewJob(kind, asked, n)
      BY <1>4, <2>1, <2>3 DEF Submit, Goto
    <3>2. run[c].rounds = 0
      BY <2>1, <2>3, <3>1 DEF Coherent, Dispatching, NoRun, NewRun
    <3>3. NewJob(kind, asked, n).weighed = 0 /\ NewJob(kind, asked, n).revisions = 0
      BY DEF NewJob
    <3> QED
      BY <3>1, <3>2, <3>3 DEF WithinBounds
  <2> QED
    BY <2>2, <2>3
<1>5. ASSUME NEW d \in Caller \ Strategist, Free(d)
      PROVE  WithinBounds(at'[c], run'[c], job'[c])
  BY <1>2, <1>5 DEF Free
<1> QED
  BY <1>2, <1>3, <1>4, <1>5 DEF StrategiesNext

(* They hold, always.                                                      *)
LEMMA AlwaysWithin == StrategiesSpec => []AllWithin
<1>1. StrategiesInit => AllWithin
  <2> SUFFICES ASSUME StrategiesInit, NEW c \in Strategist
               PROVE  WithinBounds(at[c], run[c], job[c])
    BY DEF AllWithin
  <2>1. at[c] = "idle" /\ run[c] = NoRun /\ job[c] = NoJob
    BY DEF StrategiesInit
  <2> QED
    BY <2>1, DispatchStrategiesAssumption
       DEF WithinBounds, NoRun, NewRun, NoJob, NewJob
<1> QED
  BY <1>1, NextWithin, StrategiesInvariance, PTL DEF StrategiesSpec

(* Each step of a call of any variant, dispatch_timeout included, ends the *)
(* call or lowers a pair of natural numbers in lexicographic order, and no *)
(* step of another caller or of the breaker raises it: the rounds, windows,*)
(* steps and revisions cannot feed each other for ever, whatever the       *)
(* models answer (dispatch_router.py:2602-4605, 4717-4745).                *)
THEOREM StrategiesWindDown == StrategiesSpec => []CallsRanked /\ CallsDescend
<1> USE DispatchStrategiesAssumption
<1>1. SInv /\ AllWithin => CallsRanked
  <2> SUFFICES ASSUME SInv, AllWithin, NEW c \in Strategist
               PROVE  Outer(at[c], job[c]) \in Nat /\ Inner(at[c], run[c]) \in Nat
    BY DEF CallsRanked
  <2> DEFINE j == job[c]
             r == run[c]
  <2>1. /\ j \in Job /\ r \in Run /\ Coherent(at[c], r, j)
        /\ WithinBounds(at[c], r, j)
    BY DEF SInv, StrategiesTypeOK, AllWithin
  <2>2. /\ j.left \in Nat /\ j.weighed \in Nat /\ j.revisions \in Nat
        /\ r.rounds \in Nat /\ r.conts \in Nat /\ r.cap \in Nat
    BY <2>1 DEF Job, Run
  <2>3. /\ j.weighed <= SessionCap + 1 /\ j.revisions <= MaxRevisions
        /\ r.rounds <= MaxRounds + 1
    BY <2>1 DEF WithinBounds
  <2>4. r.conts <= 3 * r.cap
    BY <2>1, WindowsCapped
  <2>5. DispatchesLeft(j) \in Nat
    BY <2>2, <2>3 DEF DispatchesLeft
  <2>6. Stage(at[c]) \in Nat /\ Spot(at[c]) \in Nat
    BY DEF Stage, Spot
  <2>7. Outer(at[c], j) \in Nat
    BY <2>5, <2>6 DEF Outer
  <2>8. Inner(at[c], r) \in Nat
    BY <2>2, <2>3, <2>4, <2>6 DEF Inner
  <2> QED
    BY <2>7, <2>8
<1>2. SInv /\ AllWithin /\ [StrategiesNext]_allVars => [Descend]_allVars
  <2> SUFFICES ASSUME SInv, AllWithin, StrategiesNext, NEW c \in Strategist,
                      at[c] # "idle", ~(Step(c) \/ Deadline(c))
               PROVE  UNCHANGED <<at[c], run[c], job[c]>>
    BY StepAdvances DEF Advances, Descend
  <2>1. ASSUME NEW d \in Strategist, Step(d) \/ Deadline(d)
        PROVE  UNCHANGED <<at[c], run[c], job[c]>>
    BY <2>1, OthersStay
  <2>2. ASSUME NEW d \in Strategist, NEW kind, NEW asked, NEW n,
               Submit(d, kind, asked, n)
        PROVE  UNCHANGED <<at[c], run[c], job[c]>>
    BY <2>2 DEF Submit, Goto, SInv, StrategiesTypeOK
  <2>3. ASSUME UNCHANGED strategies
        PROVE  UNCHANGED <<at[c], run[c], job[c]>>
    BY <2>3 DEF strategies
  <2> QED
    BY <2>1, <2>2, <2>3 DEF StrategiesNext, Free
<1> QED
  BY <1>1, <1>2, StrategiesInvariance, AlwaysWithin, PTL
     DEF StrategiesSpec, CallsDescend
=============================================================================
