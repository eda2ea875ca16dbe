---------------------------- MODULE CircuitBreaker ----------------------------
(***************************************************************************)
(* The circuit breaker around the LLM provider                             *)
(* (crp/core/circuit_breaker.py) and the calls of the dispatch variants    *)
(* that ask it first and report their outcome later                        *)
(* (crp/core/dispatch_router.py).  Only dispatch() itself holds the        *)
(* session lock: the streaming, tool and reflexive variants run side by    *)
(* side, so an outcome may arrive long after the breaker changed state.    *)
(* Both counters are only compared with their threshold and saturate       *)
(* there.  Elapsed time is the flag ripe: recovery_timeout has passed      *)
(* since the last failure.                                                 *)
(***************************************************************************)
EXTENDS Integers, FiniteSets

CONSTANTS Caller,            \* threads that call the provider
          FailureThreshold,  \* consecutive failures that trip the breaker
          SuccessThreshold,  \* successes in HALF_OPEN that close it
          Abandons           \* whether a call may end without an outcome

ASSUME CircuitBreakerAssumption ==
    /\ FailureThreshold \in Nat \ {0}
    /\ SuccessThreshold \in Nat \ {0}
    /\ Abandons \in BOOLEAN

VARIABLES
    state,      \* _state
    failures,   \* _failure_count
    successes,  \* _success_count
    probing,    \* _half_open_probing
    ripe,       \* recovery_timeout has elapsed since _last_failure_time
    calling,    \* callers with a provider call under way
    probes,     \* those of them that were let through as the probe
    healthy,    \* the provider has recovered for good
    good        \* successes recorded since the last failure (history)

breaker == <<state, failures, successes, probing>>
vars == <<state, failures, successes, probing, ripe, calling, probes,
          healthy, good>>

State == {"CLOSED", "OPEN", "HALF_OPEN"}

UpTo(n, bound) == IF n < bound THEN n ELSE bound

TypeOK ==
    /\ state \in State
    /\ failures \in 0..FailureThreshold
    /\ successes \in 0..SuccessThreshold
    /\ probing \in BOOLEAN
    /\ ripe \in BOOLEAN
    /\ calling \subseteq Caller
    /\ probes \subseteq calling
    /\ healthy \in BOOLEAN
    /\ good \in 0..SuccessThreshold
    /\ state = "CLOSED" => failures < FailureThreshold
    /\ state = "HALF_OPEN" => successes < SuccessThreshold

Init ==
    /\ state = "CLOSED"
    /\ failures = 0
    /\ successes = 0
    /\ probing = FALSE
    /\ ripe = TRUE
    /\ calling = {}
    /\ probes = {}
    /\ healthy = FALSE
    /\ good = 0

-----------------------------------------------------------------------------
(* OPEN -> HALF_OPEN, in allow_request() and in the property state. *)
Mut_HalfOpen ==
    /\ state = "OPEN" /\ ripe
    /\ UNCHANGED successes

HalfOpen ==
    /\ state = "OPEN" /\ ripe
    /\ successes' = 0

(* allow_request() returning True: on a closed breaker, or as the probe of *)
(* a half-open one.                                                        *)
AdmitClosed(c) ==
    /\ c \notin calling
    /\ state = "CLOSED"
    /\ calling' = calling \cup {c}
    /\ UNCHANGED <<breaker, ripe, probes, healthy, good>>

Mut_AdmitProbe(c) ==
    /\ c \notin calling
    /\ HalfOpen
    /\ state' = "HALF_OPEN"
    /\ probing' = TRUE
    /\ calling' = calling \cup {c}
    /\ probes' = probes \cup {c}
    /\ UNCHANGED <<failures, ripe, healthy, good>>

AdmitProbe(c) ==
    /\ c \notin calling
    /\ \/ HalfOpen
       \/ state = "HALF_OPEN" /\ ~probing /\ UNCHANGED successes
    /\ state' = "HALF_OPEN"
    /\ probing' = TRUE
    /\ calling' = calling \cup {c}
    /\ probes' = probes \cup {c}
    /\ UNCHANGED <<failures, ripe, healthy, good>>

(* The property state is read, which may find the timeout elapsed. *)
Poll ==
    /\ HalfOpen
    /\ state' = "HALF_OPEN"
    /\ probing' = FALSE
    /\ UNCHANGED <<failures, ripe, calling, probes, healthy, good>>

(* record_success() *)
RecordSuccess ==
    IF state = "HALF_OPEN"
    THEN /\ successes' = successes + 1
         /\ probing' = FALSE
         /\ IF successes' >= SuccessThreshold
            THEN state' = "CLOSED" /\ failures' = 0
            ELSE UNCHANGED <<state, failures>>
    ELSE failures' = 0 /\ UNCHANGED <<state, successes, probing>>

(* record_failure() *)
RecordFailure ==
    /\ failures' = UpTo(failures + 1, FailureThreshold)
    /\ IF state = "HALF_OPEN"
       THEN state' = "OPEN" /\ probing' = FALSE
       ELSE /\ state' = IF failures' >= FailureThreshold THEN "OPEN" ELSE state
            /\ UNCHANGED probing
    /\ UNCHANGED successes

(* The next window of a dispatch that has been let through already: a      *)
(* segment of a stream or a continuation window reports its outcome, but   *)
(* does not ask.                                                           *)
Continue(c) ==
    /\ c \notin calling
    /\ calling' = calling \cup {c}
    /\ UNCHANGED <<breaker, ripe, probes, healthy, good>>

(* A provider call succeeds. *)
Succeed(c) ==
    /\ c \in calling
    /\ RecordSuccess
    /\ calling' = calling \ {c}
    /\ probes' = probes \ {c}
    /\ good' = UpTo(good + 1, SuccessThreshold)
    /\ UNCHANGED <<ripe, healthy>>

Fail(c) ==
    /\ ~healthy
    /\ c \in calling
    /\ RecordFailure
    /\ calling' = calling \ {c}
    /\ probes' = probes \ {c}
    /\ ripe' = FALSE
    /\ good' = 0
    /\ UNCHANGED healthy

(* A call ends without any outcome: the consumer of a stream drops the     *)
(* generator, or dispatch_stream_augmented leaves its stream to restart it *)
(* with new facts.                                                         *)
Abandon(c) ==
    /\ Abandons
    /\ c \in calling
    /\ calling' = calling \ {c}
    /\ probes' = probes \ {c}
    /\ UNCHANGED <<breaker, ripe, healthy, good>>

(* reset() *)
Reset ==
    /\ state' = "CLOSED"
    /\ failures' = 0
    /\ successes' = 0
    /\ probing' = FALSE
    /\ UNCHANGED <<ripe, calling, probes, healthy, good>>

(* The recovery timeout runs out. *)
Elapse ==
    /\ ~ripe
    /\ ripe' = TRUE
    /\ UNCHANGED <<breaker, calling, probes, healthy, good>>

(* The provider recovers. *)
Heal ==
    /\ ~healthy
    /\ healthy' = TRUE
    /\ UNCHANGED <<breaker, ripe, calling, probes, good>>

Admit(c) == AdmitClosed(c) \/ AdmitProbe(c)

Next ==
    \/ \E c \in Caller :
          Admit(c) \/ Continue(c) \/ Succeed(c) \/ Fail(c) \/ Abandon(c)
    \/ Poll \/ Reset \/ Elapse \/ Heal

Spec == Init /\ [][Next]_vars

(* The application keeps dispatching and a dispatch has finitely many      *)
(* windows, so that time after time one asks; calls come to their end,     *)
(* time passes, and nobody has to call reset().                            *)
Fairness ==
    /\ \A c \in Caller : SF_vars(AdmitProbe(c)) /\ WF_vars(Succeed(c))
    /\ WF_vars(Elapse)

FairSpec == Spec /\ Fairness

-----------------------------------------------------------------------------
(* The flag that turns every caller away in HALF_OPEN, with no probe under *)
(* way that would clear it.                                                *)
Orphaned == state = "HALF_OPEN" /\ probing /\ probes = {}

(* Only a call that ends without an outcome leaves such a flag behind.     *)
OnlyAbandoningOrphans ==
    [][~Orphaned /\ Orphaned' => \E c \in Caller : Abandon(c)]_vars

(* "successes in HALF_OPEN to close": a recovery is never declared on      *)
(* fewer successes in a row than success_threshold, however old outcomes   *)
(* mix with new ones.                                                      *)
RecoveryIsProven ==
    [][state = "HALF_OPEN" /\ state' = "CLOSED" /\ good' # good
         => good' = SuccessThreshold]_vars

(* Once the provider has recovered, the breaker closes, however late the   *)
(* outcomes of old calls are, unless its probe was abandoned.              *)
RecoversUnlessOrphaned == healthy ~> state = "CLOSED" \/ Orphaned
=============================================================================
