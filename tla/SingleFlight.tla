---------------------------- MODULE SingleFlight ----------------------------
(***************************************************************************)
(* CRPOrchestrator.dispatch() and the RequestDeduplicator behind it        *)
(* (crp/core/dispatch_router.py, crp/core/idempotency.py).  Threads call   *)
(* dispatch() with a request key.  A result cache answers a key that was   *)
(* dispatched before; a table of claims makes one thread the owner of a    *)
(* key while the others (its followers) wait for the owner's event; the    *)
(* session lock serialises the provider calls.                             *)
(*                                                                         *)
(* Every step below is one critical section of the deduplicator's write    *)
(* lock, or one step of dispatch() between two of them.  An Event is named *)
(* by the thread that created it: a thread owns at most one at a time, and *)
(* setting the event clears it from every follower that holds it.          *)
(***************************************************************************)
EXTENDS Integers, FiniteSets

CONSTANTS Thread,    \* the threads that call dispatch()
          Key,       \* idempotency keys
          None,      \* no thread, no key
          MaxCache,  \* max_cache_size
          MaxCalls,  \* bound on the number of dispatch() calls
          Faults     \* what may go wrong, a subset of FaultKinds

FaultKinds == {"refused",      \* _dispatch_locked raises before the provider
               "provider",     \* the provider call raises
               "expiry",       \* cached results outlive their TTL
               "waitTimeout",  \* a follower's event.wait runs out
               "lockTimeout",  \* check() or store() cannot take the write lock
               "invalidate",   \* somebody calls invalidate() or clear()
               "unkeyed",      \* kill switch, or no key can be computed
               "close"}        \* the session is closed

ASSUME SingleFlightAssumption ==
    /\ None \notin Thread \cup Key
    /\ IsFiniteSet(Key)
    /\ MaxCache \in Nat \ {0}
    /\ MaxCalls \in Nat
    /\ Faults \subseteq FaultKinds

VARIABLES
    created,  \* created[k]: when the cached result of k was stored, 0 if none
    clock,    \* the latest created_at handed out
    horizon,  \* every result created at or before it has expired
    claim,    \* _inflight: the owner whose event is registered for a key
    awaits,   \* awaits[t]: the unset event t waits on, by its creator
    pc,       \* where each thread is in dispatch()
    key,      \* the key each thread dispatches, None without one
    owners,   \* the threads whose local variable owner is True
    lock,     \* the holder of the session lock
    closed,   \* _closed
    calls     \* dispatch() calls begun so far

cacheVars == <<created, clock, horizon>>
sessionVars == <<lock, closed>>
vars == <<created, clock, horizon, claim, awaits, pc, key, owners, lock,
          closed, calls>>

PC == {"idle", "check", "acquire", "waiting", "recheck", "reacquire",
       "queued", "locked", "provider", "store", "drop", "signal"}

(* Where a call without a key, or no call at all, can be. *)
Unkeyed == {"idle", "queued", "locked", "provider"}

Cached == {k \in Key : created[k] # 0}
Fresh(k) == created[k] > horizon

TypeOK ==
    /\ created \in [Key -> Nat]
    /\ clock \in Nat
    /\ horizon \in Nat
    /\ claim \in [Key -> Thread \cup {None}]
    /\ awaits \in [Thread -> Thread \cup {None}]
    /\ pc \in [Thread -> PC]
    /\ key \in [Thread -> Key \cup {None}]
    /\ owners \subseteq Thread
    /\ lock \in Thread \cup {None}
    /\ closed \in BOOLEAN
    /\ calls \in Nat
    /\ horizon <= clock
    /\ \A t \in Thread :
          key[t] = None => t \notin owners /\ pc[t] \in Unkeyed

Init ==
    /\ created = [k \in Key |-> 0]
    /\ clock = 0
    /\ horizon = 0
    /\ claim = [k \in Key |-> None]
    /\ awaits = [t \in Thread |-> None]
    /\ pc = [t \in Thread |-> "idle"]
    /\ key = [t \in Thread |-> None]
    /\ owners = {}
    /\ lock = None
    /\ closed = FALSE
    /\ calls = 0

-----------------------------------------------------------------------------
(* The steps of dispatch(). *)

Goto(t, l) == pc' = [pc EXCEPT ![t] = l]

(* compute_key succeeded: the call consults the deduplicator. *)
Begin(t, k) ==
    /\ pc[t] = "idle"
    /\ calls < MaxCalls
    /\ calls' = calls + 1
    /\ key' = [key EXCEPT ![t] = k]
    /\ Goto(t, "check")
    /\ UNCHANGED <<cacheVars, claim, awaits, owners, sessionVars>>

(* No deduplicator, or no key: straight to the session lock.  So it is, as *)
(* far as this deduplicator goes, for a first call whose own another first *)
(* call replaced: _get_deduplicator() makes one without a lock.            *)
BeginUnkeyed(t) ==
    /\ "unkeyed" \in Faults
    /\ pc[t] = "idle"
    /\ calls < MaxCalls
    /\ calls' = calls + 1
    /\ key' = [key EXCEPT ![t] = None]
    /\ Goto(t, "queued")
    /\ UNCHANGED <<cacheVars, claim, awaits, owners, sessionVars>>

(* The caller has its answer, and forgets the key. *)
Return(t) ==
    /\ Goto(t, "idle")
    /\ key' = [key EXCEPT ![t] = None]

(* check(): an expired entry is deleted on sight; when the write lock      *)
(* cannot be had in time, the lookup counts as a miss and changes nothing. *)
Hit(t) ==
    /\ Fresh(key[t])
    /\ Return(t)
    /\ UNCHANGED created

Miss(t, next) ==
    /\ \/ /\ ~Fresh(key[t])
          /\ created' = [created EXCEPT ![key[t]] = 0]
       \/ /\ "lockTimeout" \in Faults
          /\ UNCHANGED created
    /\ Goto(t, next)
    /\ UNCHANGED key

Lookup(t, next) ==
    /\ Hit(t) \/ Miss(t, next)
    /\ UNCHANGED <<clock, horizon, claim, awaits, owners, sessionVars, calls>>

Check(t) == pc[t] = "check" /\ Lookup(t, "acquire")

Recheck(t) == pc[t] = "recheck" /\ Lookup(t, "reacquire")

(* acquire_inflight() on a key nobody has claimed: a new event. *)
Mut_Claim(t) ==
    /\ pc[t] \in {"acquire", "reacquire"}
    /\ pc[t] = "acquire" => claim[key[t]] = None
    /\ claim' = [claim EXCEPT ![key[t]] = t]
    /\ owners' = owners \cup {t}
    /\ Goto(t, "queued")
    /\ UNCHANGED <<cacheVars, awaits, key, sessionVars, calls>>

Claim(t) ==
    /\ pc[t] \in {"acquire", "reacquire"}
    /\ claim[key[t]] = None
    /\ claim' = [claim EXCEPT ![key[t]] = t]
    /\ owners' = owners \cup {t}
    /\ Goto(t, "queued")
    /\ UNCHANGED <<cacheVars, awaits, key, sessionVars, calls>>

(* acquire_inflight() on a claimed key: the owner's event. *)
Follow(t) ==
    /\ pc[t] = "acquire"
    /\ claim[key[t]] # None
    /\ awaits' = [awaits EXCEPT ![t] = claim[key[t]]]
    /\ Goto(t, "waiting")
    /\ UNCHANGED <<cacheVars, claim, key, owners, sessionVars, calls>>

(* event.wait(): TRUE once the event is set, or FALSE after wait_s. *)
Wake(t) ==
    /\ pc[t] = "waiting"
    /\ awaits[t] = None
    /\ Goto(t, "recheck")
    /\ UNCHANGED <<cacheVars, claim, awaits, key, owners, sessionVars, calls>>

GiveUpWaiting(t) ==
    /\ "waitTimeout" \in Faults
    /\ pc[t] = "waiting"
    /\ awaits[t] # None
    /\ awaits' = [awaits EXCEPT ![t] = None]
    /\ Goto(t, "reacquire")
    /\ UNCHANGED <<cacheVars, claim, key, owners, sessionVars, calls>>

(* The second acquire_inflight() may again find another owner: its event   *)
(* is dropped and the call dispatches without the claim.                   *)
GoWithoutClaim(t) ==
    /\ pc[t] = "reacquire"
    /\ claim[key[t]] # None
    /\ Goto(t, "queued")
    /\ UNCHANGED <<cacheVars, claim, awaits, key, owners, sessionVars, calls>>

(* with self._lock *)
EnterSession(t) ==
    /\ pc[t] = "queued"
    /\ lock = None
    /\ lock' = t
    /\ Goto(t, "locked")
    /\ UNCHANGED <<cacheVars, claim, awaits, key, owners, closed, calls>>

(* The checks of _dispatch_locked pass and the provider is called. *)
CallProvider(t) ==
    /\ pc[t] = "locked"
    /\ ~closed
    /\ Goto(t, "provider")
    /\ UNCHANGED <<cacheVars, claim, awaits, key, owners, sessionVars, calls>>

(* Leaving the session lock with an exception: the finally clause of an    *)
(* owner drops the claim, any other call just raises to its caller.        *)
Mut_LeaveUnreleased(t) ==
    /\ lock' = None
    /\ Return(t)
    /\ owners' = owners \ {t}
    /\ UNCHANGED <<cacheVars, claim, awaits, closed, calls>>

LeaveFailed(t) ==
    /\ lock' = None
    /\ IF t \in owners THEN Goto(t, "drop") /\ UNCHANGED key ELSE Return(t)
    /\ UNCHANGED <<cacheVars, claim, awaits, owners, closed, calls>>

(* _check_session raises on a closed session; consent, budget, RBAC or     *)
(* validation may refuse the request.                                      *)
Refuse(t) ==
    /\ pc[t] = "locked"
    /\ closed \/ "refused" \in Faults
    /\ LeaveFailed(t)

ProviderFails(t) ==
    /\ "provider" \in Faults
    /\ pc[t] = "provider"
    /\ LeaveFailed(t)

ProviderAnswers(t) ==
    /\ pc[t] = "provider"
    /\ lock' = None
    /\ IF t \in owners THEN Goto(t, "store") /\ UNCHANGED key ELSE Return(t)
    /\ UNCHANGED <<cacheVars, claim, awaits, owners, closed, calls>>

(* store(): at capacity the expired entries go, then the oldest one, even  *)
(* when the key to store is already cached.                                *)
Oldest(S) == CHOOSE k \in S : \A l \in S : created[k] <= created[l]

Survivors ==
    LET live == IF Cardinality(Cached) >= MaxCache
                THEN {k \in Cached : Fresh(k)} ELSE Cached
    IN  IF Cardinality(live) >= MaxCache THEN live \ {Oldest(live)} ELSE live

Store(t) ==
    /\ pc[t] = "store"
    /\ clock' = clock + 1
    /\ created' = [k \in Key |-> IF k = key[t] THEN clock'
                                 ELSE IF k \in Survivors THEN created[k] ELSE 0]
    /\ Goto(t, "drop")
    /\ UNCHANGED <<horizon, claim, awaits, key, owners, sessionVars, calls>>

SkipStore(t) ==
    /\ "lockTimeout" \in Faults
    /\ pc[t] = "store"
    /\ Goto(t, "drop")
    /\ UNCHANGED <<cacheVars, claim, awaits, key, owners, sessionVars, calls>>

(* release_inflight(): the claim goes under the write lock, the event is   *)
(* set after it.                                                           *)
DropClaim(t) ==
    /\ pc[t] = "drop"
    /\ claim' = [k \in Key |-> IF k = key[t] /\ claim[k] = t
                               THEN None ELSE claim[k]]
    /\ Goto(t, "signal")
    /\ UNCHANGED <<cacheVars, awaits, key, owners, sessionVars, calls>>

Mut_SetEvent(t) ==
    /\ pc[t] = "signal"
    /\ owners' = owners \ {t}
    /\ Return(t)
    /\ UNCHANGED <<cacheVars, claim, awaits, sessionVars, calls>>

SetEvent(t) ==
    /\ pc[t] = "signal"
    /\ awaits' = [u \in Thread |-> IF awaits[u] = t THEN None ELSE awaits[u]]
    /\ owners' = owners \ {t}
    /\ Return(t)
    /\ UNCHANGED <<cacheVars, claim, sessionVars, calls>>

-----------------------------------------------------------------------------
(* What happens around dispatch(). *)

(* Time passes: the results stored longest ago expire. *)
Tick ==
    /\ "expiry" \in Faults
    /\ horizon < clock
    /\ horizon' = horizon + 1
    /\ UNCHANGED <<created, clock, claim, awaits, pc, key, owners, sessionVars,
                   calls>>

Invalidate(k) ==
    /\ "invalidate" \in Faults
    /\ created[k] # 0
    /\ created' = [created EXCEPT ![k] = 0]
    /\ UNCHANGED <<clock, horizon, claim, awaits, pc, key, owners, sessionVars,
                   calls>>

Clear ==
    /\ "invalidate" \in Faults
    /\ Cached # {}
    /\ created' = [k \in Key |-> 0]
    /\ UNCHANGED <<clock, horizon, claim, awaits, pc, key, owners, sessionVars,
                   calls>>

(* close(): _close_locked runs to its end under the session lock. *)
Mut_Close ==
    /\ "close" \in Faults
    /\ ~closed
    /\ closed' = TRUE
    /\ UNCHANGED <<cacheVars, claim, awaits, pc, key, owners, lock, calls>>

Close ==
    /\ "close" \in Faults
    /\ lock = None
    /\ ~closed
    /\ closed' = TRUE
    /\ UNCHANGED <<cacheVars, claim, awaits, pc, key, owners, lock, calls>>

-----------------------------------------------------------------------------
(* What a thread does once it has begun a call; the code leaves it no      *)
(* place to stop, save the bounded wait for the event and the lock.        *)
Step(t) ==
    \/ Check(t) \/ Claim(t) \/ Follow(t) \/ Wake(t) \/ Recheck(t)
    \/ GoWithoutClaim(t) \/ EnterSession(t) \/ CallProvider(t) \/ Refuse(t)
    \/ ProviderAnswers(t) \/ ProviderFails(t) \/ Store(t) \/ SkipStore(t)
    \/ DropClaim(t) \/ SetEvent(t)

Next ==
    \/ \E t \in Thread : \/ \E k \in Key : Begin(t, k)
                         \/ BeginUnkeyed(t)
                         \/ GiveUpWaiting(t)
                         \/ Step(t)
    \/ Tick
    \/ \E k \in Key : Invalidate(k)
    \/ Clear
    \/ Close

Spec == Init /\ [][Next]_vars

FairSpec == Spec /\ \A t \in Thread : WF_vars(Step(t))

-----------------------------------------------------------------------------
(* Properties. *)

Owning == {"queued", "locked", "provider", "store", "drop"}

(* The claim on a key names the one call that will release it: an owner    *)
(* keeps its registered event from acquire_inflight to release_inflight,   *)
(* and no claim outlives its owner's call.                                 *)
ClaimsAreOwned ==
    /\ \A t \in Thread : t \in owners /\ pc[t] \in Owning => claim[key[t]] = t
    /\ \A k \in Key : claim[k] # None => /\ claim[k] \in owners
                                         /\ pc[claim[k]] \in Owning
                                         /\ key[claim[k]] = k

(* idempotency.py: "followers wait on the owner's completion event".  A    *)
(* follower never waits on an event nobody will set: its creator is still  *)
(* in a call for the same key and has the event yet to set.                *)
NoLostWakeup ==
    \A t \in Thread :
        pc[t] = "waiting" /\ awaits[t] # None =>
            /\ awaits[t] # t
            /\ awaits[t] \in owners
            /\ pc[awaits[t]] \in Owning \cup {"signal"}
            /\ key[awaits[t]] = key[t]

(* store() keeps the cache within max_cache_size. *)
CacheBounded == Cardinality(Cached) <= MaxCache

(* idempotency.py: "followers wait on the owner's completion event and     *)
(* then serve the cached result".  While nothing fails and no entry need   *)
(* be evicted, a follower that was woken never takes over the dispatch.    *)
FollowersServed ==
    Faults = {} /\ Cardinality(Key) < MaxCache =>
        \A t \in Thread : pc[t] # "reacquire"

(* idempotency.py: "so a retried dispatch never reaches the provider       *)
(* twice": no provider call is made for a key whose result is cached.      *)
NeverTwice ==
    \A t \in Thread : pc[t] = "provider" /\ key[t] # None => ~Fresh(key[t])

(* The contract of dispatch(), of which these variables are one means: a   *)
(* thread in the provider is calling, a cached key is available.           *)
PhaseOf(l) == CASE l = "idle" -> "idle"
                [] l = "provider" -> "calling"
                [] l = "store" -> "succeeded"
                [] l \in {"drop", "signal"} -> "ending"
                [] OTHER -> "pending"

Contract == INSTANCE DispatchContract WITH
                phase <- [t \in Thread |-> PhaseOf(pc[t])],
                want <- key,
                available <- Cached,
                open <- ~closed

(* Results are only served if a provider call for that key produced them,  *)
(* provider calls exclude each other, and none starts or runs after        *)
(* close(), however checks, claims, evictions and failures interleave.     *)
ImplementsContract == Contract!Spec

(* Every dispatch() returns or raises, whatever fails on the way and       *)
(* without the help of a follower's timeout.                               *)
EveryCallEnds == \A t \in Thread : pc[t] # "idle" ~> pc[t] = "idle"
=============================================================================
