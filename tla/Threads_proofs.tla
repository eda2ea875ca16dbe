---------------------------- MODULE Threads_proofs ----------------------------
(***************************************************************************)
(* Proofs about the threads that carry the calls of a session: dispatch()  *)
(* with its single flight (SingleFlight), the read-write lock beside it    *)
(* (SessionLock) and the pools of the asyncio bridge (AsyncDispatch), for  *)
(* any number of threads, calls and streams.  The three share no state.    *)
(*                                                                         *)
(* ClaimsAreOwned and NoLostWakeup are not inductive alone: a step of an   *)
(* owner only preserves them because the local owner flag tells where in   *)
(* dispatch() the thread can be (OwnersAreActive).  The exclusion of the   *)
(* lock rests on its counters being exact: an entering thread only sees    *)
(* the flag and the counts, never the other threads.  That a bridge which  *)
(* stands still is jammed rests on every request being in one place, and   *)
(* on the sentinel that ends every wait being still to come (StreamKept).  *)
(***************************************************************************)
EXTENDS SingleFlight, SessionLock, AsyncDispatch,
        FiniteSetTheorems, SequenceTheorems, WellFoundedInduction, TLAPS

-----------------------------------------------------------------------------
(* SingleFlight: owners and followers. *)

(* The flag owner is only set between acquire_inflight and the end of      *)
(* release_inflight, and the finally clause only runs for an owner.        *)
OwnersAreActive ==
    \A t \in Thread :
        /\ t \in owners => pc[t] \in Owning \cup {"signal"}
        /\ pc[t] \in {"store", "drop", "signal"} => t \in owners

(* The session lock is held exactly by the thread inside it, and an open   *)
(* session is what lets that thread reach the provider.                    *)
LockIsHeld ==
    /\ \A t \in Thread : pc[t] \in {"locked", "provider"} <=> lock = t
    /\ \A t \in Thread : pc[t] = "provider" => ~closed

IInv == TypeOK /\ OwnersAreActive /\ ClaimsAreOwned /\ NoLostWakeup /\ LockIsHeld

(* None stands for no thread and no key. *)
LEMMA NoneIsNoMember == None \notin Thread /\ None \notin Key
BY SingleFlightAssumption

(* The invariant holds when nothing has been dispatched yet. *)
LEMMA InitIInv == Init => IInv
<1> SUFFICES ASSUME Init PROVE IInv
  OBVIOUS
<1> USE DEF Init
<1>1. TypeOK
  <2>1. /\ created \in [Key -> Nat]
        /\ clock \in Nat /\ horizon \in Nat /\ calls \in Nat
        /\ horizon <= clock
    OBVIOUS
  <2>2. closed \in BOOLEAN
    OBVIOUS
  <2>3. pc \in [Thread -> PC]
    BY DEF PC
  <2> QED
    BY <2>1, <2>2, <2>3 DEF TypeOK, Unkeyed
<1>2. OwnersAreActive /\ ClaimsAreOwned /\ NoLostWakeup
  BY DEF OwnersAreActive, ClaimsAreOwned, NoLostWakeup
<1>3. LockIsHeld
  BY NoneIsNoMember DEF LockIsHeld
<1> QED
  BY <1>1, <1>2, <1>3 DEF IInv

(* Every step of dispatch(), and everything around it, preserves it. *)
LEMMA NextIInv == IInv /\ [Next]_vars => IInv'
<1> SUFFICES ASSUME IInv, [Next]_vars PROVE IInv'
  OBVIOUS
<1> USE NoneIsNoMember DEF IInv, TypeOK, OwnersAreActive, ClaimsAreOwned,
        NoLostWakeup, LockIsHeld, Owning, Unkeyed, PC, Goto, Return,
        cacheVars, sessionVars
<1>1. ASSUME NEW t \in Thread, NEW k \in Key, Begin(t, k) PROVE IInv'
  BY <1>1 DEF Begin
<1>2. ASSUME NEW t \in Thread, BeginUnkeyed(t) PROVE IInv'
  BY <1>2 DEF BeginUnkeyed
<1>3. ASSUME NEW t \in Thread, GiveUpWaiting(t) PROVE IInv'
  BY <1>3 DEF GiveUpWaiting
<1>4. ASSUME NEW t \in Thread, Check(t) PROVE IInv'
  BY <1>4 DEF Check, Lookup, Hit, Miss
<1>5. ASSUME NEW t \in Thread, Claim(t) PROVE IInv'
  BY <1>5 DEF Claim
<1>6. ASSUME NEW t \in Thread, Follow(t) PROVE IInv'
  BY <1>6 DEF Follow
<1>7. ASSUME NEW t \in Thread, Wake(t) PROVE IInv'
  BY <1>7 DEF Wake
<1>8. ASSUME NEW t \in Thread, Recheck(t) PROVE IInv'
  BY <1>8 DEF Recheck, Lookup, Hit, Miss
<1>9. ASSUME NEW t \in Thread, GoWithoutClaim(t) PROVE IInv'
  BY <1>9 DEF GoWithoutClaim
<1>10. ASSUME NEW t \in Thread, EnterSession(t) PROVE IInv'
  BY <1>10 DEF EnterSession
<1>11. ASSUME NEW t \in Thread, CallProvider(t) PROVE IInv'
  BY <1>11 DEF CallProvider
<1>12. ASSUME NEW t \in Thread, Refuse(t) \/ ProviderFails(t) PROVE IInv'
  BY <1>12 DEF Refuse, ProviderFails, LeaveFailed
<1>13. ASSUME NEW t \in Thread, ProviderAnswers(t) PROVE IInv'
  BY <1>13 DEF ProviderAnswers
<1>14. ASSUME NEW t \in Thread, Store(t) PROVE IInv'
  BY <1>14 DEF Store
<1>15. ASSUME NEW t \in Thread, SkipStore(t) PROVE IInv'
  BY <1>15 DEF SkipStore
<1>16. ASSUME NEW t \in Thread, DropClaim(t) PROVE IInv'
  BY <1>16 DEF DropClaim
<1>17. ASSUME NEW t \in Thread, SetEvent(t) PROVE IInv'
  BY <1>17 DEF SetEvent
<1>18. CASE Tick
  BY <1>18 DEF Tick
<1>19. ASSUME NEW k \in Key, Invalidate(k) PROVE IInv'
  BY <1>19 DEF Invalidate
<1>20. CASE Clear
  BY <1>20 DEF Clear
<1>21. CASE Close
  BY <1>21 DEF Close
<1>22. CASE UNCHANGED vars
  BY <1>22 DEF vars
<1> QED
  BY <1>1, <1>2, <1>3, <1>4, <1>5, <1>6, <1>7, <1>8, <1>9, <1>10, <1>11,
     <1>12, <1>13, <1>14, <1>15, <1>16, <1>17, <1>18, <1>19, <1>20, <1>21,
     <1>22 DEF Next, Step

(* dispatch() keeps its whole inductive invariant. *)
THEOREM Invariance == Spec => []IInv
<1>1. Init => IInv
  BY InitIInv
<1>2. IInv /\ [Next]_vars => IInv'
  BY NextIInv
<1> QED
  BY <1>1, <1>2, PTL DEF Spec

-----------------------------------------------------------------------------
(* The parts of the invariant that the runs check. *)

(* dispatch() and the deduplicator keep their state well formed. *)
THEOREM TypeCorrect == Spec => []TypeOK
BY Invariance, PTL DEF IInv

(* A registered claim always has a live owner that will release it. *)
THEOREM ClaimsOwned == Spec => []ClaimsAreOwned
BY Invariance, PTL DEF IInv

(* No follower waits on an event that nobody is going to set. *)
THEOREM NoWakeupIsLost == Spec => []NoLostWakeup
BY Invariance, PTL DEF IInv

-----------------------------------------------------------------------------
(* The size of the cache. *)

(* A set of natural numbers that is not empty has a least element. *)
LEMMA LeastNatural ==
    ASSUME NEW S \in SUBSET Nat, S # {}
    PROVE  \E n \in S : \A m \in S : n <= m
<1> DEFINE R == {ss \in Nat \X Nat : ss[1] < ss[2]}
<1>1. IsWellFoundedOn(R, Nat)
  BY NatLessThanWellFounded DEF OpToRel
<1>2. \A m, n \in Nat : m < n => <<m, n>> \in R
  OBVIOUS
<1> HIDE DEF R
<1>3. PICK n \in S : \A m \in S : <<m, n>> \notin R
  BY <1>1, WFMin
<1>4. \A m \in S : ~(m < n)
  BY <1>2, <1>3
<1> QED
  BY <1>4

(* The cache is finite. *)
LEMMA CachedIsFinite == IsFiniteSet(Cached) /\ Cardinality(Cached) \in Nat
<1>1. Cached \subseteq Key
  BY DEF Cached
<1> QED
  BY <1>1, SingleFlightAssumption, FS_Subset, FS_CardinalityType

(* Eviction leaves room for one more entry in a cache that was not over    *)
(* its limit.                                                              *)
LEMMA SurvivorsFit ==
    ASSUME TypeOK, CacheBounded
    PROVE  /\ Survivors \subseteq Cached
           /\ IsFiniteSet(Survivors)
           /\ Cardinality(Survivors) + 1 <= MaxCache
<1> DEFINE full == Cardinality(Cached) >= MaxCache
           live == IF full THEN {k \in Cached : Fresh(k)} ELSE Cached
<1>0. MaxCache \in Nat \ {0}
  BY SingleFlightAssumption
<1>1. live \subseteq Cached /\ IsFiniteSet(live) /\ Cardinality(live) \in Nat
      /\ Cardinality(live) <= MaxCache
  <2>1. live \subseteq Cached
    OBVIOUS
  <2> QED
    BY <2>1, CachedIsFinite, FS_Subset, FS_CardinalityType, <1>0
       DEF CacheBounded
<1>2. CASE Cardinality(live) < MaxCache
  <2>1. Survivors = live
    BY <1>0, <1>1, <1>2 DEF Survivors
  <2> QED
    BY <1>0, <1>1, <1>2, <2>1
<1>3. CASE Cardinality(live) >= MaxCache
  <2>1. Survivors = live \ {Oldest(live)}
    BY <1>3 DEF Survivors
  <2>2. live # {}
    BY <1>0, <1>1, <1>3, FS_EmptySet
  <2>3. Oldest(live) \in live
    <3>1. \E k \in live : \A l \in live : created[k] <= created[l]
      <4> DEFINE at == {created[k] : k \in live}
      <4>0. \A k \in live : created[k] \in Nat
        BY <1>1 DEF TypeOK, Cached
      <4> HIDE DEF live
      <4>1. at \subseteq Nat /\ at # {}
        BY <4>0, <2>2
      <4>2. \E n \in at : \A m \in at : n <= m
        BY <4>1, LeastNatural
      <4> QED
        BY <4>2
    <3> QED
      BY <3>1 DEF Oldest
  <2>4. Cardinality(live \ {Oldest(live)}) = Cardinality(live) - 1
        /\ IsFiniteSet(live \ {Oldest(live)})
    BY <1>1, <2>3, FS_RemoveElement
  <2> QED
    BY <1>0, <1>1, <2>1, <2>4
<1> QED
  BY <1>0, <1>1, <1>2, <1>3

(* store() keeps the cache within max_cache_size, for every such size. *)
THEOREM CacheIsBounded == Spec => []CacheBounded
<1>1. Init => CacheBounded
  <2> SUFFICES ASSUME Init PROVE CacheBounded
    OBVIOUS
  <2>1. Cached = {}
    BY DEF Init, Cached
  <2> QED
    BY <2>1, FS_EmptySet, SingleFlightAssumption DEF CacheBounded
<1>2. IInv /\ CacheBounded /\ [Next]_vars => CacheBounded'
  <2> SUFFICES ASSUME IInv, CacheBounded, [Next]_vars PROVE CacheBounded'
    OBVIOUS
  <2>0. MaxCache \in Nat \ {0}
    BY SingleFlightAssumption
  <2>1. ASSUME Cached' \subseteq Cached PROVE CacheBounded'
    <3>1. Cardinality(Cached') <= Cardinality(Cached) /\ Cardinality(Cached') \in Nat
      BY <2>1, CachedIsFinite, FS_Subset, FS_CardinalityType
    <3> QED
      BY <2>0, <3>1, CachedIsFinite DEF CacheBounded
  <2>2. ASSUME NEW t \in Thread, Store(t) PROVE CacheBounded'
    <3>1. Cached' \subseteq Survivors \cup {key[t]}
      BY <2>2 DEF Store, Cached
    <3>2. /\ IsFiniteSet(Survivors \cup {key[t]})
          /\ Cardinality(Survivors \cup {key[t]}) <= MaxCache
      <4>1. IsFiniteSet(Survivors) /\ Cardinality(Survivors) + 1 <= MaxCache
        BY SurvivorsFit DEF IInv
      <4>2. Cardinality(Survivors) \in Nat
        BY <4>1, FS_CardinalityType
      <4> QED
        BY <2>0, <4>1, <4>2, FS_AddElement
    <3>3. Cardinality(Cached') <= Cardinality(Survivors \cup {key[t]})
      BY <3>1, <3>2, FS_Subset
    <3>4. /\ Cardinality(Cached') \in Nat
          /\ Cardinality(Survivors \cup {key[t]}) \in Nat
      BY <3>1, <3>2, FS_Subset, FS_CardinalityType
    <3> QED
      BY <2>0, <3>2, <3>3, <3>4 DEF CacheBounded
  <2>3. ASSUME NEW t \in Thread, Check(t) \/ Recheck(t) PROVE CacheBounded'
    <3>1. Cached' \subseteq Cached
      BY <2>3 DEF Check, Recheck, Lookup, Hit, Miss, Cached, IInv, TypeOK
    <3> QED
      BY <2>1, <3>1
  <2>4. CASE (\E k \in Key : Invalidate(k)) \/ Clear
    <3>1. Cached' \subseteq Cached
      BY <2>4 DEF Invalidate, Clear, Cached, IInv, TypeOK
    <3> QED
      BY <2>1, <3>1
  <2>5. CASE UNCHANGED created
    <3>1. Cached' = Cached
      BY <2>5 DEF Cached
    <3> QED
      BY <2>1, <3>1
  <2> QED
    BY <2>2, <2>3, <2>4, <2>5
       DEF Next, Step, Begin, BeginUnkeyed, GiveUpWaiting, Claim, Follow, Wake,
           GoWithoutClaim, EnterSession, CallProvider, Refuse, ProviderFails,
           LeaveFailed, ProviderAnswers, SkipStore, DropClaim, SetEvent, Tick,
           Close, vars, cacheVars
<1> QED
  BY <1>1, <1>2, Invariance, PTL DEF Spec

-----------------------------------------------------------------------------
(* Followers are served. *)

(* While nothing fails, nothing expires and nothing is evicted: whoever    *)
(* waits has its result in the cache as soon as its event is set.          *)
ServedOnceWoken ==
    Faults = {} /\ Cardinality(Key) < MaxCache =>
        /\ horizon = 0
        /\ ~closed
        /\ \A t \in Thread :
              /\ pc[t] # "reacquire"
              /\ pc[t] \in {"recheck", "drop", "signal"} => created[key[t]] # 0
              /\ pc[t] = "waiting" /\ awaits[t] = None => created[key[t]] # 0

(* A follower whose owner did not fail returns the owner's result.         *)
THEOREM FollowersAreServed == Spec => []FollowersServed
<1>1. Init => ServedOnceWoken
  BY DEF Init, ServedOnceWoken
<1>2. IInv /\ ServedOnceWoken /\ [Next]_vars => ServedOnceWoken'
  <2> SUFFICES ASSUME IInv, ServedOnceWoken, [Next]_vars,
                      Faults = {}, Cardinality(Key) < MaxCache
               PROVE  ServedOnceWoken'
    BY DEF ServedOnceWoken
  <2>0. Survivors = Cached
    <3>1. Cached \subseteq Key
      BY DEF Cached
    <3>2. Cardinality(Cached) <= Cardinality(Key) /\ Cardinality(Key) \in Nat
      BY <3>1, SingleFlightAssumption, FS_Subset, FS_CardinalityType
    <3>3. ~(Cardinality(Cached) >= MaxCache)
      BY <3>2, CachedIsFinite, SingleFlightAssumption
    <3> QED
      BY <3>3 DEF Survivors
  <2> USE NoneIsNoMember DEF ServedOnceWoken, IInv, TypeOK, OwnersAreActive,
          NoLostWakeup, ClaimsAreOwned, Owning, Unkeyed, Goto, Return,
          cacheVars, sessionVars
  <2>1. ASSUME NEW t \in Thread, NEW k \in Key, Begin(t, k) PROVE ServedOnceWoken'
    BY <2>1 DEF Begin
  <2>2. ASSUME NEW t \in Thread, Check(t) \/ Recheck(t) PROVE ServedOnceWoken'
    BY <2>2 DEF Check, Recheck, Lookup, Hit, Miss, Fresh
  <2>3. ASSUME NEW t \in Thread, Claim(t) PROVE ServedOnceWoken'
    BY <2>3 DEF Claim
  <2>4. ASSUME NEW t \in Thread, Follow(t) \/ Wake(t) PROVE ServedOnceWoken'
    BY <2>4 DEF Follow, Wake
  <2>5. ASSUME NEW t \in Thread, EnterSession(t) \/ CallProvider(t)
        PROVE  ServedOnceWoken'
    BY <2>5 DEF EnterSession, CallProvider
  <2>6. ASSUME NEW t \in Thread, ProviderAnswers(t) PROVE ServedOnceWoken'
    BY <2>6 DEF ProviderAnswers
  <2>7. ASSUME NEW t \in Thread, Store(t) PROVE ServedOnceWoken'
    BY <2>0, <2>7 DEF Store, Cached
  <2>8. ASSUME NEW t \in Thread, DropClaim(t) PROVE ServedOnceWoken'
    BY <2>8 DEF DropClaim
  <2>9. ASSUME NEW t \in Thread, SetEvent(t) PROVE ServedOnceWoken'
    BY <2>9 DEF SetEvent
  <2>10. CASE UNCHANGED vars
    BY <2>10 DEF vars
  <2> QED
    BY <2>1, <2>2, <2>3, <2>4, <2>5, <2>6, <2>7, <2>8, <2>9, <2>10
       DEF Next, Step, BeginUnkeyed, GiveUpWaiting, GoWithoutClaim, Refuse,
           ProviderFails, SkipStore, Tick, Invalidate, Clear, Close
<1>3. ServedOnceWoken => FollowersServed
  BY DEF ServedOnceWoken, FollowersServed
<1> QED
  BY <1>1, <1>2, <1>3, Invariance, PTL DEF Spec
-----------------------------------------------------------------------------
(* Refinement. *)

(* How a step to another place in dispatch() looks to the contract. *)
LEMMA PhaseSteps ==
    ASSUME TypeOK, NEW t \in Thread, NEW l \in PC, Goto(t, l)
    PROVE  [u \in Thread |-> PhaseOf(pc[u])]'
             = [[u \in Thread |-> PhaseOf(pc[u])] EXCEPT ![t] = PhaseOf(l)]
BY DEF Goto, TypeOK, PhaseOf

(* dispatch() with its cache, claims and session lock implements the       *)
(* contract: every step is a step of the contract or changes nothing in    *)
(* it.                                                                     *)
THEOREM Refinement == Spec => ImplementsContract
<1> DEFINE phase == [t \in Thread |-> PhaseOf(pc[t])]
<1>1. Init => Contract!Init
  BY DEF Init, Contract!Init, PhaseOf, Cached
<1>2. IInv /\ [Next]_vars => [Contract!Next]_Contract!vars
  <2> SUFFICES ASSUME IInv, [Next]_vars
               PROVE  Contract!Next \/ UNCHANGED Contract!vars
    OBVIOUS
  <2>0. /\ TypeOK
        /\ \A t \in Thread : phase[t] = PhaseOf(pc[t])
        /\ phase \in [Thread -> Contract!Phase]
    BY DEF IInv, TypeOK, PhaseOf, PC, Contract!Phase
  <2>same. ASSUME UNCHANGED <<pc, key, closed>>, Cached' \subseteq Cached
           PROVE  Contract!Next
    BY <2>same DEF Contract!Next, Contract!Forget
  <2>goto. ASSUME NEW t \in Thread, NEW l \in PC, Goto(t, l)
           PROVE  phase' = [phase EXCEPT ![t] = PhaseOf(l)]
    BY <2>0, <2>goto, PhaseSteps
  <2>inside. ASSUME NEW t \in Thread, NEW l \in PC, Goto(t, l),
                    PhaseOf(l) = PhaseOf(pc[t]),
                    UNCHANGED <<key, closed>>, Cached' \subseteq Cached
             PROVE  Contract!Next
    <3>1. phase' = phase
      BY <2>0, <2>goto, <2>inside
    <3> QED
      BY <2>inside, <3>1 DEF Contract!Next, Contract!Forget
  <2>1. ASSUME NEW t \in Thread, NEW k \in Key, Begin(t, k) PROVE Contract!Next
    <3>1. phase[t] = "idle" /\ phase' = [phase EXCEPT ![t] = "pending"]
      BY <2>0, <2>1, <2>goto DEF Begin, PhaseOf, PC
    <3> QED
      BY <2>1, <3>1 DEF Begin, Contract!Next, Contract!Ask, Contract!Become,
                        Cached, cacheVars, sessionVars
  <2>2. ASSUME NEW t \in Thread, BeginUnkeyed(t) PROVE Contract!Next
    <3>1. phase[t] = "idle" /\ phase' = [phase EXCEPT ![t] = "pending"]
      BY <2>0, <2>2, <2>goto DEF BeginUnkeyed, PhaseOf, PC
    <3> QED
      BY <2>2, <3>1 DEF BeginUnkeyed, Contract!Next, Contract!Ask,
                        Contract!Become, Cached, cacheVars, sessionVars
  <2>3. ASSUME NEW t \in Thread, NEW next \in {"acquire", "reacquire"},
               pc[t] \in {"check", "recheck"}, Lookup(t, next)
        PROVE  Contract!Next
    <3>1. CASE Hit(t)
      <4>1. phase[t] = "pending" /\ phase' = [phase EXCEPT ![t] = "idle"]
        BY <2>0, <2>3, <2>goto, <3>1 DEF Hit, Return, PhaseOf, PC
      <4>2. key[t] \in Cached
        BY <2>0, <2>3, <3>1 DEF Hit, Fresh, Cached, TypeOK, Unkeyed
      <4> QED
        BY <2>3, <3>1, <4>1, <4>2
           DEF Lookup, Hit, Return, Contract!Next, Contract!Serve,
               Contract!Finish, Contract!Become, Cached, sessionVars
    <3>2. CASE Miss(t, next)
      <4>1. Cached' \subseteq Cached
        BY <2>0, <3>2 DEF Miss, Cached, TypeOK
      <4>2. PhaseOf(next) = PhaseOf(pc[t])
        BY <2>3 DEF PhaseOf
      <4> QED
        BY <2>3, <2>inside, <3>2, <4>1, <4>2 DEF Lookup, Miss, PC, sessionVars
    <3> QED
      BY <2>3, <3>1, <3>2 DEF Lookup
  <2>4. ASSUME NEW t \in Thread,
               \/ Claim(t) \/ Follow(t) \/ Wake(t) \/ GiveUpWaiting(t)
               \/ GoWithoutClaim(t) \/ EnterSession(t) \/ DropClaim(t)
        PROVE  Contract!Next
    <3>1. /\ UNCHANGED <<key, closed>>
          /\ Cached' \subseteq Cached
          /\ \E l \in PC : Goto(t, l) /\ PhaseOf(l) = PhaseOf(pc[t])
      BY <2>4 DEF Claim, Follow, Wake, GiveUpWaiting, GoWithoutClaim,
                  EnterSession, DropClaim, Cached, cacheVars, sessionVars,
                  PhaseOf, PC
    <3> QED
      BY <2>inside, <3>1
  <2>5. ASSUME NEW t \in Thread, CallProvider(t) PROVE Contract!Next
    <3>1. phase[t] = "pending" /\ phase' = [phase EXCEPT ![t] = "calling"]
      BY <2>0, <2>5, <2>goto DEF CallProvider, PhaseOf, PC
    <3>2. \A u \in Thread : phase[u] # "calling"
      BY <2>0, <2>5 DEF CallProvider, IInv, LockIsHeld, PhaseOf
    <3> QED
      BY <2>5, <3>1, <3>2 DEF CallProvider, Contract!Next, Contract!Call,
         Contract!Become, Cached, cacheVars, sessionVars
  <2>6. ASSUME NEW t \in Thread, Refuse(t) \/ ProviderFails(t) PROVE Contract!Next
    <3>1. phase[t] \in {"pending", "calling"}
      BY <2>0, <2>6 DEF Refuse, ProviderFails, PhaseOf
    <3>2. \/ UNCHANGED key /\ phase' = [phase EXCEPT ![t] = "ending"]
          \/ /\ key' = [key EXCEPT ![t] = None]
             /\ phase' = [phase EXCEPT ![t] = "idle"]
      BY <2>0, <2>6, <2>goto DEF Refuse, ProviderFails, LeaveFailed, Return,
         PhaseOf, PC
    <3>3. UNCHANGED <<Cached, closed>>
      BY <2>6 DEF Refuse, ProviderFails, LeaveFailed, Cached, cacheVars
    <3> QED
      BY <3>1, <3>2, <3>3 DEF Contract!Next, Contract!Fail, Contract!Finish,
         Contract!Become
  <2>7. ASSUME NEW t \in Thread, ProviderAnswers(t) PROVE Contract!Next
    <3>1. phase[t] = "calling"
      BY <2>0, <2>7 DEF ProviderAnswers, PhaseOf
    <3>2. \/ UNCHANGED key /\ phase' = [phase EXCEPT ![t] = "succeeded"]
          \/ /\ key' = [key EXCEPT ![t] = None]
             /\ phase' = [phase EXCEPT ![t] = "idle"]
      BY <2>0, <2>7, <2>goto DEF ProviderAnswers, Return, PhaseOf, PC
    <3>3. UNCHANGED <<Cached, closed>>
      BY <2>7 DEF ProviderAnswers, Cached, cacheVars
    <3> QED
      BY <3>1, <3>2, <3>3 DEF Contract!Next, Contract!Succeed,
         Contract!Finish, Contract!Become
  <2>8. ASSUME NEW t \in Thread, Store(t) \/ SkipStore(t) PROVE Contract!Next
    <3>1. /\ phase[t] = "succeeded"
          /\ phase' = [phase EXCEPT ![t] = "ending"]
      BY <2>0, <2>8, <2>goto DEF Store, SkipStore, PhaseOf, PC
    <3>2. \/ /\ Cached' \subseteq Cached \cup {key[t]}
             /\ key[t] \in Cached'
          \/ UNCHANGED Cached
      <4>1. CASE Store(t)
        <5>1. key[t] \in Key /\ clock' # 0
          BY <2>0, <4>1 DEF Store, TypeOK, Unkeyed
        <5> QED
          BY <4>1, <5>1 DEF Store, Cached
      <4> QED
        BY <2>8, <4>1 DEF SkipStore, Cached, cacheVars
    <3>3. UNCHANGED <<key, closed>>
      BY <2>8 DEF Store, SkipStore, sessionVars
    <3> QED
      BY <3>1, <3>2, <3>3 DEF Contract!Next, Contract!Publish,
         Contract!Become
  <2>9. ASSUME NEW t \in Thread, SetEvent(t) PROVE Contract!Next
    <3>1. phase[t] = "ending" /\ phase' = [phase EXCEPT ![t] = "idle"]
      BY <2>0, <2>9, <2>goto DEF SetEvent, Return, PhaseOf, PC
    <3> QED
      BY <2>9, <3>1 DEF SetEvent, Return, Contract!Next, Contract!End,
         Contract!Finish, Contract!Become, Cached, cacheVars, sessionVars
  <2>10. ASSUME Tick \/ Clear \/ \E k \in Key : Invalidate(k) PROVE Contract!Next
    <3>1. Cached' \subseteq Cached /\ UNCHANGED <<pc, key, closed>>
      BY <2>0, <2>10 DEF Tick, Clear, Invalidate, Cached, TypeOK, sessionVars
    <3> QED
      BY <2>same, <3>1
  <2>11. ASSUME Close PROVE Contract!Next
    <3>1. \A u \in Thread : phase[u] # "calling"
      BY <2>0, <2>11, NoneIsNoMember DEF Close, IInv, LockIsHeld, PhaseOf
    <3> QED
      BY <2>11, <3>1 DEF Close, Contract!Next, Contract!Close, Cached,
         cacheVars
  <2>12. ASSUME UNCHANGED vars PROVE UNCHANGED Contract!vars
    BY <2>12 DEF vars, Contract!vars, Cached
  <2> QED
    BY <2>1, <2>2, <2>3, <2>4, <2>5, <2>6, <2>7, <2>8, <2>9, <2>10, <2>11,
       <2>12 DEF Next, Step, Check, Recheck
<1> QED
  BY <1>1, <1>2, Invariance, PTL DEF Spec, ImplementsContract, Contract!Spec

-----------------------------------------------------------------------------
(* What the model checker's EveryCallEnds rests on, for any number of      *)
(* threads: nobody waits in a circle, and a call only goes forward.        *)

(* In event.wait() on an event that is not set, or at the session lock     *)
(* while somebody has it.                                                  *)
HeldUp(t) == \/ pc[t] = "waiting" /\ awaits[t] # None
             \/ pc[t] = "queued" /\ lock # None

WaitsFor(t) == IF pc[t] = "waiting" THEN awaits[t] ELSE lock

WaitsAreShort ==
    \A t \in Thread : HeldUp(t) =>
        /\ WaitsFor(t) \in Thread \ {t}
        /\ pc[WaitsFor(t)] # "idle"
        /\ HeldUp(WaitsFor(t)) =>
              /\ pc[t] = "waiting" /\ pc[WaitsFor(t)] = "queued"
              /\ lock \in Thread /\ pc[lock] \in {"locked", "provider"}

(* dispatch() cannot deadlock: a follower waits for an owner that is in a  *)
(* call, the owner at most for the session lock, and whoever has that lock *)
(* for nobody.                                                             *)
THEOREM NoCircularWait == Spec => []WaitsAreShort
<1>1. IInv => WaitsAreShort
  <2> SUFFICES ASSUME IInv, NEW t \in Thread, HeldUp(t)
               PROVE  /\ WaitsFor(t) \in Thread \ {t}
                      /\ pc[WaitsFor(t)] # "idle"
                      /\ HeldUp(WaitsFor(t)) =>
                            /\ pc[t] = "waiting" /\ pc[WaitsFor(t)] = "queued"
                            /\ lock \in Thread
                            /\ pc[lock] \in {"locked", "provider"}
    BY DEF WaitsAreShort
  <2>1. \A u \in Thread : pc[u] \in {"locked", "provider"} <=> lock = u
    BY DEF IInv, LockIsHeld
  <2>2. lock \in Thread \cup {None} /\ awaits[t] \in Thread \cup {None}
    BY DEF IInv, TypeOK
  <2>3. CASE pc[t] = "waiting"
    <3>1. awaits[t] # None
      BY <2>3 DEF HeldUp
    <3>2. /\ awaits[t] # t
          /\ pc[awaits[t]] \in Owning \cup {"signal"}
      BY <2>3, <3>1 DEF IInv, NoLostWakeup
    <3> QED
      BY <2>1, <2>2, <2>3, <3>1, <3>2 DEF HeldUp, WaitsFor, Owning
  <2>4. CASE pc[t] = "queued"
    BY <2>1, <2>2, <2>4 DEF HeldUp, WaitsFor
  <2> QED
    BY <2>3, <2>4 DEF HeldUp
<1> QED
  BY <1>1, Invariance, PTL

(* The places of dispatch() in the order in which a call passes them. *)
Place(l) == CASE l = "check" -> 1     [] l = "acquire" -> 2
              [] l = "waiting" -> 3   [] l = "recheck" -> 4
              [] l = "reacquire" -> 5 [] l = "queued" -> 6
              [] l = "locked" -> 7    [] l = "provider" -> 8
              [] l = "store" -> 9     [] l = "drop" -> 10
              [] OTHER -> 11

CallsOnlyAdvance ==
    [][\A t \in Thread : pc[t] # "idle" =>
          \/ pc'[t] = "idle"
          \/ Place(pc[t]) < Place(pc'[t])
          \/ pc'[t] = pc[t] /\ ~Step(t)]_vars

(* A call has at most eleven steps of its own: each one ends it or takes   *)
(* it to a later place.  dispatch() never goes round, not even when the    *)
(* second look at the cache misses or the second claim is refused.         *)
THEOREM CallsAdvance == Spec => CallsOnlyAdvance
<1>1. TypeOK /\ [Next]_vars
        => [\A t \in Thread : pc[t] # "idle" =>
              \/ pc'[t] = "idle"
              \/ Place(pc[t]) < Place(pc'[t])
              \/ pc'[t] = pc[t] /\ ~Step(t)]_vars
  <2> SUFFICES ASSUME TypeOK, Next, NEW t \in Thread, pc[t] # "idle"
               PROVE  \/ pc'[t] = "idle"
                      \/ Place(pc[t]) < Place(pc'[t])
                      \/ pc'[t] = pc[t] /\ ~Step(t)
    OBVIOUS
  <2> USE DEF Goto, Return
  <2>0. pc \in [Thread -> PC]
    BY DEF TypeOK
  <2>1. ASSUME Step(t)
        PROVE  pc'[t] = "idle" \/ Place(pc[t]) < Place(pc'[t])
    <3>1. CASE Check(t) \/ Recheck(t)
      BY <2>0, <3>1 DEF Check, Recheck, Lookup, Hit, Miss, Place
    <3>2. CASE Claim(t) \/ Follow(t) \/ Wake(t) \/ GoWithoutClaim(t)
      BY <2>0, <3>2 DEF Claim, Follow, Wake, GoWithoutClaim, Place
    <3>3. CASE EnterSession(t) \/ CallProvider(t) \/ Refuse(t)
      BY <2>0, <3>3 DEF EnterSession, CallProvider, Refuse, LeaveFailed, Place
    <3>4. CASE ProviderAnswers(t) \/ ProviderFails(t)
      BY <2>0, <3>4 DEF ProviderAnswers, ProviderFails, LeaveFailed, Place
    <3>5. CASE Store(t) \/ SkipStore(t) \/ DropClaim(t) \/ SetEvent(t)
      BY <2>0, <3>5 DEF Store, SkipStore, DropClaim, SetEvent, Place
    <3> QED
      BY <2>1, <3>1, <3>2, <3>3, <3>4, <3>5 DEF Step
  <2>2. ASSUME GiveUpWaiting(t) PROVE Place(pc[t]) < Place(pc'[t])
    BY <2>0, <2>2 DEF GiveUpWaiting, Place
  <2>3. ASSUME NEW u \in Thread, u # t,
               \/ \E k \in Key : Begin(u, k)
               \/ BeginUnkeyed(u) \/ GiveUpWaiting(u) \/ Step(u)
        PROVE  pc'[t] = pc[t]
    BY <2>0, <2>3
    DEF Begin, BeginUnkeyed, GiveUpWaiting, Step, Check, Recheck, Lookup, Hit,
        Miss, Claim, Follow, Wake, GoWithoutClaim, EnterSession, CallProvider,
        Refuse, ProviderFails, LeaveFailed, ProviderAnswers, Store, SkipStore,
        DropClaim, SetEvent
  <2>4. ASSUME Tick \/ Clear \/ Close \/ \E k \in Key : Invalidate(k)
        PROVE  pc'[t] = pc[t]
    BY <2>4 DEF Tick, Clear, Close, Invalidate
  <2>5. ~BeginUnkeyed(t) /\ \A k \in Key : ~Begin(t, k)
    BY DEF BeginUnkeyed, Begin
  <2> QED
    BY <2>1, <2>2, <2>3, <2>4, <2>5 DEF Next
<1> QED
  BY <1>1, TypeCorrect, PTL DEF Spec, CallsOnlyAdvance

-----------------------------------------------------------------------------
(* SessionLock: readers and writers. *)

(* A writer excludes readers and other writers.                            *)
Exclusion ==
    /\ MutualExclusion
    /\ writer => readers = 0

LockIInv == LockTypeOK /\ CountsAreExact /\ Exclusion /\ NoWriterSleepsOnFreeLock

(* Sets of threads can be counted.                                         *)
LEMMA InIsFinite ==
    ASSUME NEW S
    PROVE  IsFiniteSet(In(S)) /\ Cardinality(In(S)) \in Nat
<1>1. In(S) \subseteq User
  BY DEF In
<1> QED
  BY <1>1, SessionLockAssumption, FS_Subset, FS_CardinalityType

(* What a thread that moves from one place to another does to the number   *)
(* of threads in a set of places, however many others it wakes in passing. *)
LEMMA Moves ==
    ASSUME LockTypeOK, NEW S, NEW t \in User,
           \A u \in User \ {t} : doing'[u] \in S <=> doing[u] \in S
    PROVE  Cardinality(In(S))' =
             IF doing[t] \in S THEN IF doing'[t] \in S THEN Cardinality(In(S))
                                 ELSE Cardinality(In(S)) - 1
             ELSE IF doing'[t] \in S THEN Cardinality(In(S)) + 1
                  ELSE Cardinality(In(S))
<1>1. CASE doing[t] \in S <=> doing'[t] \in S
  <2>1. In(S)' = In(S)
    BY <1>1 DEF In
  <2> QED
    BY <1>1, <2>1
<1>2. CASE doing[t] \in S /\ doing'[t] \notin S
  <2>1. In(S)' = In(S) \ {t} /\ t \in In(S)
    BY <1>2 DEF In
  <2> QED
    BY <1>2, <2>1, InIsFinite, FS_RemoveElement
<1>3. CASE doing[t] \notin S /\ doing'[t] \in S
  <2>1. In(S)' = In(S) \cup {t} /\ t \notin In(S)
    BY <1>3 DEF In
  <2> QED
    BY <1>3, <2>1, InIsFinite, FS_AddElement
<1> QED
  BY <1>1, <1>2, <1>3

(* A new lock is free and nobody waits for it.                             *)
LEMMA InitLockIInv == LockInit => LockIInv
<1> SUFFICES ASSUME LockInit PROVE LockIInv
  OBVIOUS
<1>1. In({"writing"}) = {} /\ In({"reading"}) = {} /\ In(WriteWait) = {}
      /\ In({"writeAsleep"}) = {} /\ In({"reading", "writing"}) = {}
  BY DEF LockInit, In, WriteWait
<1>2. LockTypeOK
  BY DEF LockInit, LockTypeOK, Doing, In
<1> QED
  BY <1>1, <1>2, FS_EmptySet DEF LockInit, LockIInv, CountsAreExact, Exclusion,
     MutualExclusion, NoWriterSleepsOnFreeLock

(* Entering, waiting, giving up and leaving preserve the invariant.        *)
LEMMA NextLockIInv == LockIInv /\ [LockNext]_lockVars => LockIInv'
<1> SUFFICES ASSUME LockIInv, [LockNext]_lockVars PROVE LockIInv'
  OBVIOUS
<1>0. /\ Cardinality(In({"reading"})) \in Nat
      /\ Cardinality(In(WriteWait)) \in Nat
      /\ \A t \in In({"reading"}) : Cardinality(In({"reading"})) > 0
      /\ \A t \in In(WriteWait) : Cardinality(In(WriteWait)) > 0
  BY InIsFinite, FS_EmptySet
<1>others. ASSUME NEW t \in User, NEW l,
                  Go(t, l) \/ WakeAll(t, l)
           PROVE  /\ doing'[t] = l
                  /\ \A u \in User \ {t} :
                        /\ doing'[u] \in {doing[u], Woken(doing[u])}
                        /\ doing'[u] = "writing" <=> doing[u] = "writing"
                        /\ doing'[u] \in {"reading"} <=> doing[u] \in {"reading"}
                        /\ doing'[u] \in WriteWait <=> doing[u] \in WriteWait
                        /\ doing'[u] \in ReadWait <=> doing[u] \in ReadWait
  BY <1>others DEF Go, WakeAll, Woken, LockIInv, LockTypeOK, WriteWait, ReadWait, Doing
<1>step. ASSUME NEW t \in User, NEW l \in Doing,
                Go(t, l) \/ WakeAll(t, l),
                readers' \in Nat, writerWaiting' \in Int, writer' \in BOOLEAN,
                acquires' \in Nat,
                late' \subseteq (late \cup {t}),
                t \in late' => l \in WriteWait \cup ReadWait,
                readers' = readers + (IF l = "reading" THEN 1 ELSE 0)
                                   - (IF doing[t] = "reading" THEN 1 ELSE 0),
                writerWaiting' = writerWaiting + (IF l \in WriteWait THEN 1 ELSE 0)
                                   - (IF doing[t] \in WriteWait THEN 1 ELSE 0),
                l = "writing" => writer' /\ doing[t] # "writing" /\ WriteFree,
                l # "writing" /\ doing[t] = "writing" => ~writer',
                l # "writing" /\ doing[t] # "writing" => (writer' <=> writer),
                l = "reading" => ~writer,
                l = "writeAsleep" => ~WriteFree',
                ~WriteFree /\ WriteFree' => WakeAll(t, l)
         PROVE  LockIInv'
  <2>1. /\ Cardinality(In({"reading"}))' = readers'
        /\ Cardinality(In(WriteWait))' = writerWaiting'
    <3>1. \A u \in User \ {t} :
             /\ doing'[u] \in {"reading"} <=> doing[u] \in {"reading"}
             /\ doing'[u] \in WriteWait <=> doing[u] \in WriteWait
      BY <1>step, <1>others
    <3>2. /\ readers = Cardinality(In({"reading"}))
          /\ writerWaiting = Cardinality(In(WriteWait))
      BY DEF LockIInv, CountsAreExact
    <3>3. doing'[t] = l
      BY <1>step, <1>others
    <3>4. LockTypeOK
      BY DEF LockIInv
    <3>5. /\ "reading" \in {"reading"}
          /\ Cardinality(In({"reading"}))' =
               IF doing[t] \in {"reading"}
               THEN IF l \in {"reading"} THEN readers ELSE readers - 1
               ELSE IF l \in {"reading"} THEN readers + 1 ELSE readers
      BY <3>1, <3>2, <3>3, <3>4, Moves
    <3>6. Cardinality(In(WriteWait))' =
            IF doing[t] \in WriteWait
            THEN IF l \in WriteWait THEN writerWaiting ELSE writerWaiting - 1
            ELSE IF l \in WriteWait THEN writerWaiting + 1 ELSE writerWaiting
      BY <3>1, <3>2, <3>3, <3>4, Moves
    <3>7. readers \in Nat /\ writerWaiting \in Nat
      BY DEF LockIInv, LockTypeOK
    <3> QED
      BY <1>step, <3>5, <3>6, <3>7
  <2>2. In({"writing"})' = IF l = "writing" THEN In({"writing"}) \cup {t}
                           ELSE In({"writing"}) \ {t}
    BY <1>step, <1>others DEF In
  <2>3. LockTypeOK'
    <3>1. doing' \in [User -> Doing]
      BY <1>step DEF Go, WakeAll, Woken, LockIInv, LockTypeOK, WriteWait, ReadWait, Doing
    <3>2. late' \subseteq In(WriteWait \cup ReadWait)'
      BY <1>step, <1>others DEF In, LockIInv, LockTypeOK
    <3>3. writerWaiting' \in Nat
      <4>1. Cardinality(In(WriteWait)') \in Nat
        <5>1. In(WriteWait)' \subseteq User
          BY DEF In
        <5> QED
          BY <5>1, SessionLockAssumption, FS_Subset, FS_CardinalityType
      <4> QED
        BY <2>1, <4>1
    <3> QED
      BY <1>step, <3>1, <3>2, <3>3 DEF LockTypeOK
  <2>4. writer' <=> In({"writing"})' # {}
    <3>1. \A u, v \in In({"writing"}) : u = v
      BY DEF LockIInv, Exclusion, MutualExclusion, In
    <3>2. writer <=> In({"writing"}) # {}
      BY DEF LockIInv, CountsAreExact
    <3> QED
      BY <1>step, <2>2, <3>1, <3>2 DEF In
  <2>5. Exclusion'
    <3>1. /\ \A u \in User : doing[u] = "writing" => writer
          /\ \A u \in User : doing[u] = "reading" => readers > 0
          /\ writer => readers = 0
          /\ readers \in Nat
      BY <1>0 DEF LockIInv, LockTypeOK, CountsAreExact, Exclusion, In
    <3>2. \A u, v \in User : doing[u] = "writing" /\ doing[v] = "writing" => u = v
      BY DEF LockIInv, Exclusion, MutualExclusion, In
    <3>3. \A u, v \in User : doing'[u] = "writing" /\ doing'[v] \in {"reading", "writing"}
             => u = v
      BY <1>step, <1>others, <3>1, <3>2 DEF WriteFree
    <3>4. writer' => readers' = 0
      <4>1. CASE l = "writing"
        BY <1>step, <3>1, <4>1 DEF WriteFree
      <4>2. CASE l # "writing" /\ writer'
        <5>1. writer /\ l # "reading"
          BY <1>step, <4>2
        <5> QED
          BY <1>step, <3>1, <5>1
      <4> QED
        BY <4>1, <4>2
    <3> QED
      BY <3>3, <3>4 DEF Exclusion, MutualExclusion, In
  <2>6. NoWriterSleepsOnFreeLock'
    <3>1. SUFFICES ASSUME WriteFree', NEW u \in User, doing'[u] = "writeAsleep"
                   PROVE  FALSE
      BY DEF NoWriterSleepsOnFreeLock, In
    <3>2. u # t
      BY <1>step, <1>others, <3>1
    <3>3. CASE WriteFree
      <4>1. doing[u] # "writeAsleep"
        BY <3>3 DEF LockIInv, NoWriterSleepsOnFreeLock, In
      <4>2. doing'[u] \in {doing[u], Woken(doing[u])}
        BY <1>step, <1>others, <3>2
      <4> QED
        BY <3>1, <4>1, <4>2 DEF Woken
    <3>4. CASE ~WriteFree
      BY <1>step, <3>1, <3>2, <3>4 DEF WakeAll, Woken
    <3> QED
      BY <3>3, <3>4
  <2> QED
    BY <2>1, <2>3, <2>4, <2>5, <2>6 DEF LockIInv, CountsAreExact
<1> USE DEF LockIInv, LockTypeOK, WriteFree, ReadFree, WriteWait, ReadWait, Doing
<1>1. ASSUME NEW t \in User, AcquireWrite(t) PROVE LockIInv'
  <2>1. doing[t] = "out" /\ t \notin late
    BY <1>1 DEF AcquireWrite, Enter, In
  <2> QED
    <3>1. CASE WriteFree
      <4>1. Go(t, "writing")
        BY <1>1, <3>1 DEF AcquireWrite
      <4>2. writer' /\ writer' \in BOOLEAN /\ ~WriteFree'
        BY <1>1, <3>1 DEF AcquireWrite
      <4>3. UNCHANGED <<late, readers, writerWaiting>> /\ acquires' \in Nat
        BY <1>1, <3>1 DEF AcquireWrite, Enter
      <4> QED
        BY <1>step, <2>1, <3>1, <4>1, <4>2, <4>3
    <3>2. CASE ~WriteFree
      <4>1. Go(t, "writeAsleep")
        BY <1>1, <3>2 DEF AcquireWrite
      <4> QED
        BY <1>1, <1>step, <2>1, <3>2, <4>1 DEF AcquireWrite, Enter
    <3> QED
      BY <3>1, <3>2
<1>2. ASSUME NEW t \in User, RetryWrite(t) PROVE LockIInv'
  <2>1. CASE WriteFree
    <3>1. Go(t, "writing")
      BY <1>2, <2>1 DEF RetryWrite
    <3>2. writer' /\ writer' \in BOOLEAN /\ ~WriteFree'
      BY <1>2, <2>1 DEF RetryWrite
    <3>3. /\ UNCHANGED <<readers, acquires>>
          /\ writerWaiting' = writerWaiting - 1
          /\ late' = late \ {t}
          /\ doing[t] = "writeWoken"
      BY <1>2, <2>1 DEF RetryWrite
    <3> QED
      BY <1>step, <2>1, <3>1, <3>2, <3>3
  <2>2. CASE ~WriteFree /\ t \in late
    <3>1. Go(t, "out")
      BY <1>2, <2>2 DEF RetryWrite
    <3> QED
      BY <1>2, <1>step, <2>2, <3>1 DEF RetryWrite
  <2>3. CASE ~WriteFree /\ t \notin late
    <3>1. Go(t, "writeAsleep")
      BY <1>2, <2>3 DEF RetryWrite
    <3> QED
      BY <1>2, <1>step, <2>3, <3>1 DEF RetryWrite
  <2> QED
    BY <2>1, <2>2, <2>3
<1>3. ASSUME NEW t \in User, ReleaseWrite(t) PROVE LockIInv'
  <2>1. t \notin late
    BY <1>3 DEF ReleaseWrite, In
  <2> QED
    <3>1. ~writer' /\ writer' \in BOOLEAN
      BY <1>3 DEF ReleaseWrite
    <3>2. WakeAll(t, "out") /\ doing[t] = "writing"
          /\ UNCHANGED <<late, readers, writerWaiting, acquires>>
      BY <1>3 DEF ReleaseWrite
    <3> QED
      BY <1>step, <2>1, <3>1, <3>2
<1>4. ASSUME NEW t \in User, AcquireRead(t) PROVE LockIInv'
  <2>1. doing[t] = "out" /\ t \notin late
    BY <1>4 DEF AcquireRead, Enter, In
  <2> QED
    BY <1>4, <1>step, <2>1 DEF AcquireRead, Enter
<1>5. ASSUME NEW t \in User, RetryRead(t) PROVE LockIInv'
  BY <1>5, <1>step DEF RetryRead
<1>6. ASSUME NEW t \in User, ReleaseRead(t) PROVE LockIInv'
  <2>1. t \notin late
    BY <1>6 DEF ReleaseRead, In
  <2>2. readers > 0
    BY <1>0, <1>6 DEF ReleaseRead, CountsAreExact, In
  <2> QED
    BY <1>6, <1>step, <2>1, <2>2 DEF ReleaseRead
<1>7. ASSUME NEW t \in User, Timeout(t) PROVE LockIInv'
  BY <1>7, <1>step DEF Timeout
<1>8. CASE UNCHANGED lockVars
  BY <1>8 DEF lockVars, CountsAreExact, Exclusion, MutualExclusion,
              NoWriterSleepsOnFreeLock, In
<1> QED
  BY <1>1, <1>2, <1>3, <1>4, <1>5, <1>6, <1>7, <1>8 DEF LockNext

(* The lock keeps its inductive invariant.                                 *)
THEOREM LockInvariance == LockSpec => []LockIInv
<1>1. LockInit => LockIInv
  BY InitLockIInv
<1>2. LockIInv /\ [LockNext]_lockVars => LockIInv'
  BY NextLockIInv
<1> QED
  BY <1>1, <1>2, PTL DEF LockSpec

(* The counters and flags stay well formed; no count goes negative.        *)
THEOREM LockTypeCorrect == LockSpec => []LockTypeOK
BY LockInvariance, PTL DEF LockIInv

(* A writer excludes everyone, for any number of threads.                  *)
THEOREM WriterExcludesEveryone == LockSpec => []MutualExclusion
BY LockInvariance, PTL DEF LockIInv, Exclusion

(* The counts of readers and of waiting writers never drift, whatever      *)
(* acquires time out.                                                      *)
THEOREM CountsNeverDrift == LockSpec => []CountsAreExact
BY LockInvariance, PTL DEF LockIInv

(* A free lock leaves no writer asleep.                                    *)
THEOREM WritersAreWoken == LockSpec => []NoWriterSleepsOnFreeLock
BY LockInvariance, PTL DEF LockIInv

(* A reader is left asleep on a lock it could have by a writer that gives  *)
(* up, and by nothing else.                                                *)
THEOREM StrandedByGivingUp == LockSpec => OnlyGivingUpStrandsReaders
<1>1. LockIInv /\ [LockNext]_lockVars
        => [~ReaderStranded /\ ReaderStranded' =>
              \E t \in late : RetryWrite(t) /\ doing'[t] = "out"]_lockVars
  <2> SUFFICES ASSUME LockIInv, LockNext, ~ReaderStranded, ReaderStranded'
               PROVE  \E t \in late : RetryWrite(t) /\ doing'[t] = "out"
    OBVIOUS
  <2> USE DEF ReaderStranded, ReadFree
  <2>0. doing \in [User -> Doing] /\ readers \in Nat /\ writerWaiting \in Nat
    BY DEF LockIInv, LockTypeOK
  <2>woken. ASSUME NEW t \in User, WakeAll(t, "out") PROVE FALSE
    BY <2>woken DEF WakeAll, Woken, In
  <2>1. ASSUME NEW t \in User, AcquireWrite(t) PROVE FALSE
    BY <2>0, <2>1 DEF AcquireWrite
  <2>2. ASSUME NEW t \in User, RetryWrite(t)
        PROVE  t \in late /\ doing'[t] = "out"
    <3>1. writerWaiting > 0
      <4>1. t \in In(WriteWait)
        BY <2>2 DEF RetryWrite, In, WriteWait
      <4>2. writerWaiting = Cardinality(In(WriteWait))
        BY DEF LockIInv, CountsAreExact
      <4>3. IsFiniteSet(In(WriteWait))
        BY InIsFinite
      <4> QED
        BY <2>0, <4>1, <4>2, <4>3, FS_EmptySet
    <3>2. ~writer' /\ writerWaiting' = 0
      OBVIOUS
    <3> QED
      BY <2>0, <2>2, <3>1, <3>2 DEF RetryWrite, Go
  <2>3. ASSUME NEW t \in User, ReleaseWrite(t) PROVE FALSE
    BY <2>3, <2>woken DEF ReleaseWrite
  <2>4. ASSUME NEW t \in User, AcquireRead(t) PROVE FALSE
    BY <2>0, <2>4 DEF AcquireRead
  <2>5. ASSUME NEW t \in User, RetryRead(t) PROVE FALSE
    <3>1. CASE ReadFree
      BY <2>0, <2>5, <3>1 DEF RetryRead
    <3>2. CASE ~ReadFree
      BY <2>5, <3>2 DEF RetryRead
    <3> QED
      BY <3>1, <3>2
  <2>6. ASSUME NEW t \in User, ReleaseRead(t) PROVE FALSE
    BY <2>6, <2>woken DEF ReleaseRead
  <2>7. ASSUME NEW t \in User, Timeout(t) PROVE FALSE
    <3>1. In({"readAsleep"})' \subseteq In({"readAsleep"})
      BY <2>0, <2>7 DEF Timeout, Go, In
    <3> QED
      BY <2>7, <3>1 DEF Timeout
  <2> QED
    BY <2>1, <2>2, <2>3, <2>4, <2>5, <2>6, <2>7 DEF LockNext
<1> QED
  BY <1>1, LockInvariance, PTL DEF LockSpec, OnlyGivingUpStrandsReaders

(* When everybody in acquire_read() or acquire_write() is asleep and       *)
(* nobody has the lock, only readers are left asleep.                      *)
SleepersAreReaders ==
    (\A t \in User : doing[t] \in {"out", "readAsleep", "writeAsleep"}) =>
        /\ In({"writeAsleep"}) = {}
        /\ In({"readAsleep"}) # {} => ReaderStranded

(* The lock cannot deadlock: it stands still with somebody inside only if  *)
(* every sleeper is a reader whom nothing keeps out.  By the theorem above *)
(* that takes a writer that gave up; the reader's own deadline, or the     *)
(* next release, ends it.                                                  *)
THEOREM LockNeverJams == LockSpec => []SleepersAreReaders
<1>1. LockIInv => SleepersAreReaders
  <2> SUFFICES ASSUME LockIInv,
                      \A t \in User : doing[t] \in {"out", "readAsleep", "writeAsleep"}
               PROVE  /\ In({"writeAsleep"}) = {}
                      /\ In({"readAsleep"}) # {} => ReaderStranded
    BY DEF SleepersAreReaders
  <2>1. In({"writing"}) = {} /\ In({"reading"}) = {}
    BY DEF In
  <2>2. ~writer /\ readers = 0
    BY <2>1, FS_EmptySet DEF LockIInv, CountsAreExact
  <2>3. In({"writeAsleep"}) = {}
    BY <2>2 DEF LockIInv, NoWriterSleepsOnFreeLock, WriteFree
  <2>4. In(WriteWait) = {}
    BY <2>3 DEF In, WriteWait
  <2>5. writerWaiting = 0
    BY <2>4, FS_EmptySet DEF LockIInv, CountsAreExact
  <2> QED
    BY <2>2, <2>3, <2>5 DEF ReaderStranded, ReadFree
<1> QED
  BY <1>1, LockInvariance, PTL

-----------------------------------------------------------------------------
(* The asyncio bridge.  A request is in one place: in the queue of a pool, *)
(* on a thread, or gone.                                                   *)

(* Every member of a pool is there once, in its queue or on a thread. *)
OneByOne(q, S) ==
    /\ \A i, j \in DOMAIN q : q[i] = q[j] => i = j
    /\ \A i \in DOMAIN q : q[i] \notin S

(* The requests that the loop's pool knows of. *)
Asking == Elements(asked) \cup serving

(* What holds of a stream: while it is in the orchestrator's pool its      *)
(* sentinel is still to come; a consumer that waits is known to the loop's *)
(* pool; and whoever waits or will wait finds the sentinel in the end.     *)
StreamKept(s) ==
    /\ s \in Pool => /\ consumer[s] \notin {"new", "refused", "over"}
                     /\ End \notin Elements(queue[s])
    /\ consumer[s] = "new" => End \notin Elements(queue[s])
    /\ consumer[s] = "asking" => s \in Asking
    /\ s \in Asking => consumer[s] \in {"asking", "gone"}
    /\ s \in Asking \/ consumer[s] = "holding" =>
          s \in Pool \/ End \in Elements(queue[s])

(* A call that was submitted is in the pool until it ends or is cancelled. *)
CallKept(c) ==
    /\ call[c] = "submitted" => c \in Pool
    /\ call[c] = "new" => c \notin Pool

(* close() is at most once with the loop's pool, and on a thread of it     *)
(* from when it shuts the orchestrator's pool down.                        *)
CloserKept ==
    /\ closing = "asked" => Closer \in Elements(asked)
    /\ Closer \in Elements(asked) => closing \in {"asked", "cancelled"}
    /\ Closer \in serving => closing = "waiting"

AsyncIInv ==
    /\ AsyncTypeOK
    /\ IsFiniteSet(working) /\ IsFiniteSet(serving)
    /\ OneByOne(waiting, working)
    /\ OneByOne(asked, serving)
    /\ \A s \in Stream : StreamKept(s)
    /\ \A c \in Call : CallKept(c)
    /\ CloserKept

-----------------------------------------------------------------------------
(* Queues as sets: what Append and Tail do to the elements of a sequence,  *)
(* and to the fact that each comes once.                                   *)

(* Appending adds the element. *)
LEMMA ElementsOfAppend ==
    ASSUME NEW S, NEW q \in Seq(S), NEW x \in S
    PROVE  /\ Append(q, x) \in Seq(S)
           /\ Elements(Append(q, x)) = Elements(q) \cup {x}
<1>1. /\ Append(q, x) \in Seq(S)
      /\ Len(Append(q, x)) = Len(q) + 1
      /\ \A i \in 1 .. Len(q) : Append(q, x)[i] = q[i]
      /\ Append(q, x)[Len(q) + 1] = x
  BY AppendProperties
<1>2. /\ DOMAIN q = 1 .. Len(q) /\ Len(q) \in Nat
      /\ DOMAIN Append(q, x) = 1 .. Len(q) + 1
  BY <1>1, LenProperties
<1>. HIDE DEF Elements
<1>3. Elements(Append(q, x)) \subseteq Elements(q) \cup {x}
  BY <1>1, <1>2 DEF Elements
<1>4. Elements(q) \subseteq Elements(Append(q, x))
  <2>. SUFFICES ASSUME NEW i \in DOMAIN q PROVE q[i] \in Elements(Append(q, x))
    BY DEF Elements
  <2>1. i \in DOMAIN Append(q, x) /\ Append(q, x)[i] = q[i]
    BY <1>1, <1>2
  <2> QED
    BY <2>1 DEF Elements
<1>5. x \in Elements(Append(q, x))
  <2>1. Len(q) + 1 \in DOMAIN Append(q, x)
    BY <1>2
  <2> QED
    BY <1>1, <2>1 DEF Elements
<1> QED
  BY <1>1, <1>3, <1>4, <1>5

(* Taking the head leaves the others. *)
LEMMA ElementsOfTail ==
    ASSUME NEW S, NEW q \in Seq(S), q # <<>>
    PROVE  /\ Tail(q) \in Seq(S) /\ Head(q) \in S
           /\ Elements(q) = Elements(Tail(q)) \cup {Head(q)}
<1>1. /\ Tail(q) \in Seq(S) /\ Head(q) \in S /\ Head(q) = q[1]
      /\ Len(Tail(q)) = Len(q) - 1 /\ Len(q) \in Nat \ {0}
      /\ \A i \in 1 .. Len(q) - 1 : Tail(q)[i] = q[i + 1]
  BY HeadTailProperties, EmptySeq, LenProperties
<1>2. DOMAIN q = 1 .. Len(q) /\ DOMAIN Tail(q) = 1 .. Len(q) - 1
  BY <1>1, LenProperties
<1>3. Elements(Tail(q)) \subseteq Elements(q)
  <2>. SUFFICES ASSUME NEW i \in DOMAIN Tail(q) PROVE Tail(q)[i] \in Elements(q)
    BY DEF Elements
  <2>1. i + 1 \in DOMAIN q /\ Tail(q)[i] = q[i + 1]
    BY <1>1, <1>2
  <2> QED
    BY <2>1 DEF Elements
<1>4. Head(q) \in Elements(q)
  <2>1. 1 \in DOMAIN q
    BY <1>1, <1>2
  <2> QED
    BY <1>1, <2>1 DEF Elements
<1>5. ASSUME NEW i \in DOMAIN q
      PROVE  q[i] \in Elements(Tail(q)) \cup {Head(q)}
  <2>1. CASE i = 1
    BY <1>1, <2>1
  <2>2. CASE i # 1
    <3>1. i - 1 \in DOMAIN Tail(q) /\ Tail(q)[i - 1] = q[(i - 1) + 1] /\ (i - 1) + 1 = i
      BY <1>1, <1>2, <2>2
    <3> QED
      BY <3>1 DEF Elements
  <2> QED
    BY <2>1, <2>2
<1>6. Elements(q) \subseteq Elements(Tail(q)) \cup {Head(q)}
  BY <1>5 DEF Elements
<1> QED
  BY <1>1, <1>3, <1>4, <1>6

(* Only an empty queue has no elements. *)
LEMMA EmptyHasNone == ASSUME NEW S, NEW q \in Seq(S)
                      PROVE  q = <<>> <=> Elements(q) = {}
<1>1. DOMAIN q = 1 .. Len(q) /\ Len(q) \in Nat
  BY LenProperties
<1>2. q = <<>> => Elements(q) = {}
  BY DEF Elements
<1>3. ASSUME q # <<>> PROVE Elements(q) # {}
  <2>1. 1 \in DOMAIN q
    BY <1>1, <1>3, EmptySeq
  <2> QED
    BY <2>1 DEF Elements
<1> QED
  BY <1>2, <1>3

(* A newcomer joins the queue of a pool. *)
LEMMA JoinsOnce ==
    ASSUME NEW S, NEW q \in Seq(S), NEW W, OneByOne(q, W),
           NEW x \in S, x \notin Elements(q), x \notin W
    PROVE  OneByOne(Append(q, x), W)
<1>1. /\ Len(Append(q, x)) = Len(q) + 1 /\ Append(q, x) \in Seq(S)
      /\ \A i \in 1 .. Len(q) : Append(q, x)[i] = q[i]
      /\ Append(q, x)[Len(q) + 1] = x
  BY AppendProperties
<1>2. /\ DOMAIN q = 1 .. Len(q) /\ Len(q) \in Nat
      /\ DOMAIN Append(q, x) = 1 .. Len(q) + 1
  BY <1>1, LenProperties
<1>3. \A i \in 1 .. Len(q) : q[i] # x /\ q[i] \notin W
  BY <1>2 DEF Elements, OneByOne
<1>4. \A i, j \in 1 .. Len(q) : q[i] = q[j] => i = j
  BY <1>2 DEF OneByOne
<1>5. \A i \in 1 .. Len(q) + 1 : i \in 1 .. Len(q) \/ i = Len(q) + 1
  BY <1>2
<1>6. \A i \in DOMAIN Append(q, x) : Append(q, x)[i] \notin W
  BY <1>1, <1>2, <1>3, <1>5
<1>7. ASSUME NEW i \in DOMAIN Append(q, x), NEW j \in DOMAIN Append(q, x),
             Append(q, x)[i] = Append(q, x)[j]
      PROVE  i = j
  BY <1>1, <1>2, <1>3, <1>4, <1>5, <1>7
<1> QED
  BY <1>6, <1>7 DEF OneByOne

(* A thread takes the head: it is nowhere else in the queue. *)
LEMMA TakenOnce ==
    ASSUME NEW S, NEW q \in Seq(S), NEW W, OneByOne(q, W), q # <<>>
    PROVE  /\ Head(q) \notin W /\ Head(q) \notin Elements(Tail(q))
           /\ OneByOne(Tail(q), W) /\ OneByOne(Tail(q), W \cup {Head(q)})
<1>1. /\ Head(q) = q[1] /\ Tail(q) \in Seq(S)
      /\ Len(Tail(q)) = Len(q) - 1 /\ Len(q) \in Nat \ {0}
      /\ \A i \in 1 .. Len(q) - 1 : Tail(q)[i] = q[i + 1]
  BY HeadTailProperties, EmptySeq, LenProperties
<1>2. DOMAIN q = 1 .. Len(q) /\ DOMAIN Tail(q) = 1 .. Len(q) - 1
  BY <1>1, LenProperties
<1>3. \A i \in DOMAIN Tail(q) : /\ i + 1 \in DOMAIN q /\ i + 1 # 1 /\ i \in Nat
                                /\ Tail(q)[i] = q[i + 1]
  BY <1>1, <1>2
<1>4. 1 \in DOMAIN q
  BY <1>1, <1>2
<1>5. Head(q) \notin W /\ \A i \in DOMAIN Tail(q) : Tail(q)[i] # Head(q) /\ Tail(q)[i] \notin W
  BY <1>1, <1>3, <1>4 DEF OneByOne
<1>6. \A i, j \in DOMAIN Tail(q) : Tail(q)[i] = Tail(q)[j] => i = j
  <2>. SUFFICES ASSUME NEW i \in DOMAIN Tail(q), NEW j \in DOMAIN Tail(q),
                       Tail(q)[i] = Tail(q)[j]
                PROVE  i = j
    OBVIOUS
  <2>1. i + 1 = j + 1
    BY <1>3 DEF OneByOne
  <2> QED
    BY <1>3, <2>1
<1> QED
  BY <1>5, <1>6 DEF OneByOne, Elements

(* A thread that leaves its request leaves the others where they are. *)
LEMMA FewerOnThreads ==
    ASSUME NEW q, NEW W, NEW V, OneByOne(q, W), V \subseteq W
    PROVE  OneByOne(q, V)
BY DEF OneByOne

(* What a thread runs is not in the queue any more. *)
LEMMA NotInBoth ==
    ASSUME NEW q, NEW W, OneByOne(q, W), NEW x \in W
    PROVE  x \notin Elements(q)
BY DEF OneByOne, Elements

-----------------------------------------------------------------------------
(* The steps of the bridge, one by one.                                    *)

(* At first both pools are empty and nobody asks. *)
LEMMA InitAsyncIInv == AsyncInit => AsyncIInv
<1>. SUFFICES ASSUME AsyncInit PROVE AsyncIInv
  OBVIOUS
<1>1. Elements(<<>>) = {}
  BY DEF Elements
<1>2. IsFiniteSet({}) /\ Cardinality({}) = 0
  BY FS_EmptySet
<1>3. AsyncTypeOK
  <2>1. serving = {} /\ working = {} /\ Cardinality(serving) <= LoopSize /\ Cardinality(working) <= PoolSize
    BY <1>2, AsyncAssumption DEF AsyncInit
  <2>2. queue \in [Stream -> Seq(0 .. MaxEvents)] /\ \A s \in Stream : Len(queue[s]) <= QueueBound
    BY AsyncAssumption DEF AsyncInit
  <2> QED
    BY <2>1, <2>2, AsyncAssumption DEF AsyncInit, AsyncTypeOK
<1>4. OneByOne(waiting, working) /\ OneByOne(asked, serving)
  BY DEF AsyncInit, OneByOne
<1>5. \A s \in Stream : StreamKept(s)
  BY <1>1 DEF AsyncInit, StreamKept, Pool, Asking
<1>6. (\A c \in Call : CallKept(c)) /\ CloserKept
  BY <1>1 DEF AsyncInit, CallKept, CloserKept, Pool
<1> QED
  BY <1>2, <1>3, <1>4, <1>5, <1>6 DEF AsyncInit, AsyncIInv

(* A call that a pool refuses leaves no trace, one that it takes is found  *)
(* in its queue.                                                           *)
LEMMA SubmitStep ==
    ASSUME AsyncIInv, NEW c \in Call, Submit(c)
    PROVE  AsyncIInv'
<1>. USE AsyncAssumption DEF AsyncIInv
<1>1. CASE ShutDown
  <2>1. /\ call' = [call EXCEPT ![c] = "refused"] /\ waiting' = waiting
        /\ UNCHANGED <<working, asked, serving, sent, queue, consumer, closing>>
    BY <1>1 DEF Submit, loopVars
  <2>2. AsyncTypeOK'
    BY <2>1 DEF AsyncTypeOK
  <2>3. /\ (\A s \in Stream : StreamKept(s)') /\ CloserKept'
        /\ \A d \in Call : CallKept(d)'
    BY <2>1 DEF StreamKept, CallKept, CloserKept, Pool, Asking, AsyncTypeOK
  <2> QED
    BY <2>1, <2>2, <2>3
<1>2. CASE ~ShutDown
  <2>1. /\ call' = [call EXCEPT ![c] = "submitted"] /\ waiting' = Append(waiting, c)
        /\ UNCHANGED <<working, asked, serving, sent, queue, consumer, closing>>
    BY <1>2 DEF Submit, loopVars
  <2>2. waiting' \in Seq(Stream \cup Call) /\ Elements(waiting') = Elements(waiting) \cup {c}
    <3>1. waiting \in Seq(Stream \cup Call) /\ c \in Stream \cup Call
      BY DEF AsyncTypeOK
    <3>2. /\ Append(waiting, c) \in Seq(Stream \cup Call)
          /\ Elements(Append(waiting, c)) = Elements(waiting) \cup {c}
      BY <3>1, ElementsOfAppend
    <3> QED
      BY <2>1, <3>2
  <2>3. c \notin Pool
    BY DEF Submit, CallKept
  <2>4. OneByOne(waiting', working)
    BY <2>1, <2>3, JoinsOnce DEF Pool, AsyncTypeOK
  <2>5. AsyncTypeOK'
    BY <2>1, <2>2 DEF AsyncTypeOK
  <2>6. /\ (\A s \in Stream : StreamKept(s)') /\ CloserKept'
        /\ \A d \in Call : CallKept(d)'
    BY <2>1, <2>2 DEF StreamKept, CallKept, CloserKept, Pool, Asking, AsyncTypeOK
  <2> QED
    BY <2>1, <2>4, <2>5, <2>6
<1> QED
  BY <1>1, <1>2

(* A call that returns or raises gives its thread back. *)
LEMMA CallEndsStep ==
    ASSUME AsyncIInv, NEW c \in Call, CallEnds(c)
    PROVE  AsyncIInv'
<1>. USE AsyncAssumption DEF AsyncIInv
<1>1. /\ c \in working /\ working' = working \ {c}
      /\ call' = [call EXCEPT ![c] = IF @ = "submitted" THEN "over" ELSE @]
      /\ UNCHANGED <<waiting, asked, serving, sent, queue, consumer, closing>>
  BY DEF CallEnds, loopVars
<1>2. /\ IsFiniteSet(working') /\ Cardinality(working') <= PoolSize
      /\ working' \subseteq working
  <2>1. IsFiniteSet(working') /\ Cardinality(working') = Cardinality(working) - 1
    BY <1>1, FS_RemoveElement
  <2> QED
    BY <1>1, <2>1, FS_CardinalityType DEF AsyncTypeOK
<1>3. OneByOne(waiting, working')
  BY <1>2, FewerOnThreads
<1>4. AsyncTypeOK'
  BY <1>1, <1>2 DEF AsyncTypeOK
<1>5. (\A s \in Stream : StreamKept(s)') /\ CloserKept'
  BY <1>1 DEF StreamKept, CloserKept, Pool, Asking, AsyncTypeOK
<1>6. \A d \in Call : CallKept(d)'
  BY <1>1 DEF CallKept, Pool, AsyncTypeOK
<1> QED
  BY <1>1, <1>2, <1>3, <1>4, <1>5, <1>6

(* Cancelling the task of a call does not take it out of the pool. *)
LEMMA CancelCallStep ==
    ASSUME AsyncIInv, NEW c \in Call, CancelCall(c)
    PROVE  AsyncIInv'
<1>. USE AsyncAssumption DEF AsyncIInv
<1>1. /\ call[c] = "submitted" /\ call' = [call EXCEPT ![c] = "cancelled"]
      /\ UNCHANGED <<waiting, working, asked, serving, sent, queue, consumer, closing>>
  BY DEF CancelCall, loopVars
<1>2. AsyncTypeOK'
  BY <1>1 DEF AsyncTypeOK
<1>3. (\A s \in Stream : StreamKept(s)') /\ CloserKept'
  BY <1>1 DEF StreamKept, CloserKept, Pool, Asking, AsyncTypeOK
<1>4. \A d \in Call : CallKept(d)'
  BY <1>1 DEF CallKept, Pool, AsyncTypeOK
<1> QED
  BY <1>1, <1>2, <1>3, <1>4

(* A thread takes a request: it was waiting once, so it runs once; only a  *)
(* request that nobody waits for is skipped.                               *)
LEMMA StartStep ==
    ASSUME AsyncIInv, Start
    PROVE  AsyncIInv'
<1>. USE AsyncAssumption DEF AsyncIInv
<1>. DEFINE h == Head(waiting)
<1>1. /\ waiting # <<>> /\ Cardinality(working) < PoolSize /\ waiting' = Tail(waiting)
      /\ working' = IF Cancelled(h) THEN working ELSE working \cup {h}
      /\ UNCHANGED <<asked, serving, sent, queue, consumer, call, closing>>
  BY DEF Start, loopVars
<1>2. /\ waiting' \in Seq(Stream \cup Call) /\ h \in Stream \cup Call
      /\ Elements(waiting) = Elements(waiting') \cup {h}
  BY <1>1, ElementsOfTail DEF AsyncTypeOK
<1>3. /\ h \notin working /\ h \notin Elements(waiting')
      /\ OneByOne(waiting', working) /\ OneByOne(waiting', working \cup {h})
  BY <1>1, TakenOnce DEF AsyncTypeOK
<1>. HIDE DEF h
<1>4. OneByOne(waiting', working')
  BY <1>1, <1>3
<1>5. /\ IsFiniteSet(working') /\ Cardinality(working') <= PoolSize
      /\ working' \subseteq Stream \cup Call
  <2>1. /\ IsFiniteSet(working \cup {h})
        /\ Cardinality(working \cup {h}) = Cardinality(working) + 1
    BY <1>3, FS_AddElement
  <2> QED
    BY <1>1, <1>2, <2>1, FS_CardinalityType DEF AsyncTypeOK
<1>6. AsyncTypeOK'
  BY <1>1, <1>2, <1>5 DEF AsyncTypeOK
<1>7. (\A s \in Stream : StreamKept(s)') /\ CloserKept'
  BY <1>1, <1>2 DEF StreamKept, CloserKept, Pool, Asking, Cancelled, AsyncTypeOK
<1>8. \A d \in Call : CallKept(d)'
  BY <1>1, <1>2 DEF CallKept, Pool, Cancelled, AsyncTypeOK
<1> QED
  BY <1>1, <1>4, <1>5, <1>6, <1>7, <1>8

(* _produce() puts an event, or the sentinel and leaves its thread. *)
LEMMA PutStep ==
    ASSUME AsyncIInv, NEW s \in Stream, Put(s)
    PROVE  AsyncIInv'
<1>. USE AsyncAssumption DEF AsyncIInv
<1>. DEFINE n == sent[s] + 1
<1>1. /\ s \in working /\ Room(s) /\ sent[s] < MaxEvents
      /\ sent' = [sent EXCEPT ![s] = n]
      /\ queue' = [queue EXCEPT ![s] = Append(queue[s], n)]
      /\ UNCHANGED <<waiting, working, asked, serving, consumer, call, closing>>
  BY DEF Put, loopVars, AsyncTypeOK
<1>2. n \in 1 .. MaxEvents /\ queue[s] \in Seq(0 .. MaxEvents)
  BY <1>1 DEF AsyncTypeOK
<1>. HIDE DEF n
<1>3. /\ Append(queue[s], n) \in Seq(0 .. MaxEvents)
      /\ Elements(Append(queue[s], n)) = Elements(queue[s]) \cup {n}
      /\ Len(Append(queue[s], n)) = Len(queue[s]) + 1
  BY <1>2, ElementsOfAppend, AppendProperties
<1>4. /\ queue' \in [Stream -> Seq(0 .. MaxEvents)]
      /\ queue'[s] = Append(queue[s], n)
      /\ \A t \in Stream \ {s} : queue'[t] = queue[t]
  BY <1>1, <1>3 DEF AsyncTypeOK
<1>5. /\ End \in Elements(queue'[s]) <=> End \in Elements(queue[s])
      /\ Len(queue'[s]) <= QueueBound
  BY <1>1, <1>2, <1>3, <1>4, LenProperties DEF End, Room
<1>6. AsyncTypeOK'
  BY <1>1, <1>2, <1>4, <1>5 DEF AsyncTypeOK
<1>7. \A t \in Stream : StreamKept(t)'
  BY <1>1, <1>4, <1>5 DEF StreamKept, Pool, Asking
<1>8. (\A d \in Call : CallKept(d)') /\ CloserKept'
  BY <1>1 DEF CallKept, CloserKept, Pool
<1> QED
  BY <1>1, <1>6, <1>7, <1>8

(* The sentinel is the last thing _produce() puts. *)
LEMMA FinishStep ==
    ASSUME AsyncIInv, NEW s \in Stream, Finish(s)
    PROVE  AsyncIInv'
<1>. USE AsyncAssumption DEF AsyncIInv
<1>1. /\ s \in working /\ Room(s)
      /\ working' = working \ {s}
      /\ queue' = [queue EXCEPT ![s] = Append(queue[s], End)]
      /\ UNCHANGED <<waiting, asked, serving, sent, consumer, call, closing>>
  BY DEF Finish, loopVars, AsyncTypeOK
<1>2. End \in 0 .. MaxEvents /\ queue[s] \in Seq(0 .. MaxEvents)
  BY <1>1 DEF AsyncTypeOK, End
<1>3. /\ Append(queue[s], End) \in Seq(0 .. MaxEvents)
      /\ Elements(Append(queue[s], End)) = Elements(queue[s]) \cup {End}
      /\ Len(Append(queue[s], End)) = Len(queue[s]) + 1
  BY <1>2, ElementsOfAppend, AppendProperties
<1>4. /\ queue' \in [Stream -> Seq(0 .. MaxEvents)]
      /\ queue'[s] = Append(queue[s], End)
      /\ \A t \in Stream \ {s} : queue'[t] = queue[t]
  BY <1>1, <1>3 DEF AsyncTypeOK
<1>5. End \in Elements(queue'[s]) /\ Len(queue'[s]) <= QueueBound
  BY <1>1, <1>2, <1>3, <1>4, LenProperties DEF Room
<1>6. /\ IsFiniteSet(working') /\ Cardinality(working') <= PoolSize
      /\ working' \subseteq working
  <2>1. IsFiniteSet(working') /\ Cardinality(working') = Cardinality(working) - 1
    BY <1>1, FS_RemoveElement
  <2> QED
    BY <1>1, <2>1, FS_CardinalityType DEF AsyncTypeOK
<1>7. OneByOne(waiting, working')
  BY <1>6, FewerOnThreads
<1>8. AsyncTypeOK'
  BY <1>1, <1>4, <1>5, <1>6 DEF AsyncTypeOK
<1>9. \A t \in Stream : StreamKept(t)'
  <2>1. s \notin Pool'
    BY <1>1, NotInBoth DEF Pool
  <2>2. \A t \in Stream \ {s} : t \in Pool' <=> t \in Pool
    BY <1>1 DEF Pool
  <2>3. consumer[s] # "new" /\ (s \in Asking => consumer[s] \in {"asking", "gone"})
    BY <1>1 DEF StreamKept, Pool
  <2>4. StreamKept(s)'
    BY <1>1, <1>5, <2>1, <2>3 DEF StreamKept, Asking
  <2>5. ASSUME NEW t \in Stream \ {s} PROVE StreamKept(t)'
    BY <1>1, <1>4, <2>2 DEF StreamKept, Asking
  <2> QED
    BY <2>4, <2>5
<1>10. (\A d \in Call : CallKept(d)') /\ CloserKept'
  BY <1>1 DEF CallKept, CloserKept, Pool
<1> QED
  BY <1>1, <1>6, <1>7, <1>8, <1>9, <1>10

(* A consumer begins, takes, comes back, or goes. *)
LEMMA OpenStep ==
    ASSUME AsyncIInv, NEW s \in Stream, Open(s)
    PROVE  AsyncIInv'
<1>. USE AsyncAssumption DEF AsyncIInv
<1>0. s \notin Pool /\ s \notin Asking /\ consumer[s] = "new"
  BY DEF Open, StreamKept
<1>1. CASE ShutDown
  <2>1. /\ consumer' = [consumer EXCEPT ![s] = "refused"]
        /\ UNCHANGED <<waiting, working, asked, serving, sent, queue, call, closing>>
    BY <1>1 DEF Open, Turn
  <2>2. AsyncTypeOK'
    BY <2>1 DEF AsyncTypeOK
  <2>3. /\ (\A t \in Stream : StreamKept(t)') /\ CloserKept'
        /\ \A d \in Call : CallKept(d)'
    BY <1>0, <2>1 DEF StreamKept, CallKept, CloserKept, Pool, Asking, AsyncTypeOK
  <2> QED
    BY <2>1, <2>2, <2>3
<1>2. CASE ~ShutDown
  <2>1. /\ consumer' = [consumer EXCEPT ![s] = "asking"]
        /\ waiting' = Append(waiting, s) /\ asked' = Append(asked, s)
        /\ UNCHANGED <<working, serving, sent, queue, call, closing>>
    BY <1>2 DEF Open, Turn
  <2>2. /\ waiting' \in Seq(Stream \cup Call)
        /\ Elements(waiting') = Elements(waiting) \cup {s}
    <3>1. waiting \in Seq(Stream \cup Call) /\ s \in Stream \cup Call
      BY DEF AsyncTypeOK
    <3>2. /\ Append(waiting, s) \in Seq(Stream \cup Call)
          /\ Elements(Append(waiting, s)) = Elements(waiting) \cup {s}
      BY <3>1, ElementsOfAppend
    <3> QED
      BY <2>1, <3>2
  <2>3. /\ asked' \in Seq(Stream \cup {Closer})
        /\ Elements(asked') = Elements(asked) \cup {s}
    <3>1. asked \in Seq(Stream \cup {Closer}) /\ s \in Stream \cup {Closer}
      BY DEF AsyncTypeOK
    <3>2. /\ Append(asked, s) \in Seq(Stream \cup {Closer})
          /\ Elements(Append(asked, s)) = Elements(asked) \cup {s}
      BY <3>1, ElementsOfAppend
    <3> QED
      BY <2>1, <3>2
  <2>4. OneByOne(waiting', working) /\ OneByOne(asked', serving)
    BY <1>0, <2>1, JoinsOnce DEF Pool, Asking, AsyncTypeOK
  <2>5. AsyncTypeOK'
    BY <2>1, <2>2, <2>3 DEF AsyncTypeOK
  <2>6. \A t \in Stream : StreamKept(t)'
    <3>1. StreamKept(s)'
      BY <1>0, <2>1, <2>2, <2>3 DEF StreamKept, Pool, Asking, AsyncTypeOK
    <3>2. ASSUME NEW t \in Stream \ {s} PROVE StreamKept(t)'
      BY <2>1, <2>2, <2>3 DEF StreamKept, Pool, Asking, AsyncTypeOK
    <3> QED
      BY <3>1, <3>2
  <2>7. CloserKept' /\ \A d \in Call : CallKept(d)'
    BY <2>1, <2>2, <2>3 DEF CallKept, CloserKept, Pool, AsyncTypeOK
  <2> QED
    BY <2>1, <2>4, <2>5, <2>6, <2>7
<1> QED
  BY <1>1, <1>2

(* A thread of the loop's pool takes a request, unless its task was        *)
(* cancelled: the one that is skipped is awaited by nobody.                *)
LEMMA ServeStep ==
    ASSUME AsyncIInv, Serve
    PROVE  AsyncIInv'
<1>. USE AsyncAssumption DEF AsyncIInv
<1>. DEFINE h == Head(asked)
<1>1. /\ asked # <<>> /\ Cardinality(serving) < LoopSize /\ asked' = Tail(asked)
      /\ serving' = IF Skipped(h) THEN serving ELSE serving \cup {h}
      /\ closing' = IF h = Closer /\ closing = "asked" THEN "waiting" ELSE closing
      /\ UNCHANGED <<waiting, working, sent, queue, consumer, call>>
  BY DEF Serve
<1>2. /\ asked' \in Seq(Stream \cup {Closer}) /\ h \in Stream \cup {Closer}
      /\ Elements(asked) = Elements(asked') \cup {h}
  BY <1>1, ElementsOfTail DEF AsyncTypeOK
<1>3. /\ h \notin serving /\ h \notin Elements(asked')
      /\ OneByOne(asked', serving) /\ OneByOne(asked', serving \cup {h})
  BY <1>1, TakenOnce DEF AsyncTypeOK
<1>. HIDE DEF h
<1>4. OneByOne(asked', serving')
  BY <1>1, <1>3
<1>5. /\ IsFiniteSet(serving') /\ Cardinality(serving') <= LoopSize
      /\ serving' \subseteq Stream \cup {Closer}
  <2>1. /\ IsFiniteSet(serving \cup {h})
        /\ Cardinality(serving \cup {h}) = Cardinality(serving) + 1
    BY <1>3, FS_AddElement
  <2> QED
    BY <1>1, <1>2, <2>1, FS_CardinalityType DEF AsyncTypeOK
<1>6. AsyncTypeOK'
  BY <1>1, <1>2, <1>5 DEF AsyncTypeOK
<1>7. \A s \in Stream : StreamKept(s)'
  <2>. SUFFICES ASSUME NEW s \in Stream PROVE StreamKept(s)'
    OBVIOUS
  <2>1. s # Closer
    BY DEF Closer
  <2>2. /\ s \in Asking' => s \in Asking
        /\ s \in Asking /\ s \notin Asking' => consumer[s] = "gone"
    BY <1>1, <1>2, <2>1 DEF Asking, Skipped
  <2> QED
    BY <1>1, <2>2 DEF StreamKept, Pool
<1>8. CloserKept'
  BY <1>1, <1>2, <1>3 DEF CloserKept, Skipped
<1>9. \A d \in Call : CallKept(d)'
  BY <1>1 DEF CallKept, Pool
<1> QED
  BY <1>1, <1>4, <1>5, <1>6, <1>7, <1>8, <1>9

(* The get() of a stream returns: it took what its consumer asked for, or  *)
(* what nobody awaits any more.                                            *)
LEMMA TakeStep ==
    ASSUME AsyncIInv, NEW s \in Stream, Take(s)
    PROVE  AsyncIInv'
<1>. USE AsyncAssumption DEF AsyncIInv
<1>. DEFINE l == IF consumer[s] # "asking" THEN consumer[s]
                 ELSE IF Head(queue[s]) = End THEN "over" ELSE "holding"
<1>1. /\ s \in serving /\ queue[s] # <<>>
      /\ queue' = [queue EXCEPT ![s] = Tail(queue[s])]
      /\ serving' = serving \ {s}
      /\ consumer' = [consumer EXCEPT ![s] = l]
      /\ UNCHANGED <<waiting, working, asked, sent, call, closing>>
  BY DEF Take, Turn, AsyncTypeOK
<1>2. /\ Tail(queue[s]) \in Seq(0 .. MaxEvents)
      /\ Elements(queue[s]) = Elements(Tail(queue[s])) \cup {Head(queue[s])}
      /\ Len(Tail(queue[s])) = Len(queue[s]) - 1 /\ Len(queue[s]) \in Nat
  BY <1>1, ElementsOfTail, HeadTailProperties, LenProperties, EmptySeq DEF AsyncTypeOK
<1>3. /\ queue' \in [Stream -> Seq(0 .. MaxEvents)]
      /\ queue'[s] = Tail(queue[s])
      /\ \A t \in Stream \ {s} : queue'[t] = queue[t] /\ consumer'[t] = consumer[t]
      /\ consumer'[s] = l
  BY <1>1, <1>2 DEF AsyncTypeOK
<1>4. consumer[s] \in {"asking", "gone"} /\ s \notin Elements(asked)
  BY <1>1, NotInBoth DEF StreamKept, Asking
<1>5. /\ consumer[s] = "gone" => l = "gone"
      /\ consumer[s] = "asking" /\ Head(queue[s]) = End => l = "over"
      /\ consumer[s] = "asking" /\ Head(queue[s]) # End => l = "holding"
  BY <1>4
<1>. HIDE DEF l
<1>6. /\ IsFiniteSet(serving') /\ Cardinality(serving') <= LoopSize
      /\ serving' \subseteq serving
  <2>1. IsFiniteSet(serving') /\ Cardinality(serving') = Cardinality(serving) - 1
    BY <1>1, FS_RemoveElement
  <2> QED
    BY <1>1, <2>1, FS_CardinalityType DEF AsyncTypeOK
<1>7. OneByOne(asked, serving')
  BY <1>6, FewerOnThreads
<1>8. AsyncTypeOK'
  BY <1>1, <1>2, <1>3, <1>4, <1>5, <1>6 DEF AsyncTypeOK
<1>9. StreamKept(s)'
  <2>1. s \notin Asking'
    BY <1>1, <1>4 DEF Asking
  <2>2. Head(queue[s]) = End => s \notin Pool
    BY <1>2 DEF StreamKept
  <2>3. s \in Pool' <=> s \in Pool
    BY <1>1 DEF Pool
  <2> QED
    BY <1>1, <1>2, <1>3, <1>4, <1>5, <2>1, <2>2, <2>3 DEF StreamKept, Asking
<1>10. ASSUME NEW t \in Stream \ {s} PROVE StreamKept(t)'
  BY <1>1, <1>3 DEF StreamKept, Pool, Asking
<1>11. CloserKept'
  BY <1>1 DEF CloserKept, Closer
<1>12. \A d \in Call : CallKept(d)'
  BY <1>1 DEF CallKept, Pool
<1> QED
  BY <1>1, <1>6, <1>7, <1>8, <1>9, <1>10, <1>11, <1>12

(* A consumer asks for the next event, which the loop's pool notes. *)
LEMMA ResumeStep ==
    ASSUME AsyncIInv, NEW s \in Stream, Resume(s)
    PROVE  AsyncIInv'
<1>. USE AsyncAssumption DEF AsyncIInv
<1>1. /\ consumer[s] = "holding"
      /\ consumer' = [consumer EXCEPT ![s] = "asking"]
      /\ asked' = Append(asked, s)
      /\ UNCHANGED <<waiting, working, serving, sent, queue, call, closing>>
  BY DEF Resume, Turn
<1>2. s \notin Asking
  BY <1>1 DEF StreamKept
<1>3. asked \in Seq(Stream \cup {Closer}) /\ s \in Stream \cup {Closer}
  BY DEF AsyncTypeOK
<1>4. /\ asked' \in Seq(Stream \cup {Closer})
      /\ Elements(asked') = Elements(asked) \cup {s}
  BY <1>1, <1>3, ElementsOfAppend
<1>5. OneByOne(asked', serving)
  BY <1>1, <1>2, <1>3, JoinsOnce DEF Asking
<1>6. AsyncTypeOK'
  BY <1>1, <1>4 DEF AsyncTypeOK
<1>7. StreamKept(s)'
  BY <1>1, <1>4 DEF StreamKept, Pool, Asking, AsyncTypeOK
<1>8. ASSUME NEW t \in Stream \ {s} PROVE StreamKept(t)'
  BY <1>1, <1>4 DEF StreamKept, Pool, Asking, AsyncTypeOK
<1>9. CloserKept'
  BY <1>1, <1>4 DEF CloserKept, Closer
<1>10. \A d \in Call : CallKept(d)'
  BY <1>1 DEF CallKept, Pool
<1> QED
  BY <1>1, <1>5, <1>6, <1>7, <1>8, <1>9, <1>10

(* A consumer that goes changes neither pool: nothing tells them. *)
LEMMA LeaveStep ==
    ASSUME AsyncIInv, NEW s \in Stream, Leave(s)
    PROVE  AsyncIInv'
<1>. USE AsyncAssumption DEF AsyncIInv
<1>1. /\ consumer[s] \in {"asking", "holding"}
      /\ consumer' = [consumer EXCEPT ![s] = "gone"]
      /\ UNCHANGED <<waiting, working, asked, serving, sent, queue, call, closing>>
  BY DEF Leave, Turn, loopVars
<1>2. AsyncTypeOK'
  BY <1>1 DEF AsyncTypeOK
<1>3. \A t \in Stream : StreamKept(t)'
  BY <1>1 DEF StreamKept, Pool, Asking, AsyncTypeOK
<1>4. CloserKept' /\ \A d \in Call : CallKept(d)'
  BY <1>1 DEF CallKept, CloserKept, Pool
<1> QED
  BY <1>1, <1>2, <1>3, <1>4

(* close(): asked for, cancelled, begun and done. *)
LEMMA CloseSteps ==
    ASSUME AsyncIInv, SyncClose \/ AsyncClose \/ CancelClose \/ Closed
    PROVE  AsyncIInv'
<1>. USE AsyncAssumption DEF AsyncIInv
<1>1. CASE SyncClose
  <2>1. /\ closing = "no" /\ closing' = "waiting"
        /\ UNCHANGED <<waiting, working, asked, serving, sent, queue, consumer, call>>
    BY <1>1 DEF SyncClose, loopVars
  <2>2. AsyncTypeOK' /\ CloserKept'
    BY <2>1 DEF AsyncTypeOK, CloserKept
  <2>3. (\A s \in Stream : StreamKept(s)') /\ \A c \in Call : CallKept(c)'
    BY <2>1 DEF StreamKept, CallKept, Pool, Asking
  <2> QED
    BY <2>1, <2>2, <2>3
<1>2. CASE AsyncClose
  <2>1. /\ closing = "no" /\ closing' = "asked" /\ asked' = Append(asked, Closer)
        /\ UNCHANGED <<waiting, working, serving, sent, queue, consumer, call>>
    BY <1>2 DEF AsyncClose
  <2>2. Closer \notin Asking
    BY <2>1 DEF CloserKept, Asking
  <2>3. asked \in Seq(Stream \cup {Closer}) /\ Closer \in Stream \cup {Closer}
    BY DEF AsyncTypeOK
  <2>4. /\ asked' \in Seq(Stream \cup {Closer})
        /\ Elements(asked') = Elements(asked) \cup {Closer}
    BY <2>1, <2>3, ElementsOfAppend
  <2>5. OneByOne(asked', serving)
    BY <2>1, <2>2, <2>3, JoinsOnce DEF Asking
  <2>6. AsyncTypeOK' /\ CloserKept'
    BY <2>1, <2>2, <2>4 DEF AsyncTypeOK, CloserKept, Asking
  <2>7. (\A s \in Stream : StreamKept(s)') /\ \A c \in Call : CallKept(c)'
    BY <2>1, <2>4 DEF StreamKept, CallKept, Pool, Asking
  <2> QED
    BY <2>1, <2>5, <2>6, <2>7
<1>3. CASE CancelClose
  <2>1. /\ closing = "asked" /\ closing' = "cancelled"
        /\ UNCHANGED <<waiting, working, asked, serving, sent, queue, consumer, call>>
    BY <1>3 DEF CancelClose, loopVars
  <2>2. AsyncTypeOK' /\ CloserKept'
    BY <2>1 DEF AsyncTypeOK, CloserKept
  <2>3. (\A s \in Stream : StreamKept(s)') /\ \A c \in Call : CallKept(c)'
    BY <2>1 DEF StreamKept, CallKept, Pool, Asking
  <2> QED
    BY <2>1, <2>2, <2>3
<1>4. CASE Closed
  <2>1. /\ closing = "waiting" /\ closing' = "closed" /\ serving' = serving \ {Closer}
        /\ UNCHANGED <<waiting, working, asked, sent, queue, consumer, call>>
    BY <1>4 DEF Closed
  <2>2. /\ IsFiniteSet(serving') /\ Cardinality(serving') <= LoopSize
        /\ serving' \subseteq serving
    <3>1. /\ IsFiniteSet(serving')
          /\ Cardinality(serving') = IF Closer \in serving THEN Cardinality(serving) - 1
                                                           ELSE Cardinality(serving)
      BY <2>1, FS_RemoveElement
    <3> QED
      BY <2>1, <3>1, FS_CardinalityType DEF AsyncTypeOK
  <2>3. OneByOne(asked, serving')
    BY <2>2, FewerOnThreads
  <2>4. AsyncTypeOK' /\ CloserKept'
    BY <2>1, <2>2 DEF AsyncTypeOK, CloserKept
  <2>5. (\A s \in Stream : StreamKept(s)') /\ \A c \in Call : CallKept(c)'
    BY <2>1 DEF StreamKept, CallKept, Pool, Asking
  <2> QED
    BY <2>1, <2>2, <2>3, <2>4, <2>5
<1> QED
  BY <1>1, <1>2, <1>3, <1>4

(* Submissions, events, cancellations and close() keep every request in    *)
(* one place, and everybody who waits known to who will answer.            *)
THEOREM AsyncInvariance == AsyncSpec => []AsyncIInv
<1>1. AsyncIInv /\ UNCHANGED asyncVars => AsyncIInv'
  BY DEF AsyncIInv, AsyncTypeOK, OneByOne, StreamKept, CallKept, CloserKept,
         Elements, Pool, Asking, asyncVars, loopVars
<1>2. AsyncIInv /\ AsyncNext => AsyncIInv'
  BY SubmitStep, CallEndsStep, CancelCallStep, StartStep, PutStep, FinishStep,
     OpenStep, ServeStep, TakeStep, ResumeStep, LeaveStep, CloseSteps
     DEF AsyncNext, Produce
<1> QED
  BY InitAsyncIInv, <1>1, <1>2, PTL DEF AsyncSpec

-----------------------------------------------------------------------------
(* Why a bridge that stands still is jammed.                               *)

(* A thread that works is stalled by a consumer that has gone, or by one   *)
(* that asks and finds every thread of the loop's pool taken.              *)
LEMMA StillStalls ==
    ASSUME AsyncIInv, Still, NEW w \in working
    PROVE  /\ w \in Stream /\ Stalled(w)
           /\ Abandoned(w) \/ (w \in Elements(asked) /\ Cardinality(serving) = LoopSize)
<1>1. w \in Stream /\ ~Room(w)
  BY DEF Still
<1>2. queue[w] # <<>>
  BY <1>1, AsyncAssumption, EmptySeq DEF Room, AsyncIInv, AsyncTypeOK
<1>3. w \notin serving
  <2>1. w # Closer
    BY <1>1, AsyncAssumption
  <2> QED
    BY <1>2, <2>1 DEF Still
<1>4. Stalled(w)
  BY <1>1, <1>3 DEF Stalled
<1>5. StreamKept(w) /\ w \in Pool /\ consumer[w] # "holding"
  BY <1>1 DEF AsyncIInv, Pool, Still
<1>6. consumer[w] \in {"asking", "gone"}
  BY <1>1, <1>5 DEF StreamKept, AsyncIInv, AsyncTypeOK
<1>7. consumer[w] = "asking" => w \in Elements(asked) /\ Cardinality(serving) = LoopSize
  <2>. SUFFICES ASSUME consumer[w] = "asking"
                PROVE  w \in Elements(asked) /\ Cardinality(serving) = LoopSize
    OBVIOUS
  <2>1. w \in Elements(asked)
    BY <1>3, <1>5 DEF StreamKept, Asking
  <2>2. asked # <<>>
    BY <2>1 DEF Elements
  <2> QED
    BY <2>1, <2>2 DEF Still
<1> QED
  BY <1>1, <1>4, <1>6, <1>7 DEF Abandoned

(* When all threads of the loop's pool are taken, one of them waits for a  *)
(* stream that the orchestrator's pool has not begun.                      *)
LEMMA FullWaitsForUnbegun ==
    ASSUME AsyncIInv, Still, Cardinality(serving) = LoopSize
    PROVE  LoopFull /\ Cardinality(working) = PoolSize
<1>1. PICK x \in serving : x # Closer
  <2>. SUFFICES ASSUME serving \subseteq {Closer} PROVE FALSE
    OBVIOUS
  <2>1. IsFiniteSet({Closer}) /\ Cardinality({Closer}) = 1
    BY FS_Singleton
  <2>2. Cardinality(serving) <= 1
    BY <2>1, FS_Subset
  <2> QED
    BY <2>2, AsyncAssumption
<1>2. ASSUME NEW y \in serving \ {Closer}
      PROVE  /\ y \in Stream /\ queue[y] = <<>> /\ y \notin working /\ y \in Elements(waiting)
  <2>1. y \in Stream /\ queue[y] = <<>>
    BY DEF Still, AsyncIInv, AsyncTypeOK
  <2>2. Room(y)
    BY <2>1, EmptySeq, AsyncAssumption DEF Room
  <2>3. y \notin working
    BY <2>2 DEF Still
  <2>4. y \in Pool
    <3>1. StreamKept(y) /\ y \in Asking
      BY <2>1 DEF AsyncIInv, Asking
    <3>2. End \notin Elements(queue[y])
      BY <2>1 DEF Elements
    <3> QED
      BY <3>1, <3>2 DEF StreamKept
  <2> QED
    BY <2>1, <2>3, <2>4 DEF Pool
<1>3. LoopFull
  BY <1>2 DEF LoopFull
<1>4. waiting # <<>>
  BY <1>1, <1>2 DEF Elements
<1> QED
  BY <1>3, <1>4 DEF Still

(* So when every thread of the orchestrator's pool is taken and nothing    *)
(* moves, the bridge is jammed.                                            *)
LEMMA StillIsJammed ==
    ASSUME AsyncIInv, Still, Cardinality(working) = PoolSize
    PROVE  Jammed
BY StillStalls, FullWaitsForUnbegun DEF Jammed

(* Whoever waits in a bridge that stands still waits behind a jam. *)
LEMMA JamsBlock == AsyncIInv => OnlyJamsBlock
<1>. SUFFICES ASSUME AsyncIInv, Still
              PROVE  /\ (\/ \E s \in Stream : consumer[s] = "asking"
                         \/ \E c \in Call : call[c] = "submitted") => Jammed
                     /\ closing \in {"asked", "waiting"}
                            => Jammed \/ \E s \in Stream : Abandoned(s)
  BY DEF OnlyJamsBlock
<1>1. asked # <<>> => Jammed
  BY FullWaitsForUnbegun, StillIsJammed DEF Still
<1>2. waiting # <<>> => Jammed
  BY StillIsJammed DEF Still
<1>3. ASSUME NEW s \in Stream, consumer[s] = "asking" PROVE Jammed
  <2>1. StreamKept(s) /\ s # Closer
    BY AsyncAssumption DEF AsyncIInv
  <2>2. CASE s \in Elements(asked)
    BY <1>1, <2>2 DEF Elements
  <2>3. CASE s \in serving
    <3>1. queue[s] = <<>> /\ s \notin working
      <4>1. queue[s] = <<>>
        BY <2>1, <2>3 DEF Still
      <4> QED
        BY <4>1, EmptySeq, AsyncAssumption DEF Still, Room
    <3>2. s \in Pool
      BY <1>3, <2>1, <3>1 DEF StreamKept, Elements, Asking
    <3>3. waiting # <<>>
      BY <3>1, <3>2 DEF Pool, Elements
    <3> QED
      BY <1>2, <3>3
  <2> QED
    BY <1>3, <2>1, <2>2, <2>3 DEF StreamKept, Asking
<1>4. ASSUME NEW c \in Call, call[c] = "submitted" PROVE Jammed
  <2>1. c \in Pool /\ c \notin Stream
    BY <1>4, AsyncAssumption DEF AsyncIInv, CallKept
  <2>2. c \notin working
    BY <2>1 DEF Still
  <2>3. waiting # <<>>
    BY <2>1, <2>2 DEF Pool, Elements
  <2> QED
    BY <1>2, <2>3
<1>5. closing = "asked" => Jammed
  BY <1>1 DEF AsyncIInv, CloserKept, Elements
<1>6. ASSUME closing = "waiting" PROVE Jammed \/ \E s \in Stream : Abandoned(s)
  <2>1. CASE waiting # <<>>
    BY <1>2, <2>1
  <2>2. CASE waiting = <<>>
    <3>1. PICK w \in working : TRUE
      BY <1>6, <2>2 DEF Still
    <3>2. Abandoned(w) \/ Cardinality(serving) = LoopSize
      BY StillStalls
    <3> QED
      BY <3>1, <3>2, StillStalls, FullWaitsForUnbegun, StillIsJammed
  <2> QED
    BY <2>1, <2>2
<1> QED
  BY <1>3, <1>4, <1>5, <1>6

-----------------------------------------------------------------------------
(* The pools of the asyncio bridge never run more than their threads, and  *)
(* no stream's queue exceeds its maxsize.                                  *)
THEOREM AsyncTypeCorrect == AsyncSpec => []AsyncTypeOK
<1>1. AsyncIInv => AsyncTypeOK
  BY DEF AsyncIInv
<1> QED
  BY <1>1, AsyncInvariance, PTL

(* async_dispatch() and async_dispatch_stream() block for ever only in a   *)
(* jam: with every thread of the orchestrator's pool held by a stream      *)
(* whose queue is full and whose consumer has gone, or with the loop's     *)
(* pool full of get()s for streams that have not begun.  For any sizes of  *)
(* the pools and the queue, and any calls and streams.                     *)
THEOREM OnlyJams == AsyncSpec => []OnlyJamsBlock
BY JamsBlock, AsyncInvariance, PTL

(* Whoever is to be answered is known to who will: a submitted call to the *)
(* orchestrator's pool, a consumer that asks to the loop's pool, where an  *)
(* event or the sentinel is still to come; close() to the loop's pool.     *)
NothingForgotten ==
    /\ \A c \in Call : call[c] = "submitted" => c \in Pool
    /\ \A s \in Stream : consumer[s] = "asking" =>
          s \in Asking /\ (s \in Pool \/ End \in Elements(queue[s]))
    /\ closing = "asked" => Closer \in Elements(asked)

(* No request is lost between a caller and the pools, whatever is          *)
(* cancelled, abandoned or closed meanwhile.                               *)
THEOREM NobodyIsForgotten == AsyncSpec => []NothingForgotten
<1>1. AsyncIInv => NothingForgotten
  BY DEF AsyncIInv, StreamKept, CallKept, CloserKept, NothingForgotten, Asking
<1> QED
  BY <1>1, AsyncInvariance, PTL

-----------------------------------------------------------------------------
(* What the model checker's CallersServed and CloseReturns rest on, for    *)
(* any pools and any number of calls and streams: unless somebody new      *)
(* calls or goes, the bridge comes to stand still, and OnlyJams says of a  *)
(* bridge that stands still whom it has left waiting.                      *)

Opened == {s \in Stream : consumer[s] \notin {"new", "refused"}}

(* Events that a stream may yet put, and those that its queue holds.       *)
Unsent == {u \in Opened \X (1 .. MaxEvents) : sent[u[1]] < u[2]}
Stocked == {u \in Opened \X (1 .. QueueBound) : u[2] <= Len(queue[u[1]])}
Holding == {s \in Opened : consumer[s] = "holding"}

(* What the pools may yet do.  Each step of theirs lowers the first entry  *)
(* that it changes: an event that is put is one less to come and one more  *)
(* in the queue, one that is taken makes its consumer come back.           *)
Backlog == <<Len(waiting), Cardinality(Unsent), Cardinality(working),
             Cardinality(Stocked), Cardinality(Holding), Len(asked),
             IF closing = "waiting" THEN 1 ELSE 0>>

Descends(new, old) ==
    \E i \in DOMAIN old : new[i] < old[i] /\ \A j \in 1 .. (i - 1) : new[j] = old[j]

(* What the threads of the pools do, and the consumers that stay.          *)
PoolStep ==
    \/ \E c \in Call : CallEnds(c)
    \/ \E s \in Stream : Produce(s) \/ Take(s) \/ Resume(s)
    \/ Start \/ Serve \/ Closed

Settling == PoolStep => ~Still /\ Descends(Backlog', Backlog)

PoolsSettle == [][Settling]_asyncVars

BacklogNatural == \A i \in DOMAIN Backlog : Backlog[i] \in Nat

(* However many streams there may be, finitely many have been opened.      *)
OpenedIsFinite == IsFiniteSet(Opened)

(* A row that is lower at one place and equal before it. *)
LEMMA LowerAt ==
    ASSUME NEW new, NEW old, DOMAIN old = 1 .. 7, NEW i \in 1 .. 7,
           new[i] < old[i], \A j \in 1 .. 7 : j < i => new[j] = old[j]
    PROVE  Descends(new, old)
<1>1. \A j \in 1 .. (i - 1) : new[j] = old[j]
  OBVIOUS
<1> QED
  BY <1>1 DEF Descends

(* The backlog, entry by entry, before and after a step. *)
LEMMA BacklogIs ==
    /\ DOMAIN Backlog = 1 .. 7
    /\ Backlog[1] = Len(waiting) /\ Backlog'[1] = Len(waiting')
    /\ Backlog[2] = Cardinality(Unsent) /\ Backlog'[2] = Cardinality(Unsent')
    /\ Backlog[3] = Cardinality(working) /\ Backlog'[3] = Cardinality(working')
    /\ Backlog[4] = Cardinality(Stocked) /\ Backlog'[4] = Cardinality(Stocked')
    /\ Backlog[5] = Cardinality(Holding) /\ Backlog'[5] = Cardinality(Holding')
    /\ Backlog[6] = Len(asked) /\ Backlog'[6] = Len(asked')
    /\ Backlog[7] = (IF closing = "waiting" THEN 1 ELSE 0)
    /\ Backlog'[7] = (IF closing' = "waiting" THEN 1 ELSE 0)
BY DEF Backlog

(* The backlog is finite. *)
LEMMA BacklogFinite ==
    ASSUME AsyncIInv, OpenedIsFinite
    PROVE  /\ IsFiniteSet(Unsent) /\ IsFiniteSet(Stocked) /\ IsFiniteSet(Holding)
           /\ IsFiniteSet(working)
<1>1. IsFiniteSet(1 .. MaxEvents) /\ IsFiniteSet(1 .. QueueBound)
  BY FS_Interval, AsyncAssumption
<1>2. IsFiniteSet(Opened)
  BY DEF OpenedIsFinite
<1> DEFINE E == 1 .. MaxEvents
           Q == 1 .. QueueBound
<1>3. IsFiniteSet(Opened \X E) /\ IsFiniteSet(Opened \X Q)
  <2>1. IsFiniteSet(E) /\ IsFiniteSet(Q)
    BY <1>1
  <2> HIDE DEF E, Q
  <2> QED
    BY <1>2, <2>1, FS_Product
<1>4. Unsent \subseteq Opened \X E /\ Stocked \subseteq Opened \X Q /\ Holding \subseteq Opened
  BY DEF Unsent, Stocked, Holding
<1> HIDE DEF E, Q
<1>5. IsFiniteSet(Unsent) /\ IsFiniteSet(Stocked) /\ IsFiniteSet(Holding)
  BY <1>2, <1>3, <1>4, FS_Subset
<1> QED
  BY <1>5 DEF AsyncIInv

(* A proper part of a finite set is smaller. *)
LEMMA PartIsSmaller ==
    ASSUME NEW S, IsFiniteSet(S), NEW T, T \subseteq S, NEW x \in S, x \notin T
    PROVE  Cardinality(T) < Cardinality(S)
<1>1. IsFiniteSet(S \ {x}) /\ Cardinality(S \ {x}) = Cardinality(S) - 1
  BY FS_RemoveElement
<1>2. T \subseteq S \ {x}
  OBVIOUS
<1>3. IsFiniteSet(T) /\ Cardinality(T) <= Cardinality(S \ {x})
  BY <1>1, <1>2, FS_Subset
<1>4. Cardinality(S) \in Nat /\ Cardinality(T) \in Nat
  BY <1>3, FS_CardinalityType
<1> QED
  BY <1>1, <1>3, <1>4

(* A bridge that stands still takes no step of its own. *)
LEMMA StillStands == ASSUME AsyncIInv, Still PROVE ~PoolStep
<1>1. ASSUME NEW c \in Call, CallEnds(c) PROVE FALSE
  BY <1>1, AsyncAssumption DEF CallEnds, Still
<1>2. ASSUME NEW s \in Stream, Produce(s) \/ Take(s) \/ Resume(s) PROVE FALSE
  <2>1. ~Produce(s)
    BY DEF Produce, Put, Finish, Still
  <2>2. s # Closer
    BY AsyncAssumption
  <2>3. ~Take(s)
    BY <2>2 DEF Take, Still
  <2>4. ~Resume(s)
    BY DEF Resume, Still
  <2> QED
    BY <1>2, <2>1, <2>3, <2>4
<1>3. ~Closed
  BY DEF Closed, Still
<1>4. ~Start
  <2>1. Cardinality(working) = PoolSize => ~(Cardinality(working) < PoolSize)
    BY AsyncAssumption
  <2> QED
    BY <2>1 DEF Start, Still
<1>5. ~Serve
  <2>1. Cardinality(serving) = LoopSize => ~(Cardinality(serving) < LoopSize)
    BY AsyncAssumption
  <2> QED
    BY <2>1 DEF Serve, Still
<1> QED
  BY <1>1, <1>2, <1>3, <1>4, <1>5 DEF PoolStep

(* A thread that begins a request, or skips one, leaves fewer waiting.     *)
LEMMA StartSettles == ASSUME AsyncIInv, Start PROVE Descends(Backlog', Backlog)
<1>1. waiting \in Seq(Stream \cup Call) /\ waiting # <<>> /\ waiting' = Tail(waiting)
  BY DEF Start, AsyncIInv, AsyncTypeOK
<1>2. Len(waiting') = Len(waiting) - 1 /\ Len(waiting) \in Nat
  BY <1>1, HeadTailProperties, LenProperties
<1>3. Backlog'[1] < Backlog[1]
  BY <1>2, BacklogIs
<1>4. \A j \in 1 .. 7 : ~(j < 1)
  OBVIOUS
<1> QED
  BY <1>3, <1>4, BacklogIs, LowerAt

(* As long as nobody opens a stream or puts an event, as many are to come. *)
LEMMA UnsentKept ==
    ASSUME UNCHANGED sent, Opened' = Opened PROVE Unsent' = Unsent
BY DEF Unsent

(* A producer puts one of the events that were still to come.              *)
LEMMA PutSettles ==
    ASSUME AsyncIInv, OpenedIsFinite, NEW s \in Stream, Put(s)
    PROVE  Descends(Backlog', Backlog)
<1>1. /\ s \in working /\ sent[s] < MaxEvents /\ sent[s] \in Nat /\ MaxEvents \in Nat
      /\ sent' = [sent EXCEPT ![s] = sent[s] + 1]
      /\ UNCHANGED <<waiting, consumer>>
  BY AsyncAssumption DEF Put, AsyncIInv, AsyncTypeOK
<1>2. sent'[s] = sent[s] + 1 /\ \A u \in Stream \ {s} : sent'[u] = sent[u]
  BY <1>1 DEF AsyncIInv, AsyncTypeOK
<1>3. s \in Opened /\ Opened' = Opened
  BY <1>1 DEF AsyncIInv, StreamKept, Pool, Opened
<1> DEFINE x == <<s, sent[s] + 1>>
<1>4. x \in Unsent /\ x \notin Unsent'
  <2>1. sent[s] + 1 \in 1 .. MaxEvents /\ sent[s] < sent[s] + 1
    BY <1>1
  <2>2. x \in Unsent
    BY <1>3, <2>1 DEF Unsent
  <2>3. ~(sent'[s] < sent[s] + 1)
    BY <1>1, <1>2
  <2> QED
    BY <2>2, <2>3 DEF Unsent
<1>5. Unsent' \subseteq Unsent
  <2> SUFFICES ASSUME NEW u \in Unsent' PROVE u \in Unsent
    OBVIOUS
  <2>1. u \in Opened \X (1 .. MaxEvents) /\ sent'[u[1]] < u[2]
    BY <1>3 DEF Unsent
  <2>2. u[1] \in Stream /\ u[2] \in Nat /\ sent[u[1]] \in Nat
    <3>1. u[1] \in Stream /\ u[2] \in 1 .. MaxEvents
      BY <2>1 DEF Opened
    <3> QED
      BY <3>1 DEF AsyncIInv, AsyncTypeOK
  <2>3. sent[u[1]] < u[2]
    <3>1. CASE u[1] = s
      BY <1>1, <1>2, <2>1, <2>2, <3>1
    <3>2. CASE u[1] # s
      BY <1>2, <2>1, <2>2, <3>2
    <3> QED
      BY <3>1, <3>2
  <2> QED
    BY <2>1, <2>3 DEF Unsent
<1> HIDE DEF x
<1>6. Cardinality(Unsent') < Cardinality(Unsent)
  BY <1>4, <1>5, BacklogFinite, PartIsSmaller
<1>7. Backlog'[2] < Backlog[2] /\ Backlog'[1] = Backlog[1]
  BY <1>1, <1>6, BacklogIs
<1>8. \A j \in 1 .. 7 : j < 2 => j = 1
  OBVIOUS
<1> QED
  BY <1>7, <1>8, BacklogIs, LowerAt

(* A thread that is done with its request is free. *)
LEMMA FreeSettles ==
    ASSUME AsyncIInv, OpenedIsFinite, NEW x \in working, working' = working \ {x},
           UNCHANGED <<waiting, sent, consumer>>
    PROVE  Descends(Backlog', Backlog)
<1>1. Unsent' = Unsent
  BY UnsentKept DEF Opened
<1>2. Cardinality(working') < Cardinality(working)
  BY BacklogFinite, PartIsSmaller
<1>3. Backlog'[3] < Backlog[3] /\ Backlog'[1] = Backlog[1] /\ Backlog'[2] = Backlog[2]
  BY <1>1, <1>2, BacklogIs
<1>4. \A j \in 1 .. 7 : j < 3 => j = 1 \/ j = 2
  OBVIOUS
<1> QED
  BY <1>3, <1>4, BacklogIs, LowerAt

(* A get() takes one of the events that are in the queue. *)
LEMMA TakeSettles ==
    ASSUME AsyncIInv, OpenedIsFinite, NEW s \in Stream, Take(s)
    PROVE  Descends(Backlog', Backlog)
<1>1. /\ s \in serving /\ queue[s] # <<>> /\ queue' = [queue EXCEPT ![s] = Tail(queue[s])]
      /\ queue[s] \in Seq(0 .. MaxEvents) /\ Len(queue[s]) <= QueueBound
      /\ UNCHANGED <<waiting, working, sent>>
  BY DEF Take, AsyncIInv, AsyncTypeOK
<1>2. /\ queue'[s] = Tail(queue[s]) /\ \A u \in Stream \ {s} : queue'[u] = queue[u]
      /\ Len(Tail(queue[s])) = Len(queue[s]) - 1 /\ Len(queue[s]) \in Nat \ {0}
  <2>1. /\ queue'[s] = Tail(queue[s]) /\ \A u \in Stream \ {s} : queue'[u] = queue[u]
    BY <1>1 DEF AsyncIInv, AsyncTypeOK
  <2> QED
    BY <1>1, <2>1, HeadTailProperties, EmptySeq
<1>3. s \in Opened /\ Opened' = Opened
  <2>1. consumer[s] \in {"asking", "gone"}
    BY <1>1 DEF AsyncIInv, StreamKept, Asking
  <2>2. \/ \E l \in {"over", "holding"} : consumer' = [consumer EXCEPT ![s] = l]
        \/ consumer' = consumer
    BY DEF Take, Turn
  <2>3. CASE consumer' = consumer
    BY <2>1, <2>3 DEF Opened
  <2>4. ASSUME NEW l \in {"over", "holding"}, consumer' = [consumer EXCEPT ![s] = l]
        PROVE  s \in Opened /\ Opened' = Opened
    BY <2>1, <2>4 DEF Opened, AsyncIInv, AsyncTypeOK
  <2> QED
    BY <2>2, <2>3, <2>4
<1> DEFINE x == <<s, Len(queue[s])>>
<1>4. x \in Stocked /\ x \notin Stocked'
  <2>1. Len(queue[s]) \in 1 .. QueueBound
    BY <1>1, <1>2, AsyncAssumption
  <2>2. x \in Stocked
    BY <1>2, <1>3, <2>1 DEF Stocked
  <2>3. ~(Len(queue[s]) <= Len(queue'[s]))
    BY <1>2
  <2> QED
    BY <2>2, <2>3 DEF Stocked
<1>5. Stocked' \subseteq Stocked
  <2> SUFFICES ASSUME NEW u \in Stocked' PROVE u \in Stocked
    OBVIOUS
  <2>1. u \in Opened \X (1 .. QueueBound) /\ u[2] <= Len(queue'[u[1]])
    BY <1>3 DEF Stocked
  <2>2. u[1] \in Stream /\ u[2] \in Nat
    <3>1. u[1] \in Stream /\ u[2] \in 1 .. QueueBound
      BY <2>1 DEF Opened
    <3> QED
      BY <3>1
  <2>3. u[2] <= Len(queue[u[1]])
    <3>1. CASE u[1] = s
      <4>1. Len(queue'[u[1]]) = Len(queue[u[1]]) - 1 /\ Len(queue[u[1]]) \in Nat
        BY <1>2, <3>1
      <4>2. u[2] <= Len(queue[u[1]]) - 1
        BY <2>1, <4>1
      <4> QED
        BY <2>2, <4>1, <4>2
    <3>2. CASE u[1] # s
      BY <1>2, <2>1, <2>2, <3>2
    <3> QED
      BY <3>1, <3>2
  <2> QED
    BY <2>1, <2>3 DEF Stocked
<1> HIDE DEF x
<1>6. Cardinality(Stocked') < Cardinality(Stocked) /\ Unsent' = Unsent
  BY <1>1, <1>3, <1>4, <1>5, BacklogFinite, PartIsSmaller, UnsentKept
<1>7. /\ Backlog'[4] < Backlog[4] /\ Backlog'[1] = Backlog[1]
      /\ Backlog'[2] = Backlog[2] /\ Backlog'[3] = Backlog[3]
  BY <1>1, <1>6, BacklogIs
<1>8. \A j \in 1 .. 7 : j < 4 => j = 1 \/ j = 2 \/ j = 3
  OBVIOUS
<1> QED
  BY <1>7, <1>8, BacklogIs, LowerAt

(* A consumer that comes back holds nothing any more.                      *)
LEMMA ResumeSettles ==
    ASSUME AsyncIInv, OpenedIsFinite, NEW s \in Stream, Resume(s)
    PROVE  Descends(Backlog', Backlog)
<1>1. /\ consumer[s] = "holding" /\ consumer' = [consumer EXCEPT ![s] = "asking"]
      /\ consumer \in [Stream -> {"new", "asking", "holding", "over", "gone", "refused"}]
      /\ UNCHANGED <<waiting, working, sent, queue>>
  BY DEF Resume, Turn, AsyncIInv, AsyncTypeOK
<1>2. consumer'[s] = "asking" /\ \A u \in Stream \ {s} : consumer'[u] = consumer[u]
  BY <1>1
<1>3. Opened' = Opened
  BY <1>1, <1>2 DEF Opened
<1>4. Holding' \subseteq Holding /\ s \in Holding /\ s \notin Holding'
  BY <1>1, <1>2 DEF Holding, Opened
<1>5. Unsent' = Unsent /\ Stocked' = Stocked
  BY <1>1, <1>3, UnsentKept DEF Stocked
<1>6. Cardinality(Holding') < Cardinality(Holding)
  BY <1>4, BacklogFinite, PartIsSmaller
<1>7. /\ Backlog'[5] < Backlog[5] /\ Backlog'[1] = Backlog[1] /\ Backlog'[2] = Backlog[2]
      /\ Backlog'[3] = Backlog[3] /\ Backlog'[4] = Backlog[4]
  BY <1>1, <1>5, <1>6, BacklogIs
<1>8. \A j \in 1 .. 7 : j < 5 => j = 1 \/ j = 2 \/ j = 3 \/ j = 4
  OBVIOUS
<1> QED
  BY <1>7, <1>8, BacklogIs, LowerAt

(* What leaves producers and consumers alone. *)
LEMMA LoopAlone ==
    ASSUME UNCHANGED <<waiting, working, sent, queue, consumer>>
    PROVE  \A j \in 1 .. 5 : Backlog'[j] = Backlog[j]
<1>1. Unsent' = Unsent /\ Stocked' = Stocked /\ Holding' = Holding
  BY DEF Unsent, Stocked, Holding, Opened
<1>2. \A j \in 1 .. 5 : j = 1 \/ j = 2 \/ j = 3 \/ j = 4 \/ j = 5
  OBVIOUS
<1> QED
  BY <1>1, <1>2, BacklogIs

(* A thread of the loop's pool that takes a request leaves fewer.          *)
LEMMA ServeSettles == ASSUME AsyncIInv, Serve PROVE Descends(Backlog', Backlog)
<1>1. asked \in Seq(Stream \cup {Closer}) /\ asked # <<>> /\ asked' = Tail(asked)
  BY DEF Serve, AsyncIInv, AsyncTypeOK
<1>2. Len(asked') = Len(asked) - 1 /\ Len(asked) \in Nat
  BY <1>1, HeadTailProperties, LenProperties
<1>3. Backlog'[6] < Backlog[6]
  BY <1>2, BacklogIs
<1>4. \A j \in 1 .. 7 : j < 6 => j \in 1 .. 5
  OBVIOUS
<1>5. \A j \in 1 .. 5 : Backlog'[j] = Backlog[j]
  BY LoopAlone DEF Serve
<1> QED
  BY <1>3, <1>4, <1>5, BacklogIs, LowerAt

(* close() returns once. *)
LEMMA ClosedSettles == ASSUME Closed PROVE Descends(Backlog', Backlog)
<1>1. closing = "waiting" /\ closing' = "closed" /\ asked' = asked
  BY DEF Closed
<1>2. Backlog'[7] = 0 /\ Backlog[7] = 1 /\ Backlog'[6] = Backlog[6]
  BY <1>1, BacklogIs
<1>3. \A j \in 1 .. 7 : j < 7 => j \in 1 .. 5 \/ j = 6
  OBVIOUS
<1>4. \A j \in 1 .. 5 : Backlog'[j] = Backlog[j]
  BY LoopAlone DEF Closed
<1>5. Backlog'[7] < Backlog[7]
  BY <1>2
<1> QED
  BY <1>2, <1>3, <1>4, <1>5, BacklogIs, LowerAt

(* No stream is opened but by Open, which opens one. *)
LEMMA OpenedKept ==
    ASSUME AsyncIInv, OpenedIsFinite, [AsyncNext]_asyncVars PROVE OpenedIsFinite'
<1>1. consumer \in [Stream -> {"new", "asking", "holding", "over", "gone", "refused"}]
  BY DEF AsyncIInv, AsyncTypeOK
<1>2. ASSUME NEW s \in Stream, NEW l, consumer' = [consumer EXCEPT ![s] = l]
      PROVE  OpenedIsFinite'
  <2>1. Opened' \subseteq Opened \cup {s}
    BY <1>1, <1>2 DEF Opened
  <2>2. IsFiniteSet(Opened \cup {s})
    BY FS_AddElement DEF OpenedIsFinite
  <2> QED
    BY <2>1, <2>2, FS_Subset DEF OpenedIsFinite
<1>3. ASSUME UNCHANGED consumer PROVE OpenedIsFinite'
  BY <1>3 DEF OpenedIsFinite, Opened
<1>4. ASSUME NEW s \in Stream, Open(s) \/ Resume(s) \/ Leave(s) PROVE OpenedIsFinite'
  BY <1>2, <1>4 DEF Open, Resume, Leave, Turn
<1>5. ASSUME NEW s \in Stream, Take(s) PROVE OpenedIsFinite'
  BY <1>2, <1>3, <1>5 DEF Take, Turn
<1>6. ASSUME NEW s \in Stream, Produce(s) PROVE UNCHANGED consumer
  BY <1>6 DEF Produce, Put, Finish
<1>7. ASSUME NEW c \in Call, Submit(c) \/ CallEnds(c) \/ CancelCall(c)
      PROVE  UNCHANGED consumer
  BY <1>7 DEF Submit, CallEnds, CancelCall
<1>8. CASE Start \/ Serve \/ SyncClose \/ AsyncClose \/ CancelClose \/ Closed
  <2>1. UNCHANGED consumer
    BY <1>8 DEF Start, Serve, SyncClose, AsyncClose, CancelClose, Closed
  <2> QED
    BY <1>3, <2>1
<1>9. CASE UNCHANGED asyncVars
  BY <1>3, <1>9 DEF asyncVars
<1> QED
  BY <1>3, <1>4, <1>5, <1>6, <1>7, <1>8, <1>9 DEF AsyncNext

(* Every step that a thread of a pool or a staying consumer takes lowers   *)
(* the backlog, in lexicographic order, and none is taken in a bridge that *)
(* stands still: it runs down, for any sizes of the pools and the queue    *)
(* and any number of calls and streams, whatever else has happened.        *)
THEOREM PoolsRunDown == AsyncSpec => []BacklogNatural /\ PoolsSettle
<1> DEFINE I == AsyncIInv /\ OpenedIsFinite
<1>1. I => BacklogNatural
  <2> SUFFICES ASSUME I PROVE BacklogNatural
    OBVIOUS
  <2>1. Len(waiting) \in Nat /\ Len(asked) \in Nat
    BY LenProperties DEF AsyncIInv, AsyncTypeOK
  <2>2. /\ Cardinality(Unsent) \in Nat /\ Cardinality(working) \in Nat
        /\ Cardinality(Stocked) \in Nat /\ Cardinality(Holding) \in Nat
    BY BacklogFinite, FS_CardinalityType
  <2>3. ASSUME NEW i \in 1 .. 7 PROVE Backlog[i] \in Nat
    <3>1. i = 1 \/ i = 2 \/ i = 3 \/ i = 4 \/ i = 5 \/ i = 6 \/ i = 7
      OBVIOUS
    <3> QED
      BY <2>1, <2>2, <3>1, BacklogIs
  <2> QED
    BY <2>3, BacklogIs DEF BacklogNatural
<1>2. I => Settling
  <2> SUFFICES ASSUME I, PoolStep PROVE ~Still /\ Descends(Backlog', Backlog)
    BY DEF Settling
  <2>1. ~Still
    BY StillStands
  <2>2. ASSUME NEW c \in Call, CallEnds(c) PROVE Descends(Backlog', Backlog)
    BY <2>2, FreeSettles DEF CallEnds
  <2>3. ASSUME NEW s \in Stream, Produce(s) PROVE Descends(Backlog', Backlog)
    <3>1. CASE Put(s)
      BY <3>1, PutSettles
    <3>2. CASE Finish(s)
      BY <3>2, FreeSettles DEF Finish
    <3> QED
      BY <2>3, <3>1, <3>2 DEF Produce
  <2>4. ASSUME NEW s \in Stream, Take(s) \/ Resume(s) PROVE Descends(Backlog', Backlog)
    BY <2>4, TakeSettles, ResumeSettles
  <2>5. Start \/ Serve \/ Closed => Descends(Backlog', Backlog)
    BY StartSettles, ServeSettles, ClosedSettles
  <2> QED
    BY <2>1, <2>2, <2>3, <2>4, <2>5 DEF PoolStep
<1>3. AsyncInit => OpenedIsFinite
  <2>1. AsyncInit => Opened = {}
    BY DEF AsyncInit, Opened
  <2> QED
    BY <2>1, FS_EmptySet DEF OpenedIsFinite
<1>4. AsyncIInv /\ OpenedIsFinite /\ [AsyncNext]_asyncVars => OpenedIsFinite'
  BY OpenedKept
<1> HIDE DEF I
<1>5. AsyncSpec => []I
  BY <1>3, <1>4, AsyncInvariance, PTL DEF AsyncSpec, I
<1> QED
  BY <1>1, <1>2, <1>5, PTL DEF AsyncSpec, PoolsSettle
=============================================================================
