# A verification of the Context Relay Protocol session core

CRP (`crp/`) runs requests to a language model through a *session*: every
request is given the facts known so far, the model's output is mined for new
facts, and an output that breaks off is continued in further *windows*. Around
the session stand services that outlive a request: an event bus, a ledger of
manifests, human review, billing. This directory holds TLA+ modules that model
the parts of CRP in which several actors share state or something may fail
half-way, the TLC runs that check them, and proofs that TLAPS checks.

1. [The system](#1-the-system)
2. [Modules and how they correspond to the code](#2-modules-and-how-they-correspond-to-the-code)
3. [What the runs check](#3-what-the-runs-check)
4. [Bounds](#4-bounds)
5. [Fairness](#5-fairness)
6. [What is proved](#6-what-is-proved)
7. [Where code and documents disagree, and other observations](#7-where-code-and-documents-disagree-and-other-observations)
8. [What is not modelled](#8-what-is-not-modelled)
9. [Plan](#9-plan)

To check a module: `tlc -workers 2 -config SessionBus_streams.cfg MCSessionBus`
and `tlapm SessionBus_proofs.tla`, likewise for the others. Section 3 gives the
configuration of each run; the longest takes about three minutes.

## 1. The system

An application calls a `CRPOrchestrator` from as many threads as it likes.
Paths are below `src/crp/` unless they begin with `crp_mcp/`.

| Component | State | Operations | What makes it correct |
|---|---|---|---|
| Request deduplicator (`core/idempotency.py`) and `dispatch()` (`core/dispatch_router.py`) | result cache, table of claims with an event each | check, acquire_inflight, release_inflight, store, invalidate, clear | a claim belongs to a live call, a follower is always woken, a result served was produced by a provider call for that key, no provider call after close |
| Session lock of `core/idempotency.py` (`SessionLock`) | writer flag, reader and waiting-writer counts, one condition variable | acquire/release in two modes, with deadlines | exclusion, exact counts, no missed wake-up |
| Circuit breaker (`core/circuit_breaker.py`) | state, two counters, a probe flag, time of the last failure | allow_request, record_success, record_failure, reset | a recovery is backed by successes, the breaker does not stay half open |
| Dispatch variants (`core/dispatch_router.py`) | rounds, pending tool calls, continuation counters, the plan of an agentic call | dispatch with tools, reflexive, progressive, stream_augmented, batch, agentic | the caps that are passed on hold, a half-finished round is taken for an answer in one known case only, every call ends |
| Dispatch windows (`core/dispatch_router.py`, `core/window.py`, `continuation/`) | window graph, continuation state of the call, session counters, the orchestrator's `_lock` | dispatch, dispatch_stream, reset_session | calls end, continuations are bounded, the counters track the calls |
| Fact stores (`state/warm_store.py`, `event_log.py`, `compaction.py`, `cold_storage.py`, `ckf/fabric.py`, `core/extraction_facade.py`) | two warm stores with deduplication hashes, event log, session file | extract and store, compact, reset, close, resume | nothing known is forgotten, hashes match facts, the log tells what happened |
| Session bus and transparency streams (`tel/emitter.py`, `tel/sse.py`, `gateway/tel_stream.py`) | sequence number, replay buffer, bounded queues, the clients' Last-Event-ID | emit, replay_after, subscribe, poll, close, reconnect | order per emitter, no event twice or without a trace, a resumed client misses nothing unnoticed, close ends everyone |
| Manifest ledger (`core/manifest_ledger.py`) and its sink (`core/ledger_backends.py`) | a file of chained entries, a list in each process, a bounded queue, a worker thread | record, load, verify_chain; emit, close | the chain is one chain, a verified file is no fork, every record reaches the target or is lost for a known reason, close returns |
| Review checkpoints (`crp_mcp/checkpoint_service.py`) | record with approvals and signature, timers, two log files | create, approve, reject, escalate | the first resolution stands, it is what quorum or rule says, the record verifies, the files tell it |
| Billing (`comply/billing/`) | processed event ids, an organisation's metadata (at Clerk) | checkout, webhook, reconcile_subscriptions | credited once, the plan follows the subscription, drift is repaired |
| Asynchronous dispatch (`core/orchestrator.py:1690-1790`) | two thread pools, a bounded queue per stream | async_dispatch, async_dispatch_stream, close, async_close | callers are served and close returns unless the pools jam |
| Snapshots, retention, retrieval, communities (`state/snapshot.py`, `ckf/`) | lists, indexes, tombstones | snapshot, run_gc, query, publish | what is purged is gone everywhere |
| Envelope, extraction, continuation analysis | none that outlives a call | packing, mining, gap analysis | heuristics over text |
| Security, provenance, policy, compliance (`security/`, `provenance/`, ...) | audit chain, limits, consent records | checks around each call | the chain verifies |
| Gateway, SDK, MCP server, command line, agents | requests | input and output | - |

**How they interact.** `dispatch()` asks the deduplicator, then runs
`_dispatch_locked()` under the session's `RLock`, which asks the breaker, calls
the provider, hands the output to `ExtractionFacade._extract_and_store()` (warm
store, then fabric, then perhaps compaction) and goes through the continuation
loop. The other variants do the same *without* the session lock; a stream takes
it only while it creates a continuation window. `close()` takes the lock and
writes the fabric to a file, `resume()` starts a new session from that file,
`reset_session()` swaps the stores and clears the counters without any lock.
`async_dispatch()` and `async_dispatch_stream()` run all this on a pool of
threads. Whatever happens is emitted on the session's bus, which threads and
coroutines read, and recorded in the manifest ledger, which may forward it
through the sink. Checkpoints and billing are services of their own, on an event
loop and behind a web server.

**What is hard.** Everything between two critical sections: the deduplicator's
check and claim, the claim's release and its event, the warm store and the
fabric, the load and the store of `+=` on a counter, the numbering of an event
and its delivery, the stop flag of the sink and its queue. Outcomes that arrive
late at a breaker that has moved on; calls that end without an outcome; clients
that go and come back; deadlines of followers, lock waiters and reviewers;
webhooks repeated, reordered and half done; closes, resets and crashes beside
work under way; stores, caches, pools and queues at their limit. `PROJECT.json`
lists these places line by line under "hazards", with the properties that watch
each.

## 2. Modules and how they correspond to the code

**SingleFlight** (`idempotency.py:71-241`, `dispatch_router.py:1000-1090`). One
program counter per thread through `dispatch()`; an action is one critical
section of the deduplicator's write lock or one step between two of them. The
cache is `created` (when each key's result was stored), expiry is a `horizon` that
moves up, an event is named by the thread that made it. `Faults` says what may go
wrong: a provider failure, a refusal, expiry, the follower's and the lock's
timeouts, invalidate/clear, the kill switch, close().
**DispatchContract** is the abstract promise: a call is answered by a provider
call of its own or by a result one left behind; provider calls exclude each
other and need an open session. SingleFlight is mapped onto it by `PhaseOf`.

**SessionLock** (`idempotency.py:254-324`). One step is one stay in the monitor.
A deadline is an element of `late`, looked at only when the condition does not
hold, as in the code. `notify_all` moves every sleeper to "woken".

**CircuitBreaker** (`circuit_breaker.py`). The methods as actions of callers that
have a provider call under way (`calling`), some of them the probe (`probes`). Time
is the flag `ripe`. A caller may report after the state has changed, report
again for the next window without asking, or never report (`Abandons`).
**DispatchStrategies** extends it with the callers themselves: a `Strategist` goes
through one variant of dispatch after another, `run` is the dispatch under way
(its way, cap, rounds and whether the model waits for something) and `job` the
call that dispatch belongs to, single, batch or agentic with its stages
generate, extend and revise. What a model writes is the choice of branch.

**FactStores** (`warm_store.py`, `event_log.py`, `compaction.py`,
`cold_storage.py`, `fabric.py`, `extraction_facade.py`, `orchestrator.py`). A fact is
an id and a text, a text is about a subject (`Topic`); facts about one subject are
what compaction clusters. A thread runs the whole of `_extract_and_store()`: warm
store, fabric, event per fact, compaction with its removals one at a time and
its summary. A close is three steps (facts, events, file), of which the last may
fail. **SessionKnowledge** is the abstract promise: what is known only grows,
a close saves it, a resume brings back what was saved.

**DispatchWindows** (`dispatch_router.py:1071-2175, 4746-5117`, `orchestrator.py`,
`window.py`, `manager.py`, `trigger.py`). A call goes from the budget check through
its primary window and the continuation loop to the counters. What the provider
wrote is abstracted to what the loop does about it: answer, break off, fail,
think without output, ask for more. The condition under which the trigger may
ask for more is kept (`MayContinue`). Each `+=` on a counter is a load and a
store (`due`, `seen`). `opened`, `finished`, `returned` and `mishaps` (a lost addition,
a reset) are history.

**SessionBus** (`emitter.py`, `sse.py`, `tel_stream.py`). emit() and close() number
or mark under the lock (`Emit`, `Close`) and then fill the queues registered at
that moment, one by one (`Put`) or by way of the event loop (`Schedule`,
`RunCallback`); an emitter on a thread without a loop skips asynchronous
subscribers, as the code does. A coroutine is not interrupted by the rest of its
loop (`LoopFree`). A client connects, is replayed the buffer beyond its
Last-Event-ID, subscribes, reads, and may go at any time and come back.
`author`, `joined`, `earlier`, `lost` and `mishaps` are history.

**ManifestLedger** (`manifest_ledger.py`) models record(), load(), clear_cache()
and verify_chain() of several processes over one file of lines, some of them torn; an entry's
hash is its number. What verify_chain() looks at is `Known(p)`: the list a process
has in memory, or the file when it has none. **LedgerSink** (`ledger_backends.py`) models AsyncBufferedSink:
the test of the flag and the put are two steps, the worker hands on one event at
a time to a target that may refuse or never return, and close() drains, puts its
sentinel, joins and flushes. **LedgerPipeline** composes them as `forward_to=[sink]`
does, with the death of the process taking the sink along.

**ReviewCheckpoint** (`checkpoint_service.py`). One checkpoint on one event loop; a
handler is one step up to its next await. The record, its signature (what
`_canonical()` covers of it), one task per escalation rule, the two files; writes
that fail leave a hole in the file, creation may be interrupted, the process may end.

**Billing** (`checkout.py`, `webhook.py`, `reconciliation.py`, `constants.py`). A webhook request is the
dedupe check, then per event kind a read of the organisation's metadata and a
PATCH of it, in steps, up to `MaxRequests` at a time. A checkout reads the metadata
and, when there is no customer yet, writes it back with one. The reconciliation
lists (`todo`) and then goes through its list, newest subscription first, a read
and a PATCH each; a listing may stop before this organisation's older
subscriptions (`ListSome`: `limit` counts those of everybody). An organisation may hold any number of
subscriptions at once, and one `plan` key stands for all of them. Stripe and Clerk are external: Stripe
sends each event at least once and in any order, Clerk merges or replaces.

**AsyncDispatch** (`orchestrator.py:1690-1790`). The orchestrator's pool (`waiting`,
`working`) runs calls and the producers of streams; the event loop's default pool
(`asked`, `serving`) runs `q.get` of the consumers and the shutdown of async_close().

**MC\*** modules name what TLC runs, **\*_proofs** modules hold the theorems of
the component they are named after; CircuitBreaker_proofs also those of
DispatchStrategies, and **Threads_proofs** those of SingleFlight, SessionLock and
AsyncDispatch, which share no variable.
Definitions named `Mut_...` are variants of the definition that follows with one
plausible mistake. No definition uses them; they serve to test that each
property can fail.

## 3. What the runs check

| Run | Module, configuration | Shows |
|---|---|---|
| single_flight_faults | MCSingleFlight, SingleFlight_faults | Three threads, every fault: claims have a live owner (`ClaimsAreOwned`), no follower waits on an event nobody will set (`NoLostWakeup`), `dispatch()` implements its contract (`ImplementsContract`), every call ends without the help of the follower's timeout (`EveryCallEnds`) |
| single_flight_twice | MCSingleFlight, SingleFlight_twice | *Violated*: `NeverTwice`, the provider is not called for a key whose result is cached |
| session_lock | MCSessionLock, SessionLock_deadlines | Exclusion; readers are stranded only by a writer that gave up; a patient writer gets the lock |
| breaker | MCDispatchStrategies, DispatchStrategies_calls | One caller runs every variant, one calls freely: no dispatch passes its caller's cap, except those of an agentic call, which keep to the session's (`CapsHold`), an output the model was still working on is taken for an answer only when the provider failed an augmented dispatch after an injection (`AnswersAreFinal`), a recovery has enough successes in a row behind it, the breaker closes once the provider is well unless its probe was abandoned, calls end |
| facts_kept | MCFactStores, FactStores_kept | With crashes and failing writes the stores implement SessionKnowledge |
| facts_races | MCFactStores, FactStores_races | With resets, streams during a close and stores that fill up, hashes are those of the facts, and the fabric has, or is about to get, every text of the warm store |
| dispatch_windows | MCDispatchWindows, DispatchWindows_calls | The counters claim nothing that did not happen and miss no call that returned, unless two threads raced at `+=` or the session was reset (`CountersTrack`), a call's continuations are bounded, every call ends (and with it releases the session lock) |
| session_bus | MCSessionBus, SessionBus_streams | An event is for a stream at exactly one place; one emitter's events keep their order; a client that resumes misses nothing unless one of four mishaps befell it; close and events reach every reader for whom there was room and a loop |
| ledger_pipeline | MCLedgerPipeline, LedgerPipeline_faults | Restarts keep one chain; a fork or a gap in the file verifies only for a process whose own list hides it (`OnlyListsHideForks`); every record is at one place on its way to the target, there, or lost for one reason; after close() only events whose emit() raced with it are left; close() returns unless the target hangs |
| review_checkpoints | MCReviewCheckpoint, ReviewCheckpoint_escalation | Quorum and rules decide, the first resolution stands, the resolved record verifies, the files never contradict it, a rule that resolves does so in the end |
| billing | MCBilling, Billing_sync | No credit twice; plan, credit and flag follow Stripe, with several subscriptions at once the plan of one of them, or free; a paid plan outlives the last subscription only after a named mishap; an organisation that listings reach is granted in the end a plan it pays for |
| async_dispatch | MCAsyncDispatch, AsyncDispatch_pools | The bridge stands still in two cases only; otherwise callers are served and close() returns |

Each property of a passing run has a mutant that violates it. `CHECK_DEADLOCK
FALSE` stands where the system may come to rest: all calls made, all events
emitted, the session closed.

## 4. Bounds

* **SingleFlight.** Three threads are an owner, a follower and a newcomer that
  slips between them; two keys and a cache of one force evictions of a result
  a follower waits for; three calls let each thread have one, or one thread two.
* **SessionLock.** Four threads and seven acquires: a holder, a waiting writer
  that gives up, one that does not, and a reader they keep out, with room for
  each to come again. Two of the threads have no deadline.
* **DispatchStrategies.** One strategist and one free caller: the latter supplies
  late outcomes and the competing probe. Thresholds of two distinguish "first"
  from "enough"; one round, one revision and two steps reach each loop's bound
  and the step after it; a session cap of two lets the loops go on once and
  then stops them, and differs from the call's own cap of one. 520 744 states.
* **FactStores.** Two texts about one subject (the smallest cluster that
  compacts) and one about another, two threads, a threshold of one, so that each
  store call may compact; four facts in the run with crashes, three and a
  capacity of two in the run with races, where the stores fill up.
* **DispatchWindows.** Two threads and three calls: two calls beside each other
  and one after. `max_continuations` of two allows a judged continuation and
  then forbids one. The third empty window ends a run of reasoning, which is the
  code's own constant.
* **SessionBus.** One emitter on a thread and one on the loop, one stream of each
  kind: every pair that treats the other differently. A queue and a buffer of
  two overflow with the third event; two connections are one that resumes.
  450 023 states.
* **LedgerPipeline.** Two processes fork a chain; three entries are a predecessor
  and two rivals; a queue of two is full with a third on its way. All faults.
  1 020 035 states.
* **ReviewCheckpoint.** Two reviewers and a quorum of up to two; two rules, so
  that one wakes after the other resolved; two connectors, so that creation can
  be interrupted between them.
* **Billing.** Two plans, one of them on offer at a checkout and the other reached
  by an update. Two events, for an organisation that is new or for one that has
  subscribed already: a subscription and its change or end, a second
  subscription and the end of either, a top-up beside a change. Two requests at
  once; one trouble, which is what each property tells apart. 895 425 states.
* **AsyncDispatch.** Two streams and a call on a pool of one: a stream that runs,
  one that waits and a call behind it; a loop pool of two, which the code's
  minimum of five makes larger but no different; a queue of one that the second
  event fills. 121 316 states.

The proofs of section 6 remove these bounds for all safety properties they
cover: there the numbers of threads, processes, events and calls are constants of
any size.

## 5. Fairness

* **SingleFlight, DispatchWindows.** Weak fairness of each thread's own next
  step: the code gives a thread no place to stop but a lock, an event and the
  provider, and a provider call returns or raises (the HTTP clients of the adapters have timeouts of their own).
  Nothing is assumed of timeouts, of `dispatch_timeout` or of new calls. For a
  stream the assumption includes that its consumer pulls the next event or
  drops the stream. No fairness of the lock is assumed: calls are finitely many,
  so in the end no one else wants it.
* **SessionLock.** Woken threads run, and a holder releases.
* **DispatchStrategies.** A call under way goes on; of the free callers, that the
  application keeps dispatching (a probe that is admitted again and again is
  made) and that calls come to an end; time passes. Nobody has to call `reset()`.
  A call that ends without an outcome is allowed, never required.
* **SessionBus.** emit() runs to its end, the loop comes to its callbacks, a
  connected client reads. Clients need not come, stay or return.
* **LedgerPipeline.** The worker and close() go on. A hang of the target is a step
  of its own, after which the thread has no other.
* **ReviewCheckpoint.** A notification that is awaited returns (a connector that
  hangs is an interrupted creation) and a timer fires. Reviewers need not answer.
* **Billing.** A reconciliation that has begun goes on. That another begins, and
  that its listing reaches the organisation, is the business of whoever schedules
  it: `DriftRepaired` has it as its premise, not the specification as its
  fairness. No event need be delivered.
* **AsyncDispatch.** Threads take what is queued, dispatches end, a consumer that
  stays takes what it was given and asks again. Nobody need open, leave or close.

FactStores has no liveness property: an extraction is a straight line under
short locks.

## 6. What is proved

For all values of the constants, from the named assumptions in each module
(finite sets, natural numbers, distinct marks):

| Module | Theorem | Argument |
|---|---|---|
| Threads_proofs: SingleFlight | TypeCorrect, ClaimsOwned, NoWakeupIsLost | `IInv` adds to the three properties that the local flag `owner` is set exactly between the claim and the end of its release (`OwnersAreActive`), and that the session lock is held by the thread that is in the session (`LockIsHeld`). Without the first, a step of an owner does not say where in `dispatch()` the thread is, and a release could drop another's claim |
| | CacheIsBounded | eviction leaves fewer than `max_cache_size` results (`SurvivorsFit`, by the existence of an oldest one), and storing adds one |
| | FollowersAreServed | without faults, a woken follower's key is cached (`ServedOnceWoken`) |
| | Refinement | every step is a step of DispatchContract or a stutter; `LockIsHeld` gives the exclusion of provider calls |
| | NoCircularWait | `WaitsAreShort`, from `IInv`: a follower waits for a thread that is in a call, that thread at most for the session lock, and the lock's holder for nobody |
| | CallsAdvance | an action property: the program counter of a call only moves up an order of eleven places (`Place`), or the call ends |
| Threads_proofs: SessionLock | LockTypeCorrect, WriterExcludesEveryone, CountsNeverDrift, WritersAreWoken | `LockIInv`: the counts equal cardinalities of sets of threads, readers and writers exclude each other, and no writer sleeps on a free lock; lemma `Moves` says how such a cardinality changes when one thread moves |
| | StrandedByGivingUp | an action property, from the same invariant |
| | LockNeverJams | when everybody inside sleeps, no writer does, and the readers are stranded ones |
| Threads_proofs: AsyncDispatch | AsyncTypeCorrect | `AsyncIInv`: each pool is one queue without repetitions and a finite set of workers that never meet (`OneByOne`) |
| | OnlyJams | `StreamKept`: while a stream's producer is in the pool its sentinel is still to come and its consumer has not come to the end, and a consumer that asks or holds an item has a producer or the sentinel before it. Lemma `StillStalls`: in a bridge that stands still every producer at work faces a full queue; lemma `FullWaitsForUnbegun`: then a busy loop pool serves only consumers of streams that have not begun |
| | NobodyIsForgotten | from `AsyncIInv`: a submitted call, an asking consumer and a requested close are each with the pool that is to answer them |
| | PoolsRunDown | `Backlog`, a row of seven natural numbers (requests waiting for a thread, events still to be put, threads at work, events in the queues, consumers with an event in hand, requests of the loop's pool, close()): each step of the pools lowers the first entry that it changes, one lemma per action; finitely many streams have been opened (`OpenedIsFinite`), so that the entries are numbers. No such step starts from a bridge that stands still (`StillStands`) |
| CircuitBreaker_proofs | RecoveryProven, OrphansAreAbandoned | `CountsNoMoreThanGood`: in HALF_OPEN the breaker has counted no success that was not in the current run of successes |
| | StrategiesAreCallers, TypeCorrect, CapsAreKept, AnswersFinal | every step of DispatchStrategies is a step of the breaker or leaves it alone, so that the two theorems above hold of the variants; `SInv` bounds the counters of each way by its loop guards, and `pending` is set only where the round that clears it is still allowed, or the provider failed that round. Both theorems have the exceptions of section 7 in their statement |
| | StrategiesWindDown | `Outer`, made of the dispatches a call may still make (steps, windows of the agentic loop, revisions) and where it stands between two of them, and `Inner`, made of the rounds and windows its dispatch may still open and the place in the present one: each step lowers the first, or leaves it and lowers the second. `WithinBounds` keeps the counters the caps do not bound within their loop guards, so that both are natural numbers |
| FactStores_proofs | TypeCorrect | with `Summarised`: a thread about to remove or add has a summary |
| | HashesAreExact | `Hashed`: for both stores the hashes are the facts' texts and no two facts share one; a batch's facts are new and distinct |
| | LogIsComplete | `Covered`: facts of the fabric, of a close's draft and of the file have their events, or their thread is about to log them |
| | FabricHasEverything | `Carried`: while the fabric has room, a text of the warm store is in the fabric or in a batch on its way; a summary only ever repeats a text of its cluster |
| | Refinement | `Kept`: while no reset or overlapping close is allowed and the store has more room than there are texts (`Roomy`), each step is one of SessionKnowledge or a stutter |
| DispatchWindows_proofs | TypeCorrect, ContinuationsAreBounded | `Measured`: the number of continuation windows of a call is at most `MaxThinking` times the windows judged, plus the windows of reasoning since; the judged windows are below the limit when another is opened |
| | CountersAreHonest | `Solvent`: a counter and what every thread still owes it never exceed the windows there were; a value loaded was true when it was loaded. `NoneMissed`: without a race or a reset, the calls that returned, and those about to return that have no window due any more (`Credited`), are all in the counter, since windows are added one at a time |
| | CallsWindDownSafely | `Ahead`, a natural number made of the continuation windows the call may still open, its place in the present one and the additions it still owes the counters: each step of a call lowers it (lemma `StepWindsDown`, one case per action) or ends the call, and no other step changes it |
| | DispatchesTakeTurns | the holder of the session lock is the one dispatch() past its `with`; a stream is never queued for it (`Queued`) |
| SessionBus_proofs | TypeCorrect, EventsAccounted, EmittersKeepOrder, ResumesComplete | `StreamInv`: an emitter carries an event of its own (`Own`), only registered streams are delivered to (`Present`), what is replayed is older and what is delivered newer than the subscription (`Recent`), the parts of a stream's line are sorted per author and below each other (`Ordered`), the places of an event add up to one (`Accounted`), and up to its Last-Event-ID an undisturbed client has everything (`Complete`). Lemma `EnterStep` treats the two ways into a queue at once |
| | StreamsEnd | `EndIsAhead`: after close() the sentinel of a live stream is in its queue, scheduled on the loop or still with close(), or it was dropped (`lost`), for want of room or of a loop; only the end of the stream takes it (`KeepsIs`, `PutKeeps`) |
| LedgerPipeline_proofs | LedgerTypeCorrect, RestartsKeepTheChain, ForksAreFound, ReturnedStays | for the ledger alone: the chain in each list and in the file is linked, numbers are fresh. For ForksAreFound: entries of a list or file come in the order of their numbers, so that a list without a broken link has no fork; it is the file, unless it lacks a line of others or has one that was never written |
| | PipelineIsLedger, PipelineTypeCorrect, PipelineLedgerSafe | the sink never disturbs the ledger: every step is one of the ledger or a stutter |
| | CloseLeavesRacers | behind the sentinel there are only events whose emit() raced with close() |
| | RecordsAreAccounted | `Balanced`: the places of a record (`Tally`) add up to one once it is returned, and to none before; each step of the sink moves one event between two of them |
| | CloseIsNotStuck | while close() waits for room or in join(), the worker lives; before a join the sentinel is in the queue |
| ReviewCheckpoint_proofs | TypeCorrect, QuorumAlwaysDecides, ResolvedVerifies, FilesTellOutcome, FirstStands | the status and the approvals determine each other, a rule that resolved is done, the signature is renewed with the status, the last line of a file is the outcome or the hole of its failed write |
| | RulesKeepWatch | while a created checkpoint is open, the rules that can resolve it are all asleep: a rule ends either by resolving or because somebody had |
| Billing_proofs | BillingTypeCorrect | `Shape`: what a request found is metadata of a form that some handler wrote, and a plan granted is one that is listed |
| | CreditedOnceHolds | `HandledOnce`: without a restart or a raced dedupe check no two requests are about to write for one event. `CreditBounded`: then neither the stored credit nor the copy in a handler's hands exceeds the top-ups handled (`Credited`); `CreditExact`: without any mishap the stored credit is just that many. The bound on the copies is needed because a handler writes back what it read |
| | PaidAfterCancelHolds, EntitlementFollowsHolds | `LastTellsAll`: the last event about a plan describes its subscription as it is at Stripe (a deletion only if there never were several), and a checkout's handler that holds the last event has read the price since. `NotedTakesEffect`: an event once noted is in its handler or has been outdone by one as new, unless a handler failed or the process restarted. `PlanFollows`, `FlagFollows`: when all events up to the newest have taken effect, the plan is one that is charged for, or free when nothing is or when there were several, and the payment flag is Stripe's |
| | RepairsConverge | `Unrest`, a row of four natural numbers (events without an answer, requests for events that have one, requests Stripe may still have under way, handlers that have not read): while Stripe is quiet and nothing fails, each step of the webhook lowers the first entry that it changes, because two requests for one event differ in their number (`Keyed`). `Drift`, the steps that the reconciliation has still before it, a listing with an outdated subscription counted as the longest way: its steps leave `Unrest` alone and lower `Drift` to 0, where the plan is one that is charged for, and keep it there, for any number of subscriptions. It does not say that the plan stops changing: with several the loop goes from one to the other (`Single`: each is listed once). A listing that does not reach the organisation changes nothing |

In Billing the history variable `mishaps` says what befell; each part of the
invariant is conditioned on the mishaps that break it and on no other, so that
the theorem says which ones the property depends on.

**The safety halves of liveness.** The prover cannot treat fairness, so that the
liveness properties stay with TLC. What can go wrong for more actors than TLC
tries is a safety matter, though, and proved for any number of them:

| Liveness property | Proved beside it |
|---|---|
| EveryCallEnds of SingleFlight | a call has a bounded number of steps (CallsAdvance) and waits only along a chain that ends in a thread which can go on (NoCircularWait) |
| EveryCallEnds of DispatchWindows | a call's measure falls with each of its steps (CallsWindDownSafely), and who waits for the lock waits for a call that waits for nobody (DispatchesTakeTurns) |
| PatientWritersSucceed | a lock that stands still has no sleeping writer (LockNeverJams) |
| StrategiesEnd | a call's two measures fall, in lexicographic order, with each of its steps (StrategiesWindDown); what dispatch() waits for is treated with the dispatch windows |
| RecoversUnlessOrphaned | only a call without an outcome leaves the probe flag without a probe (OrphansAreAbandoned) |
| CloseUnblocks | the sentinel is on its way to every live stream (StreamsEnd) |
| EventsArrive | an event emitted for a stream is at exactly one place between its emitter and the client, or dropped (EventsAccounted) |
| CloseReturns of LedgerPipeline | close() waits only for a worker that has something to take (CloseIsNotStuck) |
| EscalationResolves | a rule that resolves is still asleep while the checkpoint is open (RulesKeepWatch) |
| CallersServed, CloseReturns of AsyncDispatch | everything asked for is with a pool (NobodyIsForgotten), the pools come to stand still unless somebody new calls or goes (PoolsRunDown), and they stand still in two cases only while somebody is kept waiting (OnlyJams) |
| DriftRepaired | once Stripe is quiet, nobody checks out and nothing fails, webhook and reconciliation can only approach a plan that is charged for (RepairsConverge) |

That these facts and the fairness of section 5 give the liveness property is the
step left to TLC.

**Only model-checked:** the liveness properties themselves (both EveryCallEnds,
PatientWritersSucceed, RecoversUnlessOrphaned, StrategiesEnd, CloseUnblocks,
EventsArrive, both CloseReturns, CallersServed, EscalationResolves,
DriftRepaired), and the violated property of section 7. Every other property of
a run is a theorem.
Some theorems are about definitions no run lists, since the proof says more:
the type invariants, `CacheBounded`, `CountsAreExact`, `NoWriterSleepsOnFreeLock`,
`FollowersServed`, `LogComplete`, `OnlyAbandoningOrphans`, `ReturnedIsDurable`,
`NothingForgotten`, and those of the table above (`WaitsAreShort`,
`CallsOnlyAdvance`, `SleepersAreReaders`, `Windable` with `CallsWindDown`,
`LockedByOneDispatch`, `CallsRanked` with `CallsDescend`, `SentinelOnItsWay`, `CloseWaitsForWorker`,
`RulesAwake`, `BacklogNatural` with `PoolsSettle`, `Restful` with `DriftShrinks`).

## 7. Where code and documents disagree, and other observations

**Run as a finding.** *The provider can be called twice* (single_flight_twice).
`dispatch()` does not look at the cache again once it owns a claim. A thread that
missed the cache just before the owner stored its result, and asks for the claim
just after the owner dropped it, dispatches again. `idempotency.py:88-90` says it
never does.

**Met on the way.** The properties are stated so that they hold with these, and
name them; none is a run of its own.

* *Breaker.* An injection of `dispatch_stream_augmented` leaves its stream without
  an outcome. If that stream was the probe, the flag stays set, `allow_request()`
  refuses every later call, that dispatch's next round included, while the error says "retry after
  recovery timeout". Outcomes of calls admitted before the breaker tripped can
  let a second probe out beside the first (`circuit_breaker.py:74` says only one
  at a time); `RecoveryIsProven` shows that it is harmless for what the breaker
  concludes.
* *Dispatch variants.* `dispatch_agentic` pops the per-call `max_continuations`
  (`dispatch_router.py:3985`) and never uses it, where `CHANGELOG.md:152-158`
  promises that all five variants accept one that "overrides the session". A caller that gives
  it a lower cap gets up to the session's from each of its dispatches. The model's
  callers do give one; `CapsHold` holds them to the session's cap and names the
  exception. Reflexive and progressive ignore the cap without harm: they open no
  continuation window. When the provider fails an augmented dispatch after an
  injection, the loop breaks (`dispatch_router.py:3776-3789`) and what was written before the
  injection (3729-3767), half a sentence stopped for facts, becomes the answer,
  with the finish reason "error"; `AnswersAreFinal` allows a pending text
  in this case and in no other. After a revision the finish reason and the continuations reported are
  those of the earlier output. An exception inside a revision loses the answer that
  was revised. Only dispatch and dispatch_stream check the session's budget. An
  exception of CRP's own fact search inside an augmented stream counts as a
  failure of the provider. The cognitive calls and the continuation windows of
  push bypass the breaker.
* *Windows.* The cap on windows is checked before a call's first window only, and
  two threads that add to a counter at once may lose an update; the session then admits more
  calls than its cap. `CountersTrack` says that this and `reset_session()` are the
  only ways to it.
* *Facts.* Replaying the log does not rebuild the warm store: compaction removes
  facts from the orchestrator's store and logs that in the fabric's log, while the
  fabric keeps them. `reset_session()` takes no lock; a window between its two
  stores puts its old facts in the new fabric. A full warm store may drop a
  summary.
* *Cache.* A cached answer is returned on a closed or reset session
  (02_CORE_PROTOCOL.md:2682 says that operations raise SessionClosed), which
  DispatchContract allows.
* *Bus.* close() drops its sentinel like any event when a queue is full; that
  subscriber drains its queue and then waits for ever, though `emitter.py:182`
  says "unblock all subscribers". A close() on a thread without an event loop does not reach asynchronous
  subscribers.
* *Ledger.* An entry joins the list in memory before it is written. When the write
  fails, the next one chains to an entry the file never gets, and the file does
  not verify although nobody touched it. `verify_chain()` says that "an empty list
  means the ledger is intact" (`manifest_ledger.py:510-511`), but it walks what `load()`
  returns (527), and that is the process's own list when it has one (359-360): a
  process that wrote one branch of a fork, or whose write failed, finds nothing
  wrong with a file that is forked or lacks an entry. A process without a list,
  which reads the file, is not deceived. `OnlyListsHideForks` draws that line.
* *Checkpoints.* One reviewer's second approval counts. An `on_timeout` the code
  does not know becomes the status as it is. Approvals are not signed before
  the checkpoint is resolved. A connector that hangs keeps the escalation rules
  from ever being scheduled.
* *Billing.* Events are noted before they are handled, so that the retry of a
  deletion whose PATCH failed is answered as a duplicate. Handlers write back the
  whole metadata they read, and so does the first checkout (`checkout.py:65-88`). The reconciliation looks at active subscriptions
  only and never takes a plan away. Nothing keeps an organisation from several
  subscriptions (`checkout.py:99-141` does not look for one), all families of
  plans are written to one `plan` key (`constants.py:14-31`), and a deletion sets
  "free" whatever else is active (`webhook.py:210-222`): an organisation that
  cancels one of two and pays for the other is at "free" until the next
  reconciliation. With two active the reconciliation writes each in turn, every
  night, and it looks at `limit=100` subscriptions in all (`reconciliation.py:25,
  53-54`), so that the older ones of a larger shop are never repaired. Where Clerk
  replaces metadata, a PATCH of the plan drops `stripeCustomerId`, and the next
  checkout makes a second customer.
* *Asynchronous dispatch.* As many consumers of streams that have not begun as the
  loop's pool has threads leave none for the stream that runs: both pools jam. A
  stream with more events than its queue holds, abandoned by its consumer, keeps
  a thread for ever, and close() never returns.

## 8. What is not modelled

* **Of the modelled components:** the derivation of keys; statistics; supersession
  and archiving of facts (no caller applies them); ages, boosts, confidences and
  graph edges; the file's checksum and migrations; token counts; the text
  heuristics of continuation; `dispatch_hierarchical`, which uses neither breaker
  nor windows; heartbeats and wire formats; the protocol of a stream's events;
  tampering with the ledger;
  a second deduplicator, which two first calls of a session can make
  (`dispatch_router.py:315-331` has no lock), and the results it keeps, as far as the call that
  made it is not just an unkeyed one for the other; two close() calls of a sink that
  test its flag at once (`ledger_backends.py:196-198`): the second puts a sentinel that
  nobody takes, and on a full queue waits for room nobody makes; unlocking a `SessionLock` the thread does not hold;
  a synchronous close() called on the thread of the event loop whose streams it waits for.
* **Of billing:** subscriptions past due or unpaid, which Stripe keeps but does not
  list as active; `dry_run`; checkouts or reconciliations that overlap with one of
  their own kind; metering and the customer portal; other organisations, but for the
  subscriptions with which they fill a listing.
* **The inline gate** of `security/checkpoint.py`: one waiter with a timeout. Its
  resolve() replaces an earlier resolution (183), which the service modelled here
  does not.
* **Snapshots and garbage collection** (`state/snapshot.py`, `ckf/gc.py`): library
  classes that nothing in the package calls. A replay of the log after a snapshot
  applies supersessions only, although "full state" is promised
  (`snapshot.py:258`).
* **The other components:** see "components" in `PROJECT.json`, each with its
  reason. They are functions of one request, text heuristics, scores, parsers and
  formats, demos and generated pages, or input and output; a model of them would
  restate them. That is most of the repository's lines, so that the share the
  modules cover is small although they cover the places where it keeps shared
  state: more than two thousand of the modelled lines stand in `dispatch_router.py` alone.
* The similarity by which compaction clusters facts is taken to be an
  equivalence, which a score with a threshold need not be. Hashes are taken to be
  unique, signatures and Stripe's own records to be right.

## 9. Plan

Done, in this order: SingleFlight with DispatchContract, SessionLock,
CircuitBreaker, FactStores with SessionKnowledge, DispatchWindows; then SessionBus,
ManifestLedger with LedgerSink and their composition, ReviewCheckpoint, Billing,
AsyncDispatch, and the dispatch variants on top of the breaker; theorems for all
of them, for every safety property the runs check.

What would come next:

1. The inline gate of `security/checkpoint.py` as a second kind of checkpoint, and
   the order of sealing and anchoring in `security/audit_trail.py`.
2. SnapshotRecovery and Retention over FactStores, should the package come to
   call them.
3. A composition of DispatchWindows with DispatchStrategies, so that counters and
   breaker are watched over one call.
