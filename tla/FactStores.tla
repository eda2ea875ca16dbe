----------------------------- MODULE FactStores -----------------------------
(***************************************************************************)
(* The facts of a session: the orchestrator's warm store, the warm store   *)
(* inside the knowledge fabric (CKF), the fabric's event log, compaction,  *)
(* and the file that close() writes and resume() reads                     *)
(* (crp/state/warm_store.py, event_log.py, compaction.py, cold_storage.py, *)
(* crp/ckf/fabric.py, crp/core/extraction_facade.py, orchestrator.py).     *)
(*                                                                         *)
(* A window's extraction adds its facts to the warm store, then to the     *)
(* fabric, which logs the ones that are new to it; afterwards the warm     *)
(* store is compacted when it holds more than Threshold facts.  Every step *)
(* is one critical section of a store or of the log.  The streaming        *)
(* variants run all of this without the session lock.                      *)
(*                                                                         *)
(* The similarity that clusters facts is an equivalence: equal Topic.      *)
(* Supersession is left out (no caller in the repository applies it), and  *)
(* so are edges, ages and confidences.                                     *)
(***************************************************************************)
EXTENDS Integers, FiniteSets, Sequences

CONSTANTS Thread,     \* the threads that extract facts from windows
          Text,       \* contents of facts
          Subject,    \* what facts can be about
          Topic,      \* Topic[x]: what the text x is about
          Capacity,   \* max_facts of either store
          Threshold,  \* fact_threshold of the compaction
          MaxFacts,   \* bound on the number of facts ever made
          Faults      \* what may happen, a subset of FaultKinds

FaultKinds == {"overlap",  \* close() while a stream is under way
               "reset",    \* reset_session(), which takes no lock
               "crash",    \* the process dies
               "io"}       \* the file cannot be written

ASSUME FactStoresAssumption ==
    /\ IsFiniteSet(Text)
    /\ Topic \in [Text -> Subject]
    /\ Capacity \in Nat
    /\ Threshold \in Nat
    /\ MaxFacts \in Nat
    /\ Faults \subseteq FaultKinds

VARIABLES
    warm,     \* _warm_store: its facts, and the texts it has hashes of
    kept,     \* _ckf._warm, likewise
    log,      \* _ckf._event_log
    nextId,   \* the next fact id (a fresh uuid in the code)
    phase,    \* where the session is between open and closed
    draft,    \* what persist_to_cold() has collected
    disk,     \* the session file
    pc,       \* where each thread is in _extract_and_store()
    batch,    \* the facts it still has to store, log or remove
    work,     \* the clusters its compaction has yet to summarise
    summary   \* the summary of the cluster it is on

storeVars == <<warm, kept, log, nextId>>
fileVars == <<phase, draft, disk>>
threadVars == <<pc, batch, work, summary>>
vars == <<warm, kept, log, nextId, phase, draft, disk, pc, batch, work,
          summary>>

Fact == [id : 1..MaxFacts, text : Text]
Event == [kind : {"created", "compacted"}, id : 1..MaxFacts]
Store == [facts : SUBSET Fact, hashes : SUBSET Text]
File == [facts : SUBSET Fact, log : Seq(Event)]

Phase == {"open", "saving", "copied", "closed", "down"}
PC == {"idle", "fabric", "log", "check", "cluster", "next", "remove", "add"}

NoFact == [id |-> 0, text |-> CHOOSE x \in Text : TRUE]

Texts(F) == {f.text : f \in F}
About(F) == {Topic[f.text] : f \in F}

Recorded(l) == {l[n] : n \in 1..Len(l)}

EmptyStore == [facts |-> {}, hashes |-> {}]
EmptyFile == [facts |-> {}, log |-> <<>>]

TypeOK ==
    /\ warm \in Store
    /\ kept \in Store
    /\ log \in Seq(Event)
    /\ nextId \in 1..(MaxFacts + 1)
    /\ phase \in Phase
    /\ draft \in File
    /\ disk \in File
    /\ pc \in [Thread -> PC]
    /\ batch \in [Thread -> SUBSET Fact]
    /\ work \in [Thread -> SUBSET SUBSET Fact]
    /\ summary \in [Thread -> Fact \cup {NoFact}]

Init ==
    /\ warm = EmptyStore
    /\ kept = EmptyStore
    /\ log = <<>>
    /\ nextId = 1
    /\ phase = "open"
    /\ draft = EmptyFile
    /\ disk = EmptyFile
    /\ pc = [t \in Thread |-> "idle"]
    /\ batch = [t \in Thread |-> {}]
    /\ work = [t \in Thread |-> {}]
    /\ summary = [t \in Thread |-> NoFact]

-----------------------------------------------------------------------------
(* WarmStateStore *)

(* add_facts(): known texts are skipped, and once the store is full the    *)
(* rest of the list is dropped.  Of a list of new facts with distinct      *)
(* texts, these are the ones that may get in.                              *)
New(s, F) == {f \in F : f.text \notin s.hashes}

Least(a, b) == IF a < b THEN a ELSE b

Admitted(s, F) ==
    {A \in SUBSET New(s, F) :
        Cardinality(s.facts \cup A)
            = Least(Capacity, Cardinality(s.facts \cup New(s, F)))}

With(s, A) == [facts |-> s.facts \cup A, hashes |-> s.hashes \cup Texts(A)]

(* remove_fact(): a fact that is already gone changes nothing. *)
Mut_Without(s, f) == [s EXCEPT !.facts = @ \ {f}]

Without(s, f) ==
    IF f \in s.facts
    THEN [facts |-> s.facts \ {f}, hashes |-> s.hashes \ {f.text}]
    ELSE s

(* FactEventLog.append() *)
Record(kind, f) == log' = Append(log, [kind |-> kind, id |-> f.id])

Goto(t, l) == pc' = [pc EXCEPT ![t] = l]

-----------------------------------------------------------------------------
(* _extract_and_store() *)

(* The facts of a window: new ids, one for each of the texts X. *)
Numbering(X) ==
    CHOOSE n \in [X -> nextId..(nextId + Cardinality(X) - 1)] :
        \A x, y \in X : n[x] = n[y] => x = y

NewFacts(X) == LET n == Numbering(X) IN {[id |-> n[x], text |-> x] : x \in X}

MayBegin == phase = "open" \/ ("overlap" \in Faults /\ phase \in {"saving", "copied"})

(* A window's facts, if any, go into the warm store ... *)
StoreWarm(t, X) ==
    /\ pc[t] = "idle"
    /\ MayBegin
    /\ nextId + Cardinality(X) <= MaxFacts + 1
    /\ nextId' = nextId + Cardinality(X)
    /\ \E A \in Admitted(warm, NewFacts(X)) : warm' = With(warm, A)
    /\ batch' = [batch EXCEPT ![t] = NewFacts(X)]
    /\ Goto(t, "fabric")
    /\ UNCHANGED <<kept, log, fileVars, work, summary>>

(* ... and into the fabric's store ... *)
Mut_StoreFabric(t) ==
    /\ pc[t] = "fabric"
    /\ \E A \in Admitted(kept, batch[t] \cap warm.facts) :
          /\ kept' = With(kept, A)
          /\ batch' = [batch EXCEPT ![t] = A]
    /\ Goto(t, "log")
    /\ UNCHANGED <<warm, log, nextId, fileVars, work, summary>>

StoreFabric(t) ==
    /\ pc[t] = "fabric"
    /\ \E A \in Admitted(kept, batch[t]) :
          /\ kept' = With(kept, A)
          /\ batch' = [batch EXCEPT ![t] = A]
    /\ Goto(t, "log")
    /\ UNCHANGED <<warm, log, nextId, fileVars, work, summary>>

(* ... which logs what it added, one event after the other. *)
LogCreated(t) ==
    /\ pc[t] = "log"
    /\ \E f \in batch[t] :
          /\ Record("created", f)
          /\ batch' = [batch EXCEPT ![t] = @ \ {f}]
    /\ UNCHANGED <<warm, kept, nextId, fileVars, pc, work, summary>>

Logged(t) ==
    /\ pc[t] = "log"
    /\ batch[t] = {}
    /\ Goto(t, "check")
    /\ UNCHANGED <<storeVars, fileVars, batch, work, summary>>

-----------------------------------------------------------------------------
(* compact() *)

NeedsCompaction == Cardinality(warm.facts) > Threshold

CheckCompaction(t) ==
    /\ pc[t] = "check"
    /\ Goto(t, IF NeedsCompaction THEN "cluster" ELSE "idle")
    /\ UNCHANGED <<storeVars, fileVars, batch, work, summary>>

(* The clusters of two facts or more; too few facts are left alone. *)
Clusters ==
    {C \in {{f \in warm.facts : Topic[f.text] = s} : s \in Subject} :
        Cardinality(C) > 1}

FindClusters(t) ==
    /\ pc[t] = "cluster"
    /\ IF Cardinality(warm.facts) <= Threshold \div 2
       THEN Goto(t, "idle") /\ UNCHANGED work
       ELSE Goto(t, "next") /\ work' = [work EXCEPT ![t] = Clusters]
    /\ UNCHANGED <<storeVars, fileVars, batch, summary>>

(* The summary of a cluster carries the text of one of its members. *)
NextCluster(t) ==
    /\ pc[t] = "next"
    /\ nextId <= MaxFacts
    /\ nextId' = nextId + 1
    /\ \E C \in work[t] : \E f \in C :
          /\ summary' = [summary EXCEPT ![t] = [id |-> nextId, text |-> f.text]]
          /\ batch' = [batch EXCEPT ![t] = C]
          /\ work' = [work EXCEPT ![t] = @ \ {C}]
    /\ Goto(t, "remove")
    /\ UNCHANGED <<warm, kept, log, fileVars>>

(* All clusters are done, or an exception ends the pass, which is only     *)
(* logged (also where the bound on facts is met).                          *)
EndCompaction(t) ==
    /\ pc[t] = "next"
    /\ work[t] = {} \/ nextId > MaxFacts
    /\ work' = [work EXCEPT ![t] = {}]
    /\ Goto(t, "idle")
    /\ UNCHANGED <<storeVars, fileVars, batch, summary>>

(* The members go one by one; batch[t] holds the ones still to go.         *)
(* (Removal and event are one step, as below are addition and event:       *)
(* nobody reads the warm store and the log together during a compaction.)  *)
Mut_Remove(t, f) ==
    /\ pc[t] = "remove"
    /\ f \in batch[t]
    /\ warm' = [warm EXCEPT !.facts = @ \ batch[t]]
    /\ batch' = [batch EXCEPT ![t] = {}]
    /\ Record("compacted", f)
    /\ Goto(t, "add")
    /\ UNCHANGED <<kept, nextId, fileVars, work, summary>>

Remove(t, f) ==
    /\ pc[t] = "remove"
    /\ f \in batch[t]
    /\ warm' = Without(warm, f)
    /\ batch' = [batch EXCEPT ![t] = @ \ {f}]
    /\ Record("compacted", f)
    /\ Goto(t, IF batch[t] = {f} THEN "add" ELSE "remove")
    /\ UNCHANGED <<kept, nextId, fileVars, work, summary>>

(* The summary joins the warm store only, and is logged in any case. *)
AddSummary(t) ==
    /\ pc[t] = "add"
    /\ \E A \in Admitted(warm, {summary[t]}) : warm' = With(warm, A)
    /\ Record("created", summary[t])
    /\ summary' = [summary EXCEPT ![t] = NoFact]
    /\ Goto(t, "next")
    /\ UNCHANGED <<kept, nextId, fileVars, batch, work>>

-----------------------------------------------------------------------------
(* The session. *)

Idle == \A t \in Thread : pc[t] = "idle"

NoThread ==
    /\ pc' = [t \in Thread |-> "idle"]
    /\ batch' = [t \in Thread |-> {}]
    /\ work' = [t \in Thread |-> {}]
    /\ summary' = [t \in Thread |-> NoFact]

(* close() under the session lock, which a stream does not hold:           *)
(* persist_to_cold() copies the fabric's store ...                         *)
SaveStore ==
    /\ phase = "open"
    /\ Idle \/ "overlap" \in Faults
    /\ phase' = "saving"
    /\ draft' = [draft EXCEPT !.facts = kept.facts]
    /\ UNCHANGED <<storeVars, disk, threadVars>>

(* ... then the event log ... *)
SaveLog ==
    /\ phase = "saving"
    /\ phase' = "copied"
    /\ draft' = [draft EXCEPT !.log = log]
    /\ UNCHANGED <<storeVars, disk, threadVars>>

(* ... and replaces the file atomically, if it can be written.             *)
WriteFile ==
    /\ phase = "copied"
    /\ phase' = "closed"
    /\ \/ disk' = draft
       \/ "io" \in Faults /\ UNCHANGED disk
    /\ draft' = EmptyFile
    /\ UNCHANGED <<storeVars, threadVars>>

(* reset_session() puts new stores in place.  A thread inside the fabric's *)
(* store() or inside compact() goes on with the old ones, which nobody     *)
(* sees; a thread before that call finds the new fabric.                   *)
Reset ==
    /\ "reset" \in Faults
    /\ phase = "open"
    /\ warm' = EmptyStore
    /\ kept' = EmptyStore
    /\ log' = <<>>
    /\ pc' = [t \in Thread |-> CASE pc[t] \in {"fabric", "check"} -> pc[t]
                                 [] pc[t] = "log" -> "check"
                                 [] OTHER -> "idle"]
    /\ batch' = [t \in Thread |-> IF pc[t] = "fabric" THEN batch[t] ELSE {}]
    /\ work' = [t \in Thread |-> {}]
    /\ summary' = [t \in Thread |-> NoFact]
    /\ UNCHANGED <<nextId, fileVars>>

Crash ==
    /\ "crash" \in Faults
    /\ phase # "down"
    /\ phase' = "down"
    /\ warm' = EmptyStore
    /\ kept' = EmptyStore
    /\ log' = <<>>
    /\ draft' = EmptyFile
    /\ NoThread
    /\ UNCHANGED <<nextId, disk>>

(* resume(): a new orchestrator whose fabric is the file, and whose warm   *)
(* store gets all of the fabric's facts.                                   *)
Resume ==
    /\ phase \in {"closed", "down"}
    /\ phase' = "open"
    /\ kept' = With(EmptyStore, disk.facts)
    /\ log' = disk.log
    /\ \E A \in Admitted(EmptyStore, disk.facts) : warm' = With(EmptyStore, A)
    /\ NoThread
    /\ UNCHANGED <<nextId, draft, disk>>

Next ==
    \/ \E t \in Thread :
          \/ \E X \in SUBSET Text : StoreWarm(t, X)
          \/ StoreFabric(t) \/ LogCreated(t) \/ Logged(t)
          \/ CheckCompaction(t) \/ FindClusters(t) \/ NextCluster(t)
          \/ \E f \in batch[t] : Remove(t, f)
          \/ AddSummary(t) \/ EndCompaction(t)
    \/ SaveStore \/ SaveLog \/ WriteFile
    \/ Reset \/ Crash \/ Resume

Spec == Init /\ [][Next]_vars

-----------------------------------------------------------------------------
(* warm_store.py: "deduplicate by content", "Clean content-dedup hash":    *)
(* the hashes of a store are those of its facts, no two of which have the  *)
(* same text, so that nothing is turned away as a duplicate of what the    *)
(* store no longer holds.                                                  *)
HashesExact ==
    \A s \in {warm, kept} :
        /\ s.hashes = Texts(s.facts)
        /\ \A f, g \in s.facts : f.text = g.text => f = g

(* Until it is full, the fabric, which is all that a close saves, has      *)
(* every text of the warm store, whatever compactions, resets and other    *)
(* threads do; a thread may have yet to bring it there.                    *)
FabricHasAll ==
    Cardinality(kept.facts) < Capacity =>
        Texts(warm.facts) \subseteq
            Texts(kept.facts) \cup
                UNION {Texts(batch[t]) : t \in {u \in Thread : pc[u] = "fabric"}}

(* event_log.py: "Every fact mutation (create, ...) is recorded": a fact   *)
(* of the fabric has its created event, unless its thread is about to log  *)
(* it; a file written while nothing was under way says so as well.         *)
LogComplete ==
    "overlap" \notin Faults =>
        /\ \A f \in kept.facts :
              \/ [kind |-> "created", id |-> f.id] \in Recorded(log)
              \/ \E t \in Thread : pc[t] = "log" /\ f \in batch[t]
        /\ \A f \in disk.facts :
              [kind |-> "created", id |-> f.id] \in Recorded(disk.log)

(* Knowledge only grows, a close saves it and a resume brings it back,     *)
(* although compaction removes facts before it adds their summary and the  *)
(* warm store, the fabric and the file each drop what they take for a      *)
(* duplicate.  What a thread is compacting counts as known.                *)
Known == About(warm.facts \cup ({summary[t] : t \in Thread} \ {NoFact}))

Knowledge == INSTANCE SessionKnowledge WITH
                 known <- Known,
                 saved <- About(disk.facts),
                 running <- phase \notin {"closed", "down"}

ImplementsKnowledge == Knowledge!Spec
=============================================================================
