-------------------------- MODULE FactStores_proofs --------------------------
(***************************************************************************)
(* Proofs about FactStores for any threads, texts, capacities, thresholds  *)
(* and faults; that they implement SessionKnowledge holds where the stores *)
(* have room and neither a reset nor a stream during a close takes part.   *)
(***************************************************************************)
EXTENDS FactStores, FiniteSetTheorems, FunctionTheorems, TLAPS

(* No two facts of a set have the same text.                               *)
Distinct(F) == \A f, g \in F : f.text = g.text => f = g

Exact(s) == s.hashes = Texts(s.facts) /\ Distinct(s.facts)

(* The stores are exact, and so is everything that is yet to be added to   *)
(* one of them: the facts of a window, a copy for the file, the file.      *)
Hashed ==
    /\ Exact(warm)
    /\ Exact(kept)
    /\ Distinct(draft.facts)
    /\ Distinct(disk.facts)
    /\ \A t \in Thread : pc[t] = "fabric" => Distinct(batch[t])

-----------------------------------------------------------------------------
(* What the operators of a store preserve. *)

(* The texts of two sets of facts together. *)
LEMMA TextsOfUnion ==
    ASSUME NEW F, NEW G
    PROVE  Texts(F \cup G) = Texts(F) \cup Texts(G)
BY DEF Texts

(* A store that takes facts with a hash each keeps its index of hashes     *)
(* exact.                                                                  *)
LEMMA WithIsExact ==
    ASSUME NEW s, Exact(s), NEW F, Distinct(F), NEW A \in Admitted(s, F)
    PROVE  Exact(With(s, A)) /\ Distinct(A)
<1>1. A \subseteq F /\ \A f \in A : f.text \notin Texts(s.facts)
  BY DEF Admitted, New, Exact
<1>2. Distinct(s.facts \cup A)
  BY <1>1 DEF Exact, Distinct, Texts
<1>3. With(s, A).facts = s.facts \cup A /\ With(s, A).hashes = s.hashes \cup Texts(A)
  BY DEF With
<1>4. With(s, A).hashes = Texts(With(s, A).facts)
  BY <1>3, TextsOfUnion DEF Exact
<1> QED
  BY <1>1, <1>2, <1>3, <1>4 DEF Exact, Distinct

(* So does one that loses a fact with its hash. *)
LEMMA WithoutIsExact ==
    ASSUME NEW s, Exact(s), NEW f
    PROVE  Exact(Without(s, f))
<1>1. CASE f \in s.facts
  <2>1. Without(s, f).facts = s.facts \ {f} /\ Without(s, f).hashes = s.hashes \ {f.text}
    BY <1>1 DEF Without
  <2>2. s.hashes \ {f.text} = Texts(s.facts \ {f})
    BY <1>1 DEF Exact, Distinct, Texts
  <2>3. Distinct(s.facts \ {f})
    BY DEF Exact, Distinct
  <2> QED
    BY <2>1, <2>2, <2>3 DEF Exact
<1>2. CASE f \notin s.facts
  BY <1>2 DEF Without
<1> QED
  BY <1>1, <1>2

(* An empty store is exact. *)
LEMMA EmptyIsExact == Exact(EmptyStore) /\ Distinct({})
BY DEF Exact, EmptyStore, Distinct, Texts

(* The facts made of some texts have each text once. *)
LEMMA NewFactsAreDistinct ==
    ASSUME NEW X
    PROVE  Distinct(NewFacts(X)) /\ Texts(NewFacts(X)) = X
<1> DEFINE n == Numbering(X)
<1>1. NewFacts(X) = {[id |-> n[x], text |-> x] : x \in X}
  BY DEF NewFacts
<1> HIDE DEF n
<1>2. ASSUME NEW f \in NewFacts(X)
      PROVE  f.text \in X /\ f = [id |-> n[f.text], text |-> f.text]
  <2>1. PICK x \in X : f = [id |-> n[x], text |-> x]
    BY <1>1
  <2>2. f.text = x
    BY <2>1
  <2> QED
    BY <2>1, <2>2
<1>3. ASSUME NEW x \in X PROVE \E f \in NewFacts(X) : f.text = x
  <2>1. [id |-> n[x], text |-> x] \in NewFacts(X)
    BY <1>1
  <2>2. [id |-> n[x], text |-> x].text = x
    OBVIOUS
  <2> QED
    BY <2>1, <2>2
<1>4. Texts(NewFacts(X)) = X
  BY <1>2, <1>3 DEF Texts
<1> QED
  BY <1>2, <1>4 DEF Distinct

-----------------------------------------------------------------------------
(* Types. *)

(* New facts are numbered on from the last. *)
LEMMA NumberingExists ==
    ASSUME TypeOK, NEW X \in SUBSET Text
    PROVE  /\ Cardinality(X) \in Nat
           /\ Numbering(X) \in [X -> nextId..(nextId + Cardinality(X) - 1)]
<1> DEFINE c == Cardinality(X)
           S == [X -> nextId..(nextId + c - 1)]
<1>1. c \in Nat /\ ExistsBijection(1..c, X)
  BY FactStoresAssumption, FS_Subset, FS_CardinalityType
<1>2. PICK g : g \in Bijection(X, 1..c)
  BY <1>1, Fun_ExistsBijSymmetric DEF ExistsBijection
<1>3. g \in [X -> 1..c] /\ \A x, y \in X : g[x] = g[y] => x = y
  BY <1>2 DEF Bijection, Injection, IsInjective
<1>4. nextId \in Nat
  BY DEF TypeOK
<1>5. \E n \in S : \A x, y \in X : n[x] = n[y] => x = y
  <2> DEFINE n == [x \in X |-> g[x] + nextId - 1]
  <2>1. n \in S
    BY <1>1, <1>3, <1>4
  <2>2. \A x, y \in X : n[x] = n[y] => x = y
    BY <1>1, <1>3, <1>4
  <2> QED
    BY <2>1, <2>2
<1>6. Numbering(X) = CHOOSE n \in S : \A x, y \in X : n[x] = n[y] => x = y
  BY DEF Numbering
<1> QED
  BY <1>1, <1>5, <1>6

(* New facts are facts while their numbers last. *)
LEMMA NewFactsTyped ==
    ASSUME TypeOK, NEW X \in SUBSET Text,
           nextId + Cardinality(X) <= MaxFacts + 1
    PROVE  NewFacts(X) \in SUBSET Fact
<1> DEFINE n == Numbering(X)
<1>1. \A x \in X : n[x] \in 1..MaxFacts
  BY NumberingExists, FactStoresAssumption DEF TypeOK
<1>2. NewFacts(X) = {[id |-> n[x], text |-> x] : x \in X}
  BY DEF NewFacts
<1> HIDE DEF n
<1> QED
  BY <1>1, <1>2 DEF Fact

(* A store that admits facts is a store. *)
LEMMA WithTyped ==
    ASSUME NEW s \in Store, NEW F \in SUBSET Fact, NEW A \in Admitted(s, F)
    PROVE  A \in SUBSET F /\ With(s, A) \in Store
<1>1. A \in SUBSET F
  BY DEF Admitted, New
<1>2. Texts(A) \in SUBSET Text
  BY <1>1 DEF Texts, Fact
<1> QED
  BY <1>1, <1>2 DEF With, Store

(* Empty stores and files are stores and files. *)
LEMMA EmptyTyped == EmptyStore \in Store /\ EmptyFile \in File
BY DEF EmptyStore, EmptyFile, Store, File

(* The log records events. *)
LEMMA RecordTyped ==
    ASSUME TypeOK, NEW f \in Fact, NEW kind \in {"created", "compacted"}, Record(kind, f)
    PROVE  log' \in Seq(Event)
<1>1. [kind |-> kind, id |-> f.id] \in Event
  BY DEF Fact, Event
<1> QED
  BY <1>1 DEF Record, TypeOK

(* A compaction that is under way has its summary.                         *)
Summarised == \A t \in Thread : pc[t] \in {"remove", "add"} => summary[t] \in Fact

(* No step of the stores spoils a type. *)
LEMMA StepTyped == TypeOK /\ Summarised /\ [Next]_vars => TypeOK'
<1> SUFFICES ASSUME TypeOK, Summarised, [Next]_vars PROVE TypeOK'
  OBVIOUS
<1> USE DEF storeVars, fileVars, threadVars, Goto
<1>0. /\ MaxFacts \in Nat /\ nextId \in 1..(MaxFacts + 1)
      /\ \A t \in Thread : batch[t] \in SUBSET Fact /\ work[t] \in SUBSET SUBSET Fact
  BY FactStoresAssumption DEF TypeOK
<1>1. ASSUME NEW t \in Thread, NEW X \in SUBSET Text, StoreWarm(t, X) PROVE TypeOK'
  <2>1. NewFacts(X) \in SUBSET Fact /\ Cardinality(X) \in Nat
    BY <1>1, NewFactsTyped, NumberingExists DEF StoreWarm
  <2>2. warm' \in Store
    BY <1>1, <2>1, WithTyped DEF StoreWarm, TypeOK
  <2>3. nextId' \in 1..(MaxFacts + 1)
    BY <1>0, <1>1, <2>1 DEF StoreWarm, TypeOK
  <2>4. pc' \in [Thread -> PC] /\ batch' \in [Thread -> SUBSET Fact]
    BY <1>1, <2>1 DEF StoreWarm, TypeOK, PC
  <2> QED
    BY <1>1, <2>2, <2>3, <2>4 DEF StoreWarm, TypeOK
<1>2. ASSUME NEW t \in Thread, StoreFabric(t) PROVE TypeOK'
  <2>1. PICK A \in Admitted(kept, batch[t]) :
            kept' = With(kept, A) /\ batch' = [batch EXCEPT ![t] = A]
    BY <1>2 DEF StoreFabric
  <2>2. kept' \in Store /\ A \in SUBSET Fact
    BY <1>0, <2>1, WithTyped DEF TypeOK
  <2>3. batch' \in [Thread -> SUBSET Fact] /\ pc' \in [Thread -> PC]
    BY <1>2, <2>1, <2>2 DEF StoreFabric, TypeOK, PC
  <2> QED
    BY <1>2, <2>2, <2>3 DEF StoreFabric, TypeOK
<1>3. ASSUME NEW t \in Thread, LogCreated(t) PROVE TypeOK'
  <2>1. log' \in Seq(Event)
    BY <1>0, <1>3, RecordTyped DEF LogCreated
  <2>2. batch' \in [Thread -> SUBSET Fact]
    BY <1>3 DEF LogCreated, TypeOK
  <2> QED
    BY <1>3, <2>1, <2>2 DEF LogCreated, TypeOK
<1>4. ASSUME NEW t \in Thread, Logged(t) \/ CheckCompaction(t) PROVE TypeOK'
  BY <1>4 DEF Logged, CheckCompaction, TypeOK, PC
<1>5. ASSUME NEW t \in Thread, FindClusters(t) PROVE TypeOK'
  <2>1. Clusters \in SUBSET SUBSET Fact
    BY DEF Clusters, TypeOK, Store
  <2>2. work' \in [Thread -> SUBSET SUBSET Fact] /\ pc' \in [Thread -> PC]
    BY <1>5, <2>1 DEF FindClusters, TypeOK, PC
  <2> QED
    BY <1>5, <2>2 DEF FindClusters, TypeOK
<1>6. ASSUME NEW t \in Thread, NextCluster(t) PROVE TypeOK'
  <2>1. PICK C \in work[t] : \E f \in C :
            /\ summary' = [summary EXCEPT ![t] = [id |-> nextId, text |-> f.text]]
            /\ batch' = [batch EXCEPT ![t] = C]
            /\ work' = [work EXCEPT ![t] = @ \ {C}]
    BY <1>6 DEF NextCluster
  <2>2. PICK f \in C :
            /\ summary' = [summary EXCEPT ![t] = [id |-> nextId, text |-> f.text]]
            /\ batch' = [batch EXCEPT ![t] = C]
            /\ work' = [work EXCEPT ![t] = @ \ {C}]
    BY <2>1
  <2>a. C \in SUBSET Fact /\ f.text \in Text
    BY <1>0, <2>1 DEF Fact
  <2>3. [id |-> nextId, text |-> f.text] \in Fact
    BY <1>0, <1>6, <2>a DEF NextCluster, Fact
  <2>4. summary' \in [Thread -> Fact \cup {NoFact}]
    BY <2>2, <2>3 DEF TypeOK
  <2>5. batch' \in [Thread -> SUBSET Fact] /\ work' \in [Thread -> SUBSET SUBSET Fact]
    BY <2>2, <2>a DEF TypeOK
  <2>6. nextId' \in 1..(MaxFacts + 1) /\ pc' \in [Thread -> PC]
    BY <1>0, <1>6 DEF NextCluster, TypeOK, PC
  <2> QED
    BY <1>6, <2>4, <2>5, <2>6 DEF NextCluster, TypeOK
<1>7. ASSUME NEW t \in Thread, EndCompaction(t) PROVE TypeOK'
  BY <1>7 DEF EndCompaction, TypeOK, PC
<1>8. ASSUME NEW t \in Thread, NEW f \in batch[t], Remove(t, f) PROVE TypeOK'
  <2>1. log' \in Seq(Event)
    BY <1>0, <1>8, RecordTyped DEF Remove
  <2>2. warm' \in Store
    BY <1>8 DEF Remove, Without, TypeOK, Store
  <2>3. batch' \in [Thread -> SUBSET Fact] /\ pc' \in [Thread -> PC]
    BY <1>8 DEF Remove, TypeOK, PC
  <2> QED
    BY <1>8, <2>1, <2>2, <2>3 DEF Remove, TypeOK
<1>9. ASSUME NEW t \in Thread, AddSummary(t) PROVE TypeOK'
  <2>1. PICK A \in Admitted(warm, {summary[t]}) : warm' = With(warm, A)
    BY <1>9 DEF AddSummary
  <2>2. summary[t] \in Fact
    BY <1>9 DEF AddSummary, Summarised
  <2>3. warm' \in Store /\ log' \in Seq(Event)
    <3>1. warm' \in Store
      BY <2>1, <2>2, WithTyped DEF TypeOK
    <3>2. log' \in Seq(Event)
      BY <1>9, <2>2, RecordTyped DEF AddSummary
    <3> QED
      BY <3>1, <3>2
  <2>4. summary' \in [Thread -> Fact \cup {NoFact}] /\ pc' \in [Thread -> PC]
    BY <1>9 DEF AddSummary, TypeOK, PC
  <2> QED
    BY <1>9, <2>3, <2>4 DEF AddSummary, TypeOK
<1>10. CASE SaveStore \/ SaveLog \/ WriteFile
  <2>1. draft' \in File /\ disk' \in File /\ phase' \in Phase
    BY <1>10, EmptyTyped DEF SaveStore, SaveLog, WriteFile, TypeOK, File, Store, Phase
  <2> QED
    BY <1>10, <2>1 DEF SaveStore, SaveLog, WriteFile, TypeOK
<1>11. CASE Reset
  <2>1. pc' \in [Thread -> PC]
    BY <1>11 DEF Reset, TypeOK, PC
  <2>2. /\ batch' \in [Thread -> SUBSET Fact] /\ work' \in [Thread -> SUBSET SUBSET Fact]
        /\ summary' \in [Thread -> Fact \cup {NoFact}]
    BY <1>11 DEF Reset, TypeOK
  <2>3. log' \in Seq(Event)
    BY <1>0, <1>11 DEF Reset
  <2> QED
    BY <1>11, <2>1, <2>2, <2>3, EmptyTyped DEF Reset, TypeOK
<1>12. ASSUME NoThread
       PROVE  /\ pc' \in [Thread -> PC] /\ batch' \in [Thread -> SUBSET Fact]
              /\ work' \in [Thread -> SUBSET SUBSET Fact]
              /\ summary' \in [Thread -> Fact \cup {NoFact}]
  BY <1>12 DEF NoThread, PC
<1>13. CASE Crash
  <2>1. log' \in Seq(Event) /\ phase' \in Phase
    BY <1>13 DEF Crash, Phase
  <2> QED
    BY <1>12, <1>13, <2>1, EmptyTyped DEF Crash, TypeOK
<1>14. CASE Resume
  <2>1. PICK A \in Admitted(EmptyStore, disk.facts) : warm' = With(EmptyStore, A)
    BY <1>14 DEF Resume
  <2>2. disk.facts \in SUBSET Fact /\ disk.log \in Seq(Event)
    BY DEF TypeOK, File
  <2>3. warm' \in Store
    BY <2>1, <2>2, WithTyped, EmptyTyped
  <2>4. kept' \in Store
    BY <1>14, <2>2 DEF Resume, With, EmptyStore, Store, Texts, Fact
  <2>5. phase' \in Phase
    BY <1>0, <1>14 DEF Resume, Phase
  <2> QED
    BY <1>12, <1>14, <2>2, <2>3, <2>4, <2>5 DEF Resume, TypeOK
<1>15. CASE UNCHANGED vars
  BY <1>15 DEF vars, TypeOK
<1> QED
  BY <1>1, <1>2, <1>3, <1>4, <1>5, <1>6, <1>7, <1>8, <1>9, <1>10, <1>11, <1>13,
     <1>14, <1>15 DEF Next

(* A compaction under way has its summary. *)
LEMMA StepSummarised == TypeOK /\ Summarised /\ [Next]_vars => Summarised'
<1> SUFFICES ASSUME TypeOK, Summarised, [Next]_vars,
                    NEW t \in Thread, pc'[t] \in {"remove", "add"}
             PROVE  summary'[t] \in Fact
  BY DEF Summarised
<1> USE DEF storeVars, fileVars, threadVars, Goto
<1>1. ASSUME NEW u \in Thread, NextCluster(u) PROVE summary'[t] \in Fact
  <2>1. PICK C \in work[u] : \E f \in C :
            summary' = [summary EXCEPT ![u] = [id |-> nextId, text |-> f.text]]
    BY <1>1 DEF NextCluster
  <2>2. PICK f \in C : summary' = [summary EXCEPT ![u] = [id |-> nextId, text |-> f.text]]
    BY <2>1
  <2>3. f \in Fact
    BY <2>1, <2>2 DEF TypeOK
  <2>4. [id |-> nextId, text |-> f.text] \in Fact
    BY <1>1, <2>3, FactStoresAssumption DEF NextCluster, TypeOK, Fact
  <2>5. t # u => pc[t] \in {"remove", "add"}
    BY <1>1 DEF NextCluster, TypeOK
  <2> QED
    BY <2>2, <2>4, <2>5 DEF Summarised, TypeOK
<1>2. ASSUME NEW u \in Thread, NEW f \in batch[u], Remove(u, f) PROVE summary'[t] \in Fact
  BY <1>2 DEF Remove, Summarised, TypeOK
<1>3. ASSUME NEW u \in Thread,
             \/ \E X \in SUBSET Text : StoreWarm(u, X)
             \/ StoreFabric(u) \/ LogCreated(u) \/ Logged(u) \/ CheckCompaction(u)
             \/ FindClusters(u) \/ EndCompaction(u) \/ AddSummary(u)
      PROVE  summary'[t] \in Fact
  <2>1. pc'[t] = pc[t] /\ (t # u => summary'[t] = summary[t])
    BY <1>3 DEF StoreWarm, StoreFabric, LogCreated, Logged, CheckCompaction,
                FindClusters, EndCompaction, AddSummary, TypeOK
  <2>2. t # u \/ summary'[t] = summary[t]
    BY <1>3 DEF StoreWarm, StoreFabric, LogCreated, Logged, CheckCompaction,
                FindClusters, EndCompaction, AddSummary, TypeOK
  <2> QED
    BY <2>1, <2>2 DEF Summarised
<1>4. CASE SaveStore \/ SaveLog \/ WriteFile \/ UNCHANGED vars
  BY <1>4 DEF SaveStore, SaveLog, WriteFile, vars, Summarised
<1>5. CASE Reset \/ Crash \/ Resume
  <2>1. pc'[t] \notin {"remove", "add"}
    BY <1>5 DEF Reset, Crash, Resume, NoThread
  <2> QED
    BY <2>1
<1> QED
  BY <1>1, <1>2, <1>3, <1>4, <1>5 DEF Next

(* Both hold throughout. *)
LEMMA Types == Spec => [](TypeOK /\ Summarised)
<1>1. Init => TypeOK /\ Summarised
  <2> SUFFICES ASSUME Init PROVE TypeOK /\ Summarised
    OBVIOUS
  <2>1. warm \in Store /\ kept \in Store /\ draft \in File /\ disk \in File
    BY EmptyTyped DEF Init
  <2>2. log \in Seq(Event) /\ phase \in Phase
    BY DEF Init, Phase
  <2>3. nextId \in 1..(MaxFacts + 1)
    BY FactStoresAssumption DEF Init
  <2>4. pc \in [Thread -> PC] /\ batch \in [Thread -> SUBSET Fact]
    BY DEF Init, PC
  <2>5. work \in [Thread -> SUBSET SUBSET Fact] /\ summary \in [Thread -> Fact \cup {NoFact}]
    BY DEF Init
  <2>6. Summarised
    BY DEF Init, Summarised
  <2> QED
    BY <2>1, <2>2, <2>3, <2>4, <2>5, <2>6 DEF TypeOK
<1> QED
  BY <1>1, StepTyped, StepSummarised, PTL DEF Spec

(* Every reachable state of the stores, the log and the file is well       *)
(* formed; a summary that is to be added is a fact.                        *)
THEOREM TypeCorrect == Spec => []TypeOK
BY Types, PTL

-----------------------------------------------------------------------------
(* Deduplication. *)

(* Every store keeps its index of hashes exact. *)
LEMMA StepHashed == TypeOK /\ Hashed /\ [Next]_vars => Hashed'
<1> SUFFICES ASSUME TypeOK, Hashed, [Next]_vars PROVE Hashed'
  OBVIOUS
<1> USE DEF storeVars, fileVars, threadVars, Goto
<1>1. ASSUME NEW t \in Thread, NEW X \in SUBSET Text, StoreWarm(t, X) PROVE Hashed'
  <2>1. PICK A \in Admitted(warm, NewFacts(X)) : warm' = With(warm, A)
    BY <1>1 DEF StoreWarm
  <2>2. Exact(warm')
    BY <2>1, WithIsExact, NewFactsAreDistinct DEF Hashed
  <2>3. \A u \in Thread : pc'[u] = "fabric" => Distinct(batch'[u])
    BY <1>1, NewFactsAreDistinct DEF StoreWarm, Hashed, TypeOK
  <2> QED
    BY <1>1, <2>2, <2>3 DEF StoreWarm, Hashed, Exact
<1>2. ASSUME NEW t \in Thread, StoreFabric(t) PROVE Hashed'
  <2>1. PICK A \in Admitted(kept, batch[t]) :
            kept' = With(kept, A) /\ batch' = [batch EXCEPT ![t] = A]
    BY <1>2 DEF StoreFabric
  <2>2. Exact(kept')
    BY <1>2, <2>1, WithIsExact DEF Hashed, StoreFabric
  <2>3. \A u \in Thread : pc'[u] = "fabric" => Distinct(batch'[u])
    BY <1>2, <2>1 DEF StoreFabric, Hashed, TypeOK
  <2> QED
    BY <1>2, <2>2, <2>3 DEF StoreFabric, Hashed, Exact
<1>3. ASSUME NEW t \in Thread, NEW f \in batch[t], Remove(t, f) PROVE Hashed'
  <2>1. Exact(warm')
    BY <1>3, WithoutIsExact DEF Remove, Hashed
  <2>2. \A u \in Thread : pc'[u] = "fabric" => Distinct(batch'[u])
    BY <1>3 DEF Remove, Hashed
  <2> QED
    BY <1>3, <2>1, <2>2 DEF Remove, Hashed, Exact
<1>4. ASSUME NEW t \in Thread, AddSummary(t) PROVE Hashed'
  <2>1. PICK A \in Admitted(warm, {summary[t]}) : warm' = With(warm, A)
    BY <1>4 DEF AddSummary
  <2>2. Distinct({summary[t]})
    BY DEF Distinct
  <2>3. Exact(warm')
    BY <2>1, <2>2, WithIsExact DEF Hashed
  <2> QED
    BY <1>4, <2>3 DEF AddSummary, Hashed, Exact
<1>5. ASSUME NEW t \in Thread,
             \/ LogCreated(t) \/ Logged(t) \/ CheckCompaction(t)
             \/ FindClusters(t) \/ NextCluster(t) \/ EndCompaction(t)
      PROVE  Hashed'
  <2>1. /\ UNCHANGED <<warm, kept, draft, disk>>
        /\ \A u \in Thread : pc'[u] = "fabric" => pc[u] = "fabric" /\ batch'[u] = batch[u]
    BY <1>5 DEF LogCreated, Logged, CheckCompaction, FindClusters, NextCluster,
                EndCompaction, TypeOK
  <2> QED
    BY <2>1 DEF Hashed, Exact
<1>6. CASE SaveStore \/ SaveLog
  <2>1. /\ UNCHANGED <<warm, kept, disk, pc, batch>>
        /\ draft'.facts = kept.facts \/ draft'.facts = draft.facts
    BY <1>6 DEF SaveStore, SaveLog, TypeOK, File
  <2> QED
    BY <2>1 DEF Hashed, Exact
<1>7. CASE WriteFile
  <2>1. /\ UNCHANGED <<warm, kept, pc, batch>>
        /\ draft'.facts = {}
        /\ disk' = draft \/ disk' = disk
    BY <1>7 DEF WriteFile, EmptyFile
  <2> QED
    BY <2>1, EmptyIsExact DEF Hashed, Exact
<1>8. CASE Reset
  <2>1. \A u \in Thread : pc'[u] = "fabric" => pc[u] = "fabric" /\ batch'[u] = batch[u]
    BY <1>8 DEF Reset
  <2> QED
    BY <1>8, <2>1, EmptyIsExact DEF Reset, Hashed
<1>9. CASE Crash
  BY <1>9, EmptyIsExact DEF Crash, NoThread, EmptyFile, Hashed
<1>10. CASE Resume
  <2>1. PICK A \in Admitted(EmptyStore, disk.facts) : warm' = With(EmptyStore, A)
    BY <1>10 DEF Resume
  <2>2. Exact(warm')
    BY <2>1, WithIsExact, EmptyIsExact DEF Hashed
  <2>3. Exact(kept')
    BY <1>10 DEF Resume, With, EmptyStore, Exact, Hashed, Texts
  <2> QED
    BY <1>10, <2>2, <2>3 DEF Resume, NoThread, Hashed
<1>11. CASE UNCHANGED vars
  BY <1>11 DEF vars, Hashed, Exact
<1> QED
  BY <1>1, <1>2, <1>3, <1>4, <1>5, <1>6, <1>7, <1>8, <1>9, <1>10, <1>11 DEF Next

(* Deduplication turns away a text only while the store holds it, and lets *)
(* no text in twice, however the windows, their compactions and resets     *)
(* interleave.                                                             *)
THEOREM HashesAreExact == Spec => []HashesExact
<1>1. Init => Hashed
  BY EmptyIsExact DEF Init, Hashed, EmptyFile
<1>2. Hashed => HashesExact
  BY DEF Hashed, HashesExact, Exact, Distinct
<1> QED
  BY <1>1, <1>2, StepHashed, Types, PTL DEF Spec
-----------------------------------------------------------------------------
(* The event log. *)

Has(l, f) == [kind |-> "created", id |-> f.id] \in Recorded(l)

(* Without streams beside a close, nothing is under way while the file is  *)
(* put together, so that the facts and the events copied one after the     *)
(* other belong together.                                                  *)
Covered ==
    /\ \A f \in kept.facts : Has(log, f) \/ \E t \in Thread : pc[t] = "log" /\ f \in batch[t]
    /\ \A f \in disk.facts : Has(disk.log, f)
    /\ phase \in {"saving", "copied"} => Idle
    /\ phase = "saving" => \A f \in draft.facts : Has(log, f)
    /\ phase = "copied" => \A f \in draft.facts : Has(draft.log, f)

(* Recording forgets nothing. *)
LEMMA RecordAdds ==
    ASSUME TypeOK, NEW f \in Fact, NEW kind \in {"created", "compacted"}, Record(kind, f)
    PROVE  /\ \A g : Has(log, g) => Has(log', g)
           /\ kind = "created" => Has(log', f)
<1> DEFINE e == [kind |-> kind, id |-> f.id]
<1>1. e \in Event /\ log \in Seq(Event) /\ log' = Append(log, e)
  BY DEF Record, TypeOK, Fact, Event
<1>2. /\ Len(log') = Len(log) + 1 /\ Len(log) \in Nat
      /\ \A n \in 1..Len(log) : log'[n] = log[n]
      /\ log'[Len(log) + 1] = e
  BY <1>1
<1>3. Recorded(log) \subseteq Recorded(log') /\ e \in Recorded(log')
  BY <1>2 DEF Recorded
<1> QED
  BY <1>3 DEF Has

(* Unless saves overlap, each step leaves the facts of the fabric and of   *)
(* the file in their logs, or about to be recorded.                        *)
LEMMA StepCovered ==
    ASSUME "overlap" \notin Faults, TypeOK, Summarised, Covered, [Next]_vars
    PROVE  Covered'
<1> USE DEF storeVars, fileVars, threadVars, Goto
<1>0. \A t \in Thread : pc[t] # "idle" => phase \notin {"saving", "copied"}
  BY DEF Covered, Idle
<1>log. ASSUME NEW t \in Thread, pc[t] # "idle", UNCHANGED <<kept, fileVars>>,
               \A f \in kept.facts : Has(log, f) => Has(log', f),
               \A f \in kept.facts, u \in Thread :
                   pc[u] = "log" /\ f \in batch[u] =>
                       Has(log', f) \/ (pc'[u] = "log" /\ f \in batch'[u])
        PROVE  Covered'
  BY <1>0, <1>log DEF Covered, Has, Recorded
<1>1. ASSUME NEW t \in Thread, NEW X \in SUBSET Text, StoreWarm(t, X) PROVE Covered'
  <2>1. phase = "open" /\ UNCHANGED <<kept, log, fileVars>>
    BY <1>1 DEF StoreWarm, MayBegin
  <2>2. \A u \in Thread : pc[u] = "log" => pc'[u] = "log" /\ batch'[u] = batch[u]
    BY <1>1 DEF StoreWarm, TypeOK
  <2> QED
    BY <2>1, <2>2 DEF Covered, Has, Recorded
<1>2. ASSUME NEW t \in Thread, StoreFabric(t) PROVE Covered'
  <2>1. PICK A \in Admitted(kept, batch[t]) :
            kept' = With(kept, A) /\ batch' = [batch EXCEPT ![t] = A]
    BY <1>2 DEF StoreFabric
  <2>2. kept'.facts = kept.facts \cup A
    BY <2>1 DEF With
  <2>3. pc'[t] = "log" /\ batch'[t] = A
    BY <1>2, <2>1 DEF StoreFabric, TypeOK
  <2>4. \A u \in Thread : pc[u] = "log" => pc'[u] = "log" /\ batch'[u] = batch[u]
    BY <1>2, <2>1 DEF StoreFabric, TypeOK
  <2>5. phase \notin {"saving", "copied"} /\ UNCHANGED <<log, phase, draft, disk>>
    BY <1>0, <1>2 DEF StoreFabric
  <2> QED
    BY <2>2, <2>3, <2>4, <2>5 DEF Covered, Has, Recorded
<1>3. ASSUME NEW t \in Thread, LogCreated(t) PROVE Covered'
  <2>1. PICK f \in batch[t] : Record("created", f) /\ batch' = [batch EXCEPT ![t] = @ \ {f}]
    BY <1>3 DEF LogCreated
  <2>2. f \in Fact
    BY <2>1 DEF TypeOK
  <2>3. Has(log', f) /\ \A g : Has(log, g) => Has(log', g)
    BY <2>1, <2>2, RecordAdds
  <2>4. \A g, u : u \in Thread /\ pc[u] = "log" /\ g \in batch[u] =>
                  g = f \/ (pc'[u] = "log" /\ g \in batch'[u])
    BY <1>3, <2>1 DEF LogCreated, TypeOK
  <2> QED
    BY <1>3, <2>3, <2>4, <1>log DEF LogCreated
<1>4. ASSUME NEW t \in Thread, NEW f \in batch[t], Remove(t, f) PROVE Covered'
  <2>1. f \in Fact
    BY <1>4 DEF TypeOK
  <2>2. \A g : Has(log, g) => Has(log', g)
    BY <1>4, <2>1, RecordAdds DEF Remove
  <2>3. \A u \in Thread : pc[u] = "log" => pc'[u] = "log" /\ batch'[u] = batch[u]
    BY <1>4 DEF Remove, TypeOK
  <2> QED
    BY <1>4, <2>2, <2>3, <1>log DEF Remove
<1>5. ASSUME NEW t \in Thread, AddSummary(t) PROVE Covered'
  <2>1. summary[t] \in Fact
    BY <1>5 DEF AddSummary, Summarised
  <2>2. \A g : Has(log, g) => Has(log', g)
    BY <1>5, <2>1, RecordAdds DEF AddSummary
  <2>3. \A u \in Thread : pc[u] = "log" => pc'[u] = "log" /\ batch'[u] = batch[u]
    BY <1>5 DEF AddSummary, TypeOK
  <2> QED
    BY <1>5, <2>2, <2>3, <1>log DEF AddSummary
<1>6. ASSUME NEW t \in Thread,
             \/ Logged(t) \/ CheckCompaction(t) \/ FindClusters(t)
             \/ NextCluster(t) \/ EndCompaction(t)
      PROVE  Covered'
  <2>1. pc[t] # "idle" /\ UNCHANGED <<kept, log, phase, draft, disk>>
    BY <1>6 DEF Logged, CheckCompaction, FindClusters, NextCluster, EndCompaction
  <2>2. \A u, f : u \in Thread /\ pc[u] = "log" /\ f \in batch[u] =>
                  pc'[u] = "log" /\ f \in batch'[u]
    BY <1>6 DEF Logged, CheckCompaction, FindClusters, NextCluster,
                EndCompaction, TypeOK
  <2> QED
    BY <2>1, <2>2, <1>log DEF Has
<1>7. CASE SaveStore
  <2>1. Idle /\ phase' = "saving" /\ draft'.facts = kept.facts
    BY <1>7 DEF SaveStore, TypeOK, File
  <2>2. UNCHANGED <<kept, log, disk, pc, batch>>
    BY <1>7 DEF SaveStore
  <2>3. \A f \in kept.facts : Has(log, f)
    BY <2>1 DEF Covered, Idle
  <2> QED
    BY <2>1, <2>2, <2>3 DEF Covered, Idle, Has, Recorded
<1>8. CASE SaveLog
  <2>1. phase = "saving" /\ phase' = "copied" /\ draft'.facts = draft.facts /\ draft'.log = log
    BY <1>8 DEF SaveLog, TypeOK, File
  <2>2. UNCHANGED <<kept, log, disk, pc, batch>>
    BY <1>8 DEF SaveLog
  <2> QED
    BY <2>1, <2>2 DEF Covered, Idle, Has, Recorded
<1>9. CASE WriteFile
  <2>1. phase = "copied" /\ phase' = "closed" /\ (disk' = draft \/ disk' = disk)
    BY <1>9 DEF WriteFile
  <2>2. UNCHANGED <<kept, log, pc, batch>>
    BY <1>9 DEF WriteFile
  <2> QED
    BY <2>1, <2>2 DEF Covered, Has, Recorded
<1>10. CASE Reset
  BY <1>10 DEF Reset, EmptyStore, Covered, Has, Recorded
<1>11. CASE Crash
  BY <1>11 DEF Crash, EmptyStore, Covered, Has, Recorded
<1>12. CASE Resume
  <2>1. kept'.facts = disk.facts /\ log' = disk.log /\ phase' = "open" /\ disk' = disk
    BY <1>12 DEF Resume, With, EmptyStore
  <2> QED
    BY <2>1 DEF Covered, Has, Recorded
<1>13. CASE UNCHANGED vars
  BY <1>13 DEF vars, Covered, Idle, Has, Recorded
<1> QED
  BY <1>1, <1>2, <1>3, <1>4, <1>5, <1>6, <1>7, <1>8, <1>9, <1>10, <1>11, <1>12,
     <1>13 DEF Next

(* Unless a stream runs on during a close, every fact of the fabric and of *)
(* the file has its created event, through crashes, failing writes, resets *)
(* and any interleaving of windows.                                        *)
THEOREM LogIsComplete == Spec => []LogComplete
<1> DEFINE Inv == "overlap" \notin Faults => Covered
<1>1. Init => Inv
  BY DEF Init, EmptyStore, EmptyFile, Covered
<1>2. TypeOK /\ Summarised /\ Inv /\ [Next]_vars => Inv'
  BY StepCovered
<1>3. Inv => LogComplete
  BY DEF Covered, LogComplete, Has
<1> QED
  BY <1>1, <1>2, <1>3, Types, PTL DEF Spec
-----------------------------------------------------------------------------
(* What a close saves. *)

OnTheWay == UNION {Texts(batch[t]) : t \in {u \in Thread : pc[u] = "fabric"}}

Near == Texts(kept.facts) \cup OnTheWay

(* What a compaction has in hand was in the warm store once, and the       *)
(* fabric does not lose a text it has got.                                 *)
Carried ==
    Cardinality(kept.facts) < Capacity =>
        /\ Texts(warm.facts) \subseteq Near
        /\ \A t \in Thread : \A C \in work[t] : Texts(C) \subseteq Near
        /\ \A t \in Thread : pc[t] \in {"remove", "add"} => summary[t].text \in Near

(* There are finitely many facts, for the texts are numbered. *)
LEMMA FactsAreFinite ==
    ASSUME NEW F \in SUBSET Fact, Distinct(F)
    PROVE  IsFiniteSet(F)
<1> DEFINE g == [f \in F |-> f.text]
<1>1. g \in Injection(F, Text)
  BY DEF Injection, IsInjective, Distinct, Fact
<1> QED
  BY <1>1, FactStoresAssumption, FS_Injection

(* A store that is not full after it was offered some facts took them all. *)
LEMMA RoomForAll ==
    ASSUME NEW s \in Store, Exact(s), NEW F \in SUBSET Fact, Distinct(F),
           NEW A \in Admitted(s, F),
           Cardinality(With(s, A).facts) < Capacity
    PROVE  /\ Cardinality(s.facts) < Capacity
           /\ Texts(F) \subseteq Texts(With(s, A).facts)
<1> DEFINE N == New(s, F)
<1>1. /\ N \subseteq F /\ A \subseteq N
      /\ \A f \in F \ N : f.text \in Texts(s.facts)
      /\ With(s, A).facts = s.facts \cup A
      /\ s.facts \in SUBSET Fact
  BY DEF New, Admitted, Exact, With, Store
<1>2. Distinct(s.facts \cup N)
  BY DEF New, Exact, Distinct, Texts
<1>3. IsFiniteSet(s.facts \cup N)
  BY <1>1, <1>2, FactsAreFinite
<1>4. /\ IsFiniteSet(s.facts \cup A) /\ IsFiniteSet(s.facts)
      /\ Cardinality(s.facts) \in Nat /\ Cardinality(s.facts \cup A) \in Nat
      /\ Cardinality(s.facts \cup N) \in Nat
  BY <1>1, <1>3, FS_Subset, FS_CardinalityType
<1>5. Cardinality(s.facts) <= Cardinality(s.facts \cup A)
  BY <1>4, FS_Subset
<1>6. Cardinality(s.facts) < Capacity
  BY <1>1, <1>4, <1>5, FactStoresAssumption
<1>7. Cardinality(s.facts \cup A) = Least(Capacity, Cardinality(s.facts \cup N))
  BY DEF Admitted
<1>8. Cardinality(s.facts \cup A) = Cardinality(s.facts \cup N)
  BY <1>1, <1>4, <1>7, FactStoresAssumption DEF Least
<1>9. s.facts \cup A = s.facts \cup N
  BY <1>1, <1>3, <1>8, FS_Subset
<1>10. Texts(F) \subseteq Texts(s.facts \cup N)
  BY <1>1 DEF Texts
<1> QED
  BY <1>1, <1>6, <1>9, <1>10

(* Each step keeps the texts of the warm store, and those a compaction has *)
(* in hand, at the fabric or on their way there.                           *)
LEMMA StepCarried ==
    ASSUME TypeOK, Summarised, Hashed, Carried, [Next]_vars
    PROVE  Carried'
<1> SUFFICES ASSUME Cardinality(kept.facts)' < Capacity
             PROVE  /\ Texts(warm.facts)' \subseteq Near'
                    /\ \A t \in Thread : \A C \in work'[t] : Texts(C) \subseteq Near'
                    /\ \A t \in Thread : pc'[t] \in {"remove", "add"} => summary'[t].text \in Near'
  BY DEF Carried, Texts
<1> DEFINE Goal == /\ Texts(warm.facts)' \subseteq Near'
                   /\ \A t \in Thread : \A C \in work'[t] : Texts(C) \subseteq Near'
                   /\ \A t \in Thread : pc'[t] \in {"remove", "add"} => summary'[t].text \in Near'
<1> USE DEF storeVars, fileVars, threadVars, Goto
<1>near. ASSUME UNCHANGED kept,
                \A u \in Thread : pc[u] = "fabric" => pc'[u] = "fabric" /\ batch'[u] = batch[u]
         PROVE  /\ Near \subseteq Near'
                /\ Texts(warm.facts) \subseteq Near'
                /\ \A u \in Thread : \A C \in work[u] : Texts(C) \subseteq Near'
                /\ \A u \in Thread : pc[u] \in {"remove", "add"} => summary[u].text \in Near'
  <2>1. Near \subseteq Near'
    BY <1>near DEF Near, OnTheWay
  <2> QED
    BY <1>near, <2>1 DEF Carried
<1>1. ASSUME NEW t \in Thread, NEW X \in SUBSET Text, StoreWarm(t, X) PROVE Goal
  <2>1. PICK A \in Admitted(warm, NewFacts(X)) : warm' = With(warm, A)
    BY <1>1 DEF StoreWarm
  <2>2. Texts(warm'.facts) \subseteq Texts(warm.facts) \cup X
    BY <2>1, NewFactsAreDistinct DEF With, Admitted, New, Texts
  <2>3. pc'[t] = "fabric" /\ batch'[t] = NewFacts(X) /\ pc[t] = "idle"
    BY <1>1 DEF StoreWarm, TypeOK
  <2>4. X \subseteq Near'
    BY <2>3, NewFactsAreDistinct DEF Near, OnTheWay
  <2>5. \A u \in Thread : u # t => pc'[u] = pc[u] /\ batch'[u] = batch[u]
    BY <1>1 DEF StoreWarm, TypeOK
  <2>6. UNCHANGED <<kept, work, summary>>
    BY <1>1 DEF StoreWarm
  <2>7. Texts(warm'.facts) \subseteq Near'
    BY <1>near, <2>2, <2>3, <2>4, <2>5, <2>6
  <2>8. \A u \in Thread : \A C \in work'[u] : Texts(C) \subseteq Near'
    BY <1>near, <2>3, <2>5, <2>6
  <2>9. \A u \in Thread : pc'[u] \in {"remove", "add"} => summary'[u].text \in Near'
    BY <1>near, <2>3, <2>5, <2>6
  <2> QED
    BY <2>7, <2>8, <2>9 DEF Texts
<1>2. ASSUME NEW t \in Thread, StoreFabric(t) PROVE Goal
  <2>1. PICK A \in Admitted(kept, batch[t]) :
            kept' = With(kept, A) /\ batch' = [batch EXCEPT ![t] = A]
    BY <1>2 DEF StoreFabric
  <2>2. pc[t] = "fabric" /\ batch[t] \in SUBSET Fact /\ kept \in Store
    BY <1>2 DEF StoreFabric, TypeOK
  <2>3. /\ Cardinality(kept.facts) < Capacity
        /\ Texts(batch[t]) \subseteq Texts(kept'.facts)
    BY <2>1, <2>2, RoomForAll DEF Hashed
  <2>4. Texts(kept.facts) \subseteq Texts(kept'.facts)
    BY <2>1 DEF With, Texts
  <2>5. \A u \in Thread : u # t => pc'[u] = pc[u] /\ batch'[u] = batch[u]
    BY <1>2, <2>1 DEF StoreFabric, TypeOK
  <2>6. Near \subseteq Near'
    BY <2>3, <2>4, <2>5 DEF Near, OnTheWay, Texts
  <2>7. UNCHANGED <<warm, work, summary>> /\ pc'[t] = "log"
    BY <1>2 DEF StoreFabric, TypeOK
  <2>8. Texts(warm'.facts) \subseteq Near'
    BY <2>3, <2>6, <2>7 DEF Carried
  <2>9. \A u \in Thread : \A C \in work'[u] : Texts(C) \subseteq Near'
    BY <2>3, <2>6, <2>7 DEF Carried
  <2>10. \A u \in Thread : pc'[u] \in {"remove", "add"} => summary'[u].text \in Near'
    BY <2>3, <2>5, <2>6, <2>7 DEF Carried
  <2> QED
    BY <2>8, <2>9, <2>10 DEF Texts
<1>3. ASSUME NEW t \in Thread, NEW f \in batch[t], Remove(t, f) PROVE Goal
  <2>1. /\ pc[t] = "remove" /\ UNCHANGED <<kept, work, summary>>
        /\ \A u \in Thread : pc[u] = "fabric" => pc'[u] = "fabric" /\ batch'[u] = batch[u]
        /\ \A u \in Thread : pc'[u] \in {"remove", "add"} => pc[u] \in {"remove", "add"}
    BY <1>3 DEF Remove, TypeOK
  <2>2. Texts(warm'.facts) \subseteq Texts(warm.facts)
    BY <1>3 DEF Remove, Without, Texts
  <2> QED
    BY <1>near, <2>1, <2>2 DEF Texts
<1>4. ASSUME NEW t \in Thread, AddSummary(t) PROVE Goal
  <2>1. PICK A \in Admitted(warm, {summary[t]}) : warm' = With(warm, A)
    BY <1>4 DEF AddSummary
  <2>2. Texts(warm'.facts) \subseteq Texts(warm.facts) \cup {summary[t].text}
    BY <2>1 DEF With, Admitted, New, Texts
  <2>3. /\ pc[t] = "add" /\ pc'[t] = "next" /\ UNCHANGED <<kept, work, batch>>
        /\ \A u \in Thread : u # t => pc'[u] = pc[u] /\ summary'[u] = summary[u]
    BY <1>4 DEF AddSummary, TypeOK
  <2>4. Texts(warm'.facts) \subseteq Near'
    BY <1>near, <2>2, <2>3
  <2>5. \A u \in Thread : \A C \in work'[u] : Texts(C) \subseteq Near'
    BY <1>near, <2>3
  <2>6. \A u \in Thread : pc'[u] \in {"remove", "add"} => summary'[u].text \in Near'
    BY <1>near, <2>3
  <2> QED
    BY <2>4, <2>5, <2>6 DEF Texts
<1>5. ASSUME NEW t \in Thread, FindClusters(t) PROVE Goal
  <2>1. /\ UNCHANGED <<warm, kept, batch, summary>>
        /\ \A u \in Thread : pc[u] = "fabric" => pc'[u] = "fabric"
        /\ \A u \in Thread : pc'[u] \in {"remove", "add"} => pc[u] \in {"remove", "add"}
        /\ \A u \in Thread : work'[u] = work[u] \/ work'[u] = Clusters
    BY <1>5 DEF FindClusters, TypeOK
  <2>2. \A C \in Clusters : Texts(C) \subseteq Texts(warm.facts)
    BY DEF Clusters, Texts
  <2> QED
    BY <1>near, <2>1, <2>2 DEF Texts
<1>6. ASSUME NEW t \in Thread, NextCluster(t) PROVE Goal
  <2>1. PICK C \in work[t] : \E f \in C :
            /\ summary' = [summary EXCEPT ![t] = [id |-> nextId, text |-> f.text]]
            /\ work' = [work EXCEPT ![t] = @ \ {C}]
    BY <1>6 DEF NextCluster
  <2>2. PICK f \in C :
            /\ summary' = [summary EXCEPT ![t] = [id |-> nextId, text |-> f.text]]
            /\ work' = [work EXCEPT ![t] = @ \ {C}]
    BY <2>1
  <2>3. summary'[t].text = f.text /\ f.text \in Texts(C)
    BY <2>2 DEF TypeOK, Texts
  <2>4. /\ UNCHANGED <<warm, kept>> /\ pc[t] = "next" /\ pc'[t] = "remove"
        /\ \A u \in Thread : u # t =>
               pc'[u] = pc[u] /\ batch'[u] = batch[u]
    BY <1>6 DEF NextCluster, TypeOK
  <2>5. /\ \A u \in Thread : work'[u] \subseteq work[u]
        /\ \A u \in Thread : u # t => summary'[u] = summary[u]
    BY <2>2 DEF TypeOK
  <2> QED
    BY <1>near, <2>1, <2>3, <2>4, <2>5 DEF Texts
<1>7. ASSUME NEW t \in Thread,
             LogCreated(t) \/ Logged(t) \/ CheckCompaction(t) \/ EndCompaction(t)
      PROVE  Goal
  <2>1. /\ UNCHANGED <<warm, kept, summary>>
        /\ \A u \in Thread : pc[u] = "fabric" => pc'[u] = "fabric" /\ batch'[u] = batch[u]
        /\ \A u \in Thread : pc'[u] \in {"remove", "add"} => pc[u] \in {"remove", "add"}
        /\ \A u \in Thread : work'[u] \subseteq work[u]
    BY <1>7 DEF LogCreated, Logged, CheckCompaction, EndCompaction, TypeOK
  <2> QED
    BY <1>near, <2>1 DEF Texts
<1>8. CASE SaveStore \/ SaveLog \/ WriteFile \/ UNCHANGED vars
  <2>1. UNCHANGED <<warm, kept, pc, batch, work, summary>>
    BY <1>8 DEF SaveStore, SaveLog, WriteFile, vars
  <2> QED
    BY <1>near, <2>1 DEF Texts
<1>9. CASE Reset \/ Crash
  <2>1. /\ warm'.facts = {} /\ \A u \in Thread : work'[u] = {}
        /\ \A u \in Thread : pc'[u] \notin {"remove", "add"}
    BY <1>9 DEF Reset, Crash, NoThread, EmptyStore
  <2> QED
    BY <2>1 DEF Texts
<1>10. CASE Resume
  <2>1. PICK A \in Admitted(EmptyStore, disk.facts) : warm' = With(EmptyStore, A)
    BY <1>10 DEF Resume
  <2>2. warm'.facts \subseteq disk.facts /\ kept'.facts = disk.facts
    BY <1>10, <2>1 DEF Resume, With, EmptyStore, Admitted, New
  <2>3. \A u \in Thread : work'[u] = {} /\ pc'[u] = "idle"
    BY <1>10 DEF Resume, NoThread
  <2> QED
    BY <2>2, <2>3 DEF Texts, Near
<1> QED
  BY <1>1, <1>2, <1>3, <1>4, <1>5, <1>6, <1>7, <1>8, <1>9, <1>10 DEF Next

(* As long as the fabric has room, a close saves every text the warm store *)
(* holds, except what a window has yet to bring to the fabric.             *)
THEOREM FabricHasEverything == Spec => []FabricHasAll
<1>1. Init => Hashed /\ Carried
  BY EmptyIsExact DEF Init, Hashed, EmptyFile, Carried, EmptyStore, Texts
<1>2. Carried => FabricHasAll
  BY DEF Carried, FabricHasAll, Near, OnTheWay
<1>3. TypeOK /\ Summarised /\ Hashed /\ Carried /\ [Next]_vars => Carried'
  BY StepCarried
<1> QED
  BY <1>1, <1>2, <1>3, StepHashed, Types, PTL DEF Spec
-----------------------------------------------------------------------------
(* What a session knows. *)

(* Neither a stream runs on during a close nor a reset drops the stores,   *)
(* and the stores have room for everything there is to say.                *)
Roomy ==
    /\ Faults \cap {"overlap", "reset"} = {}
    /\ Cardinality(Text) < Capacity

(* Only an open session has threads under way; what it saves is what the   *)
(* fabric had when they stopped; the fabric, and what is on its way there, *)
(* is about nothing the session does not know; and a summary is about what *)
(* the facts are about that go for it.                                     *)
Kept ==
    /\ phase # "open" => Idle
    /\ phase \in {"saving", "copied"} => draft.facts = kept.facts
    /\ About(kept.facts) \subseteq Known
    /\ \A t \in Thread : pc[t] = "fabric" => About(batch[t]) \subseteq Known
    /\ \A t \in Thread : pc[t] \notin {"remove", "add"} => summary[t] = NoFact
    /\ \A t \in Thread : pc[t] = "remove" =>
          \A f \in batch[t] : Topic[f.text] = Topic[summary[t].text]
    /\ \A t \in Thread : \A C \in work[t] : \A f, g \in C : Topic[f.text] = Topic[g.text]

(* What facts are about depends on their texts. *)
LEMMA AboutTexts ==
    ASSUME NEW F, NEW G, Texts(F) \subseteq Texts(G)
    PROVE  About(F) \subseteq About(G)
BY DEF About, Texts

(* NoFact is not a fact. *)
LEMMA NoFactIsNone == NoFact \notin Fact
BY FactStoresAssumption DEF NoFact, Fact

(* What a store with room is offered, it knows afterwards.                 *)
LEMMA RoomyStore ==
    ASSUME Roomy, NEW s \in Store, Exact(s), NEW F \in SUBSET Fact, Distinct(F),
           NEW A \in Admitted(s, F)
    PROVE  Texts(With(s, A).facts) = Texts(s.facts) \cup Texts(F)
<1> DEFINE G == With(s, A).facts
           g == [f \in G |-> f.text]
<1>1. Exact(With(s, A)) /\ With(s, A) \in Store /\ A \subseteq F
  BY WithIsExact, WithTyped
<1>2. G \in SUBSET Fact /\ Distinct(G)
  BY <1>1 DEF Exact, Store
<1>3. g \in Injection(G, Text)
  BY <1>2 DEF Injection, IsInjective, Distinct, Fact
<1>4. IsFiniteSet(G) /\ Cardinality(G) <= Cardinality(Text)
  BY <1>3, FactStoresAssumption, FS_Injection
<1>5. Cardinality(G) < Capacity
  <2>1. Cardinality(G) \in Nat /\ Cardinality(Text) \in Nat
    BY <1>4, FactStoresAssumption, FS_CardinalityType
  <2> QED
    BY <1>4, <2>1, FactStoresAssumption DEF Roomy
<1>6. Texts(F) \subseteq Texts(G)
  BY <1>5, RoomForAll
<1>7. G = s.facts \cup A
  BY DEF With
<1>8. Texts(G) = Texts(s.facts) \cup Texts(A) /\ Texts(A) \subseteq Texts(F)
  BY <1>1, <1>7, TextsOfUnion DEF Texts
<1> QED
  BY <1>6, <1>8

(* While there is room, only a crash or a resumption loses what is known. *)
LEMMA KnownGrows ==
    ASSUME Roomy, TypeOK, Summarised, Hashed, Kept, [Next]_vars, ~Crash, ~Resume
    PROVE  Known \subseteq Known'
<1> USE DEF storeVars, fileVars, threadVars, Goto
<1>1. ASSUME NEW t \in Thread, NEW X \in SUBSET Text, StoreWarm(t, X)
      PROVE  Known \subseteq Known'
  BY <1>1 DEF StoreWarm, With, Known, About
<1>2. ASSUME NEW t \in Thread, NextCluster(t) PROVE Known \subseteq Known'
  <2>1. summary[t] = NoFact /\ warm' = warm
        /\ \A u \in Thread : u # t => summary'[u] = summary[u]
    BY <1>2 DEF NextCluster, Kept, TypeOK
  <2>2. ASSUME NEW x \in Known PROVE x \in Known'
    BY <2>1, <2>2 DEF Known, About
  <2> QED
    BY <2>2
<1>3. ASSUME NEW t \in Thread, NEW f \in batch[t], Remove(t, f) PROVE Known \subseteq Known'
  <2>1. /\ summary' = summary /\ summary[t] \in Fact
        /\ Topic[f.text] = Topic[summary[t].text]
        /\ \A g \in warm.facts : g = f \/ g \in warm'.facts
    BY <1>3 DEF Remove, Without, Kept, Summarised
  <2>2. summary[t] # NoFact
    BY <2>1, NoFactIsNone
  <2> QED
    BY <2>1, <2>2 DEF Known, About
<1>4. ASSUME NEW t \in Thread, AddSummary(t) PROVE Known \subseteq Known'
  <2>1. PICK A \in Admitted(warm, {summary[t]}) : warm' = With(warm, A)
    BY <1>4 DEF AddSummary
  <2>2. summary[t] \in Fact /\ \A u \in Thread : u # t => summary'[u] = summary[u]
    BY <1>4 DEF AddSummary, Summarised, TypeOK
  <2>3. Texts(warm'.facts) = Texts(warm.facts) \cup Texts({summary[t]})
    <3>1. Distinct({summary[t]}) /\ {summary[t]} \in SUBSET Fact
      BY <2>2 DEF Distinct
    <3> QED
      BY <2>1, <3>1, RoomyStore DEF Hashed, TypeOK
  <2>4. About(warm.facts) \subseteq About(warm'.facts)
    BY <2>3, AboutTexts
  <2>5. Topic[summary[t].text] \in About(warm'.facts)
    BY <2>3 DEF About, Texts
  <2> QED
    BY <2>2, <2>4, <2>5 DEF Known, About
<1>5. CASE UNCHANGED <<warm, summary>>
  BY <1>5 DEF Known
<1>6. ~Reset
  BY DEF Reset, Roomy
<1>7. ASSUME NEW t \in Thread,
             \/ StoreFabric(t) \/ LogCreated(t) \/ Logged(t) \/ CheckCompaction(t)
             \/ FindClusters(t) \/ EndCompaction(t)
      PROVE  UNCHANGED <<warm, summary>>
  BY <1>7 DEF StoreFabric, LogCreated, Logged, CheckCompaction, FindClusters, EndCompaction
<1>8. ASSUME SaveStore \/ SaveLog \/ WriteFile \/ UNCHANGED vars
      PROVE  UNCHANGED <<warm, summary>>
  BY <1>8 DEF SaveStore, SaveLog, WriteFile, vars
<1> QED
  BY <1>1, <1>2, <1>3, <1>4, <1>5, <1>6, <1>7, <1>8 DEF Next

(* While there is room, each step keeps the fabric, and what is on its way *)
(* there, about what the session knows.                                    *)
LEMMA StepKept ==
    ASSUME Roomy, TypeOK, Summarised, Hashed, Carried, Kept, [Next]_vars
    PROVE  Kept'
<1> USE DEF storeVars, fileVars, threadVars, Goto
<1> DEFINE Hand(t) ==
        /\ pc[t] = "fabric" => About(batch[t]) \subseteq Known
        /\ pc[t] \notin {"remove", "add"} => summary[t] = NoFact
        /\ pc[t] = "remove" =>
              \A f \in batch[t] : Topic[f.text] = Topic[summary[t].text]
        /\ \A C \in work[t] : \A f, g \in C : Topic[f.text] = Topic[g.text]
<1>hands. \A t \in Thread : Hand(t)
  BY DEF Kept
<1>grows. UNCHANGED phase => Known \subseteq Known'
  BY KnownGrows DEF Crash, Resume
<1>noreset. ~Reset
  BY DEF Reset, Roomy
(* A step of one thread in an open session. *)
<1>thread. ASSUME NEW t \in Thread, phase = "open", UNCHANGED <<phase, kept>>,
                  \A u \in Thread \ {t} : UNCHANGED <<pc[u], batch[u], work[u], summary[u]>>,
                  Hand(t)'
           PROVE  Kept'
  <2>1. ASSUME NEW u \in Thread PROVE Hand(u)'
    <3>1. CASE u = t
      BY <1>thread, <3>1
    <3>2. CASE u # t
      <4>1. UNCHANGED <<pc[u], batch[u], work[u], summary[u]>> /\ Hand(u)
        BY <1>thread, <1>hands, <3>2
      <4> QED
        BY <1>thread, <1>grows, <4>1
    <3> QED
      BY <3>1, <3>2
  <2>2. About(kept'.facts) \subseteq Known'
    BY <1>thread, <1>grows DEF Kept
  <2> QED
    BY <1>thread, <2>1, <2>2 DEF Kept
<1>1. ASSUME NEW t \in Thread, NEW X \in SUBSET Text, StoreWarm(t, X) PROVE Kept'
  <2>1. PICK A \in Admitted(warm, NewFacts(X)) : warm' = With(warm, A)
    BY <1>1 DEF StoreWarm
  <2>2. NewFacts(X) \in SUBSET Fact /\ Distinct(NewFacts(X))
    BY <1>1, NewFactsTyped, NewFactsAreDistinct DEF StoreWarm
  <2>3. Texts(NewFacts(X)) \subseteq Texts(warm'.facts)
    BY <2>1, <2>2, RoomyStore DEF Hashed, TypeOK
  <2>4. About(NewFacts(X)) \subseteq About(warm'.facts)
    BY <2>3, AboutTexts
  <2>5. About(warm'.facts) \subseteq Known'
    BY DEF Known, About
  <2>6. /\ phase = "open" /\ UNCHANGED <<phase, kept>> /\ pc[t] = "idle"
        /\ \A u \in Thread \ {t} : UNCHANGED <<pc[u], batch[u], work[u], summary[u]>>
        /\ pc'[t] = "fabric" /\ batch'[t] = NewFacts(X)
        /\ UNCHANGED <<summary, work>>
    BY <1>1 DEF StoreWarm, MayBegin, Roomy, TypeOK
  <2>7. Hand(t)'
    BY <1>hands, <2>4, <2>5, <2>6
  <2> QED
    BY <1>thread, <2>6, <2>7
<1>2. ASSUME NEW t \in Thread, StoreFabric(t) PROVE Kept'
  <2>1. PICK A \in Admitted(kept, batch[t]) :
            kept' = With(kept, A) /\ batch' = [batch EXCEPT ![t] = A]
    BY <1>2 DEF StoreFabric
  <2>2. /\ pc[t] = "fabric" /\ pc'[t] = "log" /\ phase' = phase
        /\ \A u \in Thread \ {t} : UNCHANGED <<pc[u], batch[u], work[u], summary[u]>>
        /\ UNCHANGED <<warm, summary, work>>
    BY <1>2, <2>1 DEF StoreFabric, TypeOK
  <2>3. phase = "open"
    BY <2>2 DEF Kept, Idle
  <2>4. About(kept'.facts) \subseteq Known'
    <3>1. kept'.facts = kept.facts \cup A /\ A \subseteq batch[t]
      BY <2>1 DEF With, Admitted, New
    <3>2. About(kept'.facts) \subseteq About(kept.facts) \cup About(batch[t])
      BY <3>1 DEF About
    <3>3. About(kept.facts) \subseteq Known /\ About(batch[t]) \subseteq Known
      BY <2>2 DEF Kept
    <3> QED
      BY <1>grows, <2>2, <3>2, <3>3
  <2>5. ASSUME NEW u \in Thread PROVE Hand(u)'
    <3>1. CASE u = t
      BY <1>hands, <2>2, <3>1
    <3>2. CASE u # t
      <4>1. UNCHANGED <<pc[u], batch[u], work[u], summary[u]>> /\ Hand(u)
        BY <1>hands, <2>2, <3>2
      <4> QED
        BY <1>grows, <2>2, <4>1
    <3> QED
      BY <3>1, <3>2
  <2> QED
    BY <2>2, <2>3, <2>4, <2>5 DEF Kept
<1>3. ASSUME NEW t \in Thread, FindClusters(t) PROVE Kept'
  <2>1. /\ pc[t] = "cluster" /\ pc'[t] \in {"idle", "next"} /\ UNCHANGED <<phase, kept>>
        /\ \A u \in Thread \ {t} : UNCHANGED <<pc[u], batch[u], work[u], summary[u]>>
        /\ UNCHANGED summary
        /\ work'[t] = work[t] \/ work'[t] = Clusters
    BY <1>3 DEF FindClusters, TypeOK
  <2>2. \A C \in Clusters : \A f, g \in C : Topic[f.text] = Topic[g.text]
    BY DEF Clusters
  <2>3. phase = "open"
    BY <2>1 DEF Kept, Idle
  <2>4. Hand(t)'
    BY <1>hands, <2>1, <2>2
  <2> QED
    BY <1>thread, <2>1, <2>3, <2>4
<1>4. ASSUME NEW t \in Thread, NextCluster(t) PROVE Kept'
  <2>1. PICK C \in work[t] : \E f \in C :
            /\ summary' = [summary EXCEPT ![t] = [id |-> nextId, text |-> f.text]]
            /\ batch' = [batch EXCEPT ![t] = C]
            /\ work' = [work EXCEPT ![t] = @ \ {C}]
    BY <1>4 DEF NextCluster
  <2>2. PICK f \in C :
            /\ summary' = [summary EXCEPT ![t] = [id |-> nextId, text |-> f.text]]
            /\ batch' = [batch EXCEPT ![t] = C]
            /\ work' = [work EXCEPT ![t] = @ \ {C}]
    BY <2>1
  <2>3. /\ pc[t] = "next" /\ pc'[t] = "remove" /\ UNCHANGED <<phase, kept>>
        /\ \A u \in Thread \ {t} : UNCHANGED <<pc[u], batch[u], work[u], summary[u]>>
        /\ summary'[t].text = f.text /\ batch'[t] = C /\ work'[t] \subseteq work[t]
    BY <1>4, <2>2 DEF NextCluster, TypeOK
  <2>4. phase = "open"
    BY <2>3 DEF Kept, Idle
  <2>5. \A g \in C : Topic[g.text] = Topic[f.text]
    BY <1>hands, <2>1, <2>2
  <2>6. Hand(t)'
    BY <1>hands, <2>3, <2>5
  <2> QED
    BY <1>thread, <2>3, <2>4, <2>6
<1>5. ASSUME NEW t \in Thread,
             \/ LogCreated(t) \/ Logged(t) \/ CheckCompaction(t) \/ EndCompaction(t)
             \/ \E f \in batch[t] : Remove(t, f)
             \/ AddSummary(t)
      PROVE  Kept'
  <2>1. /\ pc[t] # "idle" /\ UNCHANGED <<phase, kept>>
        /\ \A u \in Thread \ {t} : UNCHANGED <<pc[u], batch[u], work[u], summary[u]>>
        /\ pc'[t] # "fabric" /\ work'[t] \subseteq work[t]
    BY <1>5 DEF LogCreated, Logged, CheckCompaction, EndCompaction, Remove, AddSummary, TypeOK
  <2>2. /\ pc'[t] \notin {"remove", "add"} => summary'[t] = NoFact
        /\ pc'[t] = "remove" =>
              pc[t] = "remove" /\ batch'[t] \subseteq batch[t] /\ summary'[t] = summary[t]
    <3>1. CASE AddSummary(t)
      BY <3>1 DEF AddSummary, TypeOK
    <3>2. CASE \E f \in batch[t] : Remove(t, f)
      BY <3>2 DEF Remove, TypeOK
    <3>3. CASE LogCreated(t) \/ Logged(t) \/ CheckCompaction(t) \/ EndCompaction(t)
      <4>1. /\ pc[t] \notin {"remove", "add"} /\ pc'[t] \notin {"remove", "add"}
            /\ UNCHANGED summary
        BY <3>3 DEF LogCreated, Logged, CheckCompaction, EndCompaction, TypeOK
      <4> QED
        BY <1>hands, <4>1
    <3> QED
      BY <1>5, <3>1, <3>2, <3>3
  <2>3. phase = "open"
    BY <2>1 DEF Kept, Idle
  <2>4. Hand(t)'
    BY <1>hands, <2>1, <2>2
  <2> QED
    BY <1>thread, <2>1, <2>3, <2>4
<1>6. CASE SaveStore \/ SaveLog \/ WriteFile
  <2>1. /\ UNCHANGED <<warm, kept, pc, batch, work, summary>>
        /\ Idle
        /\ phase' \in {"saving", "copied"} => draft'.facts = kept.facts
    BY <1>6 DEF SaveStore, SaveLog, WriteFile, Kept, Roomy, TypeOK, File
  <2>2. Known' = Known /\ Idle'
    BY <2>1 DEF Known, Idle
  <2> QED
    BY <2>1, <2>2 DEF Kept
<1>7. CASE Crash
  <2>1. /\ kept'.facts = {} /\ phase' = "down"
        /\ \A t \in Thread : pc'[t] = "idle" /\ work'[t] = {} /\ summary'[t] = NoFact
    BY <1>7 DEF Crash, NoThread, EmptyStore
  <2> QED
    BY <2>1 DEF Kept, Idle, About
<1>8. CASE Resume
  <2>1. PICK A \in Admitted(EmptyStore, disk.facts) : warm' = With(EmptyStore, A)
    BY <1>8 DEF Resume
  <2>2. disk.facts \in SUBSET Fact
    BY DEF TypeOK, File
  <2>3. Texts(warm'.facts) = Texts(EmptyStore.facts) \cup Texts(disk.facts)
    BY <2>1, <2>2, RoomyStore, EmptyTyped, EmptyIsExact DEF Hashed
  <2>4. /\ kept'.facts = disk.facts /\ phase' = "open"
        /\ \A t \in Thread : pc'[t] = "idle" /\ work'[t] = {} /\ summary'[t] = NoFact
    BY <1>8 DEF Resume, NoThread, With, EmptyStore
  <2>5. About(kept'.facts) \subseteq About(warm'.facts)
    BY <2>3, <2>4, AboutTexts
  <2>6. About(warm'.facts) \subseteq Known'
    BY DEF Known, About
  <2> QED
    BY <2>4, <2>5, <2>6 DEF Kept
<1>9. CASE UNCHANGED vars
  <2>1. UNCHANGED <<warm, kept, phase, draft, pc, batch, work, summary>>
    BY <1>9 DEF vars
  <2>2. Known' = Known /\ Idle' = Idle
    BY <2>1 DEF Known, Idle
  <2> QED
    BY <2>1, <2>2 DEF Kept
<1> QED
  BY <1>noreset, <1>1, <1>2, <1>3, <1>4, <1>5, <1>6, <1>7, <1>8, <1>9 DEF Next

(* With nobody under way, the fabric is about all that is known.           *)
LEMMA IdleKnows ==
    ASSUME Roomy, TypeOK, Hashed, Carried, Kept, Idle
    PROVE  About(kept.facts) = Known
<1>1. Texts(warm.facts) \subseteq Texts(kept.facts)
  <2>1. Cardinality(kept.facts) < Capacity
    <3> DEFINE g == [f \in kept.facts |-> f.text]
    <3>1. kept.facts \in SUBSET Fact /\ Distinct(kept.facts)
      BY DEF TypeOK, Store, Hashed, Exact
    <3>2. g \in Injection(kept.facts, Text)
      BY <3>1 DEF Injection, IsInjective, Distinct, Fact
    <3>3. IsFiniteSet(kept.facts) /\ Cardinality(kept.facts) <= Cardinality(Text)
      BY <3>2, FactStoresAssumption, FS_Injection
    <3>4. Cardinality(kept.facts) \in Nat /\ Cardinality(Text) \in Nat
      BY <3>3, FactStoresAssumption, FS_CardinalityType
    <3> QED
      BY <3>3, <3>4, FactStoresAssumption DEF Roomy
  <2>2. OnTheWay = {}
    BY DEF OnTheWay, Idle
  <2> QED
    BY <2>1, <2>2 DEF Carried, Near
<1>2. About(warm.facts) \subseteq About(kept.facts)
  BY <1>1, AboutTexts
<1>3. Known = About(warm.facts)
  BY DEF Known, Kept, Idle, About
<1> QED
  BY <1>2, <1>3 DEF Kept

(* What is known are subjects. *)
LEMMA KnownTyped == ASSUME TypeOK PROVE Known \subseteq Subject
<1>1. \A f \in Fact : Topic[f.text] \in Subject
  BY FactStoresAssumption DEF Fact
<1>2. warm.facts \subseteq Fact /\ \A t \in Thread : summary[t] \in Fact \cup {NoFact}
  BY DEF TypeOK, Store
<1> QED
  BY <1>1, <1>2 DEF Known, About

(* Each step is one of the abstract session knowledge, or leaves it alone. *)
LEMMA StepKnowledge ==
    ASSUME Roomy, TypeOK, TypeOK', Summarised, Hashed, Carried, Kept, [Next]_vars
    PROVE  [Knowledge!Next]_(Knowledge!vars)
<1> USE DEF storeVars, fileVars, threadVars, Goto
<1> DEFINE Running == phase \notin {"closed", "down"}
<1>1. CASE phase = "open" /\ UNCHANGED <<phase, disk>>
  <2>1. Known \subseteq Known'
    BY <1>1, KnownGrows DEF Crash, Resume
  <2>2. Known' \subseteq Subject
    <3>1. (TypeOK => Known \subseteq Subject)'
      BY KnownTyped, PTL
    <3> QED
      BY <3>1
  <2>3. Known' = Known \cup Known'
    BY <2>1
  <2>4. Knowledge!Learn(Known')
    BY <1>1, <2>3 DEF Knowledge!Learn
  <2> QED
    BY <2>2, <2>4 DEF Knowledge!Next
<1>2. CASE UNCHANGED <<warm, summary, disk>> /\ Running' = Running
  BY <1>2 DEF Knowledge!vars, Known
<1>3. CASE WriteFile
  <2>1. /\ phase = "copied" /\ phase' = "closed" /\ UNCHANGED <<warm, summary>>
        /\ disk' = draft \/ disk' = disk
    BY <1>3 DEF WriteFile
  <2>2. draft.facts = kept.facts /\ Idle
    BY <2>1 DEF Kept
  <2>3. About(draft.facts) = Known
    BY <2>2, IdleKnows
  <2>4. Known' = Known
    BY <2>1 DEF Known
  <2>5. About(disk.facts)' \in {Known, About(disk.facts)}
    BY <2>1, <2>3 DEF About
  <2>6. Knowledge!Close
    BY <2>1, <2>4, <2>5 DEF Knowledge!Close
  <2> QED
    BY <2>6 DEF Knowledge!Next
<1>4. CASE Crash
  <2>1. /\ phase' = "down" /\ warm'.facts = {} /\ disk' = disk
        /\ \A t \in Thread : summary'[t] = NoFact
    BY <1>4 DEF Crash, NoThread, EmptyStore
  <2>2. Known' = {} /\ About(disk.facts)' = About(disk.facts)
    BY <2>1 DEF Known, About
  <2>3. Knowledge!Crash
    BY <2>1, <2>2 DEF Knowledge!Crash
  <2> QED
    BY <2>3 DEF Knowledge!Next
<1>5. CASE Resume
  <2>1. PICK A \in Admitted(EmptyStore, disk.facts) : warm' = With(EmptyStore, A)
    BY <1>5 DEF Resume
  <2>2. /\ phase \in {"closed", "down"} /\ phase' = "open" /\ disk' = disk
        /\ \A t \in Thread : summary'[t] = NoFact
    BY <1>5 DEF Resume, NoThread
  <2>3. disk.facts \in SUBSET Fact
    BY DEF TypeOK, File
  <2>4. Texts(warm'.facts) = Texts(EmptyStore.facts) \cup Texts(disk.facts)
    BY <2>1, <2>3, RoomyStore, EmptyTyped, EmptyIsExact DEF Hashed
  <2>5. Texts(warm'.facts) = Texts(disk.facts)
    BY <2>4 DEF EmptyStore, Texts
  <2>6. About(warm'.facts) = About(disk.facts)
    <3>1. \A F, G : Texts(F) \subseteq Texts(G) => About(F) \subseteq About(G)
      BY AboutTexts
    <3>2. /\ About(warm'.facts) \subseteq About(disk.facts)
          /\ About(disk.facts) \subseteq About(warm'.facts)
      BY <2>5, <3>1
    <3> QED
      BY <3>2
  <2>7. Known' = About(disk.facts) /\ About(disk.facts)' = About(disk.facts)
    BY <2>2, <2>6 DEF Known, About
  <2>8. Knowledge!Resume
    BY <2>2, <2>7 DEF Knowledge!Resume
  <2> QED
    BY <2>8 DEF Knowledge!Next
<1>6. ASSUME NEW t \in Thread,
             \/ \E X \in SUBSET Text : StoreWarm(t, X)
             \/ StoreFabric(t) \/ LogCreated(t) \/ Logged(t) \/ CheckCompaction(t)
             \/ FindClusters(t) \/ NextCluster(t) \/ AddSummary(t) \/ EndCompaction(t)
             \/ \E f \in batch[t] : Remove(t, f)
      PROVE  phase = "open" /\ UNCHANGED <<phase, disk>>
  <2>1. UNCHANGED <<phase, disk>> /\ (pc[t] # "idle" \/ phase = "open")
    BY <1>6 DEF StoreWarm, StoreFabric, LogCreated, Logged, CheckCompaction,
                FindClusters, NextCluster, AddSummary, EndCompaction, Remove,
                MayBegin, Roomy
  <2> QED
    BY <2>1 DEF Kept, Idle
<1>7. ASSUME SaveStore \/ SaveLog \/ UNCHANGED vars
      PROVE  UNCHANGED <<warm, summary, disk>> /\ Running' = Running
  BY <1>7 DEF SaveStore, SaveLog, vars
<1>8. ~Reset
  BY DEF Reset, Roomy
<1> QED
  BY <1>1, <1>2, <1>3, <1>4, <1>5, <1>6, <1>7, <1>8 DEF Next

(* Where the stores have room, compaction, deduplication, crashes and      *)
(* failing writes never make a session forget what it knew, and a resume   *)
(* brings back what the last close that reached the file knew.             *)
THEOREM Refinement == ASSUME Roomy PROVE Spec => ImplementsKnowledge
<1>1. Init => Hashed /\ Carried /\ Kept
  <2> SUFFICES ASSUME Init PROVE Hashed /\ Carried /\ Kept
    OBVIOUS
  <2>1. Hashed /\ Carried
    BY EmptyIsExact DEF Init, Hashed, EmptyFile, Carried, EmptyStore, Texts
  <2>2. Kept
    BY DEF Init, Kept, Idle, EmptyStore, About
  <2> QED
    BY <2>1, <2>2
<1>2. Init => Knowledge!Init
  BY DEF Init, Knowledge!Init, Known, About, EmptyStore, EmptyFile
<1>3. Spec => [](TypeOK /\ Summarised /\ Hashed /\ Carried /\ Kept)
  <2>1. TypeOK /\ Summarised /\ Hashed /\ Carried /\ [Next]_vars => Carried'
    BY StepCarried
  <2>2. TypeOK /\ Summarised /\ Hashed /\ Carried /\ Kept /\ [Next]_vars => Kept'
    BY StepKept
  <2> QED
    BY <1>1, <2>1, <2>2, StepHashed, Types, PTL DEF Spec
<1>4. TypeOK /\ TypeOK' /\ Summarised /\ Hashed /\ Carried /\ Kept /\ [Next]_vars
          => [Knowledge!Next]_(Knowledge!vars)
  BY StepKnowledge
<1> QED
  BY <1>2, <1>3, <1>4, PTL DEF Spec, ImplementsKnowledge, Knowledge!Spec

=============================================================================
