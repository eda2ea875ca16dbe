----------------------- MODULE LedgerPipeline_proofs -----------------------
(***************************************************************************)
(* Proofs about ManifestLedger, LedgerSink and LedgerPipeline, for any set *)
(* of processes that share the file, any number of entries, any size of    *)
(* the queue and any of the faults.                                        *)
(*                                                                         *)
(* First the ledger alone.  Its invariant says what is true of an entry    *)
(* between the moment it is chained and the moment it is written: nothing  *)
(* in the file and no other process knows it, so nothing can have been     *)
(* chained to it.  That makes every predecessor in the file come before    *)
(* its successor, from which two successors of one entry are seen.         *)
(*                                                                         *)
(* Then the pipeline: it implements the ledger alone, so what holds of the *)
(* ledger holds of it; its sink leaves behind only what raced with close();*)
(* and every entry returned is at exactly one place.                       *)
(***************************************************************************)
EXTENDS LedgerPipeline, SequenceTheorems, FiniteSetTheorems, FunctionTheorems,
        TLAPS

Line == Entry \cup {Torn}

Held(p) == writing[p] # NoEntry

(* Numbers are handed out in order. *)
Numbered ==
    /\ \A i \in DOMAIN file : file[i].id <= made /\ file[i].prev <= made
    /\ \A p \in Process : \A i \in DOMAIN cache[p] : cache[p][i].id <= made
    /\ \A p \in Process : writing[p].id <= made /\ writing[p].prev <= made

(* An entry that is not written yet is known to its process only. *)
Pending ==
    \A p \in Process : Held(p) =>
        /\ p \in loaded
        /\ writing[p] \in Entry
        /\ \A i \in DOMAIN file : /\ file[i].id # writing[p].id
                                  /\ file[i].prev # writing[p].id
        /\ \A q \in Process :
              /\ writing[q].prev # writing[p].id
              /\ writing[q].id = writing[p].id => q = p
              /\ \A i \in DOMAIN cache[q] :
                    cache[q][i].id = writing[p].id => q = p

(* A predecessor in the file comes first. *)
InOrder ==
    \A i, j \in DOMAIN file : file[i] # Torn /\ file[j] # Torn =>
        /\ file[i].id = file[j].id => i = j
        /\ file[j].id = file[i].prev => j < i

Chained(f) ==
    /\ \A i \in 2 .. Len(f) : f[i].prev = f[i - 1].id
    /\ f # <<>> => f[1].prev = Genesis

Undamaged(p) == writers \subseteq {p} /\ raised = {} /\ ~IsTorn(file)

(* The only writer's list is the file, or one entry ahead of it. *)
UpToDate ==
    \A p \in Process : Undamaged(p) =>
        /\ Chained(file)
        /\ p \in loaded /\ ~Held(p) => cache[p] = file
        /\ Held(p) => /\ cache[p] = Append(file, writing[p])
                      /\ writing[p].prev = LastId(file)

IInv ==
    /\ LedgerTypeOK
    /\ Numbered
    /\ Pending
    /\ InOrder
    /\ UpToDate
    /\ ReturnedIsDurable

-----------------------------------------------------------------------------
(* What is in a line. *)
LEMMA LineIs ==
    /\ Torn.id = 0 /\ Torn.prev = -1
    /\ NoEntry.id = 0 /\ NoEntry.prev = 0
    /\ \A e \in Entry : /\ e.id \in Nat /\ e.id > 0 /\ e.id \in Number
                        /\ e.prev \in Nat
                        /\ e # Torn /\ e # NoEntry
BY LedgerAssumption DEF Torn, NoEntry, Entry, Number, Genesis

(* What an append makes of a file. *)
LEMMA AppendIs ==
    ASSUME NEW S, NEW f \in Seq(S), NEW e \in S
    PROVE  /\ Append(f, e) \in Seq(S)
           /\ Len(Append(f, e)) = Len(f) + 1
           /\ DOMAIN Append(f, e) = DOMAIN f \cup {Len(f) + 1}
           /\ Len(f) + 1 \notin DOMAIN f
           /\ \A i \in DOMAIN f : i < Len(f) + 1
           /\ \A i \in DOMAIN f : Append(f, e)[i] = f[i]
           /\ Append(f, e)[Len(f) + 1] = e
OBVIOUS

(* A line is added, unless the file ends in a broken one. *)
LEMMA ExtendedIs ==
    ASSUME NEW f \in Seq(Line), NEW e \in Line
    PROVE  \/ Extended(f, e) = f /\ IsTorn(f)
           \/ Extended(f, e) = Append(f, e)
BY DEF Extended, IsTorn

(* The last entry's number. *)
LEMMA LastIs ==
    ASSUME NEW f \in Seq(Line), ~IsTorn(f)
    PROVE  /\ f \in Seq(Entry)
           /\ LastId(f) \in Number \cup {Genesis}
           /\ LastId(f) = Genesis \/ \E i \in DOMAIN f : f[i].id = LastId(f)
<1>1. \A i \in 1 .. Len(f) : f[i] \in Entry
  BY DEF Line, IsTorn
<1>2. f \in Seq(Entry)
  BY <1>1
<1>3. CASE f = <<>>
  BY <1>2, <1>3 DEF LastId
<1>4. CASE f # <<>>
  <2>1. Len(f) \in DOMAIN f
    BY <1>4
  <2> QED
    BY <1>1, <1>2, <1>4, <2>1, LineIs DEF LastId
<1> QED
  BY <1>3, <1>4

(* Chaining to the last line keeps the chain. *)
LEMMA AppendChained ==
    ASSUME NEW f \in Seq(Entry), NEW e \in Entry, Chained(f),
           e.prev = LastId(f)
    PROVE  Chained(Append(f, e))
<1> DEFINE g == Append(f, e)
<1>1. /\ Len(g) = Len(f) + 1 /\ Len(f) \in Nat
      /\ \A i \in 1 .. Len(f) : g[i] = f[i]
      /\ g[Len(f) + 1] = e
      /\ f = <<>> <=> Len(f) = 0
  OBVIOUS
<1>2. f = <<>> => e.prev = Genesis
  BY DEF LastId
<1>3. f # <<>> => e.prev = f[Len(f)].id
  BY DEF LastId
<1> HIDE DEF g
<1>4. ASSUME NEW i \in 2 .. Len(g) PROVE g[i].prev = g[i - 1].id
  <2>1. CASE i = Len(g)
    BY <1>1, <1>3, <2>1
  <2>2. CASE i # Len(g)
    <3>1. i \in 2 .. Len(f) /\ i \in 1 .. Len(f) /\ i - 1 \in 1 .. Len(f)
      BY <1>1, <2>2
    <3> QED
      BY <1>1, <3>1 DEF Chained
  <2> QED
    BY <2>1, <2>2
<1>5. g[1].prev = Genesis
  <2>1. CASE f = <<>>
    BY <1>1, <1>2, <2>1
  <2>2. CASE f # <<>>
    BY <1>1, <2>2 DEF Chained
  <2> QED
    BY <2>1, <2>2
<1>6. Chained(g)
  BY <1>4, <1>5 DEF Chained
<1> QED
  BY <1>6 DEF g

-----------------------------------------------------------------------------
(* The types the steps below use again and again. *)
LEMMA Types ==
    ASSUME IInv
    PROVE  /\ file \in Seq(Line)
           /\ cache \in [Process -> Seq(Entry)]
           /\ writing \in [Process -> Entry \cup {NoEntry}]
           /\ loaded \subseteq Process /\ writers \subseteq Process
           /\ made \in Nat /\ made \in 0 .. MaxEntries
           /\ returned \subseteq 1 .. made /\ raised \subseteq 1 .. made
           /\ toForward \in [Process -> SUBSET returned]
BY LedgerAssumption DEF IInv, LedgerTypeOK, Line

(* An empty file satisfies the invariant. *)
LEMMA InitIInv == LedgerInit => IInv
<1> SUFFICES ASSUME LedgerInit PROVE IInv
  OBVIOUS
<1>1. LedgerTypeOK
  BY LedgerAssumption DEF LedgerInit, LedgerTypeOK
<1>2. Numbered
  BY LineIs DEF LedgerInit, Numbered
<1>3. Pending
  BY DEF LedgerInit, Pending, Held
<1>4. InOrder
  BY DEF LedgerInit, InOrder
<1>5. UpToDate
  BY DEF LedgerInit, UpToDate, Chained, Held
<1>6. ReturnedIsDurable
  BY DEF LedgerInit, ReturnedIsDurable
<1> QED
  BY <1>1, <1>2, <1>3, <1>4, <1>5, <1>6 DEF IInv

(* record() chains an entry nobody else knows to one that is written. *)
LEMMA ChainStep ==
    ASSUME IInv, NEW p \in Process, Chain(p) PROVE IInv'
<1> DEFINE old == Known(p)
           e == [id |-> made + 1, prev |-> LastId(old)]
<1>1. /\ file \in Seq(Line)
      /\ cache \in [Process -> Seq(Entry)]
      /\ writing \in [Process -> Entry \cup {NoEntry}]
      /\ made \in Nat /\ made < MaxEntries /\ MaxEntries \in Nat
      /\ loaded \subseteq Process
  BY Types, LedgerAssumption DEF Chain
<1>2. /\ ~Held(p)
      /\ made' = made + 1
      /\ cache' = [cache EXCEPT ![p] = Append(old, e)]
      /\ writing' = [writing EXCEPT ![p] = e]
      /\ loaded' = loaded \cup {p}
      /\ UNCHANGED <<file, returned, raised, writers, toForward>>
  BY DEF Chain, Unlocked, Held
<1>3. /\ old \in Seq(Entry)
      /\ LastId(old) \in Number \cup {Genesis}
      /\ LastId(old) = Genesis \/ \E i \in DOMAIN old : old[i].id = LastId(old)
  <2>1. CASE p \in loaded
    <3>1. old = cache[p] /\ cache[p] \in Seq(Entry)
      BY <1>1, <2>1 DEF Known
    <3>2. ~IsTorn(cache[p]) /\ cache[p] \in Seq(Line)
      BY <3>1, LineIs DEF IsTorn, Line
    <3> QED
      BY <3>1, <3>2, LastIs
  <2>2. CASE p \notin loaded
    <3>1. old = file /\ ~IsTorn(file)
      BY <2>2 DEF Known, Chain, Readable
    <3> QED
      BY <1>1, <3>1, LastIs
  <2> QED
    BY <2>1, <2>2
<1>4. \A i \in DOMAIN old : /\ old[i].id <= made
                           /\ \A q \in Process : Held(q) => old[i].id # writing[q].id
  <2>1. CASE p \in loaded
    BY <1>2, <2>1 DEF Known, IInv, Numbered, Pending
  <2>2. CASE p \notin loaded
    BY <2>2 DEF Known, IInv, Numbered, Pending
  <2> QED
    BY <2>1, <2>2
<1>5. /\ e \in Entry /\ e.id = made + 1 /\ e.prev = LastId(old)
      /\ e.prev <= made /\ e.prev \in Nat
      /\ \A q \in Process : Held(q) => e.prev # writing[q].id
  <2>1. e \in Entry
    BY <1>1, <1>3 DEF Entry, Number
  <2>2. e.prev <= made
    BY <1>1, <1>3, <1>4 DEF Genesis
  <2>3. \A q \in Process : Held(q) => e.prev # writing[q].id
    BY <1>3, <1>4, LineIs DEF Genesis, IInv, Pending
  <2> QED
    BY <2>1, <2>2, <2>3, LineIs
<1>6. /\ Append(old, e) \in Seq(Entry)
      /\ \A i \in DOMAIN Append(old, e) :
            \/ i \in DOMAIN old /\ Append(old, e)[i] = old[i]
            \/ Append(old, e)[i] = e
  BY <1>3, <1>5, AppendIs
<1> HIDE DEF e, old
<1>7. /\ cache'[p] = Append(old, e) /\ writing'[p] = e
      /\ \A q \in Process : q # p => cache'[q] = cache[q] /\ writing'[q] = writing[q]
  BY <1>1, <1>2
<1>8. LedgerTypeOK'
  <2>1. made' \in 0 .. MaxEntries
    BY <1>1, <1>2
  <2>2. returned' \subseteq 1 .. made' /\ raised' \subseteq 1 .. made'
    BY <1>1, <1>2, Types
  <2>3. /\ cache' \in [Process -> Seq(Entry)]
        /\ writing' \in [Process -> Entry \cup {NoEntry}]
    BY <1>1, <1>2, <1>5, <1>6
  <2> QED
    BY <1>2, <2>1, <2>2, <2>3, Types DEF LedgerTypeOK, Line
<1>9. Numbered'
  <2>1. \A i \in DOMAIN file' : file'[i].id <= made' /\ file'[i].prev <= made'
    <3>1. ASSUME NEW i \in DOMAIN file
          PROVE  file[i].id <= made + 1 /\ file[i].prev <= made + 1
      <4>1. file[i].id \in Int /\ file[i].prev \in Int
        BY <1>1, LineIs DEF Line
      <4> QED
        BY <1>1, <4>1 DEF IInv, Numbered
    <3> QED
      BY <1>2, <3>1
  <2>2. ASSUME NEW q \in Process, NEW i \in DOMAIN cache'[q]
        PROVE  cache'[q][i].id <= made'
    <3>1. CASE q = p
      <4>1. \A k \in DOMAIN old : old[k].id \in Nat
        BY <1>3, LineIs
      <4> QED
        BY <1>1, <1>2, <1>4, <1>5, <1>6, <1>7, <3>1, <4>1
    <3>2. CASE q # p
      <4>1. cache[q][i].id \in Nat /\ cache[q][i].id <= made
        BY <1>1, <1>7, <3>2, LineIs DEF IInv, Numbered
      <4> QED
        BY <1>1, <1>2, <1>7, <3>2, <4>1
    <3> QED
      BY <3>1, <3>2
  <2>3. ASSUME NEW q \in Process
        PROVE  writing'[q].id <= made' /\ writing'[q].prev <= made'
    <3>1. CASE q = p
      BY <1>1, <1>2, <1>5, <1>7, <3>1
    <3>2. CASE q # p
      <4>1. /\ writing[q].id \in Nat /\ writing[q].id <= made
            /\ writing[q].prev \in Nat /\ writing[q].prev <= made
        BY <1>1, LineIs DEF IInv, Numbered
      <4> QED
        BY <1>1, <1>2, <1>7, <3>2, <4>1
    <3> QED
      BY <3>1, <3>2
  <2> QED
    BY <2>1, <2>2, <2>3 DEF Numbered
<1>10. Pending'
  <2> SUFFICES ASSUME NEW q \in Process, Held(q)'
               PROVE  /\ q \in loaded'
                      /\ writing'[q] \in Entry
                      /\ \A i \in DOMAIN file : /\ file[i].id # writing'[q].id
                                               /\ file[i].prev # writing'[q].id
                      /\ \A r \in Process :
                           /\ writing'[r].prev # writing'[q].id
                           /\ writing'[r].id = writing'[q].id => r = q
                           /\ \A i \in DOMAIN cache'[r] :
                                 cache'[r][i].id = writing'[q].id => r = q
    BY <1>2 DEF Pending
  <2>1. CASE q = p
    <3>1. writing'[q].id = made + 1 /\ writing'[q] \in Entry /\ q \in loaded'
      BY <1>2, <1>5, <1>7, <2>1
    <3>2. \A i \in DOMAIN file : /\ file[i].id # made + 1
                                /\ file[i].prev # made + 1
      BY <1>1 DEF IInv, Numbered
    <3>3. ASSUME NEW r \in Process
          PROVE  /\ writing'[r].prev # made + 1
                 /\ writing'[r].id = made + 1 => r = q
                 /\ \A i \in DOMAIN cache'[r] :
                       cache'[r][i].id = made + 1 => r = q
      <4>1. CASE r = p
        BY <1>1, <1>5, <1>7, <2>1, <4>1
      <4>2. CASE r # p
        BY <1>1, <1>7, <4>2 DEF IInv, Numbered
      <4> QED
        BY <4>1, <4>2
    <3> QED
      BY <3>1, <3>2, <3>3
  <2>2. CASE q # p
    <3>1. writing'[q] = writing[q] /\ Held(q)
      BY <1>7, <2>2 DEF Held
    <3>2. /\ q \in loaded' /\ writing[q] \in Entry
          /\ \A i \in DOMAIN file : /\ file[i].id # writing[q].id
                                   /\ file[i].prev # writing[q].id
      BY <1>2, <3>1 DEF IInv, Pending
    <3>3. writing[q].id <= made /\ writing[q].id \in Nat
      BY <3>2, LineIs DEF IInv, Numbered
    <3>4. ASSUME NEW r \in Process
          PROVE  /\ writing'[r].prev # writing[q].id
                 /\ writing'[r].id = writing[q].id => r = q
                 /\ \A i \in DOMAIN cache'[r] :
                       cache'[r][i].id = writing[q].id => r = q
      <4>1. CASE r = p
        <5>1. e.prev # writing[q].id /\ e.id # writing[q].id
          BY <1>1, <1>5, <3>1, <3>3
        <5>2. \A i \in DOMAIN cache'[p] : cache'[p][i].id # writing[q].id
          BY <1>4, <1>6, <1>7, <3>1, <5>1
        <5> QED
          BY <1>7, <4>1, <5>1, <5>2
      <4>2. CASE r # p
        BY <1>7, <3>1, <4>2 DEF IInv, Pending
      <4> QED
        BY <4>1, <4>2
    <3> QED
      BY <3>1, <3>2, <3>4
  <2> QED
    BY <2>1, <2>2
<1>11. InOrder' /\ ReturnedIsDurable'
  BY <1>2 DEF IInv, InOrder, ReturnedIsDurable, Ids, IsTorn
<1>12. UpToDate'
  <2> SUFFICES ASSUME NEW q \in Process, Undamaged(q)
               PROVE  /\ Chained(file)
                      /\ q \in loaded' /\ ~Held(q)' => cache'[q] = file
                      /\ Held(q)' => /\ cache'[q] = Append(file, writing'[q])
                                     /\ writing'[q].prev = LastId(file)
    BY <1>2 DEF UpToDate, Undamaged
  <2>1. CASE q = p
    <3>1. old = file
      BY <1>2, <2>1 DEF old, Known, IInv, UpToDate
    <3>2. Held(q)'
      BY <1>5, <1>7, <2>1, LineIs DEF Held
    <3> QED
      BY <1>5, <1>7, <2>1, <3>1, <3>2 DEF IInv, UpToDate
  <2>2. CASE q # p
    BY <1>2, <1>7, <2>2 DEF IInv, UpToDate, Held
  <2> QED
    BY <2>1, <2>2
<1> QED
  BY <1>8, <1>9, <1>10, <1>11, <1>12 DEF IInv

(* What breaking off leaves of a file: its lines, and a broken one. *)
LEMMA TornIs ==
    ASSUME NEW f \in Seq(Line), NEW g, g = f \/ g = Extended(f, Torn)
    PROVE  /\ g \in Seq(Line)
           /\ g = f \/ IsTorn(g)
           /\ \A i \in DOMAIN g : g[i] = Torn \/ (i \in DOMAIN f /\ g[i] = f[i])
<1>1. Torn \in Line
  BY DEF Line
<1>2. CASE g = f
  BY <1>2
<1>3. CASE g = Append(f, Torn)
  <2>1. /\ Append(f, Torn) \in Seq(Line)
        /\ DOMAIN Append(f, Torn) = DOMAIN f \cup {Len(f) + 1}
        /\ \A i \in DOMAIN f : Append(f, Torn)[i] = f[i]
        /\ Append(f, Torn)[Len(f) + 1] = Torn
    BY <1>1, AppendIs
  <2>2. IsTorn(g)
    <3>1. Len(f) + 1 \in DOMAIN g /\ g[Len(f) + 1] = Torn
      BY <1>3, <2>1
    <3> QED
      BY <3>1 DEF IsTorn
  <2> QED
    BY <1>3, <2>1, <2>2
<1> QED
  BY <1>1, <1>2, <1>3, ExtendedIs

(* record() writes its line and returns. *)
LEMMA WriteStep ==
    ASSUME IInv, NEW p \in Process, Write(p) PROVE IInv'
<1> DEFINE w == writing[p]
           g == Extended(file, w)
<1>1. /\ file \in Seq(Line)
      /\ cache \in [Process -> Seq(Entry)]
      /\ writing \in [Process -> Entry \cup {NoEntry}]
      /\ made \in Nat
      /\ toForward \in [Process -> SUBSET returned]
      /\ returned \subseteq 1 .. made /\ raised \subseteq 1 .. made
  BY Types
<1>2. /\ Held(p)
      /\ file' = g
      /\ writing' = [writing EXCEPT ![p] = NoEntry]
      /\ returned' = returned \cup {w.id}
      /\ toForward' = [toForward EXCEPT ![p] = @ \cup {w.id}]
      /\ writers' = writers \cup {p}
      /\ UNCHANGED <<cache, loaded, made, raised>>
  BY DEF Write, Unlocked, Held
<1>3. /\ w \in Entry /\ w \in Line
      /\ \A i \in DOMAIN file : file[i].id # w.id /\ file[i].prev # w.id
      /\ w.prev # w.id
      /\ w.id <= made /\ w.prev <= made
  BY <1>2 DEF IInv, Pending, Numbered, Line
<1>4. w.id \in Nat /\ w.id > 0
  BY <1>3, LineIs
<1> HIDE DEF w
<1>5. /\ writing'[p] = NoEntry
      /\ \A q \in Process : q # p => writing'[q] = writing[q]
  BY <1>1, <1>2
<1>6. \/ file' = file /\ IsTorn(file)
      \/ file' = Append(file, w)
  BY <1>1, <1>2, <1>3, ExtendedIs
<1>7. /\ Append(file, w) \in Seq(Line)
      /\ DOMAIN Append(file, w) = DOMAIN file \cup {Len(file) + 1}
      /\ Len(file) + 1 \notin DOMAIN file
      /\ \A i \in DOMAIN file : i < Len(file) + 1
      /\ \A i \in DOMAIN file : Append(file, w)[i] = file[i]
      /\ Append(file, w)[Len(file) + 1] = w
  BY <1>1, <1>3, AppendIs
<1> HIDE DEF g
<1>8. /\ file' \in Seq(Line)
      /\ \A i \in DOMAIN file' : \/ i \in DOMAIN file /\ file'[i] = file[i]
                                \/ file'[i] = w
      /\ IsTorn(file) => IsTorn(file')
  BY <1>1, <1>6, <1>7 DEF IsTorn
<1>9. LedgerTypeOK'
  <2>1. writing' \in [Process -> Entry \cup {NoEntry}]
    BY <1>1, <1>2
  <2>2. returned' \subseteq 1 .. made' /\ raised' \subseteq 1 .. made'
    <3>1. w.id \in 1 .. made
      BY <1>1, <1>3, <1>4
    <3> QED
      BY <1>1, <1>2, <3>1
  <2>3. toForward' \in [Process -> SUBSET returned']
    BY <1>1, <1>2
  <2>4. writers' \subseteq Process /\ loaded' \subseteq Process
        /\ made' \in 0 .. MaxEntries /\ cache' \in [Process -> Seq(Entry)]
    BY <1>2, Types
  <2> QED
    BY <1>8, <2>1, <2>2, <2>3, <2>4 DEF LedgerTypeOK, Line
<1>10. Numbered'
  <2>1. \A i \in DOMAIN file' : file'[i].id <= made' /\ file'[i].prev <= made'
    BY <1>2, <1>3, <1>8 DEF IInv, Numbered
  <2>2. \A q \in Process : writing'[q].id <= made' /\ writing'[q].prev <= made'
    BY <1>1, <1>2, <1>5, LineIs DEF IInv, Numbered
  <2> QED
    BY <1>2, <2>1, <2>2 DEF IInv, Numbered
<1>11. Pending'
  <2> SUFFICES ASSUME NEW q \in Process, Held(q)'
               PROVE  /\ q \in loaded'
                      /\ writing'[q] \in Entry
                      /\ \A i \in DOMAIN file' : /\ file'[i].id # writing'[q].id
                                                /\ file'[i].prev # writing'[q].id
                      /\ \A r \in Process :
                           /\ writing'[r].prev # writing'[q].id
                           /\ writing'[r].id = writing'[q].id => r = q
                           /\ \A i \in DOMAIN cache'[r] :
                                 cache'[r][i].id = writing'[q].id => r = q
    BY DEF Pending
  <2>1. q # p /\ writing'[q] = writing[q] /\ Held(q)
    BY <1>5 DEF Held
  <2>2. /\ q \in loaded /\ writing[q] \in Entry
        /\ \A i \in DOMAIN file : /\ file[i].id # writing[q].id
                                 /\ file[i].prev # writing[q].id
        /\ w.id # writing[q].id /\ w.prev # writing[q].id
    BY <2>1 DEF IInv, Pending, w
  <2>3. \A i \in DOMAIN file' : /\ file'[i].id # writing[q].id
                              /\ file'[i].prev # writing[q].id
    BY <1>8, <2>2
  <2>4. writing[q].id > 0
    BY <2>2, LineIs
  <2>5. ASSUME NEW r \in Process
        PROVE  /\ writing'[r].prev # writing[q].id
               /\ writing'[r].id = writing[q].id => r = q
               /\ \A i \in DOMAIN cache'[r] :
                     cache'[r][i].id = writing[q].id => r = q
    <3>1. CASE r = p
      BY <1>2, <1>5, <2>1, <2>4, <3>1, LineIs DEF IInv, Pending
    <3>2. CASE r # p
      BY <1>2, <1>5, <2>1, <3>2 DEF IInv, Pending
    <3> QED
      BY <3>1, <3>2
  <2> QED
    BY <1>2, <2>1, <2>2, <2>3, <2>5
<1>12. InOrder'
  <2>1. CASE file' = file
    BY <2>1 DEF IInv, InOrder
  <2>2. CASE file' = Append(file, w)
    <3> SUFFICES ASSUME NEW i \in DOMAIN file', NEW j \in DOMAIN file',
                        file'[i] # Torn, file'[j] # Torn
                 PROVE  /\ file'[i].id = file'[j].id => i = j
                        /\ file'[j].id = file'[i].prev => j < i
      BY DEF InOrder
    <3>1. CASE i \in DOMAIN file /\ j \in DOMAIN file
      BY <1>7, <2>2, <3>1 DEF IInv, InOrder
    <3>2. CASE i = Len(file) + 1 /\ j \in DOMAIN file
      BY <1>3, <1>7, <2>2, <3>2
    <3>3. CASE i \in DOMAIN file /\ j = Len(file) + 1
      BY <1>3, <1>7, <2>2, <3>3
    <3>4. CASE i = Len(file) + 1 /\ j = Len(file) + 1
      BY <1>3, <1>7, <2>2, <3>4
    <3> QED
      BY <1>7, <2>2, <3>1, <3>2, <3>3, <3>4
  <2> QED
    BY <1>6, <2>1, <2>2
<1>13. UpToDate'
  <2> SUFFICES ASSUME NEW q \in Process, Undamaged(q)'
               PROVE  /\ Chained(file')
                      /\ q \in loaded' /\ ~Held(q)' => cache'[q] = file'
                      /\ ~Held(q)'
    BY DEF UpToDate
  <2>1. q = p /\ Undamaged(p) /\ ~IsTorn(file)
    BY <1>2, <1>8 DEF Undamaged
  <2>2. file' = Append(file, w)
    BY <1>6, <2>1
  <2>3. Chained(file) /\ cache[p] = Append(file, w) /\ w.prev = LastId(file)
    BY <1>2, <2>1 DEF IInv, UpToDate, w
  <2>4. Chained(file')
    BY <1>1, <1>3, <2>1, <2>2, <2>3, LastIs, AppendChained
  <2>5. ~Held(q)'
    BY <1>5, <2>1 DEF Held
  <2> QED
    BY <1>2, <2>1, <2>2, <2>3, <2>4, <2>5
<1>14. ReturnedIsDurable'
  <2> SUFFICES ASSUME ~IsTorn(file') PROVE returned' \subseteq Ids(file')
    BY DEF ReturnedIsDurable
  <2>1. ~IsTorn(file) /\ file' = Append(file, w)
    BY <1>6, <1>8
  <2>2. returned \subseteq Ids(file)
    BY <2>1 DEF IInv, ReturnedIsDurable
  <2>3. Ids(file) \subseteq Ids(file') /\ w.id \in Ids(file')
    BY <1>7, <2>1 DEF Ids
  <2> QED
    BY <1>2, <2>2, <2>3
<1> QED
  BY <1>9, <1>10, <1>11, <1>12, <1>13, <1>14 DEF IInv

(* A write that fails, or a process that dies: at most a broken line. *)
LEMMA FailStep ==
    ASSUME IInv, NEW p \in Process, WriteFails(p) \/ Crash(p) PROVE IInv'
<1>1. /\ file \in Seq(Line)
      /\ cache \in [Process -> Seq(Entry)]
      /\ writing \in [Process -> Entry \cup {NoEntry}]
      /\ made \in Nat
      /\ returned \subseteq 1 .. made /\ raised \subseteq 1 .. made
  BY Types
<1>2. /\ file' = file \/ file' = Extended(file, Torn)
      /\ writing' = [writing EXCEPT ![p] = NoEntry]
      /\ UNCHANGED <<made, returned, writers>>
  BY DEF WriteFails, Crash
<1>3. \/ /\ Held(p) /\ raised' = raised \cup {writing[p].id}
         /\ UNCHANGED <<cache, loaded, toForward>>
      \/ /\ UNCHANGED raised /\ loaded' = loaded \ {p}
         /\ cache' = [cache EXCEPT ![p] = <<>>]
         /\ toForward' = [toForward EXCEPT ![p] = {}]
  BY DEF WriteFails, Crash, Unlocked, Held
<1>4. /\ file' \in Seq(Line)
      /\ file' = file \/ IsTorn(file')
      /\ \A i \in DOMAIN file' :
            file'[i] = Torn \/ (i \in DOMAIN file /\ file'[i] = file[i])
  BY <1>1, <1>2, TornIs
<1>5. /\ writing'[p] = NoEntry
      /\ \A q \in Process : q # p => writing'[q] = writing[q]
  BY <1>1, <1>2
<1>6. \A q \in Process : cache'[q] = cache[q] \/ (q = p /\ cache'[q] = <<>>)
  BY <1>1, <1>3
<1>7. LedgerTypeOK'
  <2>1. /\ writing' \in [Process -> Entry \cup {NoEntry}]
        /\ loaded' \subseteq Process /\ writers' \subseteq Process
        /\ made' \in 0 .. MaxEntries
    BY <1>1, <1>2, <1>3, Types
  <2>4. cache' \in [Process -> Seq(Entry)]
    <3>1. <<>> \in Seq(Entry)
      OBVIOUS
    <3> QED
      BY <1>1, <1>3, <3>1
  <2>2. toForward' \in [Process -> SUBSET returned']
    BY <1>2, <1>3, Types
  <2>3. returned' \subseteq 1 .. made' /\ raised' \subseteq 1 .. made'
    <3>1. Held(p) => writing[p].id \in 1 .. made
      <4>1. Held(p) => writing[p] \in Entry /\ writing[p].id <= made
        BY DEF IInv, Pending, Numbered
      <4> QED
        BY <1>1, <4>1, LineIs
    <3> QED
      BY <1>1, <1>2, <1>3, <3>1
  <2> QED
    BY <1>4, <2>1, <2>2, <2>3, <2>4 DEF LedgerTypeOK, Line
<1>8. Numbered'
  <2>1. \A i \in DOMAIN file' : file'[i].id <= made' /\ file'[i].prev <= made'
    BY <1>1, <1>2, <1>4, LineIs DEF IInv, Numbered
  <2>2. \A q \in Process : writing'[q].id <= made' /\ writing'[q].prev <= made'
    BY <1>1, <1>2, <1>5, LineIs DEF IInv, Numbered
  <2>3. \A q \in Process : \A i \in DOMAIN cache'[q] : cache'[q][i].id <= made'
    BY <1>2, <1>6 DEF IInv, Numbered
  <2> QED
    BY <2>1, <2>2, <2>3 DEF Numbered
<1>9. Pending'
  <2> SUFFICES ASSUME NEW q \in Process, Held(q)'
               PROVE  /\ q \in loaded'
                      /\ writing'[q] \in Entry
                      /\ \A i \in DOMAIN file' : /\ file'[i].id # writing'[q].id
                                                /\ file'[i].prev # writing'[q].id
                      /\ \A r \in Process :
                           /\ writing'[r].prev # writing'[q].id
                           /\ writing'[r].id = writing'[q].id => r = q
                           /\ \A i \in DOMAIN cache'[r] :
                                 cache'[r][i].id = writing'[q].id => r = q
    BY DEF Pending
  <2>1. q # p /\ writing'[q] = writing[q] /\ Held(q)
    BY <1>5 DEF Held
  <2>2. /\ q \in loaded' /\ writing[q] \in Entry
        /\ \A i \in DOMAIN file : /\ file[i].id # writing[q].id
                                 /\ file[i].prev # writing[q].id
    BY <1>3, <2>1 DEF IInv, Pending
  <2>3. writing[q].id > 0
    BY <2>2, LineIs
  <2>4. \A i \in DOMAIN file' : /\ file'[i].id # writing[q].id
                              /\ file'[i].prev # writing[q].id
    BY <1>4, <2>2, <2>3, LineIs
  <2>5. ASSUME NEW r \in Process
        PROVE  /\ writing'[r].prev # writing[q].id
               /\ writing'[r].id = writing[q].id => r = q
               /\ \A i \in DOMAIN cache'[r] :
                     cache'[r][i].id = writing[q].id => r = q
    <3>1. \A i \in DOMAIN cache'[r] : cache'[r][i].id = writing[q].id => r = q
      BY <1>6, <2>1 DEF IInv, Pending
    <3>2. CASE r = p
      BY <1>5, <2>3, <3>1, <3>2, LineIs
    <3>3. CASE r # p
      BY <1>5, <2>1, <3>1, <3>3 DEF IInv, Pending
    <3> QED
      BY <3>2, <3>3
  <2> QED
    BY <2>1, <2>2, <2>4, <2>5
<1>10. InOrder'
  BY <1>4 DEF IInv, InOrder
<1>11. UpToDate'
  <2> SUFFICES ASSUME NEW q \in Process, Undamaged(q)'
               PROVE  /\ Chained(file')
                      /\ q \in loaded' /\ ~Held(q)' => cache'[q] = file'
                      /\ Held(q)' => /\ cache'[q] = Append(file', writing'[q])
                                     /\ writing'[q].prev = LastId(file')
    BY DEF UpToDate
  <2>1. /\ raised' = raised /\ loaded' = loaded \ {p} /\ file' = file
        /\ Undamaged(q)
    BY <1>2, <1>3, <1>4 DEF Undamaged
  <2>2. CASE q = p
    BY <1>5, <2>1, <2>2 DEF IInv, UpToDate, Held
  <2>3. CASE q # p
    BY <1>5, <1>6, <2>1, <2>3 DEF IInv, UpToDate, Held
  <2> QED
    BY <2>2, <2>3
<1>12. ReturnedIsDurable'
  BY <1>2, <1>4 DEF IInv, ReturnedIsDurable
<1> QED
  BY <1>7, <1>8, <1>9, <1>10, <1>11, <1>12 DEF IInv

(* Reading the file, forgetting it, and handing an entry to the sinks. *)
LEMMA ReadStep ==
    ASSUME IInv, NEW p \in Process,
           \/ Load(p) \/ ClearCache(p)
           \/ \E n \in toForward[p] : Forward(p, n)
    PROVE  IInv'
<1>1. /\ file \in Seq(Line)
      /\ cache \in [Process -> Seq(Entry)]
      /\ toForward \in [Process -> SUBSET returned]
      /\ loaded \subseteq Process
  BY Types
<1>2. UNCHANGED <<file, writing, made, returned, raised, writers>>
  BY DEF Load, ClearCache, Forward
<1>3. \/ /\ ~Held(p) /\ ~IsTorn(file)
         /\ cache' = [cache EXCEPT ![p] = file] /\ loaded' = loaded \cup {p}
         /\ UNCHANGED toForward
      \/ /\ ~Held(p)
         /\ cache' = [cache EXCEPT ![p] = <<>>] /\ loaded' = loaded \ {p}
         /\ UNCHANGED toForward
      \/ /\ UNCHANGED <<cache, loaded>>
         /\ toForward' \in [Process -> SUBSET returned]
  <2>1. CASE Load(p)
    BY <2>1 DEF Load, Readable, Unlocked, Held
  <2>2. CASE ClearCache(p)
    BY <2>2 DEF ClearCache, Unlocked, Held
  <2>3. CASE \E n \in toForward[p] : Forward(p, n)
    <3>1. PICK n \in toForward[p] : Forward(p, n)
      BY <2>3
    <3>2. toForward' = [toForward EXCEPT ![p] = @ \ {n}]
          /\ UNCHANGED <<cache, loaded>>
      BY <3>1 DEF Forward
    <3> QED
      BY <1>1, <3>2
  <2> QED
    BY <2>1, <2>2, <2>3
<1>4. \A q \in Process :
         \/ cache'[q] = cache[q] /\ (q \in loaded' <=> q \in loaded)
         \/ /\ q = p /\ ~Held(p)
            /\ \/ cache'[q] = <<>> /\ q \notin loaded'
               \/ cache'[q] = file
  BY <1>1, <1>3
<1>5. LedgerTypeOK'
  <2>1. cache' \in [Process -> Seq(Entry)]
    <3>1. <<>> \in Seq(Entry) /\ (~IsTorn(file) => file \in Seq(Entry))
      BY <1>1, LastIs
    <3> QED
      BY <1>1, <1>3, <3>1
  <2>2. loaded' \subseteq Process
    BY <1>1, <1>3
  <2>3. toForward' \in [Process -> SUBSET returned']
    BY <1>1, <1>2, <1>3
  <2> QED
    BY <1>2, <2>1, <2>2, <2>3 DEF IInv, LedgerTypeOK
<1>6. Numbered'
  BY <1>2, <1>4 DEF IInv, Numbered
<1>7. Pending'
  <2> SUFFICES ASSUME NEW q \in Process, Held(q)
               PROVE  /\ q \in loaded'
                      /\ writing[q] \in Entry
                      /\ \A i \in DOMAIN file : /\ file[i].id # writing[q].id
                                               /\ file[i].prev # writing[q].id
                      /\ \A r \in Process :
                           /\ writing[r].prev # writing[q].id
                           /\ writing[r].id = writing[q].id => r = q
                           /\ \A i \in DOMAIN cache'[r] :
                                 cache'[r][i].id = writing[q].id => r = q
    BY <1>2 DEF Pending, Held
  <2>1. /\ q \in loaded /\ writing[q] \in Entry
        /\ \A i \in DOMAIN file : /\ file[i].id # writing[q].id
                                 /\ file[i].prev # writing[q].id
        /\ \A r \in Process :
              /\ writing[r].prev # writing[q].id
              /\ writing[r].id = writing[q].id => r = q
    BY DEF IInv, Pending
  <2>2. q \in loaded'
    BY <1>4, <2>1
  <2>3. ASSUME NEW r \in Process, NEW i \in DOMAIN cache'[r],
               cache'[r][i].id = writing[q].id
        PROVE  r = q
    BY <1>4, <2>1, <2>3 DEF IInv, Pending
  <2> QED
    BY <2>1, <2>2, <2>3
<1>8. InOrder' /\ ReturnedIsDurable'
  BY <1>2 DEF IInv, InOrder, ReturnedIsDurable, Ids, IsTorn
<1>9. UpToDate'
  BY <1>2, <1>4 DEF IInv, UpToDate, Undamaged, Held
<1> QED
  BY <1>5, <1>6, <1>7, <1>8, <1>9 DEF IInv

(* The invariant the theorems rest on. *)
LEMMA InductiveInvariant == LedgerSpec => []IInv
<1>1. IInv /\ [LedgerNext]_ledgerVars => IInv'
  <2> SUFFICES ASSUME IInv, [LedgerNext]_ledgerVars PROVE IInv'
    OBVIOUS
  <2>1. ASSUME NEW p \in Process, LedgerStep(p) PROVE IInv'
    BY <2>1, ChainStep, WriteStep, FailStep, ReadStep DEF LedgerStep
  <2>2. ASSUME NEW p \in Process, Crash(p) PROVE IInv'
    BY <2>2, FailStep
  <2>3. ASSUME NEW p \in Process, \E n \in toForward[p] : Forward(p, n)
        PROVE  IInv'
    BY <2>3, ReadStep
  <2>4. CASE UNCHANGED ledgerVars
    <3>1. UNCHANGED <<file, cache, loaded, writing, toForward, made, returned,
                      raised, writers>>
      BY <2>4 DEF ledgerVars
    <3>2. LedgerTypeOK'
      BY <3>1 DEF IInv, LedgerTypeOK
    <3>3. Numbered' /\ InOrder'
      BY <3>1 DEF IInv, Numbered, InOrder
    <3>4. Pending'
      BY <3>1 DEF IInv, Pending, Held
    <3>5. UpToDate'
      BY <3>1 DEF IInv, UpToDate, Undamaged, Held
    <3>6. ReturnedIsDurable'
      BY <3>1 DEF IInv, ReturnedIsDurable
    <3> QED
      BY <3>2, <3>3, <3>4, <3>5, <3>6 DEF IInv
  <2> QED
    BY <2>1, <2>2, <2>3, <2>4 DEF LedgerNext
<1> QED
  BY <1>1, InitIInv, PTL DEF LedgerSpec

-----------------------------------------------------------------------------
(* The theorems. *)

(* Every variable of the ledger keeps its type (manifest_ledger.py:194-313).*)
THEOREM LedgerTypeCorrect == LedgerSpec => []LedgerTypeOK
<1>1. IInv => LedgerTypeOK
  BY DEF IInv
<1> QED
  BY <1>1, InductiveInvariant, PTL

(* While one process writes and no write fails, restarts and clear_cache() *)
(* leave one unbroken chain (manifest_ledger.py:261-296).                  *)
THEOREM RestartsKeepTheChain == LedgerSpec => []RestartsKeepChain
<1>1. IInv => RestartsKeepChain
  <2> SUFFICES ASSUME IInv, NEW p \in Process, Undamaged(p)
               PROVE  Broken(file) = {} /\ (file # <<>> => file[1].prev = Genesis)
    BY DEF RestartsKeepChain, Undamaged
  <2>1. Chained(file)
    BY DEF IInv, UpToDate
  <2> QED
    BY <2>1 DEF Chained, Broken
<1> QED
  BY <1>1, InductiveInvariant, PTL

(* What a process has in its list: every entry after the one it names,     *)
(* the same as in the file, and not in the file only if it is not written  *)
(* yet or its write failed.                                                *)
Listed(p, a) ==
    /\ a.prev <= made
    /\ \A i \in DOMAIN file : file[i].id = a.id => file[i] = a
    /\ a.id = writing[p].id => a = writing[p]
    /\ ~IsTorn(file) => a.id \in Ids(file) \cup raised \cup {writing[p].id}

Ordered(s) ==
    \A i, j \in DOMAIN s : /\ s[i].id = s[j].id => i = j
                           /\ s[j].id = s[i].prev => j < i

Lists ==
    \A p \in Process : /\ Ordered(cache[p])
                       /\ \A i \in DOMAIN cache[p] : Listed(p, cache[p][i])

(* What a process reads from a file without broken lines is as it should be*)
LEMMA FileListed ==
    ASSUME IInv, ~IsTorn(file)
    PROVE  /\ Ordered(file) /\ file \in Seq(Entry)
           /\ \A i \in DOMAIN file :
                 /\ file[i].id \in Nat /\ file[i].id <= made
                 /\ file[i].prev \in Nat /\ file[i].prev <= made
                 /\ \A j \in DOMAIN file : file[j].id = file[i].id => file[j] = file[i]
                 /\ file[i].id \in Ids(file)
<1>1. file \in Seq(Entry) /\ \A i \in DOMAIN file : file[i] # Torn
  BY Types, LastIs DEF IsTorn
<1>2. Ordered(file)
  BY <1>1 DEF IInv, InOrder, Ordered
<1>3. ASSUME NEW i \in DOMAIN file
      PROVE  /\ file[i].id \in Nat /\ file[i].id <= made
             /\ file[i].prev \in Nat /\ file[i].prev <= made
  <2>1. file[i] \in Entry
    BY <1>1
  <2> QED
    BY <2>1, LineIs DEF IInv, Numbered
<1>4. \A i, j \in DOMAIN file : file[j].id = file[i].id => file[j] = file[i]
  BY <1>2 DEF Ordered
<1> QED
  BY <1>1, <1>2, <1>3, <1>4 DEF Ids

(* What there is to show of the lists after a step. *)
LEMMA ListsNext ==
    ASSUME cache' \in [Process -> Seq(Entry)],
           \A q \in Process : Ordered(cache'[q]),
           \A q \in Process : \A i \in DOMAIN cache'[q] : \A a \in Entry :
              a = cache'[q][i] =>
                /\ a.prev <= made'
                /\ \A k \in DOMAIN file' : file'[k].id = a.id => file'[k] = a
                /\ a.id = writing'[q].id => a = writing'[q]
                /\ ~IsTorn(file') => a.id \in Ids(file') \cup raised' \cup {writing'[q].id}
    PROVE  Lists'
<1>1. ASSUME NEW q \in Process, NEW i \in DOMAIN cache'[q]
      PROVE  Listed(q, cache[q][i])'
  <2> DEFINE a == cache'[q][i]
  <2>1. a \in Entry
    OBVIOUS
  <2> HIDE DEF a
  <2>2. /\ a.prev <= made'
        /\ \A k \in DOMAIN file' : file'[k].id = a.id => file'[k] = a
        /\ a.id = writing'[q].id => a = writing'[q]
        /\ ~IsTorn(file') => a.id \in Ids(file') \cup raised' \cup {writing'[q].id}
    BY <2>1 DEF a
  <2> QED
    BY <2>2 DEF a, Listed
<1>2. ASSUME NEW q \in Process PROVE Ordered(cache[q])'
  <2>1. Ordered(cache'[q])
    OBVIOUS
  <2> QED
    BY <2>1 DEF Ordered
<1> QED
  BY <1>1, <1>2 DEF Lists

(* An entry chained to the last of a list joins it. *)
LEMMA ChainLists ==
    ASSUME IInv, Lists, NEW p \in Process, Chain(p) PROVE Lists'
<1> DEFINE old == Known(p)
           e == [id |-> made + 1, prev |-> LastId(old)]
           new == Append(old, e)
<1>1. /\ cache \in [Process -> Seq(Entry)] /\ made \in Nat
      /\ writing \in [Process -> Entry \cup {NoEntry}]
      /\ made < MaxEntries /\ MaxEntries \in Nat
  BY Types, LedgerAssumption DEF Chain
<1>2. /\ writing[p] = NoEntry
      /\ made' = made + 1
      /\ cache' = [cache EXCEPT ![p] = new]
      /\ writing' = [writing EXCEPT ![p] = e]
      /\ file' = file /\ raised' = raised
  BY DEF Chain, Unlocked
<1>3. /\ old \in Seq(Entry) /\ Ordered(old)
      /\ LastId(old) \in Number \cup {Genesis}
      /\ LastId(old) = Genesis \/ \E i \in DOMAIN old : old[i].id = LastId(old)
      /\ \A i \in DOMAIN old :
            /\ old[i].id <= made /\ old[i].prev <= made
            /\ \A j \in DOMAIN file : file[j].id = old[i].id => file[j] = old[i]
            /\ ~IsTorn(file) => old[i].id \in Ids(file) \cup raised \cup {0}
  <2>1. CASE p \in loaded
    <3>1. old = cache[p] /\ cache[p] \in Seq(Entry)
      BY <1>1, <2>1 DEF Known
    <3>2. ~IsTorn(cache[p]) /\ cache[p] \in Seq(Line)
      BY <3>1, LineIs DEF IsTorn, Line
    <3>3. \A i \in DOMAIN cache[p] : cache[p][i].id <= made
      BY DEF IInv, Numbered
    <3> QED
      BY <1>2, <3>1, <3>2, <3>3, LastIs, LineIs DEF Lists, Listed
  <2>2. CASE p \notin loaded
    <3>1. old = file /\ ~IsTorn(file)
      BY <2>2 DEF Known, Chain, Readable
    <3> QED
      BY <3>1, FileListed, LastIs, Types
  <2> QED
    BY <2>1, <2>2
<1>4. /\ e \in Entry /\ e.id = made + 1 /\ e.prev = LastId(old)
      /\ e.prev \in Nat /\ e.prev <= made
  <2>1. e \in Entry /\ e.id = made + 1 /\ e.prev = LastId(old)
    BY <1>1, <1>3 DEF Entry, Number
  <2>2. e.prev <= made
    BY <1>1, <1>3 DEF Genesis
  <2> QED
    BY <2>1, <2>2, LineIs
<1> HIDE DEF old, e
<1>5. /\ new \in Seq(Entry)
      /\ DOMAIN new = DOMAIN old \cup {Len(old) + 1}
      /\ Len(old) + 1 \notin DOMAIN old
      /\ \A i \in DOMAIN old : i < Len(old) + 1
      /\ \A i \in DOMAIN old : new[i] = old[i] /\ old[i].id \in Nat
      /\ new[Len(old) + 1] = e
  <2>1. \A i \in DOMAIN old : old[i].id \in Nat
    BY <1>3, LineIs
  <2> QED
    BY <1>3, <1>4, <2>1, AppendIs
<1> HIDE DEF new
<1>6. /\ cache'[p] = new /\ writing'[p] = e
      /\ \A q \in Process : q # p => cache'[q] = cache[q] /\ writing'[q] = writing[q]
  BY <1>1, <1>2
<1>7. Ordered(new)
  <2> SUFFICES ASSUME NEW i \in DOMAIN new, NEW j \in DOMAIN new
               PROVE  /\ new[i].id = new[j].id => i = j
                      /\ new[j].id = new[i].prev => j < i
    BY DEF Ordered
  <2>1. CASE i \in DOMAIN old /\ j \in DOMAIN old
    BY <1>3, <1>5, <2>1 DEF Ordered
  <2>2. CASE i = Len(old) + 1 /\ j \in DOMAIN old
    <3>1. /\ new[i].id = made + 1 /\ new[j].id \in Nat /\ new[j].id <= made
          /\ j < i
      BY <1>3, <1>4, <1>5, <2>2
    <3> QED
      BY <1>1, <3>1
  <2>3. CASE i \in DOMAIN old /\ j = Len(old) + 1
    <3>1. /\ new[j].id = made + 1 /\ new[i].id <= made /\ new[i].prev <= made
          /\ new[i].id \in Nat /\ new[i].prev \in Nat
      BY <1>3, <1>4, <1>5, <2>3, LineIs
    <3> QED
      BY <1>1, <3>1
  <2>4. CASE i = Len(old) + 1 /\ j = Len(old) + 1
    BY <1>1, <1>4, <1>5, <2>4
  <2> QED
    BY <1>5, <2>1, <2>2, <2>3, <2>4
<1>8. \A i \in DOMAIN file : file[i].id # made + 1
  BY <1>1 DEF IInv, Numbered
<1>9. ASSUME NEW q \in Process, NEW a \in Entry, NEW i \in DOMAIN cache'[q],
             a = cache'[q][i]
      PROVE  /\ a.prev <= made + 1
             /\ \A k \in DOMAIN file : file[k].id = a.id => file[k] = a
             /\ a.id = writing'[q].id => a = writing'[q]
             /\ ~IsTorn(file) => a.id \in Ids(file) \cup raised \cup {writing'[q].id}
  <2>1. a.prev \in Nat /\ a.id \in Nat /\ a.id > 0
    BY LineIs
  <2>2. CASE q = p /\ i \in DOMAIN old
    BY <1>1, <1>3, <1>4, <1>5, <1>6, <1>9, <2>1, <2>2
  <2>3. CASE q = p /\ i = Len(old) + 1
    BY <1>1, <1>4, <1>5, <1>6, <1>8, <1>9, <2>3
  <2>4. CASE q # p
    BY <1>1, <1>6, <1>9, <2>1, <2>4 DEF Lists, Listed
  <2> QED
    BY <1>5, <1>6, <1>9, <2>2, <2>3, <2>4
<1>10. cache' \in [Process -> Seq(Entry)]
  BY <1>1, <1>2, <1>5
<1>11. \A q \in Process : Ordered(cache'[q])
  BY <1>6, <1>7 DEF Lists
<1> QED
  BY <1>2, <1>9, <1>10, <1>11, ListsNext

(* A write takes an entry from its process to the file. *)
LEMMA WriteLists ==
    ASSUME IInv, Lists, NEW p \in Process, Write(p) PROVE Lists'
<1> DEFINE w == writing[p]
<1>1. /\ cache \in [Process -> Seq(Entry)] /\ file \in Seq(Line)
      /\ writing \in [Process -> Entry \cup {NoEntry}]
  BY Types
<1>2. /\ Held(p)
      /\ file' = Extended(file, w)
      /\ writing' = [writing EXCEPT ![p] = NoEntry]
      /\ UNCHANGED <<cache, made, raised>>
  BY DEF Write, Unlocked, Held
<1>3. /\ w \in Entry /\ w \in Line
      /\ \A q \in Process : \A i \in DOMAIN cache[q] :
            cache[q][i].id = w.id => q = p
  BY <1>2 DEF IInv, Pending, Line
<1> HIDE DEF w
<1>4. \/ file' = file /\ IsTorn(file)
      \/ /\ DOMAIN file' = DOMAIN file \cup {Len(file) + 1}
         /\ \A i \in DOMAIN file : file'[i] = file[i]
         /\ file'[Len(file) + 1] = w
         /\ IsTorn(file) => IsTorn(file')
         /\ Ids(file) \subseteq Ids(file') /\ w.id \in Ids(file')
  <2>1. CASE file' = Append(file, w)
    <3>1. /\ DOMAIN file' = DOMAIN file \cup {Len(file) + 1}
          /\ \A i \in DOMAIN file : file'[i] = file[i]
          /\ file'[Len(file) + 1] = w
      BY <1>1, <1>3, <2>1, AppendIs
    <3> QED
      BY <3>1 DEF Ids, IsTorn
  <2> QED
    BY <1>1, <1>2, <1>3, <2>1, ExtendedIs
<1>5. ASSUME NEW q \in Process, NEW i \in DOMAIN cache'[q], NEW a \in Entry,
             a = cache'[q][i]
      PROVE  /\ a.prev <= made'
             /\ \A k \in DOMAIN file' : file'[k].id = a.id => file'[k] = a
             /\ a.id = writing'[q].id => a = writing'[q]
             /\ ~IsTorn(file') => a.id \in Ids(file') \cup raised' \cup {writing'[q].id}
  <2>1. /\ a.prev <= made
        /\ \A k \in DOMAIN file : file[k].id = a.id => file[k] = a
        /\ a.id = writing[q].id => a = writing[q]
        /\ ~IsTorn(file) => a.id \in Ids(file) \cup raised \cup {writing[q].id}
    BY <1>2, <1>5 DEF Lists, Listed
  <2>2. w.id = a.id => w = a
    BY <1>2, <1>3, <1>5, <2>1 DEF w
  <2>3. \A k \in DOMAIN file' : file'[k].id = a.id => file'[k] = a
    BY <1>4, <2>1, <2>2
  <2>4. q = p => writing'[q].id # a.id
    BY <1>1, <1>2, LineIs
  <2>5. q # p => writing'[q] = writing[q]
    BY <1>1, <1>2
  <2>6. ~IsTorn(file') => a.id \in Ids(file') \cup raised' \cup {writing'[q].id}
    BY <1>2, <1>4, <2>1, <2>5 DEF w
  <2> QED
    BY <1>2, <2>1, <2>3, <2>4, <2>5, <2>6
<1>6. \A q \in Process : Ordered(cache'[q])
  BY <1>2 DEF Lists
<1> QED
  BY <1>1, <1>2, <1>5, <1>6, ListsNext

(* An entry whose write failed stays in its list, but not after a crash. *)
LEMMA FailLists ==
    ASSUME IInv, Lists, NEW p \in Process, WriteFails(p) \/ Crash(p) PROVE Lists'
<1>1. /\ cache \in [Process -> Seq(Entry)] /\ file \in Seq(Line)
      /\ writing \in [Process -> Entry \cup {NoEntry}]
  BY Types
<1>2. /\ file' = file \/ file' = Extended(file, Torn)
      /\ writing' = [writing EXCEPT ![p] = NoEntry]
      /\ made' = made
      /\ \/ raised' = raised \cup {writing[p].id} /\ cache' = cache
         \/ raised' = raised /\ cache' = [cache EXCEPT ![p] = <<>>]
  BY DEF WriteFails, Crash
<1>3. /\ file' = file \/ IsTorn(file')
      /\ \A i \in DOMAIN file' :
            file'[i] = Torn \/ (i \in DOMAIN file /\ file'[i] = file[i])
  BY <1>1, <1>2, TornIs
<1>4. /\ \A q \in Process : q # p => writing'[q] = writing[q] /\ cache'[q] = cache[q]
      /\ writing'[p] = NoEntry
      /\ \/ cache'[p] = cache[p] /\ writing[p].id \in raised'
         \/ cache'[p] = <<>>
      /\ raised \subseteq raised'
  BY <1>1, <1>2
<1>5. ASSUME NEW q \in Process, NEW i \in DOMAIN cache'[q], NEW a \in Entry,
             a = cache'[q][i]
      PROVE  /\ a.prev <= made'
             /\ \A k \in DOMAIN file' : file'[k].id = a.id => file'[k] = a
             /\ a.id = writing'[q].id => a = writing'[q]
             /\ ~IsTorn(file') => a.id \in Ids(file') \cup raised' \cup {writing'[q].id}
  <2>1. cache'[q] = cache[q]
    BY <1>4, <1>5
  <2>2. /\ a.prev <= made
        /\ \A k \in DOMAIN file : file[k].id = a.id => file[k] = a
        /\ a.id = writing[q].id => a = writing[q]
        /\ ~IsTorn(file) => a.id \in Ids(file) \cup raised \cup {writing[q].id}
    BY <1>5, <2>1 DEF Lists, Listed
  <2>3. a.id > 0 /\ a.id \in Nat
    BY LineIs
  <2>4. \A k \in DOMAIN file' : file'[k].id = a.id => file'[k] = a
    BY <1>3, <2>2, <2>3, LineIs
  <2>5. a.id = writing'[q].id => a = writing'[q]
    BY <1>4, <2>2, <2>3, LineIs
  <2>6. ~IsTorn(file') => a.id \in Ids(file') \cup raised' \cup {writing'[q].id}
    BY <1>3, <1>4, <1>5, <2>2
  <2> QED
    BY <1>2, <2>2, <2>4, <2>5, <2>6
<1>6. \A q \in Process : Ordered(cache'[q])
  BY <1>4 DEF Lists, Ordered
<1>7. cache' \in [Process -> Seq(Entry)]
  <2>1. <<>> \in Seq(Entry)
    OBVIOUS
  <2> QED
    BY <1>1, <1>2, <2>1
<1> QED
  BY <1>5, <1>6, <1>7, ListsNext

(* A list that is read is the file; one that is forgotten is empty. *)
LEMMA ReadLists ==
    ASSUME IInv, Lists, NEW p \in Process,
           \/ Load(p) \/ ClearCache(p)
           \/ \E n \in toForward[p] : Forward(p, n)
    PROVE  Lists'
<1>1. /\ cache \in [Process -> Seq(Entry)] /\ file \in Seq(Line)
      /\ writing \in [Process -> Entry \cup {NoEntry}]
  BY Types
<1>2. UNCHANGED <<file, writing, made, raised>>
  BY DEF Load, ClearCache, Forward
<1>3. \/ /\ writing[p] = NoEntry /\ ~IsTorn(file)
         /\ cache' = [cache EXCEPT ![p] = file]
      \/ cache' = [cache EXCEPT ![p] = <<>>]
      \/ cache' = cache
  BY DEF Load, ClearCache, Forward, Readable, Unlocked
<1>4. \A q \in Process :
         \/ cache'[q] = cache[q] \/ cache'[q] = <<>>
         \/ q = p /\ writing[p] = NoEntry /\ ~IsTorn(file) /\ cache'[q] = file
  BY <1>1, <1>3
<1>5. ASSUME NEW q \in Process, NEW i \in DOMAIN cache'[q], NEW a \in Entry,
             a = cache'[q][i]
      PROVE  /\ a.prev <= made'
             /\ \A k \in DOMAIN file' : file'[k].id = a.id => file'[k] = a
             /\ a.id = writing'[q].id => a = writing'[q]
             /\ ~IsTorn(file') => a.id \in Ids(file') \cup raised' \cup {writing'[q].id}
  <2>1. a.id > 0 /\ a.id \in Nat
    BY LineIs
  <2>2. CASE cache'[q] = cache[q]
    BY <1>2, <1>5, <2>2 DEF Lists, Listed
  <2>3. CASE q = p /\ writing[p] = NoEntry /\ ~IsTorn(file) /\ cache'[q] = file
    BY <1>2, <1>5, <2>1, <2>3, FileListed, LineIs
  <2> QED
    BY <1>4, <1>5, <2>2, <2>3
<1>6. \A q \in Process : Ordered(cache'[q])
  BY <1>4, FileListed DEF Lists, Ordered
<1>7. cache' \in [Process -> Seq(Entry)]
  <2>1. <<>> \in Seq(Entry) /\ (~IsTorn(file) => file \in Seq(Entry))
    BY FileListed
  <2> QED
    BY <1>1, <1>3, <2>1
<1> QED
  BY <1>5, <1>6, <1>7, ListsNext

(* The lists are as they should be, always. *)
LEMMA ListsInvariant == LedgerSpec => []Lists
<1>1. LedgerInit => Lists
  <2> SUFFICES ASSUME LedgerInit, NEW p \in Process
               PROVE  DOMAIN cache[p] = {}
    BY DEF Lists, Ordered
  <2> QED
    BY DEF LedgerInit
<1>2. IInv /\ Lists /\ [LedgerNext]_ledgerVars => Lists'
  <2> SUFFICES ASSUME IInv, Lists, [LedgerNext]_ledgerVars PROVE Lists'
    OBVIOUS
  <2>1. ASSUME NEW p \in Process, LedgerStep(p) PROVE Lists'
    BY <2>1, ChainLists, WriteLists, FailLists, ReadLists DEF LedgerStep
  <2>2. ASSUME NEW p \in Process, Crash(p) PROVE Lists'
    BY <2>2, FailLists
  <2>3. ASSUME NEW p \in Process, \E n \in toForward[p] : Forward(p, n)
        PROVE  Lists'
    BY <2>3, ReadLists
  <2>4. CASE UNCHANGED ledgerVars
    BY <2>4 DEF ledgerVars, Lists, Listed, Ordered, Ids, IsTorn
  <2> QED
    BY <2>1, <2>2, <2>3, <2>4 DEF LedgerNext
<1> QED
  BY <1>1, <1>2, InductiveInvariant, PTL DEF LedgerSpec

(* What verify_chain() accepts has no two successors of one entry, not     *)
(* even when its first entry is a successor of one that was lost.          *)
LEMMA AcceptedIsUnforked ==
    ASSUME NEW s \in Seq(Entry), Ordered(s), Broken(s) = {}
    PROVE  /\ \A i, j \in DOMAIN s : s[i].prev = s[j].prev => i = j
           /\ \A i \in DOMAIN s : i > 1 => s[i].prev \in Ids(s)
<1>1. DOMAIN s = 1 .. Len(s) /\ Len(s) \in Nat
  OBVIOUS
<1>2. ASSUME NEW k \in DOMAIN s, k > 1
      PROVE  k - 1 \in DOMAIN s /\ s[k].prev = s[k - 1].id
  BY <1>1, <1>2 DEF Broken
<1>3. ASSUME NEW k \in DOMAIN s, NEW l \in DOMAIN s, l > 1, s[k].prev = s[l].prev
      PROVE  k >= l
  <2>1. l - 1 \in DOMAIN s /\ s[l - 1].id = s[k].prev
    BY <1>2, <1>3
  <2>2. l - 1 < k
    BY <2>1 DEF Ordered
  <2> QED
    BY <1>1, <2>2
<1>4. \A i, j \in DOMAIN s : s[i].prev = s[j].prev => i = j
  BY <1>1, <1>3
<1>5. \A i \in DOMAIN s : i > 1 => s[i].prev \in Ids(s)
  BY <1>2 DEF Ids
<1> QED
  BY <1>4, <1>5

(* A list that verify_chain() accepts and that has the same entries as the *)
(* file shows that the file is neither forked nor lacks an entry; so only  *)
(* a list that differs from the file hides a fork (manifest_ledger.py:     *)
(* 351-369, 502-565).                                                      *)
THEOREM ForksAreFound == LedgerSpec => []OnlyListsHideForks
<1>1. IInv /\ Lists => OnlyListsHideForks
  <2> SUFFICES ASSUME IInv, Lists, NEW p \in Process, Verifies(p),
                      p \in loaded => /\ Ids(file) \subseteq Ids(cache[p])
                                      /\ Ids(cache[p]) \cap raised = {}
               PROVE  Unforked(file)
    BY DEF OnlyListsHideForks
  <2>1. CASE p \notin loaded
    <3>1. ~IsTorn(file) /\ Broken(file) = {}
      BY <2>1 DEF Verifies, Readable, Known
    <3> QED
      BY <3>1, FileListed, AcceptedIsUnforked DEF Unforked
  <2>2. CASE p \in loaded
    <3> DEFINE c == cache[p]
    <3>1. /\ c \in Seq(Entry) /\ Ordered(c) /\ Broken(c) = {}
          /\ writing[p] = NoEntry
      BY <2>2, Types DEF Verifies, Known, Unlocked, Lists
    <3>2. \A i \in DOMAIN c : /\ c[i].id \in Nat /\ c[i].id > 0
                              /\ Listed(p, c[i])
      BY <3>1, LineIs DEF Lists
    <3> HIDE DEF c
    <3>3. Ids(file) \subseteq Ids(c)
      BY <2>2 DEF c
    <3>4. ~IsTorn(file)
      BY <3>2, <3>3, LineIs DEF IsTorn, Ids
    <3>5. \A i \in DOMAIN c : c[i].id \in Ids(file)
      <4> SUFFICES ASSUME NEW i \in DOMAIN c PROVE c[i].id \in Ids(file)
        OBVIOUS
      <4>1. c[i].id \in Ids(file) \cup raised \cup {0} /\ c[i].id # 0
        BY <3>1, <3>2, <3>4, LineIs DEF Listed
      <4>2. c[i].id \in Ids(c) /\ Ids(c) \cap raised = {}
        BY <2>2 DEF Ids, c
      <4> QED
        BY <4>1, <4>2
    <3>6. \A i \in DOMAIN file : \E a \in DOMAIN c : file[i] = c[a]
      <4> SUFFICES ASSUME NEW i \in DOMAIN file
                   PROVE  \E a \in DOMAIN c : file[i] = c[a]
        OBVIOUS
      <4>1. PICK a \in DOMAIN c : c[a].id = file[i].id
        BY <3>3 DEF Ids
      <4> QED
        BY <3>2, <4>1 DEF Listed
    <3>7. /\ \A i, j \in DOMAIN c : c[i].prev = c[j].prev => i = j
          /\ \A i \in DOMAIN c : i > 1 => c[i].prev \in Ids(c)
      BY <3>1, AcceptedIsUnforked
    <3>8. Ordered(file) /\ DOMAIN file = 1 .. Len(file) /\ Len(file) \in Nat
      BY <3>4, FileListed, Types
    <3>9. ASSUME NEW i \in DOMAIN file, NEW j \in DOMAIN file,
                 file[i].prev = file[j].prev
          PROVE  i = j
      <4>1. PICK a \in DOMAIN c : file[i] = c[a]
        BY <3>6
      <4>2. PICK b \in DOMAIN c : file[j] = c[b]
        BY <3>6
      <4>3. file[i].id = file[j].id
        BY <3>7, <3>9, <4>1, <4>2
      <4> QED
        BY <3>8, <4>3 DEF Ordered
    <3>10. ASSUME NEW i \in DOMAIN file, i > 1
           PROVE  file[i].prev \in Ids(file)
      <4>1. PICK a \in DOMAIN c : file[i] = c[a]
        BY <3>6
      <4>2. CASE a > 1
        <5>1. PICK k \in DOMAIN c : c[k].id = c[a].prev
          BY <3>7, <4>2 DEF Ids
        <5> QED
          BY <3>5, <4>1, <5>1
      <4>3. CASE ~(a > 1)
        <5>1. PICK b \in DOMAIN c : file[1] = c[b]
          BY <3>6, <3>8
        <5>2. a # b
          BY <3>8, <3>10, <4>1, <5>1 DEF Ordered
        <5>3. b > 1
          BY <3>1, <4>3, <5>2
        <5>4. PICK k \in DOMAIN c : c[k].id = c[b].prev
          BY <3>7, <5>3 DEF Ids
        <5>5. PICK m \in DOMAIN file : file[m].id = file[1].prev
          BY <3>5, <5>1, <5>4 DEF Ids
        <5>6. m < 1
          BY <3>8, <5>5 DEF Ordered
        <5> QED
          BY <3>8, <5>6
      <4> QED
        BY <4>2, <4>3
    <3> QED
      BY <3>9, <3>10 DEF Unforked
  <2> QED
    BY <2>1, <2>2
<1> QED
  BY <1>1, InductiveInvariant, ListsInvariant, PTL

(* An entry whose record() returned is in the file as long as no line of   *)
(* it broke off (manifest_ledger.py:292-296).                              *)
THEOREM ReturnedStays == LedgerSpec => []ReturnedIsDurable
<1>1. IInv => ReturnedIsDurable
  BY DEF IInv
<1> QED
  BY <1>1, InductiveInvariant, PTL

-----------------------------------------------------------------------------
(* The sink. *)
Ended == {"joining", "flushing", "delivering", "hung", "done"}

(* Nothing is emitted after the flag was set but by those who tested it    *)
(* before.                                                                 *)
OnlyRacers == stopped => emitting \subseteq racing

(* There is one sentinel, put by close() and taken once; what is behind it *)
(* was put by racers.                                                      *)
SentinelOnce ==
    /\ closer = "no" <=> ~stopped
    /\ closer \notin Ended => Stop \notin {sink[i] : i \in DOMAIN sink}
                              /\ worker # "gone"
    /\ worker = "gone" \/ closer = "done" =>
          Stop \notin {sink[i] : i \in DOMAIN sink}
    /\ \A i, k \in DOMAIN sink : sink[i] = Stop /\ sink[k] = Stop => i = k

RacersBehind ==
    closer \in Ended =>
        \A i \in DOMAIN sink :
            \/ sink[i] \in racing \cup {Stop}
            \/ \E k \in DOMAIN sink : sink[k] = Stop /\ i < k

HandsFull ==
    /\ (worker \in {"busy", "hung"}) <=> (hand # Stop)
    /\ (closer \in {"delivering", "hung"}) <=> (closerHand # Stop)

SinkInv ==
    SinkTypeOK /\ HandsFull /\ OnlyRacers /\ SentinelOnce /\ RacersBehind

-----------------------------------------------------------------------------
(* Every step of the pipeline is a step of the ledger or leaves it alone.  *)
(* The ledger does not depend on its sinks (manifest_ledger.py:297-313:    *)
(* forwarding never blocks or undoes a write).                             *)
THEOREM PipelineIsLedger == Spec => LedgerSpec
<1>1. Init => LedgerInit
  BY DEF Init
<1>2. [Next]_pipelineVars => [LedgerNext]_ledgerVars
  <2> SUFFICES ASSUME [Next]_pipelineVars PROVE [LedgerNext]_ledgerVars
    OBVIOUS
  <2>1. ASSUME NEW p \in Process, LedgerStep(p) PROVE LedgerNext
    BY <2>1 DEF LedgerNext
  <2>2. ASSUME NEW n \in toForward[Home], HandOver(n) PROVE LedgerNext
    BY <2>2, PipelineAssumption DEF HandOver, LedgerNext
  <2>3. CASE HomeDies
    BY <2>3, PipelineAssumption DEF HomeDies, LedgerNext
  <2>4. ASSUME NEW p \in Process, OtherDies(p) PROVE LedgerNext
    BY <2>4 DEF OtherDies, LedgerNext
  <2>5. CASE UNCHANGED ledgerVars
    BY <2>5
  <2> QED
    BY <2>1, <2>2, <2>3, <2>4, <2>5 DEF Next, pipelineVars
<1> QED
  BY <1>1, <1>2, PTL DEF Spec, LedgerSpec

-----------------------------------------------------------------------------
NewSink ==
    /\ sink = <<>> /\ worker = "waiting" /\ hand = Stop /\ stopped = FALSE
    /\ emitting = {} /\ closer = "no" /\ closerHand = Stop
    /\ racing = {}
    /\ delivered \in Seq(Record)
    /\ dropped \subseteq Record /\ refused \subseteq Record
    /\ late \subseteq Record

(* A new sink, at the start or when Home starts again. *)
LEMMA NewSinkInv == NewSink => SinkInv
<1> SUFFICES ASSUME NewSink PROVE SinkInv
  OBVIOUS
<1>1. SinkTypeOK
  <2>1. Len(sink) <= SinkBound /\ sink \in Seq(Record \cup {Stop})
    BY SinkAssumption DEF NewSink
  <2>2. stopped \in BOOLEAN
    BY DEF NewSink
  <2>3. /\ emitting \subseteq Record
        /\ {dropped, refused, late, racing} \subseteq SUBSET Record
    BY DEF NewSink
  <2> QED
    BY <2>1, <2>2, <2>3 DEF NewSink, SinkTypeOK
<1>2. HandsFull /\ OnlyRacers /\ SentinelOnce /\ RacersBehind
  BY DEF NewSink, HandsFull, OnlyRacers, SentinelOnce, RacersBehind, Ended
<1> QED
  BY <1>1, <1>2 DEF SinkInv

(* What Tail and Append do to the queue. *)
LEMMA TailIs ==
    ASSUME NEW S, NEW f \in Seq(S), f # <<>>
    PROVE  /\ Tail(f) \in Seq(S)
           /\ Len(Tail(f)) = Len(f) - 1
           /\ Head(f) = f[1] /\ Head(f) \in S /\ 1 \in DOMAIN f
           /\ \A i \in DOMAIN Tail(f) : i + 1 \in DOMAIN f /\ Tail(f)[i] = f[i + 1]
           /\ \A i \in DOMAIN f : i = 1 \/ (i - 1 \in DOMAIN Tail(f))
OBVIOUS

(* emit() tests the flag. *)
LEMMA EmitTestStep ==
    ASSUME SinkInv, NEW n \in Record, EmitTest(n) PROVE SinkInv'
<1>1. UNCHANGED <<sink, worker, hand, stopped, closer, closerHand, delivered,
                  dropped, refused, racing>>
  BY DEF EmitTest
<1>2. \/ stopped /\ late' = late \cup {n} /\ emitting' = emitting
      \/ ~stopped /\ late' = late /\ emitting' = emitting \cup {n}
  BY DEF EmitTest
<1>3. SinkTypeOK'
  BY <1>1, <1>2 DEF SinkInv, SinkTypeOK
<1>4. OnlyRacers'
  BY <1>1, <1>2 DEF SinkInv, OnlyRacers
<1>5. HandsFull' /\ SentinelOnce' /\ RacersBehind'
  BY <1>1 DEF SinkInv, HandsFull, SentinelOnce, RacersBehind
<1> QED
  BY <1>3, <1>4, <1>5 DEF SinkInv

(* Adding something to the queue that is allowed to be there. *)
LEMMA AppendStep ==
    ASSUME SinkInv, NEW x \in Record \cup {Stop}, sink' = Append(sink, x),
           SinkTypeOK', HandsFull', UNCHANGED <<worker, stopped, racing>>,
           emitting' \subseteq emitting,
           \/ /\ x # Stop /\ closer' = closer
              /\ stopped => x \in racing
           \/ x = Stop /\ closer \notin Ended /\ stopped /\ closer' = "joining"
    PROVE  SinkInv'
<1>1. /\ sink \in Seq(Record \cup {Stop})
      /\ closer = "no" <=> ~stopped
  BY DEF SinkInv, SinkTypeOK, SentinelOnce
<1>2. /\ Len(sink) \in Nat
      /\ DOMAIN sink' = DOMAIN sink \cup {Len(sink) + 1}
      /\ Len(sink) + 1 \notin DOMAIN sink
      /\ \A i \in DOMAIN sink : i < Len(sink) + 1
      /\ \A i \in DOMAIN sink : sink'[i] = sink[i]
      /\ sink'[Len(sink) + 1] = x
  <2>1. Len(sink) \in Nat
    BY <1>1
  <2> QED
    BY <1>1, <2>1, AppendIs
<1>3. OnlyRacers'
  BY DEF SinkInv, OnlyRacers
<1>4. CASE x # Stop /\ closer' = closer /\ (stopped => x \in racing)
  <2>1. SentinelOnce'
    BY <1>2, <1>4 DEF SinkInv, SentinelOnce
  <2>2. RacersBehind'
    <3> SUFFICES ASSUME closer \in Ended, NEW i \in DOMAIN sink'
                 PROVE  \/ sink'[i] \in racing \cup {Stop}
                        \/ \E k \in DOMAIN sink' : sink'[k] = Stop /\ i < k
      BY <1>4 DEF RacersBehind
    <3>1. stopped
      BY <1>1 DEF Ended
    <3>2. CASE i \in DOMAIN sink
      BY <1>2, <3>2 DEF SinkInv, RacersBehind
    <3>3. CASE i = Len(sink) + 1
      BY <1>2, <1>4, <3>1, <3>3
    <3> QED
      BY <1>2, <3>2, <3>3
  <2> QED
    BY <1>3, <2>1, <2>2 DEF SinkInv
<1>5. CASE x = Stop /\ closer \notin Ended /\ stopped /\ closer' = "joining"
  <2>1. Stop \notin {sink[i] : i \in DOMAIN sink} /\ worker # "gone"
    BY <1>5 DEF SinkInv, SentinelOnce
  <2>2. SentinelOnce'
    BY <1>2, <1>5, <2>1 DEF SentinelOnce, Ended
  <2>3. RacersBehind'
    BY <1>2, <1>5 DEF RacersBehind
  <2> QED
    BY <1>3, <2>2, <2>3 DEF SinkInv
<1> QED
  BY <1>4, <1>5

(* Taking the first of the queue. *)
LEMMA TakeStep ==
    ASSUME SinkInv, sink # <<>>, sink' = Tail(sink),
           SinkTypeOK', HandsFull', UNCHANGED <<stopped, racing, emitting>>,
           (closer' = "no") <=> (closer = "no"),
           closer' \in Ended <=> closer \in Ended, closer' # "done" \/ closer = "done",
           worker' = "gone" => worker = "gone" \/ sink[1] = Stop
    PROVE  SinkInv'
<1>1. sink \in Seq(Record \cup {Stop})
  BY DEF SinkInv, SinkTypeOK
<1>2. /\ 1 \in DOMAIN sink
      /\ \A i \in DOMAIN sink' : i \in Int /\ i >= 1 /\ i + 1 \in DOMAIN sink
                                 /\ sink'[i] = sink[i + 1]
      /\ \A i \in DOMAIN sink : i = 1 \/ (i - 1 \in DOMAIN sink')
      /\ \A i \in DOMAIN sink : i \in Int
  BY <1>1, TailIs
<1>3. OnlyRacers'
  BY DEF SinkInv, OnlyRacers
<1>4. \A i, k \in DOMAIN sink : sink[i] = Stop /\ sink[k] = Stop => i = k
  BY DEF SinkInv, SentinelOnce
<1>5. SentinelOnce'
  <2>1. Stop \notin {sink[i] : i \in DOMAIN sink} \/ sink[1] = Stop
            => Stop \notin {sink'[i] : i \in DOMAIN sink'}
    BY <1>2, <1>4
  <2>2. \A i, k \in DOMAIN sink' : sink'[i] = Stop /\ sink'[k] = Stop => i = k
    BY <1>2, <1>4
  <2>3. worker' = "gone" \/ closer' = "done" =>
            Stop \notin {sink'[i] : i \in DOMAIN sink'}
    BY <2>1 DEF SinkInv, SentinelOnce
  <2>4. closer' \notin Ended =>
            Stop \notin {sink'[i] : i \in DOMAIN sink'} /\ worker' # "gone"
    BY <1>2, <2>1 DEF SinkInv, SentinelOnce
  <2> QED
    BY <2>2, <2>3, <2>4 DEF SinkInv, SentinelOnce
<1>6. RacersBehind'
  <2> SUFFICES ASSUME closer \in Ended, NEW i \in DOMAIN sink',
                      sink'[i] \notin racing \cup {Stop}
               PROVE  \E k \in DOMAIN sink' : sink'[k] = Stop /\ i < k
    BY DEF RacersBehind
  <2>1. PICK k \in DOMAIN sink : sink[k] = Stop /\ i + 1 < k
    BY <1>2 DEF SinkInv, RacersBehind
  <2>2. k - 1 \in DOMAIN sink' /\ sink'[k - 1] = Stop /\ i < k - 1
    <3>1. k # 1 /\ k - 1 \in DOMAIN sink'
      BY <1>2, <2>1
    <3> QED
      BY <1>2, <2>1, <3>1
  <2> QED
    BY <2>2
<1> QED
  BY <1>3, <1>5, <1>6 DEF SinkInv

(* Steps that leave the queue, the flag and the emitters alone. *)
LEMMA QuietStep ==
    ASSUME SinkInv, SinkTypeOK', HandsFull',
           UNCHANGED <<sink, stopped, racing, emitting>>,
           (closer' = "no") <=> (closer = "no"),
           (closer' \in Ended) <=> (closer \in Ended),
           closer' # "done" \/ closer = "done" \/ worker = "gone" \/ sink = <<>>,
           (worker' = "gone") <=> (worker = "gone")
    PROVE  SinkInv'
<1>1. OnlyRacers' /\ RacersBehind'
  BY DEF SinkInv, OnlyRacers, RacersBehind
<1>2. SentinelOnce'
  <2>1. worker' = "gone" \/ closer' = "done" =>
            Stop \notin {sink'[i] : i \in DOMAIN sink'}
    BY DEF SinkInv, SentinelOnce
  <2> QED
    BY <2>1 DEF SinkInv, SentinelOnce
<1> QED
  BY <1>1, <1>2 DEF SinkInv

(* The types of what a target did with an event. *)
LEMMA OfferIs ==
    ASSUME NEW n \in Record, delivered \in Seq(Record), refused \in SUBSET Record,
           Offer(n)
    PROVE  delivered' \in Seq(Record) /\ refused' \in SUBSET Record
<1>1. Append(delivered, n) \in Seq(Record) /\ refused \cup {n} \in SUBSET Record
  OBVIOUS
<1> QED
  BY <1>1 DEF Offer

(* The steps of the sink's threads. *)
LEMMA SinkSteps ==
    ASSUME SinkInv, SinkStep PROVE SinkInv'
<1>1. /\ sink \in Seq(Record \cup {Stop}) /\ Len(sink) \in Nat
      /\ Len(sink) <= SinkBound /\ SinkBound \in Nat
      /\ hand \in Record \cup {Stop} /\ closerHand \in Record \cup {Stop}
      /\ emitting \subseteq Record
      /\ delivered \in Seq(Record)
      /\ dropped \subseteq Record /\ refused \subseteq Record
      /\ late \subseteq Record /\ racing \subseteq Record
      /\ (closer = "no") <=> ~stopped
      /\ Stop \notin Record
      /\ HandsFull
  BY SinkAssumption DEF SinkInv, SinkTypeOK, SentinelOnce, Stop
<1>2. ASSUME NEW n \in emitting, EmitPut(n) PROVE SinkInv'
  <2>1. /\ emitting' \subseteq emitting /\ n \in Record
        /\ UNCHANGED <<worker, hand, stopped, closer, closerHand, delivered,
                       refused, late, racing>>
    BY <1>1, <1>2 DEF EmitPut
  <2>2. HandsFull'
    BY <1>1, <2>1 DEF HandsFull
  <2>3. CASE sink' = Append(sink, n) /\ Len(sink) < SinkBound /\ dropped' = dropped
    <3>1. Len(sink') <= SinkBound /\ sink' \in Seq(Record \cup {Stop})
      BY <1>1, <2>1, <2>3
    <3>2. SinkTypeOK'
      BY <1>1, <2>1, <2>3, <3>1 DEF SinkInv, SinkTypeOK
    <3>3. stopped => n \in racing
      BY DEF SinkInv, OnlyRacers
    <3>4. n # Stop
      BY <1>1, <2>1
    <3> QED
      BY <2>1, <2>2, <2>3, <3>2, <3>3, <3>4, AppendStep
  <2>4. CASE sink' = sink /\ dropped' = dropped \cup {n}
    <3>1. SinkTypeOK'
      BY <1>1, <2>1, <2>4 DEF SinkInv, SinkTypeOK
    <3>2. OnlyRacers' /\ RacersBehind' /\ SentinelOnce'
      BY <2>1, <2>4 DEF SinkInv, OnlyRacers, RacersBehind, SentinelOnce
    <3> QED
      BY <2>2, <3>1, <3>2 DEF SinkInv
  <2> QED
    BY <1>2, <2>3, <2>4 DEF EmitPut
<1>3. sink # <<>> => /\ Tail(sink) \in Seq(Record \cup {Stop})
                    /\ Len(Tail(sink)) <= SinkBound
                    /\ Head(sink) = sink[1] /\ Head(sink) \in Record \cup {Stop}
  <2> SUFFICES ASSUME sink # <<>>
               PROVE  /\ Tail(sink) \in Seq(Record \cup {Stop})
                      /\ Len(Tail(sink)) <= SinkBound
                      /\ Head(sink) = sink[1] /\ Head(sink) \in Record \cup {Stop}
    OBVIOUS
  <2>1. /\ Tail(sink) \in Seq(Record \cup {Stop})
        /\ Len(Tail(sink)) = Len(sink) - 1
        /\ Head(sink) = sink[1] /\ Head(sink) \in Record \cup {Stop}
    BY <1>1, TailIs
  <2> QED
    BY <1>1, <2>1
<1>4. CASE WorkerGets
  <2>1. HandsFull' /\ SinkTypeOK'
    BY <1>1, <1>3, <1>4 DEF WorkerGets, SinkInv, SinkTypeOK, HandsFull
  <2> QED
    BY <1>3, <1>4, <2>1, TakeStep DEF WorkerGets
<1>5. CASE WorkerDelivers
  <2>1. hand \in Record
    BY <1>1, <1>5 DEF WorkerDelivers, HandsFull
  <2>2. delivered' \in Seq(Record) /\ refused' \in SUBSET Record
    BY <1>1, <1>5, <2>1, OfferIs DEF WorkerDelivers
  <2>3. SinkTypeOK' /\ HandsFull'
    BY <1>1, <1>5, <2>2 DEF WorkerDelivers, SinkInv, SinkTypeOK, HandsFull
  <2> QED
    BY <1>5, <2>3, QuietStep DEF WorkerDelivers
<1>6. CASE WorkerHangs
  <2>1. SinkTypeOK' /\ HandsFull'
    BY <1>1, <1>6 DEF WorkerHangs, SinkInv, SinkTypeOK, HandsFull
  <2> QED
    BY <1>6, <2>1, QuietStep DEF WorkerHangs
<1>7. CASE CloseBegins
  <2>1. /\ closer = "no" /\ closer' = "draining" /\ racing' = emitting
        /\ stopped' = TRUE
        /\ UNCHANGED <<worker, hand, emitting, dropped, late, sink, closerHand,
                       delivered, refused>>
    BY <1>7 DEF CloseBegins, CloserGoes
  <2>2. SinkTypeOK'
    BY <1>1, <2>1 DEF SinkInv, SinkTypeOK
  <2>3. HandsFull' /\ OnlyRacers' /\ SentinelOnce' /\ RacersBehind'
    BY <1>1, <2>1
    DEF SinkInv, HandsFull, OnlyRacers, SentinelOnce, RacersBehind, Ended
  <2> QED
    BY <2>2, <2>3 DEF SinkInv
<1>8. CASE PutStop
  <2>1. /\ closer = "putting" /\ closer' = "joining" /\ Len(sink) < SinkBound
        /\ sink' = Append(sink, Stop)
        /\ UNCHANGED <<worker, hand, emitting, dropped, late, stopped,
                       closerHand, delivered, refused, racing>>
    BY <1>8 DEF PutStop, CloserGoes
  <2>2. Len(sink') <= SinkBound /\ sink' \in Seq(Record \cup {Stop})
    BY <1>1, <2>1
  <2>3. SinkTypeOK' /\ HandsFull'
    BY <1>1, <2>1, <2>2 DEF SinkInv, SinkTypeOK, HandsFull
  <2>4. stopped /\ closer \notin Ended
    BY <1>1, <2>1 DEF Ended
  <2> QED
    BY <2>1, <2>3, <2>4, AppendStep
<1>9. CASE FlushTakes
  <2>1. /\ closer = "flushing" /\ sink # <<>> /\ sink' = Tail(sink)
        /\ closerHand' = Head(sink)
        /\ closer' = IF Head(sink) = Stop THEN "flushing" ELSE "delivering"
        /\ UNCHANGED <<worker, hand, emitting, dropped, late, stopped,
                       delivered, refused, racing>>
    BY <1>9 DEF FlushTakes, CloserGoes
  <2>2. SinkTypeOK' /\ HandsFull'
    BY <1>1, <1>3, <2>1 DEF SinkInv, SinkTypeOK, HandsFull
  <2> QED
    BY <2>1, <2>2, TakeStep DEF Ended
<1>10. CASE FlushDelivers
  <2>1. /\ closer = "delivering" /\ closer' = "flushing" /\ closerHand' = Stop
        /\ Offer(closerHand)
        /\ UNCHANGED <<worker, hand, emitting, dropped, late, sink, stopped,
                       racing>>
    BY <1>10 DEF FlushDelivers, CloserGoes
  <2>2. closerHand \in Record
    BY <1>1, <2>1 DEF HandsFull
  <2>3. delivered' \in Seq(Record) /\ refused' \in SUBSET Record
    BY <1>1, <2>1, <2>2, OfferIs
  <2>4. SinkTypeOK' /\ HandsFull'
    BY <1>1, <2>1, <2>3 DEF SinkInv, SinkTypeOK, HandsFull
  <2> QED
    BY <2>1, <2>4, QuietStep DEF Ended
<1>11. CASE DrainEnds \/ Joined \/ JoinTimesOut \/ FlushEnds \/ FlushHangs
  <2>1. /\ UNCHANGED <<worker, hand, emitting, dropped, late, sink, stopped,
                       closerHand, delivered, refused, racing>>
        /\ \/ closer = "draining" /\ closer' = "putting"
           \/ closer = "joining" /\ closer' = "done" /\ worker = "gone"
           \/ closer = "joining" /\ closer' = "flushing"
           \/ closer = "flushing" /\ closer' = "done" /\ sink = <<>>
           \/ closer = "delivering" /\ closer' = "hung"
    BY <1>11 DEF DrainEnds, Joined, JoinTimesOut, FlushEnds, FlushHangs, CloserGoes
  <2>2. SinkTypeOK' /\ HandsFull'
    BY <1>1, <2>1 DEF SinkInv, SinkTypeOK, HandsFull
  <2> QED
    BY <2>1, <2>2, QuietStep DEF Ended
<1> QED
  BY <1>2, <1>4, <1>5, <1>6, <1>7, <1>8, <1>9, <1>10, <1>11
  DEF SinkStep, WorkerStep, CloseStep

-----------------------------------------------------------------------------
(* The pipeline. *)

(* An entry on its way to the sink is one the sink may take. *)
LEMMA ForwardedIsRecord ==
    ASSUME LedgerTypeOK, NEW n \in toForward[Home]
    PROVE  n \in Record
<1>1. /\ toForward[Home] \subseteq returned /\ returned \subseteq 1 .. made
      /\ made \in 0 .. MaxEntries /\ MaxEntries \in Nat
  BY PipelineAssumption, LedgerAssumption DEF LedgerTypeOK
<1>2. n \in 1 .. made
  BY <1>1
<1>3. n \in 1 .. MaxEntries
  BY <1>1, <1>2
<1> QED
  BY <1>3, PipelineAssumption DEF Number

(* The sink's invariant holds beside the ledger and across its process's   *)
(* deaths.                                                                 *)
LEMMA PipelineSinkInv == Spec => []SinkInv
<1>1. Init => SinkInv
  <2>1. <<>> \in Seq(Record) /\ {} \subseteq Record
    OBVIOUS
  <2> QED
    BY <2>1, NewSinkInv DEF NewSink, Init, SinkInit
<1>2. LedgerTypeOK /\ SinkInv /\ [Next]_pipelineVars => SinkInv'
  <2> SUFFICES ASSUME LedgerTypeOK, SinkInv, [Next]_pipelineVars PROVE SinkInv'
    OBVIOUS
  <2>1. CASE UNCHANGED sinkVars
    BY <2>1
    DEF sinkVars, SinkInv, SinkTypeOK, HandsFull, OnlyRacers, SentinelOnce,
        RacersBehind
  <2>2. ASSUME NEW n \in toForward[Home], HandOver(n) PROVE SinkInv'
    BY <2>2, ForwardedIsRecord, EmitTestStep DEF HandOver
  <2>3. CASE SinkStep
    BY <2>3, SinkSteps
  <2>4. CASE HomeDies
    <3>1. /\ delivered' \in Seq(Record) /\ dropped' \subseteq Record
          /\ refused' \subseteq Record /\ late' \subseteq Record
      BY <2>4 DEF HomeDies, SinkInv, SinkTypeOK
    <3>2. NewSink'
      BY <2>4, <3>1 DEF HomeDies, NewSink
    <3>3. (NewSink => SinkInv)'
      BY NewSinkInv, PTL
    <3> QED
      BY <3>2, <3>3
  <2> QED
    BY <2>1, <2>2, <2>3, <2>4 DEF Next, pipelineVars, OtherDies
<1>3. LedgerSpec => []LedgerTypeOK
  BY LedgerTypeCorrect
<1> QED
  BY <1>1, <1>2, <1>3, PipelineIsLedger, PTL DEF Spec

-----------------------------------------------------------------------------
(* The theorems. *)

(* Once close() has returned, the queue holds nothing but what was in      *)
(* emit() when the flag was set (ledger_backends.py:166-220).              *)
THEOREM CloseLeavesRacers == Spec => []OnlyRacersAreLeft
<1>1. SinkInv => OnlyRacersAreLeft
  <2> SUFFICES ASSUME SinkInv, closer = "done" PROVE Queued \subseteq racing
    BY DEF OnlyRacersAreLeft
  <2>1. Stop \notin {sink[i] : i \in DOMAIN sink}
    BY DEF SinkInv, SentinelOnce
  <2>2. \A i \in DOMAIN sink : sink[i] \in racing
    BY <2>1 DEF SinkInv, RacersBehind, Ended
  <2> QED
    BY <2>2 DEF Queued
<1> QED
  BY <1>1, PipelineSinkInv, PTL

(* What close() waits for: room for its sentinel, then a worker that is    *)
(* gone.                                                                   *)
CloseWaitsForWorker ==
    /\ closer = "putting" /\ Len(sink) = SinkBound => worker # "gone"
    /\ closer = "joining" /\ worker # "gone" => Stop \in {sink[i] : i \in DOMAIN sink}

(* close() cannot deadlock with the worker: whenever it waits, the worker  *)
(* is alive and has something to take, and before a join the sentinel that *)
(* ends it.  Only a target that hangs keeps the two from going on          *)
(* (ledger_backends.py:199-211).                                           *)
THEOREM CloseIsNotStuck == Spec => []CloseWaitsForWorker
<1> DEFINE Joins == closer = "joining" /\ worker # "gone"
                      => Stop \in {sink[i] : i \in DOMAIN sink}
<1>1. Init => Joins
  BY DEF Init, SinkInit
<1>2. SinkInv /\ Joins /\ [Next]_pipelineVars => Joins'
  <2> SUFFICES ASSUME SinkInv, Joins, [Next]_pipelineVars PROVE Joins'
    OBVIOUS
  <2>0. sink \in Seq(Record \cup {Stop})
    BY DEF SinkInv, SinkTypeOK
  <2>append. ASSUME NEW x \in Record \cup {Stop}, sink' = Append(sink, x)
             PROVE  /\ \A i \in DOMAIN sink : i \in DOMAIN sink' /\ sink'[i] = sink[i]
                    /\ \E i \in DOMAIN sink' : sink'[i] = x
    BY <2>0, <2>append, AppendIs
  <2>1. CASE UNCHANGED sinkVars
    BY <2>1 DEF sinkVars
  <2>2. ASSUME NEW n \in toForward[Home], HandOver(n) PROVE Joins'
    BY <2>2 DEF HandOver, EmitTest
  <2>3. ASSUME NEW n \in emitting, EmitPut(n) PROVE Joins'
    <3>1. n \in Record /\ UNCHANGED <<closer, worker>>
      BY <2>3 DEF EmitPut, SinkInv, SinkTypeOK
    <3>2. sink' = sink \/ sink' = Append(sink, n)
      BY <2>3 DEF EmitPut
    <3> QED
      BY <2>append, <3>1, <3>2
  <2>4. CASE WorkerGets
    <3>1. /\ sink # <<>> /\ sink' = Tail(sink) /\ closer' = closer
          /\ Head(sink) # Stop => worker' = "busy"
          /\ Head(sink) = Stop => worker' = "gone"
          /\ worker = "waiting"
      BY <2>4 DEF WorkerGets
    <3>2. /\ Head(sink) = sink[1]
          /\ \A i \in DOMAIN sink : i = 1 \/ i - 1 \in DOMAIN Tail(sink)
          /\ \A i \in DOMAIN Tail(sink) : Tail(sink)[i] = sink[i + 1]
      BY <2>0, <3>1, TailIs
    <3>3. DOMAIN sink = 1 .. Len(sink) /\ Len(sink) \in Nat
      BY <2>0
    <3>4. ASSUME closer = "joining", Head(sink) # Stop
          PROVE  Stop \in {Tail(sink)[i] : i \in DOMAIN Tail(sink)}
      <4>1. PICK i \in DOMAIN sink : sink[i] = Stop
        BY <3>1, <3>4
      <4>2. i # 1 /\ i - 1 \in DOMAIN Tail(sink) /\ (i - 1) + 1 = i
        BY <3>2, <3>3, <3>4, <4>1
      <4> QED
        BY <3>2, <4>1, <4>2
    <3> QED
      BY <3>1, <3>4
  <2>5. CASE WorkerDelivers \/ WorkerHangs
    BY <2>5 DEF WorkerDelivers, WorkerHangs
  <2>6. CASE PutStop
    BY <2>6, <2>append DEF PutStop, CloserGoes
  <2>7. CASE \/ CloseBegins \/ DrainEnds \/ Joined \/ JoinTimesOut \/ FlushTakes
             \/ FlushDelivers \/ FlushEnds \/ FlushHangs
    BY <2>7 DEF CloseBegins, DrainEnds, Joined, JoinTimesOut, FlushTakes,
                FlushDelivers, FlushEnds, FlushHangs, CloserGoes
  <2>8. CASE HomeDies
    BY <2>8 DEF HomeDies
  <2> QED
    BY <2>1, <2>2, <2>3, <2>4, <2>5, <2>6, <2>7, <2>8
    DEF Next, pipelineVars, OtherDies, SinkStep, WorkerStep, CloseStep
<1>3. SinkInv /\ Joins => CloseWaitsForWorker
  BY DEF SinkInv, SentinelOnce, Ended, CloseWaitsForWorker
<1> QED
  BY <1>1, <1>2, <1>3, PipelineSinkInv, PTL DEF Spec

(* Every variable of the pipeline keeps its type. *)
THEOREM PipelineTypeCorrect == Spec => []TypeOK
<1>1. Init => perished \subseteq Number
  BY DEF Init
<1>2. LedgerTypeOK /\ SinkInv /\ perished \subseteq Number
        /\ [Next]_pipelineVars => (perished \subseteq Number)'
  <2> SUFFICES ASSUME LedgerTypeOK, SinkInv, perished \subseteq Number,
                      [Next]_pipelineVars
               PROVE  perished' \subseteq Number
    OBVIOUS
  <2>1. \A p \in Process : toForward[p] \subseteq Number
    <3>1. /\ toForward \in [Process -> SUBSET returned]
          /\ returned \subseteq 1 .. made /\ made \in 0 .. MaxEntries
          /\ MaxEntries \in Nat
      BY LedgerAssumption DEF LedgerTypeOK
    <3>2. 1 .. made \subseteq Number
      BY <3>1 DEF Number
    <3> QED
      BY <3>1, <3>2
  <2>2. OnItsWay \subseteq Number
    BY PipelineAssumption DEF OnItsWay, Queued, SinkInv, SinkTypeOK
  <2>3. CASE HomeDies
    BY <2>1, <2>2, <2>3, PipelineAssumption DEF HomeDies
  <2>4. CASE \E p \in Process : OtherDies(p)
    BY <2>1, <2>4 DEF OtherDies
  <2>5. CASE UNCHANGED perished
    BY <2>5
  <2> QED
    BY <2>3, <2>4, <2>5 DEF Next, pipelineVars, HandOver
<1>3. LedgerTypeOK /\ SinkInv /\ perished \subseteq Number => TypeOK
  BY DEF TypeOK, SinkInv
<1> QED
  BY <1>1, <1>2, <1>3, PipelineIsLedger, LedgerTypeCorrect, PipelineSinkInv, PTL
  DEF Spec

(* What was proved of the ledger holds of the pipeline. *)
THEOREM PipelineLedgerSafe ==
    Spec => [](RestartsKeepChain /\ OnlyListsHideForks /\ ReturnedIsDurable)
BY PipelineIsLedger, RestartsKeepTheChain, ForksAreFound, ReturnedStays, PTL

-----------------------------------------------------------------------------
(* How often something occurs in a sequence. *)
Hits(n, s) == {i \in DOMAIN s : s[i] = n}

(* How often a manifest comes in a queue can be counted. *)
LEMMA TimesNatural ==
    ASSUME NEW S, NEW s \in Seq(S), NEW n
    PROVE  /\ IsFiniteSet(Hits(n, s))
           /\ Times(n, s) = Cardinality(Hits(n, s)) /\ Times(n, s) \in Nat
           /\ Times(n, s) = 0 <=> n \notin {s[i] : i \in DOMAIN s}
<1>1. IsFiniteSet(DOMAIN s)
  <2>1. DOMAIN s = 1 .. Len(s) /\ Len(s) \in Nat
    OBVIOUS
  <2> QED
    BY <2>1, FS_Interval
<1>2. Hits(n, s) \in SUBSET DOMAIN s
  BY DEF Hits
<1>3. IsFiniteSet(Hits(n, s))
  BY <1>1, <1>2, FS_Subset
<1>4. Cardinality(Hits(n, s)) = 0 <=> Hits(n, s) = {}
  BY <1>3, FS_EmptySet
<1> QED
  BY <1>3, <1>4, FS_CardinalityType DEF Hits, Times

(* Appending counts once. *)
LEMMA TimesAppend ==
    ASSUME NEW S, NEW s \in Seq(S), NEW x \in S, NEW n
    PROVE  Times(n, Append(s, x)) = Times(n, s) + In(n, {x})
<1> DEFINE t == Append(s, x)
           k == Len(s) + 1
<1>1. /\ t \in Seq(S) /\ DOMAIN t = DOMAIN s \cup {k} /\ k \notin DOMAIN s
      /\ \A i \in DOMAIN s : t[i] = s[i]
      /\ t[k] = x
  BY AppendIs
<1> HIDE DEF t, k
<1>2. /\ IsFiniteSet(Hits(n, s)) /\ Times(n, s) = Cardinality(Hits(n, s))
      /\ Times(n, s) \in Nat /\ Times(n, t) = Cardinality(Hits(n, t))
  BY <1>1, TimesNatural
<1>3. CASE x = n
  <2>1. Hits(n, t) = Hits(n, s) \cup {k} /\ k \notin Hits(n, s)
    BY <1>1, <1>3 DEF Hits
  <2>2. Cardinality(Hits(n, s) \cup {k}) = Cardinality(Hits(n, s)) + 1
    BY <1>2, <2>1, FS_AddElement
  <2> QED
    BY <1>2, <1>3, <2>1, <2>2 DEF In, t
<1>4. CASE x # n
  <2>1. Hits(n, t) = Hits(n, s)
    BY <1>1, <1>4 DEF Hits
  <2> QED
    BY <1>2, <1>4, <2>1 DEF In, t
<1> QED
  BY <1>3, <1>4

(* Taking the head uncounts it once. *)
LEMMA TimesTail ==
    ASSUME NEW S, NEW s \in Seq(S), s # <<>>, NEW n
    PROVE  Times(n, s) = Times(n, Tail(s)) + In(n, {Head(s)})
<1> DEFINE t == Tail(s)
           A == Hits(n, t)
           B == Hits(n, s) \ {1}
           f == [i \in A |-> i + 1]
<1>1. /\ t \in Seq(S) /\ Head(s) = s[1] /\ 1 \in DOMAIN s
      /\ \A i \in DOMAIN t : i + 1 \in DOMAIN s /\ t[i] = s[i + 1]
      /\ \A i \in DOMAIN s : i = 1 \/ (i - 1 \in DOMAIN t)
      /\ DOMAIN t \subseteq Nat \ {0} /\ DOMAIN s \subseteq Nat
  BY TailIs
<1> HIDE DEF t
<1>2. /\ IsFiniteSet(Hits(n, s)) /\ Times(n, s) = Cardinality(Hits(n, s))
      /\ Times(n, s) \in Nat /\ Times(n, t) \in Nat
      /\ IsFiniteSet(A) /\ Times(n, t) = Cardinality(A)
  BY <1>1, TimesNatural
<1>3. Cardinality(B) = Cardinality(A)
  <2>1. \A i \in A : i \in Nat /\ i + 1 \in B
    BY <1>1 DEF Hits
  <2>2. ASSUME NEW j \in B PROVE \E i \in A : f[i] = j
    <3>1. j - 1 \in DOMAIN t /\ j \in Nat
      BY <1>1 DEF Hits
    <3>2. j - 1 \in A
      BY <1>1, <3>1 DEF Hits
    <3>3. f[j - 1] = j
      BY <3>1, <3>2
    <3> QED
      BY <3>2, <3>3
  <2>3. f \in [A -> B] /\ \A i, k \in A : f[i] = f[k] => i = k
    BY <2>1
  <2> HIDE DEF A, B, f
  <2>4. f \in Bijection(A, B)
    BY <2>2, <2>3, Fun_IsBij
  <2>5. ExistsBijection(A, B)
    BY <2>4 DEF ExistsBijection
  <2> QED
    BY <1>2, <2>5, FS_Bijection
<1>4. CASE s[1] = n
  <2>1. 1 \in Hits(n, s)
    BY <1>1, <1>4 DEF Hits
  <2>2. Cardinality(B) = Cardinality(Hits(n, s)) - 1
    BY <1>2, <2>1, FS_RemoveElement
  <2> QED
    BY <1>1, <1>2, <1>3, <1>4, <2>2 DEF In, t
<1>5. CASE s[1] # n
  <2>1. B = Hits(n, s)
    BY <1>5 DEF Hits
  <2>2. In(n, {Head(s)}) = 0
    BY <1>1, <1>5 DEF In
  <2> HIDE DEF A, B
  <2>3. Times(n, s) = Times(n, t)
    BY <1>2, <1>3, <2>1
  <2> QED
    BY <1>2, <2>2, <2>3 DEF t
<1> QED
  BY <1>4, <1>5

-----------------------------------------------------------------------------
(* Where an entry is. *)

Going == UNION {toForward[p] : p \in Process}

Tally(n) ==
    Times(n, sink) + Times(n, delivered) + In(n, Going)
    + In(n, emitting) + In(n, {hand}) + In(n, {closerHand})
    + In(n, dropped) + In(n, refused) + In(n, late) + In(n, perished)

(* An entry is returned once, and handed over by the process that made it. *)
Unreturned == \A p \in Process : Held(p) => writing[p].id \notin returned

Apart == \A p, q \in Process : p # q => toForward[p] \cap toForward[q] = {}

Balanced ==
    Unreturned /\ Apart /\ \A n \in Number : Tally(n) = In(n, returned)

(* The processes that are about to forward a manifest are counted by       *)
(* membership: no two of them forward the same.                            *)
LEMMA PlacesTally ==
    ASSUME Apart, NEW n PROVE Places(n) = Tally(n)
<1> DEFINE P == {p \in Process : n \in toForward[p]}
<1>1. Cardinality(P) = In(n, Going)
  <2>1. CASE P = {}
    <3>1. n \notin Going
      BY <2>1 DEF Going
    <3> QED
      BY <2>1, <3>1, FS_EmptySet DEF In
  <2>2. CASE P # {}
    <3>1. PICK p \in Process : n \in toForward[p]
      BY <2>2
    <3>2. P = {p}
      BY <3>1 DEF Apart
    <3>3. n \in Going
      BY <3>1 DEF Going
    <3> QED
      BY <3>2, <3>3, FS_Singleton DEF In
  <2> QED
    BY <2>1, <2>2
<1> QED
  BY <1>1 DEF Places, Tally

(* What the steps below start from. *)
LEMMA Terms ==
    ASSUME SinkInv, LedgerTypeOK, NEW n \in Number
    PROVE  /\ Times(n, sink) \in Nat /\ Times(n, delivered) \in Nat
           /\ \A S : In(n, S) \in {0, 1}
           /\ \A S : In(n, S) = 1 <=> n \in S
           /\ Times(n, sink) = 0 <=> n \notin {sink[i] : i \in DOMAIN sink}
           /\ n # Stop
<1>1. sink \in Seq(Record \cup {Stop}) /\ delivered \in Seq(Record)
  BY DEF SinkInv, SinkTypeOK
<1> QED
  BY <1>1, TimesNatural, LedgerAssumption DEF In, Number, Stop

(* Recording. *)
LEMMA LedgerBalance ==
    ASSUME IInv, SinkInv, Balanced, NEW p \in Process, LedgerStep(p),
           UNCHANGED <<sinkVars, perished>>
    PROVE  Balanced'
<1>1. /\ returned \subseteq 1 .. made /\ made \in Nat /\ LedgerTypeOK
      /\ toForward \in [Process -> SUBSET returned]
      /\ writing \in [Process -> Entry \cup {NoEntry}]
  BY LedgerAssumption DEF IInv, LedgerTypeOK
<1>2. CASE UNCHANGED <<returned, toForward>>
  <2>1. Apart' /\ Going' = Going
    BY <1>2 DEF Balanced, Apart, Going
  <2>2. Unreturned'
    <3>1. CASE Chain(p)
      <4>1. /\ writing'[p].id = made + 1
            /\ \A q \in Process \ {p} : writing'[q] = writing[q]
        BY <1>1, <3>1 DEF Chain
      <4>2. made + 1 \notin returned
        BY <1>1
      <4> QED
        BY <1>2, <4>1, <4>2 DEF Balanced, Unreturned, Held
    <3>2. CASE Load(p) \/ ClearCache(p)
      BY <1>2, <3>2 DEF Load, ClearCache, Balanced, Unreturned, Held
    <3>3. CASE WriteFails(p)
      <4>1. \A q \in Process : writing'[q] \in {writing[q], NoEntry}
        BY <1>1, <3>3 DEF WriteFails
      <4> QED
        BY <1>2, <4>1 DEF Balanced, Unreturned, Held
    <3>4. CASE Write(p)
      <4>1. \A q \in Process : writing'[q] \in {writing[q], NoEntry}
        BY <1>1, <3>4 DEF Write
      <4> QED
        BY <1>2, <4>1 DEF Balanced, Unreturned, Held
    <3> QED
      BY <3>1, <3>2, <3>3, <3>4 DEF LedgerStep
  <2>3. ASSUME NEW n \in Number PROVE Tally(n)' = In(n, returned)'
    <3>1. Tally(n)' = Tally(n)
      BY <2>1 DEF Tally, sinkVars
    <3> QED
      BY <1>2, <3>1 DEF Balanced
  <2> QED
    BY <2>1, <2>2, <2>3 DEF Balanced
<1>3. CASE Write(p)
  <2> DEFINE e == writing[p].id
  <2>1. /\ Held(p) /\ e \notin returned /\ e \in Number
        /\ \A q \in Process : writing[q].id = e => q = p
    BY <1>1, <1>3, LineIs
    DEF Write, Unlocked, Held, IInv, Pending, Balanced, Unreturned
  <2> HIDE DEF e
  <2>2. /\ returned' = returned \cup {e}
        /\ \A q \in Process : toForward'[q] = IF q = p THEN toForward[q] \cup {e}
                                                       ELSE toForward[q]
        /\ \A q \in Process : writing'[q] \in {writing[q], NoEntry}
        /\ writing'[p] = NoEntry
    BY <1>1, <1>3 DEF Write, e
  <2>3. Unreturned'
    BY <2>1, <2>2 DEF Balanced, Unreturned, Held
  <2>4. /\ \A q \in Process : e \notin toForward[q]
        /\ \A q \in Process \ {p} : toForward'[q] = toForward[q]
        /\ toForward'[p] = toForward[p] \cup {e}
    BY <1>1, <2>1, <2>2
  <2>5. Apart'
    <3> SUFFICES ASSUME NEW q \in Process, NEW r \in Process, q # r,
                        NEW n \in toForward'[q], n \in toForward'[r]
                 PROVE  FALSE
      BY DEF Apart
    <3>1. \A u, v \in Process : n \in toForward[u] /\ n \in toForward[v] => u = v
      BY DEF Balanced, Apart
    <3> QED
      BY <2>4, <3>1
  <2>6. Going' = Going \cup {e} /\ e \notin Going
    <3>1. ASSUME NEW n PROVE n \in Going' <=> n \in Going \/ n = e
      BY <2>4 DEF Going
    <3>2. e \notin Going
      BY <2>4 DEF Going
    <3> HIDE DEF Going
    <3> QED
      BY <3>1, <3>2
  <2>7. ASSUME NEW n \in Number PROVE Tally(n)' = In(n, returned)'
    <3>1. /\ Tally(n) = In(n, returned)
          /\ Tally(n)' = Tally(n) - In(n, Going) + In(n, Going')
      BY <1>1, Terms DEF Balanced, Tally, sinkVars
    <3> QED
      BY <2>1, <2>2, <2>6, <3>1 DEF In
  <2> QED
    BY <2>3, <2>5, <2>7 DEF Balanced
<1> QED
  BY <1>2, <1>3 DEF LedgerStep, Chain, Load, ClearCache, WriteFails

(* Handing over. *)
LEMMA HandOverBalance ==
    ASSUME IInv, SinkInv, Balanced, NEW n \in toForward[Home], HandOver(n)
    PROVE  Balanced'
<1>1. /\ returned \subseteq 1 .. made /\ made \in 0 .. MaxEntries /\ LedgerTypeOK
      /\ toForward \in [Process -> SUBSET returned] /\ Home \in Process
  BY PipelineAssumption DEF IInv, LedgerTypeOK
<1>2. /\ toForward' = [toForward EXCEPT ![Home] = @ \ {n}]
      /\ UNCHANGED <<writing, returned>>
  BY DEF HandOver, Forward
<1>3. /\ UNCHANGED <<sink, delivered, hand, closerHand, dropped, refused, perished>>
      /\ \/ late' = late \cup {n} /\ emitting' = emitting
         \/ late' = late /\ emitting' = emitting \cup {n}
  BY DEF HandOver, EmitTest
<1>4. Unreturned'
  BY <1>2 DEF Balanced, Unreturned, Held
<1>5. Apart'
  BY <1>1, <1>2 DEF Balanced, Apart
<1>6. /\ n \in Going
      /\ \A m : m \in Going' <=> m \in Going /\ m # n
  <2>1. \A q \in Process : n \in toForward[q] => q = Home
    BY <1>1 DEF Balanced, Apart
  <2>2. /\ toForward'[Home] = toForward[Home] \ {n}
        /\ \A q \in Process \ {Home} : toForward'[q] = toForward[q]
    BY <1>1, <1>2
  <2> QED
    BY <1>1, <2>1, <2>2 DEF Going
<1>7. ASSUME NEW m \in Number PROVE Tally(m)' = In(m, returned)'
  <2>1. /\ Times(m, sink) \in Nat /\ Times(m, delivered) \in Nat
        /\ Tally(m) = In(m, returned)
        /\ In(m, Going) + In(m, late) + In(m, emitting) \in {0, 1}
    <3>1. /\ Times(m, sink) \in Nat /\ Times(m, delivered) \in Nat
          /\ \A S : In(m, S) \in {0, 1}
      BY <1>1, Terms
    <3>2. Tally(m) = In(m, returned)
      BY DEF Balanced
    <3> QED
      BY <3>1, <3>2 DEF Tally
  <2>2. In(m, Going') + In(m, late') + In(m, emitting')
            = In(m, Going) + In(m, late) + In(m, emitting)
    BY <1>3, <1>6, <2>1 DEF In
  <2>3. Tally(m)' = Tally(m)
    <3>1. \A S : In(m, S) \in {0, 1}
      BY DEF In
    <3> QED
      BY <1>3, <2>1, <2>2, <3>1 DEF Tally
  <2> QED
    BY <1>2, <2>1, <2>3
<1> QED
  BY <1>4, <1>5, <1>7 DEF Balanced

(* What the target does with an entry: it comes to be in one more place. *)
LEMMA OfferTimes ==
    ASSUME NEW m \in Record, delivered \in Seq(Record), Offer(m), NEW n
    PROVE  \/ m = n /\ n \in refused /\ delivered' = delivered /\ refused' = refused
           \/ Times(n, delivered') + In(n, refused')
                 = Times(n, delivered) + In(n, refused) + In(n, {m})
<1>1. CASE delivered' = Append(delivered, m) /\ refused' = refused
  <2>1. Times(n, delivered') = Times(n, delivered) + In(n, {m})
    BY <1>1, TimesAppend
  <2>2. Times(n, delivered) \in Nat /\ In(n, {m}) \in Nat /\ In(n, refused) \in Nat
    BY TimesNatural DEF In
  <2> QED
    BY <1>1, <2>1, <2>2
<1>2. CASE refused' = refused \cup {m} /\ delivered' = delivered
  <2>1. Times(n, delivered) \in Nat
    BY TimesNatural
  <2>2. CASE m = n /\ n \in refused
    <3>1. refused' = refused
      BY <1>2, <2>2
    <3> QED
      BY <1>2, <2>2, <3>1
  <2>3. CASE ~(m = n /\ n \in refused)
    BY <1>2, <2>1, <2>3 DEF In
  <2> QED
    BY <2>2, <2>3
<1> QED
  BY <1>1, <1>2 DEF Offer

(* The sink's threads move an entry from one place to the next. *)
LEMMA SinkBalance ==
    ASSUME IInv, SinkInv, Balanced, SinkStep, UNCHANGED <<ledgerVars, perished>>
    PROVE  Balanced'
<1>1. /\ LedgerTypeOK /\ HandsFull
      /\ sink \in Seq(Record \cup {Stop}) /\ delivered \in Seq(Record)
      /\ hand \in Record \cup {Stop} /\ closerHand \in Record \cup {Stop}
      /\ emitting \subseteq Record
  BY DEF IInv, SinkInv, SinkTypeOK
<1>2. Unreturned' /\ Apart' /\ Going' = Going
  BY DEF ledgerVars, Balanced, Unreturned, Held, Apart, Going
<1>3. ASSUME NEW n \in Number PROVE Tally(n)' = Tally(n)
  <2>1. /\ Times(n, sink) \in Nat /\ Times(n, delivered) \in Nat
        /\ \A S : In(n, S) \in {0, 1}
        /\ \A S : In(n, S) = 1 <=> n \in S
        /\ n # Stop /\ In(n, {Stop}) = 0
    BY <1>1, Terms DEF In
  <2>2. /\ Times(n, sink) + Times(n, delivered) + In(n, Going)
              + In(n, emitting) + In(n, {hand}) + In(n, {closerHand})
              + In(n, dropped) + In(n, refused) + In(n, late) + In(n, perished)
            \in {0, 1}
    BY <2>1 DEF Balanced, Tally
  <2>3. ASSUME NEW m \in emitting, EmitPut(m) PROVE Tally(n)' = Tally(n)
    <3>1. /\ emitting' = emitting \ {m}
          /\ UNCHANGED <<delivered, hand, closerHand, refused, late>>
          /\ \/ sink' = Append(sink, m) /\ dropped' = dropped
             \/ sink' = sink /\ dropped' = dropped \cup {m}
      BY <2>3 DEF EmitPut
    <3>2. Times(n, Append(sink, m)) = Times(n, sink) + In(n, {m})
      BY <1>1, TimesAppend
    <3>3. /\ Times(n, sink) \in Nat /\ In(n, emitting) \in {0, 1}
          /\ In(n, dropped) \in {0, 1}
          /\ In(n, emitting') \in {0, 1} /\ In(n, dropped') \in {0, 1}
          /\ In(n, {m}) \in {0, 1}
      BY <2>1
    <3>4. In(n, emitting) = In(n, emitting') + In(n, {m})
      BY <2>3, <3>1 DEF In
    <3>5. n \in emitting => n \notin dropped
      BY <2>1, <2>2
    <3>6. In(n, dropped \cup {m}) = In(n, dropped) + In(n, {m})
      BY <2>3, <3>5 DEF In
    <3>7. /\ Times(n, sink') + In(n, emitting') + In(n, dropped')
                = Times(n, sink) + In(n, emitting) + In(n, dropped)
          /\ Times(n, sink') \in Nat
      <4>1. CASE sink' = Append(sink, m) /\ dropped' = dropped
        <5>1. Times(n, sink') = Times(n, sink) + In(n, {m})
          BY <3>2, <4>1
        <5>2. In(n, dropped') = In(n, dropped)
          BY <4>1
        <5> QED
          BY <3>3, <3>4, <5>1, <5>2
      <4>2. CASE sink' = sink /\ dropped' = dropped \cup {m}
        <5>1. Times(n, sink') = Times(n, sink)
          BY <4>2
        <5>2. In(n, dropped') = In(n, dropped) + In(n, {m})
          BY <3>6, <4>2
        <5> QED
          BY <3>3, <3>4, <5>1, <5>2
      <4> QED
        BY <3>1, <4>1, <4>2
    <3>8. Tally(n)' = Times(n, sink') + Times(n, delivered) + In(n, Going)
                      + In(n, emitting') + In(n, {hand}) + In(n, {closerHand})
                      + In(n, dropped') + In(n, refused) + In(n, late)
                      + In(n, perished)
      BY <1>2, <3>1 DEF Tally
    <3> QED
      BY <2>1, <3>3, <3>7, <3>8 DEF Tally
  <2>4. sink # <<>> => Times(n, sink) = Times(n, Tail(sink)) + In(n, {Head(sink)})
    BY <1>1, TimesTail
  <2>5. sink # <<>> => Times(n, Tail(sink)) \in Nat
    <3>1. sink # <<>> => Tail(sink) \in Seq(Record \cup {Stop})
      BY <1>1
    <3> QED
      BY <3>1, TimesNatural
  <2>6. CASE WorkerGets
    <3>1. /\ hand = Stop /\ sink # <<>> /\ sink' = Tail(sink) /\ hand' = Head(sink)
          /\ UNCHANGED <<delivered, emitting, closerHand, dropped, refused, late>>
      BY <1>1, <2>6 DEF WorkerGets, HandsFull
    <3>2. /\ Times(n, sink') + In(n, {hand'}) = Times(n, sink) + In(n, {hand})
          /\ Times(n, sink') \in Nat /\ In(n, {hand'}) \in {0, 1}
      BY <2>1, <2>4, <2>5, <3>1
    <3>3. Tally(n)' = Times(n, sink') + Times(n, delivered) + In(n, Going)
                      + In(n, emitting) + In(n, {hand'}) + In(n, {closerHand})
                      + In(n, dropped) + In(n, refused) + In(n, late)
                      + In(n, perished)
      BY <1>2, <3>1 DEF Tally
    <3> QED
      BY <2>1, <3>2, <3>3 DEF Tally
  <2>7. CASE FlushTakes
    <3>1. /\ closerHand = Stop /\ sink # <<>> /\ sink' = Tail(sink)
          /\ closerHand' = Head(sink)
          /\ UNCHANGED <<delivered, emitting, hand, dropped, refused, late>>
      BY <1>1, <2>7 DEF FlushTakes, CloserGoes, HandsFull
    <3>2. /\ Times(n, sink') + In(n, {closerHand'}) = Times(n, sink) + In(n, {closerHand})
          /\ Times(n, sink') \in Nat /\ In(n, {closerHand'}) \in {0, 1}
      BY <2>1, <2>4, <2>5, <3>1
    <3>3. Tally(n)' = Times(n, sink') + Times(n, delivered) + In(n, Going)
                      + In(n, emitting) + In(n, {hand}) + In(n, {closerHand'})
                      + In(n, dropped) + In(n, refused) + In(n, late)
                      + In(n, perished)
      BY <1>2, <3>1 DEF Tally
    <3> QED
      BY <2>1, <3>2, <3>3 DEF Tally
  <2>8. ASSUME NEW m \in Record, Offer(m), n = m => n \notin refused
        PROVE  /\ Times(n, delivered') + In(n, refused')
                      = Times(n, delivered) + In(n, refused) + In(n, {m})
               /\ Times(n, delivered') \in Nat
    <3>1. Times(n, delivered') + In(n, refused')
                      = Times(n, delivered) + In(n, refused) + In(n, {m})
      BY <1>1, <2>8, OfferTimes
    <3>2. delivered' \in Seq(Record)
      BY <1>1, <2>8 DEF Offer
    <3> QED
      BY <3>1, <3>2, TimesNatural
  <2>9. CASE WorkerDelivers
    <3>1. /\ hand \in Record /\ Offer(hand) /\ hand' = Stop
          /\ UNCHANGED <<sink, emitting, closerHand, dropped, late>>
      BY <1>1, <2>9 DEF WorkerDelivers, HandsFull
    <3>2. n = hand => n \notin refused
      BY <2>1, <2>2 DEF In
    <3> QED
      BY <1>2, <2>1, <2>8, <3>1, <3>2 DEF Tally
  <2>10. CASE FlushDelivers
    <3>1. /\ closerHand \in Record /\ Offer(closerHand) /\ closerHand' = Stop
          /\ UNCHANGED <<sink, emitting, hand, dropped, late>>
      BY <1>1, <2>10 DEF FlushDelivers, CloserGoes, HandsFull
    <3>2. n = closerHand => n \notin refused
      BY <2>1, <2>2 DEF In
    <3> QED
      BY <1>2, <2>1, <2>8, <3>1, <3>2 DEF Tally
  <2>11. CASE PutStop
    <3>1. /\ sink' = Append(sink, Stop)
          /\ UNCHANGED <<delivered, emitting, hand, closerHand, dropped, refused, late>>
      BY <2>11 DEF PutStop, CloserGoes
    <3>2. Times(n, sink') = Times(n, sink)
      BY <1>1, <2>1, <3>1, TimesAppend
    <3> QED
      BY <1>2, <3>1, <3>2 DEF Tally
  <2>12. CASE WorkerHangs \/ CloseBegins \/ DrainEnds \/ Joined \/ JoinTimesOut
              \/ FlushEnds \/ FlushHangs
    <3>1. UNCHANGED <<sink, delivered, emitting, hand, closerHand, dropped, refused,
                      late>>
      BY <2>12 DEF WorkerHangs, CloseBegins, DrainEnds, Joined, JoinTimesOut,
                   FlushEnds, FlushHangs, CloserGoes
    <3> QED
      BY <1>2, <3>1 DEF Tally
  <2> QED
    BY <2>3, <2>6, <2>7, <2>9, <2>10, <2>11, <2>12
    DEF SinkStep, WorkerStep, CloseStep
<1> QED
  BY <1>2, <1>3 DEF ledgerVars, Balanced

(* What perishes with a process was at one place before. *)
LEMMA DeathBalance ==
    ASSUME IInv, SinkInv, Balanced, HomeDies \/ \E p \in Process : OtherDies(p)
    PROVE  Balanced'
<1>1. /\ LedgerTypeOK /\ toForward \in [Process -> SUBSET returned]
      /\ writing \in [Process -> Entry \cup {NoEntry}] /\ Home \in Process
      /\ sink \in Seq(Record \cup {Stop}) /\ delivered \in Seq(Record)
  BY PipelineAssumption DEF IInv, LedgerTypeOK, SinkInv, SinkTypeOK
<1>2. PICK p \in Process : /\ Crash(p)
                          /\ ((HomeDies /\ p = Home) \/ OtherDies(p))
  BY <1>1 DEF HomeDies, OtherDies
<1>3. /\ returned' = returned
      /\ toForward' = [toForward EXCEPT ![p] = {}]
      /\ writing' = [writing EXCEPT ![p] = NoEntry]
  BY <1>2 DEF Crash
<1>4. Unreturned'
  BY <1>1, <1>3 DEF Balanced, Unreturned, Held
<1>5. Apart'
  BY <1>1, <1>3 DEF Balanced, Apart
<1>6. \A n : n \in Going' <=> n \in Going /\ n \notin toForward[p]
  <2>1. \A n : \A q \in Process : n \in toForward[q] /\ n \in toForward[p] => q = p
    BY DEF Balanced, Apart
  <2>2. /\ toForward'[p] = {}
        /\ \A q \in Process \ {p} : toForward'[q] = toForward[q]
    BY <1>1, <1>3
  <2> QED
    BY <2>1, <2>2 DEF Going
<1>7. ASSUME NEW n \in Number PROVE Tally(n)' = Tally(n)
  <2>1. /\ Times(n, sink) \in Nat /\ Times(n, delivered) \in Nat
        /\ \A S : In(n, S) \in {0, 1}
        /\ \A S : In(n, S) = 1 <=> n \in S
        /\ Times(n, sink) = 0 <=> n \notin {sink[i] : i \in DOMAIN sink}
        /\ n # Stop /\ In(n, {Stop}) = 0
    BY <1>1, Terms DEF In
  <2>2. Times(n, sink) + Times(n, delivered) + In(n, Going)
              + In(n, emitting) + In(n, {hand}) + In(n, {closerHand})
              + In(n, dropped) + In(n, refused) + In(n, late) + In(n, perished)
            \in {0, 1}
    BY <2>1 DEF Balanced, Tally
  <2>3. n \in toForward[p] => n \in Going
    BY DEF Going
  <2>4. CASE OtherDies(p)
    <3>1. /\ perished' = perished \cup toForward[p]
          /\ UNCHANGED sinkVars
      BY <2>4 DEF OtherDies
    <3>2. In(n, Going') + In(n, perished') = In(n, Going) + In(n, perished)
      <4>1. n \in Going => n \notin perished
        BY <2>1, <2>2
      <4> QED
        BY <1>6, <2>3, <3>1, <4>1 DEF In
    <3> QED
      BY <2>1, <3>1, <3>2 DEF Tally, sinkVars
  <2>5. CASE HomeDies /\ p = Home
    <3>1. /\ perished' = perished \cup toForward[p] \cup OnItsWay
          /\ sink' = <<>> /\ emitting' = {} /\ hand' = Stop /\ closerHand' = Stop
          /\ UNCHANGED <<delivered, dropped, refused, late>>
      BY <2>5 DEF HomeDies
    <3>2. Times(n, sink') = 0 /\ In(n, emitting') = 0
      <4>1. <<>> \in Seq({}) /\ n \notin {<<>>[i] : i \in DOMAIN <<>>}
        OBVIOUS
      <4>2. Times(n, <<>>) = 0
        BY <4>1, TimesNatural
      <4> QED
        BY <3>1, <4>2 DEF In
    <3>3. In(n, {hand'}) = 0 /\ In(n, {closerHand'}) = 0
      BY <2>1, <3>1
    <3>4. n \in OnItsWay <=> \/ n \in emitting \/ Times(n, sink) # 0
                             \/ n \in {hand} \/ n \in {closerHand}
      BY <2>1 DEF OnItsWay, Queued
    <3>5. In(n, Going') + In(n, perished')
              = Times(n, sink) + In(n, Going) + In(n, emitting) + In(n, {hand})
                + In(n, {closerHand}) + In(n, perished)
      <4>1. CASE n \in OnItsWay
        <5>1. n \in perished'
          BY <3>1, <4>1
        <5>2. n \notin Going
          BY <2>1, <2>2, <3>4, <4>1
        <5>3. n \notin Going'
          BY <1>6, <5>2
        <5> QED
          BY <2>1, <2>2, <3>4, <4>1, <5>1, <5>2, <5>3
      <4>2. CASE n \notin OnItsWay
        <5>1. /\ Times(n, sink) = 0 /\ In(n, emitting) = 0 /\ In(n, {hand}) = 0
              /\ In(n, {closerHand}) = 0
          BY <2>1, <3>4, <4>2
        <5>2. n \in Going => n \notin perished
          BY <2>1, <2>2
        <5>3. In(n, Going') + In(n, perished') = In(n, Going) + In(n, perished)
          BY <1>6, <2>3, <3>1, <4>2, <5>2 DEF In
        <5> QED
          BY <2>1, <5>1, <5>3
      <4> QED
        BY <4>1, <4>2
    <3>6. Tally(n)' = Times(n, delivered) + In(n, Going') + In(n, perished')
                      + In(n, dropped) + In(n, refused) + In(n, late)
      <4>1. Tally(n)' = Times(n, sink') + Times(n, delivered) + In(n, Going')
                      + In(n, emitting') + In(n, {hand'}) + In(n, {closerHand'})
                      + In(n, dropped) + In(n, refused) + In(n, late)
                      + In(n, perished')
        BY <3>1 DEF Tally
      <4>2. In(n, Going') \in {0, 1} /\ In(n, perished') \in {0, 1}
        BY <2>1
      <4> QED
        BY <2>1, <3>2, <3>3, <4>1, <4>2
    <3>7. In(n, Going') \in {0, 1} /\ In(n, perished') \in {0, 1}
      BY <2>1
    <3> QED
      BY <2>1, <3>5, <3>6, <3>7 DEF Tally
  <2> QED
    BY <1>2, <2>4, <2>5
<1> QED
  BY <1>3, <1>4, <1>5, <1>7 DEF Balanced

(* What record() returned is at one place on its way to the target, there, *)
(* or lost for one reason (manifest_ledger.py:290-313,                     *)
(* ledger_backends.py:166-260).                                            *)
THEOREM RecordsAreAccounted == Spec => []EveryRecordAccounted
<1>1. Init => Balanced
  <2> SUFFICES ASSUME Init PROVE Balanced
    OBVIOUS
  <2>1. Unreturned /\ Apart /\ Going = {}
    BY DEF Init, LedgerInit, Unreturned, Held, Apart, Going
  <2>2. ASSUME NEW n \in Number PROVE Tally(n) = In(n, returned)
    <3>1. n # Stop
      BY LedgerAssumption DEF Number, Stop
    <3>2. Times(n, <<>>) = 0
      <4>1. <<>> \in Seq({}) /\ n \notin {<<>>[i] : i \in DOMAIN <<>>}
        OBVIOUS
      <4> QED
        BY <4>1, TimesNatural
    <3> QED
      BY <2>1, <3>1, <3>2 DEF Init, LedgerInit, SinkInit, Tally, In
  <2> QED
    BY <2>1, <2>2 DEF Balanced
<1>2. IInv /\ SinkInv /\ Balanced /\ [Next]_pipelineVars => Balanced'
  <2> SUFFICES ASSUME IInv, SinkInv, Balanced, [Next]_pipelineVars PROVE Balanced'
    OBVIOUS
  <2>1. ASSUME NEW p \in Process, LedgerStep(p), UNCHANGED <<sinkVars, perished>>
        PROVE  Balanced'
    BY <2>1, LedgerBalance
  <2>2. ASSUME NEW n \in toForward[Home], HandOver(n) PROVE Balanced'
    BY <2>2, HandOverBalance
  <2>3. CASE SinkStep /\ UNCHANGED <<ledgerVars, perished>>
    BY <2>3, SinkBalance
  <2>4. CASE HomeDies \/ \E p \in Process : OtherDies(p)
    BY <2>4, DeathBalance
  <2>5. CASE UNCHANGED pipelineVars
    BY <2>5 DEF pipelineVars, ledgerVars, sinkVars, Balanced, Unreturned, Held, Apart,
                Going, Tally
  <2> QED
    BY <2>1, <2>2, <2>3, <2>4, <2>5 DEF Next
<1>3. Balanced => EveryRecordAccounted
  BY PlacesTally DEF Balanced, EveryRecordAccounted
<1>4. LedgerSpec => []IInv
  BY InductiveInvariant
<1> QED
  BY <1>1, <1>2, <1>3, <1>4, PipelineIsLedger, PipelineSinkInv, PTL DEF Spec
=============================================================================
