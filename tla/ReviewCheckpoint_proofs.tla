---------------------- MODULE ReviewCheckpoint_proofs ----------------------
(***************************************************************************)
(* Proofs about ReviewCheckpoint for any sets of reviewers and rules, any  *)
(* number of connectors and of required approvers.  They rest on what is   *)
(* true while a checkpoint waits: nobody rejected it, it lacks approvals,  *)
(* no file tells an outcome, and a record without approvals still verifies *)
(***************************************************************************)
EXTENDS ReviewCheckpoint, FiniteSetTheorems, SequenceTheorems, TLAPS

Contents == [status : Status, approvals : Seq(Approval),
             reviewer : Reviewer \cup {System, Nobody}]

Record == [status : Status, approvals : Seq(Approval),
           reviewer : Reviewer \cup {System, Nobody},
           signature : SUBSET Contents]

Entries == [kind : Kind \cup {"hole"}, status : Status]

Unborn ==
    creating = "absent" => rec = Blank /\ trail = <<>> /\ log = <<>>

Started ==
    /\ creating = "notifying" => pending > 0
    /\ creating # "created" => \A r \in Rule : timer[r] = "none"

Outcome == {"resolved", "timeout"}

Quiet(f) == \A i \in DOMAIN f : f[i].kind \notin Outcome

Tells(f, status) ==
    /\ \A i \in DOMAIN f : f[i].kind \in Outcome =>
          i = Len(f) /\ f[i].status = status
    /\ f[Len(f)].kind \in Outcome \cup {"hole"}
    /\ Len(f) > 1

Untold ==
    /\ rec.status = Waiting =>
          rec.reviewer = Nobody /\ Quiet(trail) /\ Quiet(log)
    /\ creating # "absent" => Len(trail) > 0 /\ Len(log) > 0

-----------------------------------------------------------------------------
(* What the handlers' helpers make of a record. *)

(* _sign() changes the signature only, which then verifies. *)
LEMMA SignedIs ==
    ASSUME NEW r \in Record, signing \in BOOLEAN
    PROVE  /\ Signed(r) \in Record
           /\ Signed(r).status = r.status
           /\ Signed(r).approvals = r.approvals
           /\ Signed(r).reviewer = r.reviewer
           /\ Verifies(Signed(r))
<1>1. Content(r) \in Contents
  BY DEF Content, Contents, Record
<1>2. /\ Signed(r) \in Record
      /\ Signed(r).status = r.status
      /\ Signed(r).approvals = r.approvals
      /\ Signed(r).reviewer = r.reviewer
      /\ Signed(r).signature \subseteq {Content(r)}
  BY <1>1 DEF Signed, Record
<1>3. Content(Signed(r)) = Content(r)
  BY <1>2 DEF Content
<1> QED
  BY <1>2, <1>3 DEF Verifies

(* _resolve() sets status and reviewer and signs what it set. *)
LEMMA ResolveIs ==
    ASSUME NEW r \in Record, signing \in BOOLEAN, NEW d \in Status,
           NEW who \in Reviewer \cup {System, Nobody}
    PROVE  /\ Resolve(r, d, who) \in Record
           /\ Resolve(r, d, who).status = d
           /\ Resolve(r, d, who).approvals = r.approvals
           /\ Resolve(r, d, who).reviewer = who
           /\ Verifies(Resolve(r, d, who))
<1> DEFINE s == [r EXCEPT !.status = d, !.reviewer = who]
<1>1. s \in Record /\ s.status = d /\ s.approvals = r.approvals
      /\ s.reviewer = who
  BY DEF Record
<1>2. Resolve(r, d, who) = Signed(s)
  BY DEF Resolve
<1> HIDE DEF s
<1> QED
  BY <1>1, <1>2, SignedIs

(* Noting an answer appends it and changes nothing else. *)
LEMMA NotedIs ==
    ASSUME NEW r \in Record, NEW who \in Reviewer, NEW d \in Decided
    PROVE  /\ Noted(r, who, d) \in Record
           /\ Noted(r, who, d).status = r.status
           /\ Noted(r, who, d).reviewer = r.reviewer
           /\ Noted(r, who, d).approvals
                = Append(r.approvals, [by |-> who, decision |-> d])
<1>1. [by |-> who, decision |-> d] \in Approval
  BY DEF Approval
<1>2. Append(r.approvals, [by |-> who, decision |-> d]) \in Seq(Approval)
  BY <1>1 DEF Record
<1> QED
  BY <1>2 DEF Noted, Record

(* An approval counts as one, a rejection as none. *)
LEMMA ApprovalCounts ==
    ASSUME NEW r \in Record, NEW who \in Reviewer
    PROVE  /\ Approvals(r) \in Nat
           /\ Approvals(Noted(r, who, "approved")) = Approvals(r) + 1
<1> DEFINE a == r.approvals
           n == Noted(r, who, "approved")
           S == {i \in DOMAIN a : a[i].decision = "approved"}
           T == {i \in DOMAIN n.approvals : n.approvals[i].decision = "approved"}
<1>1. a \in Seq(Approval)
  BY DEF Record
<1>2. n.approvals = Append(a, [by |-> who, decision |-> "approved"])
  BY NotedIs DEF Decided
<1>3. T = S \cup {Len(a) + 1} /\ Len(a) + 1 \notin S
  <2> DEFINE b == [by |-> who, decision |-> "approved"]
  <2>1. b.decision = "approved"
    OBVIOUS
  <2> HIDE DEF b
  <2>2. /\ DOMAIN a = 1 .. Len(a) /\ Len(a) \in Nat
        /\ DOMAIN Append(a, b) = 1 .. (Len(a) + 1)
        /\ Append(a, b)[Len(a) + 1] = b
        /\ \A i \in 1 .. Len(a) : Append(a, b)[i] = a[i]
    BY <1>1
  <2>3. n.approvals = Append(a, b)
    BY <1>2 DEF b
  <2>4. Len(a) + 1 \notin S
    BY <2>2
  <2>5. DOMAIN n.approvals = DOMAIN a \cup {Len(a) + 1}
    BY <2>2, <2>3
  <2>6. ASSUME NEW i \in DOMAIN a
        PROVE  n.approvals[i] = a[i]
    BY <2>2, <2>3
  <2>7. n.approvals[Len(a) + 1].decision = "approved"
    BY <2>1, <2>2, <2>3
  <2> HIDE DEF a, n
  <2> QED
    BY <2>4, <2>5, <2>6, <2>7
<1>4. IsFiniteSet(S)
  <2>1. S \subseteq 1 .. Len(a) /\ Len(a) \in Nat
    BY <1>1
  <2> QED
    BY <2>1, FS_Interval, FS_Subset
<1>5. Cardinality(T) = Cardinality(S) + 1 /\ Cardinality(S) \in Nat
  BY <1>3, <1>4, FS_AddElement, FS_CardinalityType
<1> QED
  BY <1>5 DEF Approvals

(* A rule that resolves never leaves the checkpoint waiting. *)
LEMMA VerdictIs ==
    ASSUME NEW t \in OnTimeout
    PROVE  Verdict(t) \in Status /\ Verdict(t) # Waiting
BY DEF OnTimeout, Verdict, decision_map, Status, Decided, Waiting

Extends(f, es, g) ==
    /\ g \in Seq(Entries)
    /\ Len(g) = Len(f) + Len(es)
    /\ \A i \in 1 .. Len(f) : g[i] = f[i]
    /\ \A i \in Len(f) + 1 .. Len(g) : g[i] \in {es[i - Len(f)], Hole}

(* An append leaves the lines there were, and adds its own or holes. *)
LEMMA WrittenIs ==
    ASSUME NEW f \in Seq(Entries), NEW es \in Seq(Entries), NEW kept
    PROVE  Extends(f, es, f \o Written(es, kept))
<1> DEFINE g == f \o Written(es, kept)
<1>1. Hole \in Entries
  BY DEF Hole, Entries, Status, Waiting
<1>2. /\ DOMAIN es = 1 .. Len(es) /\ Len(es) \in Nat
      /\ \A i \in 1 .. Len(es) : es[i] \in Entries
  OBVIOUS
<1> DEFINE w == Written(es, kept)
<1>3. w = [i \in 1 .. Len(es) |-> IF i \in kept THEN es[i] ELSE Hole]
  BY <1>2 DEF Written
<1>4. w \in [1 .. Len(es) -> Entries]
  BY <1>1, <1>2, <1>3
<1>6. \A i \in 1 .. Len(es) : w[i] \in {es[i], Hole}
  BY <1>3
<1>7. g = f \o w
  OBVIOUS
<1> HIDE DEF w, g
<1>5. w \in Seq(Entries) /\ Len(w) = Len(es)
  BY <1>2, <1>4
<1>8. /\ g \in Seq(Entries)
      /\ Len(g) = Len(f) + Len(w)
      /\ \A i \in 1 .. Len(g) : g[i] = IF i <= Len(f) THEN f[i]
                                         ELSE w[i - Len(f)]
  <2>1. g \in Seq(Entries) /\ Len(g) = Len(f) + Len(w)
    BY <1>5, <1>7, ConcatProperties
  <2>2. ASSUME NEW i \in 1 .. Len(f) + Len(w)
        PROVE  g[i] = IF i <= Len(f) THEN f[i] ELSE w[i - Len(f)]
    BY <1>5, <1>7, ConcatProperties
  <2> QED
    BY <2>1, <2>2
<1>9. \A i \in Len(f) + 1 .. Len(g) : i - Len(f) \in 1 .. Len(es)
  BY <1>2, <1>5, <1>8, LenProperties
<1>10. Len(f) \in Nat /\ Len(g) = Len(f) + Len(es)
  BY <1>5, <1>8, LenProperties
<1>11. ASSUME NEW i \in 1 .. Len(f)
       PROVE  g[i] = f[i]
  BY <1>2, <1>8, <1>10
<1>12. ASSUME NEW i \in Len(f) + 1 .. Len(g)
       PROVE  g[i] \in {es[i - Len(f)], Hole}
  <2>1. g[i] = w[i - Len(f)]
    BY <1>2, <1>8, <1>10
  <2> QED
    BY <1>6, <1>9, <2>1
<1>13. Extends(f, es, g)
  BY <1>8, <1>10, <1>11, <1>12 DEF Extends
<1> QED
  BY <1>13 DEF g

(* A file that tells no outcome still tells none after lines that do not. *)
LEMMA QuietWrite ==
    ASSUME NEW f \in Seq(Entries), NEW es \in Seq(Entries),
           NEW g, Extends(f, es, g), Quiet(f), Quiet(es)
    PROVE  g \in Seq(Entries) /\ Quiet(g) /\ Len(g) = Len(f) + Len(es)
<1>1. /\ g \in Seq(Entries)
      /\ Len(g) = Len(f) + Len(es)
      /\ \A i \in 1 .. Len(f) : g[i] = f[i]
      /\ \A i \in Len(f) + 1 .. Len(g) : g[i] \in {es[i - Len(f)], Hole}
  BY DEF Extends
<1>2. ASSUME NEW i \in DOMAIN g
      PROVE  g[i].kind \notin Outcome
  <2>1. CASE i \in 1 .. Len(f)
    BY <1>1, <2>1, LenProperties DEF Quiet
  <2>2. CASE i \in Len(f) + 1 .. Len(g)
    <3>1. i - Len(f) \in DOMAIN es
      BY <1>1, <2>2, LenProperties
    <3>2. g[i] = es[i - Len(f)] \/ g[i] = Hole
      BY <1>1, <2>2
    <3>3. Hole.kind \notin Outcome
      BY DEF Hole, Outcome
    <3> QED
      BY <3>1, <3>2, <3>3 DEF Quiet
  <2> QED
    BY <1>1, <2>1, <2>2, LenProperties
<1> QED
  BY <1>1, <1>2 DEF Quiet

(* A position in the second part of a file that is not its last one. *)
LEMMA NotTheLast ==
    ASSUME NEW a \in Nat, NEW b \in Nat, NEW g, g = a + b,
           NEW k \in a + 1 .. g, k # g
    PROVE  k - a \in 1 .. b - 1
OBVIOUS

(* Lines that end in an outcome make a quiet file tell it, or a hole. *)
LEMMA OutcomeWrite ==
    ASSUME NEW f \in Seq(Entries), NEW es \in Seq(Entries),
           NEW g, Extends(f, es, g), Quiet(f), Len(f) > 0,
           NEW status, Len(es) > 0,
           es[Len(es)].kind \in Outcome, es[Len(es)].status = status,
           \A i \in 1 .. Len(es) - 1 : es[i].kind \notin Outcome
    PROVE  g \in Seq(Entries) /\ Tells(g, status)
<1>1. /\ g \in Seq(Entries)
      /\ Len(g) = Len(f) + Len(es)
      /\ \A i \in 1 .. Len(f) : g[i] = f[i]
      /\ \A i \in Len(f) + 1 .. Len(g) : g[i] \in {es[i - Len(f)], Hole}
  BY DEF Extends
<1>0. /\ Len(f) \in Nat /\ Len(es) \in Nat /\ Len(g) \in Nat
      /\ Len(g) = Len(f) + Len(es)
  BY <1>1, LenProperties
<1>2. Hole.kind = "hole" /\ "hole" \notin Outcome
  BY DEF Hole, Outcome
<1>3. ASSUME NEW k \in DOMAIN g, g[k].kind \in Outcome
      PROVE  k = Len(g) /\ g[k].status = status
  <2>1. k \in 1 .. Len(g)
    BY <1>1, LenProperties
  <2>2. k \notin 1 .. Len(f)
    BY <1>1, <1>3, LenProperties DEF Quiet
  <2>3. k \in Len(f) + 1 .. Len(g) /\ k - Len(f) \in 1 .. Len(es)
    BY <1>1, <2>1, <2>2, LenProperties
  <2>4. g[k] = es[k - Len(f)]
    BY <1>1, <1>2, <1>3, <2>3
  <2>5. k = Len(g)
    <3>1. SUFFICES ASSUME k # Len(g) PROVE FALSE
      OBVIOUS
    <3>2. k - Len(f) \in 1 .. Len(es) - 1
      BY <1>0, <2>3, <3>1, NotTheLast, Zenon
    <3> QED
      BY <1>3, <2>4, <3>2
  <2>6. g[k].status = status
    BY <1>0, <2>4, <2>5
  <2> QED
    BY <2>5, <2>6
<1>4. g[Len(g)] \in {es[Len(es)], Hole}
  <2>1. Len(g) \in Len(f) + 1 .. Len(g) /\ Len(g) - Len(f) = Len(es)
    BY <1>1, LenProperties
  <2> QED
    BY <1>1, <2>1
<1>5. Len(g) > 1
  BY <1>1, LenProperties
<1> QED
  BY <1>1, <1>2, <1>3, <1>4, <1>5 DEF Tells

-----------------------------------------------------------------------------
(* The invariant. *)

EndsIn(es, status) ==
    /\ es \in Seq(Entries)
    /\ Len(es) > 0
    /\ es[Len(es)].kind \in Outcome
    /\ es[Len(es)].status = status
    /\ \A i \in 1 .. Len(es) - 1 : es[i].kind \notin Outcome

FilesTypeOK == trail \in Seq(Entries) /\ log \in Seq(Entries)

FileInv == FilesTypeOK /\ Untold /\ OutcomeOnFile

IInv ==
    /\ TypeOK
    /\ rec \in Record
    /\ Unborn
    /\ Started
    /\ FileInv
    /\ SignatureCovers
    /\ QuorumDecides

(* The files after a step that resolves the checkpoint. *)
LEMMA OutcomeFiles ==
    ASSUME FileInv, creating # "absent", creating' = creating,
           rec.status = Waiting, rec'.status # Waiting,
           NEW a, NEW p, EndsIn(a, rec'.status), EndsIn(p, rec'.status),
           Write(a, p)
    PROVE  FileInv'
<1>1. PICK k1 : log' = log \o Written(p, k1)
  BY DEF Write
<1>2. PICK k2 : trail' = trail \o Written(a, k2)
  BY DEF Write
<1>3. /\ log \in Seq(Entries) /\ trail \in Seq(Entries)
      /\ Quiet(log) /\ Quiet(trail) /\ Len(log) > 0 /\ Len(trail) > 0
  BY DEF FileInv, FilesTypeOK, Untold
<1>4. log' \in Seq(Entries) /\ Tells(log', rec'.status)
  <2>1. Extends(log, p, log')
    BY <1>1, <1>3, WrittenIs DEF EndsIn
  <2> QED
    BY <1>3, <2>1, OutcomeWrite DEF EndsIn
<1>5. trail' \in Seq(Entries) /\ Tells(trail', rec'.status)
  <2>1. Extends(trail, a, trail')
    BY <1>2, <1>3, WrittenIs DEF EndsIn
  <2> QED
    BY <1>3, <2>1, OutcomeWrite DEF EndsIn
<1>6. Len(trail') > 0 /\ Len(log') > 0
  BY <1>4, <1>5, LenProperties DEF Tells
<1>7. OutcomeOnFile'
  BY <1>4, <1>5 DEF OutcomeOnFile, Tells, Outcome, Resolved
<1> QED
  BY <1>4, <1>5, <1>6, <1>7 DEF FileInv, FilesTypeOK, Untold

(* The files after a step that writes and leaves it waiting. *)
LEMMA QuietFiles ==
    ASSUME FilesTypeOK, Quiet(trail), Quiet(log),
           rec'.status = Waiting, rec'.reviewer = Nobody,
           NEW a \in Seq(Entries), NEW p \in Seq(Entries),
           Len(trail) + Len(a) > 0, Len(log) + Len(p) > 0,
           Quiet(a), Quiet(p), Write(a, p)
    PROVE  FileInv'
<1>1. PICK k1 : log' = log \o Written(p, k1)
  BY DEF Write
<1>2. PICK k2 : trail' = trail \o Written(a, k2)
  BY DEF Write
<1>3. log' \in Seq(Entries) /\ Quiet(log') /\ Len(log') > 0
  <2>1. Extends(log, p, log')
    BY <1>1, WrittenIs DEF FilesTypeOK
  <2> QED
    BY <2>1, QuietWrite DEF FilesTypeOK
<1>4. trail' \in Seq(Entries) /\ Quiet(trail') /\ Len(trail') > 0
  <2>1. Extends(trail, a, trail')
    BY <1>2, WrittenIs DEF FilesTypeOK
  <2> QED
    BY <2>1, QuietWrite DEF FilesTypeOK
<1>5. OutcomeOnFile'
  BY <1>3, <1>4 DEF OutcomeOnFile, Quiet, Outcome, Resolved
<1> QED
  BY <1>3, <1>4, <1>5 DEF FileInv, FilesTypeOK, Untold

(* A line has the kind it is given and the status of its record. *)
LEMMA EntryIs ==
    ASSUME NEW k \in Kind, NEW r \in Record
    PROVE  /\ Entry(k, r) \in Entries
           /\ Entry(k, r).kind = k
           /\ Entry(k, r).status = r.status
BY DEF Entry, Entries, Record

(* A line about the outcome ends what is written. *)
LEMMA EndingIs ==
    ASSUME NEW k \in Outcome, NEW r \in Record, NEW q \in Record
    PROVE  /\ EndsIn(<<Entry(k, r)>>, r.status)
           /\ EndsIn(<<Entry("approval", q), Entry(k, r)>>, r.status)
<1>1. k \in Kind /\ "approval" \in Kind /\ "approval" \notin Outcome
  BY DEF Outcome, Kind
<1>2. /\ Entry(k, r) \in Entries /\ Entry(k, r).kind \in Outcome
      /\ Entry(k, r).status = r.status
      /\ Entry("approval", q) \in Entries
      /\ Entry("approval", q).kind \notin Outcome
  BY <1>1, EntryIs
<1>3. ASSUME NEW e \in Entries, e.kind \in Outcome
      PROVE  EndsIn(<<e>>, e.status)
  BY <1>3 DEF EndsIn
<1>4. ASSUME NEW d \in Entries, d.kind \notin Outcome,
             NEW e \in Entries, e.kind \in Outcome
      PROVE  EndsIn(<<d, e>>, e.status)
  <2> DEFINE es == <<d, e>>
  <2>1. es \in Seq(Entries) /\ Len(es) = 2 /\ es[1] = d /\ es[2] = e
    OBVIOUS
  <2> HIDE DEF es
  <2>2. EndsIn(es, e.status)
    BY <1>4, <2>1 DEF EndsIn
  <2> QED
    BY <2>2 DEF es
<1> QED
  BY <1>2, <1>3, <1>4

(* A checkpoint nobody created satisfies the invariant. *)
LEMMA InitIInv == Init => IInv
<1> SUFFICES ASSUME Init PROVE IInv
  OBVIOUS
<1>1. rec = [status |-> Waiting, approvals |-> <<>>, reviewer |-> Nobody,
             signature |-> {}]
  BY DEF Init, Blank
<1>2. rec \in Record
  BY <1>1 DEF Record, Status
<1>3. trail \in Seq(Entries) /\ log \in Seq(Entries)
  BY DEF Init
<1>4. TypeOK
  <2>1. creating \in {"absent", "notifying", "created", "interrupted"}
        /\ alive \in BOOLEAN /\ pending \in 0 .. Connectors
    BY CheckpointAssumption DEF Init
  <2>2. timer \in [Rule -> {"none", "asleep", "notifying", "done"}]
    BY DEF Init
  <2>3. signing \in BOOLEAN /\ required \in 1 .. MaxRequired
        /\ policy \in [Rule -> OnTimeout \cup {"notify"}]
    BY DEF Init
  <2> QED
    BY <1>2, <1>3, <2>1, <2>2, <2>3 DEF TypeOK, Record, Entries
<1>5. Unborn /\ Started
  BY DEF Unborn, Started, Init
<1>6. FileInv
  <2>1. /\ creating = "absent" /\ rec.status = Waiting /\ rec.reviewer = Nobody
        /\ trail = <<>> /\ log = <<>>
    BY <1>1 DEF Init
  <2> QED
    BY <1>3, <2>1
    DEF FileInv, FilesTypeOK, Untold, OutcomeOnFile, Quiet, Resolved
<1>7. SignatureCovers
  BY <1>1 DEF SignatureCovers, Verifies
<1>8. QuorumDecides
  <2>1. Approvals(rec) = 0
    <3>1. {i \in DOMAIN rec.approvals : rec.approvals[i].decision = "approved"} = {}
      BY <1>1
    <3> QED
      BY <3>1, FS_EmptySet DEF Approvals
  <2>2. rec.status = Waiting /\ rec.reviewer = Nobody /\ Nobody # System
    BY <1>1 DEF Nobody, System
  <2>3. required \in Nat \ {0}
    BY CheckpointAssumption DEF Init
  <2> QED
    BY <1>1, <2>1, <2>2, <2>3 DEF QuorumDecides, Resolved, Waiting
<1> QED
  BY <1>2, <1>4, <1>5, <1>6, <1>7, <1>8 DEF IInv

Kept == UNCHANGED <<config, rec, files>>

(* A step that leaves record and files alone, and timers that are done. *)
LEMMA QuietStep ==
    ASSUME IInv, Kept, TypeOK', Started',
           (creating' = "absent") <=> (creating = "absent"),
           \A r \in Rule : timer[r] = "done" => timer'[r] = "done"
    PROVE  IInv'
<1>1. rec' = rec /\ trail' = trail /\ log' = log /\ required' = required
      /\ policy' = policy
  BY DEF Kept, config, files
<1>2. rec' \in Record /\ Unborn' /\ SignatureCovers'
  BY <1>1 DEF IInv, Unborn, SignatureCovers, Verifies, Content, Resolved
<1>3. FileInv'
  BY <1>1 DEF IInv, FileInv, FilesTypeOK, Untold, OutcomeOnFile, Resolved
<1>4. QuorumDecides'
  BY <1>1 DEF IInv, QuorumDecides, Approvals, Resolved
<1> QED
  BY <1>2, <1>3, <1>4 DEF IInv

(* create_checkpoint() makes it satisfy the invariant as a waiting one. *)
LEMMA CreateStep == IInv /\ Create => IInv'
<1> SUFFICES ASSUME IInv, Create PROVE IInv'
  OBVIOUS
<1>1. /\ rec = Blank /\ trail = <<>> /\ log = <<>> /\ rec \in Record
      /\ signing \in BOOLEAN
  BY DEF IInv, Unborn, Create, TypeOK
<1>2. rec.status = Waiting /\ rec.approvals = <<>> /\ rec.reviewer = Nobody
  BY <1>1 DEF Blank
<1>3. /\ rec' \in Record /\ rec'.status = Waiting
      /\ rec'.approvals = rec.approvals /\ rec'.reviewer = rec.reviewer
      /\ Verifies(rec')
  BY <1>1, <1>2, SignedIs DEF Create
<1>4. FileInv'
  <2> DEFINE e == Entry("created", rec)
  <2>1. e \in Entries /\ e.kind \notin Outcome
    BY <1>1, EntryIs DEF Kind, Outcome
  <2>2. Write(<<e>>, <<e>>)
    BY DEF Create
  <2> HIDE DEF e
  <2>3. <<e>> \in Seq(Entries) /\ Quiet(<<e>>) /\ Len(<<e>>) = 1
    BY <2>1 DEF Quiet
  <2>4. FilesTypeOK /\ Quiet(trail) /\ Quiet(log) /\ Len(trail) = 0 /\ Len(log) = 0
    BY <1>1 DEF IInv, FileInv, Quiet
  <2>5. Len(trail) + Len(<<e>>) > 0 /\ Len(log) + Len(<<e>>) > 0
    BY <2>3, <2>4
  <2>6. rec'.status = Waiting /\ rec'.reviewer = Nobody
    BY <1>2, <1>3
  <2> QED
    BY <2>2, <2>3, <2>4, <2>5, <2>6, QuietFiles
<1>5. TypeOK'
  <2>1. creating' = "notifying" /\ pending' = Connectors /\ Connectors \in 0 .. Connectors
    BY CheckpointAssumption DEF Create
  <2>2. UNCHANGED <<signing, required, policy, timer, alive>>
    BY DEF Create, config
  <2>3. /\ rec'.status \in Status /\ rec'.approvals \in Seq(Approval)
        /\ rec'.reviewer \in Reviewer \cup {System, Nobody}
    BY <1>3 DEF Record
  <2> QED
    BY <1>4, <2>1, <2>2, <2>3 DEF IInv, TypeOK, FileInv, FilesTypeOK, Entries
<1>6. Unborn' /\ Started'
  BY CheckpointAssumption DEF IInv, Unborn, Started, Create
<1>7. SignatureCovers'
  BY <1>3 DEF SignatureCovers
<1>8. QuorumDecides'
  <2>1. Approvals(rec') = Approvals(rec) /\ required' = required
    BY <1>3 DEF Approvals, Create, config
  <2> QED
    BY <1>2, <1>3, <2>1
    DEF IInv, QuorumDecides, Resolved, Nobody, System, Waiting
<1> QED
  BY <1>3, <1>4, <1>5, <1>6, <1>7, <1>8 DEF IInv

(* What is true while a checkpoint is open. *)
LEMMA OpenIs ==
    ASSUME IInv, Open
    PROVE  /\ rec \in Record /\ signing \in BOOLEAN
           /\ rec.status = Waiting /\ rec.reviewer = Nobody
           /\ creating # "absent"
           /\ FilesTypeOK /\ FileInv /\ Quiet(trail) /\ Quiet(log)
           /\ Len(trail) > 0 /\ Len(log) > 0
           /\ Approvals(rec) < required
           /\ ~\E i \in DOMAIN rec.approvals :
                  rec.approvals[i].decision = "rejected"
BY DEF IInv, Open, TypeOK, FileInv, Untold, QuorumDecides, Resolved

(* An approval either leaves it waiting or is the one that was missing. *)
LEMMA ApproveStep ==
    ASSUME IInv, NEW v \in Reviewer, Approve(v) PROVE IInv'
<1> DEFINE noted == Noted(rec, v, "approved")
           done == Resolve(noted, "approved", v)
           Rejected(r) == \E i \in DOMAIN r.approvals :
                             r.approvals[i].decision = "rejected"
<1>0. Open /\ UNCHANGED <<signing, required, policy, creating, pending, timer, alive>>
  BY DEF Approve, config
<1>1. /\ rec \in Record /\ signing \in BOOLEAN
      /\ rec.status = Waiting /\ rec.reviewer = Nobody
      /\ creating # "absent" /\ FilesTypeOK /\ FileInv
      /\ Quiet(trail) /\ Quiet(log)
      /\ Len(trail) > 0 /\ Len(log) > 0 /\ Approvals(rec) < required
      /\ ~Rejected(rec)
  BY <1>0, OpenIs
<1>2. /\ noted \in Record /\ noted.status = Waiting
      /\ noted.reviewer = rec.reviewer
      /\ noted.approvals
           = Append(rec.approvals, [by |-> v, decision |-> "approved"])
  BY <1>1, NotedIs DEF Decided
<1>3. Approvals(rec) \in Nat /\ Approvals(noted) = Approvals(rec) + 1
  BY <1>1, ApprovalCounts
<1>4. noted.approvals # <<>> /\ ~Rejected(noted)
  <2> DEFINE a == rec.approvals
             b == [by |-> v, decision |-> "approved"]
  <2>1. a \in Seq(Approval) /\ b.decision # "rejected"
    BY <1>1 DEF Record
  <2>2. noted.approvals = Append(a, b)
    BY <1>2
  <2>3. ~\E i \in DOMAIN a : a[i].decision = "rejected"
    BY <1>1
  <2> HIDE DEF a, b, noted
  <2>4. /\ Append(a, b) # <<>>
        /\ DOMAIN Append(a, b) = 1 .. (Len(a) + 1) /\ DOMAIN a = 1 .. Len(a)
        /\ Len(a) \in Nat
        /\ \A i \in 1 .. Len(a) : Append(a, b)[i] = a[i]
        /\ Append(a, b)[Len(a) + 1] = b
    BY <2>1
  <2>5. ASSUME NEW i \in DOMAIN noted.approvals
        PROVE  noted.approvals[i].decision # "rejected"
    <3>1. CASE i = Len(a) + 1
      BY <2>1, <2>2, <2>4, <3>1
    <3>2. CASE i # Len(a) + 1
      <4>1. i \in DOMAIN a /\ noted.approvals[i] = a[i]
        BY <2>2, <2>4, <2>5, <3>2
      <4> QED
        BY <2>3, <4>1
    <3> QED
      BY <3>1, <3>2
  <2> QED
    BY <2>2, <2>4, <2>5
<1>5. required \in Nat
  BY CheckpointAssumption DEF IInv, TypeOK
<1>6. v # System /\ v \in Reviewer \cup {System, Nobody}
      /\ "approved" \in Status /\ "approved" # Waiting
  BY CheckpointAssumption DEF System, Status, Waiting, Decided
<1>7. /\ done \in Record /\ done.status = "approved"
      /\ done.approvals = noted.approvals /\ done.reviewer = v
      /\ Verifies(done)
  BY <1>1, <1>2, <1>6, ResolveIs
<1>8. \/ /\ Enough(noted) /\ rec' = done
         /\ Write(<<Entry("approval", noted), Entry("resolved", done)>>,
                  <<Entry("resolved", done)>>)
      \/ /\ ~Enough(noted) /\ rec' = noted
         /\ Write(<<Entry("approval", noted)>>, <<>>)
  BY DEF Approve
<1> HIDE DEF noted, done, Rejected
<1>9. CASE Enough(noted) /\ rec' = done
           /\ Write(<<Entry("approval", noted), Entry("resolved", done)>>,
                    <<Entry("resolved", done)>>)
  <2>1. FileInv'
    <3>1. "resolved" \in Outcome
      BY DEF Outcome
    <3>2. /\ EndsIn(<<Entry("resolved", done)>>, rec'.status)
          /\ EndsIn(<<Entry("approval", noted), Entry("resolved", done)>>, rec'.status)
      BY <1>2, <1>7, <1>9, <3>1, EndingIs
    <3>3. creating' = creating /\ rec'.status # Waiting
      BY <1>0, <1>6, <1>7, <1>9
    <3> QED
      BY <1>1, <1>9, <3>2, <3>3, OutcomeFiles
  <2>2. Approvals(rec') = Approvals(noted)
    BY <1>7, <1>9 DEF Approvals
  <2>3. Approvals(rec') = required'
    BY <1>0, <1>1, <1>3, <1>5, <1>9, <2>2 DEF Enough
  <2>4. QuorumDecides'
    BY <1>4, <1>6, <1>7, <1>9, <2>3 DEF QuorumDecides, Resolved, Rejected
  <2>5. SignatureCovers'
    BY <1>7, <1>9 DEF SignatureCovers
  <2>6. TypeOK'
    BY <1>0, <1>7, <1>9, <2>1 DEF IInv, TypeOK, FileInv, FilesTypeOK, Entries, Record
  <2> QED
    BY <1>0, <1>1, <1>7, <1>9, <2>1, <2>4, <2>5, <2>6 DEF IInv, Unborn, Started
<1>10. CASE ~Enough(noted) /\ rec' = noted
            /\ Write(<<Entry("approval", noted)>>, <<>>)
  <2>1. FileInv'
    <3> DEFINE e == Entry("approval", noted)
    <3>1. e \in Entries /\ e.kind \notin Outcome
      BY <1>2, EntryIs DEF Kind, Outcome
    <3>2. Write(<<e>>, <<>>)
      BY <1>10
    <3> HIDE DEF e
    <3>3. <<e>> \in Seq(Entries) /\ Quiet(<<e>>) /\ Len(<<e>>) = 1
      BY <3>1 DEF Quiet
    <3>4. <<>> \in Seq(Entries) /\ Quiet(<<>>) /\ Len(<<>>) = 0
      BY DEF Quiet
    <3>5. Len(trail) + Len(<<e>>) > 0 /\ Len(log) + Len(<<>>) > 0
      BY <1>1, <3>3, <3>4, LenProperties DEF FilesTypeOK
    <3>6. rec'.status = Waiting /\ rec'.reviewer = Nobody
      BY <1>1, <1>2, <1>10
    <3> QED
      BY <1>1, <3>2, <3>3, <3>4, <3>5, <3>6, QuietFiles
  <2>2. QuorumDecides'
    <3>1. Approvals(rec') < required'
      BY <1>0, <1>3, <1>5, <1>10 DEF Enough
    <3>2. rec'.reviewer = Nobody /\ Nobody # System
      BY <1>1, <1>2, <1>10 DEF Nobody, System
    <3> QED
      BY <1>2, <1>4, <1>10, <3>1, <3>2 DEF QuorumDecides, Resolved, Rejected, Waiting
  <2>3. SignatureCovers'
    BY <1>2, <1>4, <1>10 DEF SignatureCovers, Resolved
  <2>4. TypeOK'
    BY <1>0, <1>2, <1>10, <2>1 DEF IInv, TypeOK, FileInv, FilesTypeOK, Entries, Record
  <2> QED
    BY <1>0, <1>1, <1>2, <1>10, <2>1, <2>2, <2>3, <2>4 DEF IInv, Unborn, Started
<1> QED
  BY <1>8, <1>9, <1>10

(* One rejection resolves. *)
LEMMA RejectStep ==
    ASSUME IInv, NEW v \in Reviewer, Reject(v) PROVE IInv'
<1> DEFINE noted == Noted(rec, v, "rejected")
           done == Resolve(noted, "rejected", v)
<1>0. Open /\ UNCHANGED <<signing, required, policy, creating, pending, timer, alive>>
  BY DEF Reject, config
<1>1. rec \in Record /\ signing \in BOOLEAN /\ rec.status = Waiting
      /\ creating # "absent" /\ FileInv
  BY <1>0, OpenIs
<1>2. noted \in Record
  BY <1>1, NotedIs DEF Decided
<1>3. v # System /\ v \in Reviewer \cup {System, Nobody}
      /\ "rejected" \in Status /\ "rejected" # Waiting /\ "rejected" # "approved"
  BY CheckpointAssumption DEF System, Status, Waiting, Decided
<1>4. /\ done \in Record /\ done.status = "rejected" /\ done.reviewer = v
      /\ Verifies(done)
  BY <1>1, <1>2, <1>3, ResolveIs
<1>5. rec' = done
      /\ Write(<<Entry("resolved", done)>>, <<Entry("resolved", done)>>)
  BY DEF Reject
<1> HIDE DEF noted, done
<1>6. FileInv'
  <2>1. "resolved" \in Outcome
    BY DEF Outcome
  <2>2. EndsIn(<<Entry("resolved", done)>>, rec'.status)
    BY <1>4, <1>5, <2>1, EndingIs
  <2>3. creating' = creating /\ rec'.status # Waiting
    BY <1>0, <1>3, <1>4, <1>5
  <2> QED
    BY <1>1, <1>5, <2>2, <2>3, OutcomeFiles
<1>7. QuorumDecides'
  BY <1>3, <1>4, <1>5 DEF QuorumDecides, Resolved
<1>8. SignatureCovers'
  BY <1>4, <1>5 DEF SignatureCovers
<1>9. TypeOK'
  BY <1>0, <1>4, <1>5, <1>6 DEF IInv, TypeOK, FileInv, FilesTypeOK, Entries, Record
<1> QED
  BY <1>0, <1>1, <1>4, <1>5, <1>6, <1>7, <1>8, <1>9 DEF IInv, Unborn, Started

(* A rule that wakes resolves, notifies or finds it resolved. *)
LEMMA TimerStep ==
    ASSUME IInv, NEW r \in Rule, TimerFires(r) PROVE IInv'
<1>0. /\ UNCHANGED <<signing, required, policy, creating, pending, alive>>
      /\ timer[r] = "asleep"
      /\ timer' = [timer EXCEPT ![r] = IF Overdue /\ policy[r] = "notify"
                                       THEN "notifying" ELSE "done"]
  BY DEF TimerFires, config
<1>1. /\ rec \in Record /\ signing \in BOOLEAN /\ FileInv
      /\ timer \in [Rule -> {"none", "asleep", "notifying", "done"}]
      /\ policy \in [Rule -> OnTimeout \cup {"notify"}]
  BY DEF IInv, TypeOK
<1>2. timer' \in [Rule -> {"none", "asleep", "notifying", "done"}]
  BY <1>0, <1>1
<1>5. Started'
  BY <1>0, <1>1 DEF IInv, Started
<1>3. CASE Overdue /\ policy[r] # "notify"
  <2> DEFINE done == Resolve(rec, Verdict(policy[r]), System)
  <2>1. rec' = done
        /\ Write(<<Entry("timeout", done)>>, <<Entry("timeout", done)>>)
    BY <1>3 DEF TimerFires
  <2>2. Verdict(policy[r]) \in Status /\ Verdict(policy[r]) # Waiting
    <3>1. policy[r] \in OnTimeout
      BY <1>1, <1>3
    <3> QED
      BY <3>1, VerdictIs
  <2>3. /\ done \in Record /\ done.status = Verdict(policy[r])
        /\ done.reviewer = System /\ Verifies(done)
    BY <1>1, <2>2, ResolveIs
  <2> HIDE DEF done
  <2>4. creating # "absent"
    BY <1>0 DEF IInv, Started
  <2>5. FileInv'
    <3>1. "timeout" \in Outcome
      BY DEF Outcome
    <3>2. EndsIn(<<Entry("timeout", done)>>, rec'.status)
      BY <2>1, <2>3, <3>1, EndingIs
    <3>3. creating' = creating /\ rec.status = Waiting /\ rec'.status # Waiting
      BY <1>0, <1>3, <2>1, <2>2, <2>3 DEF Overdue
    <3> QED
      BY <1>1, <2>1, <2>4, <3>2, <3>3, OutcomeFiles
  <2>6. timer'[r] = "done" /\ policy' = policy
    BY <1>0, <1>1, <1>3
  <2>7. QuorumDecides'
    BY <2>1, <2>2, <2>3, <2>6 DEF QuorumDecides, Resolved
  <2>8. SignatureCovers'
    BY <2>1, <2>3 DEF SignatureCovers
  <2>9. TypeOK'
    BY <1>0, <1>2, <2>1, <2>3, <2>5
    DEF IInv, TypeOK, FileInv, FilesTypeOK, Entries, Record
  <2> QED
    BY <1>0, <1>5, <2>1, <2>3, <2>4, <2>5, <2>7, <2>8, <2>9 DEF IInv, Unborn
<1>4. CASE ~(Overdue /\ policy[r] # "notify")
  <2>1. Kept
    BY <1>4 DEF TimerFires, Kept
  <2>2. TypeOK'
    BY <1>0, <1>2, <2>1 DEF IInv, TypeOK, Kept, files
  <2>3. \A q \in Rule : timer[q] = "done" => timer'[q] = "done"
    BY <1>0, <1>1
  <2> QED
    BY <1>0, <1>5, <2>1, <2>2, <2>3, QuietStep
<1> QED
  BY <1>3, <1>4

(* The other steps: connectors, the end of a notification, a crash. *)
LEMMA OtherStep ==
    ASSUME IInv,
           \/ Notified \/ Interrupted \/ Crash
           \/ \E r \in Rule : TimerNotified(r)
           \/ UNCHANGED vars
    PROVE  IInv'
<1>0. /\ TypeOK /\ Started
      /\ timer \in [Rule -> {"none", "asleep", "notifying", "done"}]
      /\ pending \in 0 .. Connectors /\ Connectors \in Nat
  BY CheckpointAssumption DEF IInv, TypeOK
<1>1. CASE Notified
  <2>1. Kept /\ UNCHANGED alive /\ creating = "notifying"
    BY <1>1 DEF Notified, Kept
  <2>2. pending' \in 0 .. Connectors
    BY <1>0, <1>1, <2>1 DEF Notified, Started
  <2>3. \/ pending' > 0 /\ UNCHANGED <<creating, timer>>
        \/ creating' = "created" /\ timer' = [r \in Rule |-> "asleep"]
    BY <1>1 DEF Notified
  <2>4. TypeOK'
    <3>1. timer' \in [Rule -> {"none", "asleep", "notifying", "done"}]
          /\ creating' \in {"absent", "notifying", "created", "interrupted"}
      BY <1>0, <2>1, <2>3
    <3> QED
      BY <1>0, <2>1, <2>2, <3>1 DEF TypeOK, Kept, config, files
  <2>5. Started'
    BY <1>0, <2>1, <2>3 DEF Started
  <2>6. \A r \in Rule : timer[r] = "done" => timer'[r] = "done"
    BY <1>0, <2>1 DEF Started
  <2>7. (creating' = "absent") <=> (creating = "absent")
    BY <2>1, <2>3
  <2> QED
    BY <2>1, <2>4, <2>5, <2>6, <2>7, QuietStep
<1>2. CASE Interrupted
  <2>1. Kept /\ UNCHANGED <<pending, timer, alive>> /\ creating = "notifying"
        /\ creating' = "interrupted"
    BY <1>2 DEF Interrupted, Kept
  <2>2. TypeOK'
    BY <1>0, <2>1 DEF TypeOK, Kept, config, files
  <2>3. Started'
    BY <1>0, <2>1 DEF Started
  <2> QED
    BY <2>1, <2>2, <2>3, QuietStep
<1>3. CASE Crash
  <2>1. Kept /\ UNCHANGED <<creating, pending, timer>> /\ alive' = FALSE
    BY <1>3 DEF Crash, Kept
  <2>2. TypeOK'
    <3>1. alive' \in BOOLEAN
      BY <2>1
    <3> QED
      BY <1>0, <2>1, <3>1 DEF TypeOK, Kept, config, files
  <2>3. Started'
    BY <1>0, <2>1 DEF Started
  <2> QED
    BY <2>1, <2>2, <2>3, QuietStep
<1>4. CASE \E r \in Rule : TimerNotified(r)
  <2>1. PICK r \in Rule : TimerNotified(r)
    BY <1>4
  <2>2. Kept /\ UNCHANGED <<creating, pending, alive>> /\ timer[r] = "notifying"
        /\ timer' = [timer EXCEPT ![r] = "done"]
    BY <2>1 DEF TimerNotified, Kept
  <2>3. TypeOK'
    <3>1. timer' \in [Rule -> {"none", "asleep", "notifying", "done"}]
      BY <1>0, <2>2
    <3> QED
      BY <1>0, <2>2, <3>1 DEF TypeOK, Kept, config, files
  <2>4. Started'
    BY <1>0, <2>2 DEF Started
  <2>5. \A q \in Rule : timer[q] = "done" => timer'[q] = "done"
    BY <1>0, <2>2
  <2> QED
    BY <2>2, <2>3, <2>4, <2>5, QuietStep
<1>5. CASE UNCHANGED vars
  <2>1. Kept /\ UNCHANGED <<creating, pending, timer, alive>>
    BY <1>5 DEF vars, Kept
  <2>2. TypeOK'
    BY <1>0, <2>1 DEF TypeOK, Kept, config, files
  <2>3. Started'
    BY <1>0, <2>1 DEF Started
  <2> QED
    BY <2>1, <2>2, <2>3, QuietStep
<1> QED
  BY <1>1, <1>2, <1>3, <1>4, <1>5

(* The invariant the theorems rest on. *)
LEMMA InductiveInvariant == Spec => []IInv
<1>1. IInv /\ [Next]_vars => IInv'
  <2> SUFFICES ASSUME IInv, [Next]_vars PROVE IInv'
    OBVIOUS
  <2>1. CASE Create
    BY <2>1, CreateStep
  <2>2. CASE \E v \in Reviewer : Approve(v) \/ Reject(v)
    BY <2>2, ApproveStep, RejectStep
  <2>3. CASE \E r \in Rule : TimerFires(r)
    BY <2>3, TimerStep
  <2>4. CASE \/ Notified \/ Interrupted \/ Crash
             \/ \E r \in Rule : TimerNotified(r)
             \/ UNCHANGED vars
    BY <2>4, OtherStep
  <2> QED
    BY <2>1, <2>2, <2>3, <2>4 DEF Next
<1> QED
  BY <1>1, InitIInv, PTL DEF Spec

-----------------------------------------------------------------------------
(* The theorems. *)

(* Every variable keeps its type (checkpoint_service.py:48-133). *)
THEOREM TypeCorrect == Spec => []TypeOK
<1>1. IInv => TypeOK
  BY DEF IInv
<1> QED
  BY <1>1, InductiveInvariant, PTL

(* A checkpoint is decided by the required approvals, by one rejection or  *)
(* by a rule that fired, and waits exactly until then                      *)
(* (checkpoint_service.py:250-274, 364-409).                               *)
THEOREM QuorumAlwaysDecides == Spec => []QuorumDecides
<1>1. IInv => QuorumDecides
  BY DEF IInv
<1> QED
  BY <1>1, InductiveInvariant, PTL

(* The signature covers the record of every resolved checkpoint: it fails  *)
(* only while approvals wait for more (checkpoint_service.py:128-141,      *)
(* 289-299, 380-382).                                                      *)
THEOREM ResolvedVerifies == Spec => []SignatureCovers
<1>1. IInv => SignatureCovers
  BY DEF IInv
<1> QED
  BY <1>1, InductiveInvariant, PTL

(* What the audit and the checkpoint log say of the outcome is the outcome *)
(* and the last thing they say (checkpoint_service.py:206-244).            *)
THEOREM FilesTellOutcome == Spec => []OutcomeOnFile
<1>1. IInv => OutcomeOnFile
  BY DEF IInv, FileInv
<1> QED
  BY <1>1, InductiveInvariant, PTL

(* The first resolution is final: no later answer and no rule that wakes   *)
(* changes the record (checkpoint_service.py:250-265, 374-378, 398-402).   *)
THEOREM FirstStands == Spec => FirstResolutionStands
<1>1. IInv /\ [Next]_vars => [Resolved => rec' = rec]_vars
  <2> SUFFICES ASSUME IInv, Next, Resolved PROVE rec' = rec
    BY DEF vars
  <2>1. ~Create
    BY DEF Create, IInv, Unborn, Resolved, Blank
  <2>2. \A v \in Reviewer : ~Approve(v) /\ ~Reject(v)
    BY DEF Approve, Reject, Open, Resolved
  <2>3. ASSUME NEW r \in Rule, TimerFires(r) PROVE rec' = rec
    BY <2>3 DEF TimerFires, Overdue, Resolved
  <2>4. ASSUME \/ Notified \/ Interrupted \/ Crash
               \/ \E r \in Rule : TimerNotified(r)
        PROVE  rec' = rec
    BY <2>4 DEF Notified, Interrupted, Crash, TimerNotified
  <2> QED
    BY <2>1, <2>2, <2>3, <2>4 DEF Next
<1> QED
  BY <1>1, InductiveInvariant, PTL DEF Spec, FirstResolutionStands

(* Once creation is through, a checkpoint that waits has every rule that   *)
(* can resolve it still asleep, and its task is what will wake it.         *)
RulesAwake ==
    creating = "created" /\ ~Resolved =>
        \A r \in Rule : policy[r] # "notify" => timer[r] = "asleep"

(* No rule is used up without a decision: what EscalationResolves, which   *)
(* the model checker shows, rests on.  A rule ends without having resolved *)
(* the checkpoint only if somebody else had                                *)
(* (checkpoint_service.py:250-265, 276-283).                               *)
THEOREM RulesKeepWatch == Spec => []RulesAwake
<1>1. Init => RulesAwake
  BY DEF Init, RulesAwake
<1>2. IInv /\ RulesAwake /\ [Next]_vars => RulesAwake'
  <2> SUFFICES ASSUME IInv, RulesAwake, [Next]_vars PROVE RulesAwake'
    OBVIOUS
  <2> USE DEF RulesAwake, Resolved
  <2>0. timer \in [Rule -> {"none", "asleep", "notifying", "done"}]
    BY DEF IInv, TypeOK
  <2>1. CASE Create
    BY <2>1 DEF Create
  <2>2. CASE Notified
    BY <2>2 DEF Notified, config
  <2>3. CASE Interrupted \/ Crash
    BY <2>3 DEF Interrupted, Crash, config
  <2>4. ASSUME NEW v \in Reviewer, Approve(v) \/ Reject(v) PROVE RulesAwake'
    <3>1. rec.status = Waiting /\ UNCHANGED <<creating, policy, timer>>
      BY <2>4 DEF Approve, Reject, Open, config
    <3> QED
      BY <3>1
  <2>5. ASSUME NEW r \in Rule, TimerFires(r) PROVE RulesAwake'
    <3>1. /\ UNCHANGED <<creating, policy>>
          /\ \A q \in Rule \ {r} : timer'[q] = timer[q]
      BY <2>0, <2>5 DEF TimerFires, config
    <3>2. CASE Overdue /\ policy[r] # "notify"
      <4>1. rec' = Resolve(rec, Verdict(policy[r]), System)
        BY <2>5, <3>2 DEF TimerFires
      <4>2. policy[r] \in OnTimeout /\ rec \in Record /\ signing \in BOOLEAN
        BY <3>2 DEF IInv, TypeOK
      <4>3. rec'.status # Waiting
        BY <4>1, <4>2, VerdictIs, ResolveIs
      <4> QED
        BY <4>3
    <3>3. CASE ~(Overdue /\ policy[r] # "notify")
      <4>1. rec' = rec
        BY <2>5, <3>3 DEF TimerFires
      <4> QED
        BY <3>1, <3>3, <4>1 DEF Overdue
    <3> QED
      BY <3>2, <3>3
  <2>6. ASSUME NEW r \in Rule, TimerNotified(r) PROVE RulesAwake'
    BY <2>0, <2>6 DEF TimerNotified, config
  <2>7. CASE UNCHANGED vars
    BY <2>7 DEF vars, config
  <2> QED
    BY <2>1, <2>2, <2>3, <2>4, <2>5, <2>6, <2>7 DEF Next
<1> QED
  BY <1>1, <1>2, InductiveInvariant, PTL DEF Spec

=============================================================================
