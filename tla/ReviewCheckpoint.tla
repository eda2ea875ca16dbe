-------------------------- MODULE ReviewCheckpoint --------------------------
(***************************************************************************)
(* One human-in-the-loop checkpoint (crp_mcp/checkpoint_service.py): it is *)
(* created and its review channels notified, reviewers approve or reject   *)
(* it, and escalation rules notify more channels or resolve it when nobody *)
(* has answered.  Checkpoints share nothing but the files they append to.  *)
(*                                                                         *)
(* Everything runs on one event loop, so a handler is one step up to its   *)
(* next await: the call of a connector, or the sleep of a rule.  The       *)
(* record lives in memory only; the two files it is written to are never   *)
(* read back.  Delays are not numbers: rules may wake in any order.        *)
(***************************************************************************)
EXTENDS Integers, Sequences, FiniteSets

CONSTANTS
    Reviewer,
    Rule,           \* the escalation rules of the checkpoint
    Connectors,     \* how many connectors create_checkpoint() notifies
    MaxRequired     \* bound: required_approvers

ASSUME CheckpointAssumption ==
    /\ {Connectors, MaxRequired} \subseteq Nat \ {0}
    /\ "system" \notin Reviewer /\ "nobody" \notin Reviewer

VARIABLES
    signing,    \* CRP_MCP_AUDIT_HMAC_SECRET is set
    required,   \* required_approvers
    policy,     \* per rule: its on_timeout, or "notify" when it has none
    rec,        \* the CheckpointRecord
    creating,   \* where create_checkpoint() is
    pending,    \* connectors it has still to notify
    timer,      \* per rule: where its task is
    trail,      \* the audit log (CRP_MCP_AUDIT_LOG)
    log,        \* the checkpoint log (CRP_MCP_CHECKPOINT_LOG)
    alive       \* the process runs

config == <<signing, required, policy>>
files == <<trail, log>>
vars == <<config, rec, creating, pending, timer, files, alive>>

System == "system"
Nobody == "nobody"
Waiting == "waiting_for_human"
Decided == {"approved", "rejected"}
Approval == [by : Reviewer, decision : Decided]

(* The status a rule's on_timeout leads to: one that decision_map does not *)
(* know becomes the status as it is.                                       *)
decision_map == [reject |-> "rejected", approve |-> "approved"]

Verdict(onTimeout) ==
    IF onTimeout \in DOMAIN decision_map THEN decision_map[onTimeout] ELSE onTimeout

OnTimeout == {"approve", "reject", "hold"}
Status == {Waiting, "hold"} \cup Decided

(* What _canonical() covers, of what changes, and the signature over it:   *)
(* {} for none.                                                            *)
Content(r) == [status |-> r.status, approvals |-> r.approvals,
               reviewer |-> r.reviewer]

Signed(r) == [r EXCEPT !.signature = IF signing THEN {Content(r)} ELSE {}]

Verifies(r) == r.signature \subseteq {Content(r)}

Mut_Resolve(r, decision, who) ==
    [Signed([r EXCEPT !.status = decision]) EXCEPT !.reviewer = who]

Resolve(r, decision, who) ==
    Signed([r EXCEPT !.status = decision, !.reviewer = who])

Approvals(r) == Cardinality({i \in DOMAIN r.approvals :
                                r.approvals[i].decision = "approved"})

Noted(r, who, d) ==
    [r EXCEPT !.approvals = Append(@, [by |-> who, decision |-> d])]

(* A write that failed, which the code swallows, leaves a Hole: a reader   *)
(* of the file does not see it.                                            *)
Hole == [kind |-> "hole", status |-> Waiting]
Entry(kind, r) == [kind |-> kind, status |-> r.status]
Kind == {"created", "approval", "resolved", "timeout"}

TypeOK ==
    /\ signing \in BOOLEAN
    /\ required \in 1 .. MaxRequired
    /\ policy \in [Rule -> OnTimeout \cup {"notify"}]
    /\ rec.status \in Status
    /\ rec.approvals \in Seq(Approval)
    /\ rec.reviewer \in Reviewer \cup {System, Nobody}
    /\ creating \in {"absent", "notifying", "created", "interrupted"}
    /\ pending \in 0 .. Connectors
    /\ timer \in [Rule -> {"none", "asleep", "notifying", "done"}]
    /\ \A f \in {trail, log} :
          f \in Seq([kind : Kind \cup {"hole"}, status : Status])
    /\ alive \in BOOLEAN

Blank == [status |-> Waiting, approvals |-> <<>>, reviewer |-> Nobody,
          signature |-> {}]

Init ==
    /\ signing \in BOOLEAN
    /\ required \in 1 .. MaxRequired
    /\ policy \in [Rule -> OnTimeout \cup {"notify"}]
    /\ rec = Blank
    /\ creating = "absent"
    /\ pending = 0
    /\ timer = [r \in Rule |-> "none"]
    /\ trail = <<>> /\ log = <<>>
    /\ alive = TRUE

-----------------------------------------------------------------------------
(* Writing.  Each append may fail on its own.                              *)

Written(entries, kept) ==
    [i \in DOMAIN entries |-> IF i \in kept THEN entries[i] ELSE Hole]

Mut_Write(audited, persisted) ==
    /\ \E kept \in SUBSET DOMAIN persisted :
          log' = Written(persisted, kept)
    /\ \E kept \in SUBSET DOMAIN audited :
          trail' = trail \o Written(audited, kept)

Write(audited, persisted) ==
    /\ \E kept \in SUBSET DOMAIN persisted :
          log' = log \o Written(persisted, kept)
    /\ \E kept \in SUBSET DOMAIN audited :
          trail' = trail \o Written(audited, kept)

(* create_checkpoint(), up to the first connector. *)
Create ==
    /\ alive /\ creating = "absent"
    /\ creating' = "notifying"
    /\ pending' = Connectors
    /\ rec' = Signed(rec)
    /\ Write(<<Entry("created", rec)>>, <<Entry("created", rec)>>)
    /\ UNCHANGED <<config, timer, alive>>

(* A connector answers or raises, which is the same to the caller.  After  *)
(* the last one the tasks of all rules are started.                        *)
Mut_Notified ==
    /\ alive /\ creating = "notifying"
    /\ pending' = pending - 1
    /\ IF pending' > 0
       THEN UNCHANGED <<creating, timer>>
       ELSE /\ creating' = "created"
            /\ timer' = IF rec.approvals = <<>>
                        THEN [r \in Rule |-> "asleep"] ELSE timer
    /\ UNCHANGED <<config, rec, files, alive>>

Notified ==
    /\ alive /\ creating = "notifying"
    /\ pending' = pending - 1
    /\ IF pending' > 0
       THEN UNCHANGED <<creating, timer>>
       ELSE /\ creating' = "created"
            /\ timer' = [r \in Rule |-> "asleep"]
    /\ UNCHANGED <<config, rec, files, alive>>

(* A connector hangs, or the caller's task is cancelled in one, which the  *)
(* `except Exception' does not catch.                                      *)
Interrupted ==
    /\ alive /\ creating = "notifying"
    /\ creating' = "interrupted"
    /\ UNCHANGED <<config, rec, pending, timer, files, alive>>

-----------------------------------------------------------------------------
(* Reviewers.  An answer to a checkpoint that is not waiting is refused.   *)

Open == alive /\ creating # "absent" /\ rec.status = Waiting

Mut_Enough(r) == Approvals(r) >= required - 1

Enough(r) == Approvals(r) >= required

Approve(v) ==
    /\ Open
    /\ LET noted == Noted(rec, v, "approved")
           done == Resolve(noted, "approved", v)
       IN  IF Enough(noted)
           THEN /\ rec' = done
                /\ Write(<<Entry("approval", noted), Entry("resolved", done)>>,
                         <<Entry("resolved", done)>>)
           ELSE /\ rec' = noted
                /\ Write(<<Entry("approval", noted)>>, <<>>)
    /\ UNCHANGED <<config, creating, pending, timer, alive>>

Reject(v) ==
    /\ Open
    /\ LET done == Resolve(Noted(rec, v, "rejected"), "rejected", v)
       IN  /\ rec' = done
           /\ Write(<<Entry("resolved", done)>>, <<Entry("resolved", done)>>)
    /\ UNCHANGED <<config, creating, pending, timer, alive>>

-----------------------------------------------------------------------------
(* Escalation. *)

Mut_Overdue == TRUE

(* What _escalate() finds after its sleep. *)
Overdue == rec.status = Waiting

TimerFires(r) ==
    /\ alive /\ timer[r] = "asleep"
    /\ IF Overdue /\ policy[r] # "notify"
       THEN LET done == Resolve(rec, Verdict(policy[r]), System)
            IN  /\ rec' = done
                /\ Write(<<Entry("timeout", done)>>, <<Entry("timeout", done)>>)
       ELSE UNCHANGED <<rec, files>>
    /\ timer' = [timer EXCEPT ![r] = IF Overdue /\ policy[r] = "notify"
                                     THEN "notifying" ELSE "done"]
    /\ UNCHANGED <<config, creating, pending, alive>>

TimerNotified(r) ==
    /\ alive /\ timer[r] = "notifying"
    /\ timer' = [timer EXCEPT ![r] = "done"]
    /\ UNCHANGED <<config, rec, creating, pending, files, alive>>

(* The process ends: the record and the tasks are no more.  They stay in   *)
(* the model as they were last.                                            *)
Crash ==
    /\ alive
    /\ alive' = FALSE
    /\ UNCHANGED <<config, rec, creating, pending, timer, files>>

-----------------------------------------------------------------------------
Next ==
    \/ Create \/ Notified \/ Interrupted \/ Crash
    \/ \E v \in Reviewer : Approve(v) \/ Reject(v)
    \/ \E r \in Rule : TimerFires(r) \/ TimerNotified(r)

Spec == Init /\ [][Next]_vars

(* Connectors that do not hang return, and the loop wakes sleepers.        *)
(* Reviewers need not answer.                                              *)
FairSpec ==
    /\ Spec
    /\ WF_vars(Notified)
    /\ \A r \in Rule : WF_vars(TimerFires(r))

-----------------------------------------------------------------------------
(* Properties. *)

Resolved == rec.status # Waiting

(* Whoever resolves a checkpoint first, a reviewer or an escalation rule,  *)
(* decides it: nothing changes the record of a resolved checkpoint.  The   *)
(* rules read the status again after they slept.                           *)
FirstResolutionStands == [][Resolved => rec' = rec]_vars

(* A checkpoint waits exactly as long as its approvals are fewer than      *)
(* required and nobody rejected it; it is approved by a reviewer only with *)
(* enough approvals and no rejection, else by a rule that says so.         *)
QuorumDecides ==
    LET rejected == \E i \in DOMAIN rec.approvals :
                        rec.approvals[i].decision = "rejected"
    IN  /\ ~Resolved => Approvals(rec) < required /\ ~rejected
        /\ rec.status = "approved" /\ rec.reviewer # System =>
              Approvals(rec) = required /\ ~rejected
        /\ rec.reviewer = System => \E r \in Rule :
              timer[r] = "done" /\ Verdict(policy[r]) = rec.status

(* "Tamper-evident checkpoint record": what a resolved checkpoint says is  *)
(* covered by its signature.  While it waits the signature may fail, since *)
(* an approval is not signed: only then does a genuine record look forged. *)
SignatureCovers ==
    ~Verifies(rec) => ~Resolved /\ rec.approvals # <<>>

(* What the files say of the outcome is the outcome, it is the last thing  *)
(* they say, and they say it unless its write failed; even after a crash.  *)
OutcomeOnFile ==
    \A f \in {trail, log} :
        /\ \A i \in DOMAIN f : f[i].kind \in {"resolved", "timeout"} =>
              i = Len(f) /\ f[i].status = rec.status
        /\ Resolved => /\ f[Len(f)].kind \in {"resolved", "timeout", "hole"}
                       /\ Len(f) > 1

(* A checkpoint with a rule that resolves it is resolved in the end, even  *)
(* if no reviewer answers, unless its creation was interrupted before the  *)
(* rules were scheduled or the process ended.                              *)
EscalationResolves ==
    \A r \in Rule :
        creating = "notifying" /\ policy[r] # "notify"
            ~> Resolved \/ creating = "interrupted" \/ ~alive
=============================================================================
