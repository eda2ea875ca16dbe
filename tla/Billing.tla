------------------------------- MODULE Billing -------------------------------
(***************************************************************************)
(* The entitlement of one organisation (crp/comply/billing): checkout.py   *)
(* makes it a customer at Stripe, Stripe holds its subscriptions and sends *)
(* events, webhook.py turns them into patches of the organisation's        *)
(* metadata at Clerk, and reconciliation.py repairs what it missed.        *)
(*                                                                         *)
(* Nothing keeps an organisation from a second subscription: constants.py  *)
(* sells three families of plans, and all of them are written to one key.  *)
(*                                                                         *)
(* Stripe and Clerk are not part of the repository.  Stripe delivers every *)
(* event at least once, in any order, and again when it got no answer.     *)
(* What a PATCH does to metadata it does not name is Clerk's choice: it    *)
(* merges, or it replaces.  A call to either may fail, and a PATCH may     *)
(* take effect although its answer is lost.                                *)
(*                                                                         *)
(* quota, features and currentPeriodEnd are always written with the plan,  *)
(* and stand for it.  Signatures are taken to be right.  One checkout and  *)
(* one reconciliation run at a time; the latter with dry_run=False.        *)
(***************************************************************************)
EXTENDS Integers, Sequences, FiniteSets

CONSTANTS
    Price,          \* Stripe prices of subscriptions
    Listed,         \* those in PRICE_TO_PLAN, named like their plan
    Offered,        \* bound: those that a checkout is for
    MaxRequests,    \* bound: webhook requests in progress
    MaxEvents,      \* bound: events Stripe sends
    MaxTroubles     \* bound: failed calls, restarts and deliveries of events
                    \* that were acknowledged, together

ASSUME BillingAssumption ==
    /\ Listed \subseteq Price /\ Offered \subseteq Price
    /\ "free" \notin Price /\ "none" \notin Price
    /\ {MaxEvents, MaxRequests, MaxTroubles} \subseteq Nat

VARIABLES
    merging,    \* what Clerk does
    priceOf,    \* Stripe: per subscription, its price
    active,     \* Stripe: the subscriptions that are active
    events,     \* Stripe: the events there are
    acked,      \* Stripe: the events it had an answer for
    org,        \* Clerk: the organisation's public metadata
    processed,  \* _processed_event_ids
    requests,   \* webhook requests in progress: the event, where its handler
                \* is, and the metadata, or the price, that it has read
    opened,     \* a checkout session has been opened
    opening,    \* the metadata that a checkout in progress has read
    todo,       \* what reconcile_subscriptions() has listed and not yet done
    troubles,   \* how many there were
    newest,     \* per family of events: the last that took effect (history)
    mishaps     \* what ever went wrong (history)

stripeVars == <<priceOf, active, events>>
webVars == <<acked, processed, requests, newest>>
shopVars == <<opened, opening>>
vars == <<merging, stripeVars, org, webVars, shopVars, todo, troubles, mishaps>>

Plan == Listed \cup {"free"}

PlanFrom(price) == IF price \in Listed THEN price ELSE "free"

Kind == {"checkout", "updated", "deleted", "payment", "failed", "paid"}
Mishap == {"failed", "stale", "reordered", "raced", "restart", "unmentioned",
           "several"}

PlanOf(m) == IF "plan" \in DOMAIN m THEN m["plan"] ELSE "free"
CreditOf(m) == IF "credit" \in DOMAIN m THEN m["credit"] ELSE 0
Flagged(m) == "issue" \in DOMAIN m

(* The plans that Stripe charges for. *)
Charged == {PlanFrom(priceOf[s]) : s \in active}

Ids == DOMAIN events

(* Requests for the same event are told apart by a number. *)
Copy == 1 .. MaxRequests

TypeOK ==
    /\ merging \in BOOLEAN
    /\ priceOf \in Seq(Price)
    /\ active \subseteq DOMAIN priceOf
    /\ events \in Seq([kind : Kind, sub : Nat, price : Price \cup {"none"}])
    /\ acked \subseteq Ids /\ processed \subseteq Ids
    /\ DOMAIN org \subseteq {"plan", "credit", "issue", "customer"}
    /\ PlanOf(org) \in Plan
    /\ CreditOf(org) \in Nat
    /\ Flagged(org) => org["issue"] = TRUE
    /\ Cardinality(requests) <= MaxRequests
    /\ \A r \in requests : r.id \in Ids /\ r.copy \in Copy
                               /\ r.at \in {"look", "patch"}
    /\ newest \in [{"plan", "invoice"} -> 0 .. Len(events)]
    /\ opened \in BOOLEAN
    /\ \A m \in opening : DOMAIN m \subseteq {"plan", "credit", "issue", "customer"}
    /\ \A t \in todo : /\ t.sub \in DOMAIN priceOf /\ t.price \in Price
                       /\ t.at \in {"read", "patch"}
    /\ troubles \in 0 .. MaxTroubles
    /\ mishaps \subseteq Mishap

Nothing == <<>>

(* Metadata as a JSON object: one key with its value, one object laid over *)
(* another, one without a key.                                             *)
Only(key, value) == [k \in {key} |-> value]

Over(new, m) ==
    [k \in DOMAIN new \cup DOMAIN m |-> IF k \in DOMAIN new THEN new[k] ELSE m[k]]

Dropped(m, key) == [k \in DOMAIN m \ {key} |-> m[k]]

Begins ==
    /\ merging \in BOOLEAN
    /\ events = <<>> /\ acked = {}
    /\ processed = {}
    /\ requests = {}
    /\ opening = {}
    /\ todo = {}
    /\ troubles = 0
    /\ newest = [f \in {"plan", "invoice"} |-> 0] /\ mishaps = {}

NewOrganisation ==
    /\ priceOf = <<>> /\ active = {}
    /\ opened = FALSE
    /\ org = Nothing

(* One that has subscribed, and whose events have had their answers. *)
OldOrganisation(p) ==
    /\ priceOf = <<p>> /\ active = {1}
    /\ opened = TRUE
    /\ org = IF merging
             THEN Over(Only("plan", PlanFrom(p)), Only("customer", TRUE))
             ELSE Only("plan", PlanFrom(p))

Init == Begins /\ (NewOrganisation \/ \E p \in Offered : OldOrganisation(p))

Befalls(S) == mishaps' = mishaps \cup S

-----------------------------------------------------------------------------
(* Stripe. *)

Send(kind, sub, price) ==
    /\ Len(events) < MaxEvents
    /\ events' = Append(events, [kind |-> kind, sub |-> sub, price |-> price])
    /\ UNCHANGED <<merging, org, webVars, shopVars, todo, troubles>>

Subscribe(p) ==
    /\ opened /\ p \in Offered
    /\ priceOf' = Append(priceOf, p)
    /\ active' = active \cup {Len(priceOf')}
    /\ Befalls(IF active # {} THEN {"several"} ELSE {})
    /\ Send("checkout", Len(priceOf'), "none")

ChangePlan(s, p) ==
    /\ p # priceOf[s]
    /\ priceOf' = [priceOf EXCEPT ![s] = p]
    /\ UNCHANGED <<active, mishaps>>
    /\ Send("updated", s, p)

Cancel(s) ==
    /\ active' = active \ {s}
    /\ UNCHANGED <<priceOf, mishaps>>
    /\ Send("deleted", s, "none")

(* A credit top-up, and the invoices of a subscription. *)
Charge(kind) ==
    /\ opened /\ (kind \in {"failed", "paid"} => priceOf # <<>>)
    /\ UNCHANGED <<priceOf, active, mishaps>>
    /\ Send(kind, 0, "none")

-----------------------------------------------------------------------------
(* The webhook. *)

Trouble ==
    /\ troubles < MaxTroubles
    /\ troubles' = troubles + 1

(* process() finds a duplicate, or goes on to note the event, a step later. *)
Unused(e) == {c \in Copy : \A r \in requests : r.id = e => r.copy # c}

Mut_Duplicate(e) == \E d \in processed : events[d].sub = events[e].sub

Duplicate(e) == e \in processed

Deliver(e) ==
    /\ Cardinality(requests) < MaxRequests
    /\ IF e \in acked THEN Trouble ELSE UNCHANGED troubles
    /\ IF Duplicate(e)
       THEN /\ acked' = acked \cup {e}
            /\ UNCHANGED requests
       ELSE /\ \E c \in Unused(e) :
                  /\ \A d \in Unused(e) : c <= d
                  /\ requests' = requests \cup
                        {[id |-> e, copy |-> c, at |-> "look", found |-> Nothing]}
            /\ UNCHANGED acked
    /\ UNCHANGED <<merging, stripeVars, org, processed, newest, shopVars, todo,
                   mishaps>>

KindOf(r) == events[r.id].kind

(* A handler that raised is not answered for. *)
Ends(r, answered) ==
    /\ requests' = requests \ {r}
    /\ acked' = IF answered THEN acked \cup {r.id} ELSE acked

Fails ==
    /\ Trouble
    /\ Befalls({"failed"})

(* The events whose order matters to one another; top-ups commute. *)
Family(kind) ==
    CASE kind \in {"checkout", "updated", "deleted"} -> "plan"
      [] kind \in {"failed", "paid"} -> "invoice"
      [] OTHER -> "credit"

Late(r) == IF KindOf(r) # "payment" /\ newest[Family(KindOf(r))] > r.id
           THEN {"reordered"} ELSE {}

Applied(r) ==
    newest' = [f \in DOMAIN newest |-> IF f = Family(KindOf(r)) /\ newest[f] < r.id
                                       THEN r.id ELSE newest[f]]

(* What a handler reads before it writes: the subscription as it is now,   *)
(* the customer, or the organisation's metadata.                           *)
Reads(r) ==
    CASE KindOf(r) = "checkout" -> [price |-> priceOf[events[r.id].sub]]
      [] KindOf(r) \in {"payment", "failed", "paid"} -> org
      [] OTHER -> Nothing

Raced(r) == IF r.id \in processed THEN {"raced"} ELSE {}

(* process() notes the event and calls its handler, which reads. *)
Mut_Note(r) == UNCHANGED processed

Note(r) == processed' = processed \cup {r.id}

Look(r) ==
    /\ r.at = "look"
    /\ Note(r)
    /\ IF KindOf(r) = "paid" /\ ~Flagged(org)
       THEN /\ Ends(r, TRUE)
            /\ Applied(r)
            /\ Befalls(Raced(r) \cup Late(r))
       ELSE /\ requests' = (requests \ {r}) \cup
                  {[r EXCEPT !.at = "patch", !.found = Reads(r)]}
            /\ Befalls(Raced(r))
            /\ UNCHANGED <<acked, newest>>
    /\ UNCHANGED <<merging, stripeVars, org, shopVars, todo, troubles>>

(* Every handler gives up quietly when it cannot read. *)
LookFails(r) ==
    /\ r.at = "look"
    /\ Note(r)
    /\ Fails
    /\ Ends(r, TRUE)
    /\ UNCHANGED <<merging, stripeVars, org, newest, shopVars, todo>>

-----------------------------------------------------------------------------
(* Clerk. *)

(* The metadata a handler sends. *)
Mut_Sent(r) ==
    CASE KindOf(r) = "checkout" -> Only("plan", PlanFrom(r.found.price))
      [] KindOf(r) = "updated" -> Only("plan", PlanFrom(events[r.id].price))
      [] KindOf(r) = "deleted" -> Nothing
      [] KindOf(r) = "payment" -> Over(Only("credit", CreditOf(r.found) + 1), r.found)
      [] KindOf(r) = "failed" -> Over(Only("issue", TRUE), r.found)
      [] KindOf(r) = "paid" -> Dropped(r.found, "issue")

Sent(r) ==
    CASE KindOf(r) = "checkout" -> Only("plan", PlanFrom(r.found.price))
      [] KindOf(r) = "updated" -> Only("plan", PlanFrom(events[r.id].price))
      [] KindOf(r) = "deleted" -> Only("plan", "free")
      [] KindOf(r) = "payment" ->
            Over(Only("credit", CreditOf(r.found) + 1), r.found)
      [] KindOf(r) = "failed" -> Over(Only("issue", TRUE), r.found)
      [] KindOf(r) = "paid" -> Dropped(r.found, "issue")

Patched(sent) == IF merging THEN Over(sent, org) ELSE sent

(* The handler writes back what it had read, which is no longer there. *)
Stale(r) ==
    IF KindOf(r) \in {"payment", "failed", "paid"} /\ r.found # org
    THEN {"stale"} ELSE {}

(* A PATCH left out a key: merging keeps the flag that `paid' takes out,   *)
(* replacing loses the credit and the flag that a plan does not mention.   *)
(* (It loses the customer too, and the next checkout makes another.)       *)
Unmentioned(sent, popped) ==
    IF \/ merging /\ popped
       \/ ~merging /\ ~popped /\ (DOMAIN org \ DOMAIN sent) \cap {"credit", "issue"} # {}
    THEN {"unmentioned"} ELSE {}

TakesEffect(r) ==
    /\ org' = Patched(Sent(r))
    /\ Applied(r)

Patch(r) ==
    /\ r.at = "patch"
    /\ TakesEffect(r)
    /\ Befalls(Stale(r) \cup Late(r) \cup Unmentioned(Sent(r), KindOf(r) = "paid"))
    /\ Ends(r, TRUE)
    /\ UNCHANGED <<merging, stripeVars, processed, shopVars, todo, troubles>>

(* Every handler but that of a deleted subscription swallows the failure.  *)
Swallows(r) == KindOf(r) # "deleted"

PatchFails(r) ==
    /\ r.at = "patch"
    /\ Fails
    /\ TakesEffect(r) \/ UNCHANGED <<org, newest>>
    /\ Ends(r, Swallows(r))
    /\ UNCHANGED <<merging, stripeVars, processed, shopVars, todo>>

-----------------------------------------------------------------------------
(* create_checkout_session(): an organisation without a customer becomes   *)
(* one, and all that was read of its metadata is written back with it.     *)
(* (Bound: a checkout that would write is begun while Stripe may send.)    *)

OpenCheckout ==
    /\ opening = {}
    /\ IF "customer" \in DOMAIN org
       THEN opened' = TRUE /\ UNCHANGED opening
       ELSE /\ Len(events) < MaxEvents
            /\ opening' = {org}
            /\ UNCHANGED opened
    /\ UNCHANGED <<merging, stripeVars, org, webVars, todo, troubles, mishaps>>

Linked(m) == Over(Only("customer", TRUE), m)

WriteBack(m) ==
    /\ org' = Patched(Linked(m))
    /\ Befalls(IF m # org THEN {"stale"} ELSE {})
    /\ opening' = {} /\ opened' = TRUE
    /\ UNCHANGED <<merging, stripeVars, webVars, todo, troubles>>

CheckoutFails(m) ==
    /\ Fails
    /\ org' = Patched(Linked(m)) \/ UNCHANGED org
    /\ opening' = {} /\ UNCHANGED opened
    /\ UNCHANGED <<merging, stripeVars, webVars, todo>>

Checkout == OpenCheckout \/ \E m \in opening : WriteBack(m) \/ CheckoutFails(m)

-----------------------------------------------------------------------------
(* reconcile_subscriptions(), which something outside the repository runs. *)

(* Stripe lists the active subscriptions of all organisations, the newest  *)
(* first, and the loop ends after `limit' of them: of this organisation's  *)
(* it reaches all, or those after some c when others hold too many.        *)
Listing(c) ==
    /\ todo = {}
    /\ todo' = {[sub |-> s, price |-> priceOf[s], at |-> "read"] :
                   s \in {a \in active : a > c}}
    /\ UNCHANGED <<merging, stripeVars, org, webVars, shopVars, troubles, mishaps>>

ListAll == Listing(0)
ListSome == \E c \in DOMAIN priceOf : Listing(c)

First(t) == t \in todo /\ \A u \in todo : u.sub <= t.sub

Mut_Differs(t) == PlanOf(org) = "free" /\ PlanFrom(t.price) # "free"

Differs(t) == PlanOf(org) # PlanFrom(t.price)

Compare(t) ==
    /\ First(t) /\ t.at = "read"
    /\ todo' = (todo \ {t}) \cup
                  (IF Differs(t) THEN {[t EXCEPT !.at = "patch"]} ELSE {})
    /\ UNCHANGED <<merging, stripeVars, org, webVars, shopVars, troubles, mishaps>>

(* It writes a price that is no longer charged. *)
Outdated(t) == t.sub \notin active \/ priceOf[t.sub] # t.price

Repaired(t) == Patched(Only("plan", PlanFrom(t.price)))

Repair(t) ==
    /\ First(t) /\ t.at = "patch"
    /\ org' = Repaired(t)
    /\ Befalls((IF Outdated(t) THEN {"stale"} ELSE {})
                 \cup Unmentioned(Only("plan", PlanFrom(t.price)), FALSE))
    /\ todo' = todo \ {t}
    /\ UNCHANGED <<merging, stripeVars, webVars, shopVars, troubles>>

(* One that cannot be read or written is left, and the loop goes on. *)
ReconcileFails(t) ==
    /\ First(t)
    /\ Fails
    /\ (t.at = "patch" /\ org' = Repaired(t)) \/ UNCHANGED org
    /\ todo' = todo \ {t}
    /\ UNCHANGED <<merging, stripeVars, webVars, shopVars>>

(* The service restarts: the set of processed events was in memory, and    *)
(* requests in progress get no answer.                                     *)
Restart ==
    /\ Trouble
    /\ processed' = {}
    /\ requests' = {}
    /\ Befalls({"restart"})
    /\ UNCHANGED <<merging, stripeVars, acked, org, newest, shopVars, todo>>

-----------------------------------------------------------------------------
Goes(t) == Compare(t) \/ Repair(t)

GoesOn == \E t \in todo : Goes(t)

Serve(r) == Look(r) \/ LookFails(r) \/ Patch(r) \/ PatchFails(r)

Next ==
    \/ \E p \in Price : Subscribe(p) \/ \E s \in active : ChangePlan(s, p)
    \/ \E s \in active : Cancel(s)
    \/ \E kind \in {"payment", "failed", "paid"} : Charge(kind)
    \/ Checkout
    \/ \E e \in Ids : Deliver(e)
    \/ \E r \in requests : Serve(r)
    \/ ListAll \/ ListSome \/ GoesOn
    \/ \E t \in todo : ReconcileFails(t)
    \/ Restart

Spec == Init /\ [][Next]_vars

(* A reconciliation that has begun goes on.  When the next one begins is   *)
(* not for this code to say.                                               *)
FairSpec == Spec /\ WF_vars(GoesOn)

-----------------------------------------------------------------------------
(* Properties. *)

Sales(kind) == {e \in Ids : events[e].kind = kind}

(* Stripe has nothing more to tell, and nobody is writing. *)
Settled == acked = Ids /\ requests = {} /\ todo = {} /\ opening = {}

(* "Idempotent - dedupe on Stripe event ID": no top-up is credited twice,  *)
(* however often Stripe sends it, unless the set of processed events was   *)
(* lost in a restart or two threads looked before either noted the event.  *)
CreditedOnce ==
    CreditOf(org) > Cardinality(Sales("payment"))
        => mishaps \cap {"restart", "raced"} # {}

LastOf(kinds, kind) ==
    LET mine == {e \in Ids : events[e].kind \in kinds}
    IN  \E e \in mine : events[e].kind = kind /\ \A o \in mine : o <= e

(* Once all events are answered Clerk agrees with Stripe on the plan, the  *)
(* credit and the payment flag, unless one of the mishaps happened: a call *)
(* failed, a handler, a checkout or a repair wrote back what was old,      *)
(* events of a kind took effect out of order, one was handled by two       *)
(* threads, the service restarted, or a PATCH left something out that      *)
(* Clerk treats the other way.  An organisation that ever held several     *)
(* subscriptions at once is promised less: its plan is that of one of      *)
(* them, whichever was written last, or free although it pays, because a   *)
(* deleted subscription sets free whatever else is active.                 *)
EntitlementFollows ==
    Settled /\ mishaps \subseteq {"several"} =>
        /\ \/ PlanOf(org) \in Charged
           \/ PlanOf(org) = "free" /\ (active = {} \/ "several" \in mishaps)
        /\ CreditOf(org) = Cardinality(Sales("payment"))
        /\ Flagged(org) <=> LastOf({"failed", "paid"}, "failed")

(* A paid plan that outlives the last subscription does so for one of four *)
(* reasons, however often events come: a call failed (a deletion whose     *)
(* PATCH failed is answered as a duplicate when it comes again), older     *)
(* metadata was written back, an older event took effect later, or the     *)
(* service restarted in a handler while a second delivery of its event had *)
(* been answered as a duplicate.  Reconciliation, which lists active       *)
(* subscriptions, does not repair it.                                      *)
PaidAfterCancel ==
    Settled /\ active = {} /\ PlanOf(org) # "free"
        => mishaps \cap {"failed", "stale", "reordered", "restart"} # {}

(* "Repairs drift from missed webhooks": whatever went wrong, an           *)
(* organisation that pays is granted in the end what it pays for, provided *)
(* that listings reach it again and again, and that no checkout is under   *)
(* way for good.  With one subscription that is its plan.  With several it *)
(* is always the plan of one of them, but not for good: the loop writes    *)
(* the plan of each in turn, the oldest one's last, every night.  Beyond   *)
(* `limit' subscriptions in all, the older ones are never looked at.       *)
DriftRepaired ==
    <>[](opening = {} /\ active # {}) /\ []<><<ListAll>>_vars
        => <>[](PlanOf(org) \in Charged)
=============================================================================
