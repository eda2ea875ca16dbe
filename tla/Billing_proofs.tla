---------------------------- MODULE Billing_proofs ----------------------------
(***************************************************************************)
(* What can go wrong with an entitlement (crp/comply/billing), and that    *)
(* nothing else can: theorems about Billing for any prices, any number of  *)
(* events and requests, and any number of troubles.                        *)
(*                                                                         *)
(* The inductive invariant relates what Clerk holds to the events whose    *)
(* handlers are done.  It has one part per claim, and each part assumes    *)
(* only that the mishaps of its claim have not happened.                   *)
(***************************************************************************)
EXTENDS Billing, FiniteSetTheorems, SequenceTheorems, TLAPS

-----------------------------------------------------------------------------
(* Shape. *)

PlanKinds == {"checkout", "updated", "deleted"}
InvoiceKinds == {"failed", "paid"}
OrgKinds == {"payment", "failed", "paid"}

IsMetadata(m) ==
    /\ m = [k \in DOMAIN m |-> m[k]]
    /\ DOMAIN m \subseteq {"plan", "credit", "issue", "customer"}
    /\ PlanOf(m) \in Plan
    /\ CreditOf(m) \in Nat
    /\ Flagged(m) => m["issue"] = TRUE

Event == [kind : Kind, sub : Nat, price : Price \cup {"none"}]

(* A handler that is about to write has noted its event and read what its  *)
(* kind reads.                                                             *)
RequestOK(r) ==
    /\ r = [id |-> r.id, copy |-> r.copy, at |-> r.at, found |-> r.found]
    /\ r.id \in Ids /\ r.copy \in Copy /\ r.at \in {"look", "patch"}
    /\ r.at = "patch" =>
          /\ r.id \in processed
          /\ KindOf(r) \in OrgKinds => IsMetadata(r.found)
          /\ KindOf(r) = "checkout" => r.found.price \in Price

(* A subscription that the reconciliation has listed. *)
ItemOK(t) ==
    /\ t = [sub |-> t.sub, price |-> t.price, at |-> t.at]
    /\ t.sub \in DOMAIN priceOf /\ t.price \in Price /\ t.at \in {"read", "patch"}

Shape ==
    /\ merging \in BOOLEAN /\ opened \in BOOLEAN
    /\ priceOf \in Seq(Price)
    /\ active \subseteq DOMAIN priceOf
    /\ events \in Seq(Event)
    /\ \A e \in Ids : /\ events[e].kind = "checkout" => events[e].sub \in DOMAIN priceOf
                      /\ events[e].kind = "updated" => events[e].price \in Price
    /\ acked \subseteq Ids /\ processed \subseteq Ids
    /\ IsMetadata(org)
    /\ IsFiniteSet(requests) /\ Cardinality(requests) <= MaxRequests
    /\ \A r \in requests : RequestOK(r)
    /\ newest \in [{"plan", "invoice"} -> 0 .. Len(events)]
    /\ \A m \in opening : IsMetadata(m)
    /\ IsFiniteSet(todo)
    /\ \A t \in todo : ItemOK(t)
    /\ troubles \in 0 .. MaxTroubles
    /\ mishaps \subseteq Mishap

-----------------------------------------------------------------------------
(* The history of the events. *)

(* A plan that an organisation may have when nothing else went wrong.      *)
Allowed(plan) ==
    plan \in Charged \/ (plan = "free" /\ (active = {} \/ "several" \in mishaps))

LastPlan(e) ==
    /\ e \in Ids /\ events[e].kind \in PlanKinds
    /\ \A o \in Ids : events[o].kind \in PlanKinds => o <= e

(* The requests whose handler is about to write. *)
Patching == {r \in requests : r.at = "patch"}

(* The last event about a subscription tells how Stripe holds it, and the  *)
(* handler of a checkout has read it since.                                *)
LastTellsAll ==
    /\ \A e \in Ids : LastPlan(e) =>
          /\ events[e].kind = "checkout" => events[e].sub \in active
          /\ events[e].kind = "updated" =>
                events[e].sub \in active /\ events[e].price = priceOf[events[e].sub]
          /\ events[e].kind = "deleted" => active = {} \/ "several" \in mishaps
    /\ \A s, t \in active : s = t \/ "several" \in mishaps
    /\ \A r \in Patching : KindOf(r) = "checkout" /\ LastPlan(r.id)
                              => r.found.price = priceOf[events[r.id].sub]

NewestOfItsFamily ==
    /\ newest["plan"] # 0 => events[newest["plan"]].kind \in PlanKinds
    /\ newest["invoice"] # 0 => events[newest["invoice"]].kind \in InvoiceKinds

Clear(S) == mishaps \cap S = {}

Blameless == mishaps \subseteq {"several"}

(* An event that has an answer was noted, and one that was noted is in its *)
(* handler or has taken effect.                                            *)
NotedTakesEffect ==
    /\ Clear({"restart"}) => acked \subseteq processed
    /\ Clear({"failed", "restart"}) =>
          \A e \in processed :
              \/ \E r \in Patching : r.id = e
              \/ /\ events[e].kind \in PlanKinds => newest["plan"] >= e
                 /\ events[e].kind \in InvoiceKinds => newest["invoice"] >= e

(* The top-ups whose handlers are done. *)
Credited == {e \in processed : /\ events[e].kind = "payment"
                               /\ \A r \in Patching : r.id # e}

HandledOnce ==
    Clear({"restart", "raced"}) => \A r, q \in Patching : r.id = q.id => r = q

CreditBounded ==
    Clear({"restart", "raced"}) =>
        /\ CreditOf(org) <= Cardinality(Credited)
        /\ \A r \in Patching : KindOf(r) \in OrgKinds
                                  => CreditOf(r.found) <= Cardinality(Credited)
        /\ \A m \in opening : CreditOf(m) <= Cardinality(Credited)

CreditExact ==
    Blameless => CreditOf(org) = Cardinality(Credited)

PlanFollows ==
    Clear({"failed", "stale", "reordered", "restart"}) =>
        ((\A e \in Ids : events[e].kind \in PlanKinds => e <= newest["plan"])
             => Allowed(PlanOf(org)))

FlagFollows ==
    Blameless =>
        (Flagged(org) <=> newest["invoice"] # 0
                            /\ events[newest["invoice"]].kind = "failed")

BillingIInv ==
    /\ Shape
    /\ LastTellsAll
    /\ NewestOfItsFamily
    /\ NotedTakesEffect
    /\ HandledOnce
    /\ CreditBounded
    /\ CreditExact
    /\ PlanFollows
    /\ FlagFollows

-----------------------------------------------------------------------------
(* What a PATCH does to the metadata, key by key.                          *)

(* The events of a family are the kinds whose order matters to one         *)
(* another.                                                                *)
LEMMA FamilyIs ==
    /\ \A k \in PlanKinds : Family(k) = "plan"
    /\ \A k \in InvoiceKinds : Family(k) = "invoice"
    /\ Family("payment") = "credit"
BY DEF Family, PlanKinds, InvoiceKinds

(* Stripe sends plan events, top-ups and invoice events. *)
LEMMA KindsAre ==
    Kind = PlanKinds \cup {"payment"} \cup InvoiceKinds
BY DEF Kind, PlanKinds, InvoiceKinds

(* Metadata with a plan and nothing else. *)
LEMMA OnlyPlan ==
    ASSUME NEW p \in Plan
    PROVE  /\ IsMetadata(Only("plan", p)) /\ DOMAIN Only("plan", p) = {"plan"}
           /\ PlanOf(Only("plan", p)) = p
BY DEF Only, IsMetadata, PlanOf, CreditOf, Flagged

(* Metadata with a credit and nothing else. *)
LEMMA OnlyCredit ==
    ASSUME NEW n \in Nat
    PROVE  /\ IsMetadata(Only("credit", n)) /\ DOMAIN Only("credit", n) = {"credit"}
           /\ CreditOf(Only("credit", n)) = n
BY DEF Only, IsMetadata, PlanOf, CreditOf, Flagged, Plan

(* Metadata with a payment flag and nothing else. *)
LEMMA OnlyIssue ==
    IsMetadata(Only("issue", TRUE)) /\ DOMAIN Only("issue", TRUE) = {"issue"}
BY DEF Only, IsMetadata, PlanOf, CreditOf, Flagged, Plan

(* Metadata with a customer and nothing else. *)
LEMMA OnlyCustomer ==
    /\ IsMetadata(Only("customer", TRUE)) /\ DOMAIN Only("customer", TRUE) = {"customer"}
    /\ ~Flagged(Only("customer", TRUE)) /\ CreditOf(Only("customer", TRUE)) = 0
BY DEF Only, IsMetadata, PlanOf, CreditOf, Flagged, Plan

(* A key that is not there reads as free, nothing, not flagged. *)
LEMMA Missing ==
    ASSUME NEW m
    PROVE  /\ "plan" \notin DOMAIN m => PlanOf(m) = "free"
           /\ "credit" \notin DOMAIN m => CreditOf(m) = 0
           /\ "issue" \notin DOMAIN m <=> ~Flagged(m)
BY DEF PlanOf, CreditOf, Flagged

(* Laid over another, an object decides the keys that it has. *)
LEMMA OverIs ==
    ASSUME NEW n, NEW m, IsMetadata(n), IsMetadata(m)
    PROVE  /\ IsMetadata(Over(n, m))
           /\ DOMAIN Over(n, m) = DOMAIN n \cup DOMAIN m
           /\ "plan" \in DOMAIN n => PlanOf(Over(n, m)) = PlanOf(n)
           /\ "plan" \notin DOMAIN n => PlanOf(Over(n, m)) = PlanOf(m)
           /\ "credit" \in DOMAIN n => CreditOf(Over(n, m)) = CreditOf(n)
           /\ "credit" \notin DOMAIN n => CreditOf(Over(n, m)) = CreditOf(m)
           /\ Flagged(Over(n, m)) <=> Flagged(n) \/ Flagged(m)
<1>. DEFINE o == Over(n, m)
<1>1. /\ o = [k \in DOMAIN o |-> o[k]] /\ DOMAIN o = DOMAIN n \cup DOMAIN m
      /\ \A k \in DOMAIN n : o[k] = n[k]
      /\ \A k \in DOMAIN m \ DOMAIN n : o[k] = m[k]
  BY DEF Over
<1>. HIDE DEF o
<1>2. /\ "plan" \in DOMAIN n => PlanOf(o) = PlanOf(n)
      /\ "plan" \notin DOMAIN n => PlanOf(o) = PlanOf(m)
  BY <1>1 DEF PlanOf
<1>3. /\ "credit" \in DOMAIN n => CreditOf(o) = CreditOf(n)
      /\ "credit" \notin DOMAIN n => CreditOf(o) = CreditOf(m)
  BY <1>1 DEF CreditOf
<1>4. /\ Flagged(o) <=> Flagged(n) \/ Flagged(m)
      /\ Flagged(o) => o["issue"] = TRUE
  BY <1>1 DEF Flagged, IsMetadata
<1>5. PlanOf(o) \in Plan /\ CreditOf(o) \in Nat
  BY <1>2, <1>3 DEF IsMetadata
<1>6. IsMetadata(o)
  BY <1>1, <1>4, <1>5 DEF IsMetadata
<1> QED
  BY <1>1, <1>2, <1>3, <1>4, <1>6 DEF o

(* _on_invoice_paid pops the flag and keeps the plan and the credit. *)
LEMMA DroppedIs ==
    ASSUME NEW m, IsMetadata(m)
    PROVE  /\ IsMetadata(Dropped(m, "issue"))
           /\ DOMAIN Dropped(m, "issue") = DOMAIN m \ {"issue"}
           /\ PlanOf(Dropped(m, "issue")) = PlanOf(m)
           /\ CreditOf(Dropped(m, "issue")) = CreditOf(m)
           /\ ~Flagged(Dropped(m, "issue"))
<1>. DEFINE o == Dropped(m, "issue")
<1>1. /\ o = [k \in DOMAIN o |-> o[k]] /\ DOMAIN o = DOMAIN m \ {"issue"}
      /\ \A k \in DOMAIN o : o[k] = m[k]
  BY DEF Dropped
<1>. HIDE DEF o
<1>2. PlanOf(o) = PlanOf(m)
  BY <1>1 DEF PlanOf
<1>3. CreditOf(o) = CreditOf(m)
  BY <1>1 DEF CreditOf
<1>4. ~Flagged(o)
  BY <1>1 DEF Flagged
<1> QED
  BY <1>1, <1>2, <1>3, <1>4 DEF IsMetadata, o

(* What each handler sends, kind by kind. *)
LEMMA SentIs ==
    ASSUME NEW r
    PROVE  /\ KindOf(r) = "checkout" => Sent(r) = Only("plan", PlanFrom(r.found.price))
           /\ KindOf(r) = "updated" => Sent(r) = Only("plan", PlanFrom(events[r.id].price))
           /\ KindOf(r) = "deleted" => Sent(r) = Only("plan", "free")
           /\ KindOf(r) = "payment" => Sent(r) = Over(Only("credit", CreditOf(r.found) + 1), r.found)
           /\ KindOf(r) = "failed" => Sent(r) = Over(Only("issue", TRUE), r.found)
           /\ KindOf(r) = "paid" => Sent(r) = Dropped(r.found, "issue")
BY DEF Sent

(* A PATCH of metadata n: Clerk lays it over what it holds, or takes it.   *)
LEMMA PatchedIs ==
    ASSUME NEW n, IsMetadata(n), IsMetadata(org), merging \in BOOLEAN
    PROVE  /\ IsMetadata(Patched(n))
           /\ "plan" \in DOMAIN n => PlanOf(Patched(n)) = PlanOf(n)
           /\ "credit" \in DOMAIN n => CreditOf(Patched(n)) = CreditOf(n)
           /\ "plan" \notin DOMAIN n => PlanOf(Patched(n)) = IF merging THEN PlanOf(org) ELSE "free"
           /\ "credit" \notin DOMAIN n => CreditOf(Patched(n)) = IF merging THEN CreditOf(org) ELSE 0
           /\ Flagged(Patched(n)) <=> Flagged(n) \/ (merging /\ Flagged(org))
<1>1. CASE merging
  <2>1. Patched(n) = Over(n, org)
    BY <1>1 DEF Patched
  <2>2. /\ IsMetadata(Over(n, org))
        /\ "plan" \in DOMAIN n => PlanOf(Over(n, org)) = PlanOf(n)
        /\ "plan" \notin DOMAIN n => PlanOf(Over(n, org)) = PlanOf(org)
        /\ "credit" \in DOMAIN n => CreditOf(Over(n, org)) = CreditOf(n)
        /\ "credit" \notin DOMAIN n => CreditOf(Over(n, org)) = CreditOf(org)
        /\ Flagged(Over(n, org)) <=> Flagged(n) \/ Flagged(org)
    BY OverIs
  <2>. HIDE DEF Patched, Over
  <2> QED
    BY <1>1, <2>1, <2>2
<1>2. CASE ~merging
  <2>1. Patched(n) = n
    BY <1>2 DEF Patched
  <2> QED
    BY <1>2, <2>1, Missing
<1> QED
  BY <1>1, <1>2

(* The PATCH of a subscription's event. *)
LEMMA PlanPatched ==
    ASSUME NEW p \in Plan, IsMetadata(org), merging \in BOOLEAN
    PROVE  /\ IsMetadata(Patched(Only("plan", p)))
           /\ PlanOf(Patched(Only("plan", p))) = p
           /\ CreditOf(Patched(Only("plan", p))) = IF merging THEN CreditOf(org) ELSE 0
           /\ Flagged(Patched(Only("plan", p))) <=> merging /\ Flagged(org)
<1>. DEFINE n == Only("plan", p)
<1>1. IsMetadata(n) /\ DOMAIN n = {"plan"} /\ PlanOf(n) = p
  BY OnlyPlan
<1>. HIDE DEF n
<1>2. ~Flagged(n) /\ "plan" \in DOMAIN n /\ "credit" \notin DOMAIN n
  BY <1>1, Missing
<1>3. /\ IsMetadata(Patched(n)) /\ PlanOf(Patched(n)) = p
      /\ CreditOf(Patched(n)) = IF merging THEN CreditOf(org) ELSE 0
      /\ Flagged(Patched(n)) <=> merging /\ Flagged(org)
  BY <1>1, <1>2, PatchedIs
<1> QED
  BY <1>3 DEF n

(* The PATCH of a handler that writes back what it found. *)
LEMMA FoundPatched ==
    ASSUME NEW n, IsMetadata(n), IsMetadata(org), merging \in BOOLEAN,
           PlanOf(n) = PlanOf(org), "plan" \in DOMAIN n <=> "plan" \in DOMAIN org
    PROVE  PlanOf(Patched(n)) = PlanOf(org)
<1>1. CASE "plan" \in DOMAIN n
  BY <1>1, PatchedIs
<1>2. CASE "plan" \notin DOMAIN n
  BY <1>2, PatchedIs, Missing
<1> QED
  BY <1>1, <1>2

(* plan_from_price_id grants a plan of PRICE_TO_PLAN, or free. *)
LEMMA PlansFrom == \A p : PlanFrom(p) \in Plan
BY DEF PlanFrom, Plan

(* A request is about an event that Stripe sent. *)
LEMMA KindsOfRequests ==
    ASSUME Shape, NEW r \in requests
    PROVE  /\ r.id \in Ids /\ KindOf(r) = events[r.id].kind
           /\ KindOf(r) \in PlanKinds \cup {"payment"} \cup InvoiceKinds
<1>1. r.id \in Ids
  BY DEF Shape, RequestOK
<1>2. events[r.id] \in Event
  BY <1>1, LenProperties DEF Shape, Ids
<1> QED
  BY <1>1, <1>2, KindsAre DEF KindOf, Event

(* What is left at Clerk when the PATCH of a handler takes effect. *)
Left(r) == Patched(Sent(r))

(* A subscription's handler leaves the plan of its price, and of the rest  *)
(* what Clerk merges.                                                      *)
LEMMA PlanLeft ==
    ASSUME Shape, NEW r \in requests, r.at = "patch", KindOf(r) \in PlanKinds
    PROVE  /\ IsMetadata(Left(r)) /\ DOMAIN Sent(r) = {"plan"}
           /\ KindOf(r) = "checkout" => PlanOf(Left(r)) = PlanFrom(r.found.price)
           /\ KindOf(r) = "updated" => PlanOf(Left(r)) = PlanFrom(events[r.id].price)
           /\ KindOf(r) = "deleted" => PlanOf(Left(r)) = "free"
           /\ CreditOf(Left(r)) = IF merging THEN CreditOf(org) ELSE 0
           /\ Flagged(Left(r)) <=> merging /\ Flagged(org)
<1>1. IsMetadata(org) /\ merging \in BOOLEAN
  BY DEF Shape
<1>2. ASSUME NEW p \in Plan, Sent(r) = Only("plan", p)
      PROVE  /\ IsMetadata(Left(r)) /\ DOMAIN Sent(r) = {"plan"}
             /\ PlanOf(Left(r)) = p
             /\ CreditOf(Left(r)) = IF merging THEN CreditOf(org) ELSE 0
             /\ Flagged(Left(r)) <=> merging /\ Flagged(org)
  BY <1>1, <1>2, PlanPatched, OnlyPlan DEF Left
<1>3. "free" \in Plan
  BY DEF Plan
<1>4. CASE KindOf(r) = "checkout"
  BY <1>2, <1>4, SentIs, PlansFrom
<1>5. CASE KindOf(r) = "updated"
  BY <1>2, <1>5, SentIs, PlansFrom
<1>6. CASE KindOf(r) = "deleted"
  BY <1>2, <1>3, <1>6, SentIs
<1> QED
  BY <1>4, <1>5, <1>6 DEF PlanKinds

(* A top-up leaves one credit more than its handler had found, and the     *)
(* rest as it was unless that was old.                                     *)
LEMMA PaymentLeft ==
    ASSUME Shape, NEW r \in requests, r.at = "patch", KindOf(r) = "payment"
    PROVE  /\ IsMetadata(Left(r))
           /\ CreditOf(Left(r)) = CreditOf(r.found) + 1
           /\ r.found = org => /\ PlanOf(Left(r)) = PlanOf(org)
                               /\ Flagged(Left(r)) <=> Flagged(org)
<1>. DEFINE c == CreditOf(r.found) + 1
            n == Over(Only("credit", c), r.found)
<1>1. IsMetadata(org) /\ merging \in BOOLEAN /\ IsMetadata(r.found)
  BY DEF Shape, RequestOK, OrgKinds
<1>2. c \in Nat
  BY <1>1 DEF IsMetadata
<1>. HIDE DEF c
<1>3. /\ IsMetadata(Only("credit", c)) /\ DOMAIN Only("credit", c) = {"credit"}
      /\ CreditOf(Only("credit", c)) = c /\ ~Flagged(Only("credit", c))
  BY <1>2, OnlyCredit, Missing
<1>4. /\ IsMetadata(n) /\ DOMAIN n = DOMAIN r.found \cup {"credit"}
      /\ PlanOf(n) = PlanOf(r.found) /\ CreditOf(n) = c
      /\ Flagged(n) <=> Flagged(r.found)
  <2>. DEFINE o == Only("credit", c)
              m == r.found
  <2>1. IsMetadata(o) /\ IsMetadata(m) /\ DOMAIN o = {"credit"}
    BY <1>1, <1>3
  <2>2. CreditOf(o) = c /\ ~Flagged(o)
    BY <1>3
  <2>. HIDE DEF o, m
  <2>3. /\ IsMetadata(Over(o, m)) /\ DOMAIN Over(o, m) = DOMAIN m \cup {"credit"}
        /\ PlanOf(Over(o, m)) = PlanOf(m) /\ CreditOf(Over(o, m)) = c
        /\ Flagged(Over(o, m)) <=> Flagged(m)
    <3> DEFINE v == Over(o, m)
    <3>1. /\ IsMetadata(v) /\ DOMAIN v = DOMAIN o \cup DOMAIN m
          /\ "plan" \notin DOMAIN o => PlanOf(v) = PlanOf(m)
          /\ "credit" \in DOMAIN o => CreditOf(v) = CreditOf(o)
          /\ Flagged(v) <=> Flagged(o) \/ Flagged(m)
      BY <2>1, OverIs, Zenon
    <3> HIDE DEF v
    <3>2. /\ DOMAIN v = DOMAIN m \cup {"credit"}
          /\ "plan" \notin DOMAIN o /\ "credit" \in DOMAIN o
      BY <2>1, <3>1
    <3> QED
      BY <2>2, <3>1, <3>2 DEF v
  <2> QED
    BY <2>3 DEF o, m
<1>5. Left(r) = Patched(n)
  BY SentIs DEF Left, c
<1>. HIDE DEF n
<1>6. IsMetadata(Patched(n)) /\ CreditOf(Patched(n)) = c
  BY <1>1, <1>4, PatchedIs
<1>7. ASSUME r.found = org
      PROVE  PlanOf(Patched(n)) = PlanOf(org) /\ (Flagged(Patched(n)) <=> Flagged(org))
  <2>1. "plan" \in DOMAIN n <=> "plan" \in DOMAIN org
    BY <1>4, <1>7
  <2> QED
    BY <1>1, <1>4, <1>7, <2>1, FoundPatched, PatchedIs
<1> QED
  BY <1>5, <1>6, <1>7 DEF c

(* Metadata n that has the plan and the credit of metadata m, sent to      *)
(* Clerk.                                                                  *)
LEMMA WrittenBack ==
    ASSUME Shape, NEW m, IsMetadata(m), NEW n, IsMetadata(n),
           PlanOf(n) = PlanOf(m), CreditOf(n) = CreditOf(m),
           "plan" \in DOMAIN n <=> "plan" \in DOMAIN m,
           "credit" \in DOMAIN n <=> "credit" \in DOMAIN m
    PROVE  /\ IsMetadata(Patched(n))
           /\ CreditOf(Patched(n)) \in {CreditOf(m), CreditOf(org)}
           /\ m = org => /\ PlanOf(Patched(n)) = PlanOf(org)
                         /\ CreditOf(Patched(n)) = CreditOf(org)
           /\ Flagged(Patched(n)) <=> Flagged(n) \/ (merging /\ Flagged(org))
<1>1. IsMetadata(org) /\ merging \in BOOLEAN
  BY DEF Shape
<1>2. /\ IsMetadata(Patched(n))
      /\ "credit" \in DOMAIN n => CreditOf(Patched(n)) = CreditOf(n)
      /\ "credit" \notin DOMAIN n => CreditOf(Patched(n)) = IF merging THEN CreditOf(org) ELSE 0
      /\ Flagged(Patched(n)) <=> Flagged(n) \/ (merging /\ Flagged(org))
  BY <1>1, PatchedIs
<1>3. "credit" \notin DOMAIN n => CreditOf(m) = 0
  BY Missing
<1>4. m = org => PlanOf(Patched(n)) = PlanOf(org)
  BY <1>1, FoundPatched
<1> QED
  BY <1>2, <1>3, <1>4

(* An invoice's handler leaves its flag, and a credit that it had found or *)
(* that Clerk had kept.                                                    *)
LEMMA InvoiceLeft ==
    ASSUME Shape, NEW r \in requests, r.at = "patch", KindOf(r) \in InvoiceKinds
    PROVE  /\ IsMetadata(Left(r))
           /\ CreditOf(Left(r)) \in {CreditOf(r.found), CreditOf(org)}
           /\ r.found = org => /\ PlanOf(Left(r)) = PlanOf(org)
                               /\ CreditOf(Left(r)) = CreditOf(org)
           /\ KindOf(r) = "failed" => Flagged(Left(r))
           /\ KindOf(r) = "paid" /\ ~merging => ~Flagged(Left(r))
<1>1. IsMetadata(org) /\ merging \in BOOLEAN /\ IsMetadata(r.found)
  BY DEF Shape, RequestOK, OrgKinds, InvoiceKinds
<1>2. ASSUME NEW n, IsMetadata(n), Sent(r) = n,
             PlanOf(n) = PlanOf(r.found), CreditOf(n) = CreditOf(r.found),
             "plan" \in DOMAIN n <=> "plan" \in DOMAIN r.found,
             "credit" \in DOMAIN n <=> "credit" \in DOMAIN r.found
      PROVE  /\ IsMetadata(Left(r))
             /\ CreditOf(Left(r)) \in {CreditOf(r.found), CreditOf(org)}
             /\ r.found = org => /\ PlanOf(Left(r)) = PlanOf(org)
                                 /\ CreditOf(Left(r)) = CreditOf(org)
             /\ Flagged(Left(r)) <=> Flagged(n) \/ (merging /\ Flagged(org))
  <2>1. Left(r) = Patched(n)
    BY <1>2 DEF Left
  <2>. HIDE DEF Patched
  <2> QED
    BY <1>1, <1>2, <2>1, WrittenBack
<1>3. CASE KindOf(r) = "failed"
  <2>. DEFINE n == Over(Only("issue", TRUE), r.found)
  <2>1. /\ IsMetadata(Only("issue", TRUE)) /\ DOMAIN Only("issue", TRUE) = {"issue"}
        /\ Flagged(Only("issue", TRUE))
    BY OnlyIssue, Missing
  <2>2. /\ IsMetadata(n) /\ DOMAIN n = DOMAIN r.found \cup {"issue"}
        /\ PlanOf(n) = PlanOf(r.found) /\ CreditOf(n) = CreditOf(r.found) /\ Flagged(n)
    <3>. DEFINE o == Only("issue", TRUE)
                m == r.found
    <3>1. IsMetadata(o) /\ IsMetadata(m) /\ DOMAIN o = {"issue"} /\ Flagged(o)
      BY <1>1, <2>1
    <3>. HIDE DEF o, m
    <3>2. /\ IsMetadata(Over(o, m)) /\ DOMAIN Over(o, m) = DOMAIN m \cup {"issue"}
          /\ PlanOf(Over(o, m)) = PlanOf(m) /\ CreditOf(Over(o, m)) = CreditOf(m)
          /\ Flagged(Over(o, m))
      BY <3>1, OverIs
    <3> QED
      BY <3>2 DEF o, m
  <2>3. Sent(r) = n
    BY <1>3, SentIs
  <2>. HIDE DEF n
  <2> QED
    BY <1>2, <1>3, <2>2, <2>3
<1>4. CASE KindOf(r) = "paid"
  <2>. DEFINE n == Dropped(r.found, "issue")
  <2>1. /\ IsMetadata(n) /\ DOMAIN n = DOMAIN r.found \ {"issue"}
        /\ PlanOf(n) = PlanOf(r.found) /\ CreditOf(n) = CreditOf(r.found) /\ ~Flagged(n)
    BY <1>1, DroppedIs
  <2>2. Sent(r) = n
    BY <1>4, SentIs
  <2>. HIDE DEF n
  <2> QED
    BY <1>2, <1>4, <2>1, <2>2
<1> QED
  BY <1>3, <1>4 DEF InvoiceKinds

(* A checkout leaves what it had read of the plan and the credit, unless   *)
(* Clerk had kept them.                                                    *)
LEMMA LinkedLeft ==
    ASSUME Shape, NEW m, IsMetadata(m)
    PROVE  /\ IsMetadata(Patched(Linked(m)))
           /\ CreditOf(Patched(Linked(m))) \in {CreditOf(m), CreditOf(org)}
           /\ m = org => /\ PlanOf(Patched(Linked(m))) = PlanOf(org)
                         /\ CreditOf(Patched(Linked(m))) = CreditOf(org)
                         /\ Flagged(Patched(Linked(m))) <=> Flagged(org)
<1>. DEFINE o == Only("customer", TRUE)
            n == Linked(m)
<1>1. IsMetadata(o) /\ DOMAIN o = {"customer"} /\ ~Flagged(o)
  BY OnlyCustomer
<1>2. n = Over(o, m)
  BY DEF Linked
<1>. HIDE DEF o, n
<1>3. /\ IsMetadata(n) /\ DOMAIN n = DOMAIN m \cup {"customer"}
      /\ PlanOf(n) = PlanOf(m) /\ CreditOf(n) = CreditOf(m)
      /\ Flagged(n) <=> Flagged(m)
  <2>1. /\ IsMetadata(n) /\ DOMAIN n = DOMAIN o \cup DOMAIN m
        /\ "plan" \notin DOMAIN o => PlanOf(n) = PlanOf(m)
        /\ "credit" \notin DOMAIN o => CreditOf(n) = CreditOf(m)
        /\ Flagged(n) <=> Flagged(o) \/ Flagged(m)
    BY <1>1, <1>2, OverIs, Zenon
  <2> QED
    BY <1>1, <2>1
<1>4. /\ "plan" \in DOMAIN n <=> "plan" \in DOMAIN m
      /\ "credit" \in DOMAIN n <=> "credit" \in DOMAIN m
  BY <1>3
<1>5. /\ IsMetadata(Patched(n))
      /\ CreditOf(Patched(n)) \in {CreditOf(m), CreditOf(org)}
      /\ m = org => /\ PlanOf(Patched(n)) = PlanOf(org)
                    /\ CreditOf(Patched(n)) = CreditOf(org)
      /\ Flagged(Patched(n)) <=> Flagged(n) \/ (merging /\ Flagged(org))
  BY <1>3, <1>4, WrittenBack
<1>6. m = org => (Flagged(Patched(n)) <=> Flagged(org))
  BY <1>3, <1>5
<1> QED
  BY <1>5, <1>6 DEF n

(* Whatever the kind, metadata is left, and with it the plan unless the    *)
(* event is about the subscription or old metadata is written back.        *)
LEMMA MetadataLeft ==
    ASSUME Shape, NEW r \in requests, r.at = "patch"
    PROVE  IsMetadata(Left(r))
BY KindsOfRequests, PlanLeft, PaymentLeft, InvoiceLeft

-----------------------------------------------------------------------------
(* Steps that leave what was noted, written and sent as it is.             *)

(* A mishap that has not happened yet had not happened before. *)
LEMMA ClearBefore ==
    ASSUME mishaps \subseteq mishaps', NEW S, Clear(S)'
    PROVE  Clear(S)
BY DEF Clear

(* Top-ups that are done can be counted. *)
LEMMA CreditedFinite == Shape => IsFiniteSet(Credited) /\ Cardinality(Credited) \in Nat
<1>. SUFFICES ASSUME Shape PROVE IsFiniteSet(Credited)
  BY FS_CardinalityType
<1>1. IsFiniteSet(Ids)
  <2>1. Ids = 1 .. Len(events) /\ Len(events) \in Nat
    BY LenProperties DEF Shape, Ids
  <2> QED
    BY <2>1, FS_Interval
<1>2. Credited \subseteq Ids
  BY DEF Credited, Shape
<1> QED
  BY <1>1, <1>2, FS_Subset

(* A step that changes neither the events, nor what was noted, nor what    *)
(* Clerk holds keeps every claim.                                          *)
LEMMA QuietKeeps ==
    ASSUME BillingIInv, Shape',
           UNCHANGED <<merging, priceOf, active, events, org, processed, newest>>,
           mishaps \subseteq mishaps', Patching' = Patching,
           acked' \subseteq acked \cup processed,
           opening' \subseteq opening \cup {org}
    PROVE  BillingIInv'
<1>. USE DEF BillingIInv
<1>1. LastTellsAll'
  BY DEF LastTellsAll, LastPlan, KindOf, Ids
<1>2. NewestOfItsFamily'
  BY DEF NewestOfItsFamily
<1>3. NotedTakesEffect'
  BY DEF NotedTakesEffect, Clear
<1>4. HandledOnce' /\ Credited' = Credited
  BY DEF HandledOnce, Clear, Credited
<1>5. CreditBounded'
  BY <1>4 DEF CreditBounded, Clear, KindOf
<1>6. Blameless' => Blameless
  BY DEF Blameless
<1>7. CreditExact' /\ FlagFollows'
  BY <1>4, <1>6 DEF CreditExact, FlagFollows
<1>8. PlanFollows'
  BY DEF PlanFollows, Clear, Allowed, Charged, Ids
<1> QED
  BY <1>1, <1>2, <1>3, <1>4, <1>5, <1>7, <1>8

(* A second delivery of an event that was noted is answered, any other     *)
(* starts a request.                                                       *)
LEMMA DeliverStep ==
    ASSUME BillingIInv, NEW e \in Ids, Deliver(e)
    PROVE  BillingIInv'
<1>. USE BillingAssumption
<1>1. /\ Cardinality(requests) < MaxRequests
      /\ troubles' \in 0 .. MaxTroubles
      /\ UNCHANGED <<merging, priceOf, active, events, org, processed, opened, opening,
                     todo, newest, mishaps>>
  BY DEF Deliver, Trouble, stripeVars, shopVars, BillingIInv, Shape
<1>2. CASE Duplicate(e)
  <2>1. acked' = acked \cup {e} /\ requests' = requests
    BY <1>2 DEF Deliver, Duplicate
  <2>2. Shape'
    BY <1>1, <2>1 DEF BillingIInv, Shape, RequestOK, ItemOK, KindOf, Ids
  <2>3. Patching' = Patching
    BY <2>1 DEF Patching
  <2> QED
    BY <1>1, <1>2, <2>1, <2>2, <2>3, QuietKeeps DEF Duplicate
<1>3. CASE ~Duplicate(e)
  <2>1. PICK c \in Copy :
           requests' = requests \cup
               {[id |-> e, copy |-> c, at |-> "look", found |-> Nothing]}
    BY <1>3 DEF Deliver, Duplicate, Unused
  <2>. DEFINE q == [id |-> e, copy |-> c, at |-> "look", found |-> Nothing]
  <2>2. /\ q = [id |-> q.id, copy |-> q.copy, at |-> q.at, found |-> q.found]
        /\ q.id = e /\ q.copy = c /\ q.at = "look"
    OBVIOUS
  <2>. HIDE DEF q
  <2>3. acked' = acked /\ requests' = requests \cup {q}
    BY <1>3, <2>1 DEF Deliver, Duplicate, q
  <2>4. IsFiniteSet(requests') /\ Cardinality(requests') <= MaxRequests
    <3>1. /\ IsFiniteSet(requests')
          /\ Cardinality(requests') = Cardinality(requests)
               \/ Cardinality(requests') = Cardinality(requests) + 1
      BY <2>3, FS_AddElement DEF BillingIInv, Shape
    <3>2. Cardinality(requests) \in Nat
      BY FS_CardinalityType DEF BillingIInv, Shape
    <3> QED
      BY <1>1, <3>1, <3>2
  <2>5. \A r \in requests' : RequestOK(r)'
    BY <1>1, <2>2, <2>3 DEF BillingIInv, Shape, RequestOK, ItemOK, KindOf, Ids
  <2>6. Shape'
    BY <1>1, <2>3, <2>4, <2>5 DEF BillingIInv, Shape, ItemOK, Ids
  <2>7. Patching' = Patching
    BY <2>2, <2>3 DEF Patching
  <2> QED
    BY <1>1, <2>3, <2>6, <2>7, QuietKeeps
<1> QED
  BY <1>2, <1>3

(* What moves on replaces itself. *)
LEMMA Replaced ==
    ASSUME NEW S, IsFiniteSet(S), NEW x \in S, NEW y
    PROVE  /\ IsFiniteSet((S \ {x}) \cup {y}) /\ IsFiniteSet(S \ {x})
           /\ Cardinality((S \ {x}) \cup {y}) <= Cardinality(S)
           /\ Cardinality(S \ {x}) <= Cardinality(S)
<1>1. IsFiniteSet(S \ {x}) /\ Cardinality(S \ {x}) = Cardinality(S) - 1
  BY FS_RemoveElement
<1>2. /\ IsFiniteSet((S \ {x}) \cup {y})
      /\ \/ Cardinality((S \ {x}) \cup {y}) = Cardinality(S \ {x})
         \/ Cardinality((S \ {x}) \cup {y}) = Cardinality(S \ {x}) + 1
  BY <1>1, FS_AddElement
<1>3. Cardinality(S) \in Nat
  BY FS_CardinalityType
<1> QED
  BY <1>1, <1>2, <1>3

(* Reconciliation lists and reads, and a checkout reads. *)
LEMMA ReadsOnlySteps ==
    ASSUME BillingIInv,
           ListAll \/ ListSome \/ (\E t \in todo : Compare(t)) \/ OpenCheckout
    PROVE  BillingIInv'
<1>. USE BillingAssumption
<1>1. UNCHANGED <<merging, priceOf, active, events, acked, org, processed, requests, newest,
                  mishaps, troubles>>
  BY DEF ListAll, ListSome, Listing, Compare, OpenCheckout, stripeVars, webVars
<1>2. /\ IsFiniteSet(todo') /\ \A t \in todo' : ItemOK(t)
      /\ opened' \in BOOLEAN /\ \A m \in opening' : IsMetadata(m)
      /\ opening' \subseteq opening \cup {org}
  <2>1. ASSUME NEW c, Listing(c)
        PROVE  IsFiniteSet(todo') /\ \A t \in todo' : ItemOK(t)
    <3>. DEFINE A == {a \in active : a > c}
                f == [x \in A |-> [sub |-> x, price |-> priceOf[x], at |-> "read"]]
    <3>1. todo' = {f[x] : x \in A}
      BY <2>1 DEF Listing
    <3>2. priceOf \in Seq(Price) /\ active \subseteq DOMAIN priceOf
      BY DEF BillingIInv, Shape
    <3>3. /\ Len(priceOf) \in Nat /\ DOMAIN priceOf = 1 .. Len(priceOf)
          /\ \A x \in DOMAIN priceOf : priceOf[x] \in Price
      BY <3>2, LenProperties
    <3>4. IsFiniteSet(A)
      <4>1. IsFiniteSet(1 .. Len(priceOf))
        BY <3>3, FS_Interval
      <4>2. A \subseteq 1 .. Len(priceOf)
        BY <3>2, <3>3
      <4> HIDE DEF A
      <4> QED
        BY <4>1, <4>2, FS_Subset
    <3>5. \A x \in A : ItemOK(f[x])
      BY <3>2, <3>3 DEF ItemOK
    <3>6. f \in [A -> {f[x] : x \in A}]
      OBVIOUS
    <3>. HIDE DEF f, A
    <3>7. f \in Surjection(A, todo')
      BY <3>1, <3>6 DEF Surjection
    <3>8. IsFiniteSet(todo')
      BY <3>4, <3>7, FS_Surjection
    <3> QED
      BY <3>1, <3>5, <3>8
  <2>2. ASSUME NEW t \in todo, Compare(t)
        PROVE  IsFiniteSet(todo') /\ \A u \in todo' : ItemOK(u)
    <3>1. PICK q : q = [t EXCEPT !.at = "patch"]
      OBVIOUS
    <3>2. ItemOK(t) /\ IsFiniteSet(todo) /\ \A u \in todo : ItemOK(u)
      BY DEF BillingIInv, Shape
    <3>3. ItemOK(q)
      BY <3>1, <3>2 DEF ItemOK
    <3>4. todo' = (todo \ {t}) \cup {q} \/ todo' = todo \ {t}
      BY <2>2, <3>1 DEF Compare
    <3>5. IsFiniteSet(todo')
      <4>1. IsFiniteSet((todo \ {t}) \cup {q}) /\ IsFiniteSet(todo \ {t})
        BY <3>2, Replaced
      <4> QED
        BY <3>4, <4>1
    <3> QED
      BY <3>2, <3>3, <3>4, <3>5
  <2>3. CASE OpenCheckout
    BY <2>3 DEF OpenCheckout, BillingIInv, Shape
  <2>4. CASE ListAll \/ ListSome
    BY <2>1, <2>4 DEF ListAll, ListSome, Listing, shopVars, BillingIInv, Shape
  <2>5. CASE \E t \in todo : Compare(t)
    BY <2>2, <2>5 DEF Compare, shopVars, BillingIInv, Shape
  <2> QED
    BY <2>3, <2>4, <2>5
<1>3. Shape'
  BY <1>1, <1>2 DEF BillingIInv, Shape, RequestOK, ItemOK, KindOf, Ids
<1>4. Patching' = Patching
  BY <1>1 DEF Patching
<1> QED
  BY <1>1, <1>2, <1>3, <1>4, QuietKeeps

(* A restart forgets what was noted, and the handlers with it. *)
LEMMA RestartStep ==
    ASSUME BillingIInv, Restart
    PROVE  BillingIInv'
<1>. USE BillingAssumption DEF BillingIInv
<1>1. /\ processed' = {} /\ requests' = {} /\ mishaps' = mishaps \cup {"restart"}
      /\ troubles < MaxTroubles /\ troubles' = troubles + 1
      /\ UNCHANGED <<merging, priceOf, active, events, acked, org, opened, opening, todo, newest>>
  BY DEF Restart, Trouble, Befalls, stripeVars, shopVars
<1>2. IsFiniteSet({}) /\ Cardinality({}) = 0
  BY FS_EmptySet
<1>3. Shape'
  BY <1>1, <1>2 DEF Shape, ItemOK, Mishap, Ids
<1>4. Patching' = {}
  BY <1>1 DEF Patching
<1>5. LastTellsAll'
  BY <1>1, <1>4 DEF LastTellsAll, LastPlan, Ids
<1>6. /\ \A S : Clear(S)' => "restart" \notin S
      /\ ~Blameless'
  BY <1>1 DEF Clear, Blameless
<1>7. /\ NotedTakesEffect' /\ HandledOnce' /\ CreditBounded'
      /\ CreditExact' /\ PlanFollows' /\ FlagFollows'
  BY <1>6 DEF NotedTakesEffect, HandledOnce, CreditBounded, CreditExact, PlanFollows, FlagFollows
<1>8. NewestOfItsFamily'
  BY <1>1 DEF NewestOfItsFamily
<1> QED
  BY <1>3, <1>5, <1>7, <1>8

-----------------------------------------------------------------------------
(* Stripe sends an event. *)

(* Stripe sends one more event, after all others. *)
LEMMA Grows ==
    ASSUME Shape, NEW ev \in Event, events' = Append(events, ev)
    PROVE  LET n == Len(events) + 1
           IN  /\ Ids = 1 .. Len(events) /\ Ids' = Ids \cup {n} /\ n \notin Ids
               /\ Len(events) \in Nat /\ Len(events') = n
               /\ events' \in Seq(Event)
               /\ \A e \in Ids : e < n /\ events'[e] = events[e] /\ events[e] \in Event
               /\ events'[n] = ev
<1>1. /\ events' \in Seq(Event) /\ Len(events') = Len(events) + 1
      /\ \A i \in 1 .. Len(events) : events'[i] = events[i]
      /\ events'[Len(events) + 1] = ev
  BY AppendProperties DEF Shape
<1>2. /\ Ids = 1 .. Len(events) /\ Len(events) \in Nat
      /\ Ids' = 1 .. Len(events')
      /\ \A e \in Ids : events[e] \in Event
  BY <1>1, LenProperties DEF Ids, Shape
<1> QED
  BY <1>1, <1>2

(* An event that nobody has noted changes nothing about those that were.   *)
LEMMA SentKeeps ==
    ASSUME BillingIInv, NEW ev \in Event, events' = Append(events, ev),
           UNCHANGED <<merging, acked, org, processed, requests, newest, opening>>,
           mishaps \subseteq mishaps', mishaps' \subseteq mishaps \cup {"several"}
    PROVE  /\ NewestOfItsFamily' /\ NotedTakesEffect' /\ HandledOnce' /\ CreditBounded'
           /\ CreditExact' /\ FlagFollows'
<1>. USE DEF BillingIInv
<1>. DEFINE n == Len(events) + 1
<1>1. /\ Ids = 1 .. Len(events) /\ Ids' = Ids \cup {n} /\ n \notin Ids
      /\ \A e \in Ids : e < n /\ events'[e] = events[e]
      /\ Len(events) \in Nat
  BY Grows
<1>2. /\ newest["plan"] # 0 => newest["plan"] \in Ids
      /\ newest["invoice"] # 0 => newest["invoice"] \in Ids
      /\ processed \subseteq Ids
      /\ \A r \in Patching : r.id \in Ids
  BY <1>1 DEF Shape, RequestOK, Patching
<1>3. NewestOfItsFamily'
  BY <1>1, <1>2 DEF NewestOfItsFamily
<1>4. Patching' = Patching /\ Credited' = Credited
  BY <1>1, <1>2 DEF Patching, Credited
<1>5. NotedTakesEffect'
  BY <1>1, <1>2, <1>4 DEF NotedTakesEffect, Clear
<1>6. HandledOnce'
  BY <1>4 DEF HandledOnce, Clear
<1>7. CreditBounded' /\ CreditExact'
  BY <1>1, <1>2, <1>4 DEF CreditBounded, CreditExact, Clear, Blameless, KindOf
<1>8. FlagFollows'
  BY <1>1, <1>2 DEF FlagFollows, Blameless
<1> QED
  BY <1>3, <1>5, <1>6, <1>7, <1>8

(* A new event is well formed, and so is everything else as long as the    *)
(* subscription is.                                                        *)
LEMMA SentShape ==
    ASSUME Shape, NEW ev \in Event, events' = Append(events, ev),
           UNCHANGED <<merging, acked, org, processed, requests, newest,
                       opened, opening, todo, troubles>>,
           mishaps' \subseteq Mishap,
           priceOf' \in Seq(Price), active' \subseteq DOMAIN priceOf',
           DOMAIN priceOf \subseteq DOMAIN priceOf',
           ev.kind = "checkout" => ev.sub \in DOMAIN priceOf',
           ev.kind = "updated" => ev.price \in Price
    PROVE  Shape'
<1>. DEFINE n == Len(events) + 1
<1>1. /\ Ids = 1 .. Len(events) /\ Ids' = Ids \cup {n} /\ n \notin Ids
      /\ \A e \in Ids : e < n /\ events'[e] = events[e] /\ events[e] \in Event
      /\ events'[n] = ev /\ events' \in Seq(Event)
      /\ Len(events) \in Nat /\ Len(events') = n
  BY Grows
<1>. HIDE DEF n
<1>2. \A e \in Ids' : /\ events'[e].kind = "checkout" => events'[e].sub \in DOMAIN priceOf'
                      /\ events'[e].kind = "updated" => events'[e].price \in Price
  <2>1. ASSUME NEW e \in Ids
        PROVE  /\ events'[e].kind = "checkout" => events'[e].sub \in DOMAIN priceOf'
               /\ events'[e].kind = "updated" => events'[e].price \in Price
    BY <1>1 DEF Shape
  <2> QED
    BY <1>1, <2>1
<1>3. \A r \in requests' : RequestOK(r)'
  BY <1>1 DEF Shape, RequestOK, KindOf
<1>4. newest' \in [{"plan", "invoice"} -> 0 .. Len(events')]
  <2>1. 0 .. Len(events) \subseteq 0 .. Len(events')
    BY <1>1 DEF n
  <2> QED
    BY <2>1 DEF Shape
<1>5. \A t \in todo' : ItemOK(t)'
  BY DEF Shape, ItemOK
<1> QED
  BY <1>1, <1>2, <1>3, <1>4, <1>5 DEF Shape

(* An event about a subscription is the last one: it tells how Stripe      *)
(* holds it, and has not taken effect.                                     *)
LEMMA PlanSentKeeps ==
    ASSUME BillingIInv, NEW ev \in Event, events' = Append(events, ev),
           UNCHANGED <<merging, acked, org, processed, requests, newest, opening>>,
           mishaps \subseteq mishaps', mishaps' \subseteq mishaps \cup {"several"},
           Shape', ev.kind \in PlanKinds,
           ev.kind = "checkout" => ev.sub \in active',
           ev.kind = "updated" => ev.sub \in active' /\ ev.price = priceOf'[ev.sub],
           ev.kind = "deleted" => active' = {} \/ "several" \in mishaps',
           \A s, t \in active' : s = t \/ "several" \in mishaps'
    PROVE  BillingIInv'
<1>. DEFINE n == Len(events) + 1
<1>1. /\ Ids = 1 .. Len(events) /\ Ids' = Ids \cup {n} /\ n \notin Ids
      /\ \A e \in Ids : e < n /\ events'[e] = events[e]
      /\ events'[n] = ev
      /\ Len(events) \in Nat /\ n \in Nat /\ Ids \subseteq Nat
  BY Grows DEF BillingIInv
<1>2. newest["plan"] < n /\ newest["plan"] \in Nat
  BY <1>1 DEF BillingIInv, Shape
<1>. HIDE DEF n
<1>3. \A e : LastPlan(e)' => e = n
  <2>. SUFFICES ASSUME NEW e, LastPlan(e)' PROVE e = n
    OBVIOUS
  <2>1. e \in Ids' /\ n <= e
    BY <1>1 DEF LastPlan
  <2> QED
    BY <1>1, <2>1
<1>4. LastTellsAll'
  <2>1. Patching' = Patching /\ \A r \in Patching : r.id \in Ids
    BY DEF Patching, BillingIInv, Shape, RequestOK
  <2>2. \A r \in Patching' : ~LastPlan(r.id)'
    BY <1>1, <1>3, <2>1
  <2> QED
    BY <1>1, <1>3, <2>2 DEF LastTellsAll
<1>5. PlanFollows'
  <2>1. n \in Ids' /\ events'[n].kind \in PlanKinds /\ ~(n <= newest["plan"])
    BY <1>1, <1>2
  <2> QED
    BY <2>1 DEF PlanFollows
<1>6. /\ NewestOfItsFamily' /\ NotedTakesEffect' /\ HandledOnce' /\ CreditBounded'
      /\ CreditExact' /\ FlagFollows'
  BY SentKeeps
<1> QED
  BY <1>4, <1>5, <1>6 DEF BillingIInv

(* A subscription begins, changes its price or ends, and Stripe tells. *)
LEMMA SubscriptionSteps ==
    ASSUME BillingIInv,
           \/ \E p \in Price : Subscribe(p) \/ \E s \in active : ChangePlan(s, p)
           \/ \E s \in active : Cancel(s)
    PROVE  BillingIInv'
<1>. USE BillingAssumption
<1>0. /\ priceOf \in Seq(Price) /\ Len(priceOf) \in Nat /\ DOMAIN priceOf = 1 .. Len(priceOf)
      /\ Shape /\ active \subseteq DOMAIN priceOf /\ mishaps \subseteq Mishap
  BY LenProperties DEF BillingIInv, Shape
<1>1. ASSUME NEW p \in Price, Subscribe(p) PROVE BillingIInv'
  <2>. DEFINE ev == [kind |-> "checkout", sub |-> Len(priceOf'), price |-> "none"]
  <2>1. /\ priceOf' = Append(priceOf, p) /\ active' = active \cup {Len(priceOf')}
        /\ events' = Append(events, ev)
        /\ mishaps' = mishaps \cup (IF active # {} THEN {"several"} ELSE {})
        /\ UNCHANGED <<merging, acked, org, processed, requests, newest,
                       opened, opening, todo, troubles>>
    BY <1>1 DEF Subscribe, Send, Befalls, webVars, shopVars
  <2>2. /\ priceOf' \in Seq(Price) /\ Len(priceOf') = Len(priceOf) + 1
        /\ DOMAIN priceOf' = 1 .. Len(priceOf')
    BY <1>0, <2>1, AppendProperties, LenProperties
  <2>3. ev \in Event /\ ev.kind = "checkout" /\ ev.sub = Len(priceOf')
    BY <1>0, <2>2 DEF Event, Kind
  <2>. HIDE DEF ev
  <2>4. DOMAIN priceOf \subseteq DOMAIN priceOf' /\ ev.sub \in DOMAIN priceOf'
    BY <1>0, <2>2, <2>3
  <2>5. /\ active' \subseteq DOMAIN priceOf' /\ ev.sub \in active'
        /\ mishaps \subseteq mishaps' /\ mishaps' \subseteq mishaps \cup {"several"}
        /\ mishaps' \subseteq Mishap
    BY <1>0, <2>1, <2>3, <2>4 DEF Mishap
  <2>6. Shape'
    BY <1>0, <2>1, <2>2, <2>3, <2>4, <2>5, SentShape
  <2>7. \A s, t \in active' : s = t \/ "several" \in mishaps'
    BY <2>1 DEF BillingIInv, LastTellsAll
  <2> QED
    BY <2>1, <2>3, <2>5, <2>6, <2>7, PlanSentKeeps DEF PlanKinds
<1>2. ASSUME NEW p \in Price, NEW s \in active, ChangePlan(s, p) PROVE BillingIInv'
  <2>. DEFINE ev == [kind |-> "updated", sub |-> s, price |-> p]
  <2>1. /\ priceOf' = [priceOf EXCEPT ![s] = p] /\ active' = active
        /\ events' = Append(events, ev)
        /\ UNCHANGED <<merging, acked, org, processed, requests, newest, mishaps,
                       opened, opening, todo, troubles>>
    BY <1>2 DEF ChangePlan, Send, webVars, shopVars
  <2>2. /\ priceOf' \in Seq(Price) /\ DOMAIN priceOf' = DOMAIN priceOf
        /\ s \in DOMAIN priceOf /\ priceOf'[s] = p
    <3>1. s \in 1 .. Len(priceOf)
      BY <1>0
    <3>2. priceOf' \in Seq(Price)
      BY <1>0, <2>1, <3>1, ExceptSeq
    <3> QED
      BY <1>0, <2>1, <3>1, <3>2
  <2>3. ev \in Event /\ ev.kind = "updated" /\ ev.price = p /\ ev.sub = s
    BY <1>0, <2>2 DEF Event, Kind
  <2>. HIDE DEF ev
  <2>4. Shape'
    BY <1>0, <2>1, <2>2, <2>3, SentShape
  <2>5. \A x, y \in active' : x = y \/ "several" \in mishaps'
    BY <2>1 DEF BillingIInv, LastTellsAll
  <2>6. /\ ev.kind # "checkout" /\ ev.kind # "deleted" /\ ev.kind \in PlanKinds
        /\ ev.sub \in active' /\ ev.price = priceOf'[ev.sub]
    BY <2>1, <2>2, <2>3 DEF PlanKinds
  <2> QED
    BY <2>1, <2>3, <2>4, <2>5, <2>6, PlanSentKeeps
<1>3. ASSUME NEW s \in active, Cancel(s) PROVE BillingIInv'
  <2>. DEFINE ev == [kind |-> "deleted", sub |-> s, price |-> "none"]
  <2>1. /\ priceOf' = priceOf /\ active' = active \ {s} /\ events' = Append(events, ev)
        /\ UNCHANGED <<merging, acked, org, processed, requests, newest, mishaps,
                       opened, opening, todo, troubles>>
    BY <1>3 DEF Cancel, Send, webVars, shopVars
  <2>2. ev \in Event /\ ev.kind = "deleted"
    BY <1>0 DEF Event, Kind
  <2>. HIDE DEF ev
  <2>3. Shape'
    BY <1>0, <2>1, <2>2, SentShape
  <2>4. /\ \A x, y \in active' : x = y \/ "several" \in mishaps'
        /\ active' = {} \/ "several" \in mishaps'
    BY <2>1 DEF BillingIInv, LastTellsAll
  <2> QED
    BY <2>1, <2>2, <2>3, <2>4, PlanSentKeeps DEF PlanKinds
<1> QED
  BY <1>1, <1>2, <1>3

(* Top-ups and invoices do not touch the subscription. *)
LEMMA ChargeStep ==
    ASSUME BillingIInv, NEW kind \in OrgKinds, Charge(kind)
    PROVE  BillingIInv'
<1>. DEFINE ev == [kind |-> kind, sub |-> 0, price |-> "none"]
            n == Len(events) + 1
<1>1. /\ priceOf' = priceOf /\ active' = active /\ events' = Append(events, ev)
      /\ UNCHANGED <<merging, acked, org, processed, requests, newest, mishaps,
                     opened, opening, todo, troubles>>
  BY DEF Charge, Send, webVars, shopVars
<1>2. ev \in Event /\ ev.kind \in OrgKinds /\ ev.kind \notin PlanKinds
  BY DEF Event, Kind, OrgKinds, PlanKinds
<1>. HIDE DEF ev
<1>3. ev.kind # "checkout" /\ ev.kind # "updated"
  BY <1>2 DEF PlanKinds
<1>4. Shape'
  BY <1>1, <1>2, <1>3, SentShape DEF BillingIInv, Shape
<1>5. /\ Ids = 1 .. Len(events) /\ Ids' = Ids \cup {n} /\ n \notin Ids
      /\ \A e \in Ids : e < n /\ events'[e] = events[e]
      /\ events'[n] = ev
  BY <1>1, <1>2, Grows DEF BillingIInv
<1>. HIDE DEF n
<1>6. \A e : LastPlan(e)' <=> LastPlan(e)
  BY <1>2, <1>5 DEF LastPlan
<1>7. LastTellsAll'
  <2>1. Patching' = Patching /\ \A r \in Patching : r.id \in Ids
    BY <1>1 DEF Patching, BillingIInv, Shape, RequestOK
  <2>2. \A e \in Ids' : LastPlan(e)' => e \in Ids
    BY <1>6 DEF LastPlan
  <2>4. \A r \in Patching' : KindOf(r)' = KindOf(r)
    BY <1>5, <2>1 DEF KindOf
  <2> QED
    BY <1>1, <1>5, <1>6, <2>1, <2>2, <2>4 DEF LastTellsAll, BillingIInv
<1>8. PlanFollows'
  BY <1>1, <1>2, <1>5 DEF PlanFollows, Allowed, Charged, Clear, BillingIInv
<1>9. /\ NewestOfItsFamily' /\ NotedTakesEffect' /\ HandledOnce' /\ CreditBounded'
      /\ CreditExact' /\ FlagFollows'
  BY <1>1, <1>2, SentKeeps
<1> QED
  BY <1>4, <1>7, <1>8, <1>9 DEF BillingIInv

-----------------------------------------------------------------------------
(* Reconciliation writes a plan. *)

(* A PATCH of the plan alone that leaves out nothing Clerk would drop.     *)
LEMMA NothingLost ==
    ASSUME Shape, NEW sent, DOMAIN sent = {"plan"}, Unmentioned(sent, FALSE) = {}, ~merging
    PROVE  CreditOf(org) = 0 /\ ~Flagged(org)
<1>1. (DOMAIN org \ {"plan"}) \cap {"credit", "issue"} = {}
  BY DEF Unmentioned
<1>2. "credit" \notin DOMAIN org /\ "issue" \notin DOMAIN org
  BY <1>1
<1> QED
  BY <1>2, Missing

(* Leaving out a key is a mishap like others. *)
LEMMA UnmentionedIs == ASSUME NEW sent, NEW popped \in BOOLEAN
                       PROVE  Unmentioned(sent, popped) \subseteq Mishap \ {"several"}
BY DEF Unmentioned, Mishap

(* A write of the metadata that is no event's keeps every claim as long as *)
(* it gives no credit, keeps what is exact, and leaves the plan or writes  *)
(* one that is charged for.                                                *)
LEMMA WrittenKeeps ==
    ASSUME BillingIInv, Shape',
           UNCHANGED <<merging, priceOf, active, events, acked, processed, requests, newest>>,
           mishaps \subseteq mishaps', opening' \subseteq opening,
           Clear({"restart", "raced"})' => CreditOf(org') <= Cardinality(Credited),
           Blameless' => CreditOf(org') = CreditOf(org) /\ (Flagged(org') <=> Flagged(org)),
           Clear({"failed", "stale", "reordered", "restart"})'
               => PlanOf(org') = PlanOf(org) \/ PlanOf(org') \in Charged
    PROVE  BillingIInv'
<1>. USE DEF BillingIInv
<1>1. Patching' = Patching /\ Credited' = Credited
  BY DEF Patching, Credited
<1>2. LastTellsAll' /\ NewestOfItsFamily'
  BY <1>1 DEF LastTellsAll, NewestOfItsFamily, LastPlan, KindOf, Ids
<1>3. NotedTakesEffect' /\ HandledOnce'
  BY <1>1 DEF NotedTakesEffect, HandledOnce, Clear
<1>4. CreditBounded'
  BY <1>1 DEF CreditBounded, Clear, KindOf
<1>5. Blameless' => Blameless
  BY DEF Blameless
<1>6. CreditExact' /\ FlagFollows'
  BY <1>1, <1>5 DEF CreditExact, FlagFollows
<1>7. PlanFollows'
  <2>1. Charged' = Charged /\ Ids' = Ids
    BY DEF Charged, Ids
  <2>2. Clear({"failed", "stale", "reordered", "restart"})'
           => Clear({"failed", "stale", "reordered", "restart"})
    BY DEF Clear
  <2> QED
    BY <2>1, <2>2 DEF PlanFollows, Allowed
<1> QED
  BY <1>2, <1>3, <1>4, <1>6, <1>7

(* What the reconciliation writes is a plan; the credit is kept or lost.   *)
LEMMA RepairedIs ==
    ASSUME Shape, NEW t \in todo
    PROVE  /\ IsMetadata(Repaired(t)) /\ PlanOf(Repaired(t)) = PlanFrom(t.price)
           /\ CreditOf(Repaired(t)) = IF merging THEN CreditOf(org) ELSE 0
           /\ Flagged(Repaired(t)) <=> merging /\ Flagged(org)
<1>1. IsMetadata(org) /\ merging \in BOOLEAN /\ PlanFrom(t.price) \in Plan
  BY PlansFrom DEF Shape
<1> QED
  BY <1>1, PlanPatched DEF Repaired

(* The credit at Clerk that the invariant allows.                          *)
LEMMA CreditKept ==
    ASSUME BillingIInv, mishaps \subseteq mishaps', Clear({"restart", "raced"})'
    PROVE  /\ CreditOf(org) <= Cardinality(Credited)
           /\ \A m \in opening : CreditOf(m) <= Cardinality(Credited)
           /\ 0 <= Cardinality(Credited)
<1>1. Clear({"restart", "raced"})
  BY DEF Clear
<1>2. Cardinality(Credited) \in Nat
  BY CreditedFinite DEF BillingIInv
<1> QED
  BY <1>1, <1>2 DEF BillingIInv, CreditBounded

(* The reconciliation writes the plan of a price it has listed: one that   *)
(* is charged for, unless Stripe has moved on since.                       *)
LEMMA RepairStep ==
    ASSUME BillingIInv, NEW t \in todo, Repair(t)
    PROVE  BillingIInv'
<1>. USE BillingAssumption
<1>. DEFINE sent == Only("plan", PlanFrom(t.price))
            lost == Unmentioned(sent, FALSE)
            stale == IF Outdated(t) THEN {"stale"} ELSE {}
<1>1. /\ org' = Repaired(t) /\ todo' = todo \ {t}
      /\ mishaps' = mishaps \cup (stale \cup lost)
      /\ UNCHANGED <<merging, priceOf, active, events, acked, processed, requests,
                     opened, opening, troubles, newest>>
  BY DEF Repair, Befalls, stripeVars, webVars, shopVars
<1>2. /\ IsMetadata(org') /\ PlanOf(org') = PlanFrom(t.price) /\ DOMAIN sent = {"plan"}
      /\ CreditOf(org') = IF merging THEN CreditOf(org) ELSE 0
      /\ Flagged(org') <=> merging /\ Flagged(org)
  BY <1>1, RepairedIs, PlansFrom, OnlyPlan DEF BillingIInv
<1>3. /\ stale \subseteq Mishap /\ lost \subseteq Mishap \ {"several"}
      /\ lost = {} /\ ~merging => CreditOf(org) = 0 /\ ~Flagged(org)
      /\ stale = {} => ~Outdated(t)
      /\ stale # {} => "stale" \in stale
  BY <1>2, UnmentionedIs, NothingLost DEF Mishap, BillingIInv
<1>. HIDE DEF sent, lost, stale
<1>4. Shape'
  <2>1. IsFiniteSet(todo')
    BY <1>1, Replaced DEF BillingIInv, Shape
  <2>2. mishaps' \subseteq Mishap
    BY <1>1, <1>3 DEF BillingIInv, Shape
  <2> QED
    BY <1>1, <1>2, <2>1, <2>2 DEF BillingIInv, Shape, RequestOK, ItemOK, KindOf, Ids
<1>5. mishaps \subseteq mishaps'
  BY <1>1
<1>6. Clear({"restart", "raced"})' => CreditOf(org') <= Cardinality(Credited)
  BY <1>2, <1>5, CreditKept
<1>7. Blameless' => CreditOf(org') = CreditOf(org) /\ (Flagged(org') <=> Flagged(org))
  <2>1. Blameless' => lost = {}
    BY <1>1, <1>3 DEF Blameless
  <2>2. merging \in BOOLEAN
    BY DEF BillingIInv, Shape
  <2> QED
    BY <1>2, <1>3, <2>1, <2>2
<1>8. Clear({"failed", "stale", "reordered", "restart"})' => PlanOf(org') \in Charged
  <2>1. Clear({"failed", "stale", "reordered", "restart"})' => ~Outdated(t)
    BY <1>1, <1>3 DEF Clear
  <2> QED
    BY <1>2, <2>1 DEF Outdated, Charged
<1> QED
  BY <1>1, <1>4, <1>5, <1>6, <1>7, <1>8, WrittenKeeps

(* One subscription that could not be read or written. *)
LEMMA ReconcileFailsStep ==
    ASSUME BillingIInv, NEW t \in todo, ReconcileFails(t)
    PROVE  BillingIInv'
<1>. USE BillingAssumption
<1>1. /\ org' = Repaired(t) \/ org' = org
      /\ todo' = todo \ {t}
      /\ mishaps' = mishaps \cup {"failed"}
      /\ troubles < MaxTroubles /\ troubles' = troubles + 1
      /\ UNCHANGED <<merging, priceOf, active, events, acked, processed, requests,
                     opened, opening, newest>>
  BY DEF ReconcileFails, Fails, Trouble, Befalls, stripeVars, webVars, shopVars
<1>2. /\ IsMetadata(org')
      /\ CreditOf(org') \in {CreditOf(org), 0}
  BY <1>1, RepairedIs DEF BillingIInv, Shape
<1>3. Shape'
  <2>1. IsFiniteSet(todo')
    BY <1>1, Replaced DEF BillingIInv, Shape
  <2>2. mishaps' \subseteq Mishap /\ troubles' \in 0 .. MaxTroubles
    BY <1>1 DEF BillingIInv, Shape, Mishap
  <2> QED
    BY <1>1, <1>2, <2>1, <2>2 DEF BillingIInv, Shape, RequestOK, ItemOK, KindOf, Ids
<1>4. Clear({"restart", "raced"})' => CreditOf(org') <= Cardinality(Credited)
  BY <1>1, <1>2, CreditKept
<1>5. ~Blameless' /\ ~Clear({"failed", "stale", "reordered", "restart"})'
  BY <1>1 DEF Blameless, Clear
<1> QED
  BY <1>1, <1>3, <1>4, <1>5, WrittenKeeps

(* A checkout writes back what it had read, and a customer, or fails to.   *)
LEMMA CheckoutSteps ==
    ASSUME BillingIInv, NEW m \in opening, WriteBack(m) \/ CheckoutFails(m)
    PROVE  BillingIInv'
<1>. USE BillingAssumption
<1>. DEFINE l == Patched(Linked(m))
<1>0. /\ IsMetadata(l) /\ CreditOf(l) \in {CreditOf(m), CreditOf(org)}
      /\ m = org => /\ PlanOf(l) = PlanOf(org) /\ CreditOf(l) = CreditOf(org)
                    /\ Flagged(l) <=> Flagged(org)
  BY LinkedLeft DEF BillingIInv, Shape
<1>1. /\ org' = l \/ org' = org
      /\ opening' = {} /\ opened' \in BOOLEAN
      /\ mishaps \subseteq mishaps' /\ mishaps' \subseteq Mishap
      /\ "failed" \in mishaps' \/ (org' = l /\ (m # org => "stale" \in mishaps'))
      /\ troubles' \in 0 .. MaxTroubles
      /\ UNCHANGED <<merging, priceOf, active, events, acked, processed, requests,
                     todo, newest>>
  <2>1. CASE WriteBack(m)
    BY <2>1 DEF WriteBack, Befalls, stripeVars, webVars, BillingIInv, Shape, Mishap
  <2>2. CASE CheckoutFails(m)
    <3>1. mishaps' = mishaps \cup {"failed"} /\ troubles < MaxTroubles /\ troubles' = troubles + 1
      BY <2>2 DEF CheckoutFails, Fails, Trouble, Befalls
    <3> QED
      BY <2>2, <3>1 DEF CheckoutFails, stripeVars, webVars, BillingIInv, Shape, Mishap
  <2> QED
    BY <2>1, <2>2
<1>. HIDE DEF l
<1>2. Shape'
  <2>1. IsMetadata(org')
    BY <1>0, <1>1 DEF BillingIInv, Shape
  <2> QED
    BY <1>1, <2>1 DEF BillingIInv, Shape, RequestOK, ItemOK, KindOf, Ids
<1>3. Clear({"restart", "raced"})' => CreditOf(org') <= Cardinality(Credited)
  BY <1>0, <1>1, CreditKept
<1>4. Blameless' => CreditOf(org') = CreditOf(org) /\ (Flagged(org') <=> Flagged(org))
  BY <1>0, <1>1 DEF Blameless
<1>5. Clear({"failed", "stale", "reordered", "restart"})' => PlanOf(org') = PlanOf(org)
  BY <1>0, <1>1 DEF Clear
<1> QED
  BY <1>1, <1>2, <1>3, <1>4, <1>5, WrittenKeeps

-----------------------------------------------------------------------------
(* The webhook's steps. *)

(* The newest event of a family that took effect. *)
LEMMA AppliedIs ==
    ASSUME Shape, NEW r \in requests, Applied(r)
    PROVE  /\ newest' \in [{"plan", "invoice"} -> 0 .. Len(events)]
           /\ \A f \in {"plan", "invoice"} :
                 newest'[f] = IF f = Family(KindOf(r)) /\ newest[f] < r.id THEN r.id ELSE newest[f]
<1>1. r.id \in 0 .. Len(events)
  BY LenProperties DEF Shape, RequestOK, Ids
<1>2. newest \in [{"plan", "invoice"} -> 0 .. Len(events)]
  BY DEF Shape
<1>3. newest' = [f \in {"plan", "invoice"} |->
                   IF f = Family(KindOf(r)) /\ newest[f] < r.id THEN r.id ELSE newest[f]]
  BY <1>2 DEF Applied
<1> QED
  BY <1>1, <1>2, <1>3

(* A plan event takes effect: it is the newest unless it comes late. *)
LEMMA AppliedPlan ==
    ASSUME Shape, NEW r \in requests, Applied(r), KindOf(r) \in PlanKinds
    PROVE  /\ newest'["invoice"] = newest["invoice"]
           /\ newest'["plan"] >= r.id /\ newest'["plan"] >= newest["plan"]
           /\ newest'["plan"] \in {r.id, newest["plan"]}
           /\ Late(r) = {} => newest'["plan"] = r.id
           /\ newest'["plan"] \in Nat /\ newest["plan"] \in Nat /\ r.id \in Nat \ {0}
<1>1. Family(KindOf(r)) = "plan" /\ KindOf(r) # "payment"
  BY FamilyIs DEF PlanKinds
<1>2. r.id \in Nat \ {0} /\ newest["plan"] \in Nat
  BY LenProperties DEF Shape, RequestOK, Ids
<1>3. /\ newest'["invoice"] = newest["invoice"]
      /\ newest'["plan"] = IF newest["plan"] < r.id THEN r.id ELSE newest["plan"]
  BY <1>1, AppliedIs
<1>4. Late(r) = {} => ~(newest["plan"] > r.id)
  BY <1>1 DEF Late
<1> QED
  BY <1>2, <1>3, <1>4

(* An invoice event takes effect: it is the newest unless it comes late. *)
LEMMA AppliedInvoice ==
    ASSUME Shape, NEW r \in requests, Applied(r), KindOf(r) \in InvoiceKinds
    PROVE  /\ newest'["plan"] = newest["plan"]
           /\ newest'["invoice"] >= r.id /\ newest'["invoice"] >= newest["invoice"]
           /\ newest'["invoice"] \in {r.id, newest["invoice"]}
           /\ Late(r) = {} => newest'["invoice"] = r.id
           /\ newest'["invoice"] \in Nat /\ newest["invoice"] \in Nat /\ r.id \in Nat \ {0}
<1>1. Family(KindOf(r)) = "invoice" /\ KindOf(r) # "payment"
  BY FamilyIs DEF InvoiceKinds
<1>2. r.id \in Nat \ {0} /\ newest["invoice"] \in Nat
  BY LenProperties DEF Shape, RequestOK, Ids
<1>3. /\ newest'["plan"] = newest["plan"]
      /\ newest'["invoice"] = IF newest["invoice"] < r.id THEN r.id ELSE newest["invoice"]
  BY <1>1, AppliedIs
<1>4. Late(r) = {} => ~(newest["invoice"] > r.id)
  BY <1>1 DEF Late
<1> QED
  BY <1>2, <1>3, <1>4

(* A top-up is in no family that is ordered. *)
LEMMA AppliedPayment ==
    ASSUME Shape, NEW r \in requests, Applied(r), KindOf(r) = "payment"
    PROVE  newest'["plan"] = newest["plan"] /\ newest'["invoice"] = newest["invoice"]
BY FamilyIs, AppliedIs

(* What took effect is never older than what did before, and each stays in *)
(* its family.                                                             *)
LEMMA AppliedKeeps ==
    ASSUME BillingIInv, NEW r \in requests, Applied(r), UNCHANGED events
    PROVE  /\ NewestOfItsFamily'
           /\ \A f \in {"plan", "invoice"} : newest'[f] >= newest[f]
           /\ KindOf(r) \in PlanKinds => newest'["plan"] >= r.id
           /\ KindOf(r) \in InvoiceKinds => newest'["invoice"] >= r.id
<1>. USE DEF BillingIInv
<1>1. CASE KindOf(r) \in PlanKinds
  <2>1. KindOf(r) \notin InvoiceKinds
    BY <1>1 DEF PlanKinds, InvoiceKinds
  <2>2. /\ newest'["invoice"] = newest["invoice"]
        /\ newest'["plan"] \in {r.id, newest["plan"]}
        /\ newest'["plan"] >= r.id /\ newest'["plan"] >= newest["plan"]
        /\ newest["invoice"] \in Nat
    BY <1>1, AppliedPlan DEF Shape
  <2>3. events[r.id].kind \in PlanKinds
    BY <1>1, KindsOfRequests
  <2>4. NewestOfItsFamily'
    BY <2>2, <2>3 DEF NewestOfItsFamily
  <2> QED
    BY <2>1, <2>2, <2>4
<1>2. CASE KindOf(r) \in InvoiceKinds
  <2>1. KindOf(r) \notin PlanKinds
    BY <1>2 DEF PlanKinds, InvoiceKinds
  <2>2. /\ newest'["plan"] = newest["plan"]
        /\ newest'["invoice"] \in {r.id, newest["invoice"]}
        /\ newest'["invoice"] >= r.id /\ newest'["invoice"] >= newest["invoice"]
        /\ newest["plan"] \in Nat
    BY <1>2, AppliedInvoice DEF Shape
  <2>3. events[r.id].kind \in InvoiceKinds
    BY <1>2, KindsOfRequests
  <2>4. NewestOfItsFamily'
    BY <2>2, <2>3 DEF NewestOfItsFamily
  <2> QED
    BY <2>1, <2>2, <2>4
<1>3. CASE KindOf(r) = "payment"
  <2>1. KindOf(r) \notin PlanKinds /\ KindOf(r) \notin InvoiceKinds
    BY <1>3 DEF PlanKinds, InvoiceKinds
  <2>2. newest'["plan"] = newest["plan"] /\ newest'["invoice"] = newest["invoice"]
    BY <1>3, AppliedPayment
  <2>3. newest["plan"] \in Nat /\ newest["invoice"] \in Nat
    BY DEF Shape
  <2>4. NewestOfItsFamily'
    BY <2>2 DEF NewestOfItsFamily
  <2> QED
    BY <2>1, <2>2, <2>3, <2>4
<1> QED
  BY <1>1, <1>2, <1>3, KindsOfRequests

(* What a handler notes as a mishap is one. *)
LEMMA MishapsAre ==
    ASSUME NEW r
    PROVE  /\ Raced(r) \subseteq Mishap \ {"several"} /\ Late(r) \subseteq Mishap \ {"several"}
           /\ Stale(r) \subseteq Mishap \ {"several"}
           /\ r.id \in processed => "raced" \in Raced(r)
           /\ Late(r) # {} => "reordered" \in Late(r)
           /\ KindOf(r) \in OrgKinds /\ r.found # org => "stale" \in Stale(r)
BY DEF Raced, Late, Stale, Mishap, OrgKinds

(* A handler that has nothing to write is done: the flag that the paid     *)
(* invoice would take out is not there.                                    *)
LEMMA LookEndsStep ==
    ASSUME BillingIInv, NEW r \in requests, Look(r), KindOf(r) = "paid", ~Flagged(org)
    PROVE  BillingIInv'
<1>. USE BillingAssumption DEF BillingIInv
<1>1. /\ r.at = "look" /\ processed' = processed \cup {r.id}
      /\ requests' = requests \ {r} /\ acked' = acked \cup {r.id}
      /\ Applied(r) /\ mishaps' = mishaps \cup (Raced(r) \cup Late(r))
      /\ UNCHANGED <<merging, priceOf, active, events, org, opened, opening, todo, troubles>>
  BY DEF Look, Note, Ends, Befalls, stripeVars, shopVars
<1>2. r.id \in Ids /\ KindOf(r) \in InvoiceKinds /\ KindOf(r) \notin PlanKinds
      /\ events[r.id].kind = "paid"
  BY KindsOfRequests DEF InvoiceKinds, PlanKinds
<1>3. newest' \in [{"plan", "invoice"} -> 0 .. Len(events)]
  BY <1>1, AppliedIs
<1>4. Shape'
  <2>1. IsFiniteSet(requests') /\ Cardinality(requests') <= MaxRequests
    <3>1. IsFiniteSet(requests') /\ Cardinality(requests') <= Cardinality(requests)
      BY <1>1, Replaced DEF Shape
    <3>2. Cardinality(requests) \in Nat /\ Cardinality(requests') \in Nat
      BY <3>1, FS_CardinalityType DEF Shape
    <3> QED
      BY <3>1, <3>2 DEF Shape
  <2>2. \A q \in requests' : RequestOK(q)'
    BY <1>1 DEF Shape, RequestOK, ItemOK, KindOf, Ids
  <2>3. mishaps' \subseteq Mishap
    BY <1>1, MishapsAre DEF Shape
  <2> QED
    BY <1>1, <1>2, <1>3, <2>1, <2>2, <2>3 DEF Shape, ItemOK, Ids
<1>5. Patching' = Patching
  BY <1>1 DEF Patching
<1>6. Credited' = Credited
  BY <1>1, <1>2, <1>5 DEF Credited
<1>7. LastTellsAll'
  BY <1>1, <1>5 DEF LastTellsAll, LastPlan, KindOf, Ids
<1>8. /\ NewestOfItsFamily' /\ newest'["invoice"] >= r.id
      /\ \A f \in {"plan", "invoice"} : newest'[f] >= newest[f]
  BY <1>1, <1>2, AppliedKeeps
<1>9. NotedTakesEffect'
  <2>1. Clear({"restart"})' => acked' \subseteq processed'
    BY <1>1 DEF NotedTakesEffect, Clear
  <2>2. ASSUME Clear({"failed", "restart"})', NEW e \in processed', ~(\E q \in Patching' : q.id = e)
        PROVE  /\ events'[e].kind \in PlanKinds => newest'["plan"] >= e
               /\ events'[e].kind \in InvoiceKinds => newest'["invoice"] >= e
    <3>1. CASE e = r.id
      BY <1>1, <1>2, <1>8, <3>1 DEF PlanKinds
    <3>2. CASE e # r.id
      <4>1. e \in processed /\ Clear({"failed", "restart"})
        BY <1>1, <2>2, <3>2 DEF Clear
      <4>2. /\ events[e].kind \in PlanKinds => newest["plan"] >= e
            /\ events[e].kind \in InvoiceKinds => newest["invoice"] >= e
        BY <1>5, <2>2, <4>1 DEF NotedTakesEffect
      <4>3. e \in Nat
        BY <4>1, LenProperties DEF Shape, Ids
      <4>4. \A f \in {"plan", "invoice"} : newest[f] \in Nat /\ newest'[f] \in Nat
        BY <1>3 DEF Shape
      <4> QED
        BY <1>1, <1>8, <4>2, <4>3, <4>4
    <3> QED
      BY <3>1, <3>2
  <2> QED
    BY <2>1, <2>2 DEF NotedTakesEffect
<1>10. HandledOnce' /\ CreditBounded' /\ CreditExact'
  BY <1>1, <1>5, <1>6 DEF HandledOnce, CreditBounded, CreditExact, Blameless, Clear, KindOf
<1>11. PlanFollows'
  <2>1. newest'["plan"] = newest["plan"]
    BY <1>1, <1>2, AppliedInvoice
  <2> QED
    BY <1>1, <2>1 DEF PlanFollows, Clear, Allowed, Charged, Ids
<1>12. FlagFollows'
  <2>1. Blameless' => Blameless /\ Late(r) = {}
    BY <1>1, MishapsAre DEF Blameless
  <2>2. Late(r) = {} => newest'["invoice"] = r.id
    BY <1>1, <1>2, AppliedInvoice
  <2> QED
    BY <1>1, <1>2, <2>1, <2>2 DEF FlagFollows
<1> QED
  BY <1>4, <1>7, <1>8, <1>9, <1>10, <1>11, <1>12

(* What a handler reads, it reads when its event has been noted. *)
LEMMA LookReadsStep ==
    ASSUME BillingIInv, NEW r \in requests, Look(r), ~(KindOf(r) = "paid" /\ ~Flagged(org))
    PROVE  BillingIInv'
<1>. USE BillingAssumption DEF BillingIInv
<1>0. PICK q : q = [r EXCEPT !.at = "patch", !.found = Reads(r)]
  OBVIOUS
<1>1. /\ r.at = "look" /\ processed' = processed \cup {r.id}
      /\ requests' = (requests \ {r}) \cup {q}
      /\ mishaps' = mishaps \cup Raced(r)
      /\ UNCHANGED <<merging, priceOf, active, events, acked, newest, org, opened, opening, todo, troubles>>
  BY <1>0 DEF Look, Note, Befalls, stripeVars, shopVars
<1>2. r.id \in Ids /\ KindOf(r) = events[r.id].kind
  BY KindsOfRequests
<1>3. /\ q = [id |-> q.id, copy |-> q.copy, at |-> q.at, found |-> q.found]
      /\ q.id = r.id /\ q.copy = r.copy /\ q.at = "patch" /\ q.found = Reads(r)
  <2>1. r = [id |-> r.id, copy |-> r.copy, at |-> r.at, found |-> r.found]
    BY DEF Shape, RequestOK
  <2>2. q = [id |-> r.id, copy |-> r.copy, at |-> "patch", found |-> Reads(r)]
    BY <1>0, <2>1
  <2> QED
    BY <2>2
<1>4. /\ KindOf(r) = "checkout" => Reads(r).price = priceOf[events[r.id].sub]
      /\ KindOf(r) \in OrgKinds => Reads(r) = org
  BY DEF Reads, OrgKinds
<1>5. RequestOK(q)'
  <2>1. KindOf(r) = "checkout" => q.found.price \in Price
    <3>1. KindOf(r) = "checkout" => events[r.id].sub \in DOMAIN priceOf
      BY <1>2 DEF Shape
    <3>2. \A i \in DOMAIN priceOf : priceOf[i] \in Price
      BY LenProperties DEF Shape
    <3> QED
      BY <1>3, <1>4, <3>1, <3>2
  <2>2. KindOf(q)' = KindOf(r)
    BY <1>1, <1>3 DEF KindOf
  <2>3. q.id \in Ids' /\ q.copy \in Copy
    BY <1>1, <1>2, <1>3 DEF Ids, Shape, RequestOK
  <2> QED
    BY <1>1, <1>3, <1>4, <2>1, <2>2, <2>3 DEF RequestOK, Shape
<1>6. Shape'
  <2>1. IsFiniteSet(requests') /\ Cardinality(requests') <= MaxRequests
    <3>1. IsFiniteSet(requests') /\ Cardinality(requests') <= Cardinality(requests)
      BY <1>1, Replaced DEF Shape
    <3>2. Cardinality(requests) \in Nat /\ Cardinality(requests') \in Nat
      BY <3>1, FS_CardinalityType DEF Shape
    <3> QED
      BY <3>1, <3>2 DEF Shape
  <2>2. \A o \in requests' : RequestOK(o)'
    BY <1>1, <1>5 DEF Shape, RequestOK, ItemOK, KindOf, Ids
  <2>3. mishaps' \subseteq Mishap
    BY <1>1, MishapsAre DEF Shape
  <2> QED
    BY <1>1, <1>2, <2>1, <2>2, <2>3 DEF Shape, ItemOK, Ids
<1>7. Patching' = Patching \cup {q} /\ \A o \in Patching : o.id \in processed
  BY <1>1, <1>3 DEF Patching, Shape, RequestOK
<1>8. LastTellsAll'
  <2>1. KindOf(r) = "checkout" => q.found.price = priceOf[events[q.id].sub]
    BY <1>2, <1>3, <1>4 DEF LastTellsAll
  <2>2. /\ \A o \in Patching : KindOf(o)' = KindOf(o)
        /\ KindOf(q)' = KindOf(r)
        /\ \A e : LastPlan(e)' <=> LastPlan(e)
        /\ Ids' = Ids
    BY <1>1, <1>3 DEF KindOf, LastPlan, Ids
  <2>3. \A o \in Patching' : KindOf(o)' = "checkout" /\ LastPlan(o.id)'
                                => o.found.price = priceOf[events[o.id].sub]
    BY <1>3, <1>7, <2>1, <2>2 DEF LastTellsAll
  <2> QED
    BY <1>1, <2>2, <2>3 DEF LastTellsAll
<1>9. NewestOfItsFamily'
  BY <1>1 DEF NewestOfItsFamily
<1>10. NotedTakesEffect'
  <2>1. Clear({"restart"})' => acked' \subseteq processed'
    BY <1>1 DEF NotedTakesEffect, Clear
  <2>2. Clear({"failed", "restart"})' => Clear({"failed", "restart"})
    BY <1>1 DEF Clear
  <2> QED
    BY <1>1, <1>3, <1>7, <2>1, <2>2 DEF NotedTakesEffect
<1>11. Clear({"restart", "raced"})' => r.id \notin processed /\ Clear({"restart", "raced"})
  BY <1>1, MishapsAre DEF Clear
<1>12. HandledOnce'
  <2>1. Clear({"restart", "raced"})' => \A o \in Patching : o.id # q.id
    BY <1>3, <1>7, <1>11
  <2> QED
    BY <1>7, <1>11, <2>1 DEF HandledOnce
<1>13. Clear({"restart", "raced"})' => Credited' = Credited
  <2>. SUFFICES ASSUME Clear({"restart", "raced"})' PROVE Credited' = Credited
    OBVIOUS
  <2>1. r.id \notin processed
    BY <1>11
  <2> QED
    BY <1>1, <1>3, <1>7, <2>1 DEF Credited
<1>14. CreditBounded'
  <2>. SUFFICES ASSUME Clear({"restart", "raced"})'
                PROVE  /\ CreditOf(org') <= Cardinality(Credited')
                       /\ \A o \in Patching' : KindOf(o)' \in OrgKinds
                                             => CreditOf(o.found) <= Cardinality(Credited')
                       /\ \A m \in opening' : CreditOf(m) <= Cardinality(Credited')
    BY DEF CreditBounded
  <2>1. /\ CreditOf(org) <= Cardinality(Credited)
        /\ \A o \in Patching : KindOf(o) \in OrgKinds
                                  => CreditOf(o.found) <= Cardinality(Credited)
        /\ \A m \in opening : CreditOf(m) <= Cardinality(Credited)
    BY <1>11 DEF CreditBounded
  <2>2. Credited' = Credited /\ KindOf(q)' = KindOf(r) /\ \A o \in Patching : KindOf(o)' = KindOf(o)
    BY <1>1, <1>3, <1>13 DEF KindOf
  <2> QED
    BY <1>1, <1>3, <1>4, <1>7, <2>1, <2>2
<1>15. CreditExact' /\ FlagFollows'
  <2>1. Blameless' => Blameless /\ Clear({"restart", "raced"})'
    BY <1>1 DEF Clear, Blameless
  <2> QED
    BY <1>1, <1>13, <2>1 DEF CreditExact, FlagFollows
<1>16. PlanFollows'
  BY <1>1 DEF PlanFollows, Clear, Allowed, Charged, Ids
<1> QED
  BY <1>6, <1>8, <1>9, <1>10, <1>12, <1>14, <1>15, <1>16

(* One failed call lifts every promise but that on credit. *)
LEMMA FailedLifts ==
    ASSUME "failed" \in mishaps',
           Clear({"restart"})' => acked' \subseteq processed'
    PROVE  NotedTakesEffect' /\ CreditExact' /\ PlanFollows' /\ FlagFollows'
<1>1. /\ ~Clear({"failed", "restart"})'
      /\ ~Clear({"failed", "stale", "reordered", "restart"})'
      /\ ~Blameless'
  BY DEF Clear, Blameless
<1> QED
  BY <1>1 DEF NotedTakesEffect, CreditExact, PlanFollows, FlagFollows

(* A handler that cannot read gives up, and its event is answered as if it *)
(* had been handled.                                                       *)
LEMMA LookFailsStep ==
    ASSUME BillingIInv, NEW r \in requests, LookFails(r)
    PROVE  BillingIInv'
<1>. USE BillingAssumption DEF BillingIInv
<1>1. /\ r.at = "look" /\ processed' = processed \cup {r.id}
      /\ requests' = requests \ {r} /\ acked' = acked \cup {r.id}
      /\ mishaps' = mishaps \cup {"failed"}
      /\ troubles < MaxTroubles /\ troubles' = troubles + 1
      /\ UNCHANGED <<merging, priceOf, active, events, org, newest, opened, opening, todo>>
  BY DEF LookFails, Note, Fails, Trouble, Ends, Befalls, stripeVars, shopVars
<1>2. r.id \in Ids
  BY KindsOfRequests
<1>3. Shape'
  <2>1. IsFiniteSet(requests') /\ Cardinality(requests') <= MaxRequests
    <3>1. IsFiniteSet(requests') /\ Cardinality(requests') <= Cardinality(requests)
      BY <1>1, Replaced DEF Shape
    <3>2. Cardinality(requests) \in Nat /\ Cardinality(requests') \in Nat
      BY <3>1, FS_CardinalityType DEF Shape
    <3> QED
      BY <3>1, <3>2 DEF Shape
  <2>2. \A o \in requests' : RequestOK(o)'
    BY <1>1 DEF Shape, RequestOK, ItemOK, KindOf, Ids
  <2> QED
    BY <1>1, <1>2, <2>1, <2>2 DEF Shape, ItemOK, Ids, Mishap
<1>4. Patching' = Patching
  BY <1>1 DEF Patching
<1>5. LastTellsAll' /\ NewestOfItsFamily'
  BY <1>1, <1>4 DEF LastTellsAll, LastPlan, KindOf, Ids, NewestOfItsFamily
<1>6. NotedTakesEffect' /\ CreditExact' /\ PlanFollows' /\ FlagFollows'
  <2>1. "failed" \in mishaps'
    BY <1>1
  <2>2. Clear({"restart"})' => acked' \subseteq processed'
    BY <1>1 DEF NotedTakesEffect, Clear
  <2> QED
    BY <2>1, <2>2, FailedLifts
<1>7. HandledOnce'
  BY <1>1, <1>4 DEF HandledOnce, Clear
<1>8. Cardinality(Credited) <= Cardinality(Credited') /\ Cardinality(Credited) \in Nat
      /\ Cardinality(Credited') \in Nat
  <2>1. Credited \subseteq Credited'
    BY <1>1, <1>4 DEF Credited
  <2>2. (Shape => IsFiniteSet(Credited) /\ Cardinality(Credited) \in Nat)'
    BY CreditedFinite, PTL
  <2> QED
    BY <1>3, <2>1, <2>2, CreditedFinite, FS_Subset
<1>9. CreditBounded'
  <2>. SUFFICES ASSUME Clear({"restart", "raced"})'
                PROVE  /\ CreditOf(org') <= Cardinality(Credited')
                       /\ \A o \in Patching' : KindOf(o)' \in OrgKinds
                                             => CreditOf(o.found) <= Cardinality(Credited')
                       /\ \A m \in opening' : CreditOf(m) <= Cardinality(Credited')
    BY DEF CreditBounded
  <2>1. /\ CreditOf(org) <= Cardinality(Credited)
        /\ \A o \in Patching : KindOf(o) \in OrgKinds
                                  => CreditOf(o.found) <= Cardinality(Credited)
        /\ \A m \in opening : CreditOf(m) <= Cardinality(Credited)
    BY <1>1 DEF CreditBounded, Clear
  <2>2. /\ CreditOf(org) \in Nat
        /\ \A o \in Patching : KindOf(o) \in OrgKinds => CreditOf(o.found) \in Nat
        /\ \A m \in opening : CreditOf(m) \in Nat
    BY DEF Shape, IsMetadata, Patching, RequestOK
  <2>3. \A o : KindOf(o)' = KindOf(o)
    BY <1>1 DEF KindOf
  <2> QED
    BY <1>1, <1>4, <1>8, <2>1, <2>2, <2>3
<1> QED
  BY <1>3, <1>5, <1>6, <1>7, <1>9

(* The end of a handler that was about to write, whether its PATCH took    *)
(* effect or not.  A top-up counts as credited from here on.               *)
LEMMA HandlerDone ==
    ASSUME BillingIInv, NEW r \in Patching, requests' = requests \ {r},
           mishaps \subseteq mishaps', mishaps' \subseteq Mishap,
           IsMetadata(org'), acked' \subseteq acked \cup {r.id},
           newest' \in [{"plan", "invoice"} -> 0 .. Len(events)],
           troubles' \in 0 .. MaxTroubles,
           UNCHANGED <<merging, priceOf, active, events, processed, opened, opening, todo>>
    PROVE  /\ Shape' /\ LastTellsAll' /\ HandledOnce'
           /\ Patching' = Patching \ {r}
           /\ Clear({"restart"})' => acked' \subseteq processed'
           /\ Clear({"restart", "raced"})' =>
                 Cardinality(Credited') = IF KindOf(r) = "payment" THEN Cardinality(Credited) + 1
                                                                   ELSE Cardinality(Credited)
<1>. USE BillingAssumption DEF BillingIInv
<1>1. /\ r \in requests /\ r.at = "patch" /\ r.id \in processed /\ r.id \in Ids
      /\ KindOf(r) = events[r.id].kind
  BY DEF Patching, Shape, RequestOK, KindOf
<1>2. Shape'
  <2>1. IsFiniteSet(requests') /\ Cardinality(requests') <= MaxRequests
    <3>1. IsFiniteSet(requests') /\ Cardinality(requests') <= Cardinality(requests)
      BY <1>1, Replaced DEF Shape
    <3>2. Cardinality(requests) \in Nat /\ Cardinality(requests') \in Nat
      BY <3>1, FS_CardinalityType DEF Shape
    <3> QED
      BY <3>1, <3>2 DEF Shape
  <2>2. \A o \in requests' : RequestOK(o)'
    BY <1>1 DEF Shape, RequestOK, ItemOK, KindOf, Ids
  <2> QED
    BY <1>1, <2>1, <2>2 DEF Shape, ItemOK, Ids
<1>3. Patching' = Patching \ {r}
  BY DEF Patching
<1>4. LastTellsAll'
  BY <1>3 DEF LastTellsAll, LastPlan, KindOf, Ids
<1>5. HandledOnce'
  BY <1>3 DEF HandledOnce, Clear
<1>6. Clear({"restart"})' => acked' \subseteq processed'
  BY <1>1 DEF NotedTakesEffect, Clear
<1>7. ASSUME Clear({"restart", "raced"})'
      PROVE  Cardinality(Credited') = IF KindOf(r) = "payment" THEN Cardinality(Credited) + 1
                                                               ELSE Cardinality(Credited)
  <2>1. \A o \in Patching \ {r} : o.id # r.id
    BY <1>7 DEF HandledOnce, Clear
  <2>2. r.id \notin Credited
    BY DEF Credited
  <2>3. CASE KindOf(r) = "payment"
    <3>1. Credited' = Credited \cup {r.id}
      BY <1>1, <1>3, <2>1, <2>3 DEF Credited
    <3> QED
      BY <2>2, <2>3, <3>1, CreditedFinite, FS_AddElement
  <2>4. CASE KindOf(r) # "payment"
    <3>1. Credited' = Credited
      BY <1>1, <1>3, <2>1, <2>4 DEF Credited
    <3> QED
      BY <2>4, <3>1
  <2> QED
    BY <2>3, <2>4
<1> QED
  BY <1>2, <1>3, <1>4, <1>5, <1>6, <1>7

(* The credit at Clerk never gets ahead of the top-ups that were handled.  *)
LEMMA CreditStep ==
    ASSUME BillingIInv, NEW r \in Patching, org' = org \/ org' = Left(r),
           mishaps \subseteq mishaps', UNCHANGED <<events, opening>>,
           Patching' = Patching \ {r},
           Clear({"restart", "raced"})' =>
                 Cardinality(Credited') = IF KindOf(r) = "payment" THEN Cardinality(Credited) + 1
                                                                   ELSE Cardinality(Credited)
    PROVE  CreditBounded'
<1>. USE DEF BillingIInv
<1>. SUFFICES ASSUME Clear({"restart", "raced"})'
              PROVE  /\ CreditOf(org') <= Cardinality(Credited')
                     /\ \A o \in Patching' : KindOf(o)' \in OrgKinds
                                           => CreditOf(o.found) <= Cardinality(Credited')
                     /\ \A m \in opening' : CreditOf(m) <= Cardinality(Credited')
  BY DEF CreditBounded
<1>1. /\ CreditOf(org) <= Cardinality(Credited)
      /\ \A o \in Patching : KindOf(o) \in OrgKinds
                                => CreditOf(o.found) <= Cardinality(Credited)
      /\ \A m \in opening : CreditOf(m) <= Cardinality(Credited)
  BY DEF CreditBounded, Clear
<1>2. /\ CreditOf(org) \in Nat
      /\ \A o \in Patching : KindOf(o) \in OrgKinds => CreditOf(o.found) \in Nat
      /\ \A m \in opening : CreditOf(m) \in Nat
  BY DEF Shape, IsMetadata, Patching, RequestOK
<1>3. Cardinality(Credited) \in Nat
  BY CreditedFinite
<1>4. /\ Cardinality(Credited) <= Cardinality(Credited')
      /\ KindOf(r) = "payment" => Cardinality(Credited') = Cardinality(Credited) + 1
      /\ Cardinality(Credited') \in Nat
  BY <1>3
<1>5. \A o : KindOf(o)' = KindOf(o)
  BY DEF KindOf
<1>6. CreditOf(org') <= Cardinality(Credited')
  <2>0. r \in requests /\ r.at = "patch"
    BY DEF Patching
  <2>1. CASE org' = org
    BY <1>1, <1>2, <1>3, <1>4, <2>1
  <2>2. CASE org' = Left(r) /\ KindOf(r) \in PlanKinds
    <3>1. CreditOf(org') \in {0, CreditOf(org)}
      BY <2>0, <2>2, PlanLeft
    <3> QED
      BY <1>1, <1>2, <1>3, <1>4, <3>1
  <2>3. CASE org' = Left(r) /\ KindOf(r) = "payment"
    <3>1. CreditOf(org') = CreditOf(r.found) + 1
      BY <2>0, <2>3, PaymentLeft
    <3> QED
      BY <1>1, <1>2, <1>3, <1>4, <2>3, <3>1 DEF OrgKinds
  <2>4. CASE org' = Left(r) /\ KindOf(r) \in InvoiceKinds
    <3>1. CreditOf(org') \in {CreditOf(r.found), CreditOf(org)}
      BY <2>0, <2>4, InvoiceLeft
    <3>2. KindOf(r) \in OrgKinds
      BY <2>4 DEF InvoiceKinds, OrgKinds
    <3> QED
      BY <1>1, <1>2, <1>3, <1>4, <3>1, <3>2
  <2> QED
    BY <2>0, <2>1, <2>2, <2>3, <2>4, KindsOfRequests
<1> QED
  BY <1>1, <1>2, <1>3, <1>4, <1>5, <1>6

(* A PATCH fails, having taken effect or not; only the handler of a        *)
(* deleted subscription lets Stripe know.                                  *)
LEMMA PatchFailsStep ==
    ASSUME BillingIInv, NEW r \in requests, PatchFails(r)
    PROVE  BillingIInv'
<1>. USE BillingAssumption DEF BillingIInv
<1>1. /\ r \in Patching
      /\ requests' = requests \ {r} /\ acked' \subseteq acked \cup {r.id}
      /\ mishaps' = mishaps \cup {"failed"} /\ mishaps' \subseteq Mishap
      /\ troubles' \in 0 .. MaxTroubles
      /\ UNCHANGED <<merging, priceOf, active, events, processed, opened, opening, todo>>
  <2>1. mishaps' = mishaps \cup {"failed"} /\ troubles < MaxTroubles /\ troubles' = troubles + 1
    BY DEF PatchFails, Fails, Trouble, Befalls
  <2> QED
    BY <2>1 DEF PatchFails, Ends, Patching, stripeVars, shopVars, Shape, Mishap
<1>2. \/ org' = Left(r) /\ Applied(r)
      \/ org' = org /\ newest' = newest
  BY DEF PatchFails, TakesEffect, Left
<1>3. /\ IsMetadata(org') /\ NewestOfItsFamily'
      /\ newest' \in [{"plan", "invoice"} -> 0 .. Len(events)]
  <2>1. CASE org' = Left(r) /\ Applied(r)
    BY <1>1, <2>1, MetadataLeft, AppliedIs, AppliedKeeps DEF Patching
  <2>2. CASE org' = org /\ newest' = newest
    BY <1>1, <2>2 DEF Shape, NewestOfItsFamily
  <2> QED
    BY <1>2, <2>1, <2>2
<1>4. /\ Shape' /\ LastTellsAll' /\ HandledOnce'
      /\ Patching' = Patching \ {r}
      /\ Clear({"restart"})' => acked' \subseteq processed'
      /\ Clear({"restart", "raced"})' =>
            Cardinality(Credited') = IF KindOf(r) = "payment" THEN Cardinality(Credited) + 1
                                                              ELSE Cardinality(Credited)
  BY <1>1, <1>3, HandlerDone
<1>5. CreditBounded'
  BY <1>1, <1>2, <1>4, CreditStep
<1>6. NotedTakesEffect' /\ CreditExact' /\ PlanFollows' /\ FlagFollows'
  BY <1>1, <1>4, FailedLifts
<1> QED
  BY <1>3, <1>4, <1>5, <1>6

(* A handler writes and is done: one top-up is credited once, and the plan *)
(* and the flag are the newest event's unless it came late or wrote back   *)
(* old metadata.                                                           *)
LEMMA PatchStep ==
    ASSUME BillingIInv, NEW r \in requests, Patch(r)
    PROVE  BillingIInv'
<1>. USE BillingAssumption DEF BillingIInv
<1>. DEFINE lost == Unmentioned(Sent(r), KindOf(r) = "paid")
<1>1. /\ r \in Patching /\ r.at = "patch"
      /\ requests' = requests \ {r} /\ acked' = acked \cup {r.id}
      /\ org' = Left(r) /\ Applied(r)
      /\ mishaps' = mishaps \cup (Stale(r) \cup Late(r) \cup lost)
      /\ UNCHANGED <<merging, priceOf, active, events, processed, opened, opening, todo, troubles>>
  BY DEF Patch, TakesEffect, Befalls, Ends, Patching, Left, stripeVars, shopVars
<1>2. /\ r.id \in Ids /\ KindOf(r) = events[r.id].kind
      /\ KindOf(r) \in PlanKinds \cup {"payment"} \cup InvoiceKinds
  BY KindsOfRequests
<1>3. /\ IsMetadata(org') /\ NewestOfItsFamily'
      /\ newest' \in [{"plan", "invoice"} -> 0 .. Len(events)]
      /\ mishaps' \subseteq Mishap /\ mishaps \subseteq mishaps'
  <2>1. lost \subseteq Mishap
    BY UnmentionedIs
  <2> QED
    BY <1>1, <2>1, MetadataLeft, AppliedIs, AppliedKeeps, MishapsAre DEF Shape
<1>4. /\ Shape' /\ LastTellsAll' /\ HandledOnce'
      /\ Patching' = Patching \ {r}
      /\ Clear({"restart"})' => acked' \subseteq processed'
      /\ Clear({"restart", "raced"})' =>
            Cardinality(Credited') = IF KindOf(r) = "payment" THEN Cardinality(Credited) + 1
                                                              ELSE Cardinality(Credited)
  BY <1>1, <1>3, HandlerDone DEF Shape
<1>5. CreditBounded'
  BY <1>1, <1>3, <1>4, CreditStep
<1>6. /\ Clear({"stale"})' /\ KindOf(r) \in OrgKinds => r.found = org
      /\ Clear({"reordered"})' => Late(r) = {}
      /\ Blameless' => /\ Blameless /\ lost = {}
                       /\ Clear({"restart", "raced"})' /\ Clear({"stale"})' /\ Late(r) = {}
  BY <1>1, MishapsAre, UnmentionedIs DEF Clear, Blameless
<1>7. NotedTakesEffect'
  <2>. SUFFICES ASSUME Clear({"failed", "restart"})', NEW e \in processed',
                       ~(\E q \in Patching' : q.id = e)
                PROVE  /\ events'[e].kind \in PlanKinds => newest'["plan"] >= e
                       /\ events'[e].kind \in InvoiceKinds => newest'["invoice"] >= e
    BY <1>4 DEF NotedTakesEffect
  <2>1. /\ \A f \in {"plan", "invoice"} : newest'[f] >= newest[f]
        /\ KindOf(r) \in PlanKinds => newest'["plan"] >= r.id
        /\ KindOf(r) \in InvoiceKinds => newest'["invoice"] >= r.id
    BY <1>1, AppliedKeeps
  <2>2. CASE e = r.id
    BY <1>1, <1>2, <2>1, <2>2
  <2>3. CASE e # r.id
    <3>1. e \in processed /\ Clear({"failed", "restart"}) /\ ~(\E q \in Patching : q.id = e)
      BY <1>1, <1>4, <2>3 DEF Clear
    <3>2. /\ events[e].kind \in PlanKinds => newest["plan"] >= e
          /\ events[e].kind \in InvoiceKinds => newest["invoice"] >= e
      BY <3>1 DEF NotedTakesEffect
    <3>3. e \in Nat
      BY <3>1, LenProperties DEF Shape, Ids
    <3>4. \A f \in {"plan", "invoice"} : newest[f] \in Nat /\ newest'[f] \in Nat
      BY <1>3 DEF Shape
    <3> QED
      BY <1>1, <2>1, <3>2, <3>3, <3>4
  <2> QED
    BY <2>2, <2>3
<1>8. KindOf(r) \in PlanKinds /\ Blameless'
          => CreditOf(org') = CreditOf(org) /\ (Flagged(org') <=> Flagged(org))
  <2>. SUFFICES ASSUME KindOf(r) \in PlanKinds, Blameless'
                PROVE  CreditOf(org') = CreditOf(org) /\ (Flagged(org') <=> Flagged(org))
    OBVIOUS
  <2>1. (KindOf(r) = "paid") = FALSE
    BY DEF PlanKinds
  <2>2. Unmentioned(Sent(r), FALSE) = {}
    BY <1>6, <2>1
  <2>3. /\ DOMAIN Sent(r) = {"plan"}
        /\ CreditOf(org') = IF merging THEN CreditOf(org) ELSE 0
        /\ Flagged(org') <=> merging /\ Flagged(org)
    BY <1>1, PlanLeft
  <2>4. ~merging => CreditOf(org) = 0 /\ ~Flagged(org)
    BY <2>2, <2>3, NothingLost
  <2> QED
    BY <2>3, <2>4 DEF Shape
<1>9. CreditExact'
  <2>. SUFFICES ASSUME Blameless' PROVE CreditOf(org') = Cardinality(Credited')
    BY DEF CreditExact
  <2>1. Clear({"restart", "raced"})' /\ Blameless /\ Clear({"stale"})'
    BY <1>6
  <2>2. CreditOf(org) = Cardinality(Credited) /\ Cardinality(Credited) \in Nat
    BY <2>1, CreditedFinite DEF CreditExact
  <2>3. CASE KindOf(r) \in PlanKinds
    <3>1. KindOf(r) # "payment"
      BY <2>3 DEF PlanKinds
    <3>2. CreditOf(org') = CreditOf(org)
      BY <1>8, <2>3
    <3> QED
      BY <1>4, <2>1, <2>2, <3>1, <3>2
  <2>4. CASE KindOf(r) = "payment"
    <3>1. r.found = org /\ CreditOf(org') = CreditOf(r.found) + 1
      BY <1>1, <1>6, <2>1, <2>4, PaymentLeft DEF OrgKinds
    <3> QED
      BY <1>4, <2>1, <2>2, <2>4, <3>1
  <2>5. CASE KindOf(r) \in InvoiceKinds
    <3>1. r.found = org
      BY <1>6, <2>1, <2>5 DEF OrgKinds, InvoiceKinds
    <3>2. CreditOf(org') = CreditOf(org)
      BY <1>1, <2>5, <3>1, InvoiceLeft
    <3> QED
      BY <1>4, <2>1, <2>2, <2>5, <3>2 DEF InvoiceKinds
  <2> QED
    BY <1>2, <2>3, <2>4, <2>5
<1>10. PlanFollows'
  <2>1. /\ Ids' = Ids /\ mishaps \subseteq mishaps'
        /\ \A q : Allowed(q) => Allowed(q)'
    BY <1>1 DEF Allowed, Charged, Ids
  <2>. SUFFICES ASSUME Clear({"failed", "stale", "reordered", "restart"})',
                       \A e \in Ids : events[e].kind \in PlanKinds => e <= newest'["plan"]
                PROVE  Allowed(PlanOf(org'))
    BY <1>1, <2>1 DEF PlanFollows
  <2>2. /\ Clear({"failed", "stale", "reordered", "restart"})
        /\ Clear({"stale"})' /\ Clear({"reordered"})'
    BY <1>3 DEF Clear
  <2>3. CASE KindOf(r) \in PlanKinds
    <3>1. newest'["plan"] = r.id
      BY <1>1, <1>6, <2>2, <2>3, AppliedPlan
    <3>2. LastPlan(r.id)
      BY <1>2, <2>3, <3>1 DEF LastPlan
    <3>3. /\ KindOf(r) = "checkout" => /\ events[r.id].sub \in active
                                       /\ r.found.price = priceOf[events[r.id].sub]
          /\ KindOf(r) = "updated" => /\ events[r.id].sub \in active
                                      /\ events[r.id].price = priceOf[events[r.id].sub]
          /\ KindOf(r) = "deleted" => active = {} \/ "several" \in mishaps
      BY <1>1, <1>2, <3>2 DEF LastTellsAll
    <3>4. /\ KindOf(r) = "checkout" => PlanOf(org') = PlanFrom(r.found.price)
          /\ KindOf(r) = "updated" => PlanOf(org') = PlanFrom(events[r.id].price)
          /\ KindOf(r) = "deleted" => PlanOf(org') = "free"
      BY <1>1, <2>3, PlanLeft
    <3> QED
      BY <2>3, <3>3, <3>4 DEF PlanKinds, Allowed, Charged
  <2>4. CASE KindOf(r) \in {"payment"} \cup InvoiceKinds
    <3>1. r.found = org
      BY <1>6, <2>2, <2>4 DEF OrgKinds, InvoiceKinds
    <3>2. PlanOf(org') = PlanOf(org)
      BY <1>1, <2>4, <3>1, PaymentLeft, InvoiceLeft
    <3>3. newest'["plan"] = newest["plan"]
      BY <1>1, <2>4, AppliedPayment, AppliedInvoice
    <3> QED
      BY <2>2, <3>2, <3>3 DEF PlanFollows
  <2> QED
    BY <1>2, <2>3, <2>4
<1>11. FlagFollows'
  <2>. SUFFICES ASSUME Blameless'
                PROVE  Flagged(org') <=> newest'["invoice"] # 0
                                           /\ events[newest'["invoice"]].kind = "failed"
    BY <1>1 DEF FlagFollows
  <2>1. Blameless /\ lost = {} /\ Clear({"stale"})' /\ Late(r) = {}
    BY <1>6
  <2>2. Flagged(org) <=> newest["invoice"] # 0 /\ events[newest["invoice"]].kind = "failed"
    BY <2>1 DEF FlagFollows
  <2>3. CASE KindOf(r) \in PlanKinds
    <3>1. newest'["invoice"] = newest["invoice"]
      BY <1>1, <2>3, AppliedPlan
    <3> QED
      BY <1>8, <2>2, <2>3, <3>1
  <2>4. CASE KindOf(r) = "payment"
    <3>1. newest'["invoice"] = newest["invoice"]
      BY <1>1, <2>4, AppliedPayment
    <3>2. r.found = org
      BY <1>6, <2>1, <2>4 DEF OrgKinds
    <3>3. Flagged(org') <=> Flagged(org)
      BY <1>1, <2>4, <3>2, PaymentLeft
    <3> QED
      BY <2>2, <3>1, <3>3
  <2>5. CASE KindOf(r) \in InvoiceKinds
    <3>1. newest'["invoice"] = r.id /\ r.id # 0
      BY <1>1, <2>1, <2>5, AppliedInvoice
    <3>2. KindOf(r) = "failed" => Flagged(org')
      BY <1>1, <2>5, InvoiceLeft
    <3>3. KindOf(r) = "paid" => ~Flagged(org')
      <4>1. KindOf(r) = "paid" => ~merging
        BY <2>1 DEF Unmentioned
      <4> QED
        BY <1>1, <2>5, <4>1, InvoiceLeft
    <3> QED
      BY <1>2, <2>5, <3>1, <3>2, <3>3 DEF InvoiceKinds
  <2> QED
    BY <1>2, <2>3, <2>4, <2>5
<1> QED
  BY <1>3, <1>4, <1>5, <1>7, <1>9, <1>10, <1>11

-----------------------------------------------------------------------------
(* Every behaviour. *)

(* An organisation begins without metadata and without subscription, or    *)
(* with the plan of the one it has: no top-up is credited.                 *)
LEMMA InitBillingIInv ==
    ASSUME Init
    PROVE  BillingIInv
<1>. USE BillingAssumption
<1>1. /\ merging \in BOOLEAN /\ events = <<>>
      /\ acked = {} /\ processed = {} /\ requests = {}
      /\ opening = {} /\ todo = {} /\ troubles = 0 /\ mishaps = {}
      /\ newest = [f \in {"plan", "invoice"} |-> 0]
  BY DEF Init, Begins
<1>2. Len(events) = 0 /\ Ids = {} /\ events \in Seq(Event)
  BY <1>1, EmptySeq DEF Ids
<1>3. /\ opened \in BOOLEAN /\ priceOf \in Seq(Price) /\ active \subseteq DOMAIN priceOf
      /\ IsMetadata(org) /\ CreditOf(org) = 0 /\ ~Flagged(org) /\ Allowed(PlanOf(org))
      /\ \A s, t \in active : s = t
  <2>1. CASE NewOrganisation
    <3>1. priceOf = <<>> /\ active = {} /\ opened = FALSE /\ org = <<>>
      BY <2>1 DEF NewOrganisation, Nothing
    <3>2. opened \in BOOLEAN
      BY <3>1, Zenon
    <3>3. priceOf \in Seq(Price)
      BY <3>1, EmptySeq
    <3>4. IsMetadata(org) /\ CreditOf(org) = 0 /\ PlanOf(org) = "free" /\ ~Flagged(org)
      <4>1. DOMAIN org = {} /\ org = [k \in DOMAIN org |-> org[k]]
        BY <3>1
      <4> QED
        BY <4>1, Missing DEF IsMetadata, Plan
    <3> QED
      BY <3>1, <3>2, <3>3, <3>4 DEF Allowed
  <2>2. ASSUME NEW p \in Offered, OldOrganisation(p)
        PROVE  /\ opened \in BOOLEAN /\ priceOf \in Seq(Price) /\ active \subseteq DOMAIN priceOf
               /\ IsMetadata(org) /\ CreditOf(org) = 0 /\ ~Flagged(org)
               /\ Allowed(PlanOf(org)) /\ \A s, t \in active : s = t
    <3>. DEFINE n == Only("plan", PlanFrom(p))
                o == Only("customer", TRUE)
    <3>1. /\ priceOf = <<p>> /\ active = {1} /\ opened = TRUE
          /\ org = Over(n, o) \/ org = n
      BY <2>2 DEF OldOrganisation
    <3>2. opened \in BOOLEAN
      BY <3>1, Zenon
    <3>3. priceOf \in Seq(Price) /\ active \subseteq DOMAIN priceOf /\ priceOf[1] = p
      BY <3>1
    <3>4. /\ IsMetadata(n) /\ DOMAIN n = {"plan"} /\ PlanOf(n) = PlanFrom(p)
          /\ IsMetadata(o) /\ DOMAIN o = {"customer"} /\ ~Flagged(o) /\ CreditOf(o) = 0
      BY PlansFrom, OnlyPlan, OnlyCustomer
    <3>. HIDE DEF n, o
    <3>5. ~Flagged(n) /\ CreditOf(n) = 0
      BY <3>4, Missing
    <3>6. /\ IsMetadata(Over(n, o)) /\ ~Flagged(Over(n, o)) /\ CreditOf(Over(n, o)) = 0
          /\ PlanOf(Over(n, o)) = PlanFrom(p)
      <4>1. "plan" \in DOMAIN n /\ "credit" \notin DOMAIN n
        BY <3>4
      <4> QED
        BY <3>4, <3>5, <4>1, OverIs
    <3>7. PlanFrom(p) \in Charged
      BY <3>1, <3>3 DEF Charged
    <3> QED
      BY <3>1, <3>2, <3>3, <3>4, <3>5, <3>6, <3>7 DEF Allowed
  <2> QED
    BY <2>1, <2>2 DEF Init
<1>4. IsFiniteSet({}) /\ Cardinality({}) = 0
  BY FS_EmptySet
<1>6. Shape
  <2>1. newest \in [{"plan", "invoice"} -> 0 .. Len(events)]
    BY <1>1, <1>2
  <2> QED
    BY <1>1, <1>2, <1>3, <1>4, <2>1 DEF Shape
<1>7. Patching = {} /\ Credited = {}
  BY <1>1 DEF Patching, Credited
<1>8. LastTellsAll /\ NewestOfItsFamily
  BY <1>1, <1>2, <1>3, <1>7 DEF LastTellsAll, LastPlan, NewestOfItsFamily
<1>9. NotedTakesEffect /\ HandledOnce
  BY <1>1, <1>7 DEF NotedTakesEffect, HandledOnce
<1>10. CreditBounded /\ CreditExact
  BY <1>1, <1>3, <1>4, <1>7 DEF CreditBounded, CreditExact
<1>11. PlanFollows /\ FlagFollows
  BY <1>1, <1>3 DEF PlanFollows, FlagFollows
<1> QED
  BY <1>6, <1>8, <1>9, <1>10, <1>11 DEF BillingIInv

(* One step of Stripe, of a webhook request, of the reconciliation, or a   *)
(* restart keeps the invariant.                                            *)
LEMMA NextBillingIInv ==
    ASSUME BillingIInv, Next
    PROVE  BillingIInv'
<1>1. CASE \/ \E p \in Price : Subscribe(p) \/ \E s \in active : ChangePlan(s, p)
           \/ \E s \in active : Cancel(s)
  BY <1>1, SubscriptionSteps
<1>3. CASE \E kind \in {"payment", "failed", "paid"} : Charge(kind)
  BY <1>3, ChargeStep DEF OrgKinds
<1>4. CASE \E e \in Ids : Deliver(e)
  BY <1>4, DeliverStep
<1>5. ASSUME NEW r \in requests, Serve(r) PROVE BillingIInv'
  <2>1. CASE Look(r)
    BY <2>1, LookEndsStep, LookReadsStep
  <2>2. CASE LookFails(r)
    BY <2>2, LookFailsStep
  <2>3. CASE Patch(r)
    BY <2>3, PatchStep
  <2>4. CASE PatchFails(r)
    BY <2>4, PatchFailsStep
  <2> QED
    BY <1>5, <2>1, <2>2, <2>3, <2>4 DEF Serve
<1>6. CASE ListAll \/ ListSome \/ (\E t \in todo : Compare(t)) \/ OpenCheckout
  BY <1>6, ReadsOnlySteps
<1>7. CASE \E t \in todo : Repair(t)
  BY <1>7, RepairStep
<1>8. CASE \E t \in todo : ReconcileFails(t)
  BY <1>8, ReconcileFailsStep
<1>9. CASE \E m \in opening : WriteBack(m) \/ CheckoutFails(m)
  BY <1>9, CheckoutSteps
<1>10. CASE Restart
  BY <1>10, RestartStep
<1> QED
  BY <1>1, <1>3, <1>4, <1>5, <1>6, <1>7, <1>8, <1>9, <1>10 DEF Next, Checkout, GoesOn, Goes

(* Nothing happens to the invariant when nothing happens. *)
LEMMA StutterBillingIInv ==
    ASSUME BillingIInv, UNCHANGED vars
    PROVE  BillingIInv'
<1>1. UNCHANGED <<merging, priceOf, active, events, acked, org, processed, requests,
                  opened, opening, todo, troubles, newest, mishaps>>
  BY DEF vars, stripeVars, webVars, shopVars
<1>2. Shape'
  BY <1>1 DEF BillingIInv, Shape, RequestOK, ItemOK, Ids, KindOf
<1>3. LastTellsAll' /\ NewestOfItsFamily'
  BY <1>1 DEF BillingIInv, LastTellsAll, LastPlan, NewestOfItsFamily, Patching, KindOf,
              Ids
<1>4. NotedTakesEffect' /\ HandledOnce'
  BY <1>1 DEF BillingIInv, NotedTakesEffect, HandledOnce, Clear, Patching
<1>5. Patching' = Patching /\ Credited' = Credited
  BY <1>1 DEF Patching, Credited
<1>6. CreditBounded' /\ CreditExact'
  BY <1>1, <1>5 DEF BillingIInv, CreditBounded, CreditExact, Clear, Blameless, KindOf
<1>7. PlanFollows' /\ FlagFollows'
  BY <1>1 DEF BillingIInv, PlanFollows, FlagFollows, Clear, Blameless, Ids, Allowed, Charged
<1> QED
  BY <1>2, <1>3, <1>4, <1>6, <1>7 DEF BillingIInv

(* The inductive invariant: whatever order events are delivered, handled,  *)
(* failed, repeated and repaired in, what Clerk holds follows from the     *)
(* events whose handlers are done, as far as the mishaps so far allow.     *)
THEOREM BillingInvariance == Spec => []BillingIInv
<1>1. Init => BillingIInv
  BY InitBillingIInv
<1>2. BillingIInv /\ [Next]_vars => BillingIInv'
  BY NextBillingIInv, StutterBillingIInv
<1> QED
  BY <1>1, <1>2, PTL DEF Spec

(* What webhook.py and reconciliation.py keep has its type: in particular  *)
(* only the plans of PRICE_TO_PLAN and "free" are ever granted.            *)
THEOREM BillingTypeCorrect == Spec => []TypeOK
<1>1. BillingIInv => TypeOK
  BY DEF BillingIInv, Shape, TypeOK, IsMetadata, RequestOK, ItemOK, Event
<1> QED
  BY <1>1, BillingInvariance, PTL

(* The top-ups that are credited are among those that Stripe has sent. *)
LEMMA SalesFinite ==
    ASSUME Shape
    PROVE  /\ IsFiniteSet(Sales("payment")) /\ Cardinality(Sales("payment")) \in Nat
           /\ Credited \subseteq Sales("payment")
           /\ Cardinality(Credited) \in Nat
           /\ Cardinality(Credited) <= Cardinality(Sales("payment"))
<1>1. Ids = 1 .. Len(events) /\ Len(events) \in Nat
  BY LenProperties DEF Shape, Ids
<1>2. IsFiniteSet(Ids)
  BY <1>1, FS_Interval
<1>3. Sales("payment") \subseteq Ids /\ Credited \subseteq Sales("payment")
  BY DEF Sales, Credited, Shape
<1>4. IsFiniteSet(Sales("payment"))
  BY <1>2, <1>3, FS_Subset
<1> QED
  BY <1>3, <1>4, FS_Subset, FS_CardinalityType

(* webhook.py:process answers an event it has noted without handling it:   *)
(* however often Stripe sends a top-up, the credit exceeds the sales only  *)
(* when a restart emptied _processed_event_ids, or two threads looked at   *)
(* it before either had noted the event.                                   *)
THEOREM CreditedOnceHolds == Spec => []CreditedOnce
<1>1. ASSUME BillingIInv PROVE CreditedOnce
  <2>. SUFFICES ASSUME Clear({"restart", "raced"})
                PROVE  CreditOf(org) <= Cardinality(Sales("payment"))
    <3>1. CreditOf(org) \in Nat /\ Cardinality(Sales("payment")) \in Nat
      BY <1>1, SalesFinite DEF BillingIInv, Shape, IsMetadata
    <3> QED
      BY <3>1 DEF CreditedOnce, Clear
  <2>1. CreditOf(org) <= Cardinality(Credited) /\ CreditOf(org) \in Nat
    BY <1>1 DEF BillingIInv, CreditBounded, Shape, IsMetadata
  <2> QED
    BY <1>1, <2>1, SalesFinite DEF BillingIInv
<1> QED
  BY <1>1, BillingInvariance, PTL

(* When all events have an answer and no handler runs, every event has     *)
(* been noted and has taken effect, unless a call failed or the service    *)
(* restarted.                                                              *)
LEMMA SettledTookEffect ==
    ASSUME BillingIInv, Settled, Clear({"failed", "restart"})
    PROVE  /\ processed = Ids /\ Patching = {}
           /\ \A e \in Ids : /\ events[e].kind \in PlanKinds => e <= newest["plan"]
                             /\ events[e].kind \in InvoiceKinds => e <= newest["invoice"]
           /\ newest["plan"] \in 0 .. Len(events) /\ newest["invoice"] \in 0 .. Len(events)
           /\ Ids = 1 .. Len(events) /\ Len(events) \in Nat
<1>1. acked = Ids /\ requests = {} /\ Patching = {}
  BY DEF Settled, Patching
<1>2. acked \subseteq processed /\ processed \subseteq Ids
  BY DEF BillingIInv, NotedTakesEffect, Clear, Shape
<1>3. /\ newest["plan"] \in 0 .. Len(events) /\ newest["invoice"] \in 0 .. Len(events)
      /\ Ids = 1 .. Len(events) /\ Len(events) \in Nat
  BY LenProperties DEF BillingIInv, Shape, Ids
<1>4. \A e \in Ids : /\ events[e].kind \in PlanKinds => newest["plan"] >= e
                     /\ events[e].kind \in InvoiceKinds => newest["invoice"] >= e
  BY <1>1, <1>2 DEF BillingIInv, NotedTakesEffect
<1>5. \A e \in Ids : e \in Nat
  BY <1>3
<1> QED
  BY <1>1, <1>2, <1>3, <1>4, <1>5

(* Without mishaps the webhook is enough: when Stripe has nothing more to  *)
(* tell, the plan, the credit and the payment flag at Clerk are those of   *)
(* Stripe, whatever order the events were delivered in and however often.  *)
(* With several subscriptions at once the plan may be that of any of them, *)
(* or free; the credit and the flag are still right.                       *)
THEOREM EntitlementFollowsHolds == Spec => []EntitlementFollows
<1>1. ASSUME BillingIInv, Settled, Blameless
      PROVE  /\ Allowed(PlanOf(org))
             /\ CreditOf(org) = Cardinality(Sales("payment"))
             /\ Flagged(org) <=> LastOf({"failed", "paid"}, "failed")
  <2>1. /\ processed = Ids /\ Patching = {}
        /\ \A e \in Ids : /\ events[e].kind \in PlanKinds => e <= newest["plan"]
                          /\ events[e].kind \in InvoiceKinds => e <= newest["invoice"]
        /\ newest["plan"] \in 0 .. Len(events) /\ newest["invoice"] \in 0 .. Len(events)
        /\ Ids = 1 .. Len(events) /\ Len(events) \in Nat
    BY <1>1, SettledTookEffect DEF Clear, Blameless
  <2>2. Allowed(PlanOf(org))
    BY <1>1, <2>1 DEF BillingIInv, PlanFollows, Clear, Blameless
  <2>3. Credited = Sales("payment")
    BY <2>1 DEF Credited, Sales
  <2>4. CreditOf(org) = Cardinality(Sales("payment"))
    BY <1>1, <2>3 DEF BillingIInv, CreditExact
  <2>5. Flagged(org) <=> newest["invoice"] # 0 /\ events[newest["invoice"]].kind = "failed"
    BY <1>1 DEF BillingIInv, FlagFollows
  <2>6. ASSUME newest["invoice"] # 0, events[newest["invoice"]].kind = "failed"
        PROVE  LastOf({"failed", "paid"}, "failed")
    BY <2>1, <2>6 DEF LastOf, InvoiceKinds
  <2>7. ASSUME LastOf({"failed", "paid"}, "failed")
        PROVE  newest["invoice"] # 0 /\ events[newest["invoice"]].kind = "failed"
    <3>1. PICK e \in Ids : /\ events[e].kind = "failed"
                           /\ \A o \in Ids : events[o].kind \in InvoiceKinds => o <= e
      BY <2>7 DEF LastOf, InvoiceKinds
    <3>2. e <= newest["invoice"] /\ e \in 1 .. Len(events)
      BY <2>1, <3>1 DEF InvoiceKinds
    <3>3. newest["invoice"] # 0 /\ newest["invoice"] \in Ids
      BY <2>1, <3>2
    <3>4. newest["invoice"] <= e
      BY <1>1, <3>1, <3>3 DEF BillingIInv, NewestOfItsFamily
    <3>5. newest["invoice"] = e
      BY <2>1, <3>2, <3>4
    <3> QED
      BY <3>1, <3>3, <3>5
  <2> QED
    BY <2>2, <2>4, <2>5, <2>6, <2>7
<1>2. BillingIInv => EntitlementFollows
  BY <1>1 DEF EntitlementFollows, Blameless, Allowed
<1> QED
  BY <1>2, BillingInvariance, PTL

(* A plan that outlives the subscription is the work of a failed call, of  *)
(* metadata written back old, of events taking effect out of order, or of  *)
(* a restart: neither repeated deliveries, nor two threads on one event,   *)
(* nor what Clerk does to keys that a PATCH leaves out is enough.          *)
THEOREM PaidAfterCancelHolds == Spec => []PaidAfterCancel
<1>1. ASSUME BillingIInv, Settled, active = {}, Clear({"failed", "stale", "reordered", "restart"})
      PROVE  PlanOf(org) = "free"
  <2>1. Clear({"failed", "restart"})
    BY <1>1 DEF Clear
  <2>2. \A e \in Ids : events[e].kind \in PlanKinds => e <= newest["plan"]
    BY <1>1, <2>1, SettledTookEffect
  <2>3. Allowed(PlanOf(org))
    BY <1>1, <2>2 DEF BillingIInv, PlanFollows
  <2> QED
    BY <1>1, <2>3 DEF Allowed, Charged
<1>2. BillingIInv => PaidAfterCancel
  BY <1>1 DEF PaidAfterCancel, Clear
<1> QED
  BY <1>2, BillingInvariance, PTL
-----------------------------------------------------------------------------
(* What the model checker's DriftRepaired rests on, for any number of      *)
(* requests and of subscriptions: while Stripe sends nothing new, nobody   *)
(* checks out and no call fails, webhook.py comes to rest; reconciliation  *)
(* then does what it had listed before, and the next listing that reaches  *)
(* the organisation brings its plan among those it is charged for.         *)

Calm == UNCHANGED <<stripeVars, shopVars, troubles>>

Unanswered == Ids \ acked
Again == {r \in requests : r.id \in acked}
Awaited == {r \in requests : r.id \notin acked}
Looking == {r \in requests : r.at = "look"}

(* What the webhook may yet do: events without an answer, requests that    *)
(* come for one that has it, requests Stripe may still have under way, and *)
(* handlers that have not read.  Each step lowers the first it changes.    *)
Unrest == <<Cardinality(Unanswered), Cardinality(Again),
            MaxRequests - Cardinality(Awaited), Cardinality(Looking)>>

Descends(new, old) ==
    \E i \in DOMAIN old : new[i] < old[i] /\ \A j \in 1 .. (i - 1) : new[j] = old[j]

(* The subscriptions that the loop has not compared yet. *)
Unread == {t \in todo : t.at = "read"}

(* The steps of reconcile_subscriptions() before the plan is one that is   *)
(* charged for, and stays one.  What it had listed before Stripe changed   *)
(* may still undo it: then it has to end first.                            *)
Drift ==
    IF \E t \in todo : Outdated(t) THEN 3 + Cardinality(todo) + Cardinality(Unread)
    ELSE IF PlanOf(org) \in Charged THEN 0
    ELSE IF todo = {} THEN 3
    ELSE IF \E t \in todo : First(t) /\ t.at = "patch" THEN 1 ELSE 2

Settles ==
    Calm => \/ Descends(Unrest', Unrest)
            \/ /\ ListAll \/ ListSome \/ GoesOn
               /\ Unrest' = Unrest
               /\ Drift' < Drift \/ (Drift = 0 /\ Drift' = 0)

DriftShrinks == [][Settles]_vars

Restful ==
    /\ \A i \in DOMAIN Unrest : Unrest[i] \in Nat
    /\ Drift \in Nat
    /\ Drift = 0 => PlanOf(org) \in Charged

(* A subscription is listed once. *)
Single == \A t, u \in todo : t.sub = u.sub => t = u

(* Two requests for one event differ in their number. *)
Keyed == \A r, q \in requests : r.id = q.id /\ r.copy = q.copy => r = q

(* The first place where two quadruples differ. *)
LEMMA FirstLower ==
    ASSUME NEW a, NEW b, NEW c, NEW d, NEW a2, NEW b2, NEW c2, NEW d2,
           \/ a2 < a
           \/ a2 = a /\ b2 < b
           \/ a2 = a /\ b2 = b /\ c2 < c
           \/ a2 = a /\ b2 = b /\ c2 = c /\ d2 < d
    PROVE  Descends(<<a2, b2, c2, d2>>, <<a, b, c, d>>)
<1>. DEFINE new == <<a2, b2, c2, d2>>
            old == <<a, b, c, d>>
<1>1. /\ DOMAIN old = 1 .. 4
      /\ new[1] = a2 /\ new[2] = b2 /\ new[3] = c2 /\ new[4] = d2
      /\ old[1] = a /\ old[2] = b /\ old[3] = c /\ old[4] = d
  OBVIOUS
<1>. HIDE DEF new, old
<1>2. 1 \in 1 .. 4 /\ 2 \in 1 .. 4 /\ 3 \in 1 .. 4 /\ 4 \in 1 .. 4
  OBVIOUS
<1>3. /\ 1 .. (1 - 1) = {} /\ 1 .. (2 - 1) = {1}
      /\ 1 .. (3 - 1) = {1, 2} /\ 1 .. (4 - 1) = {1, 2, 3}
  OBVIOUS
<1>4. CASE a2 < a
  <2>1. new[1] < old[1] /\ \A j \in 1 .. (1 - 1) : new[j] = old[j]
    BY <1>1, <1>3, <1>4
  <2> QED
    BY <1>1, <1>2, <2>1 DEF Descends, new, old
<1>5. CASE a2 = a /\ b2 < b
  <2>1. new[2] < old[2] /\ \A j \in 1 .. (2 - 1) : new[j] = old[j]
    BY <1>1, <1>3, <1>5
  <2> QED
    BY <1>1, <1>2, <2>1 DEF Descends, new, old
<1>6. CASE a2 = a /\ b2 = b /\ c2 < c
  <2>1. new[3] < old[3] /\ \A j \in 1 .. (3 - 1) : new[j] = old[j]
    BY <1>1, <1>3, <1>6
  <2> QED
    BY <1>1, <1>2, <2>1 DEF Descends, new, old
<1>7. CASE a2 = a /\ b2 = b /\ c2 = c /\ d2 < d
  <2>1. new[4] < old[4] /\ \A j \in 1 .. (4 - 1) : new[j] = old[j]
    BY <1>1, <1>3, <1>7
  <2> QED
    BY <1>1, <1>2, <2>1 DEF Descends, new, old
<1> QED
  BY <1>4, <1>5, <1>6, <1>7

(* The webhook's backlog is finite. *)
LEMMA BacklogFinite ==
    ASSUME Shape
    PROVE  /\ IsFiniteSet(Unanswered) /\ Cardinality(Unanswered) \in Nat
           /\ IsFiniteSet(Again) /\ Cardinality(Again) \in Nat
           /\ IsFiniteSet(Awaited) /\ Cardinality(Awaited) \in Nat
           /\ IsFiniteSet(Looking) /\ Cardinality(Looking) \in Nat
           /\ Cardinality(Awaited) <= MaxRequests
<1>1. IsFiniteSet(requests) /\ Cardinality(requests) <= MaxRequests
  BY DEF Shape
<1>2. Cardinality(requests) \in Nat /\ MaxRequests \in Nat
  BY <1>1, FS_CardinalityType, BillingAssumption
<1>3. Again \subseteq requests /\ Awaited \subseteq requests /\ Looking \subseteq requests
  BY DEF Again, Awaited, Looking
<1>4. IsFiniteSet(Ids)
  <2>1. Ids = 1 .. Len(events) /\ Len(events) \in Nat
    BY LenProperties DEF Shape, Ids
  <2> QED
    BY <2>1, FS_Interval
<1>5. IsFiniteSet(Unanswered)
  BY <1>4, FS_Subset DEF Unanswered
<1>6. /\ IsFiniteSet(Again) /\ IsFiniteSet(Awaited) /\ IsFiniteSet(Looking)
      /\ Cardinality(Awaited) <= Cardinality(requests)
  BY <1>1, <1>3, FS_Subset
<1>7. /\ Cardinality(Unanswered) \in Nat /\ Cardinality(Again) \in Nat
      /\ Cardinality(Awaited) \in Nat /\ Cardinality(Looking) \in Nat
  BY <1>5, <1>6, FS_CardinalityType
<1>8. Cardinality(Awaited) <= MaxRequests
  BY <1>1, <1>2, <1>6, <1>7
<1> QED
  BY <1>5, <1>6, <1>7, <1>8

(* A proper part of a finite set is smaller. *)
LEMMA PartIsSmaller ==
    ASSUME NEW S, IsFiniteSet(S), NEW T, T \subseteq S, NEW x \in S, x \notin T
    PROVE  Cardinality(T) < Cardinality(S)
<1>1. IsFiniteSet(S \ {x}) /\ Cardinality(S \ {x}) = Cardinality(S) - 1
  BY FS_RemoveElement
<1>2. T \subseteq S \ {x}
  OBVIOUS
<1>3. IsFiniteSet(T) /\ Cardinality(T) <= Cardinality(S \ {x})
  BY <1>1, <1>2, FS_Subset
<1>4. Cardinality(S) \in Nat /\ Cardinality(T) \in Nat
  BY <1>3, FS_CardinalityType
<1> QED
  BY <1>1, <1>3, <1>4

(* A request that ends answers its event, or was one too many. *)
LEMMA EndDescends ==
    ASSUME Shape, NEW r \in requests, Ends(r, TRUE), UNCHANGED events
    PROVE  Descends(Unrest', Unrest)
<1>1. requests' = requests \ {r} /\ acked' = acked \cup {r.id} /\ Ids' = Ids
  BY DEF Ends, Ids
<1>2. r.id \in Ids
  BY DEF Shape, RequestOK
<1>3. CASE r.id \notin acked
  <2>1. /\ Unanswered' \subseteq Unanswered
        /\ r.id \in Unanswered /\ r.id \notin Unanswered'
    BY <1>1, <1>2, <1>3 DEF Unanswered
  <2>2. Cardinality(Unanswered)' < Cardinality(Unanswered)
    BY <2>1, BacklogFinite, PartIsSmaller
  <2> QED
    BY <2>2, FirstLower DEF Unrest
<1>4. CASE r.id \in acked
  <2>1. Unanswered' = Unanswered
    BY <1>1, <1>4 DEF Unanswered
  <2>2. Again' \subseteq Again /\ r \in Again /\ r \notin Again'
    BY <1>1, <1>4 DEF Again
  <2>3. Cardinality(Again)' < Cardinality(Again)
    BY <2>2, BacklogFinite, PartIsSmaller
  <2> QED
    BY <2>1, <2>3, FirstLower DEF Unrest
<1> QED
  BY <1>3, <1>4

(* One element for another leaves the number of elements. *)
LEMMA Swapped ==
    ASSUME NEW S, IsFiniteSet(S), NEW x \in S, NEW y, y \notin S \ {x}
    PROVE  Cardinality((S \ {x}) \cup {y}) = Cardinality(S)
<1>1. IsFiniteSet(S \ {x}) /\ Cardinality(S \ {x}) = Cardinality(S) - 1
  BY FS_RemoveElement
<1>2. Cardinality((S \ {x}) \cup {y}) = Cardinality(S \ {x}) + 1
  BY <1>1, FS_AddElement
<1>3. Cardinality(S) \in Nat
  BY FS_CardinalityType
<1> QED
  BY <1>1, <1>2, <1>3

(* A delivery answers its event, or is one more that Stripe waits for.     *)
LEMMA DeliverDescends ==
    ASSUME Shape, NEW e \in Ids, Deliver(e), Calm
    PROVE  Descends(Unrest', Unrest)
<1>1. /\ e \notin acked
      /\ Cardinality(requests) < MaxRequests /\ Ids' = Ids
  <2>1. e \notin acked
    <3>1. ~Trouble
      BY DEF Calm, Trouble, Shape
    <3> QED
      BY <3>1 DEF Deliver
  <2> QED
    BY <2>1 DEF Deliver, stripeVars, Ids
<1>2. CASE Duplicate(e)
  <2>1. acked' = acked \cup {e}
    BY <1>2 DEF Deliver, Duplicate
  <2>2. /\ Unanswered' \subseteq Unanswered
        /\ e \in Unanswered /\ e \notin Unanswered'
    BY <1>1, <2>1 DEF Unanswered
  <2>3. Cardinality(Unanswered)' < Cardinality(Unanswered)
    BY <2>2, BacklogFinite, PartIsSmaller
  <2> QED
    BY <2>3, FirstLower DEF Unrest
<1>3. CASE ~Duplicate(e)
  <2>1. PICK c \in Unused(e) :
           requests' = requests \cup
              {[id |-> e, copy |-> c, at |-> "look", found |-> Nothing]}
    BY <1>3 DEF Deliver
  <2> DEFINE q == [id |-> e, copy |-> c, at |-> "look", found |-> Nothing]
  <2>2. q \notin requests /\ q.id = e
    BY <2>1 DEF Unused
  <2> HIDE DEF q
  <2>3. requests' = requests \cup {q} /\ acked' = acked
    BY <1>3, <2>1 DEF Deliver, Duplicate, q
  <2>4. Unanswered' = Unanswered
    BY <1>1, <2>3 DEF Unanswered
  <2>5. Again' = Again
    BY <1>1, <2>2, <2>3 DEF Again
  <2>6. Awaited' = Awaited \cup {q} /\ q \notin Awaited
    BY <1>1, <2>2, <2>3 DEF Awaited
  <2> DEFINE n == Cardinality(Awaited)
             m == Cardinality(Awaited)'
  <2>7. n \in Nat /\ MaxRequests \in Nat /\ m = n + 1
    BY <2>6, BacklogFinite, FS_AddElement, BillingAssumption
  <2> HIDE DEF n, m
  <2>8. MaxRequests - m < MaxRequests - n
    BY <2>7
  <2> QED
    BY <2>4, <2>5, <2>8, FirstLower DEF Unrest, n, m
<1> QED
  BY <1>2, <1>3

(* A handler that has read is nearer to its end.                           *)
LEMMA LookDescends ==
    ASSUME Shape, Keyed, NEW r \in requests, Look(r), UNCHANGED events
    PROVE  Descends(Unrest', Unrest)
<1>1. CASE KindOf(r) = "paid" /\ ~Flagged(org)
  BY <1>1, EndDescends DEF Look
<1>2. CASE ~(KindOf(r) = "paid" /\ ~Flagged(org))
  <2>0. PICK q : q = [r EXCEPT !.at = "patch", !.found = Reads(r)]
    OBVIOUS
  <2>1. r.at = "look" /\ requests' = (requests \ {r}) \cup {q} /\ acked' = acked
    BY <1>2, <2>0 DEF Look
  <2>2. q.id = r.id /\ q.copy = r.copy /\ q.at = "patch"
    <3>1. r = [id |-> r.id, copy |-> r.copy, at |-> r.at, found |-> r.found]
      BY DEF Shape, RequestOK
    <3>2. q = [id |-> r.id, copy |-> r.copy, at |-> "patch", found |-> Reads(r)]
      BY <2>0, <3>1
    <3> QED
      BY <3>2
  <2>3. q \notin requests
    BY <2>1, <2>2 DEF Keyed
  <2>4. Unanswered' = Unanswered
    BY <2>1 DEF Unanswered, Ids
  <2>5. Cardinality(Again)' = Cardinality(Again) /\ Cardinality(Awaited)' = Cardinality(Awaited)
    <3>1. CASE r.id \in acked
      <4>1. /\ Again' = (Again \ {r}) \cup {q} /\ r \in Again /\ q \notin Again \ {r}
            /\ Awaited' = Awaited
        BY <2>1, <2>2, <2>3, <3>1 DEF Again, Awaited
      <4> QED
        BY <4>1, BacklogFinite, Swapped
    <3>2. CASE r.id \notin acked
      <4>1. /\ Awaited' = (Awaited \ {r}) \cup {q} /\ r \in Awaited /\ q \notin Awaited \ {r}
            /\ Again' = Again
        BY <2>1, <2>2, <2>3, <3>2 DEF Again, Awaited
      <4> QED
        BY <4>1, BacklogFinite, Swapped
    <3> QED
      BY <3>1, <3>2
  <2>6. Looking' \subseteq Looking /\ r \in Looking /\ r \notin Looking'
    BY <2>1, <2>2 DEF Looking
  <2>7. Cardinality(Looking)' < Cardinality(Looking)
    BY <2>6, BacklogFinite, PartIsSmaller
  <2> QED
    BY <2>4, <2>5, <2>7, FirstLower DEF Unrest
<1> QED
  BY <1>1, <1>2

(* An event gets the smallest number that no request for it has, and a     *)
(* request keeps its number.                                               *)
LEMMA KeyedKept == ASSUME Shape, Keyed, Next PROVE Keyed'
<1>1. ASSUME NEW S \in SUBSET requests, requests' = S PROVE Keyed'
  BY <1>1 DEF Keyed
<1>2. ASSUME NEW e \in Ids, Deliver(e) PROVE Keyed'
  <2>1. CASE Duplicate(e)
    BY <1>1, <1>2, <2>1 DEF Deliver
  <2>2. CASE ~Duplicate(e)
    <3>1. PICK c \in Unused(e) :
             requests' = requests \cup
                {[id |-> e, copy |-> c, at |-> "look", found |-> Nothing]}
      BY <1>2, <2>2 DEF Deliver
    <3> DEFINE q == [id |-> e, copy |-> c, at |-> "look", found |-> Nothing]
    <3>2. q.id = e /\ q.copy = c
      OBVIOUS
    <3>3. \A r \in requests : r.id = e => r.copy # c
      BY <3>1 DEF Unused
    <3> HIDE DEF q
    <3>4. requests' = requests \cup {q}
      BY <3>1 DEF q
    <3> QED
      BY <3>2, <3>3, <3>4 DEF Keyed
  <2> QED
    BY <2>1, <2>2
<1>3. ASSUME NEW r \in requests, Serve(r) PROVE Keyed'
  <2>1. CASE requests' = requests \ {r}
    BY <1>1, <2>1
  <2>2. CASE r.at = "look" /\ requests' = (requests \ {r}) \cup
                 {[r EXCEPT !.at = "patch", !.found = Reads(r)]}
    <3>0. PICK q : q = [r EXCEPT !.at = "patch", !.found = Reads(r)]
      OBVIOUS
    <3>1. q.id = r.id /\ q.copy = r.copy
      <4>1. r = [id |-> r.id, copy |-> r.copy, at |-> r.at, found |-> r.found]
        BY DEF Shape, RequestOK
      <4>2. q = [id |-> r.id, copy |-> r.copy, at |-> "patch", found |-> Reads(r)]
        BY <3>0, <4>1
      <4> QED
        BY <4>2
    <3>2. requests' = (requests \ {r}) \cup {q}
      BY <2>2, <3>0
    <3> QED
      BY <3>1, <3>2 DEF Keyed
  <2> QED
    BY <1>3, <2>1, <2>2 DEF Serve, Look, LookFails, Patch, PatchFails, Ends
<1>4. CASE Restart
  BY <1>4 DEF Restart, Keyed
<1>5. ASSUME UNCHANGED requests PROVE Keyed'
  BY <1>5 DEF Keyed
<1>6. ASSUME NEW kind, NEW sub, NEW price, Send(kind, sub, price) PROVE Keyed'
  BY <1>5, <1>6 DEF Send, webVars
<1>7. CASE Checkout
  BY <1>5, <1>7 DEF Checkout, OpenCheckout, WriteBack, CheckoutFails, webVars
<1>8. CASE ListAll \/ ListSome \/ GoesOn \/ (\E t \in todo : ReconcileFails(t))
  BY <1>5, <1>8 DEF ListAll, ListSome, Listing, GoesOn, Goes, Compare, Repair,
                    ReconcileFails, webVars
<1> QED
  BY <1>2, <1>3, <1>4, <1>6, <1>7, <1>8
     DEF Next, Subscribe, ChangePlan, Cancel, Charge

(* The loop takes what it listed off the list, or marks it.                *)
LEMMA SingleKept == ASSUME Shape, Single, Next PROVE Single'
<1>1. ASSUME todo' \subseteq todo PROVE Single'
  BY <1>1 DEF Single
<1>2. ASSUME NEW c, Listing(c) PROVE Single'
  <2>1. \A t \in todo' : t = [sub |-> t.sub, price |-> priceOf[t.sub], at |-> "read"]
    BY <1>2 DEF Listing
  <2>2. \A t, u \in todo' : t.sub = u.sub => t = u
    BY <2>1
  <2> QED
    BY <2>2 DEF Single
<1>3. ASSUME NEW t \in todo, Compare(t) PROVE Single'
  <2>1. PICK q : q = [t EXCEPT !.at = "patch"]
    OBVIOUS
  <2>2. q.sub = t.sub
    <3>1. t = [sub |-> t.sub, price |-> t.price, at |-> t.at]
      BY DEF Shape, ItemOK
    <3>2. q = [sub |-> t.sub, price |-> t.price, at |-> "patch"]
      BY <2>1, <3>1
    <3> QED
      BY <3>2
  <2>3. todo' = todo \ {t} \/ todo' = (todo \ {t}) \cup {q}
    BY <1>3, <2>1 DEF Compare
  <2> QED
    BY <2>2, <2>3 DEF Single
<1>4. ASSUME NEW t \in todo, Repair(t) \/ ReconcileFails(t) PROVE Single'
  BY <1>1, <1>4 DEF Repair, ReconcileFails
<1>5. ASSUME NEW kind, NEW sub, NEW price, Send(kind, sub, price) PROVE Single'
  BY <1>1, <1>5 DEF Send
<1>6. CASE Checkout
  BY <1>1, <1>6 DEF Checkout, OpenCheckout, WriteBack, CheckoutFails
<1>7. ASSUME NEW e \in Ids, Deliver(e) PROVE Single'
  BY <1>1, <1>7 DEF Deliver
<1>8. ASSUME NEW r \in requests, Serve(r) PROVE Single'
  BY <1>1, <1>8 DEF Serve, Look, LookFails, Patch, PatchFails
<1>9. CASE Restart
  BY <1>1, <1>9 DEF Restart
<1> QED
  BY <1>2, <1>3, <1>4, <1>5, <1>6, <1>7, <1>8, <1>9
     DEF Next, Subscribe, ChangePlan, Cancel, Charge, ListAll, ListSome, GoesOn, Goes

(* What is appended makes a difference. *)
LEMMA AppendIsLonger ==
    ASSUME NEW S, NEW q \in Seq(S), NEW x PROVE Append(q, x) # q
<1>1. Len(Append(q, x)) = Len(q) + 1 /\ Len(q) \in Nat
  OBVIOUS
<1> QED
  BY <1>1

(* What is listed and has not changed since is charged for.                *)
LEMMA ListedIsCharged ==
    ASSUME NEW t \in todo, ~Outdated(t) PROVE PlanFrom(t.price) \in Charged
BY DEF Outdated, Charged

(* The number of steps is a number. *)
LEMMA StepsFinite ==
    ASSUME Shape
    PROVE  /\ Cardinality(todo) \in Nat
           /\ IsFiniteSet(Unread) /\ Cardinality(Unread) \in Nat
<1>1. IsFiniteSet(todo) /\ Unread \subseteq todo
  BY DEF Shape, Unread
<1>2. IsFiniteSet(Unread)
  BY <1>1, FS_Subset
<1> QED
  BY <1>1, <1>2, FS_CardinalityType

(* A step of the loop leaves fewer steps, all of subscriptions it had.     *)
LEMMA GoesLeavesFewer ==
    ASSUME Shape, Single, NEW t \in todo, Goes(t)
    PROVE  /\ Cardinality(todo)' + Cardinality(Unread)'
                 < Cardinality(todo) + Cardinality(Unread)
           /\ Cardinality(todo)' \in Nat /\ Cardinality(Unread)' \in Nat
           /\ \A u \in todo' : \E v \in todo : u.sub = v.sub /\ u.price = v.price
<1> DEFINE a == Cardinality(todo)
           b == Cardinality(Unread)
           c == Cardinality(todo)'
           d == Cardinality(Unread)'
<1>1. IsFiniteSet(todo) /\ IsFiniteSet(Unread) /\ a \in Nat /\ b \in Nat
  BY StepsFinite DEF Shape
<1>2. t = [sub |-> t.sub, price |-> t.price, at |-> t.at]
  BY DEF Shape, ItemOK
<1>3. CASE todo' = todo \ {t}
  <2>1. t \notin todo' /\ todo' \subseteq todo
    BY <1>3
  <2>2. c < a /\ IsFiniteSet(todo') /\ c \in Nat
    BY <1>1, <2>1, PartIsSmaller, FS_Subset, FS_CardinalityType
  <2>3. Unread' \subseteq Unread
    BY <2>1 DEF Unread
  <2>4. d <= b /\ d \in Nat
    BY <1>1, <2>3, FS_Subset, FS_CardinalityType
  <2> HIDE DEF a, b, c, d
  <2>5. c + d < a + b
    BY <1>1, <2>2, <2>4
  <2> QED
    BY <2>1, <2>2, <2>4, <2>5 DEF a, b, c, d
<1>4. CASE t.at = "read" /\ todo' = (todo \ {t}) \cup {[t EXCEPT !.at = "patch"]}
  <2>1. PICK q : q = [t EXCEPT !.at = "patch"]
    OBVIOUS
  <2>2. q.sub = t.sub /\ q.price = t.price /\ q.at = "patch"
    <3>1. q = [sub |-> t.sub, price |-> t.price, at |-> "patch"]
      BY <1>2, <2>1
    <3> QED
      BY <3>1
  <2>3. q \notin todo
    BY <1>4, <2>2 DEF Single
  <2>4. todo' = (todo \ {t}) \cup {q}
    BY <1>4, <2>1
  <2>5. c = a
    <3>1. q \notin todo \ {t}
      BY <2>3
    <3>2. Cardinality((todo \ {t}) \cup {q}) = Cardinality(todo)
      BY <1>1, <3>1, Swapped
    <3> QED
      BY <2>4, <3>2
  <2>6. Unread' \subseteq Unread /\ t \in Unread /\ t \notin Unread'
    BY <1>4, <2>2, <2>4 DEF Unread
  <2>7. d < b /\ d \in Nat
    BY <1>1, <2>6, PartIsSmaller, FS_Subset, FS_CardinalityType
  <2> HIDE DEF a, b, c, d
  <2>8. c + d < a + b /\ c \in Nat
    BY <1>1, <2>5, <2>7
  <2>9. \A u \in todo' : \E v \in todo : u.sub = v.sub /\ u.price = v.price
    BY <2>2, <2>4
  <2> QED
    BY <2>7, <2>8, <2>9 DEF a, b, c, d
<1> QED
  BY <1>3, <1>4 DEF Goes, Compare, Repair

(* The values that Drift has, and has after a step. *)
DriftValues ==
    /\ (\E t \in todo : Outdated(t)) => Drift = 3 + Cardinality(todo) + Cardinality(Unread)
    /\ (\A t \in todo : ~Outdated(t))
          => Drift \in 0 .. 3 /\ (PlanOf(org) \in Charged <=> Drift = 0)
    /\ Drift \in Nat
    /\ Drift = 0 => PlanOf(org) \in Charged

LEMMA DriftIs == Shape => DriftValues
<1>. SUFFICES ASSUME Shape PROVE DriftValues
  OBVIOUS
<1> DEFINE a == Cardinality(todo)
           b == Cardinality(Unread)
<1>1. a \in Nat /\ b \in Nat
  BY StepsFinite
<1>2. CASE \E t \in todo : Outdated(t)
  <2>1. Drift = 3 + a + b
    BY <1>2 DEF Drift
  <2> HIDE DEF a, b
  <2>2. 3 + a + b \in Nat /\ 3 + a + b # 0
    BY <1>1
  <2> QED
    BY <1>2, <2>1, <2>2 DEF a, b, DriftValues
<1>3. CASE \A t \in todo : ~Outdated(t)
  BY <1>3 DEF Drift, DriftValues
<1> QED
  BY <1>2, <1>3

LEMMA DriftWillBe == Shape' => DriftValues'
BY DriftIs, PTL

(* Once what is listed is not outdated, the loop brings the plan among     *)
(* those charged for, and leaves it there.                                 *)
LEMMA GoesSettles ==
    ASSUME Shape, Single, NEW t \in todo, Goes(t), UNCHANGED <<priceOf, active>>, Shape'
    PROVE  Drift' < Drift \/ (Drift = 0 /\ Drift' = 0)
<1> DEFINE a == Cardinality(todo)
           b == Cardinality(Unread)
           c == Cardinality(todo)'
           d == Cardinality(Unread)'
<1>1. /\ a \in Nat /\ b \in Nat /\ c \in Nat /\ d \in Nat /\ c + d < a + b
      /\ \A u \in todo' : \E v \in todo : u.sub = v.sub /\ u.price = v.price
  BY GoesLeavesFewer, StepsFinite
<1>2. Charged' = Charged
  BY DEF Charged, PlanFrom
<1>3. \A u \in todo' : Outdated(u)' => \E v \in todo : Outdated(v)
  BY <1>1 DEF Outdated
<1>4. CASE \E v \in todo : Outdated(v)
  <2>1. Drift = 3 + a + b
    BY <1>4, DriftIs DEF DriftValues
  <2>2. Drift' = 3 + c + d \/ Drift' \in 0 .. 3
    <3>1. (\E u \in todo' : Outdated(u)') \/ (\A u \in todo' : ~Outdated(u)')
      OBVIOUS
    <3> QED
      BY <3>1, DriftWillBe DEF DriftValues
  <2> HIDE DEF a, b, c, d
  <2>3. 3 + c + d < 3 + a + b /\ 3 < 3 + a + b
    BY <1>1
  <2> QED
    BY <1>1, <2>1, <2>2, <2>3
<1>5. CASE \A v \in todo : ~Outdated(v)
  <2>1. \A u \in todo' : ~Outdated(u)'
    BY <1>3, <1>5
  <2>2. Drift' \in 0 .. 3 /\ (PlanOf(org') \in Charged <=> Drift' = 0)
    BY <1>2, <2>1, DriftWillBe DEF DriftValues
  <2>3. Drift \in 0 .. 3 /\ (PlanOf(org) \in Charged <=> Drift = 0)
    BY <1>5, DriftIs DEF DriftValues
  <2>4. PlanFrom(t.price) \in Charged
    BY <1>5, ListedIsCharged
  <2>5. CASE Compare(t)
    <3>1. org' = org /\ First(t) /\ t.at = "read"
      BY <2>5 DEF Compare
    <3>2. CASE PlanOf(org) \in Charged
      BY <2>2, <2>3, <3>1, <3>2
    <3>3. CASE PlanOf(org) \notin Charged
      <4>1. Differs(t)
        BY <2>4, <3>3 DEF Differs
      <4>2. PICK q : q = [t EXCEPT !.at = "patch"]
        OBVIOUS
      <4>3. todo' = (todo \ {t}) \cup {q}
        BY <2>5, <4>1, <4>2 DEF Compare
      <4>4. q.sub = t.sub /\ q.at = "patch"
        <5>1. t = [sub |-> t.sub, price |-> t.price, at |-> t.at]
          BY DEF Shape, ItemOK
        <5>2. q = [sub |-> t.sub, price |-> t.price, at |-> "patch"]
          BY <4>2, <5>1
        <5> QED
          BY <5>2
      <4>5. q \in todo' /\ \A u \in todo' : u.sub <= q.sub
        <5>1. \A u \in todo : u.sub <= t.sub
          BY <3>1 DEF First
        <5>2. t.sub <= t.sub
          BY <5>1
        <5> QED
          BY <4>3, <4>4, <5>1, <5>2
      <4>6. \E u \in todo' : First(u)' /\ u.at = "patch"
        BY <4>4, <4>5 DEF First
      <4>7. Drift' = 1
        <5>1. ~\E u \in todo' : Outdated(u)'
          BY <2>1
        <5>2. PlanOf(org') \notin Charged' /\ todo' # {}
          BY <1>2, <3>1, <3>3, <4>5
        <5> QED
          BY <4>6, <5>1, <5>2 DEF Drift
      <4>8. Drift = 2
        <5>1. ~\E u \in todo : First(u) /\ u.at = "patch"
          <6> SUFFICES ASSUME NEW u \in todo, First(u), u.at = "patch" PROVE FALSE
            OBVIOUS
          <6>1. u.sub <= t.sub /\ t.sub <= u.sub
            BY <3>1 DEF First
          <6>2. u.sub \in Int /\ t.sub \in Int
            BY DEF Shape, ItemOK
          <6>3. u.sub = t.sub
            BY <6>1, <6>2
          <6> QED
            BY <3>1, <6>3 DEF Single
        <5>2. ~\E u \in todo : Outdated(u)
          BY <1>5
        <5> QED
          BY <3>3, <5>1, <5>2 DEF Drift
      <4> QED
        BY <4>7, <4>8
    <3> QED
      BY <3>2, <3>3
  <2>6. CASE Repair(t)
    <3>1. org' = Patched(Only("plan", PlanFrom(t.price)))
      BY <2>6 DEF Repair, Repaired
    <3>2. PlanOf(org') = PlanFrom(t.price)
      BY <3>1, PlansFrom, PlanPatched DEF Shape
    <3>3. Drift' = 0
      BY <2>2, <2>4, <3>2
    <3> QED
      BY <2>3, <3>3
  <2> QED
    BY <2>5, <2>6 DEF Goes
<1> QED
  BY <1>4, <1>5

(* A listing that lists anything.                                          *)
LEMMA ListingSettles ==
    ASSUME Shape, NEW c, Listing(c), todo' # {}, Shape'
    PROVE  Drift' < Drift \/ (Drift = 0 /\ Drift' = 0)
<1>1. /\ todo = {} /\ UNCHANGED <<org, priceOf, active>>
      /\ todo' = {[sub |-> s, price |-> priceOf[s], at |-> "read"] :
                      s \in {x \in active : x > c}}
  BY DEF Listing, stripeVars
<1>2. Charged' = Charged
  BY <1>1 DEF Charged, PlanFrom
<1>3. \A u \in todo' : u.at = "read" /\ ~Outdated(u)'
  BY <1>1 DEF Outdated
<1>4. CASE PlanOf(org) \in Charged
  <2>1. Drift = 0
    <3>1. \A u \in todo : ~Outdated(u)
      BY <1>1
    <3> QED
      BY <1>4, <3>1, DriftIs DEF DriftValues
  <2>2. Drift' = 0
    <3>1. \A u \in todo' : ~Outdated(u)'
      BY <1>3
    <3>2. PlanOf(org') \in Charged'
      BY <1>1, <1>2, <1>4
    <3> QED
      BY <3>1, <3>2, DriftWillBe DEF DriftValues
  <2> QED
    BY <2>1, <2>2
<1>5. CASE PlanOf(org) \notin Charged
  <2>1. Drift = 3
    BY <1>1, <1>5 DEF Drift
  <2>2. Drift' = 2
    <3>1. ~\E u \in todo' : Outdated(u)'
      BY <1>3
    <3>2. ~\E u \in todo' : First(u)' /\ u.at = "patch"
      BY <1>3
    <3>3. PlanOf(org') \notin Charged'
      BY <1>1, <1>2, <1>5
    <3> QED
      BY <3>1, <3>2, <3>3 DEF Drift
  <2> QED
    BY <2>1, <2>2
<1> QED
  BY <1>4, <1>5

(* The reconciliation does nothing to the webhook's backlog. *)
LEMMA UnrestKept ==
    ASSUME UNCHANGED <<acked, requests, events>> PROVE Unrest' = Unrest
<1>1. /\ Unanswered' = Unanswered /\ Again' = Again
      /\ Awaited' = Awaited /\ Looking' = Looking
  BY DEF Unanswered, Ids, Again, Awaited, Looking
<1> QED
  BY <1>1 DEF Unrest

(* Whatever happened before, as soon as Stripe is quiet, nobody checks out *)
(* and nothing fails, each step of the webhook lowers its backlog, in      *)
(* lexicographic order, and each step of the reconciliation, which leaves  *)
(* the backlog alone, brings the plan nearer to one that Stripe charges    *)
(* for, or finds it there and leaves it there.  With one subscription that *)
(* is its plan; with several the loop may go from one of them to another   *)
(* for ever.  A listing that does not reach the organisation is no step.   *)
THEOREM RepairsConverge == Spec => []Restful /\ DriftShrinks
<1> DEFINE I == BillingIInv /\ Keyed /\ Single
<1>1. I => Restful
  <2> SUFFICES ASSUME I PROVE Restful
    OBVIOUS
  <2>1. Shape
    BY DEF BillingIInv
  <2> DEFINE a == Cardinality(Unanswered)
             b == Cardinality(Again)
             n == Cardinality(Awaited)
             d == Cardinality(Looking)
  <2>2. a \in Nat /\ b \in Nat /\ n \in Nat /\ d \in Nat /\ n <= MaxRequests
    BY <2>1, BacklogFinite
  <2> HIDE DEF a, b, n, d
  <2>3. MaxRequests - n \in Nat
    BY <2>2, BillingAssumption
  <2>4. Unrest = <<a, b, MaxRequests - n, d>>
    BY DEF Unrest, a, b, n, d
  <2>5. DOMAIN Unrest = 1 .. 4 /\ \A i \in 1 .. 4 : Unrest[i] \in Nat
    BY <2>2, <2>3, <2>4
  <2>6. Drift \in Nat /\ (Drift = 0 => PlanOf(org) \in Charged)
    BY <2>1, DriftIs DEF DriftValues
  <2> QED
    BY <2>5, <2>6 DEF Restful
<1>2. I /\ I' /\ [Next]_vars => [Settles]_vars
  <2> SUFFICES ASSUME I, I', Next, Calm, ~UNCHANGED vars PROVE Settles
    BY DEF Settles
  <2>1. /\ Shape /\ Shape' /\ Keyed /\ Single /\ ~Trouble
        /\ UNCHANGED <<priceOf, active, events, opened, opening, troubles>>
    BY DEF BillingIInv, Calm, stripeVars, shopVars, Trouble, Shape
  <2>2. ASSUME NEW e \in Ids, Deliver(e) PROVE Descends(Unrest', Unrest)
    BY <2>1, <2>2, DeliverDescends
  <2>3. ASSUME NEW r \in requests, Serve(r) PROVE Descends(Unrest', Unrest)
    <3>1. CASE Look(r)
      BY <2>1, <3>1, LookDescends
    <3>2. CASE Patch(r)
      BY <2>1, <3>2, EndDescends DEF Patch
    <3> QED
      BY <2>1, <2>3, <3>1, <3>2 DEF Serve, LookFails, PatchFails, Fails
  <2>4. ASSUME NEW t \in todo, Goes(t) PROVE Settles
    <3>1. UNCHANGED <<acked, requests, events>>
      BY <2>1, <2>4 DEF Goes, Compare, Repair, webVars
    <3>2. Drift' < Drift \/ (Drift = 0 /\ Drift' = 0)
      BY <2>1, <2>4, GoesSettles
    <3> QED
      BY <2>4, <3>1, <3>2, UnrestKept DEF Settles, GoesOn
  <2>5. ASSUME NEW c, Listing(c), ListAll \/ ListSome PROVE Settles
    <3>1. UNCHANGED <<merging, stripeVars, org, webVars, shopVars, troubles, mishaps>> /\ todo = {}
      BY <2>5 DEF Listing
    <3>2. todo' # {}
      BY <3>1 DEF vars
    <3>3. Drift' < Drift \/ (Drift = 0 /\ Drift' = 0)
      BY <2>1, <2>5, <3>2, ListingSettles
    <3>4. UNCHANGED <<acked, requests, events>>
      BY <3>1 DEF webVars, stripeVars
    <3> QED
      BY <2>5, <3>3, <3>4, UnrestKept DEF Settles
  <2>6. ~(\E t \in todo : ReconcileFails(t)) /\ ~Restart
    BY <2>1 DEF ReconcileFails, Restart, Fails
  <2>7. ASSUME NEW kind, NEW sub, NEW price PROVE ~Send(kind, sub, price)
    BY <2>1, AppendIsLonger DEF Send, Shape
  <2>8. /\ ~\E p \in Price : Subscribe(p) \/ \E s \in active : ChangePlan(s, p)
        /\ ~\E s \in active : Cancel(s)
        /\ ~\E kind \in {"payment", "failed", "paid"} : Charge(kind)
    BY <2>7 DEF Subscribe, ChangePlan, Cancel, Charge
  <2>9. ~Checkout
    <3>1. ~OpenCheckout
      <4> SUFFICES ASSUME OpenCheckout PROVE FALSE
        OBVIOUS
      <4>1. opening' # {org}
        BY <2>1 DEF OpenCheckout
      <4>2. UNCHANGED vars
        BY <2>1, <4>1 DEF OpenCheckout, vars, shopVars
      <4> QED
        BY <4>2
    <3>2. ~\E m \in opening : WriteBack(m) \/ CheckoutFails(m)
      BY <2>1 DEF WriteBack, CheckoutFails
    <3> QED
      BY <3>1, <3>2 DEF Checkout
  <2>10. CASE ListAll \/ ListSome
    BY <2>5, <2>10 DEF ListAll, ListSome
  <2> QED
    BY <2>2, <2>3, <2>4, <2>6, <2>8, <2>9, <2>10 DEF Next, Settles, GoesOn
<1>3. Init => Keyed /\ Single
  BY DEF Init, Begins, Keyed, Single
<1>4. BillingIInv /\ Keyed /\ Single /\ [Next]_vars => Keyed' /\ Single'
  <2>1. ASSUME BillingIInv, Keyed, Single, Next PROVE Keyed' /\ Single'
    BY <2>1, KeyedKept, SingleKept DEF BillingIInv
  <2>2. ASSUME Keyed, Single, UNCHANGED vars PROVE Keyed' /\ Single'
    BY <2>2 DEF Keyed, Single, vars, webVars
  <2> QED
    BY <2>1, <2>2
<1> HIDE DEF I
<1>5. Spec => []I
  BY <1>3, <1>4, BillingInvariance, PTL DEF Spec, I
<1> QED
  BY <1>1, <1>2, <1>5, PTL DEF Spec, DriftShrinks
=============================================================================
