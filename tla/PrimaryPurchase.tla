-------------------------- MODULE PrimaryPurchase --------------------------
(***************************************************************************)
(* The inventory of governed SmartDeeds and its direct sale.  A deed       *)
(* waits in the AVAILABLE puzzle (mint_offer_inventory_available_v3.clsp), *)
(* is reserved for one purchase (mint_offer_delegate_v6.clsp), and leaves  *)
(* for the buyer's vault in exchange for a payment in the same block, or   *)
(* for a receipt that the validators sign for money they saw elsewhere     *)
(* (stripe_settlement_receipt_v1.clsp, and for several deeds at once       *)
(* purchase_batch_settlement_receipt_v1.clsp).                             *)
(*                                                                         *)
(* A step is one bundle.  The puzzles say which coins a bundle may leave   *)
(* out; the driver's bundles leave out none, and the parties to the        *)
(* purchases in Driven use the driver's bundles only.  The coins whose     *)
(* announcements a deed asks for are arguments of its own spend, so that   *)
(* anyone can have it delivered by coins that settle nothing: unbound      *)
(* holds the purchases, in Driven or not, that were.                       *)
(***************************************************************************)
EXTENDS PurchaseArtifact

CONSTANTS
  Driven,          \* purchases whose parties use the driver's bundles only
  ExtensionLimit,  \* MAX_RESERVATION_EXTENSION_SECONDS
  Coin,            \* amounts of the coins that buyers pay from
  Evidence,        \* what the payment providers may report
  MaxReceipts,     \* bound on the receipt coins at a time
  MaxTime          \* bound: the clock stops here, nothing expires later

Time == 0 .. MaxTime

\* No voucher is sold on the CAT rail.
ASSUME PurchaseAssumption ==
  /\ IsFiniteSet(Purchase)
  /\ Purchase \subseteq [deed : Deed, buyer : STRING, rail : ChainRail \cup ReceiptRail,
                         kind : {"direct", "presale"}, quote : Nat]
  /\ \A p \in Purchase : p.kind = "presale" => p.rail # "cat"
  /\ NoPurchase \notin Purchase
  /\ Driven \subseteq Purchase

\* The dataclasses admit no other artifacts, terms and reports.
ASSUME AmountAssumption ==
  /\ \A p \in Purchase : ValidArtifact(p) /\ artifact[p].amount \in Nat
  /\ \A d \in Deed : ValidTerms(d)
  /\ \A v \in Evidence : ValidEvidence(v) /\ v.amount \in Nat /\ v.charge \in Nat
  /\ Coin \subseteq Nat

ASSUME LimitAssumption ==
  /\ MaxTime \in Nat /\ MaxReceipts \in Nat
  /\ ExtensionLimit \in Nat /\ ReceiptLife \in Nat

VARIABLES
  now,        \* timestamp of the current block
  inventory,  \* where each deed is
  receipts,   \* receipt coins of direct purchases that can still be spent
  payment,    \* what became of the payment for each purchase
  revenue,    \* what the sellers have been paid on each rail
  unbound     \* purchases delivered without their receipt or voucher and payment

saleVars == <<now, inventory, receipts, payment, revenue, unbound>>

Available == [at |-> "available", purchase |-> NoPurchase, expires |-> 0]

Reserved(p, e) == [at |-> "reserved", purchase |-> p, expires |-> e]

InVault(p) == [at |-> "vault", purchase |-> p, expires |-> 0]

DeedState ==
  {Available} \cup {Reserved(p, e) : p \in Purchase, e \in Time} \cup {InVault(p) : p \in Purchase}

Receipt == [children : SUBSET Purchase, expires : Time, amount : Int]

\* "held" is a payment in escrow: only a voucher's payment waits there.
SaleTypeOK ==
  /\ now \in Time
  /\ inventory \in [Deed -> DeedState]
  /\ receipts \subseteq Receipt
  /\ payment \in [Purchase -> {"none", "held", "taken", "returned"}]
  /\ DOMAIN revenue = Rails
  /\ unbound \subseteq Purchase

SaleInit ==
  /\ now = 0
  /\ inventory = [d \in Deed |-> Available]
  /\ receipts = {}
  /\ payment = [p \in Purchase |-> "none"]
  /\ revenue = [rail \in Rails |-> 0]
  /\ unbound = {}

----------------------------------------------------------------------------
\* A reservation lasts no longer than the quote stands.
Reservable(p, e) ==
  /\ inventory[p.deed] = Available
  /\ now < e /\ e <= p.quote

\* Two validators reserve the deed.  The artifact's hash is put together from
\* the terms curried into the deed's coin.
Reserve(p, e) ==
  /\ Reservable(p, e) /\ MatchesTerms(p)
  /\ inventory' = [inventory EXCEPT ![p.deed] = Reserved(p, e)]
  /\ UNCHANGED <<now, receipts, payment, revenue, unbound>>

\* MODE_EXTEND: the new expiry is not compared with the quote.
Extendable(d, e) ==
  /\ inventory[d].at = "reserved" /\ now < inventory[d].expires
  /\ inventory[d].expires < e /\ e <= inventory[d].expires + ExtensionLimit

\* Signed by two validators, as often as they like.
Extend(d, e) ==
  /\ Extendable(d, e)
  /\ inventory' = [inventory EXCEPT ![d].expires = e]
  /\ UNCHANGED <<now, receipts, payment, revenue, unbound>>

Release(d) ==
  /\ inventory' = [inventory EXCEPT ![d] = Available]
  /\ UNCHANGED <<now, receipts, payment, revenue, unbound>>

\* MODE_RELEASE_TIMEOUT needs no signature.
TimeOut(d) ==
  /\ inventory[d].at = "reserved" /\ now >= inventory[d].expires
  /\ Release(d)

\* MODE_RELEASE_FAILURE, signed by two validators at any time.
ReleaseFailure(d) ==
  /\ inventory[d].at = "reserved"
  /\ Release(d)

----------------------------------------------------------------------------
\* Slip: the artifact is not compared with the reservation's.
AnyReservation(p) == inventory[p.deed].at = "reserved" /\ now < inventory[p.deed].expires

\* The deed is reserved for this very artifact, and still is in this block.
Holds(p) ==
  /\ inventory[p.deed].at = "reserved" /\ inventory[p.deed].purchase = p
  /\ now < inventory[p.deed].expires

\* A deed delivered goes to the vault its reservation commits to.
Delivering(B) ==
  [d \in Deed |-> IF d \in {p.deed : p \in B} THEN InVault(inventory[d].purchase)
                  ELSE inventory[d]]

Paying(B) == [p \in Purchase |-> IF p \in B THEN "taken" ELSE payment[p]]

Paid(B, amount) == [revenue EXCEPT ![(CHOOSE p \in B : TRUE).rail] = @ + amount]

\* mode-is-valid: which purchases each way of delivering is for.
ModeAllows(p, mode) ==
  CASE mode = "direct" -> p.kind = "direct" /\ p.rail \in ChainRail
    [] mode = "external" -> p.kind = "direct" /\ p.rail \in ReceiptRail
    [] mode = "voucher" -> p.kind = "presale" /\ p.rail # "cat"

----------------------------------------------------------------------------
\* What an offer for these purchases asks for: each deed once, for its vault.
Requested(B) == {[deed |-> p.deed, vault |-> p.buyer, purchase |-> p] : p \in B}

\* A buyer's offer pays the exact amount from one coin, and the rest comes back.
prepare_chia_buyer_offer_v3(p, coin) ==
  [requests |-> Requested({p}), pays |-> artifact[p].amount, change |-> coin - artifact[p].amount]

prepare_chia_buyer_batch_offer_v3(B, coin) ==
  [requests |-> Requested(B), pays |-> total_rail_amount(B), change |-> coin - total_rail_amount(B)]

\* The offers buyers may hand in.
BuyerOffers ==
  {o \in {prepare_chia_buyer_offer_v3(p, coin) : p \in Purchase, coin \in Coin} \cup
         {prepare_chia_buyer_batch_offer_v3(B, coin) : B \in Batches, coin \in Coin} :
     o.change >= 0}

\* validate_chia_buyer_offer_v3
PaysFor(o, p) == o.requests = Requested({p}) /\ o.pays = artifact[p].amount

\* validate_chia_buyer_batch_offer_v3
PaysForBatch(o, B) == o.requests = Requested(B) /\ o.pays = total_rail_amount(B)

\* The half of one deed in a native sale: its quote and reservation stand.
NativeChild(p) == ModeAllows(p, "direct") /\ Holds(p) /\ now < p.quote

\* MODE_DIRECT: the buyer's offer and the sellers' halves settle in one bundle.
DeliverNative(B) ==
  /\ \A p \in B : NativeChild(p)
  /\ \E o \in BuyerOffers :
       /\ PaysForBatch(o, B) \/ \E p \in Purchase : B = {p} /\ PaysFor(o, p)
       /\ revenue' = Paid(B, o.pays)
  /\ inventory' = Delivering(B)
  /\ payment' = Paying(B)
  /\ UNCHANGED <<now, receipts, unbound>>

\* MODE_EXTERNAL, which nobody signs, and MODE_VOUCHER: the delegate asks for
\* announcements of coins named in its solution, and on a chain rail for the
\* price, from whichever offer coin; the receipt, the voucher and its payment may
\* all stay where they are.
DeliverUnbound(p) ==
  /\ ModeAllows(p, "external") \/ ModeAllows(p, "voucher")
  /\ Holds(p)
  /\ inventory' = Delivering({p})
  /\ unbound' = unbound \cup {p}
  /\ revenue' = IF p.rail \in ChainRail THEN Paid({p}, artifact[p].amount) ELSE revenue
  /\ UNCHANGED <<now, receipts, payment>>

----------------------------------------------------------------------------
\* The receipt coins that evidence v of a payment can be turned into.
ReceiptsOn(B, v, e) ==
  {SingleReceipt(p, e) : p \in {q \in B : B = {q} /\ (ValidStripeReceipt(q, v, e)
                                                      \/ ValidExternalReceipt(q, v, e))}}
  \cup {r \in {BatchReceipt(B, v, e)} : ValidBatchReceipt(B, v, e) /\ LiveWhenObserved(B, v, e)}

\* A receipt and when its payment was observed, for every payment reported.
Fundable ==
  UNION {{[receipt |-> r, observed |-> v.observed] : r \in ReceiptsOn(B, v, e)} :
           B \in Batches, v \in Evidence, e \in Time}

\* Anyone may fund a receipt coin; it is worth what the validators sign later.
FundReceipt(f) ==
  /\ f.observed <= now /\ now < f.receipt.expires
  /\ Cardinality(receipts) < MaxReceipts
  /\ receipts' = receipts \cup {f.receipt}
  /\ UNCHANGED <<now, inventory, payment, revenue, unbound>>

\* Two validators sign the spend of the receipt, which creates the offer coin the
\* deeds are paid with and announces each artifact.
Live(r) == now < r.expires

\* The half of one deed in the settlement of a receipt for it alone, and of a
\* batch: the reserved artifact is the receipt's, or one of the receipt's.
SingleChild(r, p) == r.children = {p} /\ ModeAllows(p, "external") /\ Holds(p)

BatchChild(r, p) == p \in r.children /\ ModeAllows(p, "external") /\ Holds(p)

\* The offer that a receipt stands for: one mojo for each deed it asks for.
prepare_stripe_receipt_offer(r) ==
  [requests |-> Requested(r.children), mojos |-> Cardinality(r.children)]

\* _validate_purchase_batch_receipt_offer
AsksForAll(o, B) == o.requests = Requested(B) /\ o.mojos = Cardinality(B)

\* The driver settles a receipt by delivering all of it.
Complete(r, B) == B = r.children /\ AsksForAll(prepare_stripe_receipt_offer(r), B)

\* Slip: the driver delivers the deeds that are still reserved and settles the
\* whole receipt.
SettleWhatIsHeld(r, B) ==
  /\ Live(r)
  /\ B = {p \in r.children : Holds(p)}
  /\ inventory' = Delivering(B)
  /\ payment' = Paying(r.children)
  /\ revenue' = Paid(r.children, r.amount)
  /\ receipts' = receipts \ {r}
  /\ UNCHANGED <<now, unbound>>

\* The receipt is spent once, before it expires.  The deeds of B join in
\* MODE_EXTERNAL with the receipt's announcement for each; the receipt asks for
\* none, and a deed that is in none of its artifacts has no use for it.
SettleReceipt(r, B) ==
  /\ Live(r)
  /\ r.children \cap Driven # {} => Complete(r, B)
  /\ \A p \in B : SingleChild(r, p) \/ BatchChild(r, p)
  /\ inventory' = Delivering(B)
  /\ payment' = Paying(r.children)
  /\ revenue' = Paid(r.children, r.amount)
  /\ receipts' = receipts \ {r}
  /\ UNCHANGED <<now, unbound>>

Tick == now < MaxTime /\ now' = now + 1

\* Time passes; a receipt that has expired is never spent again.
SaleNextBlock ==
  /\ Tick
  /\ receipts' = {r \in receipts : now' < r.expires}
  /\ UNCHANGED <<inventory, payment, revenue, unbound>>

SaleNext ==
  \/ \E p \in Purchase, e \in Time : Reserve(p, e)
  \/ \E d \in Deed, e \in Time : Extend(d, e)
  \/ \E d \in Deed : TimeOut(d) \/ ReleaseFailure(d)
  \/ \E B \in Batches : DeliverNative(B)
  \/ \E p \in Purchase : DeliverUnbound(p)
  \/ \E f \in Fundable : FundReceipt(f)
  \/ \E r \in receipts : \E B \in SUBSET r.children : SettleReceipt(r, B)
=============================================================================
