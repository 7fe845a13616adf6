-------------------------- MODULE PurchaseArtifact --------------------------
(***************************************************************************)
(* What a buyer authorizes and what counts as having paid for it           *)
(* (payment_artifacts_v3.py, and the oracle rounds and attestations of     *)
(* payment_artifacts_v2.py): the artifact of a purchase with its amounts,  *)
(* the batch of artifacts of one checkout, and the receipt that validators *)
(* sign for money collected elsewhere, with the evidence it rests on.      *)
(*                                                                         *)
(* A purchase stands for the parts of its artifact that the puzzles        *)
(* compare; quote is the earlier of its two expiries.  artifact[p] holds   *)
(* the rest that matters here: amounts in cents, or in units of the asset. *)
(***************************************************************************)
EXTENDS Integers, FiniteSets, FiniteSetsExt, Functions

CONSTANTS
  Deed,            \* deed launchers
  Purchase,        \* the purchase artifacts the buyers may authorize
  NoPurchase,
  artifact,        \* the amounts of each purchase
  terms,           \* the price each deed was minted with
  FeeCap,          \* TECHNOLOGY_FEE_BPS_HARD_CAP
  TestUnits,       \* token units of a cent on the Base rail
  AssetUnits,      \* units of a whole XCH or CAT
  SpreadCap,       \* MAX_ORACLE_SPREAD_BPS
  SourceLife,      \* MAX_ORACLE_SOURCE_TTL_SECONDS
  MaxBatch,        \* MAX_PURCHASE_BATCH_QUANTITY
  ReceiptLife      \* STRIPE_RECEIPT_TTL_SECONDS

ChainRail == {"xch", "cat"}
ReceiptRail == {"stripe", "base"}
Rails == ChainRail \cup ReceiptRail

NoPrice == 0

----------------------------------------------------------------------------
\* Cents, rounded up.
technology_fee_minor(base, bps) == (base * bps + 9999) \div 10000

\* Units of an asset that sells at price cents, rounded up.
asset_units_for_usd(cents, price) == (cents * AssetUnits + price - 1) \div price

\* What a subtotal comes to on each rail.
rail_amount(rail, subtotal, price) ==
  CASE rail = "stripe" -> subtotal
    [] rail = "base" -> subtotal * TestUnits
    [] OTHER -> asset_units_for_usd(subtotal, price)

----------------------------------------------------------------------------
\* An oracle source's word for a price, at most SourceLife old.
ValidObservation(o) ==
  /\ o.price > 0
  /\ o.observed < o.until /\ o.until <= o.observed + SourceLife

\* The middle one of the sorted prices, of two middle ones the greater.
upper_median(S) ==
  CHOOSE x \in {o.price : o \in S} :
    /\ Cardinality({o \in S : o.price < x}) <= Cardinality(S) \div 2
    /\ Cardinality({o \in S : o.price <= x}) > Cardinality(S) \div 2

build_oracle_round(S) ==
  [price |-> upper_median(S), sources |-> S,
   from |-> Max({o.observed : o \in S}), until |-> Min({o.until : o \in S})]

\* Two sources at least, each heard once, close to one another, and a time at
\* which all of them stand.
ValidRound(r) ==
  /\ Cardinality(r.sources) >= 2
  /\ \A o \in r.sources : ValidObservation(o)
  /\ \A o, q \in r.sources : o.source = q.source => o = q
  /\ r = build_oracle_round(r.sources)
  /\ r.from < r.until
  /\ \A o, q \in r.sources : (o.price - q.price) * 10000 <= r.price * SpreadCap

----------------------------------------------------------------------------
\* The amounts of an artifact, as the builders of each rail fill them in.
Amounts(rail, base, bps, asset, price) ==
  LET fee == technology_fee_minor(base, bps) IN
    [base |-> base, bps |-> bps, fee |-> fee, subtotal |-> base + fee, asset |-> asset,
     price |-> price, amount |-> rail_amount(rail, base + fee, price)]

build_stripe_purchase_artifact(base, bps) == Amounts("stripe", base, bps, "usd", NoPrice)

build_evm_test_usd_purchase_artifact(base, bps, token) == Amounts("base", base, bps, token, NoPrice)

build_xch_purchase_artifact(base, bps, round) == Amounts("xch", base, bps, "xch", round.price)

build_cat_purchase_artifact(base, bps, cat, round) == Amounts("cat", base, bps, cat, round.price)

\* What _build_chia_purchase_artifact asks of the round it prices by.
PricedBy(p, round) == ValidRound(round) /\ p.quote <= round.until

\* Only the chain rails carry an oracle's price.
ValidRail(p) ==
  /\ (p.rail \in ChainRail) <=> artifact[p].price > NoPrice
  /\ artifact[p].amount = rail_amount(p.rail, artifact[p].subtotal, artifact[p].price)

ValidArtifact(p) ==
  /\ p.deed \in Deed /\ p.rail \in Rails /\ p.kind \in {"direct", "presale"}
  /\ artifact[p].base > 0 /\ artifact[p].bps \in 0 .. FeeCap
  /\ artifact[p].fee = technology_fee_minor(artifact[p].base, artifact[p].bps)
  /\ artifact[p].subtotal = artifact[p].base + artifact[p].fee
  /\ artifact[p].amount > 0
  /\ ValidRail(p)

\* The deed's curried terms hold a fee that is the fee of its price.
ValidTerms(d) ==
  /\ terms[d].base > 0 /\ terms[d].bps \in 0 .. FeeCap
  /\ terms[d].fee = technology_fee_minor(terms[d].base, terms[d].bps)
  /\ terms[d].subtotal = terms[d].base + terms[d].fee

\* assert_artifact_matches_terms: the artifact is for this deed at its price.
MatchesTerms(p) ==
  /\ artifact[p].base = terms[p.deed].base
  /\ artifact[p].bps = terms[p.deed].bps
  /\ artifact[p].fee = terms[p.deed].fee
  /\ artifact[p].subtotal = terms[p.deed].subtotal
  /\ terms[p.deed].version = 3 /\ p.rail = "base" => artifact[p].asset = "test"

----------------------------------------------------------------------------
\* PurchaseBatchV1: one buyer, one rail, one asset and price, one expiry, each
\* deed once.  A single purchase is a batch of one.
Batches ==
  {B \in (SUBSET {p \in Purchase : p.kind = "direct"}) \ {{}} :
     /\ Cardinality(B) <= MaxBatch
     /\ \A p, q \in B :
          /\ p.buyer = q.buyer /\ p.rail = q.rail /\ p.quote = q.quote
          /\ artifact[p].asset = artifact[q].asset /\ artifact[p].price = artifact[q].price
          /\ artifact[p].bps = artifact[q].bps
          /\ p.deed = q.deed => p = q}

total_rail_amount(B) == SumFunction([p \in B |-> artifact[p].amount])

----------------------------------------------------------------------------
\* What a provider shows for a payment: the amount, what the buyer was charged
\* on top, which only a credit card may be, and what became of it since.
ValidEvidence(v) ==
  /\ v.amount > 0 /\ v.refunded \in 0 .. v.amount
  /\ v.charge > 0 => v.method = "credit"

Stands(v) == v.status = "succeeded" /\ v.refunded = 0 /\ ~v.disputed

\* PaymentAttestationV1: a payment is pending first, and then ends one way.
ValidAttestation(t) ==
  \/ t.transition = "pending" /\ t.resolution = "none" /\ t.previous = {}
  \/ /\ t.previous # {}
     /\ \/ t.transition = "succeeded" /\ t.resolution = "deliver"
        \/ t.transition = "failed" /\ t.resolution = "refund"
        \/ t.transition = "manual_release" /\ t.resolution \in {"deliver", "refund"}

\* The first attestation of a payment, dated before the quote ends.
Pending(B, v) ==
  [transition |-> "pending", resolution |-> "none", batch |-> B, previous |-> {},
   observed |-> Min({v.observed} \cup {p.quote - 1 : p \in B})]

\* The one that lets it deliver.
Succeeded(B, v) ==
  [transition |-> "succeeded", resolution |-> "deliver", batch |-> B,
   previous |-> {Pending(B, v)}, observed |-> v.observed]

Lasts(v, e) == v.observed < e /\ e <= v.observed + ReceiptLife

\* StripeSettlementReceiptV1: one card or bank payment, in full and not undone.
ValidStripeReceipt(p, v, e) ==
  /\ p.rail = "stripe"
  /\ ValidEvidence(v) /\ Stands(v) /\ Lasts(v, e)
  /\ v.amount = artifact[p].subtotal + v.charge
  /\ ValidAttestation(Succeeded({p}, v))

\* ExternalSettlementReceiptV1 holds no amount to compare.
ValidExternalReceipt(p, v, e) ==
  /\ p.rail \in ReceiptRail
  /\ Lasts(v, e)
  /\ ValidAttestation(Succeeded({p}, v))

\* Slip: the processing charge is taken for part of the price.
BatchReceiptWithCharge(B, v, e) ==
  /\ \A p \in B : p.rail \in ReceiptRail
  /\ Lasts(v, e)
  /\ v.amount = total_rail_amount(B)
  /\ ValidAttestation(Succeeded(B, v))

\* PurchaseBatchSettlementReceiptV1: one payment for the whole batch.
ValidBatchReceipt(B, v, e) ==
  /\ \A p \in B : p.rail \in ReceiptRail
  /\ Lasts(v, e)
  /\ v.amount = total_rail_amount(B) + v.charge
  /\ (\E p \in B : p.rail = "base") => v.charge = 0
  /\ ValidAttestation(Succeeded(B, v))

\* assert_live of a batch, at the time its payment was observed.
LiveWhenObserved(B, v, e) == v.observed < e /\ \A p \in B : v.observed < p.quote

\* The coins of the two receipts: the artifacts they settle and the amount they
\* state, which the validators sign.
SingleReceipt(p, e) == [children |-> {p}, expires |-> e, amount |-> artifact[p].amount]

BatchReceipt(B, v, e) == [children |-> B, expires |-> e, amount |-> v.amount - v.charge]
=============================================================================
