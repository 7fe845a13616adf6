------------------------------ MODULE Presale ------------------------------
(***************************************************************************)
(* The voucher presale in front of the inventory: the series               *)
(* (voucher_presale_series_v2.clsp), the vouchers it sells                 *)
(* (voucher_nft_inner_v2.clsp and _v3), and the payments that wait with    *)
(* them: an XCH escrow (voucher_payment_escrow_v2.clsp), or the receipt of *)
(* a payment made elsewhere (voucher_stripe_receipt_v1.clsp,               *)
(* voucher_external_escrow_receipt_v2.clsp).                               *)
(*                                                                         *)
(* A voucher ends in one bundle that spends the series and that other      *)
(* coins join, each asserting announcements of the others.  A puzzle names *)
(* the coins it asks for; the announcements are taken to be those of the   *)
(* series, the voucher and the payment issued together.                    *)
(***************************************************************************)
EXTENDS PrimaryPurchase

CONSTANTS
  Cap,             \* INVENTORY_CAP
  SaleOpen, SaleClose, RefundDeadline, LaunchDeadline,
  DeliveryWindow,  \* DELIVERY_WINDOW_SECONDS
  AnchorSlack      \* the 600 s within which a launch must be included

\* VoucherSeriesTermsV2 orders the four times so.
ASSUME TermsAssumption ==
  /\ Cap \in Nat \ {0}
  /\ {SaleOpen, SaleClose, RefundDeadline, LaunchDeadline} \subseteq Nat
  /\ SaleOpen < SaleClose /\ SaleClose <= RefundDeadline /\ RefundDeadline <= LaunchDeadline
  /\ DeliveryWindow \in Nat \ {0} /\ AnchorSlack \in Nat \ {0}

VARIABLES
  series,   \* the state curried into the series singleton
  voucher   \* the voucher of each purchase

vars == <<now, inventory, receipts, payment, revenue, unbound, series, voucher>>

Presales == {p \in Purchase : p.kind = "presale"}

Outcomes == {"redeem", "refund_presale", "refund_expired", "refund_canceled"}

Parts == {"voucher", "payment", "deed"}

TypeOK ==
  /\ SaleTypeOK
  /\ series \in [phase : {"presale", "live", "canceled"}, sold : 0 .. Cap,
                 redeemed : 0 .. Cap, refunded : 0 .. Cap, launchedAt : Nat]
  /\ voucher \in [Purchase -> {"none", "held", "redeemed", "refunded"}]

Init ==
  /\ SaleInit
  /\ series = [phase |-> "presale", sold |-> 0, redeemed |-> 0, refunded |-> 0, launchedAt |-> 0]
  /\ voucher = [p \in Purchase |-> "none"]

----------------------------------------------------------------------------
\* VoucherCommitmentV2, for money on a chain: its principal is the artifact's
\* amount.
CommitmentV2(p) ==
  [base |-> artifact[p].base, fee |-> artifact[p].fee, gross |-> artifact[p].subtotal,
   charge |-> 0, principal |-> artifact[p].amount]

\* VoucherCommitmentV3, for a card payment: its principal is what was charged.
build_stripe_voucher_commitment(p, v) ==
  [base |-> artifact[p].base, fee |-> artifact[p].fee, gross |-> artifact[p].subtotal,
   charge |-> v.charge, principal |-> v.amount]

AddsUp(p, c) ==
  /\ c.fee = technology_fee_minor(c.base, artifact[p].bps)
  /\ c.gross = c.base + c.fee

ValidCommitmentV3(p, c) == AddsUp(p, c) /\ c.principal = c.gross + c.charge

\* The quote of the purchase ends while the series sells.
QuotedInSale(p) == SaleOpen < p.quote /\ p.quote <= SaleClose

\* validate_stripe_voucher_purchase: a receipt for this purchase, not from before
\* the sale.  That it is observed before the sale ends is not asked.
StripeVoucher(p, v) ==
  /\ \E e \in Time : ValidStripeReceipt(p, v, e)
  /\ ValidCommitmentV3(p, build_stripe_voucher_commitment(p, v))
  /\ SaleOpen <= v.observed /\ v.observed <= now
  /\ QuotedInSale(p)

\* The buyer's half of an XCH voucher: from one coin the launcher, which holds the
\* principal and the voucher's mojo, and the change.
prepare_xch_voucher_offer(p, coin) ==
  LET launcher == CommitmentV2(p).principal + 1 IN
    [voucher |-> p, launcher |-> launcher, change |-> coin - launcher]

XchVoucherOffers ==
  {o \in {prepare_xch_voucher_offer(p, coin) : p \in Presales, coin \in Coin} : o.change >= 0}

\* It is bound to the issuance of this voucher and pays its escrow.
validate_xch_voucher_offer(o, p) ==
  o.voucher = p /\ o.launcher = CommitmentV2(p).principal + 1

\* What the driver asks before it issues a voucher: of one on the Base rail nothing,
\* whose deposit is seen on the other chain.
Issuable(p) ==
  /\ p.rail = "xch" => \E o \in XchVoucherOffers : validate_xch_voucher_offer(o, p)
  /\ p.rail = "stripe" => \E v \in Evidence : StripeVoucher(p, v)

\* SALE: the launcher's coin splits into the voucher and its payment, and it and
\* the series assert each other's announcement.
Sell(p) ==
  /\ voucher[p] = "none"
  /\ series.phase = "presale" /\ Cap > series.sold
  /\ SaleOpen <= now /\ now < SaleClose
  /\ p \in Driven => Issuable(p)
  /\ series' = [series EXCEPT !.sold = @ + 1]
  /\ voucher' = [voucher EXCEPT ![p] = "held"]
  /\ payment' = [payment EXCEPT ![p] = "held"]
  /\ UNCHANGED <<now, inventory, receipts, revenue, unbound>>

\* LAUNCH: two validators choose the anchor the delivery window runs from.
Launch(anchor) ==
  /\ series.phase = "presale"
  /\ SaleClose <= anchor /\ anchor <= LaunchDeadline
  /\ anchor <= now /\ now < anchor + AnchorSlack
  /\ series' = [series EXCEPT !.phase = "live", !.launchedAt = anchor]
  /\ UNCHANGED <<saleVars, voucher>>

\* CANCEL has no time condition.
Cancel ==
  /\ series.phase = "presale"
  /\ series' = [series EXCEPT !.phase = "canceled"]
  /\ UNCHANGED <<saleVars, voucher>>

----------------------------------------------------------------------------
DeliveryDeadline == series.launchedAt + DeliveryWindow

\* Slip: the refund at the delivery timeout is written as one more presale refund.
SeriesAllowsNoExpired(outcome) ==
  /\ series.sold > series.refunded + series.redeemed
  /\ \/ outcome = "redeem" /\ series.phase = "live" /\ now < DeliveryDeadline
     \/ outcome = "refund_presale" /\ series.phase \in {"presale", "live"} /\ now < RefundDeadline
     \/ outcome = "refund_canceled" /\ series.phase = "canceled"

\* REDEEM and REFUND, what the series itself asks for.
SeriesAllows(outcome) ==
  /\ series.sold > series.refunded + series.redeemed
  /\ \/ outcome = "redeem" /\ series.phase = "live" /\ now < DeliveryDeadline
     \/ outcome = "refund_presale" /\ series.phase = "presale" /\ now < RefundDeadline
     \/ outcome = "refund_expired" /\ series.phase = "live" /\ now >= DeliveryDeadline
     \/ outcome = "refund_canceled" /\ series.phase = "canceled"

\* Voucher and payment assert besides that a delivery deadline in their
\* solution is later than the refund deadline they are curried with.
DeadlineAccepted(outcome) ==
  outcome \in {"redeem", "refund_expired"} => DeliveryDeadline > RefundDeadline

\* Slip: the escrow is redeemed on the voucher's announcement, without the
\* deed's delivery.
BundleWithoutDelivery(p, outcome, parts) ==
  /\ parts \subseteq Parts
  /\ "payment" \in parts => "voucher" \in parts

\* The coins that may join the series: the voucher asks for the series only, the
\* payment for the series and the voucher, and the escrow, to be redeemed, for
\* the deed.  The deed asks for announcements of any coins.
Bundle(p, outcome, parts) ==
  /\ parts \subseteq Parts
  /\ "payment" \in parts => "voucher" \in parts
  /\ p.rail = "xch" /\ outcome = "redeem" /\ "payment" \in parts => "deed" \in parts

\* Slip: the driver leaves the payment out of a refund.
WholeWithoutPayment(outcome) ==
  IF outcome = "redeem" THEN Parts ELSE {"voucher"}

\* What build_*_voucher_terminal_spends and the voucher offers put together.
Whole(outcome) == IF outcome = "redeem" THEN Parts ELSE {"voucher", "payment"}

\* Slip: a redemption counts as a refund.
CountedAsRefund(outcome) == [series EXCEPT !.refunded = @ + 1]

Counted(outcome) ==
  IF outcome = "redeem" THEN [series EXCEPT !.redeemed = @ + 1]
  ELSE [series EXCEPT !.refunded = @ + 1]

Ended(outcome) == IF outcome = "redeem" THEN "redeemed" ELSE "refunded"

Settled(outcome) == IF outcome = "redeem" THEN "taken" ELSE "returned"

\* validate_base_voucher_purchase, which the driver asks for whenever it ends a
\* voucher, not when it issues one.
BaseVoucher(p) ==
  /\ artifact[p].asset = "test" /\ AddsUp(p, CommitmentV2(p))
  /\ QuotedInSale(p)

\* build_base_voucher_terminal_spends
Endable(p) == p.rail = "base" => BaseVoucher(p)

\* Slip: the deed's half is built for whatever artifact it is reserved for.
VoucherChildOfAny(p) == ModeAllows(p, "voucher") /\ AnyReservation(p)

\* The deed's half in exchange for a voucher: this artifact holds the deed.
VoucherChild(p) == ModeAllows(p, "voucher") /\ Holds(p)

\* The offer a redeemed voucher makes: its receipt's mojo for the one deed.
prepare_stripe_voucher_redemption_offer(p) ==
  [requests |-> Requested({p}), mojos |-> 1]

prepare_base_voucher_redemption_offer_v5(p) ==
  [requests |-> Requested({p}), mojos |-> 1]

\* The deed's half joins the offer that asks for this deed and no other.
build_stripe_voucher_primary_offer_v5(p) ==
  /\ VoucherChild(p)
  /\ \E q \in Presales : AsksForAll(prepare_stripe_voucher_redemption_offer(q), {p})

build_base_voucher_primary_offer_v5(p) ==
  /\ VoucherChild(p) /\ artifact[p].asset = "test"
  /\ \E q \in Presales : AsksForAll(prepare_base_voucher_redemption_offer_v5(q), {p})

DeedJoins(p) ==
  CASE p.rail = "stripe" -> build_stripe_voucher_primary_offer_v5(p)
    [] p.rail = "base" -> build_base_voucher_primary_offer_v5(p)
    [] OTHER -> VoucherChild(p)

\* The deed goes for the voucher and its payment.
InExchange(outcome, parts) == outcome = "redeem" /\ parts = Parts

\* On a chain rail the deed asks for its price, whoever pays it; on the others
\* the sellers have the money that the receipt is for.
PaysSeller(p, outcome, parts) ==
  IF p.rail \in ChainRail THEN "deed" \in parts
  ELSE outcome = "redeem" /\ "payment" \in parts

\* One bundle: the series counts an outcome for p and the parts join.
EndVoucher(p, outcome, parts) ==
  /\ SeriesAllows(outcome)
  /\ Bundle(p, outcome, parts)
  /\ p \in Driven => parts = Whole(outcome) /\ Endable(p)
  /\ parts # {} => voucher[p] = "held" /\ DeadlineAccepted(outcome)
  /\ "payment" \in parts => payment[p] = "held"
  /\ "deed" \in parts => DeedJoins(p)
  /\ series' = Counted(outcome)
  /\ voucher' = IF "voucher" \in parts THEN [voucher EXCEPT ![p] = Ended(outcome)] ELSE voucher
  /\ payment' = IF "payment" \in parts THEN [payment EXCEPT ![p] = Settled(outcome)] ELSE payment
  /\ inventory' = IF "deed" \in parts THEN Delivering({p}) ELSE inventory
  /\ unbound' = IF "deed" \in parts /\ ~InExchange(outcome, parts) THEN unbound \cup {p}
                ELSE unbound
  /\ revenue' = IF PaysSeller(p, outcome, parts) THEN Paid({p}, artifact[p].amount) ELSE revenue
  /\ UNCHANGED <<now, receipts>>

\* The outcomes the series allows now.
Allowed == {outcome \in Outcomes : SeriesAllows(outcome)}

NextBlock == SaleNextBlock /\ UNCHANGED <<series, voucher>>

Next ==
  \/ SaleNext /\ UNCHANGED <<series, voucher>>
  \/ \E p \in Presales : Sell(p)
  \/ \E anchor \in Time : Launch(anchor)
  \/ Cancel
  \/ \E outcome \in Allowed, p \in Presales, parts \in SUBSET Parts :
       EndVoucher(p, outcome, parts)
  \/ NextBlock

Spec == Init /\ [][Next]_vars

\* Blocks keep coming, and the refund of a voucher whose delivery window has
\* passed, which needs no buyer, is not put off for ever.
Fairness ==
  /\ WF_now(Tick)
  /\ \A p \in Driven \cap Presales : WF_vars(EndVoucher(p, "refund_expired", Whole("refund_expired")))

FairSpec == Spec /\ Fairness

----------------------------------------------------------------------------
\* A deed in a buyer's vault is there for a purchase of that deed, which has been
\* paid for, and given its voucher if it was sold by voucher: in every bundle but
\* those in which the delegate takes the announcements of other coins.
DeliveredIsPaid ==
  \A d \in Deed : inventory[d].at = "vault" =>
    LET p == inventory[d].purchase IN
      /\ p.deed = d
      /\ p \notin unbound =>
           payment[p] = "taken" /\ (p.kind = "presale" => voucher[p] = "redeemed")

\* Voucher and payment end together and alike in the driver's bundles.
OutcomesAgree ==
  \A p \in Driven \cap Presales :
    <<voucher[p], payment[p]>> \in {<<"none", "none">>, <<"held", "held">>,
                                    <<"redeemed", "taken">>, <<"refunded", "returned">>}

VouchersAt(s) == {p \in Purchase : voucher[p] = s}

\* The series counts every voucher sold and at least every one that ended, so
\* that it never lets more vouchers end than it sold.
SeriesAccounts ==
  /\ series.sold = Cardinality({p \in Purchase : voucher[p] # "none"})
  /\ Cardinality(VouchersAt("redeemed")) <= series.redeemed
  /\ Cardinality(VouchersAt("refunded")) <= series.refunded
  /\ series.redeemed + series.refunded <= series.sold

\* The trades whose payment and deed settle together: the driver's, and those
\* where the puzzles alone see to it.
Trades == {p \in Purchase : p \in Driven \/ p.rail \in ChainRail}

\* What the governed price of the deed comes to on the purchase's rail.
Due(p) == rail_amount(p.rail, terms[p.deed].subtotal, artifact[p].price)

\* What the sellers were paid for: the payments taken, and on a chain rail also
\* the price of a deed that left without them.
SoldFor(p) == payment[p] = "taken" \/ (p.rail \in ChainRail /\ p \in unbound)

\* The sellers were paid for each such purchase once, and in full at the price its
\* deed was minted with, through whichever rail, batch or voucher, and with
\* whosever money the deed was delivered.
RevenueExact ==
  \A rail \in Rails :
    (\A p \in Purchase : p.rail = rail => p \in Trades) =>
      revenue[rail] =
        SumFunction([p \in {q \in Purchase : q.rail = rail /\ SoldFor(q)} |-> Due(p)])

ItemOf == [p \in Trades |-> p.deed]

\* The purchase's own bundle delivered the deed.
DeliveredTo(p) == inventory[p.deed] = InVault(p) /\ p \notin unbound

StageOf(p) ==
  IF payment[p] = "taken" THEN (IF DeliveredTo(p) THEN "delivered" ELSE "taken only")
  ELSE IF DeliveredTo(p) THEN "delivered only"
  ELSE IF payment[p] = "held" THEN "paid"
  ELSE IF payment[p] = "returned" THEN "refunded" ELSE "open"

E == INSTANCE Exchange
       WITH Trade <- Trades, Item <- ItemOf, stage <- [p \in Trades |-> StageOf(p)]

\* Whatever is reserved, timed out, re-reserved, batched or refunded in between,
\* each of these purchases is an exchange.  One whose deed left unbound never
\* takes its payment: it stays open or is refunded.
ImplementsExchange == E!Spec

\* The header of voucher_nft_inner_v3.clsp: redemption and the refund at the
\* delivery timeout remain automatic.  After a launch whose delivery window ends
\* past the refund deadline, each voucher of the driver's ends, unless other
\* spends of the series used up its counters.
LiveSettles ==
  \A p \in Driven \cap Presales :
    series.phase = "live" /\ DeliveryDeadline > RefundDeadline /\ voucher[p] = "held"
      ~> voucher[p] # "held" \/ series.sold = series.redeemed + series.refunded
=============================================================================
