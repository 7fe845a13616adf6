------------------------------ MODULE MCPresale ------------------------------
(***************************************************************************)
(* A small instance of Presale.  On the first deed a voucher paid in XCH   *)
(* into escrow, one paid by card and a direct sale; on the second a direct *)
(* sale of the same buyer, one on the XCH rail, and an artifact with a     *)
(* price the deed no longer has.                                           *)
(***************************************************************************)
EXTENDS Presale

CONSTANTS d1, d2

Escrowed == [deed |-> d1, buyer |-> "ann", rail |-> "xch", kind |-> "presale", quote |-> 1]
OnCard == [deed |-> d1, buyer |-> "bob", rail |-> "stripe", kind |-> "presale", quote |-> 1]
First == [deed |-> d1, buyer |-> "eve", rail |-> "stripe", kind |-> "direct", quote |-> 2]
Second == [deed |-> d2, buyer |-> "eve", rail |-> "stripe", kind |-> "direct", quote |-> 2]
Native == [deed |-> d2, buyer |-> "ann", rail |-> "xch", kind |-> "direct", quote |-> 1]
Outdated == [deed |-> d2, buyer |-> "joe", rail |-> "xch", kind |-> "direct", quote |-> 2]

AllPurchases == {Escrowed, OnCard, First, Second, Native, Outdated}
DriverPurchases == {OnCard, First, Second}

Price(base, bps, version) ==
  LET fee == technology_fee_minor(base, bps) IN
    [base |-> base, bps |-> bps, fee |-> fee, subtotal |-> base + fee, version |-> version]

Prices == [d \in {d1, d2} |-> IF d = d1 THEN Price(100, 100, 3) ELSE Price(250, 100, 2)]

Round ==
  build_oracle_round({[source |-> "a", price |-> 40, observed |-> 0, until |-> 2],
                      [source |-> "b", price |-> 41, observed |-> 0, until |-> 2]})

ASSUME \A p \in AllPurchases : p.rail \in ChainRail => PricedBy(p, Round)

AllAmounts ==
  [p \in AllPurchases |->
     CASE p = Escrowed -> build_xch_purchase_artifact(100, 100, Round)
       [] p = OnCard -> build_stripe_purchase_artifact(100, 100)
       [] p = First -> build_stripe_purchase_artifact(100, 100)
       [] p = Second -> build_stripe_purchase_artifact(250, 100)
       [] p = Native -> build_xch_purchase_artifact(250, 100, Round)
       [] p = Outdated -> build_xch_purchase_artifact(200, 100, Round)]

\* Reports on payments for the first deed, the second and both: with and without
\* a surcharge, short of it, refunded, disputed.
Report(amount, charge, method, status, refunded, disputed) ==
  {[amount |-> amount, charge |-> charge, method |-> method, status |-> status,
    refunded |-> refunded, disputed |-> disputed, observed |-> t] : t \in 0 .. 2}

Reports ==
  UNION {Report(101, 0, "bank", "succeeded", 0, FALSE),
         Report(256, 3, "credit", "succeeded", 0, FALSE),
         Report(358, 4, "credit", "succeeded", 0, FALSE),
         Report(354, 4, "credit", "succeeded", 0, FALSE),
         Report(101, 0, "debit", "processing", 0, FALSE),
         Report(101, 0, "debit", "succeeded", 101, FALSE),
         Report(253, 0, "debit", "succeeded", 0, TRUE)}
=============================================================================
