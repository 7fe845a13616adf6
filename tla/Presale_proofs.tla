--------------------------- MODULE Presale_proofs ---------------------------
(***************************************************************************)
(* Proofs about Presale for every set of deeds and purchases, every order  *)
(* of the terms and every length of the clock.                             *)
(***************************************************************************)
EXTENDS Presale, FiniteSetTheorems, WellFoundedInduction, TLAPS

\* What the three forms of a deed's state say of its parts.
LEMMA DeedForms ==
  ASSUME SaleTypeOK, NEW d \in Deed
  PROVE  /\ inventory[d].at \in {"available", "reserved", "vault"}
         /\ inventory[d].at = "available" => inventory[d] = Available
         /\ inventory[d].at # "available" => inventory[d].purchase \in Purchase
         /\ inventory[d].at = "reserved" =>
              /\ inventory[d].expires \in Time
              /\ inventory[d] = Reserved(inventory[d].purchase, inventory[d].expires)
         /\ inventory[d].at = "vault" => inventory[d] = InVault(inventory[d].purchase)
<1>1. inventory[d] \in DeedState
  BY DEF SaleTypeOK
<1>2. CASE inventory[d] = Available
  BY <1>2 DEF Available
<1>3. CASE \E p \in Purchase, e \in Time : inventory[d] = Reserved(p, e)
  BY <1>3 DEF Reserved
<1>4. CASE \E p \in Purchase : inventory[d] = InVault(p)
  BY <1>4 DEF InVault
<1>5. QED BY <1>1, <1>2, <1>3, <1>4 DEF DeedState

LEMMA DeedOf == \A p \in Purchase : p.deed \in Deed /\ p.kind \in {"direct", "presale"}
BY PurchaseAssumption

LEMMA FormsAllowed ==
  /\ Available \in DeedState
  /\ \A p \in Purchase : InVault(p) \in DeedState
  /\ \A p \in Purchase, e \in Time : Reserved(p, e) \in DeedState
BY DEF DeedState

LEMMA BatchMembers ==
  ASSUME NEW B \in Batches
  PROVE  /\ B \subseteq Purchase
         /\ \A p \in B : p.kind = "direct"
         /\ \A p, q \in B : p.deed = q.deed => p = q
<1>1. B \subseteq {p \in Purchase : p.kind = "direct"}
  BY DEF Batches
<1>2. \A p, q \in B : p.deed = q.deed => p = q
  BY DEF Batches
<1>3. QED BY <1>1, <1>2

\* Whatever its rail, a voucher's deed joins for the purchase that holds it.
LEMMA JoinsHolding == ASSUME NEW p, DeedJoins(p) PROVE Holds(p)
BY DEF DeedJoins, VoucherChild, build_stripe_voucher_primary_offer_v5,
       build_base_voucher_primary_offer_v5

\* Deeds that their own purchases hold are delivered to those purchases.
LEMMA DeliveringType ==
  ASSUME SaleTypeOK, NEW B \in SUBSET Purchase, \A p \in B : Holds(p)
  PROVE  /\ Delivering(B) \in [Deed -> DeedState]
         /\ \A p \in B : Delivering(B)[p.deed] = InVault(p)
         /\ \A d \in Deed : d \notin {p.deed : p \in B} => Delivering(B)[d] = inventory[d]
<1>1. ASSUME NEW p \in B
      PROVE  /\ p.deed \in Deed /\ inventory[p.deed].purchase = p
             /\ InVault(inventory[p.deed].purchase) \in DeedState
  BY DeedOf, FormsAllowed DEF Holds
<1>2. \A d \in Deed : inventory[d] \in DeedState
  BY DEF SaleTypeOK
<1>3. QED BY <1>1, <1>2 DEF Delivering

LEMMA PayingType ==
  ASSUME SaleTypeOK, NEW B
  PROVE  Paying(B) \in [Purchase -> {"none", "held", "taken", "returned"}]
BY DEF Paying, SaleTypeOK

\* A receipt is for a batch of receipt-rail purchases.
LEMMA FundableType ==
  ASSUME NEW f \in Fundable
  PROVE  /\ f.receipt.children \in Batches
         /\ \A p \in f.receipt.children : p.rail \in ReceiptRail
         /\ f.receipt \in Receipt
<1>1. PICK B \in Batches, v \in Evidence, e \in Time : f.receipt \in ReceiptsOn(B, v, e)
  BY DEF Fundable
<1> DEFINE r == f.receipt
<1>2. B \subseteq Purchase
  BY BatchMembers
<1>3. ASSUME NEW p \in B, B = {p}, ValidStripeReceipt(p, v, e) \/ ValidExternalReceipt(p, v, e),
             r = SingleReceipt(p, e)
      PROVE  /\ f.receipt.children \in Batches
             /\ \A q \in f.receipt.children : q.rail \in ReceiptRail
             /\ f.receipt \in Receipt
  <2>1. p.rail \in ReceiptRail
    BY <1>3 DEF ValidStripeReceipt, ValidExternalReceipt, ReceiptRail
  <2>2. artifact[p].amount \in Int
    BY <1>2, AmountAssumption
  <2>3. r.children = B /\ r \in Receipt
    BY <1>2, <1>3, <2>2 DEF SingleReceipt, Receipt
  <2>4. QED BY <1>1, <1>3, <2>1, <2>3
<1>4. CASE r = BatchReceipt(B, v, e) /\ ValidBatchReceipt(B, v, e)
  <2>1. v.amount - v.charge \in Int
    BY AmountAssumption
  <2>2. r.children = B /\ r \in Receipt
    BY <1>2, <1>4, <2>1 DEF BatchReceipt, Receipt
  <2>3. \A p \in B : p.rail \in ReceiptRail
    BY <1>4 DEF ValidBatchReceipt
  <2>4. QED BY <1>1, <2>2, <2>3
<1>5. QED BY <1>1, <1>3, <1>4 DEF ReceiptsOn

LEMMA TypeSale == ASSUME SaleTypeOK, SaleNext PROVE SaleTypeOK'
<1>1. ASSUME NEW p \in Purchase, NEW e \in Time, Reserve(p, e) PROVE SaleTypeOK'
  BY <1>1, FormsAllowed DEF Reserve, SaleTypeOK
<1>2. ASSUME NEW d \in Deed, NEW e \in Time, Extend(d, e) PROVE SaleTypeOK'
  <2>1. /\ inventory[d] = Reserved(inventory[d].purchase, inventory[d].expires)
        /\ inventory[d].purchase \in Purchase
    BY <1>2, DeedForms DEF Extend, Extendable
  <2>2. [inventory[d] EXCEPT !.expires = e] = Reserved(inventory[d].purchase, e)
    BY <2>1 DEF Reserved
  <2>3. inventory' = [inventory EXCEPT ![d] = Reserved(inventory[d].purchase, e)]
    BY <1>2, <2>2 DEF Extend
  <2>4. QED BY <1>2, <2>1, <2>3, FormsAllowed DEF Extend, SaleTypeOK
<1>3. ASSUME NEW d \in Deed, Release(d) PROVE SaleTypeOK'
  BY <1>3, FormsAllowed DEF Release, SaleTypeOK
<1>4. ASSUME NEW B \in Batches, DeliverNative(B) PROVE SaleTypeOK'
  BY <1>4, BatchMembers, DeliveringType, PayingType DEF DeliverNative, NativeChild, Paid, SaleTypeOK
<1>8. ASSUME NEW p \in Purchase, DeliverUnbound(p) PROVE SaleTypeOK'
  <2> DEFINE B == {p}
  <2>1. B \in SUBSET Purchase /\ (\A q \in B : Holds(q)) /\ inventory' = Delivering(B)
    BY <1>8 DEF DeliverUnbound
  <2> HIDE DEF B
  <2>2. inventory' \in [Deed -> DeedState]
    BY <2>1, DeliveringType
  <2>3. QED BY <1>8, <2>2 DEF DeliverUnbound, Paid, SaleTypeOK
<1>5. ASSUME NEW f \in Fundable, FundReceipt(f) PROVE SaleTypeOK'
  BY <1>5, FundableType DEF FundReceipt, SaleTypeOK
<1>6. ASSUME NEW r \in receipts, NEW B \in SUBSET r.children, SettleReceipt(r, B)
      PROVE  SaleTypeOK'
  <2>1. B \in SUBSET Purchase
    BY DEF SaleTypeOK, Receipt
  <2>2. \A p \in B : Holds(p)
    BY <1>6 DEF SettleReceipt, SingleChild, BatchChild
  <2>3. QED BY <1>6, <2>1, <2>2, DeliveringType, PayingType DEF SettleReceipt, Paid, SaleTypeOK
<1>7. QED
  BY <1>1, <1>2, <1>3, <1>4, <1>5, <1>6, <1>8 DEF SaleNext, TimeOut, ReleaseFailure

LEMMA AllowedOutcomes == Allowed \subseteq Outcomes
BY DEF Allowed

LEMMA TypeEnd ==
  ASSUME TypeOK, NEW p \in Presales, NEW outcome \in Outcomes, NEW parts \in SUBSET Parts,
         EndVoucher(p, outcome, parts)
  PROVE  TypeOK'
<1>1. p \in Purchase
  BY DEF Presales
<1>2. series' \in [phase : {"presale", "live", "canceled"}, sold : 0 .. Cap,
                   redeemed : 0 .. Cap, refunded : 0 .. Cap, launchedAt : Nat]
  BY TermsAssumption DEF EndVoucher, SeriesAllows, Counted, TypeOK
<1>3. voucher' \in [Purchase -> {"none", "held", "redeemed", "refunded"}]
  BY <1>1 DEF EndVoucher, Ended, TypeOK
<1>4. payment' \in [Purchase -> {"none", "held", "taken", "returned"}]
  BY <1>1 DEF EndVoucher, Settled, TypeOK, SaleTypeOK
<1>5. inventory' \in [Deed -> DeedState]
  BY <1>1, DeliveringType, JoinsHolding DEF EndVoucher, TypeOK, SaleTypeOK
<1>6. DOMAIN revenue' = Rails /\ unbound' \subseteq Purchase
  BY <1>1 DEF EndVoucher, Paid, TypeOK, SaleTypeOK
<1>7. QED BY <1>2, <1>3, <1>4, <1>5, <1>6 DEF EndVoucher, TypeOK, SaleTypeOK

\* No series count passes the cap, and every deed, payment and voucher has one of
\* its states, however sales, launches, refunds and deliveries are interleaved.
THEOREM TypeCorrect == Spec => []TypeOK
<1>1. Init => TypeOK
  BY LimitAssumption, TermsAssumption, FormsAllowed
     DEF Init, SaleInit, TypeOK, SaleTypeOK, Time
<1>2. TypeOK /\ [Next]_vars => TypeOK'
  <2> SUFFICES ASSUME TypeOK, [Next]_vars PROVE TypeOK'
    OBVIOUS
  <2>1. CASE SaleNext /\ UNCHANGED <<series, voucher>>
    BY <2>1, TypeSale DEF TypeOK
  <2>2. ASSUME NEW p \in Presales, Sell(p) PROVE TypeOK'
    BY <2>2, TermsAssumption DEF Sell, TypeOK, SaleTypeOK, Presales
  <2>3. ASSUME NEW anchor \in Time, Launch(anchor) PROVE TypeOK'
    <3>1. anchor \in Nat
      BY LimitAssumption DEF Time
    <3>2. series' \in [phase : {"presale", "live", "canceled"}, sold : 0 .. Cap,
                       redeemed : 0 .. Cap, refunded : 0 .. Cap, launchedAt : Nat]
      BY <2>3, <3>1 DEF Launch, TypeOK
    <3>3. QED BY <2>3, <3>2 DEF Launch, TypeOK, SaleTypeOK, saleVars
  <2>4. CASE Cancel
    BY <2>4 DEF Cancel, TypeOK, SaleTypeOK, saleVars
  <2>5. CASE NextBlock
    BY <2>5, LimitAssumption DEF NextBlock, SaleNextBlock, Tick, TypeOK, SaleTypeOK, Time
  <2>6. CASE UNCHANGED vars
    BY <2>6 DEF vars, TypeOK, SaleTypeOK
  <2>7. QED BY <2>1, <2>2, <2>3, <2>4, <2>5, <2>6, TypeEnd, AllowedOutcomes DEF Next
<1>3. QED BY <1>1, <1>2, PTL DEF Spec

----------------------------------------------------------------------------
\* A reservation and a delivery are about the purchase's own deed.
ForItsDeed ==
  \A d \in Deed : inventory[d].at # "available" => inventory[d].purchase.deed = d

\* In the trades that settle as one, no payment is taken without the deed.
TakenIsDelivered == \A p \in Trades : payment[p] = "taken" => DeliveredTo(p)

\* Only a voucher's payment is held, and it waits with its voucher.
HeldWithVoucher ==
  \A p \in Purchase :
    /\ p.kind = "direct" => payment[p] \in {"none", "taken"}
    /\ p.kind = "presale" /\ voucher[p] = "none" => payment[p] = "none"

ReceiptsAreBatches ==
  \A r \in receipts : r.children \in Batches /\ \A p \in r.children : p.rail \in ReceiptRail

\* A deed that left unbound is where it went, and is held by no purchase any more.
UnboundLeft == \A p \in unbound : inventory[p.deed] = InVault(p)

\* The inductive invariant.
IInv == ForItsDeed /\ UnboundLeft /\ DeliveredIsPaid /\ TakenIsDelivered /\ HeldWithVoucher
          /\ OutcomesAgree /\ ReceiptsAreBatches

LEMMA TradesArePurchases == Trades \subseteq Purchase /\ Presales \subseteq Purchase
BY DEF Trades, Presales

LEMMA InvInit == Init => IInv
<1> SUFFICES ASSUME Init PROVE IInv
  OBVIOUS
<1>1. \A d \in Deed : inventory[d].at = "available"
  BY DEF Init, SaleInit, Available
<1>2. \A p \in Purchase : payment[p] = "none" /\ voucher[p] = "none"
  BY DEF Init, SaleInit
<1>3. receipts = {} /\ unbound = {}
  BY DEF Init, SaleInit
<1>4. QED
  BY <1>1, <1>2, <1>3, TradesArePurchases
     DEF IInv, ForItsDeed, UnboundLeft, DeliveredIsPaid, TakenIsDelivered, HeldWithVoucher,
         OutcomesAgree, ReceiptsAreBatches, Presales

\* A deed that is not in a vault is reserved, kept reserved or released.
LEMMA InvMove ==
  ASSUME TypeOK, IInv, NEW d \in Deed, NEW x,
         inventory[d].at # "vault", x.at # "vault",
         x.at # "available" => x.purchase.deed = d,
         inventory' = [inventory EXCEPT ![d] = x],
         UNCHANGED <<receipts, payment, voucher, unbound>>
  PROVE  IInv' /\ \A p \in Purchase : DeliveredTo(p)' <=> DeliveredTo(p)
<1>1. inventory'[d] = x /\ \A c \in Deed \ {d} : inventory'[c] = inventory[c]
  BY DEF TypeOK, SaleTypeOK
<1>2. \A p \in Purchase : DeliveredTo(p)' <=> DeliveredTo(p)
  BY <1>1, DeedOf DEF DeliveredTo, InVault
<1>3. ForItsDeed'
  BY <1>1 DEF IInv, ForItsDeed
<1>4. DeliveredIsPaid'
  BY <1>1 DEF IInv, DeliveredIsPaid
<1>5. TakenIsDelivered'
  BY <1>2, TradesArePurchases DEF IInv, TakenIsDelivered
<1>7. UnboundLeft'
  <2> SUFFICES ASSUME NEW p \in unbound PROVE inventory'[p.deed] = InVault(p)
    BY DEF UnboundLeft
  <2>1. inventory[p.deed] = InVault(p) /\ p.deed \in Deed /\ InVault(p).at = "vault"
    BY DeedOf DEF IInv, UnboundLeft, InVault, TypeOK, SaleTypeOK
  <2>2. QED BY <1>1, <2>1
<1>6. QED
  BY <1>2, <1>3, <1>4, <1>5, <1>7 DEF IInv, HeldWithVoucher, OutcomesAgree, ReceiptsAreBatches

\* What a delivery changes: the deeds of B go to their purchases and no deed
\* leaves its vault.
LEMMA Deliveries ==
  ASSUME TypeOK, IInv, NEW B \in SUBSET Purchase, \A p \in B : Holds(p),
         inventory' = Delivering(B), UNCHANGED unbound
  PROVE  /\ \A p \in B : ~DeliveredTo(p) /\ DeliveredTo(p)'
         /\ \A p \in Purchase \ B : DeliveredTo(p)' <=> DeliveredTo(p)
         /\ ForItsDeed' /\ UnboundLeft'
         /\ \A d \in Deed : inventory'[d].at = "vault" =>
              \/ inventory[d] = inventory'[d]
              \/ \E p \in B : p.deed = d /\ p \notin unbound /\ inventory'[d] = InVault(p)
<1>1. /\ \A p \in B : inventory'[p.deed] = InVault(p)
      /\ \A d \in Deed : d \notin {p.deed : p \in B} => inventory'[d] = inventory[d]
  BY DeliveringType DEF TypeOK
<1>2. ASSUME NEW p \in B
      PROVE  inventory[p.deed].at = "reserved" /\ p.deed \in Deed /\ p \notin unbound
  <2>1. inventory[p.deed].at = "reserved" /\ p.deed \in Deed /\ InVault(p).at = "vault"
    BY DeedOf DEF Holds, InVault
  <2>2. p \in unbound => inventory[p.deed] = InVault(p)
    BY DEF IInv, UnboundLeft
  <2>3. QED BY <2>1, <2>2
<1>3. ASSUME NEW p \in B
      PROVE  ~DeliveredTo(p) /\ DeliveredTo(p)'
  <2>1. inventory[p.deed].at = "reserved" /\ inventory'[p.deed] = InVault(p) /\ p \notin unbound
    BY <1>1, <1>2
  <2>2. InVault(p).at = "vault"
    BY DEF InVault
  <2>3. QED BY <2>1, <2>2 DEF DeliveredTo
<1>4. ASSUME NEW p \in Purchase \ B
      PROVE  DeliveredTo(p)' <=> DeliveredTo(p)
  <2>1. CASE p.deed \in {q.deed : q \in B}
    <3>1. PICK q \in B : q.deed = p.deed
      BY <2>1
    <3>2. inventory'[p.deed] = InVault(q) /\ inventory[p.deed].at = "reserved"
      BY <1>1, <1>2, <3>1
    <3>3. QED BY <3>2 DEF DeliveredTo, InVault
  <2>2. CASE p.deed \notin {q.deed : q \in B}
    BY <1>1, <2>2, DeedOf DEF DeliveredTo
  <2>3. QED BY <2>1, <2>2
<1>5. ASSUME NEW d \in Deed
      PROVE  \/ inventory[d] = inventory'[d]
             \/ \E p \in B : p.deed = d /\ p \notin unbound /\ inventory'[d] = InVault(p)
  BY <1>1, <1>2
<1>8. UnboundLeft'
  <2> SUFFICES ASSUME NEW p \in unbound PROVE inventory'[p.deed] = InVault(p)
    BY DEF UnboundLeft
  <2>1. inventory[p.deed] = InVault(p) /\ p.deed \in Deed
    BY DeedOf DEF IInv, UnboundLeft, TypeOK, SaleTypeOK
  <2>2. p.deed \notin {q.deed : q \in B}
    BY <1>2, <2>1 DEF InVault
  <2>3. QED BY <1>1, <2>1, <2>2
<1>6. ForItsDeed'
  <2> SUFFICES ASSUME NEW d \in Deed, inventory'[d].at # "available"
               PROVE  inventory'[d].purchase.deed = d
    BY DEF ForItsDeed
  <2>1. CASE \E p \in B : p.deed = d /\ inventory'[d] = InVault(p)
    BY <2>1 DEF InVault
  <2>2. QED BY <1>5, <2>1 DEF IInv, ForItsDeed
<1>7. QED BY <1>3, <1>4, <1>5, <1>6, <1>8

\* The purchase p, whose deed leaves in its exchange, or unbound: then no
\* purchase's own bundle has delivered.
LEMMA DeliversOne ==
  ASSUME TypeOK, IInv, NEW p \in Purchase, Holds(p), inventory' = Delivering({p}),
         unbound' = unbound \cup {p}
  PROVE  /\ \A q \in Purchase : DeliveredTo(q)' <=> DeliveredTo(q)
         /\ ForItsDeed' /\ UnboundLeft'
         /\ \A d \in Deed : inventory'[d].at = "vault" =>
              \/ inventory[d] = inventory'[d]
              \/ p.deed = d /\ inventory'[d] = InVault(p)
<1> DEFINE B == {p}
<1>1. B \in SUBSET Purchase /\ (\A q \in B : Holds(q)) /\ inventory' = Delivering(B)
  OBVIOUS
<1> HIDE DEF B
<1>2. /\ \A q \in B : inventory'[q.deed] = InVault(q)
      /\ \A d \in Deed : d \notin {q.deed : q \in B} => inventory'[d] = inventory[d]
  <2>1. SaleTypeOK
    BY DEF TypeOK
  <2>2. /\ \A q \in B : Delivering(B)[q.deed] = InVault(q)
        /\ \A d \in Deed : d \notin {q.deed : q \in B} => Delivering(B)[d] = inventory[d]
    BY <1>1, <2>1, DeliveringType
  <2>3. QED BY <1>1, <2>2
<1>9. p \in B /\ \A q \in B : q = p
  BY DEF B
<1>3. /\ inventory'[p.deed] = InVault(p) /\ p.deed \in Deed
      /\ \A d \in Deed \ {p.deed} : inventory'[d] = inventory[d]
  <2>1. \A d \in Deed \ {p.deed} : d \notin {q.deed : q \in B}
    BY <1>9
  <2>2. QED BY <1>2, <1>9, <2>1, DeedOf
<1>4. inventory[p.deed].at = "reserved" /\ InVault(p).at = "vault" /\ InVault(p).purchase = p
  BY DEF Holds, InVault
<1>5. ASSUME NEW q \in Purchase PROVE DeliveredTo(q)' <=> DeliveredTo(q)
  <2>1. CASE q = p
    BY <1>4, <2>1 DEF DeliveredTo, InVault
  <2>2. CASE q # p /\ q.deed = p.deed
    BY <1>3, <1>4, <2>2 DEF DeliveredTo, InVault
  <2>3. CASE q.deed # p.deed
    BY <1>3, <2>3, DeedOf DEF DeliveredTo
  <2>4. QED BY <2>1, <2>2, <2>3
<1>6. ForItsDeed'
  BY <1>3, <1>4 DEF IInv, ForItsDeed
<1>7. UnboundLeft'
  <2> SUFFICES ASSUME NEW q \in unbound \cup {p} PROVE inventory'[q.deed] = InVault(q)
    BY DEF UnboundLeft
  <2>1. CASE q = p
    BY <1>3, <2>1
  <2>2. CASE q \in unbound
    <3>1. inventory[q.deed] = InVault(q) /\ q.deed \in Deed
      BY <2>2, DeedOf DEF IInv, UnboundLeft, TypeOK, SaleTypeOK
    <3>2. q.deed # p.deed
      BY <1>4, <3>1 DEF InVault
    <3>3. QED BY <1>3, <3>1, <3>2
  <2>3. QED BY <2>1, <2>2
<1>8. QED BY <1>3, <1>5, <1>6, <1>7

\* Direct purchases P are paid, and those of them in B delivered.
LEMMA InvDirect ==
  ASSUME TypeOK, IInv, NEW P \in SUBSET Purchase, NEW B \in SUBSET P,
         \A p \in P : p.kind = "direct", \A p \in B : Holds(p), P \cap Trades \subseteq B,
         inventory' = Delivering(B), payment' = Paying(P),
         receipts' \subseteq receipts, UNCHANGED <<voucher, unbound>>
  PROVE  IInv'
<1>1. /\ \A p \in B : ~DeliveredTo(p) /\ DeliveredTo(p)'
      /\ \A p \in Purchase \ B : DeliveredTo(p)' <=> DeliveredTo(p)
      /\ ForItsDeed' /\ UnboundLeft'
      /\ \A d \in Deed : inventory'[d].at = "vault" =>
           \/ inventory[d] = inventory'[d]
           \/ \E p \in B : p.deed = d /\ inventory'[d] = InVault(p)
  BY Deliveries
<1>2. \A p \in Purchase : payment'[p] = IF p \in P THEN "taken" ELSE payment[p]
  BY DEF Paying
<1>3. ASSUME NEW d \in Deed, inventory'[d].at = "vault"
      PROVE  /\ inventory'[d].purchase.deed = d
             /\ inventory'[d].purchase \notin unbound' =>
                  /\ payment'[inventory'[d].purchase] = "taken"
                  /\ inventory'[d].purchase.kind = "presale" =>
                       voucher'[inventory'[d].purchase] = "redeemed"
  <2>1. CASE inventory[d] = inventory'[d]
    <3>1. inventory[d].purchase \in Purchase
      BY <1>3, <2>1, DeedForms DEF TypeOK
    <3>2. QED BY <1>2, <1>3, <2>1, <3>1 DEF IInv, DeliveredIsPaid
  <2>2. CASE \E p \in B : p.deed = d /\ inventory'[d] = InVault(p)
    BY <1>2, <2>2 DEF InVault
  <2>3. QED BY <1>1, <1>3, <2>1, <2>2
<1>4. DeliveredIsPaid'
  BY <1>3 DEF DeliveredIsPaid
<1>5. TakenIsDelivered'
  <2> SUFFICES ASSUME NEW p \in Trades, payment'[p] = "taken" PROVE DeliveredTo(p)'
    BY DEF TakenIsDelivered
  <2>1. CASE p \in B
    BY <1>1, <2>1
  <2>2. CASE p \notin B
    BY <1>1, <1>2, <2>2, TradesArePurchases DEF IInv, TakenIsDelivered
  <2>3. QED BY <2>1, <2>2
<1>6. HeldWithVoucher'
  BY <1>2 DEF IInv, HeldWithVoucher
<1>7. OutcomesAgree'
  BY <1>2, TradesArePurchases DEF IInv, OutcomesAgree, Presales
<1>8. ReceiptsAreBatches'
  BY DEF IInv, ReceiptsAreBatches
<1>9. QED BY <1>1, <1>4, <1>5, <1>6, <1>7, <1>8 DEF IInv

\* A redemption takes the payment of a trade only when the deed goes with it.
LEMMA DeedGoesAlong ==
  ASSUME NEW p \in Presales \cap Trades, NEW parts, Bundle(p, "redeem", parts),
         p \in Driven => parts = Whole("redeem"), "payment" \in parts
  PROVE  "deed" \in parts
<1>1. CASE p \in Driven
  BY <1>1 DEF Whole, Parts
<1>2. CASE p \notin Driven
  BY <1>2, PurchaseAssumption DEF Bundle, Trades, Presales, ChainRail
<1>3. QED BY <1>1, <1>2

\* A voucher that ends with the delivery of its deed.
LEMMA InvRedeem ==
  ASSUME TypeOK, IInv, NEW p \in Presales, NEW outcome \in Outcomes,
         NEW parts \in SUBSET Parts, EndVoucher(p, outcome, parts), InExchange(outcome, parts)
  PROVE  IInv'
<1>1. /\ p \in Purchase /\ Holds(p) /\ inventory' = Delivering({p}) /\ unbound' = unbound
      /\ voucher[p] = "held" /\ payment[p] = "held" /\ receipts' = receipts
      /\ voucher' = [voucher EXCEPT ![p] = "redeemed"]
      /\ payment' = [payment EXCEPT ![p] = "taken"]
  BY TradesArePurchases, JoinsHolding DEF EndVoucher, InExchange, Parts, Ended, Settled
<1>2. /\ \A q \in {p} : ~DeliveredTo(q) /\ DeliveredTo(q)'
      /\ \A q \in Purchase \ {p} : DeliveredTo(q)' <=> DeliveredTo(q)
      /\ ForItsDeed' /\ UnboundLeft'
      /\ \A d \in Deed : inventory'[d].at = "vault" =>
           \/ inventory[d] = inventory'[d]
           \/ \E q \in {p} : q.deed = d /\ inventory'[d] = InVault(q)
  <2> DEFINE B == {p}
  <2>1. /\ B \in SUBSET Purchase /\ (\A q \in B : Holds(q)) /\ inventory' = Delivering(B)
        /\ UNCHANGED unbound
    BY <1>1
  <2> HIDE DEF B
  <2>2. /\ \A q \in B : ~DeliveredTo(q) /\ DeliveredTo(q)'
        /\ \A q \in Purchase \ B : DeliveredTo(q)' <=> DeliveredTo(q)
        /\ ForItsDeed' /\ UnboundLeft'
        /\ \A d \in Deed : inventory'[d].at = "vault" =>
             \/ inventory[d] = inventory'[d]
             \/ \E q \in B : q.deed = d /\ inventory'[d] = InVault(q)
    BY <2>1, Deliveries
  <2>3. QED BY <2>2 DEF B
<1>3. /\ payment'[p] = "taken" /\ voucher'[p] = "redeemed"
      /\ \A q \in Purchase \ {p} : payment'[q] = payment[q] /\ voucher'[q] = voucher[q]
  BY <1>1 DEF TypeOK, SaleTypeOK
<1>4. DeliveredIsPaid'
  <2> SUFFICES ASSUME NEW d \in Deed, inventory'[d].at = "vault"
               PROVE  /\ inventory'[d].purchase.deed = d
                      /\ inventory'[d].purchase \notin unbound' =>
                           /\ payment'[inventory'[d].purchase] = "taken"
                           /\ inventory'[d].purchase.kind = "presale" =>
                                voucher'[inventory'[d].purchase] = "redeemed"
    BY DEF DeliveredIsPaid
  <2>1. CASE inventory[d] = inventory'[d]
    <3>1. inventory[d].purchase \in Purchase
      BY <2>1, DeedForms DEF TypeOK
    <3>2. QED BY <1>1, <1>3, <2>1, <3>1 DEF IInv, DeliveredIsPaid
  <2>2. CASE p.deed = d /\ inventory'[d] = InVault(p)
    BY <1>3, <2>2 DEF InVault
  <2>3. QED BY <1>2, <2>1, <2>2
<1>5. TakenIsDelivered'
  BY <1>2, <1>3, TradesArePurchases DEF IInv, TakenIsDelivered
<1>6. HeldWithVoucher'
  BY <1>3 DEF IInv, HeldWithVoucher, Presales
<1>7. OutcomesAgree'
  BY <1>3, TradesArePurchases DEF IInv, OutcomesAgree
<1>8. ReceiptsAreBatches'
  BY <1>1 DEF IInv, ReceiptsAreBatches
<1>9. QED BY <1>2, <1>4, <1>5, <1>6, <1>7, <1>8 DEF IInv

\* Any other spend of the series: a refund, an outcome that the voucher or the
\* payment does not join, or one with a deed that leaves unbound.
LEMMA InvUndelivered ==
  ASSUME TypeOK, IInv, NEW p \in Presales, NEW outcome \in Outcomes,
         NEW parts \in SUBSET Parts, EndVoucher(p, outcome, parts), ~InExchange(outcome, parts)
  PROVE  IInv' /\ \A q \in Purchase : DeliveredTo(q)' <=> DeliveredTo(q)
<1>1. p \in Purchase /\ p.kind = "presale" /\ receipts' = receipts
  BY DEF EndVoucher, Presales
<1>2. /\ \A q \in Purchase \ {p} : payment'[q] = payment[q] /\ voucher'[q] = voucher[q]
      /\ "payment" \notin parts => payment' = payment
      /\ "payment" \in parts => payment[p] = "held" /\ payment'[p] = Settled(outcome)
      /\ "voucher" \notin parts => voucher' = voucher
      /\ "voucher" \in parts => voucher[p] = "held" /\ voucher'[p] = Ended(outcome)
      /\ "payment" \in parts => "voucher" \in parts
  BY <1>1 DEF EndVoucher, Bundle, TypeOK, SaleTypeOK
<1>3. /\ \A q \in Purchase : DeliveredTo(q)' <=> DeliveredTo(q)
      /\ ForItsDeed' /\ UnboundLeft' /\ unbound \subseteq unbound'
      /\ \A d \in Deed : inventory'[d].at = "vault" =>
           \/ inventory[d] = inventory'[d]
           \/ p.deed = d /\ inventory'[d] = InVault(p) /\ p \in unbound'
  <2>1. CASE "deed" \in parts
    <3>1. Holds(p) /\ inventory' = Delivering({p}) /\ unbound' = unbound \cup {p}
      BY <2>1, JoinsHolding DEF EndVoucher
    <3>2. QED BY <1>1, <3>1, DeliversOne
  <2>2. CASE "deed" \notin parts
    <3>1. inventory' = inventory /\ unbound' = unbound
      BY <2>2 DEF EndVoucher
    <3>2. QED BY <3>1 DEF IInv, ForItsDeed, UnboundLeft, DeliveredTo
  <2>3. QED BY <2>1, <2>2
<1>5. DeliveredIsPaid'
  <2> SUFFICES ASSUME NEW d \in Deed, inventory'[d].at = "vault",
                      NEW q, q = inventory'[d].purchase
               PROVE  /\ q.deed = d
                      /\ q \notin unbound' =>
                           payment'[q] = "taken" /\ (q.kind = "presale" => voucher'[q] = "redeemed")
    BY DEF DeliveredIsPaid
  <2>1. CASE inventory[d] = inventory'[d]
    <3>1. /\ q \in Purchase /\ q.deed = d
          /\ q \notin unbound =>
               payment[q] = "taken" /\ (q.kind = "presale" => voucher[q] = "redeemed")
      BY <2>1, DeedForms DEF TypeOK, IInv, DeliveredIsPaid
    <3>2. QED BY <1>1, <1>2, <1>3, <3>1
  <2>2. CASE p.deed = d /\ inventory'[d] = InVault(p) /\ p \in unbound'
    BY <2>2 DEF InVault
  <2>3. QED BY <1>3, <2>1, <2>2
<1>6. TakenIsDelivered'
  <2> SUFFICES ASSUME NEW q \in Trades, payment'[q] = "taken" PROVE DeliveredTo(q)'
    BY DEF TakenIsDelivered
  <2>1. CASE payment[q] = "taken"
    BY <1>3, <2>1, TradesArePurchases DEF IInv, TakenIsDelivered
  <2>2. CASE payment[q] # "taken"
    <3>1. q = p /\ "payment" \in parts /\ Settled(outcome) = "taken"
      BY <1>2, <2>2, TradesArePurchases
    <3>2. outcome = "redeem"
      BY <3>1 DEF Settled
    <3>3. "deed" \in parts /\ "voucher" \in parts
      BY <1>2, <3>1, <3>2, DeedGoesAlong DEF EndVoucher
    <3>4. QED BY <3>1, <3>2, <3>3 DEF InExchange, Parts
  <2>3. QED BY <2>1, <2>2
<1>7. HeldWithVoucher'
  BY <1>1, <1>2 DEF IInv, HeldWithVoucher, Ended
<1>8. OutcomesAgree'
  <2> SUFFICES ASSUME NEW q \in Driven \cap Presales
               PROVE  <<voucher'[q], payment'[q]>> \in
                        {<<"none", "none">>, <<"held", "held">>,
                         <<"redeemed", "taken">>, <<"refunded", "returned">>}
    BY DEF OutcomesAgree
  <2>1. CASE q # p
    BY <1>2, <2>1, TradesArePurchases DEF IInv, OutcomesAgree
  <2>2. CASE q = p
    <3>1. parts = Whole(outcome)
      BY <2>2 DEF EndVoucher
    <3>2. outcome # "redeem" /\ "voucher" \in parts /\ "payment" \in parts
      BY <3>1 DEF Whole, Parts, InExchange
    <3>3. QED BY <1>2, <2>2, <3>2 DEF Ended, Settled
  <2>3. QED BY <2>1, <2>2
<1>9. ReceiptsAreBatches'
  BY <1>1 DEF IInv, ReceiptsAreBatches
<1>10. QED BY <1>3, <1>5, <1>6, <1>7, <1>8, <1>9 DEF IInv

\* A deed is reserved, a reservation extended or released.
LEMMA InvReservation ==
  ASSUME TypeOK, IInv, UNCHANGED voucher,
         \/ \E p \in Purchase, e \in Time : Reserve(p, e)
         \/ \E d \in Deed, e \in Time : Extend(d, e)
         \/ \E d \in Deed : TimeOut(d) \/ ReleaseFailure(d)
  PROVE  IInv' /\ \A p \in Purchase : DeliveredTo(p)' <=> DeliveredTo(p)
<1>1. ASSUME NEW p \in Purchase, NEW e \in Time, Reserve(p, e)
      PROVE  IInv' /\ \A q \in Purchase : DeliveredTo(q)' <=> DeliveredTo(q)
  <2>1. inventory[p.deed].at # "vault" /\ p.deed \in Deed
    BY <1>1, DeedOf DEF Reserve, Reservable, Available
  <2>2. Reserved(p, e).at # "vault" /\ Reserved(p, e).purchase.deed = p.deed
    BY DEF Reserved
  <2>3. inventory' = [inventory EXCEPT ![p.deed] = Reserved(p, e)]
        /\ UNCHANGED <<receipts, payment, unbound>>
    BY <1>1 DEF Reserve
  <2>4. QED BY <2>1, <2>2, <2>3, InvMove
<1>2. ASSUME NEW d \in Deed, NEW e \in Time, Extend(d, e)
      PROVE  IInv' /\ \A q \in Purchase : DeliveredTo(q)' <=> DeliveredTo(q)
  <2> DEFINE x == [inventory[d] EXCEPT !.expires = e]
  <2>1. inventory[d] = Reserved(inventory[d].purchase, inventory[d].expires)
    BY <1>2, DeedForms DEF Extend, Extendable, TypeOK
  <2>2. x.at = "reserved" /\ x.purchase = inventory[d].purchase
    BY <2>1 DEF Reserved
  <2>3. inventory[d].at = "reserved" /\ inventory[d].purchase.deed = d
    BY <1>2 DEF Extend, Extendable, IInv, ForItsDeed
  <2>4. inventory' = [inventory EXCEPT ![d] = x] /\ UNCHANGED <<receipts, payment, unbound>>
    BY <1>2 DEF Extend
  <2> HIDE DEF x
  <2>5. QED BY <2>2, <2>3, <2>4, InvMove
<1>3. ASSUME NEW d \in Deed, TimeOut(d) \/ ReleaseFailure(d)
      PROVE  IInv' /\ \A q \in Purchase : DeliveredTo(q)' <=> DeliveredTo(q)
  <2>1. Available.at = "available"
    BY DEF Available
  <2>2. inventory[d].at # "vault" /\ inventory' = [inventory EXCEPT ![d] = Available]
        /\ UNCHANGED <<receipts, payment, unbound>>
    BY <1>3 DEF TimeOut, ReleaseFailure, Release
  <2>3. QED BY <2>1, <2>2, InvMove
<1>4. QED BY <1>1, <1>2, <1>3

\* The trades of a native bundle are its purchases.
LEMMA NativeTrades ==
  ASSUME NEW B \in Batches, DeliverNative(B)
  PROVE  B \subseteq Trades /\ \A p \in B : Holds(p)
BY BatchMembers DEF DeliverNative, NativeChild, ModeAllows, Trades

\* The trades of a receipt are the driver's, all delivered with it.
LEMMA ReceiptTrades ==
  ASSUME TypeOK, IInv, NEW r \in receipts, NEW B \in SUBSET r.children, SettleReceipt(r, B)
  PROVE  /\ r.children \in SUBSET Purchase /\ \A p \in r.children : p.kind = "direct"
         /\ r.children \cap Trades \subseteq B
<1>1. r.children \in Batches /\ \A p \in r.children : p.rail \in ReceiptRail
  BY DEF IInv, ReceiptsAreBatches
<1>2. \A p \in r.children : p \in Trades => p \in Driven
  BY <1>1 DEF Trades, ChainRail, ReceiptRail
<1>3. r.children \cap Driven # {} => B = r.children
  BY DEF SettleReceipt, Complete
<1>4. QED BY <1>1, <1>2, <1>3, BatchMembers

LEMMA InvNative ==
  ASSUME TypeOK, IInv, UNCHANGED voucher, NEW B \in Batches, DeliverNative(B)
  PROVE  IInv'
<1>1. B \in SUBSET Purchase /\ (\A p \in B : p.kind = "direct") /\ (\A p \in B : Holds(p))
  BY BatchMembers, NativeTrades
<1>2. /\ inventory' = Delivering(B) /\ payment' = Paying(B) /\ receipts' \subseteq receipts
      /\ UNCHANGED unbound
  BY DEF DeliverNative
<1>3. B \in SUBSET B /\ B \cap Trades \subseteq B
  OBVIOUS
<1>4. QED BY <1>1, <1>2, <1>3, InvDirect

LEMMA InvReceipt ==
  ASSUME TypeOK, IInv, UNCHANGED voucher,
         NEW r \in receipts, NEW B \in SUBSET r.children, SettleReceipt(r, B)
  PROVE  IInv'
<1>1. /\ inventory' = Delivering(B) /\ payment' = Paying(r.children) /\ receipts' \subseteq receipts
      /\ UNCHANGED unbound /\ \A p \in B : Holds(p)
  BY DEF SettleReceipt, SingleChild, BatchChild
<1>2. QED BY <1>1, ReceiptTrades, InvDirect

LEMMA InvSell == ASSUME TypeOK, IInv, NEW p \in Presales, Sell(p) PROVE IInv'
<1>1. /\ p \in Purchase /\ p.kind = "presale" /\ payment[p] = "none"
      /\ inventory' = inventory /\ receipts' = receipts /\ unbound' = unbound
      /\ payment'[p] = "held" /\ voucher'[p] = "held"
      /\ \A q \in Purchase \ {p} : payment'[q] = payment[q] /\ voucher'[q] = voucher[q]
  BY DEF Sell, Presales, IInv, HeldWithVoucher, TypeOK, SaleTypeOK
<1>2. DeliveredIsPaid'
  <2> SUFFICES ASSUME NEW d \in Deed, inventory[d].at = "vault", NEW q, q = inventory[d].purchase
               PROVE  /\ q.deed = d
                      /\ q \notin unbound =>
                           payment'[q] = "taken" /\ (q.kind = "presale" => voucher'[q] = "redeemed")
    BY <1>1 DEF DeliveredIsPaid
  <2>1. /\ q \in Purchase /\ q.deed = d
        /\ q \notin unbound =>
             payment[q] = "taken" /\ (q.kind = "presale" => voucher[q] = "redeemed")
    BY DeedForms DEF TypeOK, IInv, DeliveredIsPaid
  <2>2. QED BY <1>1, <2>1
<1>3. TakenIsDelivered'
  BY <1>1, TradesArePurchases DEF IInv, TakenIsDelivered, DeliveredTo
<1>4. ForItsDeed' /\ UnboundLeft' /\ ReceiptsAreBatches'
  BY <1>1 DEF IInv, ForItsDeed, UnboundLeft, ReceiptsAreBatches
<1>5. HeldWithVoucher'
  BY <1>1 DEF IInv, HeldWithVoucher
<1>6. OutcomesAgree'
  BY <1>1, TradesArePurchases DEF IInv, OutcomesAgree
<1>7. QED BY <1>2, <1>3, <1>4, <1>5, <1>6 DEF IInv

LEMMA InvUnchanged ==
  ASSUME IInv, receipts' \subseteq receipts, UNCHANGED <<inventory, payment, voucher, unbound>>
  PROVE  IInv'
BY DEF IInv, ForItsDeed, UnboundLeft, DeliveredIsPaid, TakenIsDelivered, DeliveredTo, HeldWithVoucher,
       OutcomesAgree, ReceiptsAreBatches

\* A deed leaves unbound: no payment, voucher or receipt has changed.
LEMMA InvUnbound ==
  ASSUME TypeOK, IInv, NEW p \in Purchase, DeliverUnbound(p), UNCHANGED voucher
  PROVE  IInv' /\ \A q \in Purchase : DeliveredTo(q)' <=> DeliveredTo(q)
<1>1. /\ Holds(p) /\ inventory' = Delivering({p}) /\ unbound' = unbound \cup {p}
      /\ UNCHANGED <<receipts, payment, voucher>>
  BY DEF DeliverUnbound
<1>2. /\ \A q \in Purchase : DeliveredTo(q)' <=> DeliveredTo(q)
      /\ ForItsDeed' /\ UnboundLeft'
      /\ \A d \in Deed : inventory'[d].at = "vault" =>
           \/ inventory[d] = inventory'[d]
           \/ p.deed = d /\ inventory'[d] = InVault(p)
  BY <1>1, DeliversOne
<1>3. DeliveredIsPaid'
  <2> SUFFICES ASSUME NEW d \in Deed, inventory'[d].at = "vault",
                      NEW q, q = inventory'[d].purchase
               PROVE  /\ q.deed = d
                      /\ q \notin unbound' =>
                           payment'[q] = "taken" /\ (q.kind = "presale" => voucher'[q] = "redeemed")
    BY DEF DeliveredIsPaid
  <2>1. CASE inventory[d] = inventory'[d]
    <3>1. /\ q.deed = d
          /\ q \notin unbound =>
               payment[q] = "taken" /\ (q.kind = "presale" => voucher[q] = "redeemed")
      BY <2>1 DEF IInv, DeliveredIsPaid
    <3>2. QED BY <1>1, <3>1
  <2>2. CASE p.deed = d /\ inventory'[d] = InVault(p)
    BY <1>1, <2>2 DEF InVault
  <2>3. QED BY <1>2, <2>1, <2>2
<1>4. TakenIsDelivered'
  BY <1>1, <1>2, TradesArePurchases DEF IInv, TakenIsDelivered
<1>5. QED
  BY <1>1, <1>2, <1>3, <1>4 DEF IInv, HeldWithVoucher, OutcomesAgree, ReceiptsAreBatches

LEMMA InvNext == ASSUME TypeOK, IInv, [Next]_vars PROVE IInv'
<1>1. CASE SaleNext /\ UNCHANGED <<series, voucher>>
  <2>1. ASSUME NEW f \in Fundable, FundReceipt(f) PROVE IInv'
    <3>1. /\ \A r \in receipts' : r \in receipts \/ r = f.receipt
          /\ UNCHANGED <<inventory, payment, voucher, unbound>>
      BY <1>1, <2>1 DEF FundReceipt
    <3>2. ReceiptsAreBatches'
      BY <3>1, FundableType DEF IInv, ReceiptsAreBatches
    <3>3. QED
      BY <3>1, <3>2 DEF IInv, ForItsDeed, UnboundLeft, DeliveredIsPaid, TakenIsDelivered,
                        DeliveredTo, HeldWithVoucher, OutcomesAgree
  <2>2. QED BY <1>1, <2>1, InvReservation, InvNative, InvReceipt, InvUnbound DEF SaleNext
<1>2. CASE (\E anchor \in Time : Launch(anchor)) \/ Cancel
  BY <1>2, InvUnchanged DEF Launch, Cancel, saleVars
<1>3. CASE NextBlock
  BY <1>3, InvUnchanged DEF NextBlock, SaleNextBlock
<1>4. CASE UNCHANGED vars
  BY <1>4, InvUnchanged DEF vars
<1>5. QED BY <1>1, <1>2, <1>3, <1>4, InvSell, InvRedeem, InvUndelivered, AllowedOutcomes
        DEF Next

LEMMA Invariance == Spec => [](TypeOK /\ IInv)
<1>1. TypeOK /\ IInv /\ [Next]_vars => IInv'
  BY InvNext
<1>2. QED BY <1>1, InvInit, TypeCorrect, PTL DEF Spec

\* A deed in a buyer's vault is there for a purchase of that deed, and paid for, and
\* its voucher, if it was sold by voucher, redeemed, unless the delegate let it leave
\* on other announcements: for any bundles the puzzles allow, the driver's or not.
THEOREM DeliveriesArePaid == Spec => []DeliveredIsPaid
<1>1. IInv => DeliveredIsPaid
  BY DEF IInv
<1>2. QED BY <1>1, Invariance, PTL

\* In the driver's bundles a voucher and its payment are held together and end
\* together, one redeemed with the other taken, or both given back.
THEOREM OutcomesDoAgree == Spec => []OutcomesAgree
<1>1. IInv => OutcomesAgree
  BY DEF IInv
<1>2. QED BY <1>1, Invariance, PTL

----------------------------------------------------------------------------
LEMMA VouchersFinite ==
  \A S \in SUBSET Purchase : IsFiniteSet(S) /\ Cardinality(S) \in Nat
BY PurchaseAssumption, FS_Subset, FS_CardinalityType

LEMMA AccountsSell ==
  ASSUME TypeOK, SeriesAccounts, NEW p \in Presales, Sell(p)
  PROVE  SeriesAccounts'
<1> DEFINE S == {q \in Purchase : voucher[q] # "none"}
<1>1. p \in Purchase /\ p \notin S
  BY DEF Sell, Presales
<1>2. {q \in Purchase : voucher'[q] # "none"} = S \cup {p}
  BY <1>1 DEF Sell, TypeOK
<1>3. VouchersAt("redeemed")' = VouchersAt("redeemed")
      /\ VouchersAt("refunded")' = VouchersAt("refunded")
  BY <1>1 DEF Sell, TypeOK, VouchersAt
<1>4. IsFiniteSet(S) /\ Cardinality(S) = series.sold /\ Cardinality(S) \in Nat
  BY VouchersFinite DEF SeriesAccounts
<1> HIDE DEF S
<1>5. Cardinality(S \cup {p}) = series.sold + 1
  BY <1>1, <1>4, FS_AddElement
<1>6. /\ series'.sold = series.sold + 1
      /\ series'.redeemed = series.redeemed /\ series'.refunded = series.refunded
      /\ series.sold \in Nat /\ series.redeemed \in Nat /\ series.refunded \in Nat
  BY DEF Sell, TypeOK
<1>7. series'.sold = Cardinality({q \in Purchase : voucher'[q] # "none"})
  BY <1>2, <1>5, <1>6
<1>8. series'.redeemed + series'.refunded <= series'.sold
  BY <1>6 DEF SeriesAccounts
<1>9. /\ Cardinality(VouchersAt("redeemed")') <= series'.redeemed
      /\ Cardinality(VouchersAt("refunded")') <= series'.refunded
  BY <1>3, <1>6 DEF SeriesAccounts
<1>10. QED BY <1>7, <1>8, <1>9 DEF SeriesAccounts

\* The vouchers at s are as before, or one more has come.
LEMMA AccountsEnd ==
  ASSUME TypeOK, SeriesAccounts, NEW p \in Presales, NEW outcome \in Outcomes,
         NEW parts \in SUBSET Parts, EndVoucher(p, outcome, parts)
  PROVE  SeriesAccounts'
<1>1. p \in Purchase
  BY DEF Presales
<1>2. \/ voucher' = voucher
      \/ voucher[p] = "held" /\ voucher' = [voucher EXCEPT ![p] = Ended(outcome)]
  BY DEF EndVoucher
<1>3. {q \in Purchase : voucher'[q] # "none"} = {q \in Purchase : voucher[q] # "none"}
  BY <1>1, <1>2 DEF Ended, TypeOK
<1>4. ASSUME NEW s \in {"redeemed", "refunded"}
      PROVE  /\ Cardinality(VouchersAt(s)) \in Nat
             /\ Cardinality(VouchersAt(s)') <= Cardinality(VouchersAt(s))
                                                 + (IF Ended(outcome) = s THEN 1 ELSE 0)
  <2>1. VouchersAt(s)' = VouchersAt(s) \/ (Ended(outcome) = s /\ VouchersAt(s)' = VouchersAt(s) \cup {p})
    BY <1>1, <1>2 DEF VouchersAt, TypeOK
  <2>2. IsFiniteSet(VouchersAt(s)) /\ Cardinality(VouchersAt(s)) \in Nat
    BY VouchersFinite DEF VouchersAt
  <2>3. Cardinality(VouchersAt(s) \cup {p}) \in {Cardinality(VouchersAt(s)), Cardinality(VouchersAt(s)) + 1}
    BY <2>2, FS_AddElement
  <2>4. CASE VouchersAt(s)' = VouchersAt(s)
    BY <2>2, <2>4
  <2>5. CASE Ended(outcome) = s /\ VouchersAt(s)' = VouchersAt(s) \cup {p}
    BY <2>2, <2>3, <2>5
  <2>6. QED BY <2>1, <2>4, <2>5
<1>5. /\ series'.sold = series.sold
      /\ series'.redeemed = series.redeemed + (IF Ended(outcome) = "redeemed" THEN 1 ELSE 0)
      /\ series'.refunded = series.refunded + (IF Ended(outcome) = "refunded" THEN 1 ELSE 0)
      /\ series.sold \in Nat /\ series.redeemed \in Nat /\ series.refunded \in Nat
      /\ series.sold > series.refunded + series.redeemed
  BY DEF EndVoucher, Counted, Ended, SeriesAllows, TypeOK
<1>6. series'.sold = Cardinality({q \in Purchase : voucher'[q] # "none"})
  BY <1>3, <1>5 DEF SeriesAccounts
<1>7. series'.redeemed + series'.refunded <= series'.sold
  BY <1>5 DEF Ended
<1>8. Cardinality(VouchersAt("redeemed")') <= series'.redeemed
  <2>1. Cardinality(VouchersAt("redeemed")) <= series.redeemed
    BY DEF SeriesAccounts
  <2>2. Cardinality(VouchersAt("redeemed")') \in Nat
    BY VouchersFinite DEF VouchersAt
  <2>3. QED BY <1>4, <1>5, <2>1, <2>2
<1>9. Cardinality(VouchersAt("refunded")') <= series'.refunded
  <2>1. Cardinality(VouchersAt("refunded")) <= series.refunded
    BY DEF SeriesAccounts
  <2>2. Cardinality(VouchersAt("refunded")') \in Nat
    BY VouchersFinite DEF VouchersAt
  <2>3. QED BY <1>4, <1>5, <2>1, <2>2
<1>10. QED BY <1>6, <1>7, <1>8, <1>9 DEF SeriesAccounts

\* The counters of the series never run behind its vouchers, so the cap on
\* outcomes cannot let more vouchers end than were sold.
THEOREM SeriesDoesAccount == Spec => []SeriesAccounts
<1>1. Init => SeriesAccounts
  <2> SUFFICES ASSUME Init PROVE SeriesAccounts
    OBVIOUS
  <2>1. /\ {p \in Purchase : voucher[p] # "none"} = {}
        /\ VouchersAt("redeemed") = {} /\ VouchersAt("refunded") = {}
    BY DEF Init, VouchersAt
  <2>2. series.sold = 0 /\ series.redeemed = 0 /\ series.refunded = 0
    BY DEF Init
  <2>3. QED BY <2>1, <2>2, FS_EmptySet DEF SeriesAccounts
<1>2. TypeOK /\ SeriesAccounts /\ [Next]_vars => SeriesAccounts'
  <2> SUFFICES ASSUME TypeOK, SeriesAccounts, [Next]_vars PROVE SeriesAccounts'
    OBVIOUS
  <2>1. CASE UNCHANGED <<series, voucher>>
    BY <2>1 DEF SeriesAccounts, VouchersAt
  <2>2. CASE (\E anchor \in Time : Launch(anchor)) \/ Cancel
    <3>1. /\ series'.sold = series.sold /\ series'.redeemed = series.redeemed
          /\ series'.refunded = series.refunded /\ voucher' = voucher
      BY <2>2 DEF Launch, Cancel, TypeOK
    <3>2. QED BY <3>1 DEF SeriesAccounts, VouchersAt
  <2>3. QED
    BY <2>1, <2>2, AccountsSell, AccountsEnd, AllowedOutcomes DEF Next, NextBlock, vars
<1>3. QED BY <1>1, <1>2, TypeCorrect, PTL DEF Spec

----------------------------------------------------------------------------
(***************************************************************************)
(* The revenue.  What is taken is the artifact's amount, and a deed is     *)
(* only ever reserved for an artifact at the deed's own price; a receipt   *)
(* states the amounts of its artifacts, whatever was charged on top.       *)
(*                                                                         *)
(* First the sums: the library folds one chosen element at a time, and the *)
(* number of pairs that hold one unit each shows that the choice does not  *)
(* matter.                                                                 *)
(***************************************************************************)
Units(f, S) == UNION {{x} \X (1 .. f[x]) : x \in S}

\* The units of one element, of a finite set and of two disjoint ones.
LEMMA UnitsOfOne ==
  ASSUME NEW x, NEW n \in Nat
  PROVE  IsFiniteSet({x} \X (1 .. n)) /\ Cardinality({x} \X (1 .. n)) = n
<1>1. IsFiniteSet({x}) /\ Cardinality({x}) = 1
  BY FS_Singleton
<1>2. IsFiniteSet(1 .. n) /\ Cardinality(1 .. n) = n
  BY FS_Interval
<1>3. /\ IsFiniteSet({x} \X (1 .. n))
      /\ Cardinality({x} \X (1 .. n)) = Cardinality({x}) * Cardinality(1 .. n)
  BY <1>1, <1>2, FS_Product, Zenon
<1>4. QED BY <1>1, <1>2, <1>3

LEMMA UnitsFinite ==
  ASSUME NEW S, IsFiniteSet(S), NEW f, \A y \in S : f[y] \in Nat
  PROVE  IsFiniteSet(Units(f, S)) /\ Cardinality(Units(f, S)) \in Nat
<1> DEFINE parts == {{x} \X (1 .. f[x]) : x \in S}
<1>1. IsFiniteSet(parts)
  <2> DEFINE g == [x \in S |-> {x} \X (1 .. f[x])]
  <2>1. g \in Surjection(S, parts)
    BY DEF Surjection
  <2>2. QED BY <2>1, FS_Surjection
<1>2. ASSUME NEW T \in parts PROVE IsFiniteSet(T)
  <2>1. PICK x \in S : T = {x} \X (1 .. f[x])
    OBVIOUS
  <2>2. IsFiniteSet({x} \X (1 .. f[x]))
    BY UnitsOfOne, Zenon
  <2>3. QED BY <2>1, <2>2
<1>3. QED BY <1>1, <1>2, FS_UNION, FS_CardinalityType DEF Units

LEMMA UnitsUnion ==
  ASSUME NEW S, IsFiniteSet(S), NEW T, IsFiniteSet(T), S \cap T = {},
         NEW f, \A y \in S \cup T : f[y] \in Nat
  PROVE  Cardinality(Units(f, S \cup T)) = Cardinality(Units(f, S)) + Cardinality(Units(f, T))
<1> DEFINE A == Units(f, S)
           B == Units(f, T)
<1>1. Units(f, S \cup T) = A \cup B /\ A \cap B = {}
  BY DEF Units
<1>2. IsFiniteSet(A) /\ IsFiniteSet(B) /\ Cardinality(A) \in Nat /\ Cardinality(B) \in Nat
  BY UnitsFinite
<1> HIDE DEF A, B
<1>3. Cardinality(A \cup B) = Cardinality(A) + Cardinality(B)
  <2>1. Cardinality(A \cup B) = Cardinality(A) + Cardinality(B) - Cardinality(A \cap B)
    BY <1>2, FS_Union, Zenon
  <2>2. Cardinality(A \cap B) = 0
    BY <1>1, FS_EmptySet
  <2>3. QED BY <1>2, <2>1, <2>2
<1>4. QED BY <1>1, <1>3 DEF A, B

\* The sum recurs by taking away one element at a time.
First(s) == CHOOSE x \in s : TRUE

SumsDown(h, f, S) ==
  h = [s \in SUBSET S |-> IF s = {} THEN 0 ELSE f[First(s)] + h[s \ {First(s)}]]

LEMMA SumCounts ==
  ASSUME NEW S, IsFiniteSet(S), NEW f, \A y \in S : f[y] \in Nat
  PROVE  SumFunctionOnSet(f, S) = Cardinality(Units(f, S))
<1> DEFINE g == [s \in SUBSET S |-> Cardinality(Units(f, s))]
           h == CHOOSE h : SumsDown(h, f, S)
<1>1. SumsDown(g, f, S)
  <2>1. ASSUME NEW s \in SUBSET S, s # {} PROVE g[s] = f[First(s)] + g[s \ {First(s)}]
    <3> DEFINE x == First(s)
               rest == s \ {x}
    <3>1. x \in s
      BY <2>1 DEF First
    <3> HIDE DEF x
    <3>2. /\ IsFiniteSet({x}) /\ IsFiniteSet(rest) /\ {x} \cap rest = {} /\ {x} \cup rest = s
      BY <3>1, FS_Singleton, FS_Subset
    <3>3. Units(f, {x}) = {x} \X (1 .. f[x])
      BY DEF Units
    <3>4. Cardinality(Units(f, {x})) = f[x]
      BY <3>1, <3>3, UnitsOfOne
    <3>5. Cardinality(Units(f, {x} \cup rest)) =
            Cardinality(Units(f, {x})) + Cardinality(Units(f, rest))
      BY <3>1, <3>2, UnitsUnion
    <3>6. QED BY <3>1, <3>2, <3>4, <3>5 DEF x
  <2>2. g[{}] = 0
    BY FS_EmptySet DEF Units
  <2>3. QED BY <2>1, <2>2 DEF SumsDown
<1>2. SumsDown(h, f, S)
  BY <1>1
<1>3. SumFunctionOnSet(f, S) = h[S]
  BY DEF SumFunctionOnSet, FoldFunctionOnSet, MapThenFoldSet, SumsDown, First
<1> HIDE DEF g, h
<1>4. ASSUME NEW s \in SUBSET S PROVE h[s] = g[s]
  <2> DEFINE bad == {t \in SUBSET S : h[t] # g[t]}
  <2>1. SUFFICES ASSUME bad # {} PROVE FALSE
    OBVIOUS
  <2>2. IsWellFoundedOn(StrictSubsetOrdering(S), SUBSET S)
    BY FS_StrictSubsetOrderingWellFounded, FS_FiniteSubsetsOfFinite
  <2>3. PICK t \in bad : \A u \in bad : <<u, t>> \notin StrictSubsetOrdering(S)
    BY <2>1, <2>2, WFMin
  <2>4. t # {}
    BY <1>1, <1>2, <2>3 DEF SumsDown
  <2> DEFINE u == t \ {First(t)}
  <2>5. First(t) \in t
    BY <2>4 DEF First
  <2>6. u \in SUBSET S /\ <<u, t>> \in StrictSubsetOrdering(S)
    BY <2>5 DEF StrictSubsetOrdering
  <2>7. h[u] = g[u]
    BY <2>3, <2>6
  <2>8. h[t] = f[First(t)] + h[u] /\ g[t] = f[First(t)] + g[u]
    BY <1>1, <1>2, <2>4 DEF SumsDown
  <2>9. QED BY <2>7, <2>8
<1>5. QED BY <1>3, <1>4 DEF g, h

\* What f assigns to the elements of S, added up: a natural number.
Total(f, S) == SumFunction([x \in S |-> f[x]])

LEMMA TotalCounts ==
  ASSUME NEW S, IsFiniteSet(S), NEW f, \A y \in S : f[y] \in Nat
  PROVE  Total(f, S) = Cardinality(Units(f, S)) /\ Total(f, S) \in Nat
<1> DEFINE g == [x \in S |-> f[x]]
<1>1. Units(g, S) = Units(f, S)
  BY DEF Units
<1>2. SumFunctionOnSet(g, S) = Cardinality(Units(g, S))
  BY SumCounts
<1>3. Total(f, S) = SumFunctionOnSet(g, S)
  BY DEF Total, SumFunction
<1>4. QED BY <1>1, <1>2, <1>3, UnitsFinite

LEMMA TotalUnion ==
  ASSUME NEW S, IsFiniteSet(S), NEW T, IsFiniteSet(T), S \cap T = {},
         NEW f, \A y \in S \cup T : f[y] \in Nat
  PROVE  Total(f, S \cup T) = Total(f, S) + Total(f, T)
<1>1. IsFiniteSet(S \cup T)
  BY FS_Union
<1>2. QED BY <1>1, TotalCounts, UnitsUnion

LEMMA TotalEmpty == ASSUME NEW f PROVE Total(f, {}) = 0
<1>1. IsFiniteSet({}) /\ Units(f, {}) = {} /\ Cardinality({}) = 0
  BY FS_EmptySet DEF Units
<1>2. QED BY <1>1, TotalCounts

LEMMA TotalOne ==
  ASSUME NEW f, NEW x, f[x] \in Nat
  PROVE  Total(f, {x}) = f[x]
<1>1. IsFiniteSet({x}) /\ Units(f, {x}) = {x} \X (1 .. f[x]) /\ \A y \in {x} : f[y] \in Nat
  BY FS_Singleton DEF Units
<1>2. Total(f, {x}) = Cardinality(Units(f, {x}))
  BY <1>1, TotalCounts
<1>3. Cardinality({x} \X (1 .. f[x])) = f[x]
  BY UnitsOfOne
<1>4. QED BY <1>1, <1>2, <1>3

----------------------------------------------------------------------------
AmountOf == [p \in Purchase |-> artifact[p].amount]

Sold(rail) == {p \in Purchase : p.rail = rail /\ SoldFor(p)}

AllTrade(rail) == \A p \in Purchase : p.rail = rail => p \in Trades

\* A deed is reserved, and so sold, at its price.
ReservedAtPrice == \A d \in Deed : inventory[d].at # "available" => MatchesTerms(inventory[d].purchase)

ReceiptsExact == \A r \in receipts : r.amount = total_rail_amount(r.children)

RevenueIsSold == \A rail \in Rails : AllTrade(rail) => revenue[rail] = Total(AmountOf, Sold(rail))

RevenueInv == ReservedAtPrice /\ ReceiptsExact /\ RevenueIsSold

LEMMA AmountsNat == \A p \in Purchase : AmountOf[p] = artifact[p].amount /\ AmountOf[p] \in Nat
BY AmountAssumption DEF AmountOf

\* At the deed's price, the amount of an artifact is what is due.
LEMMA DueIsAmount ==
  ASSUME NEW p \in Purchase, MatchesTerms(p)
  PROVE  Due(p) = artifact[p].amount
<1>1. ValidArtifact(p)
  BY AmountAssumption
<1>2. artifact[p].amount = rail_amount(p.rail, artifact[p].subtotal, artifact[p].price)
  BY <1>1 DEF ValidArtifact, ValidRail
<1>3. QED BY <1>2 DEF Due, MatchesTerms

\* The amounts of a batch are a total.
LEMMA RailAmountIsTotal ==
  ASSUME NEW B \in SUBSET Purchase
  PROVE  total_rail_amount(B) = Total(AmountOf, B)
<1>1. [p \in B |-> artifact[p].amount] = [p \in B |-> AmountOf[p]]
  BY AmountsNat
<1>2. QED BY <1>1 DEF total_rail_amount, Total

\* What a batch has in common.
LEMMA BatchRail ==
  ASSUME NEW B \in Batches
  PROVE  B # {} /\ \A p, q \in B : p.rail = q.rail
BY DEF Batches

LEMMA RevenueHeld ==
  ASSUME RevenueIsSold, UNCHANGED revenue,
         \A p \in Purchase : SoldFor(p)' <=> SoldFor(p)
  PROVE  RevenueIsSold'
<1>1. \A rail : Sold(rail)' = Sold(rail)
  BY DEF Sold
<1>2. QED BY <1>1 DEF RevenueIsSold, AllTrade

\* Purchases of one rail are paid for with the total of their amounts.
LEMMA RevenueGrows ==
  ASSUME TypeOK, RevenueIsSold, NEW B \in SUBSET Purchase, B # {},
         \A p, q \in B : p.rail = q.rail, NEW amount, revenue' = Paid(B, amount),
         \A p \in Purchase : SoldFor(p)' <=> SoldFor(p) \/ p \in B,
         \A p \in B : AllTrade(p.rail) => amount = total_rail_amount(B) /\ ~SoldFor(p)
  PROVE  RevenueIsSold'
<1> DEFINE first == CHOOSE p \in B : TRUE
<1>1. first \in B /\ first \in Purchase
  OBVIOUS
<1>2. first.rail \in Rails
  BY <1>1, PurchaseAssumption DEF Rails
<1>3. revenue' = [revenue EXCEPT ![first.rail] = @ + amount] /\ DOMAIN revenue = Rails
  BY DEF Paid, TypeOK, SaleTypeOK
<1> HIDE DEF first
<1>4. ASSUME NEW rail \in Rails, AllTrade(rail)
      PROVE  revenue'[rail] = Total(AmountOf, Sold(rail)')
  <2>1. revenue[rail] = Total(AmountOf, Sold(rail))
    BY <1>4 DEF RevenueIsSold
  <2>2. CASE rail # first.rail
    <3>1. Sold(rail)' = Sold(rail)
      BY <1>1, <2>2 DEF Sold
    <3>2. revenue'[rail] = revenue[rail]
      BY <1>3, <2>2
    <3>3. QED BY <2>1, <3>1, <3>2
  <2>3. CASE rail = first.rail
    <3> DEFINE S == Sold(rail)
    <3>1. Sold(rail)' = S \cup B
      BY <1>1, <2>3 DEF Sold
    <3>2. S \in SUBSET Purchase /\ IsFiniteSet(S) /\ IsFiniteSet(B)
      BY VouchersFinite DEF Sold
    <3>3. amount = total_rail_amount(B) /\ S \cap B = {}
      BY <1>1, <1>4, <2>3 DEF Sold
    <3> HIDE DEF S
    <3>4. \A y \in S \cup B : AmountOf[y] \in Nat
      BY <3>2, AmountsNat
    <3>5. Total(AmountOf, S \cup B) = Total(AmountOf, S) + Total(AmountOf, B)
      BY <3>2, <3>3, <3>4, TotalUnion
    <3>6. revenue'[rail] = revenue[rail] + amount
      BY <1>3, <2>3
    <3>7. QED BY <2>1, <3>1, <3>3, <3>5, <3>6, RailAmountIsTotal DEF S
  <2>4. QED BY <2>2, <2>3
<1>5. QED BY <1>4 DEF RevenueIsSold, AllTrade

LEMMA PriceDelivered ==
  ASSUME TypeOK, ReservedAtPrice, NEW B \in SUBSET Purchase, \A p \in B : Holds(p),
         inventory' = Delivering(B)
  PROVE  ReservedAtPrice'
<1>1. ASSUME NEW d \in Deed, inventory'[d].at # "available"
      PROVE  inventory[d].at # "available" /\ inventory'[d].purchase = inventory[d].purchase
  <2>1. CASE d \in {p.deed : p \in B}
    BY <1>1, <2>1 DEF Holds, Delivering, InVault
  <2>2. CASE d \notin {p.deed : p \in B}
    BY <1>1, <2>2 DEF Delivering
  <2>3. QED BY <2>1, <2>2
<1>2. QED BY <1>1 DEF ReservedAtPrice

\* The receipt coins are worth what the deeds they are for cost.
LEMMA ReceiptAmount ==
  ASSUME NEW f \in Fundable
  PROVE  f.receipt.amount = total_rail_amount(f.receipt.children)
<1>1. PICK B \in Batches, v \in Evidence, e \in Time : f.receipt \in ReceiptsOn(B, v, e)
  BY DEF Fundable
<1> DEFINE r == f.receipt
<1>2. B \subseteq Purchase
  BY BatchMembers
<1>3. ASSUME NEW p \in B, B = {p}, r = SingleReceipt(p, e)
      PROVE  r.amount = total_rail_amount(r.children)
  <2>1. p \in Purchase /\ {p} \in SUBSET Purchase
    BY <1>2
  <2>2. Total(AmountOf, {p}) = artifact[p].amount
    BY <2>1, AmountsNat, TotalOne
  <2>3. r.amount = artifact[p].amount /\ r.children = {p}
    BY <1>3 DEF SingleReceipt
  <2>4. QED BY <2>1, <2>2, <2>3, RailAmountIsTotal
<1>4. CASE r = BatchReceipt(B, v, e) /\ ValidBatchReceipt(B, v, e)
  <2>1. v.amount = total_rail_amount(B) + v.charge
    BY <1>4 DEF ValidBatchReceipt
  <2>2. total_rail_amount(B) \in Nat /\ v.charge \in Nat
    <3>1. IsFiniteSet(B)
      BY <1>2, VouchersFinite
    <3>2. QED BY <1>2, <3>1, AmountsNat, RailAmountIsTotal, TotalCounts, AmountAssumption
  <2>3. r.amount = v.amount - v.charge /\ r.children = B
    BY <1>4 DEF BatchReceipt
  <2>4. QED BY <2>1, <2>2, <2>3
<1>5. QED BY <1>1, <1>3, <1>4 DEF ReceiptsOn

\* A purchase of the trades that holds its deed has not been settled yet.
LEMMA NotSoldYet ==
  ASSUME IInv, NEW p \in Trades, Holds(p)
  PROVE  ~SoldFor(p)
<1>1. inventory[p.deed].at = "reserved"
  BY DEF Holds
<1>2. payment[p] = "taken" \/ p \in unbound => inventory[p.deed] = InVault(p)
  BY DEF IInv, UnboundLeft, TakenIsDelivered, DeliveredTo
<1>3. InVault(p).at = "vault"
  BY DEF InVault
<1>4. QED BY <1>1, <1>2, <1>3 DEF SoldFor

LEMMA RevenueNative ==
  ASSUME TypeOK, IInv, RevenueInv, NEW B \in Batches, DeliverNative(B)
  PROVE  RevenueInv'
<1> USE DEF RevenueInv
<1>1. /\ B \in SUBSET Purchase /\ B # {} /\ \A p, q \in B : p.rail = q.rail
      /\ B \subseteq Trades /\ \A p \in B : Holds(p)
  BY BatchMembers, BatchRail, NativeTrades
<1>2. PICK o \in BuyerOffers :
        /\ PaysForBatch(o, B) \/ \E p \in Purchase : B = {p} /\ PaysFor(o, p)
        /\ revenue' = Paid(B, o.pays)
  BY DEF DeliverNative
<1>3. /\ inventory' = Delivering(B) /\ payment' = Paying(B) /\ receipts' = receipts
      /\ unbound' = unbound
  BY DEF DeliverNative
<1>4. o.pays = total_rail_amount(B)
  <2>1. ASSUME NEW p \in Purchase, B = {p}, PaysFor(o, p) PROVE o.pays = total_rail_amount(B)
    <3>1. Total(AmountOf, {p}) = artifact[p].amount
      BY AmountsNat, TotalOne
    <3>2. QED BY <1>1, <2>1, <3>1, RailAmountIsTotal DEF PaysFor
  <2>2. QED BY <1>2, <2>1 DEF PaysForBatch
<1>5. \A p \in Purchase : SoldFor(p)' <=> SoldFor(p) \/ p \in B
  BY <1>3 DEF Paying, SoldFor
<1>6. RevenueIsSold'
  BY <1>1, <1>2, <1>4, <1>5, NotSoldYet, RevenueGrows
<1>7. ReservedAtPrice'
  BY <1>1, <1>3, PriceDelivered
<1>8. QED BY <1>3, <1>6, <1>7 DEF ReceiptsExact

LEMMA RevenueReceipt ==
  ASSUME TypeOK, IInv, RevenueInv, NEW r \in receipts, NEW B \in SUBSET r.children,
         SettleReceipt(r, B)
  PROVE  RevenueInv'
<1> USE DEF RevenueInv
<1> DEFINE C == r.children
<1>1. /\ C \in Batches /\ C \in SUBSET Purchase /\ C \cap Trades \subseteq B
      /\ r.amount = total_rail_amount(C)
  BY ReceiptTrades DEF IInv, ReceiptsAreBatches, ReceiptsExact
<1>2. C # {} /\ \A p, q \in C : p.rail = q.rail
  BY <1>1, BatchRail
<1>3. /\ inventory' = Delivering(B) /\ payment' = Paying(C) /\ receipts' \subseteq receipts
      /\ revenue' = Paid(C, r.amount) /\ unbound' = unbound /\ \A p \in B : Holds(p)
  BY DEF SettleReceipt, SingleChild, BatchChild
<1> HIDE DEF C
<1>4. \A p \in Purchase : SoldFor(p)' <=> SoldFor(p) \/ p \in C
  BY <1>3 DEF Paying, SoldFor
<1>5. \A p \in C : AllTrade(p.rail) => r.amount = total_rail_amount(C) /\ ~SoldFor(p)
  BY <1>1, <1>3, NotSoldYet DEF AllTrade
<1>6. RevenueIsSold'
  BY <1>1, <1>2, <1>3, <1>4, <1>5, RevenueGrows
<1>7. ReservedAtPrice'
  <2>1. B \in SUBSET Purchase
    BY <1>1 DEF C
  <2>2. QED BY <1>3, <2>1, PriceDelivered
<1>8. QED BY <1>3, <1>6, <1>7 DEF ReceiptsExact

LEMMA RevenueEnds ==
  ASSUME TypeOK, IInv, RevenueInv, NEW p \in Presales, NEW outcome \in Outcomes,
         NEW parts \in SUBSET Parts, EndVoucher(p, outcome, parts)
  PROVE  RevenueInv'
<1> USE DEF RevenueInv
<1> DEFINE B == {p}
<1>1. p \in Purchase /\ B \in SUBSET Purchase /\ receipts' = receipts
  BY TradesArePurchases DEF EndVoucher
<1>2. ReservedAtPrice'
  <2>1. CASE "deed" \in parts
    <3>1. inventory' = Delivering(B) /\ \A q \in B : Holds(q)
      BY <2>1, JoinsHolding DEF EndVoucher
    <3> HIDE DEF B
    <3>2. QED BY <1>1, <3>1, PriceDelivered
  <2>2. CASE "deed" \notin parts
    BY <2>2 DEF EndVoucher, ReservedAtPrice
  <2>3. QED BY <2>1, <2>2
<1>3. /\ \A q \in Purchase \ B : payment'[q] = payment[q] /\ (q \in unbound' <=> q \in unbound)
      /\ "payment" \in parts => payment[p] = "held" /\ payment'[p] = Settled(outcome)
      /\ "payment" \notin parts => payment'[p] = payment[p]
      /\ p \in unbound' <=> p \in unbound \/ ("deed" \in parts /\ ~InExchange(outcome, parts))
  BY <1>1 DEF EndVoucher, TypeOK, SaleTypeOK
<1>4. \A q \in Purchase \ B : SoldFor(q)' <=> SoldFor(q)
  BY <1>3 DEF SoldFor
<1>5. p.rail \in ChainRail => p.rail = "xch"
  BY <1>1, PurchaseAssumption DEF Presales, ChainRail
<1>6. RevenueIsSold'
  <2>1. CASE PaysSeller(p, outcome, parts)
    <3>1. revenue' = Paid(B, artifact[p].amount)
      BY <2>1 DEF EndVoucher
    <3>2. SoldFor(p)'
      BY <1>3, <2>1 DEF SoldFor, PaysSeller, InExchange, Parts, Settled
    <3>3. AllTrade(p.rail) => ~SoldFor(p)
      <4>1. CASE p.rail \in ChainRail
        <5>1. Holds(p)
          BY <2>1, <4>1, JoinsHolding DEF EndVoucher, PaysSeller
        <5>2. QED BY <1>1, <5>1, NotSoldYet DEF AllTrade
      <4>2. CASE p.rail \notin ChainRail
        BY <1>3, <2>1, <4>2 DEF PaysSeller, SoldFor
      <4>3. QED BY <4>1, <4>2
    <3>4. artifact[p].amount = total_rail_amount(B)
      BY <1>1, AmountsNat, TotalOne, RailAmountIsTotal
    <3>5. /\ B # {} /\ \A q, u \in B : q.rail = u.rail
          /\ \A q \in Purchase : SoldFor(q)' <=> SoldFor(q) \/ q \in B
          /\ \A q \in B : AllTrade(q.rail) => ~SoldFor(q)
      BY <1>4, <3>2, <3>3
    <3> HIDE DEF B
    <3>6. QED BY <1>1, <3>1, <3>4, <3>5, RevenueGrows
  <2>2. CASE ~PaysSeller(p, outcome, parts)
    <3>1. UNCHANGED revenue
      BY <2>2 DEF EndVoucher
    <3>2. SoldFor(p)' <=> SoldFor(p)
      BY <1>3, <1>5, <2>2 DEF EndVoucher, Bundle, SoldFor, PaysSeller, Settled
    <3>3. QED BY <1>4, <3>1, <3>2, RevenueHeld
  <2>3. QED BY <2>1, <2>2
<1>7. QED BY <1>1, <1>2, <1>6 DEF ReceiptsExact

LEMMA RevenueUnbound ==
  ASSUME TypeOK, IInv, RevenueInv, NEW p \in Purchase, DeliverUnbound(p)
  PROVE  RevenueInv'
<1> USE DEF RevenueInv
<1> DEFINE B == {p}
<1>1. /\ B \in SUBSET Purchase /\ B # {} /\ \A q, u \in B : q.rail = u.rail
      /\ \A q \in B : Holds(q)
      /\ inventory' = Delivering(B) /\ unbound' = unbound \cup B
      /\ UNCHANGED <<receipts, payment>>
  BY DEF DeliverUnbound
<1>2. artifact[p].amount = total_rail_amount(B)
  BY <1>1, AmountsNat, TotalOne, RailAmountIsTotal
<1>3. CASE p.rail \in ChainRail
  <2>1. \A q \in Purchase : SoldFor(q)' <=> SoldFor(q) \/ q \in B
    BY <1>1, <1>3 DEF SoldFor
  <2>2. revenue' = Paid(B, artifact[p].amount)
    BY <1>3 DEF DeliverUnbound
  <2>3. \A q \in B : AllTrade(q.rail) => ~SoldFor(q)
    BY <1>1, NotSoldYet DEF AllTrade
  <2> HIDE DEF B
  <2>4. RevenueIsSold'
    BY <1>1, <1>2, <2>1, <2>2, <2>3, RevenueGrows
  <2>5. QED BY <1>1, <2>4, PriceDelivered DEF ReceiptsExact
<1>4. CASE p.rail \notin ChainRail
  <2>1. UNCHANGED revenue /\ \A q \in Purchase : SoldFor(q)' <=> SoldFor(q)
    BY <1>1, <1>4 DEF DeliverUnbound, SoldFor
  <2> HIDE DEF B
  <2>2. QED BY <1>1, <2>1, RevenueHeld, PriceDelivered DEF ReceiptsExact
<1>5. QED BY <1>3, <1>4

LEMMA RevenueReserves ==
  ASSUME TypeOK, IInv, RevenueInv,
         \/ \E p \in Purchase, e \in Time : Reserve(p, e)
         \/ \E d \in Deed, e \in Time : Extend(d, e)
         \/ \E d \in Deed : TimeOut(d) \/ ReleaseFailure(d)
  PROVE  RevenueInv'
<1> USE DEF RevenueInv
<1>1. UNCHANGED <<receipts, payment, revenue, unbound>>
  BY DEF Reserve, Extend, TimeOut, ReleaseFailure, Release
<1>2. RevenueIsSold' /\ ReceiptsExact'
  BY <1>1, RevenueHeld DEF ReceiptsExact, SoldFor
<1>3. ASSUME NEW p \in Purchase, NEW e \in Time, Reserve(p, e) PROVE ReservedAtPrice'
  <2>1. \A d \in Deed : inventory'[d] = IF d = p.deed THEN Reserved(p, e) ELSE inventory[d]
    BY <1>3 DEF Reserve, TypeOK, SaleTypeOK
  <2>2. Reserved(p, e).purchase = p /\ MatchesTerms(p)
    BY <1>3 DEF Reserve, Reserved
  <2>3. QED BY <2>1, <2>2 DEF ReservedAtPrice
<1>4. ASSUME NEW d \in Deed, NEW e \in Time, Extend(d, e) PROVE ReservedAtPrice'
  <2>1. \A c \in Deed : inventory'[c] = IF c = d THEN [inventory[d] EXCEPT !.expires = e]
                                                ELSE inventory[c]
    BY <1>4 DEF Extend, TypeOK, SaleTypeOK
  <2>2. inventory[d] = Reserved(inventory[d].purchase, inventory[d].expires)
    BY <1>4, DeedForms DEF Extend, Extendable, TypeOK
  <2>3. inventory[d].at # "available"
    BY <1>4 DEF Extend, Extendable
  <2>4. [inventory[d] EXCEPT !.expires = e].purchase = inventory[d].purchase
    BY <2>2 DEF Reserved
  <2>5. QED BY <2>1, <2>3, <2>4 DEF ReservedAtPrice
<1>5. ASSUME NEW d \in Deed, Release(d) PROVE ReservedAtPrice'
  BY <1>5 DEF Release, Available, ReservedAtPrice, TypeOK, SaleTypeOK
<1>6. QED BY <1>2, <1>3, <1>4, <1>5 DEF TimeOut, ReleaseFailure

LEMMA RevenueNext ==
  ASSUME TypeOK, IInv, RevenueInv, [Next]_vars
  PROVE  RevenueInv'
<1> USE DEF RevenueInv
<1>1. ASSUME UNCHANGED <<inventory, revenue, unbound>>, receipts' \subseteq receipts,
             \A p \in Purchase : payment'[p] = "taken" <=> payment[p] = "taken"
      PROVE  RevenueInv'
  BY <1>1, RevenueHeld DEF ReservedAtPrice, ReceiptsExact, SoldFor
<1>2. CASE SaleNext
  <2>1. ASSUME NEW f \in Fundable, FundReceipt(f) PROVE RevenueInv'
    <3>1. receipts' = receipts \cup {f.receipt} /\ UNCHANGED <<inventory, payment, revenue, unbound>>
      BY <2>1 DEF FundReceipt
    <3>2. ReceiptsExact'
      BY <3>1, ReceiptAmount DEF ReceiptsExact
    <3>3. RevenueIsSold'
      BY <3>1, RevenueHeld DEF SoldFor
    <3>4. QED BY <3>1, <3>2, <3>3 DEF ReservedAtPrice
  <2>2. QED BY <1>2, <2>1, RevenueReserves, RevenueNative, RevenueReceipt, RevenueUnbound
       DEF SaleNext
<1>3. ASSUME NEW p \in Presales, Sell(p) PROVE RevenueInv'
  <2>1. p \in Purchase /\ payment[p] = "none"
    BY <1>3, TradesArePurchases DEF Sell, IInv, HeldWithVoucher, Presales
  <2>2. QED BY <1>1, <1>3, <2>1 DEF Sell, TypeOK, SaleTypeOK
<1>4. CASE (\E anchor \in Time : Launch(anchor)) \/ Cancel \/ NextBlock \/ UNCHANGED vars
  BY <1>1, <1>4 DEF Launch, Cancel, NextBlock, SaleNextBlock, vars, saleVars
<1>5. QED BY <1>2, <1>3, <1>4, RevenueEnds, AllowedOutcomes DEF Next

LEMMA RevenueInit == Init => RevenueInv
<1> SUFFICES ASSUME Init PROVE RevenueInv
  OBVIOUS
<1>1. /\ \A d \in Deed : inventory[d].at = "available"
      /\ receipts = {} /\ \A rail \in Rails : revenue[rail] = 0
      /\ \A rail : Sold(rail) = {}
  BY DEF Init, SaleInit, Available, Sold, SoldFor
<1>2. QED
  BY <1>1, TotalEmpty DEF RevenueInv, ReservedAtPrice, ReceiptsExact, RevenueIsSold

\* The sellers are paid for every settled trade, once and what the deed's governed
\* price comes to: in a native bundle, for a receipt with or without a surcharge,
\* alone or in a batch, through a voucher, or on a chain rail without it.
THEOREM RevenueIsExact == Spec => []RevenueExact
<1>1. TypeOK /\ IInv /\ RevenueInv => RevenueExact
  <2> SUFFICES ASSUME TypeOK, IInv, RevenueInv, NEW rail \in Rails, AllTrade(rail)
               PROVE  revenue[rail] = SumFunction([p \in Sold(rail) |-> Due(p)])
    BY DEF RevenueExact, AllTrade, Sold
  <2>1. ASSUME NEW p \in Sold(rail) PROVE Due(p) = AmountOf[p]
    <3>1. p \in Purchase /\ inventory[p.deed] = InVault(p) /\ p.deed \in Deed
      BY <2>1, DeedOf
         DEF Sold, SoldFor, AllTrade, IInv, UnboundLeft, TakenIsDelivered, DeliveredTo
    <3>2. MatchesTerms(p)
      BY <3>1 DEF RevenueInv, ReservedAtPrice, InVault
    <3>3. QED BY <3>1, <3>2, DueIsAmount, AmountsNat
  <2>2. [p \in Sold(rail) |-> Due(p)] = [p \in Sold(rail) |-> AmountOf[p]]
    BY <2>1
  <2>3. QED BY <2>2 DEF RevenueInv, RevenueIsSold, Total
<1>2. TypeOK /\ IInv /\ RevenueInv /\ [Next]_vars => RevenueInv'
  BY RevenueNext
<1>3. QED BY <1>1, <1>2, RevenueInit, Invariance, PTL DEF Spec

----------------------------------------------------------------------------
\* Where a purchase that is not settled yet stands.
LEMMA StageBefore ==
  ASSUME TypeOK, IInv, NEW p \in Trades, Holds(p),
         p.kind = "direct" \/ payment[p] = "held"
  PROVE  StageOf(p) \in {"open", "paid"} /\ ~DeliveredTo(p)
<1>1. ~DeliveredTo(p)
  BY DEF Holds, DeliveredTo, InVault
<1>2. payment[p] \in {"none", "held"}
  BY <1>1, TradesArePurchases DEF IInv, TakenIsDelivered, HeldWithVoucher
<1>3. QED BY <1>1, <1>2 DEF StageOf

\* A delivery of the deeds of B is one of the trades among them.
LEMMA DeliverStep ==
  ASSUME TypeOK, IInv, NEW B \in SUBSET Purchase, NEW P,
         \A p \in B : Holds(p) /\ (p.kind = "direct" \/ payment[p] = "held"),
         \A p, q \in B : p.deed = q.deed => p = q,
         inventory' = Delivering(B), UNCHANGED unbound, P \cap Trades \subseteq B, B \subseteq P,
         \A p \in Purchase : payment'[p] = IF p \in P THEN "taken" ELSE payment[p]
  PROVE  E!Next
<1> DEFINE D == B \cap Trades
           stage == [p \in Trades |-> StageOf(p)]
<1>1. /\ \A p \in B : ~DeliveredTo(p) /\ DeliveredTo(p)'
      /\ \A p \in Purchase \ B : DeliveredTo(p)' <=> DeliveredTo(p)
  BY Deliveries
<1>2. ASSUME NEW p \in Trades PROVE StageOf(p)' = IF p \in D THEN "delivered" ELSE StageOf(p)
  <2>1. CASE p \in D
    BY <1>1, <2>1, TradesArePurchases DEF StageOf
  <2>2. CASE p \notin D
    <3>1. payment'[p] = payment[p] /\ (DeliveredTo(p)' <=> DeliveredTo(p))
      BY <1>1, <2>2, TradesArePurchases
    <3>2. QED BY <2>2, <3>1 DEF StageOf
  <2>3. QED BY <2>1, <2>2
<1>3. \A t \in D : StageOf(t) \in {"open", "paid"}
  BY StageBefore
<1>4. ASSUME NEW t \in D, NEW u \in Trades, t.deed = u.deed, t # u
      PROVE  u \notin D /\ StageOf(u) # "delivered"
  <2>1. inventory[u.deed].at = "reserved"
    BY <1>4 DEF Holds
  <2>2. ~DeliveredTo(u)
    BY <2>1 DEF DeliveredTo, InVault
  <2>3. QED BY <1>4, <2>2 DEF StageOf
<1>5. stage' = [t \in Trades |-> IF t \in D THEN "delivered" ELSE stage[t]]
  BY <1>2
<1>6. \A t \in D : stage[t] \in {"open", "paid"}
  BY <1>3
<1>7. \A t \in D, u \in Trades :
        ItemOf[t] = ItemOf[u] /\ t # u => u \notin D /\ stage[u] # "delivered"
  BY <1>4 DEF ItemOf
<1>8. D \in SUBSET Trades /\ E!Deliver(D)
  BY <1>5, <1>6, <1>7 DEF E!Deliver, E!CanDeliver
<1>9. D \in SUBSET E!Moved
  BY <1>5, <1>6 DEF E!Moved
<1>10. QED BY <1>8, <1>9 DEF E!Next

\* Nothing that a trade is made of has changed.
LEMMA StageUntouched ==
  ASSUME \A p \in Trades : payment'[p] = payment[p] /\ (DeliveredTo(p)' <=> DeliveredTo(p))
  PROVE  UNCHANGED [p \in Trades |-> StageOf(p)]
<1>1. \A p \in Trades : StageOf(p)' = StageOf(p)
  BY DEF StageOf
<1>2. QED BY <1>1

\* One trade moves on.
LEMMA StageMoves ==
  ASSUME NEW p \in Trades, NEW s, StageOf(p)' = s,
         \A q \in Trades \ {p} : payment'[q] = payment[q] /\ (DeliveredTo(q)' <=> DeliveredTo(q))
  PROVE  [q \in Trades |-> StageOf(q)]' = [[q \in Trades |-> StageOf(q)] EXCEPT ![p] = s]
<1>1. \A q \in Trades : StageOf(q)' = IF q = p THEN s ELSE StageOf(q)
  BY DEF StageOf
<1>2. QED BY <1>1

LEMMA ExchangeStarts == Init => E!Init
<1> SUFFICES ASSUME Init PROVE E!Init
  OBVIOUS
<1>1. \A p \in Trades : payment[p] = "none" /\ ~DeliveredTo(p)
  BY DeedOf, TradesArePurchases DEF Init, SaleInit, DeliveredTo, Available, InVault
<1>2. \A p \in Trades : StageOf(p) = "open"
  BY <1>1 DEF StageOf
<1>3. QED BY <1>2 DEF E!Init

LEMMA ExchangeSells ==
  ASSUME TypeOK, IInv, NEW p \in Presales, Sell(p)
  PROVE  E!Next \/ UNCHANGED [q \in Trades |-> StageOf(q)]
<1>1. /\ p \in Purchase /\ payment[p] = "none" /\ payment'[p] = "held"
      /\ \A q \in Purchase \ {p} : payment'[q] = payment[q]
      /\ \A q \in Purchase : DeliveredTo(q)' <=> DeliveredTo(q)
  BY DEF Sell, Presales, IInv, HeldWithVoucher, TypeOK, SaleTypeOK, DeliveredTo
<1>2. ~DeliveredTo(p)
  BY <1>1, DeedOf DEF IInv, DeliveredIsPaid, DeliveredTo, InVault
<1>3. CASE p \in Trades
  <2>1. StageOf(p) = "open" /\ StageOf(p)' = "paid"
    BY <1>1, <1>2 DEF StageOf
  <2>2. E!Pay(p)
    BY <1>1, <1>3, <2>1, StageMoves, TradesArePurchases DEF E!Pay
  <2>3. p \in E!Moved
    BY <1>3, <2>1 DEF E!Moved
  <2>4. QED BY <2>2, <2>3 DEF E!Next
<1>4. CASE p \notin Trades
  BY <1>1, <1>4, StageUntouched, TradesArePurchases
<1>5. QED BY <1>3, <1>4

LEMMA ExchangeEnds ==
  ASSUME TypeOK, IInv, NEW p \in Presales, NEW outcome \in Outcomes,
         NEW parts \in SUBSET Parts, EndVoucher(p, outcome, parts)
  PROVE  E!Next \/ UNCHANGED [q \in Trades |-> StageOf(q)]
<1>1. p \in Purchase
  BY TradesArePurchases
<1>2. CASE InExchange(outcome, parts)
  <2> DEFINE B == {p}
  <2>1. /\ Holds(p) /\ inventory' = Delivering(B) /\ unbound' = unbound
        /\ payment[p] = "held" /\ payment' = [payment EXCEPT ![p] = "taken"]
    BY <1>2, JoinsHolding DEF EndVoucher, InExchange, Parts, Settled
  <2>2. /\ B \in SUBSET Purchase /\ B \cap Trades \subseteq B /\ B \subseteq B
        /\ \A q \in B : Holds(q) /\ (q.kind = "direct" \/ payment[q] = "held")
        /\ \A q, u \in B : q.deed = u.deed => q = u
        /\ \A q \in Purchase : payment'[q] = IF q \in B THEN "taken" ELSE payment[q]
    BY <1>1, <2>1 DEF TypeOK, SaleTypeOK
  <2> HIDE DEF B
  <2>3. E!Next
    BY <2>1, <2>2, DeliverStep
  <2>4. QED BY <2>3
<1>3. CASE ~InExchange(outcome, parts)
  <2>1. \A q \in Purchase : DeliveredTo(q)' <=> DeliveredTo(q)
    BY <1>3, InvUndelivered
  <2>2. CASE "payment" \notin parts \/ p \notin Trades
    <3>1. \A q \in Trades : payment'[q] = payment[q]
      BY <1>1, <2>2, TradesArePurchases DEF EndVoucher, TypeOK, SaleTypeOK
    <3>2. QED BY <2>1, <3>1, StageUntouched, TradesArePurchases
  <2>3. CASE "payment" \in parts /\ p \in Trades
    <3>1. outcome # "redeem"
      BY <1>3, <2>3, DeedGoesAlong DEF EndVoucher, Bundle, InExchange, Parts
    <3>2. /\ payment[p] = "held" /\ payment'[p] = "returned"
          /\ \A q \in Purchase \ {p} : payment'[q] = payment[q]
      BY <1>1, <2>3, <3>1 DEF EndVoucher, Settled, TypeOK, SaleTypeOK
    <3>3. ~DeliveredTo(p)
      BY <1>1, <3>2, DeedOf DEF IInv, DeliveredIsPaid, DeliveredTo, InVault
    <3>4. StageOf(p) = "paid" /\ StageOf(p)' = "refunded"
      BY <1>1, <2>1, <3>2, <3>3 DEF StageOf
    <3>5. E!Refund(p)
      BY <2>1, <2>3, <3>2, <3>4, StageMoves, TradesArePurchases DEF E!Refund
    <3>6. p \in E!Moved
      BY <2>3, <3>4 DEF E!Moved
    <3>7. QED BY <3>5, <3>6 DEF E!Next
  <2>4. QED BY <2>2, <2>3
<1>4. QED BY <1>2, <1>3

LEMMA ExchangeDirect ==
  ASSUME TypeOK, IInv, SaleNext, UNCHANGED <<series, voucher>>
  PROVE  E!Next \/ UNCHANGED [q \in Trades |-> StageOf(q)]
<1>1. CASE \/ \E p \in Purchase, e \in Time : Reserve(p, e)
           \/ \E d \in Deed, e \in Time : Extend(d, e)
           \/ \E d \in Deed : TimeOut(d) \/ ReleaseFailure(d)
  <2>1. /\ \A p \in Purchase : DeliveredTo(p)' <=> DeliveredTo(p)
        /\ payment' = payment
    BY <1>1, InvReservation DEF Reserve, Extend, TimeOut, ReleaseFailure, Release
  <2>2. QED BY <2>1, StageUntouched, TradesArePurchases
<1>2. ASSUME NEW B \in Batches, DeliverNative(B) PROVE E!Next
  <2>1. /\ B \in SUBSET Purchase /\ \A p \in B : Holds(p) /\ p.kind = "direct"
        /\ \A p, q \in B : p.deed = q.deed => p = q
    BY <1>2, BatchMembers, NativeTrades
  <2>2. inventory' = Delivering(B) /\ payment' = Paying(B) /\ UNCHANGED unbound
    BY <1>2 DEF DeliverNative
  <2>3. \A p \in Purchase : payment'[p] = IF p \in B THEN "taken" ELSE payment[p]
    BY <2>2 DEF Paying
  <2>4. B \cap Trades \subseteq B /\ B \subseteq B
    OBVIOUS
  <2>5. QED BY <2>1, <2>2, <2>3, <2>4, DeliverStep
<1>3. ASSUME NEW f \in Fundable, FundReceipt(f)
      PROVE  UNCHANGED [q \in Trades |-> StageOf(q)]
  BY <1>3, StageUntouched DEF FundReceipt, DeliveredTo
<1>4. ASSUME NEW r \in receipts, NEW B \in SUBSET r.children, SettleReceipt(r, B) PROVE E!Next
  <2>1. r.children \in Batches /\ r.children \in SUBSET Purchase /\ r.children \cap Trades \subseteq B
        /\ \A p \in r.children : p.kind = "direct"
    BY <1>4, ReceiptTrades DEF IInv, ReceiptsAreBatches
  <2>2. /\ \A p \in B : Holds(p) /\ p.kind = "direct"
        /\ \A p, q \in B : p.deed = q.deed => p = q
    <3>1. \A p, q \in r.children : p.deed = q.deed => p = q
      BY <2>1, BatchMembers
    <3>2. QED BY <1>4, <2>1, <3>1 DEF SettleReceipt, SingleChild, BatchChild
  <2>3. inventory' = Delivering(B) /\ payment' = Paying(r.children) /\ UNCHANGED unbound
    BY <1>4 DEF SettleReceipt
  <2>4. \A p \in Purchase : payment'[p] = IF p \in r.children THEN "taken" ELSE payment[p]
    BY <2>3 DEF Paying
  <2>5. B \in SUBSET Purchase /\ B \subseteq r.children
    BY <2>1
  <2>6. QED BY <2>1, <2>2, <2>3, <2>4, <2>5, DeliverStep
<1>5. ASSUME NEW p \in Purchase, DeliverUnbound(p)
      PROVE  UNCHANGED [q \in Trades |-> StageOf(q)]
  <2>1. \A q \in Purchase : payment'[q] = payment[q] /\ (DeliveredTo(q)' <=> DeliveredTo(q))
    BY <1>5, InvUnbound DEF DeliverUnbound
  <2>2. QED BY <2>1, StageUntouched, TradesArePurchases
<1>6. QED BY <1>1, <1>2, <1>3, <1>4, <1>5 DEF SaleNext

\* Each purchase made with the driver's bundles, and each one on a chain rail
\* whatever its bundle, is an exchange of a payment for a deed, and takes no payment
\* once its deed has left unbound: for every set of deeds and purchases, every batch,
\* every timeout and every order of spends.
THEOREM Refinement == Spec => ImplementsExchange
<1>1. TypeOK /\ IInv /\ [Next]_vars => [E!Next]_[p \in Trades |-> StageOf(p)]
  <2> SUFFICES ASSUME TypeOK, IInv, [Next]_vars
               PROVE  E!Next \/ UNCHANGED [p \in Trades |-> StageOf(p)]
    OBVIOUS
  <2>1. CASE (\E anchor \in Time : Launch(anchor)) \/ Cancel \/ NextBlock \/ UNCHANGED vars
    BY <2>1, StageUntouched
       DEF Launch, Cancel, NextBlock, SaleNextBlock, vars, saleVars, DeliveredTo
  <2>2. QED BY <2>1, ExchangeSells, ExchangeEnds, ExchangeDirect, AllowedOutcomes DEF Next
<1>2. QED BY ExchangeStarts, <1>1, Invariance, PTL DEF Spec, ImplementsExchange, E!Spec
=============================================================================
